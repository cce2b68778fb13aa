------------------------- MODULE SubscriptionProfile -------------------------
(***************************************************************************)
(* The end of a subscription: the payment and validation pages of the      *)
(* front, the two handlers they call, and the contracts these handlers     *)
(* create and activate on the holder's mobility profile.                   *)
(*                                                                         *)
(* The subscriptions start where ContractSignature leaves them, ready to   *)
(* be paid.  A handler is cut at its writes: what it reads together is     *)
(* read in one step, since no two of those reads depend on rows the same   *)
(* concurrent step changes.  The account is one; what other accounts do    *)
(* with the same profiles is what AddContract and RegisterRight do.        *)
(***************************************************************************)
EXTENDS Mobility, Integers, Sequences, FiniteSets

CONSTANTS
    Tabs,            \* browser tabs, each with at most one request under way
    Subscriptions,   \* subscription contracts of the account
    Names,           \* normalised names
    Holder,          \* the name of each subscription's holder
    NameOf,          \* the names of the identities: two may have the same
    MaxContracts     \* bound on the contracts of the profiles

ASSUME TabsAssumption == IsFiniteSet(Tabs)
ASSUME BoundAssumption == MaxContracts \in Nat
ASSUME HolderAssumption == Holder \in [Subscriptions -> Names]
ASSUME NameOfAssumption == NameOf \in [Identities -> Names]

VARIABLES
    status,      \* status of each subscription contract
    contracts,   \* table mobility contracts, in the order of insertion
    transportRights,      \* table transport_rights: the contract each right was made from
    linked,      \* identities the account has an active relationship with
    page,        \* what each tab shows
    request,     \* the request of each tab under way in the back
    validated    \* history: subscriptions that have been validated

profileVars == <<status, contracts, transportRights, linked, page, request, validated>>

SubscriptionStatus ==
    {"en_attente_paiement", "en_attente_de_validation_documentaire", "actif"}

\* PENDING stands for draft, pending_document, pending_payment and
\* pending_payer_signature, OTHER for suspended, expired, cancelled and
\* blocked_unpaid.  from orders the rows by validFrom.
\* for: history, the subscription whose payment created the contract.
Contract ==
    [identity : Identities, status : {"PENDING", "ACTIVE", "OTHER"}, from : Nat,
     for : Subscriptions \cup {Null}]

ContractIds == 1 .. Len(contracts)

\* complete: the page says that the title is active on the profile.
Page ==
    [at : {"paiement", "validation"}, of : Subscriptions, seen : SubscriptionStatus,
     complete : BOOLEAN]
    \cup {Null}

PageRequest ==
    [pc : {"paySave", "sync", "create", "validateSave", "activate", "update", "reply"},
     call : {"confirmPayment", "confirmValidation"},
     of : Subscriptions,
     identity : Identities \cup {Null},     \* the holder's, once found
     contract : Nat]                        \* the contract to activate
    \cup {Null}

ProfileTypeOK ==
    /\ status \in [Subscriptions -> SubscriptionStatus]
    /\ contracts \in Seq(Contract)
    /\ transportRights \subseteq ContractIds
    /\ linked \subseteq Identities
    /\ page \in [Tabs -> Page]
    /\ request \in [Tabs -> PageRequest]
    /\ validated \subseteq Subscriptions

ProfileInit ==
    /\ status = [s \in Subscriptions |-> "en_attente_paiement"]
    /\ contracts = <<>>
    /\ transportRights = {}
    /\ linked \in SUBSET Identities
    /\ page = [t \in Tabs |-> Null]
    /\ request = [t \in Tabs |-> Null]
    /\ validated = {}

Goto(t, pc) == request' = [request EXCEPT ![t].pc = pc]
Start(t, call, pc) ==
    [pc |-> pc, call |-> call, of |-> page[t].of, identity |-> Null, contract |-> 0]

-----------------------------------------------------------------------------
(* The pages. *)

Show(t, at, s) ==
    page' = [page EXCEPT ![t] =
        [at |-> at, of |-> s, seen |-> status[s],
         complete |-> at = "validation" /\ status[s] = "actif"]]

\* A subscription that is paid is shown on the validation page.
OpenPaiement(t, s) ==
    /\ request[t] = Null
    /\ Show(t, IF status[s] = "en_attente_paiement" THEN "paiement" ELSE "validation", s)
    /\ UNCHANGED <<status, contracts, transportRights, linked, request, validated>>

OpenValidation(t, s) ==
    /\ request[t] = Null
    /\ Show(t, "validation", s)
    /\ UNCHANGED <<status, contracts, transportRights, linked, request, validated>>

NeedsDemoPaymentConfirm(t) ==
    page[t].seen \in {"actif", "en_attente_paiement"}

NeedsDemoValidationConfirm(t) ==
    /\ page[t].at = "validation"
    /\ ~page[t].complete
    /\ page[t].seen = "en_attente_de_validation_documentaire"

\* The tab is closed or leaves the page; the back finishes what it was asked.
Leave(t) ==
    /\ page[t] # Null
    /\ page' = [page EXCEPT ![t] = Null]
    /\ UNCHANGED <<status, contracts, transportRights, linked, request, validated>>

-----------------------------------------------------------------------------
(* The payment is confirmed. *)

\* The contract is read: its status decides.  The pay button of the payment page
\* stays after a failure; the validation page has one of its own.
ConfirmPayment(t) ==
    /\ page[t] # Null
    /\ request[t] = Null
    /\ page[t].at = "paiement" \/ NeedsDemoPaymentConfirm(t)
    /\ request' = [request EXCEPT ![t] =
        Start(t, "confirmPayment",
              IF status[page[t].of] = "en_attente_de_validation_documentaire"
              THEN "sync" ELSE "paySave")]
    /\ UNCHANGED <<status, contracts, transportRights, linked, page, validated>>

PaySave(t) ==
    /\ request[t] # Null
    /\ request[t].pc = "paySave"
    /\ status' = [status EXCEPT ![request[t].of] = "en_attente_de_validation_documentaire"]
    /\ Goto(t, "sync")
    /\ UNCHANGED <<contracts, transportRights, linked, page, validated>>

\* Mutant: any identity of the account will do.
AnyIdentity(s) == linked

\* The identities find may return: those of the account with the holder's name.
FindHolderIdentity(s) == {i \in linked : NameOf[i] = Holder[s]}

Pending(i) == {c \in ContractIds : contracts[c].identity = i /\ contracts[c].status = "PENDING"}

\* The rows come with the latest validFrom first.
FirstPending(i) ==
    {c \in Pending(i) : \A d \in Pending(i) : contracts[d].from <= contracts[c].from}

SyncRead(t) ==
    /\ request[t] # Null
    /\ request[t].pc = "sync"
    /\ LET found == FindHolderIdentity(request[t].of) IN
        \/ /\ found = {}
           /\ Goto(t, "reply")
        \/ \E i \in found :
            request' = [request EXCEPT ![t].pc = IF Pending(i) = {} THEN "create" ELSE "reply",
                                       ![t].identity = i]
    /\ UNCHANGED <<status, contracts, transportRights, linked, page, validated>>

SyncCreate(t) ==
    /\ request[t] # Null
    /\ request[t].pc = "create"
    /\ Len(contracts) < MaxContracts
    /\ contracts' = Append(contracts,
        [identity |-> request[t].identity, status |-> "PENDING",
         from |-> Len(contracts) + 1, for |-> request[t].of])
    /\ Goto(t, "reply")
    /\ UNCHANGED <<status, transportRights, linked, page, validated>>

-----------------------------------------------------------------------------
(* The dossier is validated. *)

ConfirmValidation(t) ==
    /\ page[t] # Null
    /\ request[t] = Null
    /\ NeedsDemoValidationConfirm(t)
    /\ status[page[t].of] # "en_attente_paiement"
    /\ request' = [request EXCEPT ![t] =
        Start(t, "confirmValidation",
              IF status[page[t].of] = "actif" THEN "activate" ELSE "validateSave")]
    /\ UNCHANGED <<status, contracts, transportRights, linked, page, validated>>

ValidateSave(t) ==
    /\ request[t] # Null
    /\ request[t].pc = "validateSave"
    /\ status' = [status EXCEPT ![request[t].of] = "actif"]
    /\ validated' = validated \cup {request[t].of}
    /\ Goto(t, "activate")
    /\ UNCHANGED <<contracts, transportRights, linked, page>>

\* The first pending contract of the holder, whichever subscription it came from.
ActivateRead(t) ==
    /\ request[t] # Null
    /\ request[t].pc = "activate"
    /\ LET found == FindHolderIdentity(request[t].of) IN
        \/ /\ found = {}
           /\ Goto(t, "reply")
        \/ \E i \in found :
            \/ /\ Pending(i) = {}
               /\ request' = [request EXCEPT ![t].pc = "reply", ![t].identity = i]
            \/ \E c \in FirstPending(i) :
                request' = [request EXCEPT ![t].pc = "update", ![t].identity = i,
                                           ![t].contract = c]
    /\ UNCHANGED <<status, contracts, transportRights, linked, page, validated>>

\* updateStatus writes the one column.
ActivateUpdate(t) ==
    /\ request[t] # Null
    /\ request[t].pc = "update"
    /\ contracts' = [contracts EXCEPT ![request[t].contract].status = "ACTIVE"]
    /\ Goto(t, "reply")
    /\ UNCHANGED <<status, transportRights, linked, page, validated>>

Answer(t, call) ==
    /\ request[t] # Null
    /\ request[t].pc = "reply"
    /\ request[t].call = call
    /\ request' = [request EXCEPT ![t] = Null]
    /\ UNCHANGED <<status, contracts, transportRights, linked, validated>>

\* The beneficiary's page is shown when an identity was found, else the validation
\* page with the contract read again.
ReplyPayment(t) ==
    /\ Answer(t, "confirmPayment")
    /\ \/ /\ page[t] = Null
          /\ UNCHANGED page
       \/ /\ page[t] # Null
          /\ request[t].identity # Null
          /\ page' = [page EXCEPT ![t] = Null]
       \/ /\ page[t] # Null
          /\ request[t].identity = Null
          /\ Show(t, "validation", request[t].of)

\* The beneficiary's page, else the page as it is, which says the title is active.
ReplyValidation(t) ==
    /\ Answer(t, "confirmValidation")
    /\ \/ /\ page[t] = Null
          /\ UNCHANGED page
       \/ /\ page[t] # Null
          /\ request[t].identity # Null
          /\ page' = [page EXCEPT ![t] = Null]
       \/ /\ page[t] # Null
          /\ request[t].identity = Null
          /\ page' = [page EXCEPT ![t].seen = "actif", ![t].complete = TRUE]

\* A call of the handler fails, or the process stops: what was saved stays, the page
\* shows the error and its button again.
Fail(t) ==
    /\ request[t] # Null
    /\ request' = [request EXCEPT ![t] = Null]
    /\ UNCHANGED <<status, contracts, transportRights, linked, page, validated>>

-----------------------------------------------------------------------------
(* What else changes the profiles. *)

\* A contract is added from its form, with any status and dates.  The dates order
\* pending contracts only: before or after those that payments create.
AddContract(i, new, from) ==
    /\ Len(contracts) < MaxContracts
    /\ contracts' = Append(contracts,
        [identity |-> i, status |-> new, from |-> from, for |-> Null])
    /\ UNCHANGED <<status, transportRights, linked, page, request, validated>>

\* A right is made from an active contract of the identity, once or more.
RegisterTransportRight(c) ==
    /\ contracts[c].status = "ACTIVE"
    /\ transportRights' = transportRights \cup {c}
    /\ UNCHANGED <<status, contracts, linked, page, request, validated>>

\* The account's relationship with an identity is created or revoked.
Relate(i) ==
    /\ linked' = IF i \in linked THEN linked \ {i} ELSE linked \cup {i}
    /\ UNCHANGED <<status, contracts, transportRights, page, request, validated>>

-----------------------------------------------------------------------------
Payment(t) ==
    ConfirmPayment(t) \/ PaySave(t) \/ SyncRead(t) \/ SyncCreate(t) \/ ReplyPayment(t)

Validation(t) ==
    \/ ConfirmValidation(t)
    \/ ValidateSave(t)
    \/ ActivateRead(t)
    \/ ActivateUpdate(t)
    \/ ReplyValidation(t)

ProfileNext ==
    \/ \E t \in Tabs, s \in Subscriptions : OpenPaiement(t, s) \/ OpenValidation(t, s)
    \/ \E t \in Tabs : Payment(t) \/ Validation(t) \/ Fail(t) \/ Leave(t)
    \/ \E i \in Identities, from \in {0, MaxContracts + 1} : AddContract(i, "PENDING", from)
    \/ \E i \in Identities, new \in {"ACTIVE", "OTHER"} : AddContract(i, new, 0)
    \/ \E c \in ContractIds : RegisterTransportRight(c)
    \/ \E i \in Identities : Relate(i)

ProfileSpec == ProfileInit /\ [][ProfileNext]_profileVars

-----------------------------------------------------------------------------
(* Properties. *)

\* A payment creates a contract only when the holder has none pending: what the
\* payments leave pending on a profile, with what they are about to add, is never
\* more than there are requests at a time, however often each is repeated.
PendingBound ==
    \A i \in Identities :
        Cardinality({c \in ContractIds : /\ contracts[c].identity = i
                                 /\ contracts[c].status = "PENDING"
                                 /\ contracts[c].for # Null})
            + Cardinality({t \in Tabs : /\ request[t] # Null
                                        /\ request[t].pc = "create"
                                        /\ request[t].identity = i})
        <= Cardinality(Tabs)

\* A contract that a payment put on a profile is active only if a subscription for
\* a holder of that name has been validated; that it is the same subscription is
\* not promised, as the first pending contract is taken.
ActiveAfterValidation ==
    \A c \in ContractIds :
        contracts[c].for # Null /\ contracts[c].status = "ACTIVE" =>
            \E s \in validated : Holder[s] = NameOf[contracts[c].identity]

\* The contract behind a right is active for as long as the right exists, whatever
\* payments and validations are repeated later.
RightBacked == \A c \in transportRights : contracts[c].status = "ACTIVE"

\* What payments and validations, repeated and overlapping, leave on the profiles.
ProfileFollowsSubscriptions == PendingBound /\ ActiveAfterValidation /\ RightBacked
=============================================================================
