-------------------------- MODULE ContractSignature --------------------------
(***************************************************************************)
(* The subscription contract from its creation to its activation           *)
(* (back/src/modules/contracts, the contract half of webhooks and          *)
(* ContractDocumentGateService of justificatifs).                          *)
(*                                                                         *)
(* The back end runs as several replicas (docker/stack.swarm.yml) over one *)
(* PostgreSQL database, without transactions, locks or version columns.    *)
(* Every HTTP handler is an async function: between two awaits it holds a  *)
(* private copy of the contract while the other handlers, the poller and   *)
(* YouSign's webhooks run.  Here each handler is a record (`request`) with *)
(* a program counter and that copy, and each action runs one handler from  *)
(* one await to the next.                                                  *)
(***************************************************************************)
EXTENDS Naturals, FiniteSets

CONSTANTS
    Contracts,          \* contract ids
    SignatureRequests,  \* YouSign signature_request ids
    Requests,           \* handlers that may be in flight at the same time
    Replicas,           \* Node.js processes running the back end
    Null,               \* SQL NULL, JavaScript null
    MaxDeliveries       \* bound: times YouSign delivers one event

ASSUME NullAssumption ==
    /\ Null \notin Contracts
    /\ Null \notin SignatureRequests
    /\ Null \notin Replicas

ASSUME DeliveriesAssumption == MaxDeliveries \in Nat

VARIABLES
    row,              \* table subscription_contracts: the two columns the handlers change
    acceptances,      \* table cgvu_acceptances: rows per contract and request
    documentsReady,   \* contractDocumentsComplete of the contract's uploads
    yousign,          \* YouSign's signature requests
    deliveries,       \* webhook deliveries of a request's final event so far
    processedEvents,  \* in memory, per replica: ids of the events dispatched
    request,          \* handlers in flight
    wasReady, paid    \* history: documents were once complete, payment confirmed

vars == <<row, acceptances, documentsReady, yousign, deliveries,
          processedEvents, request, wasReady, paid>>

-----------------------------------------------------------------------------
(* Data *)

\* ContractStatus, the values some handler writes ("absent": no such row yet).
Status == {"absent", "en_attente_de_justificatif", "en_attente_de_signature_payeur",
           "signature_en_cours", "en_attente_paiement",
           "en_attente_de_validation_documentaire", "actif"}

\* What a contract may only become once the CGVU are accepted.
SignedStatus == {"en_attente_paiement", "en_attente_de_validation_documentaire", "actif"}

Row == [status : Status, sr : SignatureRequests \cup {Null}]

Absent == [status |-> "absent", sr |-> Null]

\* YouSign's view: "expired" stands for every status of REVERT_STATUSES that no
\* webhook of the application handles (expired, canceled, rejected).
YouSignState == {"none", "ongoing", "done", "declined", "expired"}

Operation == {"none", "sign", "poll", "gate", "pay", "validate", "done", "declined"}

Pc == {"idle", "load", "ready", "sync", "fetch", "lookup", "record", "synced", "gate",
       "uploads", "advanced", "reload", "create", "find", "select", "update"}

Request ==
    [op    : Operation,
     pc    : Pc,
     at    : Replicas \cup {Null},           \* the process that runs it
     on    : Contracts \cup {Null},          \* the contract it works on
     event : SignatureRequests \cup {Null},  \* webhooks: the request the event names
     snap  : Row,                            \* its private copy of the contract
     base  : Row,                            \* save(): the row TypeORM compared with
     then  : {"idle", "synced", "advanced"}] \* where it goes on after save()

Idle == [op |-> "none", pc |-> "idle", at |-> Null, on |-> Null, event |-> Null,
         snap |-> Absent, base |-> Absent, then |-> "idle"]

TypeOK ==
    /\ row \in [Contracts -> Row]
    /\ acceptances \in [Contracts -> [SignatureRequests -> Nat]]
    /\ documentsReady \in [Contracts -> BOOLEAN]
    /\ yousign \in [SignatureRequests ->
                      [state : YouSignState, externalId : Contracts \cup {Null}]]
    /\ deliveries \in [SignatureRequests -> Nat]
    /\ processedEvents \in [Replicas -> SUBSET SignatureRequests]
    /\ request \in [Requests -> Request]
    /\ wasReady \in [Contracts -> BOOLEAN]
    /\ paid \in [Contracts -> BOOLEAN]

Init ==
    /\ row = [c \in Contracts |-> Absent]
    /\ acceptances = [c \in Contracts |-> [sr \in SignatureRequests |-> 0]]
    /\ documentsReady = [c \in Contracts |-> FALSE]
    /\ yousign = [sr \in SignatureRequests |-> [state |-> "none", externalId |-> Null]]
    /\ deliveries = [sr \in SignatureRequests |-> 0]
    /\ processedEvents = [r \in Replicas |-> {}]
    /\ request = [h \in Requests |-> Idle]
    /\ wasReady = [c \in Contracts |-> FALSE]
    /\ paid = [c \in Contracts |-> FALSE]

-----------------------------------------------------------------------------
(* A handler's step.  It ends at pc "idle"; where it is about to read the   *)
(* contract again it holds no copy of it any more.                          *)

Holding == {"ready", "fetch", "lookup", "record", "uploads", "create", "select", "update"}

Goto(h, pc, snap) ==
    request' = [request EXCEPT ![h] =
                  IF pc = "idle" THEN Idle
                  ELSE [@ EXCEPT !.pc = pc, !.base = Absent,
                                 !.snap = IF pc \in Holding THEN snap ELSE Absent]]

At(h, ops, pc) == request[h].op \in ops /\ request[h].pc = pc

Snap(h) == request[h].snap

Found(h) == row[request[h].on]

\* The copy after an assignment to contract.status.
WithStatus(r, s) == [r EXCEPT !.status = s]

database == <<row, acceptances>>
external == <<documentsReady, yousign, deliveries, wasReady>>

\* Only the handler itself moves: a read, or a local assignment.
Local == UNCHANGED <<database, external, processedEvents, paid>>

-----------------------------------------------------------------------------
(* HTTP entry points.  The owner check of the handlers is not modelled: a   *)
(* request by somebody else ends there and changes nothing.                 *)

Entry == [sign |-> "load", poll |-> "sync", gate |-> "gate", pay |-> "load",
          validate |-> "load"]

Begin(h, op, c, r) ==
    /\ request[h] = Idle
    /\ row[c].status # "absent"
    /\ request' = [request EXCEPT ![h] =
                     [Idle EXCEPT !.op = op, !.pc = Entry[op], !.at = r, !.on = c]]
    /\ Local

RequestSignature(h, c, r) == Begin(h, "sign", c, r)
\* GET :id and GET :id/signature and the CGVU preview: syncIfPending.
PollSignature(h, c, r) == Begin(h, "poll", c, r)
\* tryAdvanceContract, called when a document's status has just changed.
DocumentDecided(h, c, r) == Begin(h, "gate", c, r)
ConfirmPayment(h, c, r) == Begin(h, "pay", c, r)
ConfirmValidation(h, c, r) == Begin(h, "validate", c, r)

CreateContract(c) ==
    /\ row[c].status = "absent"
    /\ row' = [row EXCEPT ![c] = [status |-> "en_attente_de_justificatif", sr |-> Null]]
    /\ UNCHANGED <<acceptances, external, processedEvents, request, paid>>

-----------------------------------------------------------------------------
(* TypeOrmContractRepository.save: TypeORM selects the row, compares it with *)
(* the entity column by column, and updates the columns that differ.         *)

SelectForSave(h) ==
    /\ request[h].pc = "select"
    /\ request' = [request EXCEPT ![h].pc = "update", ![h].base = Found(h)]
    /\ Local

Merged(cur, base, snap) ==
    [status |-> IF snap.status # base.status THEN snap.status ELSE cur.status,
     sr     |-> IF snap.sr # base.sr THEN snap.sr ELSE cur.sr]

UpdateForSave(h) ==
    LET q == request[h] IN
    /\ q.pc = "update"
    /\ row' = [row EXCEPT ![q.on] = Merged(@, q.base, q.snap)]
    /\ paid' = [paid EXCEPT ![q.on] = @ \/ q.op = "pay"]
    /\ Goto(h, q.then, Absent)
    /\ UNCHANGED <<acceptances, external, processedEvents>>

-----------------------------------------------------------------------------
(* SignContractUseCase.execute *)

SignLoad(h) ==
    /\ At(h, {"sign"}, "load")
    /\ Goto(h, "ready", Found(h))
    /\ Local

\* Where the status checks lead: to the signature, through the document gate,
\* or to an answer ("alreadySigned", the link of the pending request, an error).
AfterChecks(status) ==
    CASE status = "en_attente_de_signature_payeur" -> "reload"
      [] status = "en_attente_de_justificatif" -> "gate"
      [] OTHER -> "idle"

\* Mutant: a pending signature is replaced without asking YouSign about it.
ResignWithoutSync(status) ==
    IF status = "signature_en_cours" THEN "reload" ELSE AfterChecks(status)

AfterDocuments(status) ==
    IF status = "signature_en_cours" THEN "sync" ELSE AfterChecks(status)

SignCheckDocuments(h) ==
    /\ At(h, {"sign"}, "ready")
    /\ Goto(h, IF documentsReady[request[h].on] THEN AfterDocuments(Snap(h).status) ELSE "idle",
            Absent)
    /\ Local

\* The contract is read again before the PDF is made; its status is not checked.
SignReload(h) ==
    /\ At(h, {"sign"}, "reload")
    /\ Goto(h, "create", Found(h))
    /\ Local

\* createAndActivateSignatureRequest, then startSignature on the copy.  A failure
\* of one of the four calls it makes is a Fail step: what YouSign keeps then is
\* a draft nobody can sign.
SignCreate(h) ==
    /\ At(h, {"sign"}, "create")
    /\ \E sr \in SignatureRequests :
         /\ yousign[sr].state = "none"
         /\ yousign' = [yousign EXCEPT ![sr] =
                          [state |-> "ongoing", externalId |-> request[h].on]]
         /\ request' = [request EXCEPT
                          ![h].pc = "select", ![h].then = "idle",
                          ![h].snap = [status |-> "signature_en_cours", sr |-> sr]]
    /\ UNCHANGED <<database, documentsReady, deliveries, wasReady, processedEvents, paid>>

-----------------------------------------------------------------------------
(* ContractSignatureSyncService.syncIfPending, called by the signature use   *)
(* case ("sign") and by the endpoints the front end polls ("poll").          *)

SyncLoad(h) ==
    LET c == Found(h) IN
    /\ At(h, {"sign", "poll"}, "sync")
    /\ IF c.status = "signature_en_cours" /\ c.sr # Null
       THEN request' = [request EXCEPT ![h].pc = "fetch", ![h].snap = c,
                                       ![h].then = "synced"]
       ELSE Goto(h, IF request[h].op = "sign" THEN AfterChecks(c.status) ELSE "idle", Absent)
    /\ Local

\* Mutants: an expiry is not recognised; everything that has ended counts as signed.
ExpiryForgotten == {"declined"}
AnyEndIsDone(state) == state # "ongoing"

REVERT_STATUSES == {"declined", "expired"}
IsDone(state) == state = "done"

\* getSignatureRequest: done, reverted, or still pending (the copy is then saved with
\* the signature link refreshed and the columns kept here as they were read).
SyncFetch(h) ==
    LET state == yousign[Snap(h).sr].state IN
    /\ At(h, {"sign", "poll"}, "fetch")
    /\ IF IsDone(state)
       THEN Goto(h, "lookup", Snap(h))
       ELSE Goto(h, "select",
                 IF state \in REVERT_STATUSES
                 THEN WithStatus(Snap(h), "en_attente_de_signature_payeur") ELSE Snap(h))
    /\ Local

\* Mutants: the contract is marked without recording the acceptance; an acceptance
\* found ends the whole synchronisation instead of only its recording.
MarkWithoutRecord(h) ==
    /\ At(h, {"sign", "poll"}, "lookup")
    /\ Goto(h, "select", WithStatus(Snap(h), "en_attente_paiement"))
    /\ Local
LeaveWhenRecorded(h) ==
    /\ At(h, {"sign", "poll"}, "lookup")
    /\ Goto(h, IF acceptances[request[h].on][Snap(h).sr] > 0 THEN "synced" ELSE "record", Snap(h))
    /\ Local

\* recordAcceptanceIfNeeded: the check ...
SyncLookup(h) ==
    /\ At(h, {"sign", "poll"}, "lookup")
    /\ IF acceptances[request[h].on][Snap(h).sr] > 0
       THEN Goto(h, "select", WithStatus(Snap(h), "en_attente_paiement"))
       ELSE Goto(h, "record", Snap(h))
    /\ Local

\* ... and the insertion, which the webhook handler makes without a check;
\* markAwaitingPayment follows on the copy.
RecordAcceptance(h) ==
    LET q == request[h] IN
    /\ At(h, {"sign", "poll", "done"}, "record")
    /\ acceptances' = [acceptances EXCEPT ![q.on][q.snap.sr] = @ + 1]
    /\ Goto(h, "select", WithStatus(q.snap, "en_attente_paiement"))
    /\ UNCHANGED <<row, external, processedEvents, paid>>

\* The catch block: whatever fails after the first read is logged and dropped.
SyncFails(h) ==
    /\ request[h].then = "synced"
    /\ request[h].pc \in {"fetch", "lookup", "record", "select", "update"}
    /\ Goto(h, "synced", Absent)
    /\ Local

\* The last read of syncIfPending, and the caller's checks on what it returns.
Synced(h) ==
    /\ At(h, {"sign", "poll"}, "synced")
    /\ Goto(h, IF request[h].op = "sign" THEN AfterChecks(Found(h).status) ELSE "idle", Absent)
    /\ Local

-----------------------------------------------------------------------------
(* ContractDocumentGateService.tryAdvanceContract, called by the document    *)
(* handlers ("gate") and by the signature use case ("sign").                 *)

AfterGate(h) == IF request[h].op = "sign" THEN "advanced" ELSE "idle"

GateLoad(h) ==
    LET c == Found(h) IN
    /\ At(h, {"sign", "gate"}, "gate")
    /\ IF c.status = "en_attente_de_justificatif"
       THEN Goto(h, "uploads", c)
       ELSE Goto(h, AfterGate(h), Absent)
    /\ Local

\* Mutant: the gate opens whatever the uploads are.
GateAlwaysOpen(h) ==
    /\ At(h, {"sign", "gate"}, "uploads")
    /\ request' = [request EXCEPT ![h].pc = "select", ![h].then = AfterGate(h),
                     ![h].snap = WithStatus(@, "en_attente_de_signature_payeur")]
    /\ Local

GateReadUploads(h) ==
    /\ At(h, {"sign", "gate"}, "uploads")
    /\ IF documentsReady[request[h].on]
       THEN request' = [request EXCEPT ![h].pc = "select", ![h].then = AfterGate(h),
                          ![h].snap = WithStatus(@, "en_attente_de_signature_payeur")]
       ELSE Goto(h, AfterGate(h), Absent)
    /\ Local

\* The signature use case reads the contract after the gate and goes on only if
\* it is ready to be signed.
Advanced(h) ==
    /\ At(h, {"sign"}, "advanced")
    /\ Goto(h, IF Found(h).status = "en_attente_de_signature_payeur" THEN "reload" ELSE "idle",
            Absent)
    /\ Local

-----------------------------------------------------------------------------
(* ConfirmMockPaymentUseCase and ConfirmMockValidationUseCase               *)

\* Mutants: a payment during the signature; an activation before the payment.
PayableWhileSigning == {"signature_en_cours", "en_attente_paiement", "actif"}
ValidatableUnpaid == {"en_attente_paiement", "en_attente_de_validation_documentaire"}

Payable == {"en_attente_paiement", "actif"}
Validatable == {"en_attente_de_validation_documentaire"}

PayLoad(h) ==
    LET c == Found(h) IN
    /\ At(h, {"pay"}, "load")
    /\ IF c.status \in Payable
       THEN Goto(h, "select", WithStatus(c, "en_attente_de_validation_documentaire"))
       ELSE Goto(h, "idle", Absent)
    /\ Local

ValidateLoad(h) ==
    LET c == Found(h) IN
    /\ At(h, {"validate"}, "load")
    /\ IF c.status \in Validatable
       THEN Goto(h, "select", WithStatus(c, "actif"))
       ELSE Goto(h, "idle", Absent)
    /\ Local

-----------------------------------------------------------------------------
(* YousignWebhookController.  The event of a request's end is identified by  *)
(* the request; the signature check lets it through.                        *)

\* The events of a signature request that `dispatch` has a handler for.
Dispatched == {"done", "declined"}

\* handleYousignWebhook: answers, and leaves the dispatch to setImmediate.
DeliverEvent(h, r, sr) ==
    LET op == yousign[sr].state IN
    /\ op \in Dispatched
    /\ deliveries[sr] < MaxDeliveries
    /\ request[h] = Idle
    /\ deliveries' = [deliveries EXCEPT ![sr] = @ + 1]
    /\ IF sr \in processedEvents[r]
       THEN UNCHANGED <<processedEvents, request>>
       ELSE /\ processedEvents' = [processedEvents EXCEPT ![r] = @ \cup {sr}]
            /\ request' = [request EXCEPT ![h] =
                   [Idle EXCEPT !.op = op, !.pc = "find", !.at = r, !.event = sr]]
    /\ UNCHANGED <<database, documentsReady, yousign, wasReady, paid>>

\* Mutant: the first contract with a signature request, whichever it is.
NamedAny(sr) == {c \in Contracts : row[c].sr # Null}

Named(sr) == {c \in Contracts : row[c].sr = sr}

\* handleSignatureRequestDone and handleSignatureDeclined find the contract by its
\* signature request and do not look at its status; without one the event is lost.
FindByRequest(h) ==
    LET q == request[h] IN
    /\ At(h, {"done", "declined"}, "find")
    /\ \/ /\ Named(q.event) = {}
          /\ Goto(h, "idle", Absent)
       \/ \E c \in Named(q.event) :
            request' = [request EXCEPT ![h].on = c,
               ![h].pc = IF q.op = "done" THEN "record" ELSE "select",
               ![h].snap = IF q.op = "done" THEN row[c]
                           ELSE WithStatus(row[c], "en_attente_de_signature_payeur")]
    /\ Local

-----------------------------------------------------------------------------
(* The surroundings: the signer, the documents, failures *)

\* The signer signs or declines, or YouSign closes the request.
SignerEnds(sr, state) ==
    /\ yousign[sr].state = "ongoing"
    /\ yousign' = [yousign EXCEPT ![sr].state = state]
    /\ UNCHANGED <<database, documentsReady, deliveries, wasReady, processedEvents,
                   request, paid>>

\* Uploads, verifications and agents' decisions change the readiness both ways.
DocumentsChange(c) ==
    /\ row[c].status # "absent"
    /\ documentsReady' = [documentsReady EXCEPT ![c] = ~@]
    /\ wasReady' = [wasReady EXCEPT ![c] = TRUE]
    /\ UNCHANGED <<database, yousign, deliveries, processedEvents, request, paid>>

\* An await rejects (database or YouSign unreachable): the handler ends there, and
\* what it has written stays.
Fail(h) ==
    /\ request[h].pc # "idle"
    /\ Goto(h, "idle", Absent)
    /\ Local

\* A replica stops and is replaced: its handlers and its memory of events are lost.
Restart(r) ==
    /\ \/ processedEvents[r] # {}
       \/ \E h \in Requests : request[h].at = r
    /\ processedEvents' = [processedEvents EXCEPT ![r] = {}]
    /\ request' = [h \in Requests |-> IF request[h].at = r THEN Idle ELSE request[h]]
    /\ UNCHANGED <<database, external, paid>>

-----------------------------------------------------------------------------

Arrival(h) ==
    \E r \in Replicas :
        \/ \E c \in Contracts :
             \/ RequestSignature(h, c, r)
             \/ PollSignature(h, c, r)
             \/ DocumentDecided(h, c, r)
             \/ ConfirmPayment(h, c, r)
             \/ ConfirmValidation(h, c, r)
        \/ \E sr \in SignatureRequests : DeliverEvent(h, r, sr)

\* What the event loop does with a handler whose awaited call has succeeded.
Resume(h) ==
    \/ SignLoad(h) \/ SignCheckDocuments(h) \/ SignReload(h) \/ SignCreate(h)
    \/ SyncLoad(h) \/ SyncFetch(h) \/ SyncLookup(h) \/ RecordAcceptance(h) \/ Synced(h)
    \/ GateLoad(h) \/ GateReadUploads(h) \/ Advanced(h)
    \/ PayLoad(h) \/ ValidateLoad(h) \/ FindByRequest(h)
    \/ SelectForSave(h) \/ UpdateForSave(h)

Surroundings ==
    \/ \E c \in Contracts : CreateContract(c) \/ DocumentsChange(c)
    \/ \E sr \in SignatureRequests, state \in {"done", "declined", "expired"} :
         SignerEnds(sr, state)
    \/ \E h \in Requests : SyncFails(h) \/ Fail(h)
    \/ \E r \in Replicas : Restart(r)

Next == (\E h \in Requests : Arrival(h) \/ Resume(h)) \/ Surroundings

Spec == Init /\ [][Next]_vars

-----------------------------------------------------------------------------
(* Safety *)

\* The contract has an accepted CGVU version that YouSign's signer did accept.
Consented(c) ==
    \E sr \in SignatureRequests :
        /\ acceptances[c][sr] > 0
        /\ yousign[sr] = [state |-> "done", externalId |-> c]

\* A contract is put up for payment, paid or activated only when the acceptance of
\* its CGVU has been recorded, whatever handlers, retries and crashes did meanwhile
\* (markAwaitingPayment after cgvuRepo.save in both the webhook and the poller).
PaymentNeedsConsent == \A c \in Contracts : row[c].status \in SignedStatus => Consented(c)

\* Every acceptance names a request that was created for that contract and that its
\* signer completed: a decline, an expiry or another contract's event never leaves
\* one (the srId both recorders take from the contract row).
AcceptanceTraceable ==
    \A c \in Contracts, sr \in SignatureRequests :
        acceptances[c][sr] > 0 => yousign[sr] = [state |-> "done", externalId |-> c]

\* A contract under validation or active has had its payment confirmed, also when
\* stale copies were saved over newer ones in between.
ActivationFollowsPayment ==
    \A c \in Contracts :
        row[c].status \in {"en_attente_de_validation_documentaire", "actif"} => paid[c]

\* A signature is asked of YouSign, and a contract leaves the document stage, only
\* after its documents have been complete at some moment (both checks of the gate).
SignatureFollowsDocuments ==
    \A c \in Contracts :
        (\/ row[c].status \notin {"absent", "en_attente_de_justificatif"}
         \/ \E sr \in SignatureRequests : yousign[sr].externalId = c) => wasReady[c]

-----------------------------------------------------------------------------
(* The inductive invariant behind the safety properties: what they say of   *)
(* the rows also holds of every private copy a handler is going to save.    *)

PaidStatus == {"en_attente_de_validation_documentaire", "actif"}

\* A row or a copy of it that may be written to contract c.
Backed(c, r) ==
    /\ r.sr # Null => yousign[r.sr].externalId = c
    /\ r.status \in SignedStatus => Consented(c)
    /\ r.status \notin {"absent", "en_attente_de_justificatif"} => wasReady[c]

DatabaseOK ==
    /\ \A c \in Contracts : Backed(c, row[c]) /\ (row[c].status \in PaidStatus => paid[c])
    /\ AcceptanceTraceable
    /\ \A sr \in SignatureRequests : yousign[sr].state = "none" => yousign[sr].externalId = Null
    /\ \A sr \in SignatureRequests, c \in Contracts :
          yousign[sr].externalId = c => wasReady[c]
    /\ \A c \in Contracts : documentsReady[c] => wasReady[c]

HandlerOK(q) ==
    /\ q.pc \notin {"idle", "find"} => q.on \in Contracts
    /\ q.pc = "find" => /\ q.event \in SignatureRequests
                        /\ q.op = "done" => yousign[q.event].state = "done"
    /\ q.pc \in Holding =>
          /\ Backed(q.on, q.snap)
          /\ q.snap.status \in PaidStatus => paid[q.on] \/ q.op = "pay"
    /\ q.pc \in {"fetch", "lookup", "record"} => q.snap.sr \in SignatureRequests
    /\ q.pc \in {"lookup", "record"} => yousign[q.snap.sr].state = "done"
    /\ q.op = "sign" /\ q.pc \notin {"idle", "find", "load", "ready"} => wasReady[q.on]
    /\ q.op = "pay" /\ q.pc \in {"select", "update"} =>
          q.snap.status = "en_attente_de_validation_documentaire"
    /\ q.pc = "update" /\ q.base.status \in PaidStatus => paid[q.on]

IInv == TypeOK /\ DatabaseOK /\ \A h \in Requests : HandlerOK(request[h])

-----------------------------------------------------------------------------
(* Refinement of ConsentLedger *)

Completed == [c \in Contracts |->
    {sr \in SignatureRequests : yousign[sr] = [state |-> "done", externalId |-> c]}]

Consents == [c \in Contracts |-> {sr \in SignatureRequests : acceptances[c][sr] > 0}]

StageOf(status) ==
    CASE status = "en_attente_paiement" -> "payable"
      [] status = "en_attente_de_validation_documentaire" -> "validating"
      [] status = "actif" -> "active"
      [] OTHER -> "open"

Stage == [c \in Contracts |-> StageOf(row[c].status)]

Ledger == INSTANCE ConsentLedger
            WITH completed <- Completed, consents <- Consents, stage <- Stage

\* Every step of the handlers, replicas and webhooks is a step of the consent ledger
\* or leaves it unchanged.
ImplementsLedger == Ledger!Spec

-----------------------------------------------------------------------------
(* Properties of a deployment that handles one request at a time (Requests  *)
(* has one element): the remaining hazards are late, lost and repeated       *)
(* events, and failures between two writes.                                  *)

\* The signed request a contract names is not dropped for another one: asking for
\* the signature again first synchronises with YouSign (SignContractUseCase, the
\* SIGNATURE_EN_COURS branch), so a signer is not made to sign twice.
SignedRequestKept ==
    [][\A c \in Contracts :
         row[c].sr # Null /\ yousign[row[c].sr].state = "done" => row'[c].sr = row[c].sr]_vars

=============================================================================
