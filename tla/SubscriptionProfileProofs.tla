----------------------- MODULE SubscriptionProfileProofs -----------------------
(***************************************************************************)
(* What payments and validations leave on the mobility profiles, for any    *)
(* number of tabs, subscriptions and identities.                            *)
(***************************************************************************)
EXTENDS SubscriptionProfile, SequenceTheorems, FiniteSetTheorems, TLAPS

Live(t) == request[t] # Null

\* A subscription is active once it has been validated.
ActifValidated == \A s \in Subscriptions : status[s] = "actif" => s \in validated

\* A request that creates a contract has found the holder; one that activates a
\* contract comes from a validated subscription, and the contract is on a profile of
\* its holder's name.
TabSound(t) ==
    Live(t) =>
        /\ request[t].pc = "create" => request[t].identity \in Identities
        /\ request[t].pc \in {"activate", "update"} => request[t].of \in validated
        /\ request[t].pc = "update" =>
             /\ request[t].contract \in ContractIds
             /\ NameOf[contracts[request[t].contract].identity] = Holder[request[t].of]

Sound == ProfileTypeOK /\ ActifValidated /\ \A t \in Tabs : TabSound(t)

-----------------------------------------------------------------------------
(* Types. *)

LEMMA InitSound == ProfileInit => Sound
  BY DEF ProfileInit, Sound, ProfileTypeOK, ActifValidated, TabSound, Live, SubscriptionStatus,
         Page, PageRequest, ContractIds

\* A contract is added at the end of the table.
LEMMA AddedContract ==
    ASSUME contracts \in Seq(Contract), NEW c \in Contract, contracts' = Append(contracts, c)
    PROVE  /\ contracts' \in Seq(Contract)
           /\ ContractIds' = ContractIds \cup {Len(contracts) + 1}
           /\ Len(contracts) + 1 \notin ContractIds
           /\ \A d \in ContractIds : contracts'[d] = contracts[d]
           /\ contracts'[Len(contracts) + 1] = c
  BY DEF ContractIds

\* One that is activated keeps everything but its status.
LEMMA ActivatedContract ==
    ASSUME contracts \in Seq(Contract), NEW c \in ContractIds,
           contracts' = [contracts EXCEPT ![c].status = "ACTIVE"]
    PROVE  /\ contracts' \in Seq(Contract)
           /\ ContractIds' = ContractIds
           /\ \A d \in ContractIds \ {c} : contracts'[d] = contracts[d]
           /\ contracts'[c].status = "ACTIVE"
           /\ contracts'[c].identity = contracts[c].identity
           /\ contracts'[c].for = contracts[c].for
<1> DEFINE new == [contracts[c] EXCEPT !.status = "ACTIVE"]
<1>1. contracts[c] \in Contract /\ c \in 1 .. Len(contracts)
  BY DEF ContractIds
<1>2. /\ new \in Contract /\ new.status = "ACTIVE" /\ new.for = contracts[c].for
      /\ new.identity = contracts[c].identity
  BY <1>1 DEF Contract
<1>3. contracts' = [contracts EXCEPT ![c] = new]
  OBVIOUS
<1> HIDE DEF new
<1>4. /\ contracts' \in Seq(Contract) /\ Len(contracts') = Len(contracts)
      /\ \A d \in 1 .. Len(contracts) : contracts'[d] = IF d = c THEN new ELSE contracts[d]
  BY <1>1, <1>2, <1>3, ExceptSeq
<1> QED
  BY <1>1, <1>2, <1>4 DEF ContractIds

\* The page shown is one of the pages.
LEMMA Shown ==
    ASSUME ProfileTypeOK, NEW t \in Tabs, NEW at \in {"paiement", "validation"},
           NEW s \in Subscriptions, Show(t, at, s)
    PROVE  page' \in [Tabs -> Page]
  BY DEF ProfileTypeOK, Show, Page, SubscriptionStatus

\* A request that starts is about the subscription shown.
LEMMA Started ==
    ASSUME ProfileTypeOK, NEW t \in Tabs, page[t] # Null,
           NEW call \in {"confirmPayment", "confirmValidation"},
           NEW pc \in {"paySave", "sync", "validateSave", "activate"}
    PROVE  Start(t, call, pc) \in PageRequest
  BY DEF ProfileTypeOK, Start, Page, PageRequest

\* A request that moves on is still one.
LEMMA Moved ==
    ASSUME ProfileTypeOK, NEW t \in Tabs, Live(t),
           NEW pc \in {"sync", "create", "validateSave", "activate", "update", "reply"}, Goto(t, pc)
    PROVE  request' \in [Tabs -> PageRequest]
  BY DEF ProfileTypeOK, Goto, Live, PageRequest

-----------------------------------------------------------------------------
(* What stands on the profiles. *)

Founded == Sound /\ RightBacked /\ ActiveAfterValidation

LEMMA InitFounded == ProfileInit => Founded
<1> SUFFICES ASSUME ProfileInit
             PROVE  RightBacked /\ ActiveAfterValidation
  BY InitSound DEF Founded
<1>1. ContractIds = {} /\ transportRights = {}
  BY DEF ProfileInit, ContractIds
<1> QED
  BY <1>1 DEF RightBacked, ActiveAfterValidation

\* Contracts keep their identities, and what is validated stays so.
LEMMA OthersSound ==
    ASSUME NEW u \in Tabs, TabSound(u), request'[u] = request[u],
           ContractIds \subseteq ContractIds',
           \A c \in ContractIds : contracts'[c].identity = contracts[c].identity,
           validated \subseteq validated'
    PROVE  TabSound(u)'
  BY DEF TabSound, Live

\* Only pages, requests and relationships change.
LEMMA TabsMove ==
    ASSUME Founded, UNCHANGED <<status, contracts, transportRights, validated>>,
           linked' \subseteq Identities, page' \in [Tabs -> Page],
           request' \in [Tabs -> PageRequest],
           \A u \in Tabs : request'[u] = request[u] \/ TabSound(u)'
    PROVE  Founded'
<1>1. ProfileTypeOK'
  BY DEF Founded, Sound, ProfileTypeOK, ContractIds
<1>2. ContractIds' = ContractIds
  BY DEF ContractIds
<1>3. \A u \in Tabs : TabSound(u)'
  BY <1>2, OthersSound DEF Founded, Sound
<1>4. ActifValidated'
  BY DEF Founded, Sound, ActifValidated
<1>5. RightBacked' /\ ActiveAfterValidation'
  BY <1>2 DEF Founded, RightBacked, ActiveAfterValidation
<1> QED
  BY <1>1, <1>3, <1>4, <1>5 DEF Founded, Sound

\* One request moves, and activates nothing that was not validated.
LEMMA RequestMoves ==
    ASSUME Founded, UNCHANGED <<status, contracts, transportRights, validated>>,
           UNCHANGED linked, page' \in [Tabs -> Page], NEW t \in Tabs, NEW to \in PageRequest,
           request' = [request EXCEPT ![t] = to], TabSound(t)'
    PROVE  Founded'
  BY TabsMove DEF Founded, Sound, ProfileTypeOK

\* The pages.
LEMMA StepPages ==
    ASSUME Founded, NEW t \in Tabs,
           \/ \E s \in Subscriptions : OpenPaiement(t, s) \/ OpenValidation(t, s)
           \/ Leave(t)
    PROVE  Founded'
<1>1. UNCHANGED <<status, contracts, transportRights, linked, request, validated>>
  BY DEF OpenPaiement, OpenValidation, Leave
<1>2. ASSUME NEW s \in Subscriptions, OpenPaiement(t, s) \/ OpenValidation(t, s)
      PROVE  page' \in [Tabs -> Page]
  BY <1>2, Shown DEF OpenPaiement, OpenValidation, Founded, Sound
<1>3. ASSUME Leave(t)
      PROVE  page' \in [Tabs -> Page]
  BY <1>3 DEF Leave, Founded, Sound, ProfileTypeOK, Page
<1>4. page' \in [Tabs -> Page]
  BY <1>2, <1>3
<1>5. linked' \subseteq Identities /\ request' \in [Tabs -> PageRequest]
  BY <1>1 DEF Founded, Sound, ProfileTypeOK
<1> QED
  BY <1>1, <1>4, <1>5, TabsMove

\* A request starts: to activate, the subscription is active already.
LEMMA StepStart ==
    ASSUME Founded, NEW t \in Tabs, ConfirmPayment(t) \/ ConfirmValidation(t)
    PROVE  Founded'
<1>1. UNCHANGED <<status, contracts, transportRights, linked, page, validated>>
  BY DEF ConfirmPayment, ConfirmValidation
<1>2. CASE ConfirmPayment(t)
  <2> DEFINE pc == IF status[page[t].of] = "en_attente_de_validation_documentaire"
                   THEN "sync" ELSE "paySave"
             to == Start(t, "confirmPayment", pc)
  <2>1. page[t] # Null /\ request' = [request EXCEPT ![t] = to]
    BY <1>2 DEF ConfirmPayment
  <2>2. pc \in {"sync", "paySave"} /\ to.pc = pc
    BY DEF Start
  <2>3. to \in PageRequest
    BY <2>1, Started DEF Founded, Sound
  <2> HIDE DEF to, pc
  <2>4. TabSound(t)'
    BY <2>1, <2>2 DEF TabSound, Founded, Sound, ProfileTypeOK
  <2> QED
    BY <1>1, <2>1, <2>3, <2>4, RequestMoves DEF Founded, Sound, ProfileTypeOK
<1>3. CASE ConfirmValidation(t)
  <2> DEFINE s  == page[t].of
             pc == IF status[s] = "actif" THEN "activate" ELSE "validateSave"
             to == Start(t, "confirmValidation", pc)
  <2>1. page[t] # Null /\ request' = [request EXCEPT ![t] = to]
    BY <1>3 DEF ConfirmValidation
  <2>2. to.pc = pc /\ to.of = s /\ pc \in {"activate", "validateSave"}
    BY DEF Start
  <2>3. to \in PageRequest
    BY <2>1, Started DEF Founded, Sound
  <2>4. s \in Subscriptions
    BY <2>1 DEF Founded, Sound, ProfileTypeOK, Page
  <2>5. pc = "activate" => s \in validated
    BY <2>4 DEF Founded, Sound, ActifValidated
  <2> HIDE DEF to, pc, s
  <2>6. TabSound(t)'
    BY <1>1, <2>1, <2>2, <2>5 DEF TabSound, Founded, Sound, ProfileTypeOK
  <2> QED
    BY <1>1, <2>1, <2>3, <2>6, RequestMoves DEF Founded, Sound, ProfileTypeOK
<1> QED
  BY <1>2, <1>3

\* A request ends, answered or not.
LEMMA StepEnds ==
    ASSUME Founded, NEW t \in Tabs, ReplyPayment(t) \/ ReplyValidation(t) \/ Fail(t)
    PROVE  Founded'
<1>1. /\ UNCHANGED <<status, contracts, transportRights, linked, validated>>
      /\ request[t] # Null /\ request' = [request EXCEPT ![t] = Null]
  BY DEF ReplyPayment, ReplyValidation, Fail, Answer
<1>2. request[t].of \in Subscriptions
  BY <1>1 DEF Founded, Sound, ProfileTypeOK, PageRequest
<1>3. ASSUME ReplyPayment(t)
      PROVE  page' \in [Tabs -> Page]
  <2>1. \/ UNCHANGED page
        \/ page' = [page EXCEPT ![t] = Null]
        \/ Show(t, "validation", request[t].of)
    BY <1>3 DEF ReplyPayment
  <2> QED
    BY <1>2, <2>1, Shown DEF Founded, Sound, ProfileTypeOK, Page
<1>4. ASSUME ReplyValidation(t)
      PROVE  page' \in [Tabs -> Page]
  <2>1. CASE UNCHANGED page \/ page' = [page EXCEPT ![t] = Null]
    BY <2>1 DEF Founded, Sound, ProfileTypeOK, Page
  <2>2. CASE page[t] # Null /\ page' = [page EXCEPT ![t].seen = "actif", ![t].complete = TRUE]
    BY <2>2 DEF Founded, Sound, ProfileTypeOK, Page, SubscriptionStatus
  <2> QED
    BY <1>4, <2>1, <2>2 DEF ReplyValidation
<1>5. ASSUME Fail(t)
      PROVE  page' \in [Tabs -> Page]
  BY <1>5 DEF Fail, Founded, Sound, ProfileTypeOK
<1>6. Null \in PageRequest
  BY DEF PageRequest
<1>7. TabSound(t)'
  BY <1>1 DEF TabSound, Live, Founded, Sound, ProfileTypeOK
<1> QED
  BY <1>1, <1>3, <1>4, <1>5, <1>6, <1>7, RequestMoves

\* A payment looks for the holder.
LEMMA StepSyncRead ==
    ASSUME Founded, NEW t \in Tabs, SyncRead(t)
    PROVE  Founded'
<1>1. /\ UNCHANGED <<status, contracts, transportRights, linked, page, validated>>
      /\ request[t] # Null
  BY DEF SyncRead
<1>2. ASSUME NEW pc \in {"reply", "create"}, NEW i \in Identities \cup {Null},
             pc = "create" => i \in Identities,
             request' = [request EXCEPT ![t] = [request[t] EXCEPT !.pc = pc, !.identity = i]]
      PROVE  Founded'
  <2> DEFINE to == [request[t] EXCEPT !.pc = pc, !.identity = i]
  <2>1. to \in PageRequest /\ to.pc = pc /\ to.identity = i
    BY <1>1 DEF Founded, Sound, ProfileTypeOK, PageRequest
  <2>2. request' = [request EXCEPT ![t] = to]
    BY <1>2
  <2> HIDE DEF to
  <2>3. TabSound(t)'
    BY <1>2, <2>1, <2>2 DEF TabSound, Founded, Sound, ProfileTypeOK
  <2> QED
    BY <1>1, <2>1, <2>2, <2>3, RequestMoves DEF Founded, Sound, ProfileTypeOK
<1>3. CASE Goto(t, "reply")
  <2> DEFINE to == [request[t] EXCEPT !.pc = "reply"]
  <2>1. to \in PageRequest /\ to.pc = "reply"
    BY <1>1 DEF Founded, Sound, ProfileTypeOK, PageRequest
  <2>2. request' = [request EXCEPT ![t] = to]
    BY <1>3 DEF Goto
  <2> HIDE DEF to
  <2>3. TabSound(t)'
    BY <2>1, <2>2 DEF TabSound, Founded, Sound, ProfileTypeOK
  <2> QED
    BY <1>1, <2>1, <2>2, <2>3, RequestMoves DEF Founded, Sound, ProfileTypeOK
<1>4. ASSUME NEW i \in FindHolderIdentity(request[t].of),
             request' = [request EXCEPT ![t].pc = IF Pending(i) = {} THEN "create" ELSE "reply",
                                        ![t].identity = i]
      PROVE  Founded'
  <2>1. PICK pc \in {"reply", "create"} : pc = IF Pending(i) = {} THEN "create" ELSE "reply"
    OBVIOUS
  <2>2. request' = [request EXCEPT ![t] = [request[t] EXCEPT !.pc = pc, !.identity = i]]
    BY <1>4, <2>1 DEF Founded, Sound, ProfileTypeOK
  <2>3. i \in Identities
    BY DEF FindHolderIdentity, Founded, Sound, ProfileTypeOK
  <2> QED
    BY <1>2, <2>2, <2>3
<1> QED
  BY <1>3, <1>4 DEF SyncRead

\* A validation picks a pending contract of the holder.
LEMMA StepActivateRead ==
    ASSUME Founded, NEW t \in Tabs, ActivateRead(t)
    PROVE  Founded'
<1>1. /\ UNCHANGED <<status, contracts, transportRights, linked, page, validated>>
      /\ request[t] # Null /\ request[t].pc = "activate"
  BY DEF ActivateRead
<1>2. /\ request[t].of \in validated
      /\ request[t] \in PageRequest \ {Null}
      /\ page' \in [Tabs -> Page]
  BY <1>1 DEF Founded, Sound, TabSound, Live, ProfileTypeOK
<1>3. ASSUME NEW to \in PageRequest, to.pc = "reply", request' = [request EXCEPT ![t] = to]
      PROVE  Founded'
  <2>1. TabSound(t)'
    BY <1>3 DEF TabSound, Founded, Sound, ProfileTypeOK
  <2> QED
    BY <1>1, <1>2, <1>3, <2>1, RequestMoves
<1>4. CASE Goto(t, "reply")
  <2> DEFINE to == [request[t] EXCEPT !.pc = "reply"]
  <2>1. to \in PageRequest /\ to.pc = "reply"
    BY <1>2 DEF PageRequest
  <2> QED
    BY <1>3, <1>4, <2>1 DEF Goto
<1>5. ASSUME NEW i \in FindHolderIdentity(request[t].of),
             request' = [request EXCEPT ![t].pc = "reply", ![t].identity = i]
      PROVE  Founded'
  <2> DEFINE to == [request[t] EXCEPT !.pc = "reply", !.identity = i]
  <2>1. i \in Identities
    BY DEF FindHolderIdentity, Founded, Sound, ProfileTypeOK
  <2>2. to \in PageRequest /\ to.pc = "reply"
    BY <1>2, <2>1 DEF PageRequest
  <2>3. request' = [request EXCEPT ![t] = to]
    BY <1>5 DEF Founded, Sound, ProfileTypeOK
  <2> HIDE DEF to
  <2> QED
    BY <1>3, <2>2, <2>3
<1>6. ASSUME NEW i \in FindHolderIdentity(request[t].of), NEW c \in FirstPending(i),
             request' = [request EXCEPT ![t].pc = "update", ![t].identity = i, ![t].contract = c]
      PROVE  Founded'
  <2> DEFINE to == [request[t] EXCEPT !.pc = "update", !.identity = i, !.contract = c]
  <2>1. i \in Identities /\ NameOf[i] = Holder[request[t].of]
    BY DEF FindHolderIdentity, Founded, Sound, ProfileTypeOK
  <2>2. c \in ContractIds /\ contracts[c].identity = i /\ c \in Nat
    BY DEF FirstPending, Pending, ContractIds
  <2>3. /\ to \in PageRequest /\ to.pc = "update" /\ to.contract = c
        /\ to.of = request[t].of
    BY <1>2, <2>1, <2>2 DEF PageRequest
  <2>4. request' = [request EXCEPT ![t] = to]
    BY <1>6 DEF Founded, Sound, ProfileTypeOK
  <2> HIDE DEF to
  <2>5. TabSound(t)'
    BY <1>1, <1>2, <2>1, <2>2, <2>3, <2>4
       DEF TabSound, Founded, Sound, ProfileTypeOK, ContractIds
  <2> QED
    BY <1>1, <1>2, <2>3, <2>4, <2>5, RequestMoves
<1> QED
  BY <1>4, <1>5, <1>6 DEF ActivateRead

\* The status is saved: a payment leaves no subscription active, a validation remembers it.
LEMMA StepSave ==
    ASSUME Founded, NEW t \in Tabs, PaySave(t) \/ ValidateSave(t)
    PROVE  Founded'
<1> DEFINE s == request[t].of
<1>1. /\ UNCHANGED <<contracts, transportRights, linked, page>>
      /\ Live(t) /\ request[t] \in PageRequest \ {Null}
  BY DEF PaySave, ValidateSave, Live, Founded, Sound, ProfileTypeOK
<1>2. s \in Subscriptions /\ ContractIds' = ContractIds
  BY <1>1 DEF PageRequest, ContractIds
<1>3. PICK pc \in {"sync", "activate"} : Goto(t, pc) /\ (pc = "activate" => ValidateSave(t))
  BY DEF PaySave, ValidateSave
<1>4. /\ validated \subseteq validated' /\ validated' \subseteq Subscriptions
      /\ ValidateSave(t) => s \in validated'
      /\ status' \in [Subscriptions -> SubscriptionStatus]
      /\ ActifValidated'
  BY <1>2 DEF PaySave, ValidateSave, Founded, Sound, ProfileTypeOK, SubscriptionStatus,
              ActifValidated
<1>5. request' \in [Tabs -> PageRequest]
  BY <1>1, <1>3, Moved DEF Founded, Sound
<1>6. ProfileTypeOK'
  BY <1>1, <1>2, <1>4, <1>5 DEF Founded, Sound, ProfileTypeOK
<1>7. TabSound(t)'
  <2>1. request'[t].pc = pc /\ request'[t].of = s
    BY <1>1, <1>3 DEF Goto, Founded, Sound, ProfileTypeOK, PageRequest
  <2> QED
    BY <1>3, <1>4, <2>1 DEF TabSound
<1>8. \A u \in Tabs \ {t} : TabSound(u)'
  BY <1>1, <1>2, <1>3, <1>4, OthersSound DEF Goto, Founded, Sound, ProfileTypeOK
<1>9. RightBacked' /\ ActiveAfterValidation'
  BY <1>1, <1>2, <1>4 DEF Founded, RightBacked, ActiveAfterValidation
<1> QED
  BY <1>4, <1>6, <1>7, <1>8, <1>9 DEF Founded, Sound

\* A contract is added: pending when a payment adds it, for none when a form does.
LEMMA Adds ==
    ASSUME Founded, NEW c \in Contract, contracts' = Append(contracts, c),
           c.for = Null \/ c.status = "PENDING", request' \in [Tabs -> PageRequest],
           UNCHANGED <<status, transportRights, linked, page, validated>>,
           \A u \in Tabs : request'[u] = request[u] \/ TabSound(u)'
    PROVE  Founded'
<1> DEFINE n == Len(contracts) + 1
<1>1. /\ contracts' \in Seq(Contract) /\ ContractIds' = ContractIds \cup {n}
      /\ n \notin ContractIds
      /\ \A d \in ContractIds : contracts'[d] = contracts[d]
      /\ contracts'[n] = c
  BY AddedContract DEF Founded, Sound, ProfileTypeOK
<1> HIDE DEF n
<1>2. ProfileTypeOK'
  BY <1>1 DEF Founded, Sound, ProfileTypeOK
<1>3. \A u \in Tabs : TabSound(u)'
  BY <1>1, OthersSound DEF Founded, Sound
<1>4. ActifValidated'
  BY DEF Founded, Sound, ActifValidated
<1>5. RightBacked'
  BY <1>1 DEF Founded, Sound, ProfileTypeOK, RightBacked
<1>6. ActiveAfterValidation'
  <2> SUFFICES ASSUME NEW d \in ContractIds', contracts'[d].for # Null,
                      contracts'[d].status = "ACTIVE"
               PROVE  \E s \in validated : Holder[s] = NameOf[contracts'[d].identity]
    BY DEF ActiveAfterValidation
  <2>1. d \in ContractIds
    BY <1>1
  <2> QED
    BY <1>1, <2>1 DEF Founded, ActiveAfterValidation
<1> QED
  BY <1>2, <1>3, <1>4, <1>5, <1>6 DEF Founded, Sound

LEMMA StepAdd ==
    ASSUME Founded, NEW i \in Identities, NEW new \in {"PENDING", "ACTIVE", "OTHER"},
           NEW from \in Nat, AddContract(i, new, from)
    PROVE  Founded'
<1>1. [identity |-> i, status |-> new, from |-> from, for |-> Null] \in Contract
  BY DEF Contract
<1> QED
  BY <1>1, Adds DEF AddContract, Founded, Sound, ProfileTypeOK

LEMMA StepSyncCreate ==
    ASSUME Founded, NEW t \in Tabs, SyncCreate(t)
    PROVE  Founded'
<1> DEFINE c == [identity |-> request[t].identity, status |-> "PENDING",
                 from |-> Len(contracts) + 1, for |-> request[t].of]
<1>1. /\ UNCHANGED <<status, transportRights, linked, page, validated>>
      /\ Live(t) /\ Goto(t, "reply") /\ contracts' = Append(contracts, c)
  BY DEF SyncCreate, Live
<1>2. /\ request[t].of \in Subscriptions /\ request[t].identity \in Identities
      /\ Len(contracts) \in Nat
  BY <1>1 DEF SyncCreate, TabSound, Live, Founded, Sound, ProfileTypeOK, PageRequest
<1>3. c \in Contract /\ c.status = "PENDING"
  BY <1>2 DEF Contract
<1> HIDE DEF c
<1>4. request' \in [Tabs -> PageRequest]
  BY <1>1, Moved DEF Founded, Sound
<1>5. request'[t].pc = "reply" /\ \A u \in Tabs \ {t} : request'[u] = request[u]
  BY <1>1 DEF Live, Goto, Founded, Sound, ProfileTypeOK, PageRequest
<1>6. TabSound(t)'
  BY <1>5 DEF TabSound
<1> QED
  BY <1>1, <1>3, <1>4, <1>5, <1>6, Adds

\* The contract found pending is activated: on a profile of a validated holder's name.
LEMMA StepActivateUpdate ==
    ASSUME Founded, NEW t \in Tabs, ActivateUpdate(t)
    PROVE  Founded'
<1> DEFINE c == request[t].contract
           s == request[t].of
<1>1. /\ UNCHANGED <<status, transportRights, linked, page, validated>>
      /\ Live(t) /\ request[t].pc = "update" /\ Goto(t, "reply")
      /\ contracts' = [contracts EXCEPT ![c].status = "ACTIVE"]
  BY DEF ActivateUpdate, Live
<1>2. /\ c \in ContractIds /\ s \in validated
      /\ NameOf[contracts[c].identity] = Holder[s]
  BY <1>1 DEF Founded, Sound, TabSound
<1>3. request' \in [Tabs -> PageRequest]
  BY <1>1, Moved DEF Founded, Sound
<1>4. request'[t].pc = "reply" /\ \A u \in Tabs \ {t} : request'[u] = request[u]
  BY <1>1 DEF Live, Goto, Founded, Sound, ProfileTypeOK, PageRequest
<1> HIDE DEF c, s
<1>5. /\ contracts' \in Seq(Contract) /\ ContractIds' = ContractIds
      /\ \A d \in ContractIds \ {c} : contracts'[d] = contracts[d]
      /\ contracts'[c].status = "ACTIVE"
      /\ contracts'[c].identity = contracts[c].identity
  BY <1>1, <1>2, ActivatedContract DEF Founded, Sound, ProfileTypeOK
<1>6. ProfileTypeOK'
  BY <1>1, <1>3, <1>5 DEF Founded, Sound, ProfileTypeOK
<1>7. \A u \in Tabs : TabSound(u)'
  <2>1. TabSound(t)'
    BY <1>4 DEF TabSound
  <2>2. \A d \in ContractIds : contracts'[d].identity = contracts[d].identity
    BY <1>5
  <2> QED
    BY <1>1, <1>4, <1>5, <2>1, <2>2, OthersSound DEF Founded, Sound
<1>8. ActifValidated'
  BY <1>1 DEF Founded, Sound, ActifValidated
<1>9. RightBacked'
  BY <1>1, <1>5 DEF Founded, Sound, ProfileTypeOK, RightBacked
<1>10. ActiveAfterValidation'
  <2> SUFFICES ASSUME NEW d \in ContractIds, contracts'[d].for # Null,
                      contracts'[d].status = "ACTIVE"
               PROVE  \E z \in validated : Holder[z] = NameOf[contracts'[d].identity]
    BY <1>1, <1>5 DEF ActiveAfterValidation
  <2>1. CASE d = c
    BY <1>2, <1>5, <2>1
  <2>2. CASE d # c
    BY <1>5, <2>2 DEF Founded, ActiveAfterValidation
  <2> QED
    BY <2>1, <2>2
<1> QED
  BY <1>6, <1>7, <1>8, <1>9, <1>10 DEF Founded, Sound

\* Rights are made from active contracts, relationships are made and revoked.
LEMMA StepRegister ==
    ASSUME Founded, NEW c \in ContractIds, RegisterTransportRight(c)
    PROVE  Founded'
<1>1. /\ UNCHANGED <<status, contracts, linked, page, request, validated>>
      /\ transportRights' = transportRights \cup {c} /\ contracts[c].status = "ACTIVE"
      /\ ContractIds' = ContractIds
  BY DEF RegisterTransportRight, ContractIds
<1>2. Sound'
  BY <1>1 DEF Founded, Sound, ProfileTypeOK, ActifValidated, TabSound, Live
<1> QED
  BY <1>1, <1>2 DEF Founded, RightBacked, ActiveAfterValidation

LEMMA StepRelate ==
    ASSUME Founded, NEW i \in Identities, Relate(i)
    PROVE  Founded'
<1>1. linked' \subseteq Identities
  BY DEF Relate, Founded, Sound, ProfileTypeOK
<1> QED
  BY <1>1, TabsMove DEF Relate, Founded, Sound, ProfileTypeOK

LEMMA StepFounded == Founded /\ [ProfileNext]_profileVars => Founded'
<1> SUFFICES ASSUME Founded, [ProfileNext]_profileVars
             PROVE  Founded'
  OBVIOUS
<1>1. ASSUME NEW t \in Tabs, Payment(t) \/ Validation(t) \/ Fail(t) \/ Leave(t)
      PROVE  Founded'
  BY <1>1, StepPages, StepStart, StepEnds, StepSyncRead, StepActivateRead, StepSave,
     StepSyncCreate, StepActivateUpdate DEF Payment, Validation
<1>2. ASSUME NEW i \in Identities, NEW from \in {0, MaxContracts + 1},
             AddContract(i, "PENDING", from)
      PROVE  Founded'
  BY <1>2, StepAdd, BoundAssumption
<1>3. ASSUME NEW i \in Identities, NEW new \in {"ACTIVE", "OTHER"}, AddContract(i, new, 0)
      PROVE  Founded'
  BY <1>3, StepAdd
<1>4. CASE UNCHANGED profileVars
  BY <1>4, TabsMove DEF profileVars, Founded, Sound, ProfileTypeOK
<1> QED
  BY <1>1, <1>2, <1>3, <1>4, StepPages, StepRegister, StepRelate DEF ProfileNext

-----------------------------------------------------------------------------
(* How much stands pending. *)

\* What payments left pending on the identity, and the requests about to add to it.
Left(i) ==
    {c \in ContractIds : /\ contracts[c].identity = i
                         /\ contracts[c].status = "PENDING"
                         /\ contracts[c].for # Null}
Making(i) ==
    {t \in Tabs : /\ request[t] # Null
                  /\ request[t].pc = "create"
                  /\ request[t].identity = i}

Fits(i) == Cardinality(Left(i)) + Cardinality(Making(i)) <= Cardinality(Tabs)

LEMMA PendingFits == PendingBound <=> \A i \in Identities : Fits(i)
  BY DEF PendingBound, Fits, Left, Making

LEMMA SetsFinite ==
    ASSUME ProfileTypeOK, NEW i
    PROVE  IsFiniteSet(Left(i)) /\ IsFiniteSet(Making(i)) /\ IsFiniteSet(ContractIds)
<1>1. IsFiniteSet(1 .. Len(contracts))
  BY FS_Interval DEF ProfileTypeOK
<1> QED
  BY <1>1, TabsAssumption, FS_Subset DEF Left, Making, ContractIds

\* Nothing more is pending, nobody else is about to add.
LEMMA FitsShrinks ==
    ASSUME ProfileTypeOK, NEW i, Fits(i), Left(i)' \subseteq Left(i), Making(i)' \subseteq Making(i)
    PROVE  Fits(i)'
<1>1. /\ Cardinality(Left(i)') <= Cardinality(Left(i))
      /\ Cardinality(Making(i)') <= Cardinality(Making(i))
      /\ Cardinality(Left(i)') \in Nat /\ Cardinality(Making(i)') \in Nat
  BY SetsFinite, FS_Subset, FS_CardinalityType
<1>2. /\ Cardinality(Left(i)) \in Nat /\ Cardinality(Making(i)) \in Nat
      /\ Cardinality(Tabs) \in Nat
  BY SetsFinite, FS_CardinalityType, TabsAssumption
<1> QED
  BY <1>1, <1>2 DEF Fits

\* A request stops or was never about to add; the contracts are as they were.
LEMMA FitsRequests ==
    ASSUME Founded, NEW i, Fits(i), UNCHANGED contracts,
           \A t \in Tabs :
               request'[t] = request[t] \/ request'[t] = Null \/ request'[t].pc # "create"
    PROVE  Fits(i)'
<1>1. Left(i)' \subseteq Left(i) /\ Making(i)' \subseteq Making(i)
  BY DEF Left, Making, ContractIds
<1> QED
  BY <1>1, FitsShrinks DEF Founded, Sound

\* A payment about to add found nothing pending.
LEMMA FitsRead ==
    ASSUME Founded, NEW i, Fits(i), NEW t \in Tabs, SyncRead(t)
    PROVE  Fits(i)'
<1>1. /\ UNCHANGED contracts
      /\ request[t] \in PageRequest \ {Null} /\ request[t].pc = "sync"
  BY DEF SyncRead, Founded, Sound, ProfileTypeOK
<1>2. CASE Goto(t, "reply")
  <2>1. request'[t].pc = "reply" /\ \A u \in Tabs \ {t} : request'[u] = request[u]
    BY <1>1, <1>2 DEF Goto, Founded, Sound, ProfileTypeOK, PageRequest
  <2> QED
    BY <1>1, <2>1, FitsRequests
<1>3. ASSUME NEW j \in FindHolderIdentity(request[t].of),
             request' = [request EXCEPT ![t].pc = IF Pending(j) = {} THEN "create" ELSE "reply",
                                        ![t].identity = j]
      PROVE  Fits(i)'
  <2>1. PICK pc \in {"reply", "create"} : pc = IF Pending(j) = {} THEN "create" ELSE "reply"
    OBVIOUS
  <2> DEFINE to == [request[t] EXCEPT !.pc = pc, !.identity = j]
  <2>2. to.pc = pc /\ to.identity = j
    BY <1>1 DEF PageRequest
  <2>3. request' = [request EXCEPT ![t] = to]
    BY <1>3, <2>1 DEF Founded, Sound, ProfileTypeOK
  <2> HIDE DEF to
  <2>4. request'[t] = to /\ \A u \in Tabs \ {t} : request'[u] = request[u]
    BY <2>3 DEF Founded, Sound, ProfileTypeOK
  <2>5. CASE pc = "reply"
    BY <1>1, <2>2, <2>4, <2>5, FitsRequests
  <2>6. CASE pc = "create" /\ i # j
    <3>1. Left(i)' \subseteq Left(i) /\ Making(i)' \subseteq Making(i)
      BY <1>1, <2>2, <2>4, <2>6 DEF Left, Making, ContractIds
    <3> QED
      BY <3>1, FitsShrinks DEF Founded, Sound
  <2>7. CASE pc = "create" /\ i = j
    <3>1. Pending(i) = {}
      BY <2>1, <2>7
    <3>2. Left(i)' = {} /\ Making(i)' \subseteq Tabs
      BY <1>1, <3>1 DEF Left, Making, Pending, ContractIds
    <3>3. Cardinality(Left(i)') = 0
      BY <3>2, FS_EmptySet
    <3>4. /\ Cardinality(Making(i)') <= Cardinality(Tabs)
          /\ Cardinality(Making(i)') \in Nat /\ Cardinality(Tabs) \in Nat
      BY <3>2, TabsAssumption, FS_Subset, FS_CardinalityType
    <3> QED
      BY <3>3, <3>4 DEF Fits
  <2> QED
    BY <2>5, <2>6, <2>7
<1> QED
  BY <1>2, <1>3 DEF SyncRead

\* One who was about to add has added.
LEMMA FitsCreate ==
    ASSUME Founded, NEW i, Fits(i), NEW t \in Tabs, SyncCreate(t)
    PROVE  Fits(i)'
<1> DEFINE c == [identity |-> request[t].identity, status |-> "PENDING",
                 from |-> Len(contracts) + 1, for |-> request[t].of]
           n == Len(contracts) + 1
<1>1. /\ contracts' = Append(contracts, c) /\ Goto(t, "reply")
      /\ request[t] \in PageRequest \ {Null} /\ request[t].pc = "create"
  BY DEF SyncCreate, Founded, Sound, ProfileTypeOK
<1>2. /\ request[t].of \in Subscriptions /\ request[t].identity \in Identities
      /\ Len(contracts) \in Nat
  BY <1>1 DEF TabSound, Live, Founded, Sound, ProfileTypeOK, PageRequest
<1>3. c \in Contract /\ c.identity = request[t].identity
  BY <1>2 DEF Contract
<1> HIDE DEF c
<1>4. /\ ContractIds' = ContractIds \cup {n} /\ n \notin ContractIds
      /\ \A d \in ContractIds : contracts'[d] = contracts[d]
      /\ contracts'[n] = c
  BY <1>1, <1>3, AddedContract DEF Founded, Sound, ProfileTypeOK
<1> HIDE DEF n
<1>5. request'[t].pc = "reply" /\ \A u \in Tabs \ {t} : request'[u] = request[u]
  BY <1>1 DEF Goto, Founded, Sound, ProfileTypeOK, PageRequest
<1>6. CASE i # request[t].identity
  <2>1. Left(i)' \subseteq Left(i) /\ Making(i)' \subseteq Making(i)
    BY <1>3, <1>4, <1>5, <1>6 DEF Left, Making
  <2> QED
    BY <2>1, FitsShrinks DEF Founded, Sound
<1>7. CASE i = request[t].identity
  <2>1. t \in Making(i) /\ Making(i)' \subseteq Making(i) \ {t}
    BY <1>1, <1>5, <1>7 DEF Making
  <2>2. n \notin Left(i) /\ Left(i)' \subseteq Left(i) \cup {n}
    BY <1>4 DEF Left
  <2>3. IsFiniteSet(Left(i)) /\ IsFiniteSet(Making(i))
    BY SetsFinite DEF Founded, Sound
  <2>4. /\ Cardinality(Making(i) \ {t}) = Cardinality(Making(i)) - 1
        /\ IsFiniteSet(Making(i) \ {t})
    BY <2>1, <2>3, FS_RemoveElement
  <2>5. /\ Cardinality(Left(i) \cup {n}) = Cardinality(Left(i)) + 1
        /\ IsFiniteSet(Left(i) \cup {n})
    BY <2>2, <2>3, FS_AddElement
  <2>6. /\ Cardinality(Making(i)') <= Cardinality(Making(i) \ {t})
        /\ IsFiniteSet(Making(i)')
    BY <2>1, <2>4, FS_Subset
  <2>7. /\ Cardinality(Left(i)') <= Cardinality(Left(i) \cup {n})
        /\ IsFiniteSet(Left(i)')
    BY <2>2, <2>5, FS_Subset
  <2>8. /\ Cardinality(Making(i)) \in Nat /\ Cardinality(Left(i)) \in Nat
        /\ Cardinality(Making(i)') \in Nat /\ Cardinality(Left(i)') \in Nat
        /\ Cardinality(Tabs) \in Nat
    BY <2>3, <2>6, <2>7, TabsAssumption, FS_CardinalityType
  <2> QED
    BY <2>4, <2>5, <2>6, <2>7, <2>8 DEF Fits
<1> QED
  BY <1>6, <1>7

\* One that is activated is pending no more.
LEMMA FitsActivate ==
    ASSUME Founded, NEW i, Fits(i), NEW t \in Tabs, ActivateUpdate(t)
    PROVE  Fits(i)'
<1> DEFINE c == request[t].contract
<1>1. /\ Live(t) /\ request[t].pc = "update" /\ Goto(t, "reply")
      /\ contracts' = [contracts EXCEPT ![c].status = "ACTIVE"]
  BY DEF ActivateUpdate, Live
<1>2. c \in ContractIds
  BY <1>1 DEF Founded, Sound, TabSound
<1>3. request'[t].pc = "reply" /\ \A u \in Tabs \ {t} : request'[u] = request[u]
  BY <1>1 DEF Live, Goto, Founded, Sound, ProfileTypeOK, PageRequest
<1> HIDE DEF c
<1>4. /\ ContractIds' = ContractIds /\ contracts'[c].status = "ACTIVE"
      /\ \A d \in ContractIds \ {c} : contracts'[d] = contracts[d]
  BY <1>1, <1>2, ActivatedContract DEF Founded, Sound, ProfileTypeOK
<1>5. Left(i)' \subseteq Left(i) /\ Making(i)' \subseteq Making(i)
  BY <1>3, <1>4 DEF Left, Making
<1> QED
  BY <1>5, FitsShrinks DEF Founded, Sound

\* A form adds for no subscription.
LEMMA FitsAdd ==
    ASSUME Founded, NEW i, Fits(i), NEW j \in Identities,
           NEW new \in {"PENDING", "ACTIVE", "OTHER"}, NEW from \in Nat, AddContract(j, new, from)
    PROVE  Fits(i)'
<1> DEFINE c == [identity |-> j, status |-> new, from |-> from, for |-> Null]
<1>1. c \in Contract /\ c.for = Null
  BY DEF Contract
<1>2. contracts' = Append(contracts, c) /\ UNCHANGED request
  BY DEF AddContract
<1> HIDE DEF c
<1>3. /\ ContractIds' = ContractIds \cup {Len(contracts) + 1}
      /\ \A d \in ContractIds : contracts'[d] = contracts[d]
      /\ contracts'[Len(contracts) + 1] = c
  BY <1>1, <1>2, AddedContract DEF Founded, Sound, ProfileTypeOK
<1>4. Left(i)' \subseteq Left(i) /\ Making(i)' \subseteq Making(i)
  BY <1>1, <1>2, <1>3 DEF Left, Making
<1> QED
  BY <1>4, FitsShrinks DEF Founded, Sound

\* The other steps make no request about to add, and change no contract.
LEMMA StepFits ==
    ASSUME Founded, NEW i, Fits(i), [ProfileNext]_profileVars
    PROVE  Fits(i)'
<1>1. ASSUME UNCHANGED contracts, UNCHANGED request
      PROVE  Fits(i)'
  BY <1>1, FitsRequests
<1>2. ASSUME NEW t \in Tabs, ConfirmPayment(t) \/ ConfirmValidation(t)
      PROVE  Fits(i)'
  <2>1. PICK call \in {"confirmPayment", "confirmValidation"},
             pc \in {"paySave", "sync", "validateSave", "activate"} :
          UNCHANGED contracts /\ request' = [request EXCEPT ![t] = Start(t, call, pc)]
    BY <1>2 DEF ConfirmPayment, ConfirmValidation
  <2>2. Start(t, call, pc).pc = pc
    BY DEF Start
  <2>3. request'[t].pc # "create" /\ \A u \in Tabs \ {t} : request'[u] = request[u]
    BY <2>1, <2>2 DEF Founded, Sound, ProfileTypeOK
  <2> QED
    BY <2>1, <2>3, FitsRequests
<1>3. ASSUME NEW t \in Tabs, PaySave(t) \/ ValidateSave(t)
      PROVE  Fits(i)'
  <2>1. PICK pc \in {"sync", "activate"} : Goto(t, pc) /\ UNCHANGED contracts /\ Live(t)
    BY <1>3 DEF PaySave, ValidateSave, Live
  <2>2. request'[t].pc # "create" /\ \A u \in Tabs \ {t} : request'[u] = request[u]
    BY <2>1 DEF Goto, Live, Founded, Sound, ProfileTypeOK, PageRequest
  <2> QED
    BY <2>1, <2>2, FitsRequests
<1>4. ASSUME NEW t \in Tabs, ActivateRead(t)
      PROVE  Fits(i)'
  <2>1. /\ UNCHANGED contracts /\ request[t] \in PageRequest \ {Null}
        /\ \A u \in Tabs \ {t} : request'[u] = request[u]
    BY <1>4 DEF ActivateRead, Goto, Founded, Sound, ProfileTypeOK
  <2>2. CASE Goto(t, "reply")
    BY <2>1, <2>2, FitsRequests DEF Goto, Founded, Sound, ProfileTypeOK, PageRequest
  <2>3. ASSUME NEW j,
               request' = [request EXCEPT ![t].pc = "reply", ![t].identity = j]
        PROVE  Fits(i)'
    <3>1. request'[t].pc = "reply"
      BY <2>1, <2>3 DEF Founded, Sound, ProfileTypeOK, PageRequest
    <3> QED
      BY <2>1, <3>1, FitsRequests
  <2>4. ASSUME NEW j, NEW c,
               request' = [request EXCEPT ![t].pc = "update", ![t].identity = j,
                                          ![t].contract = c]
        PROVE  Fits(i)'
    <3>1. request'[t].pc = "update"
      BY <2>1, <2>4 DEF Founded, Sound, ProfileTypeOK, PageRequest
    <3> QED
      BY <2>1, <3>1, FitsRequests
  <2> QED
    BY <1>4, <2>2, <2>3, <2>4 DEF ActivateRead
<1>5. ASSUME NEW t \in Tabs, ReplyPayment(t) \/ ReplyValidation(t) \/ Fail(t)
      PROVE  Fits(i)'
  <2>1. UNCHANGED contracts /\ request' = [request EXCEPT ![t] = Null]
    BY <1>5 DEF ReplyPayment, ReplyValidation, Fail, Answer
  <2> QED
    BY <2>1, FitsRequests DEF Founded, Sound, ProfileTypeOK
<1>6. ASSUME NEW t \in Tabs, Payment(t) \/ Validation(t) \/ Fail(t) \/ Leave(t)
      PROVE  Fits(i)'
  BY <1>1, <1>2, <1>3, <1>4, <1>5, <1>6, FitsRead, FitsCreate, FitsActivate
     DEF Payment, Validation, Leave
<1>7. ASSUME NEW j \in Identities, NEW from \in {0, MaxContracts + 1},
             AddContract(j, "PENDING", from)
      PROVE  Fits(i)'
  BY <1>7, FitsAdd, BoundAssumption
<1>8. ASSUME NEW j \in Identities, NEW new \in {"ACTIVE", "OTHER"}, AddContract(j, new, 0)
      PROVE  Fits(i)'
  BY <1>8, FitsAdd
<1>9. CASE \/ \E t \in Tabs, s \in Subscriptions : OpenPaiement(t, s) \/ OpenValidation(t, s)
           \/ \E c \in ContractIds : RegisterTransportRight(c)
           \/ \E j \in Identities : Relate(j)
           \/ UNCHANGED profileVars
  BY <1>1, <1>9 DEF OpenPaiement, OpenValidation, RegisterTransportRight, Relate, profileVars
<1> QED
  BY <1>6, <1>7, <1>8, <1>9 DEF ProfileNext

LEMMA InitFits == ASSUME ProfileInit, NEW i PROVE Fits(i)
<1>1. Left(i) = {} /\ Making(i) = {}
  BY DEF ProfileInit, Left, Making, ContractIds
<1> QED
  BY <1>1, FS_EmptySet, TabsAssumption, FS_CardinalityType DEF Fits

-----------------------------------------------------------------------------
(* The theorems. *)

\* A contract that a payment put on a profile is active only on a profile that has the
\* name of the holder of a validated subscription, and the contract behind a right is
\* active: nothing a repeated or overlapping request does takes it back.
THEOREM StandsOnValidation == ProfileSpec => []Founded
  BY InitFounded, StepFounded, PTL DEF ProfileSpec

\* With the bound on what payments leave pending: with one request at a time, at most
\* one contract; with more, no more than there are requests.
THEOREM Followed == ProfileSpec => []ProfileFollowsSubscriptions
<1>1. ProfileInit => PendingBound
  BY InitFits, PendingFits
<1>2. Founded /\ PendingBound /\ [ProfileNext]_profileVars => PendingBound'
  <2> SUFFICES ASSUME Founded, PendingBound, [ProfileNext]_profileVars
               PROVE  PendingBound'
    OBVIOUS
  <2>1. \A i \in Identities : Fits(i)'
    BY PendingFits, StepFits
  <2> QED
    BY <2>1 DEF PendingBound, Fits, Left, Making
<1>3. Founded /\ PendingBound => ProfileFollowsSubscriptions
  BY DEF Founded, ProfileFollowsSubscriptions
<1> QED
  BY <1>1, <1>2, <1>3, StandsOnValidation, PTL DEF ProfileSpec
=============================================================================
