----------------------------- MODULE SupportsProofs -----------------------------
(***************************************************************************)
(* What the cases about found supports can bring back into circulation, for *)
(* any number of handlers, supports and cases.                              *)
(***************************************************************************)
EXTENDS Supports, SequenceTheorems, FiniteSetTheorems, TLAPS

\* Identities, and what an idle handler holds in place of one.
AnyIdentity == Identities \cup {Idle.identity}

Row == [identity : AnyIdentity, status : SupportStatus, born : SupportStatus]

Rows == Seq(Row)

Pc == {"idle", "insert", "latest", "append", "found", "select", "write", "closed"}

Hands ==
    [pc : Pc, identity : AnyIdentity, support : Nat, latest : Nat,
     decision : FoundSupportDecision, case : Nat, final : FoundSupportFinalStatus]

Typed ==
    /\ supports \in Rows
    /\ timeline \in Seq(TimelineEvent)
    /\ handler \in [Handlers -> Hands]

ProofsTyped == proofs \in Seq(ProofEvent)

Issued(s) == s \in Ids(supports) /\ supports[s].born \in {"ACTIVE", "LOST"}

\* A case that lets its support go back.
Allows(c, s) ==
    /\ c \in Ids(timeline)
    /\ timeline[c].type = "SUPPORT_FOUND"
    /\ timeline[c].support = s
    /\ CanBePickedUp(timeline[c].decision)

\* Only what was issued as active or lost is active, lost, or decided to go back.
StatusFromBirth ==
    \A s \in Ids(supports) : supports[s].status \in {"ACTIVE", "LOST"} => Issued(s)

CasesOnIssued ==
    \A c \in Ids(timeline) :
        timeline[c].type = "SUPPORT_FOUND" =>
            /\ timeline[c].support \in Ids(supports)
            /\ CanBePickedUp(timeline[c].decision) => Issued(timeline[c].support)

\* What a handler is about to write is covered by what it has read.
HandlerSound(h) ==
    /\ handler[h].pc \in {"found", "select", "write"} => handler[h].support \in Ids(supports)
    /\ handler[h].pc = "found" /\ CanBePickedUp(handler[h].decision)
         => Issued(handler[h].support)
    /\ handler[h].pc \in {"select", "write"} =>
         /\ handler[h].final \in DOMAIN TargetStatus
         /\ handler[h].final = "WITHDRAWN" => Allows(handler[h].case, handler[h].support)

Circulating ==
    Typed /\ StatusFromBirth /\ CasesOnIssued /\ \A h \in Handlers : HandlerSound(h)

-----------------------------------------------------------------------------
(* Types. *)

LEMMA IdleTyped == Idle \in Hands /\ Idle.pc = "idle"
  BY DEF Idle, Hands, AnyIdentity, Pc, FoundSupportDecision, FoundSupportFinalStatus

\* Empty tables and idle handlers.
LEMMA InitCirculating == SupportsInit => Circulating
<1> SUFFICES ASSUME SupportsInit
             PROVE  Circulating
  OBVIOUS
<1>1. Typed
  BY IdleTyped DEF SupportsInit, Typed, Rows
<1>2. Ids(supports) = {} /\ Ids(timeline) = {}
  BY DEF SupportsInit, Ids
<1>3. \A h \in Handlers : HandlerSound(h)
  BY IdleTyped DEF SupportsInit, HandlerSound
<1> QED
  BY <1>1, <1>2, <1>3 DEF Circulating, StatusFromBirth, CasesOnIssued

LEMMA InsertTyped ==
    ASSUME Typed, NEW i \in AnyIdentity, NEW status \in SupportStatus, InsertSupport(i, status)
    PROVE  /\ supports' \in Rows
           /\ Ids(supports') = Ids(supports) \cup {Len(supports) + 1}
           /\ \A s \in Ids(supports) : supports'[s] = supports[s]
           /\ supports'[Len(supports) + 1] = [identity |-> i, status |-> status, born |-> status]
  BY DEF Typed, InsertSupport, Rows, Row, Ids

LEMMA DecideTyped ==
    ASSUME NEW status \in SupportStatus, NEW risk \in BOOLEAN
    PROVE  /\ Decide(status, risk) \in FoundSupportDecision
           /\ CanBePickedUp(Decide(status, risk)) => status \in {"ACTIVE", "LOST"}
  BY DEF Decide, SupportStatus, FoundSupportDecision, CanBePickedUp

-----------------------------------------------------------------------------
(* Steps. *)

\* Rows are added, never taken away; a support keeps its birth, a case its decision.
Grown ==
    /\ Ids(supports) \subseteq Ids(supports')
    /\ \A s \in Ids(supports) : supports'[s].born = supports[s].born
    /\ Ids(timeline) \subseteq Ids(timeline')
    /\ \A c \in Ids(timeline) : timeline'[c] = timeline[c]

LEMMA StaysIssued ==
    ASSUME Grown, NEW s \in Ids(supports), Issued(s)
    PROVE  Issued(s)'
  BY DEF Grown, Issued

\* A handler that does not move is as sound as before.
LEMMA OthersSound ==
    ASSUME Grown, NEW g \in Handlers, HandlerSound(g), handler'[g] = handler[g]
    PROVE  HandlerSound(g)'
  BY DEF Grown, HandlerSound, Issued, Allows

\* Nothing is inserted or written: one handler moves.
LEMMA HandlerMoves ==
    ASSUME Circulating, NEW h \in Handlers, NEW to, handler' = [handler EXCEPT ![h] = to],
           to \in Hands, UNCHANGED <<supports, timeline>>, HandlerSound(h)'
    PROVE  Circulating'
<1>1. Typed'
  BY DEF Circulating, Typed
<1>2. Grown
  BY DEF Grown
<1>3. \A g \in Handlers \ {h} : HandlerSound(g)'
  BY <1>2, OthersSound DEF Circulating, Typed
<1>4. StatusFromBirth' /\ CasesOnIssued'
  BY DEF Circulating, StatusFromBirth, CasesOnIssued, Issued
<1> QED
  BY <1>1, <1>3, <1>4 DEF Circulating

\* A handler that gives up holds nothing.
LEMMA GivesUp ==
    ASSUME Circulating, NEW h \in Handlers, Done(h), UNCHANGED <<supports, timeline>>
    PROVE  Circulating'
<1>1. handler'[h].pc = "idle"
  BY IdleTyped DEF Done, Circulating, Typed
<1>2. HandlerSound(h)'
  BY <1>1 DEF HandlerSound
<1> QED
  BY <1>2, IdleTyped, HandlerMoves DEF Done

\* A row is inserted as what it was born.
LEMMA Inserts ==
    ASSUME Circulating, NEW i \in AnyIdentity, NEW status \in SupportStatus,
           InsertSupport(i, status), UNCHANGED timeline
    PROVE  Grown /\ StatusFromBirth' /\ CasesOnIssued'
<1> DEFINE n == Len(supports) + 1
<1>1. /\ Ids(supports') = Ids(supports) \cup {n}
      /\ \A s \in Ids(supports) : supports'[s] = supports[s]
      /\ supports'[n] = [identity |-> i, status |-> status, born |-> status]
  BY InsertTyped DEF Circulating
<1> HIDE DEF n
<1>2. Grown
  BY <1>1 DEF Grown
<1>3. StatusFromBirth'
  BY <1>1 DEF Circulating, StatusFromBirth, Issued
<1>4. CasesOnIssued'
  BY <1>2 DEF Circulating, CasesOnIssued, Grown, Issued
<1> QED
  BY <1>2, <1>3, <1>4

\* An entry is added to the timeline.
LEMMA Enters ==
    ASSUME Circulating, NEW entry \in TimelineEvent, timeline' = Append(timeline, entry),
           UNCHANGED supports,
           entry.type = "SUPPORT_FOUND" =>
              /\ entry.support \in Ids(supports)
              /\ CanBePickedUp(entry.decision) => Issued(entry.support)
    PROVE  Grown /\ timeline' \in Seq(TimelineEvent) /\ StatusFromBirth' /\ CasesOnIssued'
<1> DEFINE n == Len(timeline) + 1
<1>1. /\ Ids(timeline') = Ids(timeline) \cup {n}
      /\ \A c \in Ids(timeline) : timeline'[c] = timeline[c]
      /\ timeline'[n] = entry
      /\ timeline' \in Seq(TimelineEvent)
  BY DEF Circulating, Typed, Ids
<1> HIDE DEF n
<1>2. Grown
  BY <1>1 DEF Grown
<1>3. StatusFromBirth'
  BY DEF Circulating, StatusFromBirth, Issued
<1>4. CasesOnIssued'
  BY <1>1 DEF Circulating, CasesOnIssued, Issued
<1> QED
  BY <1>1, <1>2, <1>3, <1>4

\* The handler that has added an entry is done.
LEMMA Entered ==
    ASSUME Circulating, NEW h \in Handlers, Done(h), UNCHANGED supports, Grown,
           timeline' \in Seq(TimelineEvent), StatusFromBirth', CasesOnIssued'
    PROVE  Circulating'
<1>1. Typed'
  BY IdleTyped DEF Done, Circulating, Typed
<1>2. handler'[h].pc = "idle"
  BY IdleTyped DEF Done, Circulating, Typed
<1>3. HandlerSound(h)'
  BY <1>2 DEF HandlerSound
<1>4. \A g \in Handlers \ {h} : HandlerSound(g)'
  BY OthersSound DEF Done, Circulating, Typed
<1> QED
  BY <1>1, <1>3, <1>4 DEF Circulating

\* What is written to a support is covered by the case.
LEMMA Writes ==
    ASSUME Circulating, NEW h \in Handlers, UpdateWrite(h)
    PROVE  Circulating'
<1>1. PICK s \in Ids(supports) : s = handler[h].support
  BY DEF UpdateWrite, Circulating, HandlerSound
<1>2. PICK final \in DOMAIN TargetStatus : final = handler[h].final
  BY DEF UpdateWrite, Circulating, HandlerSound
<1> DEFINE status == TargetStatus[final]
<1>3. status \in SupportStatus /\ status # "LOST" /\ (status = "ACTIVE" => final = "WITHDRAWN")
  BY <1>2 DEF TargetStatus, SupportStatus
<1>4. supports' = [supports EXCEPT ![s].status = status]
  BY <1>1, <1>2 DEF UpdateWrite
<1> HIDE DEF status
<1>5. /\ supports' \in Rows /\ Ids(supports') = Ids(supports)
      /\ \A r \in Ids(supports) : supports'[r].born = supports[r].born
      /\ supports'[s].status = status
      /\ \A r \in Ids(supports) \ {s} : supports'[r] = supports[r]
  <2> DEFINE new == [supports[s] EXCEPT !.status = status]
  <2>1. supports \in Seq(Row) /\ s \in 1 .. Len(supports)
    BY DEF Circulating, Typed, Rows, Ids
  <2>2. supports[s] \in Row
    BY <2>1
  <2>3. new \in Row /\ new.born = supports[s].born /\ new.status = status
    BY <1>3, <2>2 DEF Row
  <2>4. supports' = [supports EXCEPT ![s] = new]
    BY <1>4
  <2> HIDE DEF new
  <2>5. /\ supports' \in Seq(Row) /\ Len(supports') = Len(supports)
        /\ \A r \in 1 .. Len(supports) : supports'[r] = IF r = s THEN new ELSE supports[r]
    BY <2>1, <2>3, <2>4, ExceptSeq
  <2> QED
    BY <2>1, <2>3, <2>5 DEF Rows, Ids
<1>6. UNCHANGED timeline /\ handler' = [handler EXCEPT ![h].pc = "closed"]
  BY DEF UpdateWrite, Step
<1>7. Grown
  BY <1>5, <1>6 DEF Grown
<1>8. Typed'
  BY <1>5, <1>6 DEF Circulating, Typed, Hands, Pc
<1>9. \A r \in Ids(supports) : Issued(r)' = Issued(r)
  BY <1>5 DEF Issued
<1>10. status = "ACTIVE" => Issued(s)
  BY <1>1, <1>2, <1>3 DEF UpdateWrite, Circulating, HandlerSound, CasesOnIssued, Allows
<1>11. StatusFromBirth'
  BY <1>3, <1>5, <1>9, <1>10 DEF Circulating, StatusFromBirth
<1>12. CasesOnIssued'
  BY <1>5, <1>6, <1>9 DEF Circulating, CasesOnIssued
<1>13. HandlerSound(h)'
  BY <1>6 DEF HandlerSound, Circulating, Typed, Hands
<1>14. \A g \in Handlers \ {h} : HandlerSound(g)'
  BY <1>6, <1>7, OthersSound DEF Circulating, Typed
<1> QED
  BY <1>8, <1>11, <1>12, <1>13, <1>14 DEF Circulating

\* The proofs are those of supports.
LEMMA StepProofs == Circulating /\ ProofsTyped /\ [SupportsNext]_supportsVars => ProofsTyped'
<1> SUFFICES ASSUME Circulating, ProofsTyped, [SupportsNext]_supportsVars
             PROVE  ProofsTyped'
  OBVIOUS
<1>1. CASE UNCHANGED proofs
  BY <1>1 DEF ProofsTyped
<1>2. ASSUME NEW h \in Handlers, ActivateAppend(h)
      PROVE  ProofsTyped'
  <2>1. [support |-> handler[h].support, previous |-> handler[h].latest] \in ProofEvent
    BY DEF ProofEvent, Circulating, Typed, Hands
  <2> QED
    BY <1>2, <2>1 DEF ActivateAppend, ProofsTyped
<1> QED
  BY <1>1, <1>2, Zenon DEF supportsVars, SupportsNext, Activate, Declare, Close, ActivateCount,
     ActivateInsert, ActivateLatest, CreateSupport, DeclareRead, DeclareAppend, CloseRead,
     UpdateSelect, UpdateWrite, CloseAppend, Stop

\* What the other steps leave sound.
LEMMA StepCirculating ==
    Circulating /\ ProofsTyped /\ [SupportsNext]_supportsVars => Circulating'
<1> SUFFICES ASSUME Circulating, ProofsTyped, [SupportsNext]_supportsVars
             PROVE  Circulating'
  OBVIOUS
<1>1. CASE UNCHANGED supportsVars
  BY <1>1 DEF supportsVars, Circulating, Typed, StatusFromBirth, CasesOnIssued, HandlerSound,
       Issued, Allows
<1>2. ASSUME NEW h \in Handlers, NEW i \in Identities, ActivateCount(h, i)
      PROVE  Circulating'
  <2> DEFINE to == [Idle EXCEPT !.pc = "insert", !.identity = i]
  <2>1. handler' = [handler EXCEPT ![h] = to] /\ UNCHANGED <<supports, timeline>>
    BY <1>2 DEF ActivateCount
  <2>2. to \in Hands /\ to.pc = "insert"
    BY IdleTyped DEF Hands, Pc, AnyIdentity
  <2> HIDE DEF to
  <2>3. HandlerSound(h)'
    BY <2>1, <2>2 DEF HandlerSound, Circulating, Typed
  <2> QED
    BY <2>1, <2>2, <2>3, HandlerMoves
<1>3. ASSUME NEW h \in Handlers, ActivateInsert(h)
      PROVE  Circulating'
  <2> DEFINE to == [handler[h] EXCEPT !.pc = "latest", !.support = Len(supports) + 1]
  <2>1. /\ InsertSupport(handler[h].identity, "ACTIVE") /\ UNCHANGED timeline
        /\ handler' = [handler EXCEPT ![h] = to]
    BY <1>3 DEF ActivateInsert
  <2>2. to \in Hands /\ to.pc = "latest" /\ handler[h].identity \in AnyIdentity
    <3>1. Len(supports) + 1 \in Nat
      BY DEF Circulating, Typed, Rows
    <3>2. handler[h] \in Hands
      BY DEF Circulating, Typed
    <3> QED
      BY <3>1, <3>2 DEF Hands, Pc
  <2> HIDE DEF to
  <2>3. "ACTIVE" \in SupportStatus
    BY DEF SupportStatus
  <2>4. Grown /\ StatusFromBirth' /\ CasesOnIssued'
    BY <2>1, <2>2, <2>3, Inserts
  <2>5. Typed'
    BY <2>1, <2>2, <2>3, InsertTyped DEF Circulating, Typed
  <2>6. HandlerSound(h)'
    BY <2>1, <2>2 DEF HandlerSound, Circulating, Typed
  <2>7. \A g \in Handlers \ {h} : HandlerSound(g)'
    BY <2>1, <2>4, OthersSound DEF Circulating, Typed
  <2> QED
    BY <2>4, <2>5, <2>6, <2>7 DEF Circulating
<1>4. ASSUME NEW h \in Handlers, ActivateLatest(h)
      PROVE  Circulating'
  <2> DEFINE to == [handler[h] EXCEPT !.pc = "append", !.latest = FindLatest]
  <2>1. handler' = [handler EXCEPT ![h] = to] /\ UNCHANGED <<supports, timeline>>
    BY <1>4 DEF ActivateLatest
  <2>2. FindLatest \in Nat
    BY DEF FindLatest, ProofsTyped
  <2>3. to \in Hands /\ to.pc = "append"
    BY <2>2 DEF Circulating, Typed, Hands, Pc
  <2> HIDE DEF to
  <2>4. HandlerSound(h)'
    BY <2>1, <2>3 DEF HandlerSound, Circulating, Typed
  <2> QED
    BY <2>1, <2>3, <2>4, HandlerMoves
<1>5. ASSUME NEW h \in Handlers, ActivateAppend(h)
      PROVE  Circulating'
  BY <1>5, GivesUp DEF ActivateAppend
<1>6. ASSUME NEW h \in Handlers, NEW i \in Identities, NEW status \in CreatedAs,
             CreateSupport(h, i, status)
      PROVE  Circulating'
  <2>1. /\ InsertSupport(i, status) /\ UNCHANGED <<timeline, handler>>
        /\ i \in AnyIdentity /\ status \in SupportStatus
    BY <1>6, CreatedAsAssumption DEF CreateSupport, AnyIdentity
  <2>2. Grown /\ StatusFromBirth' /\ CasesOnIssued'
    BY <2>1, Inserts
  <2>3. Typed'
    BY <2>1, InsertTyped DEF Circulating, Typed
  <2>4. \A g \in Handlers : HandlerSound(g)'
    BY <2>1, <2>2, OthersSound DEF Circulating
  <2> QED
    BY <2>2, <2>3, <2>4 DEF Circulating
<1>7. ASSUME NEW h \in Handlers, NEW s \in Ids(supports), NEW risk \in BOOLEAN,
             DeclareRead(h, s, risk)
      PROVE  Circulating'
  <2> DEFINE decision == Decide(supports[s].status, risk)
             to == [Idle EXCEPT !.pc = "found", !.support = s, !.decision = decision]
  <2>1. handler' = [handler EXCEPT ![h] = to] /\ UNCHANGED <<supports, timeline>>
    BY <1>7 DEF DeclareRead
  <2>2. s \in Nat /\ supports[s].status \in SupportStatus
    <3>1. supports \in Seq(Row) /\ s \in 1 .. Len(supports)
      BY DEF Ids, Circulating, Typed, Rows
    <3>2. supports[s] \in Row
      BY <3>1
    <3> QED
      BY <3>1, <3>2 DEF Row
  <2>3. /\ decision \in FoundSupportDecision
        /\ CanBePickedUp(decision) => supports[s].status \in {"ACTIVE", "LOST"}
    BY <2>2, DecideTyped
  <2>4. CanBePickedUp(decision) => Issued(s)
    BY <2>3 DEF Circulating, StatusFromBirth
  <2> HIDE DEF decision
  <2>5. to \in Hands /\ to.pc = "found" /\ to.support = s /\ to.decision = decision
    BY <2>2, <2>3, IdleTyped DEF Hands, Pc
  <2> HIDE DEF to
  <2>6. HandlerSound(h)'
    BY <2>1, <2>4, <2>5 DEF HandlerSound, Circulating, Typed, Issued
  <2> QED
    BY <2>1, <2>5, <2>6, HandlerMoves
<1>8. ASSUME NEW h \in Handlers, DeclareAppend(h)
      PROVE  Circulating'
  <2> DEFINE entry == [type |-> "SUPPORT_FOUND", support |-> handler[h].support,
                       decision |-> handler[h].decision]
  <2>1. /\ timeline' = Append(timeline, entry) /\ UNCHANGED supports
        /\ handler[h].pc = "found" /\ Done(h)
    BY <1>8 DEF DeclareAppend
  <2>2. entry \in TimelineEvent
    BY DEF TimelineEvent, Circulating, Typed, Hands
  <2>3. /\ entry.support \in Ids(supports)
        /\ CanBePickedUp(entry.decision) => Issued(entry.support)
    BY <2>1 DEF Circulating, HandlerSound
  <2> HIDE DEF entry
  <2>4. Grown /\ timeline' \in Seq(TimelineEvent) /\ StatusFromBirth' /\ CasesOnIssued'
    BY <2>1, <2>2, <2>3, Enters
  <2> QED
    BY <2>1, <2>4, Entered
<1>9. ASSUME NEW h \in Handlers, NEW c \in Ids(timeline),
             NEW final \in FoundSupportFinalStatus, CloseRead(h, c, final)
      PROVE  Circulating'
  <2> DEFINE s == timeline[c].support
             pc == IF final \in DOMAIN TargetStatus THEN "select" ELSE "closed"
             to == [Idle EXCEPT !.pc = pc, !.support = s, !.case = c, !.final = final]
  <2>1. /\ handler' = [handler EXCEPT ![h] = to] /\ UNCHANGED <<supports, timeline>>
        /\ timeline[c].type = "SUPPORT_FOUND"
        /\ final = "WITHDRAWN" => CanBePickedUp(timeline[c].decision)
    BY <1>9 DEF CloseRead, AssertWithdrawalAllowed
  <2>2. s \in Ids(supports) /\ s \in Nat /\ c \in Nat
    BY <2>1 DEF Circulating, CasesOnIssued, Ids
  <2>3. pc \in {"select", "closed"} /\ (pc = "select" => final \in DOMAIN TargetStatus)
    OBVIOUS
  <2>4. final = "WITHDRAWN" => Allows(c, s)
    BY <2>1 DEF Allows
  <2> HIDE DEF s, pc
  <2>5. /\ to \in Hands /\ to.pc = pc /\ to.support = s
        /\ to.case = c /\ to.final = final
    BY <2>2, <2>3, IdleTyped DEF Hands, Pc
  <2> HIDE DEF to
  <2>6. HandlerSound(h)'
    BY <2>1, <2>2, <2>3, <2>4, <2>5 DEF HandlerSound, Circulating, Typed, Allows
  <2> QED
    BY <2>1, <2>5, <2>6, HandlerMoves
<1>10. ASSUME NEW h \in Handlers, UpdateSelect(h)
      PROVE  Circulating'
  <2> PICK pc \in {"closed", "write"} : Step(h, pc)
    BY <1>10 DEF UpdateSelect
  <2> DEFINE to == [handler[h] EXCEPT !.pc = pc]
  <2>1. /\ handler' = [handler EXCEPT ![h] = to] /\ UNCHANGED <<supports, timeline>>
        /\ handler[h].pc = "select"
    BY <1>10 DEF UpdateSelect, Step
  <2>2. /\ to \in Hands /\ to.pc = pc /\ to.support = handler[h].support
        /\ to.case = handler[h].case /\ to.final = handler[h].final
    BY DEF Circulating, Typed, Hands, Pc
  <2> HIDE DEF to
  <2>3. HandlerSound(h)'
    BY <2>1, <2>2 DEF HandlerSound, Circulating, Typed, Allows
  <2> QED
    BY <2>1, <2>2, <2>3, HandlerMoves
<1>11. ASSUME NEW h \in Handlers, CloseAppend(h)
      PROVE  Circulating'
  <2> DEFINE entry == [type |-> "SUPPORT_FOUND_CLOSED", support |-> handler[h].support,
                       case |-> handler[h].case, final |-> handler[h].final]
  <2>1. timeline' = Append(timeline, entry) /\ UNCHANGED supports /\ Done(h)
    BY <1>11 DEF CloseAppend
  <2>2. entry \in TimelineEvent
    BY DEF TimelineEvent, Circulating, Typed, Hands
  <2>3. entry.type # "SUPPORT_FOUND"
    OBVIOUS
  <2> HIDE DEF entry
  <2>4. Grown /\ timeline' \in Seq(TimelineEvent) /\ StatusFromBirth' /\ CasesOnIssued'
    BY <2>1, <2>2, <2>3, Enters
  <2> QED
    BY <2>1, <2>4, Entered
<1>12. ASSUME NEW h \in Handlers, Stop(h)
      PROVE  Circulating'
  BY <1>12, GivesUp DEF Stop
<1> QED
  BY <1>1, <1>2, <1>3, <1>4, <1>5, <1>6, <1>7, <1>8, <1>9, <1>10, <1>11, <1>12, Writes
     DEF SupportsNext, Activate, Declare, Close

\* Only a withdrawal makes a support active again, and its case allows it.
LEMMA StepReturned ==
    Circulating /\ [SupportsNext]_supportsVars =>
        [\A s \in Ids(supports) :
            supports[s].status # "ACTIVE" /\ supports'[s].status = "ACTIVE" =>
                \E c \in Ids(timeline) : /\ timeline[c].type = "SUPPORT_FOUND"
                                         /\ timeline[c].support = s
                                         /\ CanBePickedUp(timeline[c].decision)]_supportsVars
<1> SUFFICES ASSUME Circulating, SupportsNext, NEW s \in Ids(supports),
                    supports[s].status # "ACTIVE", supports'[s].status = "ACTIVE"
             PROVE  \E c \in Ids(timeline) : Allows(c, s)
  BY DEF supportsVars, Allows
<1>1. CASE UNCHANGED supports
  BY <1>1
<1>2. ASSUME NEW i \in AnyIdentity, NEW status \in SupportStatus, InsertSupport(i, status)
      PROVE  FALSE
  BY <1>2, InsertTyped DEF Circulating
<1>3. ASSUME NEW h \in Handlers, UpdateWrite(h)
      PROVE  \E c \in Ids(timeline) : Allows(c, s)
  <2>1. /\ handler[h].pc = "write"
        /\ supports' = [supports EXCEPT ![handler[h].support].status =
                          TargetStatus[handler[h].final]]
    BY <1>3 DEF UpdateWrite
  <2>2. handler[h].support = s /\ TargetStatus[handler[h].final] = "ACTIVE"
    BY <2>1 DEF Circulating, Typed, Rows, Ids
  <2>3. handler[h].final = "WITHDRAWN"
    BY <2>1, <2>2 DEF Circulating, HandlerSound, TargetStatus
  <2> QED
    BY <2>1, <2>2, <2>3 DEF Circulating, HandlerSound, Allows
<1>4. ASSUME NEW h \in Handlers, ActivateInsert(h)
      PROVE  FALSE
  <2>1. handler[h].identity \in AnyIdentity /\ "ACTIVE" \in SupportStatus
    BY DEF Circulating, Typed, Hands, SupportStatus
  <2> QED
    BY <1>2, <1>4, <2>1 DEF ActivateInsert
<1>5. ASSUME NEW h \in Handlers, NEW i \in Identities, NEW status \in CreatedAs,
             CreateSupport(h, i, status)
      PROVE  FALSE
  BY <1>2, <1>5, CreatedAsAssumption DEF CreateSupport, AnyIdentity
<1> QED
  BY <1>1, <1>3, <1>4, <1>5, Zenon
     DEF SupportsNext, Activate, Declare, Close, ActivateCount, ActivateLatest,
     ActivateAppend, DeclareRead, DeclareAppend, CloseRead, UpdateSelect, CloseAppend, Stop

-----------------------------------------------------------------------------
(* Counting. *)

\* What is only taken from two sets does not add up to more.
LEMMA CountKept ==
    ASSUME NEW P, NEW C, IsFiniteSet(P), IsFiniteSet(C), NEW Q \in SUBSET P, NEW D \in SUBSET C
    PROVE  Cardinality(Q) + Cardinality(D) <= Cardinality(P) + Cardinality(C)
<1>1. Cardinality(Q) <= Cardinality(P) /\ Cardinality(D) <= Cardinality(C)
  BY FS_Subset
<1>2. /\ Cardinality(P) \in Nat /\ Cardinality(C) \in Nat
      /\ Cardinality(Q) \in Nat /\ Cardinality(D) \in Nat
  BY FS_CardinalityType, FS_Subset
<1> QED
  BY <1>1, <1>2

\* Nor what one set gains while the other loses.
LEMMA CountMoved ==
    ASSUME NEW P, NEW C, IsFiniteSet(P), IsFiniteSet(C), NEW x, NEW h \in C,
           NEW Q \in SUBSET (P \cup {x}), NEW D \in SUBSET (C \ {h})
    PROVE  Cardinality(Q) + Cardinality(D) <= Cardinality(P) + Cardinality(C)
<1>1. /\ IsFiniteSet(P \cup {x}) /\ Cardinality(P \cup {x}) <= Cardinality(P) + 1
      /\ IsFiniteSet(C \ {h}) /\ Cardinality(C \ {h}) = Cardinality(C) - 1
  BY FS_AddElement, FS_RemoveElement, FS_CardinalityType
<1>2. Cardinality(Q) + Cardinality(D) <= Cardinality(P \cup {x}) + Cardinality(C \ {h})
  BY <1>1, CountKept
<1>3. /\ Cardinality(P) \in Nat /\ Cardinality(C) \in Nat
      /\ Cardinality(Q) \in Nat /\ Cardinality(D) \in Nat
      /\ Cardinality(P \cup {x}) \in Nat /\ Cardinality(C \ {h}) \in Nat
  BY <1>1, FS_CardinalityType, FS_Subset
<1> QED
  BY <1>1, <1>2, <1>3

\* The supports of i that no case has put back, and the activations about to add one.
Held(i) == Active(i) \ returned
Inserting(i) == {h \in Handlers : handler[h].pc = "insert" /\ handler[h].identity = i}

LEMMA Finite ==
    ASSUME Circulating, NEW i
    PROVE  /\ IsFiniteSet(Active(i)) /\ IsFiniteSet(Held(i)) /\ IsFiniteSet(Inserting(i))
           /\ Cardinality(Held(i)) <= Cardinality(Active(i))
           /\ Cardinality(Inserting(i)) <= Cardinality(Handlers)
<1>1. Len(supports) \in Nat
  BY DEF Circulating, Typed, Rows
<1>2. IsFiniteSet(1 .. Len(supports))
  BY <1>1, FS_Interval
<1>3. Active(i) \in SUBSET (1 .. Len(supports))
  BY DEF Active, FindByMobilityIdentityId, Ids
<1>4. Held(i) \in SUBSET Active(i) /\ Inserting(i) \in SUBSET Handlers
  BY DEF Held, Inserting
<1>5. IsFiniteSet(Active(i))
  BY <1>2, <1>3, FS_Subset
<1> QED
  BY <1>4, <1>5, HandlersAssumption, FS_Subset

\* Nothing is active at first.
LEMMA InitBound == SupportsInit => ActiveBound
<1> SUFFICES ASSUME SupportsInit, NEW i \in Identities
             PROVE  Cardinality(Held(i)) + Cardinality(Inserting(i))
                      <= MAX_ACTIVE_SUPPORTS - 1 + Cardinality(Handlers)
  BY DEF ActiveBound, Held, Inserting
<1>1. Held(i) = {}
  BY DEF SupportsInit, Held, Active, FindByMobilityIdentityId, Ids
<1>2. Inserting(i) = {}
  BY IdleTyped DEF SupportsInit, Inserting
<1>3. Cardinality(Handlers) \in Nat
  BY HandlersAssumption, FS_CardinalityType
<1> QED
  BY <1>1, <1>2, <1>3, FS_EmptySet DEF MAX_ACTIVE_SUPPORTS

\* What one identity's sets may do in a step.
LEMMA BoundKept ==
    ASSUME Circulating, ActiveBound, NEW i \in Identities, [SupportsNext]_supportsVars
    PROVE  \/ Held(i)' \subseteq Held(i) /\ Inserting(i)' \subseteq Inserting(i)
           \/ \E h \in Inserting(i) : \E x :
                 /\ Held(i)' \subseteq Held(i) \cup {x}
                 /\ Inserting(i)' \subseteq Inserting(i) \ {h}
           \/ Held(i)' \subseteq Held(i) /\ Cardinality(Active(i)) < MAX_ACTIVE_SUPPORTS
<1>1. CASE UNCHANGED supportsVars
  BY <1>1 DEF supportsVars, Held, Inserting, Active, FindByMobilityIdentityId, Ids
<1>2. ASSUME UNCHANGED <<supports, returned>>
      PROVE  Held(i)' = Held(i)
  BY <1>2 DEF Held, Active, FindByMobilityIdentityId, Ids
<1>3. ASSUME NEW h \in Handlers, NEW to, handler' = [handler EXCEPT ![h] = to],
             to.pc # "insert"
      PROVE  Inserting(i)' \subseteq Inserting(i) \ {h}
  BY <1>3 DEF Inserting, Circulating, Typed
<1>4. ASSUME NEW h \in Handlers, NEW j \in Identities, ActivateCount(h, j)
      PROVE  /\ Held(i)' \subseteq Held(i)
             /\ \/ Cardinality(Active(i)) < MAX_ACTIVE_SUPPORTS
                \/ Inserting(i)' \subseteq Inserting(i)
  <2>1. Held(i)' = Held(i)
    BY <1>2, <1>4 DEF ActivateCount
  <2>2. CASE j = i
    BY <1>4, <2>1, <2>2 DEF ActivateCount, BelowLimit
  <2>3. CASE j # i
    <3> DEFINE to == [Idle EXCEPT !.pc = "insert", !.identity = j]
    <3>1. handler' = [handler EXCEPT ![h] = to]
      BY <1>4 DEF ActivateCount
    <3>2. to.identity = j
      BY IdleTyped DEF Hands
    <3> HIDE DEF to
    <3>3. Inserting(i)' \subseteq Inserting(i)
      BY <2>3, <3>1, <3>2 DEF Inserting, Circulating, Typed
    <3> QED
      BY <2>1, <3>3
  <2> QED
    BY <2>2, <2>3
<1>5. ASSUME NEW j \in AnyIdentity, NEW status \in SupportStatus, InsertSupport(j, status),
             UNCHANGED returned
      PROVE  /\ j # i \/ status # "ACTIVE" => Held(i)' \subseteq Held(i)
             /\ Held(i)' \subseteq Held(i) \cup {Len(supports) + 1}
  <2> DEFINE n == Len(supports) + 1
  <2>1. /\ Ids(supports') = Ids(supports) \cup {n}
        /\ \A s \in Ids(supports) : supports'[s] = supports[s]
        /\ supports'[n] = [identity |-> j, status |-> status, born |-> status]
    BY <1>5, InsertTyped DEF Circulating
  <2> HIDE DEF n
  <2>2. Held(i)' \subseteq Held(i) \cup {n}
    BY <1>5, <2>1 DEF Held, Active, FindByMobilityIdentityId
  <2>3. j # i \/ status # "ACTIVE" => n \notin Held(i)'
    BY <2>1 DEF Held, Active, FindByMobilityIdentityId
  <2> QED
    BY <2>2, <2>3 DEF n
<1>6. ASSUME NEW h \in Handlers, ActivateInsert(h)
      PROVE  \/ Held(i)' \subseteq Held(i) /\ Inserting(i)' \subseteq Inserting(i)
             \/ \E g \in Inserting(i) : \E x :
                   /\ Held(i)' \subseteq Held(i) \cup {x}
                   /\ Inserting(i)' \subseteq Inserting(i) \ {g}
  <2> DEFINE to == [handler[h] EXCEPT !.pc = "latest", !.support = Len(supports) + 1]
             j == handler[h].identity
  <2>1. /\ InsertSupport(j, "ACTIVE") /\ UNCHANGED returned /\ handler[h].pc = "insert"
        /\ handler' = [handler EXCEPT ![h] = to]
    BY <1>6 DEF ActivateInsert
  <2>2. to.pc = "latest" /\ j \in AnyIdentity /\ "ACTIVE" \in SupportStatus
    BY DEF Circulating, Typed, Hands, SupportStatus
  <2>3. h \in Inserting(i) <=> j = i
    BY <2>1 DEF Inserting
  <2> HIDE DEF to, j
  <2>4. Inserting(i)' \subseteq Inserting(i) \ {h}
    BY <1>3, <2>1, <2>2
  <2> QED
    BY <1>5, <2>1, <2>2, <2>3, <2>4
<1>7. ASSUME NEW h \in Handlers, NEW j \in Identities, NEW status \in CreatedAs,
             CreateSupport(h, j, status)
      PROVE  Held(i)' \subseteq Held(i) /\ Inserting(i)' \subseteq Inserting(i)
  <2>1. /\ InsertSupport(j, status) /\ UNCHANGED <<returned, handler>>
        /\ j \in AnyIdentity /\ status \in SupportStatus /\ status # "ACTIVE"
    BY <1>7, CreatedAsAssumption DEF CreateSupport, AnyIdentity
  <2>2. Held(i)' \subseteq Held(i)
    BY <1>5, <2>1
  <2> QED
    BY <2>1, <2>2 DEF Inserting
<1>8. ASSUME NEW h \in Handlers, UpdateWrite(h)
      PROVE  Held(i)' \subseteq Held(i) /\ Inserting(i)' \subseteq Inserting(i)
  <2> DEFINE r == handler[h].support
             status == TargetStatus[handler[h].final]
  <2>1. /\ supports' = [supports EXCEPT ![r].status = status]
        /\ returned' = IF status = "ACTIVE" THEN returned \cup {r} ELSE returned
        /\ handler' = [handler EXCEPT ![h].pc = "closed"]
    BY <1>8 DEF UpdateWrite, Step
  <2>2. Ids(supports') = Ids(supports)
    BY <2>1 DEF Ids, Circulating, Typed, Rows
  <2>3. \A s \in Ids(supports) : /\ supports'[s].identity = supports[s].identity
                                 /\ s # r => supports'[s] = supports[s]
                                 /\ s = r => supports'[s].status = status
    <3> SUFFICES ASSUME NEW s \in Ids(supports)
                 PROVE  /\ supports'[s].identity = supports[s].identity
                        /\ s # r => supports'[s] = supports[s]
                        /\ s = r => supports'[s].status = status
      OBVIOUS
    <3>1. s \in DOMAIN supports /\ supports[s] \in Row
      BY DEF Ids, Circulating, Typed, Rows
    <3>2. supports'[s] = IF s = r THEN [supports[s] EXCEPT !.status = status] ELSE supports[s]
      BY <2>1, <3>1
    <3> QED
      BY <3>1, <3>2 DEF Row
  <2> HIDE DEF r, status
  <2>4. Held(i)' \subseteq Held(i)
    BY <2>1, <2>2, <2>3 DEF Held, Active, FindByMobilityIdentityId
  <2>5. Inserting(i)' \subseteq Inserting(i)
    BY <2>1 DEF Inserting, Circulating, Typed, Hands
  <2> QED
    BY <2>4, <2>5
<1>9. ASSUME NEW h \in Handlers, UNCHANGED <<supports, returned>>,
             NEW to, handler' = [handler EXCEPT ![h] = to], to.pc # "insert"
      PROVE  Held(i)' \subseteq Held(i) /\ Inserting(i)' \subseteq Inserting(i)
  BY <1>2, <1>3, <1>9
<1>10. ASSUME NEW h \in Handlers, ActivateLatest(h)
       PROVE  Held(i)' \subseteq Held(i) /\ Inserting(i)' \subseteq Inserting(i)
  <2> DEFINE to == [handler[h] EXCEPT !.pc = "append", !.latest = FindLatest]
  <2>1. UNCHANGED <<supports, returned>> /\ handler' = [handler EXCEPT ![h] = to]
    BY <1>10 DEF ActivateLatest
  <2>2. to.pc = "append"
    BY DEF Circulating, Typed, Hands
  <2> HIDE DEF to
  <2> QED
    BY <1>9, <2>1, <2>2
<1>11. ASSUME NEW h \in Handlers,
              ActivateAppend(h) \/ DeclareAppend(h) \/ CloseAppend(h) \/ Stop(h)
       PROVE  Held(i)' \subseteq Held(i) /\ Inserting(i)' \subseteq Inserting(i)
  <2>1. UNCHANGED <<supports, returned>> /\ handler' = [handler EXCEPT ![h] = Idle]
    BY <1>11 DEF ActivateAppend, DeclareAppend, CloseAppend, Stop, Done
  <2> QED
    BY <1>9, <2>1, IdleTyped
<1>12. ASSUME NEW h \in Handlers, NEW s \in Ids(supports), NEW risk \in BOOLEAN,
              DeclareRead(h, s, risk)
       PROVE  Held(i)' \subseteq Held(i) /\ Inserting(i)' \subseteq Inserting(i)
  <2> DEFINE to == [Idle EXCEPT !.pc = "found", !.support = s,
                               !.decision = Decide(supports[s].status, risk)]
  <2>1. UNCHANGED <<supports, returned>> /\ handler' = [handler EXCEPT ![h] = to]
    BY <1>12 DEF DeclareRead
  <2>2. to.pc = "found"
    BY IdleTyped DEF Hands
  <2> HIDE DEF to
  <2> QED
    BY <1>9, <2>1, <2>2
<1>13. ASSUME NEW h \in Handlers, NEW c \in Ids(timeline),
              NEW final \in FoundSupportFinalStatus, CloseRead(h, c, final)
       PROVE  Held(i)' \subseteq Held(i) /\ Inserting(i)' \subseteq Inserting(i)
  <2> DEFINE pc == IF final \in DOMAIN TargetStatus THEN "select" ELSE "closed"
             to == [Idle EXCEPT !.pc = pc, !.support = timeline[c].support,
                                !.case = c, !.final = final]
  <2>1. UNCHANGED <<supports, returned>> /\ handler' = [handler EXCEPT ![h] = to]
    BY <1>13 DEF CloseRead
  <2>2. pc # "insert"
    OBVIOUS
  <2> HIDE DEF pc
  <2>3. to.pc = pc
    BY IdleTyped DEF Hands
  <2> HIDE DEF to
  <2> QED
    BY <1>9, <2>1, <2>2, <2>3
<1>14. ASSUME NEW h \in Handlers, UpdateSelect(h)
       PROVE  Held(i)' \subseteq Held(i) /\ Inserting(i)' \subseteq Inserting(i)
  <2> PICK pc \in {"closed", "write"} : Step(h, pc)
    BY <1>14 DEF UpdateSelect
  <2> DEFINE to == [handler[h] EXCEPT !.pc = pc]
  <2>1. UNCHANGED <<supports, returned>> /\ handler' = [handler EXCEPT ![h] = to]
    BY <1>14 DEF UpdateSelect, Step
  <2>2. to.pc = pc
    BY DEF Circulating, Typed, Hands
  <2> HIDE DEF to
  <2> QED
    BY <1>9, <2>1, <2>2
<1> QED
  BY <1>1, <1>4, <1>6, <1>7, <1>8, <1>10, <1>11, <1>12, <1>13, <1>14
     DEF SupportsNext, Activate, Declare, Close

\* The count is taken before the insertion, by every activation under way.
LEMMA StepBound ==
    Circulating /\ ActiveBound /\ [SupportsNext]_supportsVars => ActiveBound'
<1> DEFINE n == Cardinality(Handlers)
<1> SUFFICES ASSUME Circulating, ActiveBound, [SupportsNext]_supportsVars,
                    NEW i \in Identities
             PROVE  Cardinality(Held(i)') + Cardinality(Inserting(i)') <= 1 + n
  BY DEF ActiveBound, Held, Inserting, MAX_ACTIVE_SUPPORTS
<1>1. Cardinality(Held(i)) + Cardinality(Inserting(i)) <= 1 + n
  BY DEF ActiveBound, Held, Inserting, MAX_ACTIVE_SUPPORTS
<1>2. /\ IsFiniteSet(Held(i)) /\ IsFiniteSet(Inserting(i))
      /\ Cardinality(Held(i)) <= Cardinality(Active(i))
      /\ IsFiniteSet(Active(i))
  BY Finite
<1>3. /\ IsFiniteSet(Held(i)') /\ IsFiniteSet(Inserting(i)')
      /\ Cardinality(Inserting(i)') <= n
  <2>1. Inserting(i)' \in SUBSET Handlers
    BY DEF Inserting
  <2>2. \A x : IsFiniteSet(Held(i) \cup {x})
    BY <1>2, FS_AddElement
  <2>3. Held(i)' \subseteq Held(i) \/ \E x : Held(i)' \subseteq Held(i) \cup {x}
    BY BoundKept
  <2>4. IsFiniteSet(Held(i)')
    BY <1>2, <2>2, <2>3, FS_Subset
  <2> QED
    BY <2>1, <2>4, HandlersAssumption, FS_Subset
<1>4. /\ n \in Nat /\ Cardinality(Held(i)) \in Nat /\ Cardinality(Inserting(i)) \in Nat
      /\ Cardinality(Held(i)') \in Nat /\ Cardinality(Inserting(i)') \in Nat
      /\ Cardinality(Active(i)) \in Nat
  BY <1>2, <1>3, HandlersAssumption, FS_CardinalityType
<1> HIDE DEF n
<1>5. CASE Held(i)' \subseteq Held(i) /\ Inserting(i)' \subseteq Inserting(i)
  <2>1. Cardinality(Held(i)') + Cardinality(Inserting(i)')
          <= Cardinality(Held(i)) + Cardinality(Inserting(i))
    BY <1>2, <1>5, CountKept
  <2> QED
    BY <1>1, <1>4, <2>1
<1>6. ASSUME NEW h \in Inserting(i), NEW x, Held(i)' \subseteq Held(i) \cup {x},
             Inserting(i)' \subseteq Inserting(i) \ {h}
      PROVE  Cardinality(Held(i)') + Cardinality(Inserting(i)') <= 1 + n
  <2>1. Cardinality(Held(i)') + Cardinality(Inserting(i)')
          <= Cardinality(Held(i)) + Cardinality(Inserting(i))
    BY <1>2, <1>6, CountMoved
  <2> QED
    BY <1>1, <1>4, <2>1
<1>7. CASE Held(i)' \subseteq Held(i) /\ Cardinality(Active(i)) < MAX_ACTIVE_SUPPORTS
  <2>1. Cardinality(Held(i)') <= Cardinality(Held(i))
    BY <1>2, <1>7, FS_Subset
  <2>2. Cardinality(Active(i)) < 2
    BY <1>7 DEF MAX_ACTIVE_SUPPORTS
  <2> QED
    BY <1>2, <1>3, <1>4, <2>1, <2>2
<1> QED
  BY <1>5, <1>6, <1>7, BoundKept

-----------------------------------------------------------------------------
(* The chain of proofs. *)

Children(p) == {k \in Ids(proofs) : proofs[k].previous = p}
Appending(p) == {h \in Handlers : handler[h].pc = "append" /\ handler[h].latest = p}

\* A proof follows one that was there, and so does the proof about to be appended.
Backward ==
    /\ \A k \in Ids(proofs) : proofs[k].previous < k
    /\ \A h \in Handlers : handler[h].pc = "append" => handler[h].latest <= Len(proofs)

Forks ==
    \A p \in 0 .. Len(proofs) :
        Cardinality(Children(p)) + Cardinality(Appending(p)) <= Cardinality(Handlers)

LEMMA FiniteForks ==
    ASSUME ProofsTyped, NEW p
    PROVE  /\ IsFiniteSet(Children(p)) /\ IsFiniteSet(Appending(p))
           /\ Cardinality(Appending(p)) <= Cardinality(Handlers)
<1>1. Len(proofs) \in Nat
  BY DEF ProofsTyped
<1>2. IsFiniteSet(1 .. Len(proofs))
  BY <1>1, FS_Interval
<1>3. Children(p) \in SUBSET (1 .. Len(proofs)) /\ Appending(p) \in SUBSET Handlers
  BY DEF Children, Appending, Ids
<1> QED
  BY <1>2, <1>3, HandlersAssumption, FS_Subset

LEMMA InitForks == SupportsInit => Backward /\ Forks
<1> SUFFICES ASSUME SupportsInit
             PROVE  Backward /\ Forks
  OBVIOUS
<1>1. Backward
  BY IdleTyped DEF SupportsInit, Backward, Ids
<1>2. ASSUME NEW p \in 0 .. Len(proofs)
      PROVE  Cardinality(Children(p)) + Cardinality(Appending(p)) <= Cardinality(Handlers)
  <2>1. Children(p) = {} /\ Appending(p) = {}
    BY IdleTyped DEF SupportsInit, Children, Appending, Ids
  <2>2. Cardinality(Handlers) \in Nat
    BY HandlersAssumption, FS_CardinalityType
  <2> QED
    BY <2>1, <2>2, FS_EmptySet
<1> QED
  BY <1>1, <1>2 DEF Forks

\* A handler that comes to append has just read the latest proof.
LEMMA OthersDoNotAppend ==
    ASSUME Circulating, [SupportsNext]_supportsVars
    PROVE  \/ /\ UNCHANGED proofs
              /\ \A h \in Handlers : handler'[h].pc = "append" => handler'[h] = handler[h]
           \/ \E h \in Handlers : ActivateLatest(h) \/ ActivateAppend(h)
<1>1. CASE UNCHANGED supportsVars
  BY <1>1 DEF supportsVars
<1>2. ASSUME NEW h \in Handlers, NEW to, handler' = [handler EXCEPT ![h] = to],
             to.pc # "append"
      PROVE  \A g \in Handlers : handler'[g].pc = "append" => handler'[g] = handler[g]
  BY <1>2 DEF Circulating, Typed
<1>3. ASSUME NEW h \in Handlers, NEW pc \in Pc \ {"append"}, Step(h, pc)
      PROVE  \A g \in Handlers : handler'[g].pc = "append" => handler'[g] = handler[g]
  BY <1>3 DEF Step, Circulating, Typed, Hands
<1>4. ASSUME NEW h \in Handlers, Done(h)
      PROVE  \A g \in Handlers : handler'[g].pc = "append" => handler'[g] = handler[g]
  BY <1>2, <1>4, IdleTyped DEF Done
<1>5. ASSUME NEW h \in Handlers,
             (\E i \in Identities : ActivateCount(h, i))
             \/ (\E s \in Ids(supports), risk \in BOOLEAN : DeclareRead(h, s, risk))
             \/ (\E c \in Ids(timeline), final \in FoundSupportFinalStatus : CloseRead(h, c, final))
      PROVE  UNCHANGED proofs
  BY <1>5, Zenon DEF ActivateCount, DeclareRead, CloseRead
<1>6. ASSUME NEW h \in Handlers, NEW i \in Identities, ActivateCount(h, i)
      PROVE  \A g \in Handlers : handler'[g].pc = "append" => handler'[g] = handler[g]
  BY <1>6, IdleTyped DEF ActivateCount, Circulating, Typed, Hands
<1>7. ASSUME NEW h \in Handlers, NEW s \in Ids(supports), NEW risk \in BOOLEAN,
             DeclareRead(h, s, risk)
      PROVE  \A g \in Handlers : handler'[g].pc = "append" => handler'[g] = handler[g]
  BY <1>7, IdleTyped DEF DeclareRead, Circulating, Typed, Hands
<1>8. ASSUME NEW h \in Handlers, NEW c \in Ids(timeline),
             NEW final \in FoundSupportFinalStatus, CloseRead(h, c, final)
      PROVE  \A g \in Handlers : handler'[g].pc = "append" => handler'[g] = handler[g]
  BY <1>8, IdleTyped DEF CloseRead, Circulating, Typed, Hands
<1>9. ASSUME NEW h \in Handlers, ActivateInsert(h)
      PROVE  /\ UNCHANGED proofs
             /\ \A g \in Handlers : handler'[g].pc = "append" => handler'[g] = handler[g]
  BY <1>9 DEF ActivateInsert, Circulating, Typed, Hands
<1>10. ASSUME NEW h \in Handlers,
              \/ \E i \in Identities, status \in CreatedAs : CreateSupport(h, i, status)
              \/ DeclareAppend(h) \/ UpdateSelect(h) \/ UpdateWrite(h) \/ CloseAppend(h)
              \/ Stop(h)
       PROVE  /\ UNCHANGED proofs
              /\ \A g \in Handlers : handler'[g].pc = "append" => handler'[g] = handler[g]
  BY <1>3, <1>4, <1>10
     DEF CreateSupport, DeclareAppend, UpdateSelect, UpdateWrite, CloseAppend, Stop, Pc
<1> QED
  BY <1>1, <1>5, <1>6, <1>7, <1>8, <1>9, <1>10
     DEF SupportsNext, Activate, Declare, Close
\* Each proof is appended after the one its handler read.
LEMMA StepBackward ==
    Circulating /\ ProofsTyped /\ Backward /\ [SupportsNext]_supportsVars => Backward'
<1> SUFFICES ASSUME Circulating, ProofsTyped, Backward, [SupportsNext]_supportsVars
             PROVE  Backward'
  OBVIOUS
<1>1. CASE /\ UNCHANGED proofs
           /\ \A h \in Handlers : handler'[h].pc = "append" => handler'[h] = handler[h]
  BY <1>1 DEF Backward, Ids
<1>2. ASSUME NEW h \in Handlers, ActivateLatest(h)
      PROVE  Backward'
  <2>1. /\ UNCHANGED proofs /\ handler'[h].latest = Len(proofs)
        /\ \A g \in Handlers \ {h} : handler'[g] = handler[g]
    BY <1>2 DEF ActivateLatest, FindLatest, Circulating, Typed, Hands
  <2>2. Len(proofs) \in Nat
    BY DEF ProofsTyped
  <2> QED
    BY <2>1, <2>2 DEF Backward, Ids
<1>3. ASSUME NEW h \in Handlers, ActivateAppend(h)
      PROVE  Backward'
  <2> DEFINE new == [support |-> handler[h].support, previous |-> handler[h].latest]
  <2>1. /\ proofs' = Append(proofs, new) /\ handler' = [handler EXCEPT ![h] = Idle]
        /\ handler[h].pc = "append"
    BY <1>3 DEF ActivateAppend, Done
  <2>2. new \in ProofEvent /\ new.previous <= Len(proofs) /\ new.previous \in Nat
    BY <2>1 DEF ProofEvent, Circulating, Typed, Hands, Backward
  <2> HIDE DEF new
  <2>3. /\ Len(proofs') = Len(proofs) + 1 /\ Len(proofs) \in Nat
        /\ proofs'[Len(proofs) + 1] = new
        /\ \A k \in 1 .. Len(proofs) : proofs'[k] = proofs[k]
    BY <2>1, <2>2 DEF ProofsTyped
  <2>4. \A k \in Ids(proofs') : proofs'[k].previous < k
    BY <2>2, <2>3 DEF Backward, Ids
  <2>5. \A g \in Handlers : handler'[g].pc = "append" => handler'[g].latest <= Len(proofs')
    <3> SUFFICES ASSUME NEW g \in Handlers, handler'[g].pc = "append"
                 PROVE  handler'[g].latest <= Len(proofs) + 1
      BY <2>3
    <3>1. handler'[g] = handler[g]
      BY <2>1, IdleTyped DEF Circulating, Typed
    <3>2. handler[g].latest <= Len(proofs) /\ handler[g].latest \in Nat
      BY <3>1 DEF Backward, Circulating, Typed, Hands
    <3> QED
      BY <2>3, <3>1, <3>2
  <2> QED
    BY <2>4, <2>5 DEF Backward
<1> QED
  BY <1>1, <1>2, <1>3, OthersDoNotAppend

\* A proof gets a child only from a handler that read it while it was the latest.
LEMMA StepForks ==
    Circulating /\ ProofsTyped /\ Backward /\ Forks /\ [SupportsNext]_supportsVars => Forks'
<1> DEFINE n == Cardinality(Handlers)
<1> SUFFICES ASSUME Circulating, ProofsTyped, Backward, Forks, [SupportsNext]_supportsVars,
                    NEW p \in 0 .. Len(proofs')
             PROVE  Cardinality(Children(p)') + Cardinality(Appending(p)') <= n
  BY DEF Forks
<1>1. Len(proofs) \in Nat /\ n \in Nat
  BY HandlersAssumption, FS_CardinalityType DEF ProofsTyped
<1>2. IsFiniteSet(Children(p)) /\ IsFiniteSet(Appending(p))
  BY FiniteForks
<1>3. IsFiniteSet(Appending(p)') /\ Cardinality(Appending(p)') <= n
  <2>1. Appending(p)' \in SUBSET Handlers
    BY DEF Appending
  <2> QED
    BY <2>1, HandlersAssumption, FS_Subset
<1>4. Cardinality(Appending(p)') \in Nat
  BY <1>3, FS_CardinalityType
<1> HIDE DEF n
<1>5. ASSUME Children(p)' = {}
      PROVE  Cardinality(Children(p)') + Cardinality(Appending(p)') <= n
  BY <1>1, <1>3, <1>4, <1>5, FS_EmptySet
<1>6. ASSUME p \in 0 .. Len(proofs), Children(p)' \subseteq Children(p),
             Appending(p)' \subseteq Appending(p)
      PROVE  Cardinality(Children(p)') + Cardinality(Appending(p)') <= n
  <2>1. Cardinality(Children(p)') + Cardinality(Appending(p)')
          <= Cardinality(Children(p)) + Cardinality(Appending(p))
    BY <1>2, <1>6, CountKept
  <2>2. Cardinality(Children(p)) + Cardinality(Appending(p)) <= n
    BY <1>6 DEF Forks, n
  <2>3. /\ Cardinality(Children(p)) \in Nat /\ Cardinality(Appending(p)) \in Nat
        /\ Cardinality(Children(p)') \in Nat
    BY <1>2, <1>6, FS_CardinalityType, FS_Subset
  <2> QED
    BY <1>1, <1>4, <2>1, <2>2, <2>3
<1>7. CASE /\ UNCHANGED proofs
           /\ \A h \in Handlers : handler'[h].pc = "append" => handler'[h] = handler[h]
  BY <1>6, <1>7 DEF Children, Appending, Ids
<1>8. ASSUME NEW h \in Handlers, ActivateLatest(h)
      PROVE  Cardinality(Children(p)') + Cardinality(Appending(p)') <= n
  <2>1. /\ UNCHANGED proofs /\ handler'[h].latest = Len(proofs)
        /\ \A g \in Handlers \ {h} : handler'[g] = handler[g]
    BY <1>8 DEF ActivateLatest, FindLatest, Circulating, Typed, Hands
  <2>2. CASE p = Len(proofs)
    <3>1. \A k \in Ids(proofs) : k \in 1 .. Len(proofs) /\ proofs[k].previous < k
      BY DEF Ids, Backward
    <3>2. Children(p)' = {}
      <4> SUFFICES ASSUME NEW k \in Children(p)'
                   PROVE  FALSE
        OBVIOUS
      <4>1. k \in 1 .. Len(proofs) /\ Len(proofs) < k
        BY <2>1, <2>2, <3>1 DEF Children, Ids
      <4> QED
        BY <1>1, <4>1
    <3> QED
      BY <1>5, <3>2
  <2>3. CASE p # Len(proofs)
    <3>1. Appending(p)' \subseteq Appending(p)
      BY <2>1, <2>3 DEF Appending
    <3>2. Children(p)' \subseteq Children(p)
      BY <2>1 DEF Children, Ids
    <3> QED
      BY <1>6, <2>1, <3>1, <3>2
  <2> QED
    BY <2>2, <2>3
<1>9. ASSUME NEW h \in Handlers, ActivateAppend(h)
      PROVE  Cardinality(Children(p)') + Cardinality(Appending(p)') <= n
  <2> DEFINE new == [support |-> handler[h].support, previous |-> handler[h].latest]
             m == Len(proofs) + 1
  <2>1. /\ proofs' = Append(proofs, new) /\ handler' = [handler EXCEPT ![h] = Idle]
        /\ handler[h].pc = "append"
    BY <1>9 DEF ActivateAppend, Done
  <2>2. new \in ProofEvent /\ new.previous = handler[h].latest
    BY DEF ProofEvent, Circulating, Typed, Hands
  <2> HIDE DEF new
  <2>3. /\ Len(proofs') = m /\ m \in Nat /\ proofs'[m] = new
        /\ \A k \in 1 .. Len(proofs) : proofs'[k] = proofs[k]
    BY <1>1, <2>1, <2>2 DEF ProofsTyped
  <2>4. Appending(p)' \subseteq Appending(p) \ {h}
    BY <2>1, IdleTyped DEF Appending, Circulating, Typed
  <2>5. CASE p = m
    <3>1. Backward'
      BY StepBackward
    <3>2. \A k \in Ids(proofs') : k \in 1 .. m /\ proofs'[k].previous < k
      BY <2>3, <3>1 DEF Backward, Ids
    <3>3. Children(p)' = {}
      <4> SUFFICES ASSUME NEW k \in Children(p)'
                   PROVE  FALSE
        OBVIOUS
      <4>1. k \in 1 .. m /\ m < k
        BY <2>5, <3>2 DEF Children
      <4> QED
        BY <2>3, <4>1
    <3> QED
      BY <1>5, <3>3
  <2>6. CASE p # m
    <3>1. p \in 0 .. Len(proofs)
      BY <1>1, <2>3, <2>6
    <3>2. Children(p)' \subseteq Children(p) \cup {m}
      BY <1>1, <2>3 DEF Children, Ids
    <3>3. CASE handler[h].latest = p
      <4>1. h \in Appending(p)
        BY <2>1, <3>3 DEF Appending
      <4>2. Cardinality(Children(p)') + Cardinality(Appending(p)')
              <= Cardinality(Children(p)) + Cardinality(Appending(p))
        BY <1>2, <2>4, <3>2, <4>1, CountMoved
      <4>3. Cardinality(Children(p)) + Cardinality(Appending(p)) <= n
        BY <3>1 DEF Forks, n
      <4>4. IsFiniteSet(Children(p) \cup {m})
        BY <1>2, FS_AddElement
      <4>5. /\ Cardinality(Children(p)) \in Nat /\ Cardinality(Appending(p)) \in Nat
            /\ Cardinality(Children(p)') \in Nat
        BY <1>2, <3>2, <4>4, FS_CardinalityType, FS_Subset
      <4> QED
        BY <1>1, <1>4, <4>2, <4>3, <4>5
    <3>4. CASE handler[h].latest # p
      <4>1. Children(p)' \subseteq Children(p)
        BY <2>2, <2>3, <3>2, <3>4 DEF Children
      <4> QED
        BY <1>6, <2>4, <3>1, <4>1
    <3> QED
      BY <3>3, <3>4
  <2> QED
    BY <2>5, <2>6
<1> QED
  BY <1>7, <1>8, <1>9, OthersDoNotAppend

-----------------------------------------------------------------------------
(* Theorems. *)

\* The inductive invariant: what goes back is covered by a case, every case by a birth.
THEOREM Invariance == SupportsSpec => []Circulating
<1> DEFINE IInv == Circulating /\ ProofsTyped
<1>1. SupportsInit => IInv
  BY InitCirculating DEF SupportsInit, ProofsTyped
<1>2. IInv /\ [SupportsNext]_supportsVars => IInv'
  BY StepCirculating, StepProofs
<1> QED
  BY <1>1, <1>2, PTL DEF SupportsSpec

\* A support put into the system as opposed is never active, whatever cases are declared
\* and closed about it (declare-found-support, close-found-support-case).
THEOREM NeverIssuedNeverActive == SupportsSpec => []OnlyActiveOrLostReturn
<1>1. Circulating => OnlyActiveOrLostReturn
  BY DEF Circulating, StatusFromBirth, OnlyActiveOrLostReturn, Issued
<1> QED
  BY <1>1, Invariance, PTL

\* What circulates (activate-support): at most one support more than the limit for every
\* other activation under way, and none that was never issued as active or lost.
THEOREM Bounded == SupportsSpec => []CirculationBounded
<1> DEFINE IInv == Circulating /\ ProofsTyped /\ ActiveBound
<1>1. SupportsInit => IInv
  BY InitCirculating, InitBound DEF SupportsInit, ProofsTyped
<1>2. IInv /\ [SupportsNext]_supportsVars => IInv'
  BY StepCirculating, StepProofs, StepBound
<1> QED
  BY <1>1, <1>2, NeverIssuedNeverActive, PTL DEF SupportsSpec, CirculationBounded

\* The chain of proofs forks at most as widely as there are handlers
\* (typeorm-proof-event.repository.ts).
THEOREM ForksBounded == SupportsSpec => []ForkWidth
<1> DEFINE IInv == Circulating /\ ProofsTyped /\ Backward /\ Forks
<1>1. SupportsInit => IInv
  BY InitCirculating, InitForks DEF SupportsInit, ProofsTyped
<1>2. IInv /\ [SupportsNext]_supportsVars => IInv'
  BY StepCirculating, StepProofs, StepBackward, StepForks
<1>3. IInv => ForkWidth
  <2> SUFFICES ASSUME ProofsTyped, Forks, NEW p \in 0 .. Len(proofs)
               PROVE  Cardinality(Children(p)) <= Cardinality(Handlers)
    BY DEF ForkWidth, Children
  <2>1. Cardinality(Children(p)) + Cardinality(Appending(p)) <= Cardinality(Handlers)
    BY DEF Forks
  <2>2. /\ Cardinality(Children(p)) \in Nat /\ Cardinality(Appending(p)) \in Nat
        /\ Cardinality(Handlers) \in Nat
    BY FiniteForks, HandlersAssumption, FS_CardinalityType
  <2> QED
    BY <2>1, <2>2
<1> QED
  BY <1>1, <1>2, <1>3, PTL DEF SupportsSpec

\* A support comes back into circulation only on a case whose decision allows it.
THEOREM DecidedReturn == SupportsSpec => ReturnedOnDecision
  BY Invariance, StepReturned, PTL DEF SupportsSpec, ReturnedOnDecision
=============================================================================
