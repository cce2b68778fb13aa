------------------------------ MODULE Supports ------------------------------
(***************************************************************************)
(* The supports (passes, phones) of the mobility identities: activation    *)
(* with its limit, the chain of proof events, and the cases opened when a  *)
(* support is found and closed when it is returned, kept or destroyed.     *)
(*                                                                         *)
(* Handlers are cut where another handler of either replica can come       *)
(* between two accesses to the database; nothing holds a lock.  Rights are *)
(* never changed once they exist, so reading one is not a step: whether    *)
(* the caller has the permission and a right within its dates decides only *)
(* whether an activation is attempted at all.                              *)
(***************************************************************************)
EXTENDS Mobility, Integers, Sequences, FiniteSets

CONSTANTS
    CreatedAs,     \* the statuses createSupport is called with
    MaxSupports,   \* bound on the supports
    MaxCases       \* bound on the entries of the timeline about found supports

SupportStatus == {"ACTIVE", "LOST", "STOLEN", "REVOKED", "REPLACED", "EXPIRED",
                  "PENDING_ACTIVATION", "SUPPORT_NON_RECLAME"}

ASSUME CreatedAsAssumption == CreatedAs \subseteq SupportStatus \ {"ACTIVE"}

VARIABLES
    supports,    \* table supports, in the order of insertion
    proofs,      \* table proof_events, in the order of insertion
    timeline,    \* table timeline_events, SUPPORT_FOUND and SUPPORT_FOUND_CLOSED
    handler,     \* the handlers in progress
    opposed,     \* history: supports that have been revoked, replaced or expired
    returned     \* history: supports a closed case has put back into circulation

supportsVars == <<supports, proofs, timeline, handler, opposed, returned>>

FoundSupportDecision == {"FOUND_PICKUP_ALLOWED", "CONTROLLED_REUSE_ELIGIBLE",
    "BACKOFFICE_REVIEW_REQUIRED", "SUPPORT_ALREADY_REPLACED", "SUPPORT_UNUSABLE"}

FoundSupportFinalStatus == {"WITHDRAWN", "NOT_CLAIMED", "ARCHIVED", "DESTROYED",
    "SENT_TO_BACKOFFICE", "UNUSABLE_CONFIRMED"}

\* born: history, the status the row was inserted with.
Support == [identity : Identities, status : SupportStatus, born : SupportStatus]

\* previous: the proof whose hash is in previousHash, 0 for null.  The hash covers
\* the whole payload, so a proof's position stands for its eventHash.
ProofEvent == [support : Nat, previous : Nat]

\* A SUPPORT_FOUND entry, or a SUPPORT_FOUND_CLOSED one that names its case.
TimelineEvent ==
    [type : {"SUPPORT_FOUND"}, support : Nat, decision : FoundSupportDecision]
    \cup [type : {"SUPPORT_FOUND_CLOSED"}, support : Nat, case : Nat,
          final : FoundSupportFinalStatus]

Ids(table) == 1 .. Len(table)

Handler ==
    [pc : {"idle", "insert", "latest", "append", "found", "select", "write", "closed"},
     identity : Identities,
     support  : Nat,                     \* the row the handler is about, 0: none yet
     latest   : Nat,                     \* the proof read last
     decision : FoundSupportDecision,
     case     : Nat,
     final    : FoundSupportFinalStatus]

Idle == [pc |-> "idle", identity |-> CHOOSE i \in Identities : TRUE, support |-> 0, latest |-> 0,
         decision |-> "SUPPORT_UNUSABLE", case |-> 0, final |-> "ARCHIVED"]

SupportsTypeOK ==
    /\ supports \in Seq(Support)
    /\ proofs \in Seq(ProofEvent)
    /\ timeline \in Seq(TimelineEvent)
    /\ handler \in [Handlers -> Handler]
    /\ opposed \subseteq Ids(supports)
    /\ returned \subseteq Ids(supports)

\* The tables start empty; none has a constraint on its rows but its keys.
SupportsInit ==
    /\ supports = <<>>
    /\ proofs = <<>>
    /\ timeline = <<>>
    /\ handler = [h \in Handlers |-> Idle]
    /\ opposed = {}
    /\ returned = {}

Step(h, pc) == handler' = [handler EXCEPT ![h].pc = pc]
Done(h) == handler' = [handler EXCEPT ![h] = Idle]

-----------------------------------------------------------------------------
(* The tables. *)

\* create of the support repository.
InsertSupport(i, status) ==
    supports' = Append(supports, [identity |-> i, status |-> status, born |-> status])

FindByMobilityIdentityId(i) == {s \in Ids(supports) : supports[s].identity = i}

\* Mutant: the latest proof is looked up for the support just created.
FindNone == 0

\* findLatest: over all the identities.
FindLatest == Len(proofs)

-----------------------------------------------------------------------------
(* Activation: at most two active supports, then a proof. *)

MAX_ACTIVE_SUPPORTS == 2

Active(i) == {s \in FindByMobilityIdentityId(i) : supports[s].status = "ACTIVE"}

\* Mutant: a third support is let through.
LimitOffByOne(i) == Cardinality(Active(i)) <= MAX_ACTIVE_SUPPORTS

BelowLimit(i) == Cardinality(Active(i)) < MAX_ACTIVE_SUPPORTS

ActivateCount(h, i) ==
    /\ handler[h].pc = "idle"
    /\ BelowLimit(i)
    /\ handler' = [handler EXCEPT ![h] = [Idle EXCEPT !.pc = "insert", !.identity = i]]
    /\ UNCHANGED <<supports, proofs, timeline, opposed, returned>>

ActivateInsert(h) ==
    /\ handler[h].pc = "insert"
    /\ Len(supports) < MaxSupports
    /\ InsertSupport(handler[h].identity, "ACTIVE")
    /\ handler' = [handler EXCEPT ![h].pc = "latest", ![h].support = Len(supports) + 1]
    /\ UNCHANGED <<proofs, timeline, opposed, returned>>

ActivateLatest(h) ==
    /\ handler[h].pc = "latest"
    /\ handler' = [handler EXCEPT ![h].pc = "append", ![h].latest = FindLatest]
    /\ UNCHANGED <<supports, proofs, timeline, opposed, returned>>

ActivateAppend(h) ==
    /\ handler[h].pc = "append"
    /\ proofs' = Append(proofs, [support |-> handler[h].support, previous |-> handler[h].latest])
    /\ Done(h)
    /\ UNCHANGED <<supports, timeline, opposed, returned>>

\* createSupport: any status but ACTIVE, and no limit.  The entry it writes to the
\* timeline is read by no handler.
CreateSupport(h, i, status) ==
    /\ handler[h].pc = "idle"
    /\ Len(supports) < MaxSupports
    /\ InsertSupport(i, status)
    /\ opposed' = IF status \in {"REVOKED", "REPLACED", "EXPIRED"}
                  THEN opposed \cup {Len(supports) + 1} ELSE opposed
    /\ UNCHANGED <<proofs, timeline, handler, returned>>

-----------------------------------------------------------------------------
(* A support is found: an agent declares it. *)

\* risk: some risk flag was given, or the identity was not found.
Decide(status, risk) ==
    CASE risk \/ status \in {"STOLEN", "PENDING_ACTIVATION"} -> "BACKOFFICE_REVIEW_REQUIRED"
      [] ~risk /\ status = "ACTIVE"   -> "FOUND_PICKUP_ALLOWED"
      [] ~risk /\ status = "LOST"     -> "CONTROLLED_REUSE_ELIGIBLE"
      [] ~risk /\ status = "REPLACED" -> "SUPPORT_ALREADY_REPLACED"
      [] ~risk /\ status \in {"REVOKED", "EXPIRED", "SUPPORT_NON_RECLAME"} -> "SUPPORT_UNUSABLE"

CanBePickedUp(decision) == decision \in {"FOUND_PICKUP_ALLOWED", "CONTROLLED_REUSE_ELIGIBLE"}

\* The support is read, then its identity; a support nobody knows is answered
\* without an entry.
DeclareRead(h, s, risk) ==
    /\ handler[h].pc = "idle"
    /\ Len(timeline) < MaxCases
    /\ handler' = [handler EXCEPT ![h] =
                    [Idle EXCEPT !.pc = "found", !.support = s,
                                 !.decision = Decide(supports[s].status, risk)]]
    /\ UNCHANGED <<supports, proofs, timeline, opposed, returned>>

DeclareAppend(h) ==
    /\ handler[h].pc = "found"
    /\ timeline' = Append(timeline, [type |-> "SUPPORT_FOUND", support |-> handler[h].support,
                                     decision |-> handler[h].decision])
    /\ Done(h)
    /\ UNCHANGED <<supports, proofs, opposed, returned>>

-----------------------------------------------------------------------------
(* The case is closed. *)

\* Mutant: what was decided when the support was declared is not looked at.
AssertStatusOnly(decision, status) == status \notin {"REPLACED", "REVOKED", "EXPIRED"}

\* The identity was checked and a proof of the withdrawal given, or the call is refused.
AssertWithdrawalAllowed(decision, status) ==
    /\ CanBePickedUp(decision)
    /\ status \notin {"REPLACED", "REVOKED", "EXPIRED"}

\* The status a closure writes; the other final statuses write none.
TargetStatus == [WITHDRAWN |-> "ACTIVE", NOT_CLAIMED |-> "SUPPORT_NON_RECLAME",
                 UNUSABLE_CONFIRMED |-> "REVOKED"]

\* Nothing looks whether the case is closed already.
CloseRead(h, c, final) ==
    /\ handler[h].pc = "idle"
    /\ Len(timeline) < MaxCases
    /\ timeline[c].type = "SUPPORT_FOUND"
    /\ LET s == timeline[c].support IN
        /\ final = "WITHDRAWN" =>
            AssertWithdrawalAllowed(timeline[c].decision, supports[s].status)
        /\ handler' = [handler EXCEPT ![h] =
                        [Idle EXCEPT !.pc = IF final \in DOMAIN TargetStatus
                                            THEN "select" ELSE "closed",
                                     !.support = s, !.case = c, !.final = final]]
    /\ UNCHANGED <<supports, proofs, timeline, opposed, returned>>

\* updateStatus: save() reads the row again and writes the status if it differs.
UpdateSelect(h) ==
    /\ handler[h].pc = "select"
    /\ Step(h, IF supports[handler[h].support].status = TargetStatus[handler[h].final]
               THEN "closed" ELSE "write")
    /\ UNCHANGED <<supports, proofs, timeline, opposed, returned>>

UpdateWrite(h) ==
    /\ handler[h].pc = "write"
    /\ LET s == handler[h].support
           status == TargetStatus[handler[h].final] IN
        /\ supports' = [supports EXCEPT ![s].status = status]
        /\ opposed' = IF status = "REVOKED" THEN opposed \cup {s} ELSE opposed
        /\ returned' = IF status = "ACTIVE" THEN returned \cup {s} ELSE returned
    /\ Step(h, "closed")
    /\ UNCHANGED <<proofs, timeline>>

CloseAppend(h) ==
    /\ handler[h].pc = "closed"
    /\ timeline' = Append(timeline,
            [type |-> "SUPPORT_FOUND_CLOSED", support |-> handler[h].support,
             case |-> handler[h].case, final |-> handler[h].final])
    /\ Done(h)
    /\ UNCHANGED <<supports, proofs, opposed, returned>>

\* A call to the database fails, or the replica stops: what was written stays.
Stop(h) ==
    /\ handler[h].pc # "idle"
    /\ Done(h)
    /\ UNCHANGED <<supports, proofs, timeline, opposed, returned>>

-----------------------------------------------------------------------------
Activate(h) ==
    \/ \E i \in Identities : ActivateCount(h, i)
    \/ ActivateInsert(h)
    \/ ActivateLatest(h)
    \/ ActivateAppend(h)

Declare(h) ==
    \/ \E s \in Ids(supports), risk \in BOOLEAN : DeclareRead(h, s, risk)
    \/ DeclareAppend(h)

Close(h) ==
    \/ \E c \in Ids(timeline), final \in FoundSupportFinalStatus : CloseRead(h, c, final)
    \/ UpdateSelect(h)
    \/ UpdateWrite(h)
    \/ CloseAppend(h)

SupportsNext ==
    \E h \in Handlers :
        \/ Activate(h)
        \/ \E i \in Identities, status \in CreatedAs : CreateSupport(h, i, status)
        \/ Declare(h)
        \/ Close(h)
        \/ Stop(h)

SupportsSpec == SupportsInit /\ [][SupportsNext]_supportsVars

-----------------------------------------------------------------------------
(* Properties. *)

\* The limit of two active supports is checked by a read that an insertion
\* follows later: it holds up to one support more for every other activation
\* under way, and up to the supports that closed cases have put back, which no
\* code counts.
ActiveBound ==
    \A i \in Identities :
        Cardinality(Active(i) \ returned)
            + Cardinality({h \in Handlers : handler[h].pc = "insert" /\ handler[h].identity = i})
        <= MAX_ACTIVE_SUPPORTS - 1 + Cardinality(Handlers)

\* The chain of proofs forks at most as widely as there are activations at the
\* same time: one handler at a time gives one chain.
ForkWidth ==
    \A p \in 0 .. Len(proofs) :
        Cardinality({k \in Ids(proofs) : proofs[k].previous = p}) <= Cardinality(Handlers)

\* A support put into the system as stolen, replaced, revoked, expired, not
\* claimed or never activated is never active, whatever cases are declared and
\* closed about it and in whatever order.
OnlyActiveOrLostReturn ==
    \A s \in Ids(supports) :
        supports[s].status = "ACTIVE" => supports[s].born \in {"ACTIVE", "LOST"}

\* A support comes back into circulation only on a case whose decision allows
\* it: one declared without risk flags while the support was active or lost.
ReturnedOnDecision ==
    [][\A s \in Ids(supports) :
        supports[s].status # "ACTIVE" /\ supports'[s].status = "ACTIVE" =>
            \E c \in Ids(timeline) : /\ timeline[c].type = "SUPPORT_FOUND"
                                     /\ timeline[c].support = s
                                     /\ CanBePickedUp(timeline[c].decision)]_supportsVars

\* What users are told of a found support: it goes back into circulation only if
\* it has not been opposed or replaced.
OpposedStaysOut == \A s \in opposed : supports[s].status # "ACTIVE"

\* What circulates: at most one support more than the limit for every other activation
\* under way, and none that was never issued as active or lost.
CirculationBounded == ActiveBound /\ OnlyActiveOrLostReturn
=============================================================================
