------------------------------ MODULE MobilityProofs ------------------------------
(***************************************************************************)
(* TLAPS proofs about the calls of the mobility module that are permitted, *)
(* the validation of journeys, and the registry of rights on the chain, for *)
(* any accounts, identities, rights, stations, wallets and supports, however *)
(* their calls interleave.                                                  *)
(***************************************************************************)
EXTENDS Journeys, SmartTicketRegistry, Access, SequenceTheorems, TLAPS

-----------------------------------------------------------------------------
(* Journeys. *)

\* What a validator's call holds: the accepted validation it has read, or the anomaly
\* it has recorded.
CallHolds(q) ==
    /\ q.pc \in {"append", "case"}
    /\ (q.pc = "append" /\ q.previous # 0) => q.previous \in Accepted(q.right)
    /\ q.pc = "case" => q.previous \in ValidationIds

\* The handler has the call q in progress.
Calling(h, q) == Busy(h) /\ validating[h] = q

Recorded ==
    /\ JourneysTypeOK
    /\ \A h \in Handlers, q \in ValidationCall : Calling(h, q) => CallHolds(q)

\* The accepted validations of a calm right are in the order of their instants, and
\* those of one instant at one station: only then is any latest one the last.
InOrder(r) ==
    \A v, w \in Accepted(r) :
        /\ v <= w => validations[v].at <= validations[w].at
        /\ validations[v].at = validations[w].at => validations[v].station = validations[w].station

\* A calm right has one call at a time ...
Alone == \A g, h \in Handlers :
    (Busy(g) /\ Busy(h) /\ validating[g].right = validating[h].right /\ validating[g].right \in calm)
        => g = h

\* ... which appends after what it has read, while nothing has been accepted since.
ReadsLast(q) ==
    (q.pc = "append" /\ q.right \in calm) =>
        /\ \A w \in Accepted(q.right) : validations[w].at <= q.at
        /\ IF q.previous = 0 THEN Accepted(q.right) = {} ELSE q.previous \in LastAccepted(q.right)

Calm ==
    /\ \A r \in calm : InOrder(r)
    /\ Alone
    /\ \A h \in Handlers, q \in ValidationCall : Calling(h, q) => ReadsLast(q)

Validated == Recorded /\ AnomalyJustified /\ Calm /\ AcceptedSpaced

\* Nobody travels in no time.
LEMMA TravelTakesTime ==
    ASSUME NEW from, NEW to
    PROVE  MINIMUM_TRAVEL_MINUTES(from, to) \in Nat \ {0}
<1>1. CASE {from, to} = {"la-defense", "chatelet"} /\ {from, to} # {"gare-de-lyon", "bastille"}
  BY <1>1 DEF MINIMUM_TRAVEL_MINUTES
<1>2. CASE {from, to} # {"la-defense", "chatelet"} /\ {from, to} = {"gare-de-lyon", "bastille"}
  BY <1>2 DEF MINIMUM_TRAVEL_MINUTES
<1>3. CASE {from, to} # {"la-defense", "chatelet"} /\ {from, to} # {"gare-de-lyon", "bastille"}
  BY <1>3 DEF MINIMUM_TRAVEL_MINUTES
<1>4. {"la-defense", "chatelet"} # {"gare-de-lyon", "bastille"}
  OBVIOUS
<1>5. QED
  BY <1>1, <1>2, <1>3, <1>4

\* A recorded validation, field by field.
LEMMA ValidationRead ==
    ASSUME JourneysTypeOK
    PROVE  /\ Len(validations) \in Nat
           /\ \A v \in ValidationIds :
                /\ v \in Nat \ {0} /\ validations[v].right \in Rights
                /\ validations[v].station \in Stations
                /\ validations[v].at \in Nat
                /\ validations[v].result \in {"ACCEPTED", "ANOMALY"}
<1>1. Len(validations) \in Nat
  BY DEF JourneysTypeOK
<1>2. \A v \in ValidationIds : validations[v] \in ValidationEvent
  BY ElementOfSeq DEF JourneysTypeOK, ValidationIds
<1>3. \A v \in ValidationIds : v \in Nat \ {0}
  BY <1>1 DEF ValidationIds
<1>4. QED
  BY <1>1, <1>2, <1>3, InstantsAssumption DEF ValidationEvent

LEMMA InitValidated == JourneysInit => Validated
<1> SUFFICES ASSUME JourneysInit PROVE Validated
  OBVIOUS
<1>1. validations \in Seq(ValidationEvent) /\ ValidationIds = {}
  BY EmptySeq DEF JourneysInit, ValidationIds
<1>2. Recorded
  BY <1>1 DEF Recorded, JourneysInit, JourneysTypeOK, AnomalyCase, Busy, Calling
<1>3. AnomalyJustified /\ AcceptedSpaced /\ Calm
  BY <1>1 DEF AnomalyJustified, AcceptedSpaced, Calm, Alone, InOrder, Accepted, JourneysInit, Busy,
              Calling
<1>4. QED
  BY <1>2, <1>3 DEF Validated

-----------------------------------------------------------------------------
\* A call moves and nothing is recorded.
LEMMA CallMoves ==
    ASSUME Validated, NEW h \in Handlers, NEW q \in ValidationCall \cup {Null},
           validating' = [validating EXCEPT ![h] = q],
           validations' = validations, anomalies' \subseteq ValidationIds,
           calm' \subseteq calm,
           q # Null => /\ CallHolds(q) /\ ReadsLast(q)'
                       /\ q.right \in calm' =>
                             \A g \in Handlers \ {h} : Busy(g) => validating[g].right # q.right
    PROVE  Validated'
<1>1. JourneysTypeOK'
  BY DEF Validated, Recorded, JourneysTypeOK, ValidationIds, AnomalyCase
<1>2. /\ \A r : Accepted(r)' = Accepted(r) /\ LastAccepted(r)' = LastAccepted(r)
      /\ ValidationIds' = ValidationIds
  BY DEF Accepted, LastAccepted, ValidationIds
<1>3. validating'[h] = q /\ \A g \in Handlers \ {h} : validating'[g] = validating[g]
  BY DEF Validated, Recorded, JourneysTypeOK
<1>4. ASSUME NEW g \in Handlers, NEW p \in ValidationCall, Calling(g, p)'
      PROVE  CallHolds(p)' /\ ReadsLast(p)'
  <2>1. CASE g = h
    BY <1>2, <1>3, <1>4, <2>1 DEF CallHolds, Calling, Busy
  <2>2. CASE g # h
    <3>1. Calling(g, p)
      BY <1>3, <1>4, <2>2 DEF Calling, Busy
    <3>2. CallHolds(p) /\ ReadsLast(p)
      BY <3>1 DEF Validated, Recorded, Calm
    <3>3. QED
      BY <1>2, <3>2 DEF CallHolds, ReadsLast
  <2>3. QED
    BY <2>1, <2>2
<1>5. Alone'
  BY <1>3 DEF Validated, Calm, Alone, Busy
<1>6. \A r \in calm' : InOrder(r)'
  BY <1>2 DEF Validated, Calm, InOrder
<1>7. AnomalyJustified'
  BY <1>2 DEF Validated, AnomalyJustified, TooSoon
<1>8. AcceptedSpaced'
  BY <1>2 DEF Validated, AcceptedSpaced, Consecutive, TooSoon
<1>9. QED
  BY <1>1, <1>4, <1>5, <1>6, <1>7, <1>8 DEF Validated, Recorded, Calm

LEMMA ReadLastValidated ==
    ASSUME Validated, NEW h \in Handlers, NEW r \in Rights, NEW station \in Stations,
           NEW at \in Instants, ReadLast(h, r, station, at)
    PROVE  Validated'
<1>1. PICK previous \in IF Accepted(r) = {} THEN {0} ELSE LastAccepted(r) :
        validating' = [validating EXCEPT ![h] =
            [pc |-> "append", right |-> r, station |-> station, at |-> at, previous |-> previous]]
  BY DEF ReadLast
<1>2. /\ validations' = validations /\ anomalies' = anomalies /\ calm' \subseteq calm
      /\ r \in calm' => ~Overlaps(h, r) /\ ~ \E v \in Accepted(r) : validations[v].at > at
  BY DEF ReadLast
<1>3. previous = 0 \/ previous \in Accepted(r)
  BY <1>1 DEF LastAccepted
<1>4. /\ previous \in Nat
      /\ IF previous = 0 THEN Accepted(r) = {} ELSE previous \in LastAccepted(r)
  <2>1. \A v \in Accepted(r) : v \in Nat \ {0}
    BY ValidationRead DEF Validated, Recorded, Accepted
  <2>2. CASE Accepted(r) = {}
    BY <1>1, <2>2
  <2>3. CASE Accepted(r) # {}
    BY <1>1, <1>3, <2>1, <2>3 DEF LastAccepted
  <2>4. QED
    BY <2>2, <2>3
<1>5. PICK q : q = [pc |-> "append", right |-> r, station |-> station, at |-> at,
                    previous |-> previous]
  OBVIOUS
<1>6. q.pc = "append" /\ q.right = r /\ q.at = at /\ q.previous = previous
  BY <1>5
<1>7. q \in ValidationCall
  BY <1>4, <1>5 DEF ValidationCall
<1>8. CallHolds(q)
  BY <1>3, <1>6 DEF CallHolds
<1>9. ReadsLast(q)'
  <2>1. Accepted(r)' = Accepted(r) /\ LastAccepted(r)' = LastAccepted(r)
    BY <1>2 DEF Accepted, LastAccepted, ValidationIds
  <2>2. r \in calm' => \A w \in Accepted(r) : validations[w].at <= at
    BY <1>2, ValidationRead, InstantsAssumption DEF Validated, Recorded, Accepted
  <2>3. QED
    BY <1>2, <1>4, <1>6, <2>1, <2>2 DEF ReadsLast
<1>10. q.right \in calm' =>
          \A g \in Handlers \ {h} : Busy(g) => validating[g].right # q.right
  BY <1>2, <1>6 DEF Overlaps
<1>11. anomalies' \subseteq ValidationIds
  BY <1>2 DEF Validated, Recorded, JourneysTypeOK, AnomalyCase
<1>12. validating' = [validating EXCEPT ![h] = q]
  BY <1>1, <1>5
<1>13. QED
  BY <1>2, <1>7, <1>8, <1>9, <1>10, <1>11, <1>12, CallMoves

\* A call ends; the anomaly it has recorded may get its case.
LEMMA CallEnds ==
    ASSUME Validated, NEW h \in Handlers, DoneValidating(h),
           anomalies' \subseteq ValidationIds, UNCHANGED <<validations, calm>>
    PROVE  Validated'
BY CallMoves DEF DoneValidating

-----------------------------------------------------------------------------
\* What an appended validation changes.
LEMMA Appended ==
    ASSUME JourneysTypeOK, NEW e \in ValidationEvent, validations' = Append(validations, e)
    PROVE  /\ validations' \in Seq(ValidationEvent)
           /\ Len(validations) + 1 \notin ValidationIds
           /\ ValidationIds' = ValidationIds \cup {Len(validations) + 1}
           /\ validations'[Len(validations) + 1] = e
           /\ \A v \in ValidationIds : v < Len(validations) + 1 /\ validations'[v] = validations[v]
           /\ \A r : Accepted(r)' = IF e.right = r /\ e.result = "ACCEPTED"
                                    THEN Accepted(r) \cup {Len(validations) + 1}
                                    ELSE Accepted(r)
<1>1. Len(validations) \in Nat /\ validations \in Seq(ValidationEvent)
  BY DEF JourneysTypeOK
<1>2. /\ validations' \in Seq(ValidationEvent) /\ Len(validations') = Len(validations) + 1
      /\ \A v \in 1..Len(validations) : validations'[v] = validations[v]
      /\ validations'[Len(validations) + 1] = e
  BY <1>1, AppendProperties
<1>3. ValidationIds' = ValidationIds \cup {Len(validations) + 1}
  BY <1>1, <1>2 DEF ValidationIds
<1>4. Len(validations) + 1 \notin ValidationIds /\ \A v \in ValidationIds : v < Len(validations) + 1
  BY <1>1 DEF ValidationIds
<1>5. QED
  BY <1>2, <1>3, <1>4 DEF Accepted, ValidationIds

LEMMA AppendValidated ==
    ASSUME Validated, NEW h \in Handlers, AppendValidation(h)
    PROVE  Validated'
<1>new. PICK n : n = Len(validations) + 1
  OBVIOUS
<1>1. PICK c \in ValidationCall : c = validating[h]
  BY DEF AppendValidation, Busy, Validated, Recorded, JourneysTypeOK
<1>2. /\ c.pc = "append" /\ c.right \in Rights /\ c.station \in Stations /\ c.at \in Instants
      /\ c.previous \in Nat /\ c.at \in Nat
  BY <1>1, InstantsAssumption DEF AppendValidation, ValidationCall
<1>3. Busy(h) /\ CallHolds(c) /\ ReadsLast(c)
  BY <1>1 DEF AppendValidation, Validated, Recorded, Calm, Calling
<1>4. PICK impossible \in BOOLEAN :
        impossible = (c.previous # 0 /\ IsShortWindowImpossible(c.previous, c.station, c.at))
  OBVIOUS
<1>5. PICK e : e = [right |-> c.right, station |-> c.station, at |-> c.at,
                    result |-> Result(impossible)]
  OBVIOUS
<1>6. /\ e \in ValidationEvent /\ e.right = c.right /\ e.station = c.station /\ e.at = c.at
      /\ e.result = IF impossible THEN "ANOMALY" ELSE "ACCEPTED"
  BY <1>2, <1>5 DEF ValidationEvent, Result
<1>7. /\ validations' = Append(validations, e)
      /\ IF impossible
         THEN validating' = [validating EXCEPT ![h].pc = "case", ![h].previous = n]
         ELSE validating' = [validating EXCEPT ![h] = Null]
      /\ anomalies' = anomalies /\ calm' = calm
  BY <1>new, <1>1, <1>4, <1>5 DEF AppendValidation, DoneValidating
<1>8. JourneysTypeOK /\ Len(validations) \in Nat
  BY DEF Validated, Recorded, JourneysTypeOK
<1>9. /\ validations' \in Seq(ValidationEvent)
      /\ n \notin ValidationIds /\ ValidationIds' = ValidationIds \cup {n}
      /\ validations'[n] = e
      /\ \A v \in ValidationIds : v < n /\ validations'[v] = validations[v]
      /\ \A r : Accepted(r)' = IF c.right = r /\ ~impossible
                               THEN Accepted(r) \cup {n} ELSE Accepted(r)
  BY <1>new, <1>6, <1>7, <1>8, Appended
<1>10. n \in Nat \ {0} /\ \A v \in ValidationIds : v \in Nat
  BY <1>new, <1>8, ValidationRead
<1>11. PICK q : q = IF impossible THEN [c EXCEPT !.pc = "case", !.previous = n] ELSE Null
  OBVIOUS
<1>12. /\ validating' = [validating EXCEPT ![h] = q]
       /\ impossible => /\ q \in ValidationCall /\ q.pc = "case" /\ q.previous = n
                        /\ q.right = c.right
       /\ ~impossible => q = Null
  BY <1>1, <1>7, <1>10, <1>11 DEF ValidationCall, Validated, Recorded, JourneysTypeOK
<1>13. validating'[h] = q /\ \A g \in Handlers \ {h} : validating'[g] = validating[g]
  BY <1>12 DEF Validated, Recorded, JourneysTypeOK
<1>14. JourneysTypeOK'
  BY <1>7, <1>8, <1>9, <1>12 DEF JourneysTypeOK, AnomalyCase
<1>15. \A r : /\ Accepted(r) \subseteq ValidationIds /\ Accepted(r) \subseteq Accepted(r)'
              /\ Accepted(r)' \subseteq Accepted(r) \cup {n}
  BY <1>9 DEF Accepted
<1>16. ASSUME NEW g \in Handlers, NEW p \in ValidationCall, Calling(g, p)'
       PROVE  CallHolds(p)'
  <2>1. CASE g = h
    BY <1>9, <1>12, <1>13, <1>16, <2>1 DEF CallHolds, Calling, Busy
  <2>2. CASE g # h
    <3>1. CallHolds(p)
      BY <1>13, <1>16, <2>2 DEF Calling, Busy, Validated, Recorded
    <3>2. QED
      BY <1>9, <1>15, <3>1 DEF CallHolds
  <2>3. QED
    BY <2>1, <2>2
<1>17. AnomalyJustified'
  <2> SUFFICES ASSUME NEW v \in ValidationIds', validations'[v].result = "ANOMALY"
               PROVE  \E r, w : /\ validations'[v].right = r /\ w \in Accepted(r)'
                                /\ w < v /\ TooSoon(w, v)'
    BY DEF AnomalyJustified, Accepted
  <2>1. CASE v = n
    <3>1. impossible /\ c.previous \in Accepted(c.right)
      BY <1>2, <1>3, <1>4, <1>6, <1>9, <2>1 DEF CallHolds
    <3>2. PICK w : w = c.previous
      OBVIOUS
    <3>3. w \in ValidationIds /\ validations'[w] = validations[w] /\ w < n
      BY <1>9, <1>15, <3>1, <3>2
    <3>4. /\ validations[w].station # c.station /\ c.at - validations[w].at >= 0
          /\ c.at - validations[w].at < MINIMUM_TRAVEL_MINUTES(validations[w].station, c.station)
      BY <1>4, <3>1, <3>2 DEF IsShortWindowImpossible
    <3>5. PICK m \in Nat : m = MINIMUM_TRAVEL_MINUTES(validations[w].station, c.station)
      BY TravelTakesTime
    <3>6. validations[w].at \in Nat
      BY <1>8, <3>3, ValidationRead
    <3>7. c.at >= validations[w].at /\ c.at < validations[w].at + m
      BY <1>2, <3>4, <3>5, <3>6
    <3>8. TooSoon(w, n)'
      BY <1>6, <1>9, <3>3, <3>4, <3>5, <3>7 DEF TooSoon
    <3>9. QED
      BY <1>6, <1>9, <1>15, <2>1, <3>1, <3>2, <3>3, <3>8
  <2>2. CASE v # n
    <3>1. v \in ValidationIds /\ validations'[v] = validations[v]
      BY <1>9, <2>2
    <3>2. PICK r, w : validations[v].right = r /\ w \in Accepted(r) /\ w < v /\ TooSoon(w, v)
      BY <3>1 DEF Validated, AnomalyJustified
    <3>3. validations'[w] = validations[w] /\ w \in Accepted(r)'
      BY <1>9, <1>15, <3>2
    <3>4. TooSoon(w, v)'
      BY <3>1, <3>2, <3>3 DEF TooSoon
    <3>5. QED
      BY <3>1, <3>2, <3>3, <3>4
  <2>3. QED
    BY <2>1, <2>2
<1>18. Alone'
  BY <1>1, <1>3, <1>7, <1>12, <1>13 DEF Validated, Calm, Alone, Busy
<1>19. ASSUME NEW g \in Handlers, NEW p \in ValidationCall, Calling(g, p)'
       PROVE  ReadsLast(p)'
  <2>1. CASE g = h
    BY <1>12, <1>13, <1>19, <2>1 DEF Calling, Busy, ReadsLast
  <2>2. CASE g # h
    <3>1. Calling(g, p) /\ ReadsLast(p)
      BY <1>13, <1>19, <2>2 DEF Calling, Busy, Validated, Calm
    <3>2. p.right = c.right => p.right \notin calm
      BY <1>1, <1>3, <2>2, <3>1 DEF Validated, Calm, Alone, Calling
    <3>3. p.right # c.right => Accepted(p.right)' = Accepted(p.right)
      BY <1>9
    <3>4. \A w \in Accepted(p.right) : validations'[w] = validations[w]
      BY <1>9, <1>15
    <3>5. QED
      BY <1>7, <3>1, <3>2, <3>3, <3>4 DEF ReadsLast, LastAccepted
  <2>3. QED
    BY <2>1, <2>2
\* The validation accepted last, against those accepted before.
<1>20. ASSUME c.right \in calm, ~impossible, NEW v \in Accepted(c.right)
       PROVE  /\ validations[v].at \in Nat /\ validations[v].at <= c.at
              /\ validations[v].at = c.at => validations[v].station = c.station
              /\ (\A u \in Accepted(c.right) : u <= v) =>
                    \/ validations[v].station = c.station
                    \/ c.at >= validations[v].at
                                 + MINIMUM_TRAVEL_MINUTES(validations[v].station, c.station)
  <2>1. c.previous \in LastAccepted(c.right) /\ c.previous \in Accepted(c.right)
    BY <1>2, <1>3, <1>20 DEF ReadsLast, LastAccepted
  <2>2. PICK p : p = c.previous /\ p # 0 /\ p \in Nat
    BY <1>8, <1>15, <2>1, ValidationRead
  <2>3. /\ validations[p].at \in Nat /\ validations[v].at \in Nat /\ v \in Nat
        /\ validations[v].at <= validations[p].at /\ validations[p].at <= c.at
    BY <1>2, <1>3, <1>8, <1>15, <1>20, <2>1, <2>2, ValidationRead DEF LastAccepted, ReadsLast
  <2>4. PICK m \in Nat \ {0} : m = MINIMUM_TRAVEL_MINUTES(validations[p].station, c.station)
    BY TravelTakesTime
  <2>5. validations[p].station = c.station \/ c.at >= validations[p].at + m
    <3>1. ~IsShortWindowImpossible(p, c.station, c.at)
      BY <1>4, <1>20, <2>2
    <3>2. /\ validations[p].station # c.station /\ c.at - validations[p].at >= 0
             => ~(c.at - validations[p].at < m)
      BY <2>4, <3>1 DEF IsShortWindowImpossible
    <3>3. QED
      BY <1>2, <2>3, <2>4, <3>2
  <2>6. validations[v].at = validations[p].at => validations[v].station = validations[p].station
    BY <1>20, <2>1, <2>2 DEF Validated, Calm, InOrder
  <2>7. (\A u \in Accepted(c.right) : u <= v) => validations[v].at = validations[p].at
    BY <1>20, <2>1, <2>2, <2>3 DEF Validated, Calm, InOrder
  <2>8. QED
    BY <1>2, <2>3, <2>4, <2>5, <2>6, <2>7
<1>21. ASSUME NEW r \in calm' PROVE InOrder(r)'
  <2>old. InOrder(r) /\ \A u \in Accepted(r) : validations'[u] = validations[u]
    BY <1>7, <1>9, <1>15, <1>21 DEF Validated, Calm
  <2>1. CASE c.right = r /\ ~impossible
    <3> SUFFICES ASSUME NEW v \in Accepted(r) \cup {n}, NEW w \in Accepted(r) \cup {n}
                 PROVE  /\ v <= w => validations'[v].at <= validations'[w].at
                        /\ validations'[v].at = validations'[w].at
                              => validations'[v].station = validations'[w].station
      BY <1>9, <2>1 DEF InOrder
    <3>1. validations'[n].at = c.at /\ validations'[n].station = c.station
      BY <1>6, <1>9
    <3>2. \A u \in Accepted(r) : u < n /\ u \in Nat /\ validations'[u] = validations[u]
      BY <1>8, <1>9, <1>15, ValidationRead
    <3>earlier. \A u \in Accepted(r) :
            /\ validations[u].at <= c.at
            /\ validations[u].at = c.at => validations[u].station = c.station
      BY <1>7, <1>20, <1>21, <2>1
    <3>3. CASE v = n /\ w = n
      BY <1>2, <3>1, <3>3
    <3>4. CASE v = n /\ w # n
      <4>1. w \in Accepted(r) /\ w < n /\ w \in Nat /\ validations'[w] = validations[w]
        BY <3>2, <3>4
      <4>2. ~(v <= w)
        BY <1>10, <3>4, <4>1
      <4>3. QED
        BY <3>1, <3>4, <3>earlier, <4>1, <4>2
    <3>5. CASE v # n /\ w = n
      BY <3>1, <3>2, <3>5, <3>earlier
    <3>6. CASE v # n /\ w # n
      BY <2>old, <3>6 DEF InOrder
    <3>7. QED
      BY <3>3, <3>4, <3>5, <3>6
  <2>2. CASE ~(c.right = r /\ ~impossible)
    BY <1>9, <2>old, <2>2 DEF InOrder
  <2>3. QED
    BY <2>1, <2>2
<1>22. AcceptedSpaced'
  <2> SUFFICES ASSUME NEW r \in calm', NEW v \in ValidationIds', NEW w \in ValidationIds',
                      Consecutive(r, v, w)'
               PROVE  ~TooSoon(v, w)'
    BY DEF AcceptedSpaced
  <2>1. v \in Accepted(r)' /\ w \in Accepted(r)' /\ v < w
        /\ \A u \in Accepted(r)' : u <= v \/ u >= w
    BY DEF Consecutive
  <2>2. v # n
    BY <1>9, <1>10, <1>15, <2>1
  <2>3. v \in Accepted(r) /\ validations'[v] = validations[v]
    BY <1>9, <1>15, <2>1, <2>2
  <2>4. CASE w # n
    <3>1. w \in Accepted(r) /\ validations'[w] = validations[w]
      BY <1>9, <1>15, <2>1, <2>4
    <3>2. Consecutive(r, v, w)
      BY <1>15, <2>1, <2>3, <3>1 DEF Consecutive
    <3>3. ~TooSoon(v, w)
      BY <1>7, <1>15, <2>3, <3>1, <3>2 DEF Validated, AcceptedSpaced
    <3>4. QED
      BY <2>3, <3>1, <3>3 DEF TooSoon
  <2>5. CASE w = n
    <3>1. c.right = r /\ ~impossible
      BY <1>9, <1>15, <2>1, <2>5
    <3>2. \A u \in Accepted(r) : u <= v
      <4>1. \A u \in Accepted(r) : u < n /\ u \in Nat
        BY <1>8, <1>9, <1>15, ValidationRead
      <4>2. QED
        BY <1>10, <1>15, <2>1, <2>5, <4>1
    <3>3. \/ validations[v].station = c.station
          \/ c.at >= validations[v].at + MINIMUM_TRAVEL_MINUTES(validations[v].station, c.station)
      BY <1>7, <1>20, <2>3, <3>1, <3>2
    <3>4. validations'[n].at = c.at /\ validations'[n].station = c.station
      BY <1>6, <1>9
    <3>5. MINIMUM_TRAVEL_MINUTES(validations[v].station, c.station) \in Nat
          /\ validations[v].at \in Nat
      BY <1>7, <1>20, <2>3, <3>1, TravelTakesTime
    <3>6. QED
      BY <1>2, <2>3, <2>5, <3>3, <3>4, <3>5 DEF TooSoon
  <2>6. QED
    BY <2>4, <2>5
<1>23. QED
  BY <1>14, <1>16, <1>17, <1>18, <1>19, <1>21, <1>22 DEF Validated, Recorded, Calm

LEMMA NextValidated == Validated /\ [JourneysNext]_journeysVars => Validated'
<1> SUFFICES ASSUME Validated, [JourneysNext]_journeysVars PROVE Validated'
  OBVIOUS
<1>1. ASSUME NEW h \in Handlers, CreateAnomaly(h) PROVE Validated'
  <2>1. PICK q \in ValidationCall : Calling(h, q)
    BY <1>1 DEF CreateAnomaly, Validated, Recorded, Calling, Busy, JourneysTypeOK
  <2>2. validating[h].previous \in ValidationIds /\ anomalies \subseteq ValidationIds
    BY <1>1, <2>1 DEF CreateAnomaly, Validated, Recorded, Calling, CallHolds, JourneysTypeOK,
                      AnomalyCase
  <2>3. QED
    BY <1>1, <2>2, CallEnds DEF CreateAnomaly
<1>2. ASSUME NEW h \in Handlers, StopValidating(h) PROVE Validated'
  BY <1>2, CallEnds DEF StopValidating, Validated, Recorded, JourneysTypeOK, AnomalyCase
<1>3. CASE UNCHANGED journeysVars
  BY <1>3 DEF journeysVars, Validated, Recorded, JourneysTypeOK, Busy, Calling, CallHolds, Calm, Alone,
              InOrder, ReadsLast, AnomalyJustified, AcceptedSpaced, Consecutive, TooSoon, Accepted,
              LastAccepted, ValidationIds, AnomalyCase
<1>4. QED
  BY <1>1, <1>2, <1>3, ReadLastValidated, AppendValidated DEF JourneysNext

\* Whatever calls overlap, a validation is held against a holder only for a journey
\* nobody can make, and accepted ones of a calm right leave the time to travel.
THEOREM JourneysInvariance == JourneysSpec => []Validated
BY InitValidated, NextValidated, PTL DEF JourneysSpec

\* No holder is reported for a journey that can be made: each anomaly has an accepted
\* validation before it from which its station cannot be reached in time.
THEOREM AnomaliesJustified == JourneysSpec => []AnomalyJustified
<1>1. Validated => AnomalyJustified
  BY DEF Validated
<1>2. QED
  BY <1>1, JourneysInvariance, PTL

\* Two accepted validations in a row of a calm right can be one person's.
THEOREM AcceptancesSpaced == JourneysSpec => []AcceptedSpaced
<1>1. Validated => AcceptedSpaced
  BY DEF Validated
<1>2. QED
  BY <1>1, JourneysInvariance, PTL

-----------------------------------------------------------------------------
(* The permission checks and the index of the relationships. *)

\* The row of an account, an identity and a type is one, revoked or not.
OneRow ==
    \A r, q \in rows :
        r.account = q.account /\ r.identity = q.identity /\ r.type = q.type => r = q

Columns == {"id", "account", "identity", "type", "status"}

Table == OneRow /\ \A r \in rows : DOMAIN r = Columns

Fields == {"step", "op", "permission", "on", "held"}

Shaped(c) ==
    /\ c.step \in {"check", "act"} => DOMAIN c = Fields /\ c.permission \in All
    /\ c.step = "insert" => "step" \in DOMAIN c

\* A call that has passed the check has held the permission.
SoundCall(c) == Shaped(c) /\ (c.step = "act" => c.permission \in c.held)

Permitted ==
    /\ calls = [a \in Accounts |-> calls[a]]
    /\ \A a \in Accounts : SoundCall(calls[a])

-----------------------------------------------------------------------------
(* The relationships. *)

\* Each identity starts with its owner's row.
LEMMA InitTable == AccessInit => Table
  BY DEF AccessInit, OneRow, Table, Columns

RevokedRow(r) == [r EXCEPT !.status = "REVOKED"]

\* A revocation changes the status only.
LEMMA RevokedKeepsKey ==
    ASSUME NEW r, DOMAIN r = Columns
    PROVE  /\ DOMAIN RevokedRow(r) = Columns
           /\ RevokedRow(r).account = r.account /\ RevokedRow(r).identity = r.identity
           /\ RevokedRow(r).type = r.type /\ RevokedRow(r).status = "REVOKED"
  BY DEF Columns, RevokedRow

\* The steps that change the table insert a row the index accepts or revoke one.
LEMMA RowsChange ==
    ASSUME [AccessNext]_accessVars
    PROVE  \/ UNCHANGED rows
           \/ \E row : /\ UniqueIndex(row)
                       /\ DOMAIN row = Columns
                       /\ rows' = rows \cup {row}
           \/ \E r \in rows : rows' = (rows \ {r}) \cup {RevokedRow(r)}
<1>1. CASE UNCHANGED accessVars
  BY <1>1 DEF accessVars
<1>2. ASSUME NEW a \in Accounts, NEW r \in rows, Revoke(a, r)
      PROVE  rows' = (rows \ {r}) \cup {RevokedRow(r)}
  BY <1>2 DEF Revoke, RevokedRow
<1>3. ASSUME NEW a \in Accounts, Insert(a)
      PROVE  \E row : UniqueIndex(row) /\ DOMAIN row = Columns /\ rows' = rows \cup {row}
  <2> DEFINE row == [id |-> Cardinality(rows) + 1, account |-> calls[a].account,
                     identity |-> calls[a].on, type |-> calls[a].type, status |-> "ACTIVE"]
  <2>1. UniqueIndex(row) /\ rows' = rows \cup {row}
    BY <1>3 DEF Insert
  <2>2. DOMAIN row = Columns
    BY DEF Columns
  <2> QED
    BY <2>1, <2>2
<1>4. ASSUME NEW a \in Accounts,
             \/ \E i \in Identities :
                  \/ GetIdentity(a, i) \/ GetContracts(a, i) \/ GetDocuments(a, i)
                  \/ GetSupports(a, i) \/ GetTransportRights(a, i)
                  \/ GetProofEvents(a, i) \/ GetIdentityTimeline(a, i)
                  \/ UpdateIdentity(a, i) \/ AddDocument(a, i)
                  \/ \E type \in Types, for \in Accounts : Link(a, for, i, type)
             \/ AssertPermission(a) \/ AnswerRows(a) \/ Write(a) \/ RecordAct(a) \/ Fails(a)
      PROVE  UNCHANGED rows
  BY <1>4 DEF GetIdentity, GetContracts, GetDocuments, GetSupports, GetTransportRights,
       GetProofEvents, GetIdentityTimeline, UpdateIdentity, AddDocument, Endpoint, Link,
       AssertPermission, AnswerRows, Write, RecordAct, Fails
<1> QED
  BY <1>1, <1>2, <1>3, <1>4, Zenon DEF AccessNext

\* The index keeps the rows apart, and a revoked row keeps its place.
LEMMA StepTable == Table /\ [AccessNext]_accessVars => Table'
<1> SUFFICES ASSUME Table, [AccessNext]_accessVars
             PROVE  Table'
  OBVIOUS
<1>1. CASE UNCHANGED rows
  BY <1>1 DEF OneRow, Table
<1>2. ASSUME NEW row, UniqueIndex(row), DOMAIN row = Columns, rows' = rows \cup {row}
      PROVE  Table'
  BY <1>2 DEF OneRow, UniqueIndex, Table
<1>3. ASSUME NEW r \in rows, rows' = (rows \ {r}) \cup {RevokedRow(r)}
      PROVE  Table'
  <2>1. DOMAIN r = Columns
    BY DEF Table
  <2> QED
    BY <1>3, <2>1, RevokedKeepsKey DEF OneRow, Table
<1> QED
  BY <1>1, <1>2, <1>3, RowsChange

\* A revoked row is not made active, and no other takes its place.
LEMMA StepRevoked ==
    Table /\ [AccessNext]_accessVars =>
        [\A r \in rows : r.status = "REVOKED" =>
            ~ Linked(rows', r.account, r.identity, r.type)]_rows
<1> SUFFICES ASSUME Table, [AccessNext]_accessVars, rows' # rows, NEW r \in rows,
                    r.status = "REVOKED"
             PROVE  ~ Linked(rows', r.account, r.identity, r.type)
  OBVIOUS
<1>1. ~ Linked(rows, r.account, r.identity, r.type)
  BY DEF OneRow, Linked, Table
<1>2. ASSUME NEW row, UniqueIndex(row), rows' = rows \cup {row}
      PROVE  ~ Linked(rows', r.account, r.identity, r.type)
  BY <1>1, <1>2 DEF UniqueIndex, Linked
<1>3. ASSUME NEW q \in rows, rows' = (rows \ {q}) \cup {RevokedRow(q)}
      PROVE  ~ Linked(rows', r.account, r.identity, r.type)
  <2>1. RevokedRow(q).status = "REVOKED"
    BY RevokedKeepsKey DEF Table
  <2> QED
    BY <1>1, <1>3, <2>1 DEF Linked
<1> QED
  BY <1>2, <1>3, RowsChange

\* In every state the index holds of the rows that stay.
THEOREM OneRowEach == AccessSpec => []Table
  BY InitTable, StepTable, PTL DEF AccessSpec

\* A revocation is for good (relationship.orm-entity.ts): the account never has the
\* capacity back.
THEOREM RevokedForEver == AccessSpec => RevocationFinal
  BY OneRowEach, StepRevoked, PTL DEF AccessSpec, RevocationFinal

\* Two calls that both find no relationship of a type create one.
THEOREM LinkedOnceEach == AccessSpec => []LinkedOnce
<1>1. Table => LinkedOnce
  BY DEF Table, OneRow, LinkedOnce
<1> QED
  BY <1>1, OneRowEach, PTL

-----------------------------------------------------------------------------
(* The permissions. *)

\* What a call has held is only added to.
LEMMA WitnessedSound ==
    ASSUME Permitted, NEW a \in Accounts, NEW c, NEW table, Next_(a, c, table), Shaped(c),
           c.step = "act" => c.permission \in c.held \cup Granted(table, a, c.on)
    PROVE  Permitted'
<1> DEFINE cs == [calls EXCEPT ![a] = c]
<1>1. calls' = Witnessed(cs, table)
  BY DEF Next_
<1>2. calls' = [b \in Accounts |-> calls'[b]]
  BY <1>1 DEF Witnessed
<1>3. cs[a] = c /\ \A b \in Accounts \ {a} : cs[b] = calls[b]
  BY DEF Permitted
<1>4. ASSUME NEW b \in Accounts
      PROVE  SoundCall(calls'[b])
  <2> DEFINE more == Granted(table, b, cs[b].on)
             seen == [cs[b] EXCEPT !.held = @ \cup more]
  <2>1. calls'[b] = IF cs[b].step \in {"check", "act"} THEN seen ELSE cs[b]
    BY <1>1 DEF Witnessed
  <2>2. /\ Shaped(cs[b])
        /\ cs[b].step = "act" => cs[b].permission \in cs[b].held \cup more
    BY <1>3 DEF Permitted, SoundCall
  <2> HIDE DEF cs, more
  <2>3. CASE cs[b].step \in {"check", "act"}
    <3>1. DOMAIN cs[b] = Fields /\ cs[b].permission \in All
      BY <2>2, <2>3 DEF Shaped
    <3>2. /\ DOMAIN seen = Fields /\ seen.step = cs[b].step
          /\ seen.permission = cs[b].permission /\ seen.held = cs[b].held \cup more
      BY <3>1 DEF Fields
    <3>3. calls'[b] = seen
      BY <2>1, <2>3
    <3> HIDE DEF seen
    <3>4. Shaped(seen)
      BY <2>3, <3>1, <3>2 DEF Shaped
    <3>5. seen.step = "act" => seen.permission \in seen.held
      BY <2>2, <3>2
    <3> QED
      BY <3>3, <3>4, <3>5 DEF SoundCall
  <2>4. CASE cs[b].step \notin {"check", "act"}
    BY <2>1, <2>2, <2>4 DEF SoundCall, Shaped
  <2> QED
    BY <2>3, <2>4
<1> QED
  BY <1>2, <1>4 DEF Permitted

\* Nothing is checked at first.
LEMMA InitPermitted == AccessInit => Permitted
  BY DEF AccessInit, Permitted, SoundCall, Shaped, NoCall

\* An endpoint starts with the check.
LEMMA EndpointSound ==
    ASSUME Permitted, NEW a \in Accounts, NEW op, NEW permission \in All, NEW i,
           Endpoint(a, op, permission, i)
    PROVE  Permitted'
<1> DEFINE c == [step |-> "check", op |-> op, permission |-> permission, on |-> i, held |-> {}]
<1>1. Shaped(c) /\ c.step = "check"
  BY DEF Shaped, Fields
<1>2. Next_(a, c, rows)
  BY DEF Endpoint
<1> HIDE DEF c
<1> QED
  BY <1>1, <1>2, WitnessedSound

\* The check grants what is in the table when it is made.
LEMMA GrantedWhenChecked ==
    ASSUME NEW a \in Accounts, NEW i, NEW permission \in All, hasPermission(a, i, permission)
    PROVE  permission \in Granted(rows, a, i)
  BY DEF hasPermission, ActiveRelationships, Granted

\* Every step keeps the calls sound.
LEMMA StepPermitted == Permitted /\ [AccessNext]_accessVars => Permitted'
<1> SUFFICES ASSUME Permitted, [AccessNext]_accessVars
             PROVE  Permitted'
  OBVIOUS
<1>1. CASE UNCHANGED accessVars
  BY <1>1 DEF accessVars, Permitted, SoundCall, Shaped
<1>2. ASSUME NEW a \in Accounts, NEW i \in Identities,
             \/ GetIdentity(a, i) \/ GetContracts(a, i) \/ GetDocuments(a, i)
             \/ GetSupports(a, i) \/ GetTransportRights(a, i)
             \/ GetProofEvents(a, i) \/ GetIdentityTimeline(a, i)
             \/ UpdateIdentity(a, i) \/ AddDocument(a, i)
      PROVE  Permitted'
  <2>1. PICK op \in {"read"} \cup Writes, permission \in All : Endpoint(a, op, permission, i)
    BY <1>2, Zenon DEF GetIdentity, GetContracts, GetDocuments, GetSupports, GetTransportRights,
         GetProofEvents, GetIdentityTimeline, UpdateIdentity, AddDocument, Writes, All
  <2> QED
    BY <2>1, EndpointSound
<1>3. ASSUME NEW a \in Accounts, NEW i, NEW type, NEW for, Link(a, for, i, type)
      PROVE  Permitted'
  <2> DEFINE c == [step |-> "insert", op |-> "link", on |-> i, type |-> type, account |-> for]
  <2>1. Next_(a, c, rows) /\ c.step = "insert"
    BY <1>3 DEF Link
  <2>2. Shaped(c)
    BY DEF Shaped
  <2> HIDE DEF c
  <2> QED
    BY <2>1, <2>2, WitnessedSound
<1>4. ASSUME NEW a \in Accounts, AssertPermission(a)
      PROVE  Permitted'
  <2> DEFINE held == hasPermission(a, calls[a].on, calls[a].permission)
             act  == [calls[a] EXCEPT !.step = "act"]
  <2>1. calls[a].step = "check" /\ Next_(a, IF held THEN act ELSE NoCall, rows)
    BY <1>4 DEF AssertPermission
  <2>2. DOMAIN calls[a] = Fields /\ calls[a].permission \in All
    BY <2>1 DEF Permitted, SoundCall, Shaped
  <2>3. /\ DOMAIN act = Fields /\ act.permission = calls[a].permission
        /\ act.on = calls[a].on
    BY <2>2 DEF Fields
  <2>4. CASE held
    <3>1. act.permission \in Granted(rows, a, act.on)
      BY <2>2, <2>3, <2>4, GrantedWhenChecked
    <3>2. act.step = "act"
      BY <2>2 DEF Fields
    <3>3. Next_(a, act, rows)
      BY <2>1, <2>4
    <3> HIDE DEF act
    <3>4. Shaped(act)
      BY <2>2, <2>3, <3>2 DEF Shaped
    <3> QED
      BY <3>1, <3>3, <3>4, WitnessedSound
  <2>5. CASE ~held
    BY <2>1, <2>5, WitnessedSound DEF Shaped, NoCall
  <2> QED
    BY <2>4, <2>5
<1>5. ASSUME NEW a \in Accounts, NEW table, Next_(a, NoCall, table)
      PROVE  Permitted'
  BY <1>5, WitnessedSound DEF Shaped, NoCall
<1>6. ASSUME NEW a \in Accounts, AnswerRows(a) \/ RecordAct(a) \/ Fails(a)
      PROVE  Permitted'
  BY <1>5, <1>6, Zenon DEF AnswerRows, RecordAct, Fails
<1>7. ASSUME NEW a \in Accounts, NEW r, Revoke(a, r)
      PROVE  Permitted'
  BY <1>5, <1>7, Zenon DEF Revoke
<1>8. ASSUME NEW a \in Accounts, Write(a)
      PROVE  Permitted'
  <2> DEFINE c == [calls[a] EXCEPT !.step = "record"]
  <2>1. Next_(a, c, rows) /\ calls[a].step = "act"
    BY <1>8 DEF Write
  <2>2. c.step = "record"
    BY <2>1 DEF Permitted, SoundCall, Shaped, Fields
  <2> HIDE DEF c
  <2> QED
    BY <2>1, <2>2, WitnessedSound DEF Shaped
<1>9. ASSUME NEW a \in Accounts, Insert(a)
      PROVE  Permitted'
  <2> DEFINE c == [calls[a] EXCEPT !.step = "record"]
  <2>1. Next_(a, c, rows') /\ calls[a].step = "insert"
    BY <1>9 DEF Insert
  <2>2. c.step = "record"
    BY <2>1 DEF Permitted, SoundCall, Shaped
  <2> HIDE DEF c
  <2> QED
    BY <2>1, <2>2, WitnessedSound DEF Shaped
<1> QED
  BY <1>1, <1>2, <1>3, <1>4, <1>6, <1>7, <1>8, <1>9, Zenon DEF AccessNext

\* In every state each call that acts has held the permission.
THEOREM PermittedCalls == AccessSpec => []Permitted
  BY InitPermitted, StepPermitted, PTL DEF AccessSpec

\* Every act was permitted when it was checked, and no account has two rows that could
\* disagree about what it is permitted (mobility-access.service.ts).
THEOREM ActsArePermitted == AccessSpec => []ActsPermitted
<1>1. Permitted => ActsUnderPermission
  BY DEF Permitted, SoundCall, ActsUnderPermission
<1> QED
  BY <1>1, PermittedCalls, LinkedOnceEach, PTL DEF ActsPermitted

-----------------------------------------------------------------------------
(* The registry.  Its type invariant and the agreement of the event log with the  *)
(* storage are inductive as they stand; that revocation, expiry and the holder are *)
(* final are facts about one step from a well-typed state.                        *)

LEMMA RecordsTyped ==
    ASSUME now \in Time
    PROVE  /\ Authorized \in SupportRecord
           /\ Revoked \in SupportRecord
           /\ NoSupport \in SupportRecord
           /\ NoRight \in RightRecord
  BY MaxTimeAssumption
     DEF Authorized, Revoked, NoSupport, NoRight, SupportRecord, RightRecord, CommitmentStatus,
         RightStatus, Time

\* What reading one event does to the mirror of its right.
LEMMA ReadRegistered ==
    ASSUME NEW m \in [Rights -> Mirror], NEW r \in Rights, NEW until \in Nat
    PROVE  /\ Read(m, RightRegistered(r, until)) \in [Rights -> Mirror]
           /\ Read(m, RightRegistered(r, until)) =
                [m EXCEPT ![r] = [known |-> TRUE, status |-> "ACTIVE", validUntil |-> until,
                                  support |-> m[r].support]]
<1>1. Read(m, RightRegistered(r, until)) =
        [m EXCEPT ![r].known = TRUE, ![r].status = "ACTIVE", ![r].validUntil = until]
  BY DEF Read, RightRegistered
<1>2. m[r] = [known |-> m[r].known, status |-> m[r].status, validUntil |-> m[r].validUntil,
              support |-> m[r].support]
  BY DEF Mirror
<1>3. Read(m, RightRegistered(r, until))[r] =
        [known |-> TRUE, status |-> "ACTIVE", validUntil |-> until, support |-> m[r].support]
  BY <1>1, <1>2
<1>4. \A q \in Rights : q # r => Read(m, RightRegistered(r, until))[q] = m[q]
  BY <1>1
<1>5. Read(m, RightRegistered(r, until)) =
        [m EXCEPT ![r] = [known |-> TRUE, status |-> "ACTIVE", validUntil |-> until,
                          support |-> m[r].support]]
  BY <1>1, <1>3, <1>4
<1>6. [known |-> TRUE, status |-> "ACTIVE", validUntil |-> until, support |-> m[r].support]
        \in Mirror
  BY DEF Mirror, RightStatus
<1> QED
  BY <1>5, <1>6

LEMMA ReadStatus ==
    ASSUME NEW m \in [Rights -> Mirror], NEW r \in Rights,
           NEW old \in RightStatus, NEW new \in RightStatus
    PROVE  /\ Read(m, RightStatusUpdated(r, old, new)) \in [Rights -> Mirror]
           /\ Read(m, RightStatusUpdated(r, old, new)) = [m EXCEPT ![r].status = new]
<1>1. Read(m, RightStatusUpdated(r, old, new)) = [m EXCEPT ![r].status = new]
  BY DEF Read, RightStatusUpdated
<1> QED
  BY <1>1 DEF Mirror

LEMMA ReadAuthorized ==
    ASSUME NEW m \in [Rights -> Mirror], NEW r \in Rights, NEW s \in Supports, now \in Time
    PROVE  /\ Read(m, SupportAuthorized(r, s)) \in [Rights -> Mirror]
           /\ Read(m, SupportAuthorized(r, s)) = [m EXCEPT ![r].support[s] = Authorized]
<1>1. Read(m, SupportAuthorized(r, s)) = [m EXCEPT ![r].support[s] = Authorized]
  BY DEF Read, SupportAuthorized, Authorized
<1> QED
  BY <1>1, RecordsTyped DEF Mirror

LEMMA ReadRevoked ==
    ASSUME NEW m \in [Rights -> Mirror], NEW r \in Rights, NEW s \in Supports, now \in Time
    PROVE  /\ Read(m, SupportRevoked(r, s)) \in [Rights -> Mirror]
           /\ Read(m, SupportRevoked(r, s)) = [m EXCEPT ![r].support[s] = Revoked]
<1>1. Read(m, SupportRevoked(r, s)) = [m EXCEPT ![r].support[s] = Revoked]
  BY DEF Read, SupportRevoked, Revoked
<1> QED
  BY <1>1, RecordsTyped DEF Mirror

-----------------------------------------------------------------------------
(* The invariant: types, and the storage as its events tell it. *)

Mirrored == RegistryTypeOK /\ MirrorAgrees

LEMMA InitSound == RegistryInit => Mirrored
<1> SUFFICES ASSUME RegistryInit PROVE Mirrored
  OBVIOUS
<1>1. now \in Time
  BY MaxTimeAssumption DEF RegistryInit, Time
<1>2. RegistryTypeOK
  BY <1>1, RecordsTyped DEF RegistryInit, RegistryTypeOK, Mirror, RightStatus, Time
<1>3. MirrorAgrees
  BY DEF RegistryInit, MirrorAgrees, NoRight
<1> QED
  BY <1>2, <1>3 DEF Mirrored

LEMMA RegisterSound ==
    ASSUME Mirrored, NEW a \in Wallets, NEW r \in Rights, NEW h \in Holders, NEW until \in Time,
           RegisterRight(a, r, h, until)
    PROVE  Mirrored'
<1>1. until \in Nat /\ now \in Time
  BY MaxTimeAssumption DEF Time, Mirrored, RegistryTypeOK
<1>2. /\ mirror' = [mirror EXCEPT ![r] = [known |-> TRUE, status |-> "ACTIVE",
                        validUntil |-> until, support |-> mirror[r].support]]
      /\ mirror' \in [Rights -> Mirror]
  BY <1>1, ReadRegistered DEF RegisterRight, Emit, Mirrored, RegistryTypeOK
<1>3. rights' \in [Rights -> RightRecord]
  BY <1>1 DEF RegisterRight, Mirrored, RegistryTypeOK, RightRecord, RightStatus
<1>4. RegistryTypeOK'
  BY <1>2, <1>3 DEF RegisterRight, Mirrored, RegistryTypeOK
<1>5. MirrorAgrees'
  BY <1>2 DEF RegisterRight, Mirrored, RegistryTypeOK, MirrorAgrees
<1> QED
  BY <1>4, <1>5 DEF Mirrored

LEMMA StatusSound ==
    ASSUME Mirrored, NEW a \in Wallets, NEW r \in Rights, NEW status \in RightStatus,
           UpdateRightStatus(a, r, status)
    PROVE  Mirrored'
<1>1. /\ mirror' = [mirror EXCEPT ![r].status = status]
      /\ mirror' \in [Rights -> Mirror]
  <2>1. rights[r].status \in RightStatus /\ mirror \in [Rights -> Mirror]
    BY DEF Mirrored, RegistryTypeOK, RightRecord
  <2>2. mirror' = Read(mirror, RightStatusUpdated(r, rights[r].status, status))
    BY DEF UpdateRightStatus, Emit
  <2> DEFINE old == rights[r].status
  <2>3. old \in RightStatus /\ mirror' = Read(mirror, RightStatusUpdated(r, old, status))
    BY <2>1, <2>2
  <2> HIDE DEF old
  <2> QED
    BY <2>1, <2>3, ReadStatus
<1>2. rights' \in [Rights -> RightRecord]
  BY DEF UpdateRightStatus, Mirrored, RegistryTypeOK, RightRecord
<1>3. RegistryTypeOK'
  BY <1>1, <1>2 DEF UpdateRightStatus, Mirrored, RegistryTypeOK
<1>4. MirrorAgrees'
  BY <1>1 DEF UpdateRightStatus, Mirrored, RegistryTypeOK, MirrorAgrees, RightRecord, Mirror
<1> QED
  BY <1>3, <1>4 DEF Mirrored

\* A commitment written is the one its event tells.
LEMMA SupportTold ==
    ASSUME Mirrored, NEW r \in Rights, NEW s \in Supports, NEW record, UNCHANGED rights,
           mirror' = [mirror EXCEPT ![r].support[s] = record],
           commitments' = [commitments EXCEPT ![r][s] = record]
    PROVE  MirrorAgrees'
<1>1. mirror \in [Rights -> Mirror] /\ DOMAIN commitments = Rights
  BY DEF Mirrored, RegistryTypeOK
<1>2. mirror'[r] = [mirror[r] EXCEPT !.support[s] = record]
  BY <1>1
<1>3. commitments'[r] = [commitments[r] EXCEPT ![s] = record]
  BY <1>1
<1>4. \A q \in Rights : q # r => mirror'[q] = mirror[q] /\ commitments'[q] = commitments[q]
  BY <1>1
<1>5. mirror[r].support = commitments[r]
  BY DEF Mirrored, MirrorAgrees
<1>6. /\ mirror'[r].known = mirror[r].known
      /\ mirror'[r].status = mirror[r].status
      /\ mirror'[r].validUntil = mirror[r].validUntil
      /\ mirror'[r].support = [mirror[r].support EXCEPT ![s] = record]
  BY <1>1, <1>2 DEF Mirror
<1> QED
  BY <1>3, <1>4, <1>5, <1>6 DEF Mirrored, MirrorAgrees

LEMMA AuthorizeSound ==
    ASSUME Mirrored, NEW a \in Wallets, NEW r \in Rights, NEW s \in Supports,
           AuthorizeSupport(a, r, s)
    PROVE  Mirrored'
<1>1. /\ mirror' = [mirror EXCEPT ![r].support[s] = Authorized]
      /\ mirror' \in [Rights -> Mirror]
  BY ReadAuthorized DEF AuthorizeSupport, Emit, Mirrored, RegistryTypeOK
<1>2. commitments' \in [Rights -> [Supports -> SupportRecord]]
  BY RecordsTyped DEF AuthorizeSupport, Mirrored, RegistryTypeOK
<1>3. RegistryTypeOK'
  BY <1>1, <1>2 DEF AuthorizeSupport, Mirrored, RegistryTypeOK
<1>4. MirrorAgrees'
  BY <1>1, SupportTold DEF AuthorizeSupport
<1> QED
  BY <1>3, <1>4 DEF Mirrored

LEMMA RevokeSound ==
    ASSUME Mirrored, NEW a \in Wallets, NEW r \in Rights, NEW s \in Supports,
           RevokeSupport(a, r, s)
    PROVE  Mirrored'
<1>1. /\ mirror' = [mirror EXCEPT ![r].support[s] = Revoked]
      /\ mirror' \in [Rights -> Mirror]
  BY ReadRevoked DEF RevokeSupport, Emit, Mirrored, RegistryTypeOK
<1>2. commitments' \in [Rights -> [Supports -> SupportRecord]]
  BY RecordsTyped DEF RevokeSupport, Mirrored, RegistryTypeOK
<1>3. RegistryTypeOK'
  BY <1>1, <1>2 DEF RevokeSupport, Mirrored, RegistryTypeOK
<1>4. MirrorAgrees'
  BY <1>1, SupportTold DEF RevokeSupport
<1> QED
  BY <1>3, <1>4 DEF Mirrored

\* The second event is read over the first: they are about different supports.
LEMMA ReplaceSound ==
    ASSUME Mirrored, NEW a \in Wallets, NEW r \in Rights, NEW old \in Supports,
           NEW new \in Supports, ReplaceSupport(a, r, old, new)
    PROVE  Mirrored'
<1>1. old # new
  BY DEF ReplaceSupport, Unknown
<1> DEFINE between == Read(mirror, SupportRevoked(r, old))
<1>2. /\ between = [mirror EXCEPT ![r].support[old] = Revoked]
      /\ between \in [Rights -> Mirror]
  BY ReadRevoked DEF Mirrored, RegistryTypeOK
<1>3. /\ mirror' = [between EXCEPT ![r].support[new] = Authorized]
      /\ mirror' \in [Rights -> Mirror]
  <2>1. mirror' = Read(between, SupportAuthorized(r, new))
    BY DEF ReplaceSupport, EmitBoth
  <2> HIDE DEF between
  <2> QED
    BY <1>2, <2>1, ReadAuthorized DEF Mirrored, RegistryTypeOK
<1> HIDE DEF between
<1>4. commitments' \in [Rights -> [Supports -> SupportRecord]]
  BY RecordsTyped DEF ReplaceSupport, Mirrored, RegistryTypeOK
<1>5. RegistryTypeOK'
  BY <1>3, <1>4 DEF ReplaceSupport, Mirrored, RegistryTypeOK
<1>6. MirrorAgrees'
  <2> SUFFICES ASSUME NEW q \in Rights
               PROVE  /\ mirror'[q].known = rights'[q].exists
                      /\ mirror'[q].status = rights'[q].status
                      /\ mirror'[q].validUntil = rights'[q].validUntil
                      /\ mirror'[q].support = commitments'[q]
    BY DEF MirrorAgrees
  <2>1. CASE q # r
    BY <1>2, <1>3, <2>1 DEF ReplaceSupport, Mirrored, RegistryTypeOK, MirrorAgrees
  <2>2. CASE q = r
    <3>1. between[r].support = [mirror[r].support EXCEPT ![old] = Revoked]
          /\ between[r].known = mirror[r].known
          /\ between[r].status = mirror[r].status
          /\ between[r].validUntil = mirror[r].validUntil
      BY <1>2 DEF Mirrored, RegistryTypeOK, Mirror
    <3>2. mirror'[r].support = [between[r].support EXCEPT ![new] = Authorized]
          /\ mirror'[r].known = between[r].known
          /\ mirror'[r].status = between[r].status
          /\ mirror'[r].validUntil = between[r].validUntil
      BY <1>2, <1>3 DEF Mirror
    <3>3. commitments'[r] = [commitments[r] EXCEPT ![old] = Revoked, ![new] = Authorized]
      BY DEF ReplaceSupport, Mirrored, RegistryTypeOK
    <3>4. mirror[r].support = commitments[r]
      BY DEF Mirrored, MirrorAgrees
    <3>5. mirror'[r].support = commitments'[r]
      BY <3>1, <3>2, <3>3, <3>4
    <3> QED
      BY <2>2, <3>1, <3>2, <3>5 DEF ReplaceSupport, Mirrored, MirrorAgrees
  <2> QED
    BY <2>1, <2>2
<1> QED
  BY <1>5, <1>6 DEF Mirrored

LEMMA RolesSound ==
    ASSUME Mirrored, NEW a \in Wallets, NEW b \in Wallets, GrantRole(a, b) \/ RemoveRole(a, b)
    PROVE  Mirrored'
  BY DEF GrantRole, RemoveRole, Mirrored, RegistryTypeOK, MirrorAgrees

LEMMA TickSound ==
    ASSUME Mirrored, Tick
    PROVE  Mirrored'
  BY MaxTimeAssumption DEF Tick, Mirrored, RegistryTypeOK, MirrorAgrees, Time

LEMMA StepSound == Mirrored /\ [RegistryNext]_registryVars => Mirrored'
<1> SUFFICES ASSUME Mirrored, [RegistryNext]_registryVars PROVE Mirrored'
  OBVIOUS
<1>1. CASE UNCHANGED registryVars
  BY <1>1 DEF registryVars, Mirrored, RegistryTypeOK, MirrorAgrees
<1>2. CASE Tick
  BY <1>2, TickSound
<1>3. ASSUME NEW a \in Wallets, Transaction(a) PROVE Mirrored'
  BY <1>3, RegisterSound, StatusSound, AuthorizeSound, RevokeSound, ReplaceSound, RolesSound
     DEF Transaction
<1> QED
  BY <1>1, <1>2, <1>3 DEF RegistryNext

LEMMA AlwaysSound == RegistrySpec => []Mirrored
  BY InitSound, StepSound, PTL DEF RegistrySpec

\* Every variable of the registry keeps its type.
THEOREM TypeCorrect == RegistrySpec => []RegistryTypeOK
<1>1. Mirrored => RegistryTypeOK
  BY DEF Mirrored
<1> QED
  BY <1>1, AlwaysSound, PTL

\* The statuses, limits and times of the storage are those a reader of the
\* event log reconstructs, whatever the transactions and their order.
THEOREM EventsTellStorage == RegistrySpec => []MirrorAgrees
<1>1. Mirrored => MirrorAgrees
  BY DEF Mirrored
<1> QED
  BY <1>1, AlwaysSound, PTL

-----------------------------------------------------------------------------
(* What no step changes. *)

LEMMA RevokedStays ==
    ASSUME RegistryTypeOK, [RegistryNext]_registryVars, NEW r \in Rights, NEW s \in Supports,
           commitments[r][s].status = "REVOKED"
    PROVE  commitments'[r][s].status = "REVOKED"
<1>1. CASE UNCHANGED registryVars \/ Tick
  BY <1>1 DEF registryVars, Tick
<1>2. ASSUME NEW a \in Wallets, NEW q \in Rights, NEW t \in Supports,
             AuthorizeSupport(a, q, t)
      PROVE  commitments'[r][s].status = "REVOKED"
  BY <1>2 DEF AuthorizeSupport, Unknown, RegistryTypeOK
<1>3. ASSUME NEW a \in Wallets, NEW q \in Rights, NEW t \in Supports, RevokeSupport(a, q, t)
      PROVE  commitments'[r][s].status = "REVOKED"
  BY <1>3 DEF RevokeSupport, Revoked, RegistryTypeOK
<1>4. ASSUME NEW a \in Wallets, NEW q \in Rights, NEW old \in Supports, NEW new \in Supports,
             ReplaceSupport(a, q, old, new)
      PROVE  commitments'[r][s].status = "REVOKED"
  BY <1>4 DEF ReplaceSupport, Unknown, Revoked, RegistryTypeOK
<1>5. ASSUME NEW a \in Wallets, Transaction(a), UNCHANGED commitments
      PROVE  commitments'[r][s].status = "REVOKED"
  BY <1>5
<1> QED
  BY <1>1, <1>2, <1>3, <1>4, <1>5
     DEF RegistryNext, Transaction, RegisterRight, UpdateRightStatus, GrantRole, RemoveRole

\* A support the registry has revoked is never again valid for that right.
THEOREM SupportRevocationFinal == RegistrySpec => RevokedForGood
<1>1. RegistryTypeOK /\ [RegistryNext]_registryVars =>
        [\A r \in Rights, s \in Supports :
            commitments[r][s].status = "REVOKED" => ~IsValidForSupport(r, s)']_registryVars
  BY RevokedStays DEF IsValidForSupport
<1> QED
  BY <1>1, TypeCorrect, PTL DEF RegistrySpec, RevokedForGood

\* A right, once registered, keeps its holder and its limit, and time goes on.
LEMMA RightStays ==
    ASSUME RegistryTypeOK, [RegistryNext]_registryVars, NEW r \in Rights, rights[r].exists
    PROVE  /\ rights'[r].exists
           /\ rights'[r].holder = rights[r].holder
           /\ rights'[r].validUntil = rights[r].validUntil
           /\ now' >= now
<1>1. now \in Nat
  BY MaxTimeAssumption DEF RegistryTypeOK, Time
<1>2. CASE UNCHANGED registryVars \/ Tick
  BY <1>1, <1>2 DEF registryVars, Tick
<1>3. ASSUME NEW a \in Wallets, Transaction(a)
      PROVE  /\ rights'[r].exists
             /\ rights'[r].holder = rights[r].holder
             /\ rights'[r].validUntil = rights[r].validUntil
             /\ now' = now
  <2>1. CASE UNCHANGED <<now, rights>>
    BY <2>1
  <2>2. ASSUME NEW q \in Rights, NEW h \in Holders, NEW until \in Time,
               RegisterRight(a, q, h, until)
        PROVE  UNCHANGED now /\ rights'[r] = rights[r]
    BY <2>2 DEF RegisterRight, RegistryTypeOK
  <2>3. ASSUME NEW q \in Rights, NEW status \in RightStatus, UpdateRightStatus(a, q, status)
        PROVE  /\ rights'[r].exists
               /\ rights'[r].holder = rights[r].holder
               /\ rights'[r].validUntil = rights[r].validUntil
               /\ now' = now
    BY <2>3 DEF UpdateRightStatus, RegistryTypeOK, RightRecord
  <2> QED
    BY <1>3, <2>1, <2>2, <2>3
       DEF Transaction, AuthorizeSupport, RevokeSupport, ReplaceSupport, GrantRole, RemoveRole
<1> QED
  BY <1>1, <1>2, <1>3 DEF RegistryNext

\* A right past its limit is never valid again.
THEOREM ExpiryFinal == RegistrySpec => ExpiredForGood
<1>1. Mirrored /\ [RegistryNext]_registryVars =>
        [\A r \in Rights :
            rights[r].exists /\ now > rights[r].validUntil => ~IsValid(r)']_registryVars
  <2> SUFFICES ASSUME Mirrored, [RegistryNext]_registryVars, NEW r \in Rights, rights[r].exists,
                      now > rights[r].validUntil
               PROVE  ~IsValid(r)'
    OBVIOUS
  <2>1. now \in Nat /\ now' \in Nat /\ rights[r].validUntil \in Nat
    BY StepSound, MaxTimeAssumption DEF Mirrored, RegistryTypeOK, Time, RightRecord
  <2> QED
    BY <2>1, RightStays DEF IsValid, Mirrored
<1> QED
  BY <1>1, AlwaysSound, PTL DEF RegistrySpec, ExpiredForGood

\* The holder a right was registered for is its holder for ever.
THEOREM HolderFinal == RegistrySpec => HolderKept
<1>1. RegistryTypeOK /\ [RegistryNext]_registryVars =>
        [\A r \in Rights, h \in Holders : MatchesHolder(r, h) => MatchesHolder(r, h)']_registryVars
  BY RightStays DEF MatchesHolder
<1> QED
  BY <1>1, TypeCorrect, PTL DEF RegistrySpec, HolderKept

\* Nothing that a revocation, an expiry or a registration settles is taken back.
THEOREM Final == RegistrySpec => RightsFinal
  BY SupportRevocationFinal, ExpiryFinal, HolderFinal DEF RightsFinal

=================================================================================
