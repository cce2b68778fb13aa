------------------------------ MODULE Journeys ------------------------------
(***************************************************************************)
(* The validation of journeys: a validation too soon after the last one    *)
(* accepted for the same right, at a station too far away, is recorded as  *)
(* an anomaly, and a case is opened.                                       *)
(*                                                                         *)
(* The instant is given by the validator and may be earlier than that of   *)
(* a validation already recorded.  Whether the right and the support are   *)
(* active when they are read, and the instant within the right's dates,    *)
(* decides only whether a validation is recorded at all.                   *)
(***************************************************************************)
EXTENDS Mobility, Integers, Sequences

CONSTANTS
    Stations,         \* stations; those of the table have its names
    Instants,         \* minutes at which a validator may place a validation
    MaxValidations    \* bound on the validations recorded

ASSUME InstantsAssumption == Instants \subseteq Nat

VARIABLES
    validations,   \* table validation_events, in the order of insertion
    anomalies,     \* table anomaly_cases: the validation each case is about
    validating,       \* the handlers in progress
    calm           \* history: rights whose validations came one by one and in order

journeysVars == <<validations, anomalies, validating, calm>>

ValidationEvent ==
    [right : Rights, station : Stations, at : Instants, result : {"ACCEPTED", "ANOMALY"}]

ValidationCall ==
    [pc : {"idle", "append", "case"}, right : Rights, station : Stations, at : Instants,
     previous : Nat]      \* the validation read, 0: none

ValidationIds == 1 .. Len(validations)

\* A case names the validation that opened it.
AnomalyCase == ValidationIds

Busy(h) == validating[h] # Null
DoneValidating(h) == validating' = [validating EXCEPT ![h] = Null]

JourneysTypeOK ==
    /\ validations \in Seq(ValidationEvent)
    /\ anomalies \subseteq AnomalyCase
    /\ validating \in [Handlers -> ValidationCall \cup {Null}]
    /\ calm \subseteq Rights

JourneysInit ==
    /\ validations = <<>>
    /\ anomalies = {}
    /\ validating = [h \in Handlers |-> Null]
    /\ calm = Rights

-----------------------------------------------------------------------------
\* Pairs of stations the table gives a travel time for, in minutes.
MINIMUM_TRAVEL_MINUTES(from, to) ==
    CASE {from, to} = {"la-defense", "chatelet"}   -> 12
      [] {from, to} = {"gare-de-lyon", "bastille"} -> 6
      [] OTHER                                     -> 5

\* Mutant: an earlier validation that arrives late is taken for an impossible one.
ImpossibleEvenBefore(previous, station, at) ==
    /\ validations[previous].station # station
    /\ at - validations[previous].at < MINIMUM_TRAVEL_MINUTES(validations[previous].station, station)

IsShortWindowImpossible(previous, station, at) ==
    LET elapsed == at - validations[previous].at IN
    /\ validations[previous].station # station
    /\ elapsed >= 0
    /\ elapsed < MINIMUM_TRAVEL_MINUTES(validations[previous].station, station)

Accepted(r) == {v \in ValidationIds : validations[v].right = r /\ validations[v].result = "ACCEPTED"}

\* Mutant: the last validation counts, accepted or not.
LastOfRight(r) ==
    {v \in ValidationIds : /\ validations[v].right = r
                 /\ \A w \in ValidationIds : validations[w].right = r => validations[w].at <= validations[v].at}

\* findLastAcceptedByRight orders by the instant; equal instants come in any order.
LastAccepted(r) ==
    {v \in Accepted(r) : \A w \in Accepted(r) : validations[w].at <= validations[v].at}

Overlaps(h, r) == \E g \in Handlers \ {h} : Busy(g) /\ validating[g].right = r

\* Mutant: an impossible journey is refused under a name of its own.
ResultRefused(impossible) == IF impossible THEN "REFUSED" ELSE "ACCEPTED"

Result(impossible) == IF impossible THEN "ANOMALY" ELSE "ACCEPTED"

\* The previous validation is read.
ReadLast(h, r, station, at) ==
    /\ ~Busy(h)
    /\ \E previous \in IF Accepted(r) = {} THEN {0} ELSE LastAccepted(r) :
        validating' = [validating EXCEPT ![h] =
            [pc |-> "append", right |-> r, station |-> station, at |-> at, previous |-> previous]]
    /\ calm' = IF Overlaps(h, r) \/ \E v \in Accepted(r) : validations[v].at > at
               THEN calm \ {r} ELSE calm
    /\ UNCHANGED <<validations, anomalies>>

AppendValidation(h) ==
    /\ Busy(h)
    /\ validating[h].pc = "append"
    /\ Len(validations) < MaxValidations
    /\ LET v == validating[h]
           impossible == v.previous # 0 /\ IsShortWindowImpossible(v.previous, v.station, v.at) IN
        /\ validations' = Append(validations,
                [right |-> v.right, station |-> v.station, at |-> v.at,
                 result |-> Result(impossible)])
        /\ IF impossible
           THEN validating' = [validating EXCEPT ![h].pc = "case", ![h].previous = Len(validations) + 1]
           ELSE DoneValidating(h)
    /\ UNCHANGED <<anomalies, calm>>

\* Here `previous` is the validation just recorded.
CreateAnomaly(h) ==
    /\ Busy(h)
    /\ validating[h].pc = "case"
    /\ anomalies' = anomalies \cup {validating[h].previous}
    /\ DoneValidating(h)
    /\ UNCHANGED <<validations, calm>>

\* A call to the database fails, or the replica stops.
StopValidating(h) ==
    /\ Busy(h)
    /\ DoneValidating(h)
    /\ UNCHANGED <<validations, anomalies, calm>>

JourneysNext ==
    \E h \in Handlers :
        \/ \E r \in Rights, station \in Stations, at \in Instants : ReadLast(h, r, station, at)
        \/ AppendValidation(h)
        \/ CreateAnomaly(h)
        \/ StopValidating(h)

JourneysSpec == JourneysInit /\ [][JourneysNext]_journeysVars

-----------------------------------------------------------------------------
(* Properties. *)

\* Nobody can be at the station of v and then, at the time of w, at that of w.
TooSoon(v, w) ==
    /\ validations[v].station # validations[w].station
    /\ validations[w].at >= validations[v].at
    /\ validations[w].at < validations[v].at
            + MINIMUM_TRAVEL_MINUTES(validations[v].station, validations[w].station)

\* A holder is reported only for a journey nobody can make: some validation
\* accepted before, at another station, lies less than the travel time before it.
\* A validation that arrives late is not held against the holder, nor one that
\* overlaps with another.
AnomalyJustified ==
    \A v \in ValidationIds : validations[v].result = "ANOMALY" =>
        \E w \in Accepted(validations[v].right) : w < v /\ TooSoon(w, v)

Consecutive(r, v, w) ==
    /\ v \in Accepted(r)
    /\ w \in Accepted(r)
    /\ v < w
    /\ \A u \in Accepted(r) : u <= v \/ u >= w

\* While the validations of a right come one by one and in order, no two accepted
\* ones in a row are too far apart for the time between them, whatever refused
\* ones come in between.
AcceptedSpaced ==
    \A r \in calm : \A v, w \in ValidationIds :
        Consecutive(r, v, w) => ~TooSoon(v, w)
=============================================================================
