----------------------------- MODULE ConsentLedger -----------------------------
(***************************************************************************)
(* What the contract workflow promises, whoever runs it: a subscription is *)
(* put up for payment, paid and activated only with a consent on record,   *)
(* and a consent on record names a signature its signer completed for that *)
(* subscription.  How many handlers, replicas, retries and crashes it      *)
(* takes, and how often a stage is left and entered again, is left open.   *)
(***************************************************************************)
CONSTANTS Contracts, SignatureRequests

VARIABLES
    completed,  \* signatures completed for each contract
    consents,   \* signatures whose acceptance is on record
    stage,      \* "open" until the contract may be paid
    paid        \* contracts whose payment has been confirmed

vars == <<completed, consents, stage, paid>>

Stages == {"open", "payable", "validating", "active"}

Init ==
    /\ completed = [c \in Contracts |-> {}]
    /\ consents = [c \in Contracts |-> {}]
    /\ stage = [c \in Contracts |-> "open"]
    /\ paid = [c \in Contracts |-> FALSE]

Complete(c, sr) ==
    /\ \A d \in Contracts : sr \notin completed[d]
    /\ completed' = [completed EXCEPT ![c] = @ \cup {sr}]
    /\ UNCHANGED <<consents, stage, paid>>

Consent(c, sr) ==
    /\ sr \in completed[c]
    /\ consents' = [consents EXCEPT ![c] = @ \cup {sr}]
    /\ UNCHANGED <<completed, stage, paid>>

\* Any stage may be left; a stage past "open" needs a consent, one past the payment
\* needs the payment.
Move(c, s) ==
    /\ s # "open" => consents[c] # {}
    /\ s \in {"validating", "active"} => paid[c]
    /\ stage' = [stage EXCEPT ![c] = s]
    /\ UNCHANGED <<completed, consents, paid>>

Pay(c) ==
    /\ consents[c] # {}
    /\ paid' = [paid EXCEPT ![c] = TRUE]
    /\ stage' = [stage EXCEPT ![c] = "validating"]
    /\ UNCHANGED <<completed, consents>>

Next ==
    \E c \in Contracts :
        \/ \E sr \in SignatureRequests : Complete(c, sr) \/ Consent(c, sr)
        \/ \E s \in Stages : Move(c, s)
        \/ Pay(c)

Spec == Init /\ [][Next]_vars

===============================================================================
