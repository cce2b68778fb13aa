--------------------------- MODULE SignatureOrders ---------------------------
(***************************************************************************)
(* What the back end expects of an order to sign: either the signature      *)
(* request is under way at YouSign with the document and all the signers,   *)
(* or nobody can sign anything for that order.  The one who ordered may     *)
(* have lost the answer.  ContractSignature is written against this.        *)
(***************************************************************************)
EXTENDS Naturals

CONSTANTS Calls, Requests, Contracts, NSigners, Null

VARIABLES active, order

Idle == [state |-> "idle", contract |-> Null, sr |-> Null]

Whole(c) == [contract |-> c, document |-> c, signers |-> NSigners]

Init ==
    /\ active = [sr \in Requests |-> Null]
    /\ order = [h \in Calls |-> Idle]

Ask(h, c) ==
    /\ order[h].state # "asked"
    /\ order' = [order EXCEPT ![h] = [state |-> "asked", contract |-> c, sr |-> Null]]
    /\ UNCHANGED active

\* The request comes into force at once; the order is answered, or the answer is lost.
Send(h, sr, answered) ==
    /\ order[h].state = "asked"
    /\ active[sr] = Null
    /\ active' = [active EXCEPT ![sr] = Whole(order[h].contract)]
    /\ order' = [order EXCEPT ![h] =
                    IF answered THEN [state |-> "sent", contract |-> @.contract, sr |-> sr]
                    ELSE Idle]

Fail(h) ==
    /\ order[h].state = "asked"
    /\ order' = [order EXCEPT ![h] = Idle]
    /\ UNCHANGED active

\* A step is one caller's, and moves its order on.
Next ==
    \E h \in Calls :
        /\ order'[h] # order[h]
        /\ \/ \E c \in Contracts : Ask(h, c)
           \/ \E sr \in Requests, answered \in BOOLEAN : Send(h, sr, answered)
           \/ Fail(h)

Spec == Init /\ [][Next]_<<active, order>>
=============================================================================
