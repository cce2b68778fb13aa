--------------------------- MODULE YousignExchange ---------------------------
(***************************************************************************)
(* The HTTP exchanges by which the back end has a document signed           *)
(* (YousignClient.createAndActivateSignatureRequest): four calls, none      *)
(* repeated, any of which may be refused, may be carried out and its answer *)
(* lost, or may be the last before the process stops; and YouSign's side of *)
(* them, as far as the client relies on it.  ContractSignature takes one    *)
(* step for all of this, which the refinement at the end justifies.         *)
(***************************************************************************)
EXTENDS Naturals, ServiceNames

CONSTANTS
    Calls,      \* callers at work at the same time
    Requests,   \* signature_request ids
    Contracts,  \* external ids
    NSigners    \* signers of one order (the one caller gives one)

ASSUME NoneAssumption == None \notin Requests \cup Contracts
ASSUME SignersAssumption == NSigners \in Nat

VARIABLES
    remote,  \* YouSign's signature requests
    call     \* createAndActivateSignatureRequest under way, per caller

exchangeVars == <<remote, call>>

\* document: the contract whose PDF was uploaded; signers: how many were added.
Remote ==
    [status : {"none", "draft", "ongoing"}, contract : Contracts \cup {None},
     document : Contracts \cup {None}, signers : 0..NSigners]

Nothing == [status |-> "none", contract |-> None, document |-> None, signers |-> 0]

\* added: the signers of params.signers already sent.
Call ==
    [pc : {"idle", "create", "upload", "sign", "activate", "done"},
     contract : Contracts \cup {None}, sr : Requests \cup {None}, added : 0..NSigners]

Idle == [pc |-> "idle", contract |-> None, sr |-> None, added |-> 0]

ExchangeTypeOK ==
    /\ remote \in [Requests -> Remote]
    /\ call \in [Calls -> Call]

ExchangeInit ==
    /\ remote = [sr \in Requests |-> Nothing]
    /\ call = [h \in Calls |-> Idle]

At(h, pc) == call[h].pc = pc

Request(h) == remote[call[h].sr]

-----------------------------------------------------------------------------
(* The four calls.  `answered`: the answer arrives and is ok. *)

Ask(h, c) ==
    /\ call[h].pc \in {"idle", "done"}
    /\ call' = [call EXCEPT ![h] = [pc |-> "create", contract |-> c, sr |-> None, added |-> 0]]
    /\ UNCHANGED remote

\* What follows an answer: the next call, or the exception that leaves the client.
Then(h, answered, next) ==
    call' = [call EXCEPT ![h] = IF answered THEN next ELSE Idle]

\* A new id is drawn by YouSign: other callers do not have it.
CreateRequest(h, sr, answered) ==
    /\ At(h, "create")
    /\ remote[sr] = Nothing
    /\ remote' = [remote EXCEPT ![sr] = [Nothing EXCEPT !.status = "draft",
                                                        !.contract = call[h].contract]]
    /\ Then(h, answered, [call[h] EXCEPT !.pc = "upload", !.sr = sr])

UploadDocument(h, answered) ==
    /\ At(h, "upload")
    /\ remote' = [remote EXCEPT ![call[h].sr].document = call[h].contract]
    /\ Then(h, answered, [call[h] EXCEPT !.pc = IF NSigners = 0 THEN "activate" ELSE "sign"])

AddSigner(h, answered) ==
    LET last == call[h].added + 1 = NSigners IN
    /\ At(h, "sign")
    /\ remote' = [remote EXCEPT ![call[h].sr].signers = @ + 1]
    /\ Then(h, answered,
            [call[h] EXCEPT !.added = @ + 1, !.pc = IF last THEN "activate" ELSE "sign"])

Activate(h, answered) ==
    /\ At(h, "activate")
    /\ remote' = [remote EXCEPT ![call[h].sr].status = "ongoing"]
    /\ Then(h, answered, [call[h] EXCEPT !.pc = "done"])

\* Mutant: a refused document is not looked at.
RefusalIgnored(h) ==
    /\ call[h].pc \notin {"idle", "done"}
    /\ call' = [call EXCEPT ![h] = IF At(h, "upload") /\ NSigners > 0 THEN [@ EXCEPT !.pc = "sign"]
                                   ELSE Idle]
    /\ UNCHANGED remote

\* The call is refused or does not reach YouSign, or the process stops.
Fails(h) ==
    /\ call[h].pc \notin {"idle", "done"}
    /\ call' = [call EXCEPT ![h] = Idle]
    /\ UNCHANGED remote

ExchangeNext ==
    \E h \in Calls :
        \/ \E c \in Contracts : Ask(h, c)
        \/ \E answered \in BOOLEAN :
             \/ \E sr \in Requests : CreateRequest(h, sr, answered)
             \/ UploadDocument(h, answered)
             \/ AddSigner(h, answered)
             \/ Activate(h, answered)
        \/ Fails(h)

ExchangeSpec == ExchangeInit /\ [][ExchangeNext]_exchangeVars

-----------------------------------------------------------------------------
(* Properties. *)

\* The drafts disappear: nobody can sign them.
ActiveOf(sr) ==
    IF remote[sr].status = "ongoing"
    THEN [contract |-> remote[sr].contract, document |-> remote[sr].document,
          signers |-> remote[sr].signers]
    ELSE None

OrderOf(h) ==
    CASE At(h, "idle") -> [state |-> "idle", contract |-> None, sr |-> None]
      [] At(h, "done") -> [state |-> "sent", contract |-> call[h].contract, sr |-> call[h].sr]
      [] OTHER -> [state |-> "asked", contract |-> call[h].contract, sr |-> None]

activeRequests == [sr \in Requests |-> ActiveOf(sr)]

orders == [h \in Calls |-> OrderOf(h)]

Orders == INSTANCE SignatureOrders WITH active <- activeRequests, order <- orders, Null <- None

\* The four calls are one order, sent whole or not at all, whatever fails between them
\* (YousignClient.createAndActivateSignatureRequest).
ImplementsOrders == Orders!Spec

Working(h) == call[h].pc \in {"upload", "sign", "activate"}

\* What a caller has done so far is what its request holds.
CallAgrees(h) ==
    /\ ~At(h, "idle") => call[h].contract \in Contracts
    /\ Working(h) =>
         /\ call[h].sr \in Requests
         /\ Request(h) = [status |-> "draft", contract |-> call[h].contract,
                          document |-> IF At(h, "upload") THEN None ELSE call[h].contract,
                          signers |-> call[h].added]
    /\ At(h, "create") \/ At(h, "upload") => call[h].added = 0
    /\ At(h, "sign") => call[h].added < NSigners
    /\ At(h, "activate") => call[h].added = NSigners

\* Two callers never work on one request.
OwnRequest ==
    \A h, i \in Calls : h # i /\ Working(h) /\ Working(i) => call[h].sr # call[i].sr

\* The inductive invariant of the client.
Exchanging == ExchangeTypeOK /\ (\A h \in Calls : CallAgrees(h)) /\ OwnRequest
=============================================================================
