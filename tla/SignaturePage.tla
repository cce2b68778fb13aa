---------------------------- MODULE SignaturePage ----------------------------
(***************************************************************************)
(* The page of the signature (front/src/pages/dossier,                     *)
(* DossierSignaturePage) on top of the handlers of ContractSignature: who   *)
(* asks again when YouSign's webhooks are lost, and for how long.           *)
(*                                                                         *)
(* The page reads the contract once, when it is opened.  Only if that       *)
(* answer says "signature en cours" does it ask for the state of the        *)
(* signature, every 8 seconds and when the window gets the focus.  A page   *)
(* from which the signature is started goes on showing the contract it read *)
(* before, and asks for nothing until it is loaded again.                   *)
(***************************************************************************)
EXTENDS ContractSignature

VARIABLE watching   \* the contracts a tab shows as "signature en cours", so that it polls

pageVars == <<vars, watching>>

InitPage == Init /\ watching = {}

\* The last step of contractsApi.get or getSignatureStatus, which answers with the
\* status just read.
Answered(h, c) ==
    /\ request[h].op = "poll" /\ request[h].on = c
    /\ Resume(h)
    /\ request'[h] = Idle

\* The page is loaded, or loaded again, and shows a pending signature.
LoadPage(h, c) ==
    /\ Answered(h, c)
    /\ row[c].status = "signature_en_cours"
    /\ watching' = watching \cup {c}

\* An answer to the poll with another status arrives: the page goes on to the payment or
\* the validation, or reads the contract again and shows one it does not watch.
EndWatch(h, c) ==
    /\ c \in watching
    /\ Answered(h, c)
    /\ row[c].status # "signature_en_cours"
    /\ watching' = watching \ {c}

\* The user goes elsewhere or reloads the page, the click on "sign" finds the contract
\* signed, or an answer to the poll read in former times arrives only now.
LeavePage(c) ==
    /\ c \in watching
    /\ watching' = watching \ {c}
    /\ UNCHANGED vars

\* In a step of Next alone a handler's answer is lost, or goes to another page.
NextPage ==
    \/ Next /\ UNCHANGED watching
    \/ \E h \in Requests, c \in Contracts : LoadPage(h, c) \/ EndWatch(h, c)
    \/ \E c \in Contracts : LeavePage(c)

-----------------------------------------------------------------------------
(* Fairness.  A handler answers or fails; a page that watches polls; of the  *)
(* poller's awaited calls that are tried again and again each succeeds in    *)
(* the end, and its answer arrives.  Nobody has to open, reload or stay on a *)
(* page, and webhooks may be lost.                                           *)

Poll(c) ==
    /\ c \in watching
    /\ \E h \in Requests, r \in Replicas : PollSignature(h, c, r)

Polling(pc) ==
    \E h \in Requests : request[h].op = "poll" /\ request[h].pc = pc /\ Resume(h)

FairPage ==
    /\ InitPage /\ [][NextPage]_pageVars
    /\ \A h \in Requests : WF_vars(Resume(h) \/ Fail(h))
    /\ \A c \in Contracts :
          /\ SF_vars(Poll(c))
          /\ SF_pageVars(\E h \in Requests : EndWatch(h, c))
    /\ \A pc \in {"sync", "fetch", "lookup", "record", "select", "update"} :
          SF_vars(Polling(pc))

-----------------------------------------------------------------------------
(* Liveness *)

\* A page watches contract c, whose current request sr has come to such an end.
Watched(c, sr, ends) ==
    /\ c \in watching
    /\ row[c] = [status |-> "signature_en_cours", sr |-> sr]
    /\ yousign[sr].state \in ends

\* "Une fois terminee, revenez sur cet onglet - vous serez redirige automatiquement":
\* a page that watches a signed contract does not watch for ever, although no webhook
\* arrives and handlers fail or are restarted; and by then the contract is payable, or
\* (the user left, or an earlier answer came late) it still names the signed request.
SignedEventuallyPayable ==
    \A c \in Contracts, sr \in SignatureRequests :
        Watched(c, sr, {"done"}) ~>
            /\ c \notin watching
            /\ \/ row[c].status \in SignedStatus
               \/ row[c] = [status |-> "signature_en_cours", sr |-> sr]

\* A contract whose current request was declined, or expired (no webhook handler knows
\* that event), is made signable again while its page watches it.
ClosedEventuallySignable ==
    \A c \in Contracts, sr \in SignatureRequests :
        Watched(c, sr, {"declined", "expired"}) ~>
            row[c].status = "en_attente_de_signature_payeur" \/ c \notin watching

\* With any number of handlers at work, a request that has ended, however it ended,
\* does not leave the contract in "signature en cours" for as long as a page watches.
NoStuckSignature ==
    \A c \in Contracts, sr \in SignatureRequests :
        Watched(c, sr, {"done", "declined", "expired"}) ~>
            row[c].status # "signature_en_cours" \/ c \notin watching

=============================================================================
