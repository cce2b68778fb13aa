---------------------------- MODULE DossierPages ----------------------------
(***************************************************************************)
(* One browser tab on the pages of the subscription files (/espace,        *)
(* /dossier, /dossier/signature, /dossier/paiement, /dossier/validation):  *)
(* what each page loads, when it redirects, which buttons it offers, and   *)
(* the answers that come back after the user has gone elsewhere; against   *)
(* the contracts and documents of the back end, which move on their own.   *)
(*                                                                         *)
(* A handler of the back end is one step here; ContractSignature and       *)
(* Justificatifs cut them at their awaits.                                 *)
(***************************************************************************)
EXTENDS Integers, FiniteSets, ServiceNames

CONSTANTS
    Dossiers,       \* the user's contracts
    RequiredTypes,  \* RequiredTypes[c]: the document types the product of c requires
    MaxHops,        \* redirects counted, at most
    MaxPending      \* requests of earlier pages still unanswered, at most

ASSUME DossiersAssumption ==
    /\ IsFiniteSet(Dossiers) /\ \A c \in Dossiers : RequiredTypes[c] # {}
    /\ Null \notin Dossiers
    /\ MaxHops \in Nat /\ MaxPending \in Nat

Types == UNION {RequiredTypes[c] : c \in Dossiers}

VARIABLES
    status,     \* status[c]: column subscription_contracts.status
    docs,       \* docs[c][t]: the best upload of a required type t, "missing" without one
    tab,        \* the tab: its URL and the state of the mounted page
    answersDue, \* requests sent and not answered
    hops,       \* history: redirects since the user's last action
    refused     \* history: contracts with a document refused after the gate

pagesVars == <<status, docs, tab, answersDue, hops, refused>>
backend == <<status, docs, refused>>

-----------------------------------------------------------------------------
(* The contracts, as the pages see them. *)

\* "pre_qualifie" stands for "accepte" too: no page tells them apart.
DocStatus == {"missing", "en_cours_de_verification", "pre_qualifie", "a_revoir", "refuse"}

PENDING_SUBSCRIPTION_STATUSES ==
    {"en_attente_de_justificatif", "en_attente_de_validation_documentaire",
     "en_attente_de_signature_payeur", "signature_en_cours", "en_attente_paiement"}

Status == PENDING_SUBSCRIPTION_STATUSES \cup {"absent", "actif"}

SigningStatus == {"en_attente_de_signature_payeur", "signature_en_cours"}
PaidStatus == {"en_attente_de_validation_documentaire", "actif"}

Pending == {c \in Dossiers : status[c] \in PENDING_SUBSCRIPTION_STATUSES}

\* What a page that has loaded contract c knows of it.
View(c) == [of |-> c, status |-> status[c], docs |-> docs[c]]

isSlotReadyForSignature(d) == d = "pre_qualifie"

allRequiredDocumentsReady(v) == \A t \in RequiredTypes[v.of] : isSlotReadyForSignature(v.docs[t])

\* Mutant: a refused document can no longer be replaced.
CannotReplaceRefused(d) == d \in {"missing", "a_revoir", "en_cours_de_verification"}

slotCanSelect(d) == d \in {"missing", "a_revoir", "refuse", "en_cours_de_verification"}

hasPendingVerification(v) == \E t \in RequiredTypes[v.of] : v.docs[t] = "en_cours_de_verification"

dossierDetailPath(s) ==
    CASE s = "en_attente_paiement" -> "paiement"
      [] s \in PaidStatus          -> "validation"
      [] s \in SigningStatus       -> "signature"
      [] OTHER                     -> "dossier"

-----------------------------------------------------------------------------
(* The pages.  A page redirects to another when what it loads is not its   *)
(* business; otherwise it stays.                                           *)

\* "espace" stands for the pages that load no file: /espace, /foyer, /souscription/nouvelle.
Page == {"espace", "dossier", "signature", "paiement", "validation"}

\* MonDossierPage: only a file still short of documents is shown here.
DossierRedirect(v) ==
    CASE v.status = "en_attente_paiement" -> "paiement"
      [] v.status \in PaidStatus          -> "validation"
      [] v.status \in SigningStatus       -> "signature"
      [] OTHER                            -> "dossier"

\* DossierSignaturePage: the status is looked at once the documents are found ready;
\* the readiness the back end computes for the gate says the same of them.
SignatureRedirect(v) ==
    IF ~ allRequiredDocumentsReady(v) THEN "dossier"
    ELSE CASE v.status = "en_attente_paiement" -> "paiement"
           [] v.status \in PaidStatus          -> "validation"
           [] OTHER                            -> "signature"

PaiementRedirect(v) ==
    CASE v.status \in PaidStatus          -> "validation"
      [] v.status = "en_attente_paiement" -> "paiement"
      [] OTHER                            -> "dossier"

Redirect(page, v) ==
    CASE page = "dossier"   -> DossierRedirect(v)
      [] page = "signature" -> SignatureRedirect(v)
      [] page = "paiement"  -> PaiementRedirect(v)
      [] OTHER              -> page

(* The buttons a tab offers over what its page has loaded; "upload" is one per slot. *)

Button == {"continue", "sign", "pay", "validate"}

uploadOffered(tb, t) ==
    tb.page = "dossier" /\ t \in RequiredTypes[tb.shown.of] /\ slotCanSelect(tb.shown.docs[t])

Offered(tb) ==
    {b \in Button :
        \/ /\ b = "continue" /\ tb.page = "dossier"
           /\ allRequiredDocumentsReady(tb.shown) /\ ~ hasPendingVerification(tb.shown)
        \/ b = "sign" /\ tb.page = "signature" /\ tb.documentsReady
        \/ b = "pay" /\ tb.page = "paiement"
        \/ /\ b = "pay" /\ tb.page = "validation"
           /\ tb.shown.status \in {"actif", "en_attente_paiement"}
        \/ /\ b = "validate" /\ tb.page = "validation" /\ ~ tb.validationComplete
           /\ tb.shown.status = "en_attente_de_validation_documentaire"}

-----------------------------------------------------------------------------
(* The back end: what its handlers accept, and what moves by itself. *)

replaceable(d) == d \in {"missing", "a_revoir", "refuse", "en_cours_de_verification"}

documentsComplete(d, c) == \A t \in RequiredTypes[c] : isSlotReadyForSignature(d[t])

\* tryAdvanceContract, after a document of c became d.
Advance(c, d) ==
    IF status[c] = "en_attente_de_justificatif" /\ documentsComplete(d, c)
    THEN [status EXCEPT ![c] = "en_attente_de_signature_payeur"]
    ELSE status

\* Mutant: the payment of an active contract is refused.
AcceptsOncePaid(c, b) ==
    CASE b = "sign"     -> documentsComplete(docs[c], c)
      [] b = "pay"      -> status[c] \in {"en_attente_paiement", "en_attente_de_validation_documentaire"}
      [] b = "validate" -> status[c] \in PaidStatus
      [] OTHER          -> TRUE

Accepts(c, b) ==
    CASE b = "sign"     -> documentsComplete(docs[c], c)
      [] b = "pay"      -> status[c] \in PaidStatus \cup {"en_attente_paiement"}
      [] b = "validate" -> status[c] \in PaidStatus
      [] OTHER          -> TRUE

StatusAfter(c, b) ==
    CASE b = "sign" /\ status[c] \in SigningStatus \cup {"en_attente_de_justificatif"}
                      -> "signature_en_cours"
      [] b = "pay"      -> "en_attente_de_validation_documentaire"
      [] b = "validate" -> "actif"
      [] OTHER          -> status[c]

\* A verdict of YouSign, or an agent's "validate", then the gate.
DocumentDecided(c, t) ==
    \E d \in {"pre_qualifie", "a_revoir"} :
        /\ docs[c][t] # "missing"
        /\ d = "a_revoir" => docs[c][t] = "en_cours_de_verification"
        /\ docs' = [docs EXCEPT ![c][t] = d]
        /\ status' = Advance(c, docs'[c])
        /\ UNCHANGED <<tab, answersDue, hops, refused>>

\* An agent refuses a document, whatever the contract has become since.
RefuseDocument(c, t) ==
    /\ docs[c][t] # "missing"
    /\ docs' = [docs EXCEPT ![c][t] = "refuse"]
    /\ refused' = IF status[c] # "en_attente_de_justificatif"
                  THEN refused \cup {c} ELSE refused
    /\ UNCHANGED <<status, tab, answersDue, hops>>

\* The signer signs, or refuses or lets the request expire.
SignatureEnds(c) ==
    /\ status[c] = "signature_en_cours"
    /\ \E s \in {"en_attente_paiement", "en_attente_de_signature_payeur"} :
            status' = [status EXCEPT ![c] = s]
    /\ UNCHANGED <<docs, tab, answersDue, hops, refused>>

-----------------------------------------------------------------------------
(* The tab.                                                                *)
(* page, on: the URL, "on" Null when it names no contract                  *)
(* load:     the loading effect of that URL, "idle" when the page has none *)
(* shown:    what the mounted page has loaded, Null before                 *)
(* documentsReady, validationComplete: states of two pages                 *)
(* A call is one of the mounted page for an earlier URL: a loading effect  *)
(* that it has cancelled, or a poll, which MonDossierPage never cancels.   *)

Tab == [page : Page, on : Dossiers \cup {Null}, load : {"idle", "due", "done", "failed"},
        shown : {Null} \cup [of : Dossiers, status : Status,
                             docs : UNION {[RequiredTypes[c] -> DocStatus] : c \in Dossiers}],
        documentsReady : BOOLEAN, validationComplete : BOOLEAN]

PageCall == [kind : {"load", "poll"}, on : Dossiers]

\* What the URL of a page of file c has to load.
LoadOf(page, c) ==
    IF page = "dossier" \/ (c # Null /\ page \in {"signature", "paiement", "validation"})
    THEN "due" ELSE "idle"

\* A page mounted anew.
Mount(page, c) ==
    [page |-> page, on |-> c, load |-> LoadOf(page, c), shown |-> Null,
     documentsReady |-> FALSE, validationComplete |-> FALSE]

\* The router keeps the page mounted when only ?contractId= changes, and the page keeps all
\* it shows of the former file until the new one is loaded.
Mounted(page, c) ==
    IF page = tab.page THEN [tab EXCEPT !.on = c, !.load = LoadOf(page, c)] ELSE Mount(page, c)

\* The page with what it has loaded of a file.
Filled(tb, v) ==
    [tb EXCEPT !.load = "done", !.shown = v,
               !.documentsReady = (tb.page = "signature" /\ allRequiredDocumentsReady(v)),
               !.validationComplete = (@ \/ (tb.page = "validation" /\ v.status = "actif"))]

\* The effect of the URL left is cancelled, and its request still under way.
LeftBehind ==
    IF tab.load = "due" /\ tab.on # Null THEN {[kind |-> "load", on |-> tab.on]} ELSE {}

\* A page that is unmounted hears no answer.
Goes(page, c) ==
    /\ tab' = Mounted(page, c)
    /\ answersDue' = IF page = tab.page THEN answersDue \cup LeftBehind ELSE {}
    /\ Cardinality(answersDue') <= MaxPending

\* A redirect of the page itself, once its own effect is answered.
Redirected(page, c) ==
    /\ tab' = Mounted(page, c)
    /\ answersDue' = IF page = tab.page THEN answersDue ELSE {}

Openable(page, c) ==
    IF c = Null THEN page \in {"espace", "dossier"}
                ELSE page # "espace" /\ status[c] # "absent"

\* A link of the application, or the browser's history: any page of any file.
Follow(page, c) ==
    /\ <<page, c>> # <<tab.page, tab.on>>
    /\ Openable(page, c)
    /\ Goes(page, c)
    /\ hops' = 0
    /\ UNCHANGED <<backend>>

\* An address typed, a bookmark, or the page reloaded: the document starts anew.
OpenAnew(page, c) ==
    /\ Openable(page, c)
    /\ tab' = Mount(page, c) /\ answersDue' = {}
    /\ hops' = 0
    /\ UNCHANGED <<backend>>

\* The subscription page creates the contract and opens its file.
Subscribe(c) ==
    /\ status[c] = "absent" /\ tab.page = "espace"
    /\ status' = [status EXCEPT ![c] = "en_attente_de_justificatif"]
    /\ Goes("dossier", c)
    /\ hops' = 0
    /\ UNCHANGED <<docs, refused>>

Counted == hops' = IF hops < MaxHops THEN hops + 1 ELSE hops

Arrives(v, to) ==
    IF to = tab.page THEN tab' = Filled(tab, v) /\ UNCHANGED <<hops, answersDue>>
                     ELSE Redirected(to, v.of) /\ Counted

\* The loading effect of the mounted page is answered.
PageLoaded ==
    /\ tab.load = "due" /\ tab.on # Null
    /\ Arrives(View(tab.on), Redirect(tab.page, View(tab.on)))
    /\ UNCHANGED <<backend>>

\* MonDossierPage without a contract: one pending file is opened, several are listed.
Listed ==
    /\ tab.page = "dossier" /\ tab.load = "due" /\ tab.on = Null
    /\ IF Cardinality(Pending) = 1
       THEN LET c == CHOOSE x \in Pending : TRUE IN
            Redirected(dossierDetailPath(status[c]), c) /\ Counted
       ELSE tab' = [tab EXCEPT !.load = "done"] /\ UNCHANGED <<hops, answersDue>>
    /\ UNCHANGED <<backend>>

\* A request of the loading effect fails: the pages of the signature and of the payment
\* leave, and a redirect that follows is a new count; the others stay as they are.
LoadFails ==
    /\ tab.load = "due"
    /\ IF tab.page \in {"signature", "paiement"} THEN Redirected("dossier", Null)
       ELSE tab' = [tab EXCEPT !.load = "failed"] /\ UNCHANGED answersDue
    /\ hops' = 0
    /\ UNCHANGED <<backend>>

\* Mutant: the effects' answers are used although the URL has changed.
NeverDropped(k) == FALSE
Dropped(k) == k.kind = "load"

\* An answer for an earlier URL of the mounted page.
LateAnswer(k) ==
    /\ k \in answersDue
    /\ answersDue' = answersDue \ {k}
    /\ IF ~ Dropped(k)
       THEN tab' = [tab EXCEPT !.shown = View(k.on)]
       ELSE UNCHANGED tab
    /\ UNCHANGED <<backend, hops>>

\* Every three seconds while the page shows a document being verified.
PollDocuments ==
    LET k == [kind |-> "poll", on |-> tab.on] IN
    /\ tab.page = "dossier" /\ tab.on # Null
    /\ tab.shown # Null /\ hasPendingVerification(tab.shown)
    /\ answersDue' = answersDue \cup {k}
    /\ Cardinality(answersDue') <= MaxPending
    /\ UNCHANGED <<backend, tab, hops>>

\* Every eight seconds, or when the window gets the focus, while the contract shown, be it a
\* former one, has a signature under way: the status asked is that of the URL's.
PollSignature ==
    LET c == tab.on IN
    /\ tab.page = "signature" /\ c # Null
    /\ tab.shown # Null /\ tab.shown.status = "signature_en_cours"
    /\ CASE status[c] \in {"en_attente_paiement"} \cup PaidStatus ->
                Goes("paiement", c) /\ Counted
         [] status[c] = "signature_en_cours" -> UNCHANGED <<tab, hops, answersDue>>
         [] OTHER -> tab' = [tab EXCEPT !.shown = View(c)] /\ UNCHANGED <<hops, answersDue>>
    /\ UNCHANGED <<backend>>

Settled == tab.on # Null /\ tab.shown # Null

\* handleUpload: the contract is the URL's, the slot is of what the page shows.  The back
\* end takes a document the contract does not require, and nothing reads it.
handleUpload(t) ==
    LET c == tab.on IN
    /\ Settled /\ uploadOffered(tab, t)
    /\ IF t \in RequiredTypes[c] /\ ~ replaceable(docs[c][t])
       THEN UNCHANGED <<docs, status, tab>>
       ELSE /\ IF t \in RequiredTypes[c]
               THEN \E d \in {"en_cours_de_verification", "pre_qualifie", "a_revoir"} :
                        docs' = [docs EXCEPT ![c][t] = d]
               ELSE UNCHANGED docs
            /\ status' = Advance(c, docs'[c])
            /\ tab' = [tab EXCEPT !.shown = [of |-> c, status |-> status'[c], docs |-> docs'[c]]]
    /\ hops' = 0
    /\ UNCHANGED <<answersDue, refused>>

Continue ==
    /\ Settled /\ "continue" \in Offered(tab)
    /\ Goes("signature", tab.on)
    /\ hops' = 0
    /\ UNCHANGED <<backend>>

\* The page of the validation marks the contract it shows.
Validated == [tab EXCEPT !.shown.status = "actif", !.validationComplete = TRUE]

\* A refused request leaves an error on the page; what was signed goes on to the payment.
Press(b) ==
    LET c == tab.on IN
    /\ b \in {"sign", "pay", "validate"}
    /\ Settled /\ b \in Offered(tab)
    /\ hops' = 0
    /\ IF Accepts(c, b)
       THEN /\ status' = [status EXCEPT ![c] = StatusAfter(c, b)]
            /\ \/ b = "sign" /\ StatusAfter(c, b) = "signature_en_cours" /\ UNCHANGED <<tab, answersDue>>
               \/ b = "sign" /\ StatusAfter(c, b) # "signature_en_cours" /\ Goes("paiement", c)
               \/ b = "pay" /\ Goes("espace", Null)
               \/ b = "pay" /\ tab.page = "paiement" /\ Goes("validation", c)
               \/ /\ b = "pay" /\ tab.page = "validation"
                  /\ tab' = Mount("validation", c) /\ answersDue' = {}
               \/ b = "validate" /\ Goes("espace", Null)
               \/ b = "validate" /\ tab' = Validated /\ UNCHANGED answersDue
       ELSE UNCHANGED <<status, tab, answersDue>>
    /\ UNCHANGED <<docs, refused>>

-----------------------------------------------------------------------------
PagesTypeOK ==
    /\ status \in [Dossiers -> Status]
    /\ DOMAIN docs = Dossiers /\ \A c \in Dossiers : docs[c] \in [RequiredTypes[c] -> DocStatus]
    /\ tab \in Tab
    /\ answersDue \subseteq PageCall
    /\ hops \in 0 .. MaxHops
    /\ refused \subseteq Dossiers

PagesInit ==
    /\ status = [c \in Dossiers |-> "absent"]
    /\ docs = [c \in Dossiers |-> [t \in RequiredTypes[c] |-> "missing"]]
    /\ tab = [page |-> "espace", on |-> Null, load |-> "idle", shown |-> Null,
              documentsReady |-> FALSE, validationComplete |-> FALSE]
    /\ answersDue = {} /\ hops = 0 /\ refused = {}

Backend ==
    \/ \E c \in Dossiers : \E t \in RequiredTypes[c] : DocumentDecided(c, t) \/ RefuseDocument(c, t)
    \/ \E c \in Dossiers : SignatureEnds(c)

User ==
    \/ \E page \in Page, c \in Dossiers \cup {Null} : Follow(page, c) \/ OpenAnew(page, c)
    \/ \E c \in Dossiers : Subscribe(c)
    \/ \E t \in Types : handleUpload(t)
    \/ Continue
    \/ \E b \in Button : Press(b)

Answers ==
    \/ PageLoaded \/ LoadFails \/ Listed \/ PollDocuments \/ PollSignature
    \/ \E k \in answersDue : LateAnswer(k)

PagesNext == Backend \/ User \/ Answers

PagesSpec == PagesInit /\ [][PagesNext]_pagesVars

-----------------------------------------------------------------------------
(* Properties *)

\* A page sends the user on three times at most: the pages agree on which of them a
\* file belongs to.  Not so after a late refusal: the
\* page of the documents and the page of the signature then send the user to each
\* other for ever.
RedirectsAgree == tab.on \notin refused => hops <= 3

\* The link on a file's card leads to a page that keeps the user and lets the file
\* move on: a button, a slot, or a signature or a verification under way.
NoDeadEnd ==
    \A c \in Pending \ refused :
        LET page == dossierDetailPath(status[c])
            tb == Filled(Mount(page, c), View(c))
        IN /\ Redirect(page, View(c)) = page
           /\ \/ Offered(tb) # {}
              \/ \E t \in Types : uploadOffered(tb, t)

\* The tab shows its contract, and the readiness of its documents, as they are.
UpToDate ==
    /\ Settled /\ tab.shown = View(tab.on)
    /\ tab.documentsReady => allRequiredDocumentsReady(tab.shown)

\* A page that shows a contract as it is offers nothing the back end will refuse.
OfferedIsAccepted ==
    UpToDate =>
        /\ \A b \in Offered(tab) : Accepts(tab.on, b)
        /\ \A t \in RequiredTypes[tab.on] : uploadOffered(tab, t) => replaceable(docs[tab.on][t])

\* Once its loading effect is answered, a page of the signature, the payment or the
\* validation shows the file of its URL, the one its buttons act on: neither the file it
\* showed before under the same page, nor the late answer of an effect that the user left.
\* (Before that, after a failed load of the validation, and on the page of the documents,
\* it may show another: see DossierPages in the README.)
PageShowsItsFile ==
    tab.page # "dossier" /\ tab.load = "done" /\ tab.shown # Null => tab.shown.of = tab.on

\* The pages lead the user on: no circle, and no file that none of them takes.
PagesLeadOn == RedirectsAgree /\ NoDeadEnd
=============================================================================
