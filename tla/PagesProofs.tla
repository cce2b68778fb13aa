----------------------------- MODULE PagesProofs -----------------------------
(***************************************************************************)
(* Proofs about the pages of the front end, of the files (DossierPages), of *)
(* the advisor (SubscriptionAdvisor) and of the household (Household), and  *)
(* about the look-ups of the back end (ExternalApis), for any number of     *)
(* files, document types, persons, accounts and departments.                *)
(***************************************************************************)
EXTENDS DossierPages, SubscriptionAdvisor, Household, ExternalApis, FiniteSetTheorems,
        SequenceTheorems, TLAPS

-----------------------------------------------------------------------------
(* The look-ups. *)

Placed(x) == x.within = (x.department \in IleDeFrance)

\* An address and a commune lie in the territory when their department does, whoever
\* answered; a right asked for under an unknown scenario was given the verdict of that.
Coherent ==
    /\ Placed(address) /\ Placed(commune)
    /\ right.scenario = "unheard_of" =>
          right.verdict = Check(right.type, "unheard_of", right.person)

LEMMA AnswersPlaced ==
    /\ Placed(Nowhere)
    /\ \A d : Placed(LiveAddress(d)) /\ Placed(LiveCommune(d))
    /\ \A d \in MockDepartments : Placed(MockAddress(d)) /\ Placed(MockCommune(d))
<1>1. Placed(Nowhere)
  <2>1. Absent \notin IleDeFrance
    BY DEF Absent, IleDeFrance
  <2>2. (Absent \in IleDeFrance) = FALSE
    BY <2>1
  <2> QED BY <2>2 DEF Placed, Nowhere
<1>2. ASSUME NEW d PROVE Placed(LiveAddress(d)) /\ Placed(LiveCommune(d))
  BY DEF Placed, LiveAddress, LiveCommune
<1>3. ASSUME NEW d \in MockDepartments PROVE Placed(MockAddress(d)) /\ Placed(MockCommune(d))
  BY DEF Placed, MockAddress, MockCommune, MockDepartments, IleDeFrance
<1> QED BY <1>1, <1>2, <1>3

LEMMA CoherentStart == ApisInit => Coherent
<1> SUFFICES ASSUME ApisInit PROVE Coherent
  OBVIOUS
<1>1. address = Nowhere /\ commune = Nowhere /\ right.scenario = Absent
  BY DEF ApisInit, NoRight
<1> QED BY <1>1, AnswersPlaced DEF Coherent, Absent

LEMMA CoherentStep == Coherent /\ [ApisNext]_apisVars => Coherent'
<1> SUFFICES ASSUME Coherent, [ApisNext]_apisVars PROVE Coherent'
  OBVIOUS
<1>1. CASE UNCHANGED apisVars
  BY <1>1 DEF apisVars, Coherent, Placed
<1>2. ASSUME NEW type, NEW scenario, NEW in, CheckEligibility(type, scenario, in) PROVE Coherent'
  BY <1>2 DEF CheckEligibility, Coherent, Placed
<1>3. ASSUME NEW type, CheckInternalMobility(type) PROVE Coherent'
  BY <1>3 DEF CheckInternalMobility, Coherent, Placed, Absent
<1>4. ASSUME NEW d, SearchAddresses(d) PROVE Coherent'
  <2>1. PICK x : address' = x /\ Placed(x)
    BY <1>4, AnswersPlaced DEF SearchAddresses
  <2> QED BY <1>4, <2>1 DEF SearchAddresses, Coherent, Placed
<1>5. ASSUME NEW d, FindCommunes(d) PROVE Coherent'
  <2>1. PICK x : commune' = x /\ Placed(x)
    BY <1>5, AnswersPlaced DEF FindCommunes
  <2> QED BY <1>5, <2>1 DEF FindCommunes, Coherent, Placed
<1> QED BY <1>1, <1>2, <1>3, <1>4, <1>5 DEF ApisNext

\* An unknown scenario is refused when no entry of the mock is about the person; an entry
\* about the person is told whatever the scenario.
LEMMA EntryWins ==
    ASSUME NEW type, NEW in
    PROVE  /\ ParamMatch(type, in) = {} =>
                Check(type, "unheard_of", in).action # "auto_validate_right"
           /\ ParamMatch(type, in) # {} =>
                \A scenario : Check(type, scenario, in) = Check(type, "unheard_of", in)
<1>1. ASSUME ParamMatch(type, in) = {}
      PROVE  Check(type, "unheard_of", in).action # "auto_validate_right"
  BY <1>1 DEF Check, Scenarios, Absent, Refused, Verdict
<1>2. ASSUME ParamMatch(type, in) # {}, NEW scenario
      PROVE  Check(type, scenario, in) = Check(type, "unheard_of", in)
  BY <1>2 DEF Check
<1> QED BY <1>1, <1>2

LEMMA CoherentSuffices == Coherent => AnswersCoherent
<1> SUFFICES ASSUME Coherent PROVE AnswersCoherent
  OBVIOUS
<1>1. TerritoryAgrees
  BY DEF Coherent, Placed, TerritoryAgrees
<1>2. EntitledWhateverScenario
  <2>1. SUFFICES ASSUME right.scenario = "unheard_of", Automatic(right),
                        NEW scenario \in Scenarios \cup {Absent}
                 PROVE  Automatic([verdict |-> Check(right.type, scenario, right.person)])
    BY DEF EntitledWhateverScenario
  <2>2. right.verdict = Check(right.type, "unheard_of", right.person)
    BY <2>1 DEF Coherent
  <2>3. ParamMatch(right.type, right.person) # {}
    BY <2>1, <2>2, EntryWins DEF Automatic
  <2>4. Check(right.type, scenario, right.person) = right.verdict
    BY <2>2, <2>3, EntryWins
  <2> QED BY <2>1, <2>4 DEF Automatic
<1> QED BY <1>1, <1>2 DEF AnswersCoherent

\* Mock and live answers agree on the territory, and an unknown scenario validates nobody
\* (external-apis: geo-api, address-api, mock-api-particulier).
THEOREM AnswersAgree == ApisSpec => []AnswersCoherent
BY CoherentStart, CoherentStep, CoherentSuffices, PTL DEF ApisSpec
-----------------------------------------------------------------------------
(* The pages of the files. *)

\* The documents of a file past the first gate are those it asks for, but for a late refusal.
Past == {"en_attente_paiement"} \cup SigningStatus \cup PaidStatus

DocumentsStay ==
    \A c \in Dossiers \ refused : status[c] \in Past => documentsComplete(docs[c], c)

\* The redirects a tab may still see before its user acts: on a page, whether it is loading,
\* for a file with a status.
Left(pg, ld, s) ==
    CASE pg = "paiement" /\ s \in {"absent", "en_attente_de_justificatif",
                                     "en_attente_de_signature_payeur"} -> 2
      [] pg = "paiement" /\ s = "signature_en_cours" -> 3
      [] pg = "paiement" /\ s \in PaidStatus -> 1
      [] pg = "dossier" /\ ld = "due" /\ s = "signature_en_cours" -> 2
      [] pg = "dossier" /\ ld = "due" /\ s # "signature_en_cours" -> 1
      [] pg = "signature" /\ s \in {"absent", "en_attente_de_justificatif"} \cup PaidStatus -> 2
      [] pg = "signature" /\ s \in {"signature_en_cours", "en_attente_paiement"} -> 1
      [] OTHER -> 0

\* The redirects seen and those left are three at most.
RedirectsLeft ==
    /\ tab.on = Null => hops = 0
    /\ tab.on # Null /\ tab.on \notin refused =>
          hops + Left(tab.page, tab.load, status[tab.on]) <= 3

\* The page of the payment shows nothing but files to be paid, be it a former one.
PaymentAsked ==
    tab.page = "paiement" /\ tab.shown # Null => tab.shown.status = "en_attente_paiement"

\* Only the page of the documents has polls that are not answered.
PollsOn == \A k \in answersDue : k.kind = "poll" => tab.page = "dossier"

\* The inductive invariant of the pages.
LedOn ==
    /\ PagesTypeOK /\ DocumentsStay /\ RedirectsLeft /\ PaymentAsked /\ PageShowsItsFile /\ PollsOn

Views == [of : Dossiers, status : Status,
          docs : UNION {[RequiredTypes[c] -> DocStatus] : c \in Dossiers}]

\* Where the tab is, whatever it shows.
Places == [page : Page, on : Dossiers \cup {Null}, load : {"idle", "due", "done", "failed"},
           shown : {Null} \cup Views, documentsReady : BOOLEAN, validationComplete : BOOLEAN]

LEMMA TabPlaces == Tab = Places
BY DEF Tab, Places, Views

LEMMA ViewTyped ==
    ASSUME PagesTypeOK, NEW c \in Dossiers
    PROVE  View(c) \in Views /\ View(c).of = c /\ View(c).status = status[c]
           /\ View(c).docs = docs[c] /\ status[c] \in Status
<1>1. docs[c] \in UNION {[RequiredTypes[x] -> DocStatus] : x \in Dossiers}
  BY DEF PagesTypeOK
<1>2. status[c] \in Status
  BY DEF PagesTypeOK
<1> QED BY <1>1, <1>2 DEF View, Views

LEMMA LeftBound ==
    ASSUME NEW pg, NEW ld, NEW s
    PROVE  Left(pg, ld, s) \in 0 .. 3
BY DEF Left

\* What the back end does by itself never leaves a tab more redirects.
LEMMA LeftFalls ==
    ASSUME NEW pg, NEW ld, NEW s, NEW r,
           \/ r = s
           \/ s = "en_attente_de_justificatif" /\ r = "en_attente_de_signature_payeur"
           \/ s = "signature_en_cours" /\ r \in {"en_attente_paiement", "en_attente_de_signature_payeur"}
    PROVE  Left(pg, ld, r) <= Left(pg, ld, s)
BY DEF Left, PaidStatus

\* On a page it comes to, a tab has loaded nothing of the file yet; what it may still show
\* there is what the same page showed.
LEMMA MountedSound ==
    ASSUME PagesTypeOK, PaymentAsked, NEW page_ \in Page, NEW c \in Dossiers \cup {Null},
           NEW tb, tb = Mounted(page_, c) \/ tb = Mount(page_, c)
    PROVE  /\ tb \in Tab
           /\ tb.page = page_ /\ tb.on = c /\ tb.load = LoadOf(page_, c) /\ tb.load # "done"
           /\ page_ = "paiement" /\ tb.shown # Null => tb.shown.status = "en_attente_paiement"
<1>1. tab \in Places
  BY TabPlaces DEF PagesTypeOK
<1>2. PICK ld \in {"idle", "due"} : ld = LoadOf(page_, c)
  BY DEF LoadOf
<1>3. CASE tb = Mount(page_, c)
  <2>1. tb = [page |-> page_, on |-> c, load |-> ld, shown |-> Null,
              documentsReady |-> FALSE, validationComplete |-> FALSE]
    BY <1>2, <1>3 DEF Mount
  <2> QED BY <1>2, <2>1, TabPlaces DEF Places
<1>4. CASE page_ = tab.page /\ tb = Mounted(page_, c)
  <2>1. tb = [tab EXCEPT !.on = c, !.load = ld]
    BY <1>2, <1>4 DEF Mounted
  <2>2. tb \in Places /\ tb.page = page_ /\ tb.on = c /\ tb.load = ld /\ tb.shown = tab.shown
    BY <1>1, <1>4, <2>1 DEF Places
  <2> QED BY <1>2, <1>4, <2>2, TabPlaces DEF PaymentAsked
<1>5. CASE page_ # tab.page /\ tb = Mounted(page_, c)
  BY <1>3, <1>5 DEF Mounted
<1> QED BY <1>3, <1>4, <1>5

\* The calls not answered are the mounted page's.
LEMMA CallsKept ==
    ASSUME LedOn, NEW page_, tab'.page = page_, answersDue' \subseteq answersDue \cup LeftBehind,
           page_ # tab.page => answersDue' = {}
    PROVE  answersDue' \subseteq PageCall /\ PollsOn'
<1>1. tab \in Places
  BY TabPlaces DEF LedOn, PagesTypeOK
<1>2. \A k \in LeftBehind : k \in PageCall /\ k.kind = "load"
  BY <1>1 DEF LeftBehind, PageCall, Places
<1> QED BY <1>2 DEF LedOn, PagesTypeOK, PollsOn

\* A page filled with what it has loaded.
LEMMA FilledSound ==
    ASSUME NEW tb \in Tab, NEW v \in Views
    PROVE  /\ Filled(tb, v) \in Tab
           /\ Filled(tb, v).page = tb.page /\ Filled(tb, v).on = tb.on
           /\ Filled(tb, v).load = "done" /\ Filled(tb, v).shown = v
           /\ tb.page = "signature" /\ allRequiredDocumentsReady(v) => Filled(tb, v).documentsReady
           /\ tb.page # "validation" \/ v.status # "actif" =>
                  Filled(tb, v).validationComplete = tb.validationComplete
<1>1. tb \in Places
  BY TabPlaces
<1>2. PICK r \in BOOLEAN : r = (tb.page = "signature" /\ allRequiredDocumentsReady(v))
  BY DEF allRequiredDocumentsReady
<1>3. tb.validationComplete \in BOOLEAN
  BY <1>1 DEF Places
<1>4. PICK d \in BOOLEAN : d = (tb.validationComplete \/ (tb.page = "validation" /\ v.status = "actif"))
  BY <1>3
<1>5. Filled(tb, v) = [tb EXCEPT !.load = "done", !.shown = v, !.documentsReady = r,
                                 !.validationComplete = d]
  BY <1>2, <1>4 DEF Filled
<1>6. /\ Filled(tb, v) \in Places
      /\ Filled(tb, v).page = tb.page /\ Filled(tb, v).on = tb.on
      /\ Filled(tb, v).load = "done" /\ Filled(tb, v).shown = v
      /\ Filled(tb, v).documentsReady = r /\ Filled(tb, v).validationComplete = d
  BY <1>1, <1>5 DEF Places
<1>7. tb.page = "signature" /\ allRequiredDocumentsReady(v) => r = TRUE
  BY <1>2
<1>8. tb.page # "validation" \/ v.status # "actif" => d = tb.validationComplete
  BY <1>3, <1>4
<1> QED BY <1>6, <1>7, <1>8, TabPlaces

\* A redirect is one of those left; a page that keeps the user leaves no more of them, and
\* the page of the payment keeps none but a file to be paid.
LEMMA RedirectOne ==
    ASSUME PagesTypeOK, DocumentsStay, NEW c \in Dossiers, NEW pg \in Page,
           NEW to, to = Redirect(pg, View(c))
    PROVE  /\ to \in Page
           /\ to # pg /\ c \notin refused =>
                 Left(to, LoadOf(to, c), status[c]) + 1 <= Left(pg, "due", status[c])
           /\ to = pg => Left(pg, "done", status[c]) <= Left(pg, "due", status[c])
           /\ to = pg /\ pg = "paiement" => status[c] = "en_attente_paiement"
<1> DEFINE v == View(c)
<1>1. v.of = c /\ v.status = status[c] /\ v.docs = docs[c] /\ status[c] \in Status
  BY ViewTyped
<1>2. PICK s \in Status : s = status[c]
  BY <1>1
<1>3. c \notin refused /\ s \in Past => allRequiredDocumentsReady(v)
  BY <1>1, <1>2 DEF DocumentsStay, documentsComplete, allRequiredDocumentsReady
<1>4. Left(pg, "done", s) <= Left(pg, "due", s)
  BY DEF Left
<1>5. CASE pg = "dossier"
  <2>1. to = DossierRedirect(v)
    BY <1>5 DEF Redirect
  <2>2. \/ s = "en_attente_paiement" /\ to = "paiement"
        \/ s \in PaidStatus /\ to = "validation"
        \/ s \in SigningStatus /\ to = "signature"
        \/ to = "dossier"
    BY <1>1, <1>2, <2>1 DEF DossierRedirect
  <2>3. to # pg => Left(to, LoadOf(to, c), s) + 1 <= Left(pg, "due", s)
    BY <1>5, <2>2 DEF Left, PaidStatus, SigningStatus
  <2> QED BY <1>2, <1>4, <1>5, <2>2, <2>3 DEF Page
<1>6. CASE pg = "signature"
  <2>1. to = SignatureRedirect(v)
    BY <1>6 DEF Redirect
  <2>2. \/ ~ allRequiredDocumentsReady(v) /\ to = "dossier"
        \/ s = "en_attente_paiement" /\ to = "paiement"
        \/ s \in PaidStatus /\ to = "validation"
        \/ to = "signature"
    BY <1>1, <1>2, <2>1 DEF SignatureRedirect
  <2>3. ~ allRequiredDocumentsReady(v) /\ c \notin refused =>
            s \in {"absent", "en_attente_de_justificatif"}
    BY <1>3 DEF Past, SigningStatus, PaidStatus, Status, PENDING_SUBSCRIPTION_STATUSES
  <2>4. to # pg /\ c \notin refused => Left(to, LoadOf(to, c), s) + 1 <= Left(pg, "due", s)
    BY <1>6, <2>2, <2>3 DEF Left, PaidStatus
  <2> QED BY <1>2, <1>4, <1>6, <2>2, <2>4 DEF Page
<1>7. CASE pg = "paiement"
  <2>1. to = PaiementRedirect(v)
    BY <1>7 DEF Redirect
  <2>2. \/ s \in PaidStatus /\ to = "validation"
        \/ s = "en_attente_paiement" /\ to = "paiement"
        \/ s \notin PaidStatus /\ s # "en_attente_paiement" /\ to = "dossier"
    BY <1>1, <1>2, <2>1 DEF PaiementRedirect
  <2>3. to # pg => Left(to, LoadOf(to, c), s) + 1 <= Left(pg, "due", s)
    BY <1>7, <2>2 DEF Left, PaidStatus, Status, PENDING_SUBSCRIPTION_STATUSES
  <2> QED BY <1>2, <1>4, <1>7, <2>2, <2>3 DEF Page
<1>8. CASE pg \notin {"dossier", "signature", "paiement"}
  <2>1. to = pg
    BY <1>8 DEF Redirect
  <2> QED BY <1>2, <1>4, <1>8, <2>1
<1> QED BY <1>5, <1>6, <1>7, <1>8

-----------------------------------------------------------------------------
(* The pages, action by action. *)

LEMMA LedOnStart == PagesInit => LedOn
<1> SUFFICES ASSUME PagesInit PROVE LedOn
  OBVIOUS
<1>1. /\ tab = [page |-> "espace", on |-> Null, load |-> "idle", shown |-> Null,
                documentsReady |-> FALSE, validationComplete |-> FALSE]
      /\ answersDue = {} /\ hops = 0 /\ refused = {}
      /\ status = [c \in Dossiers |-> "absent"]
      /\ docs = [c \in Dossiers |-> [t \in RequiredTypes[c] |-> "missing"]]
  BY DEF PagesInit
<1>2. PagesTypeOK
  <2>1. tab \in Tab
    BY <1>1, TabPlaces DEF Places, Page
  <2>2. hops \in 0 .. MaxHops
    BY <1>1, DossiersAssumption
  <2>3. status \in [Dossiers -> Status]
    BY <1>1 DEF Status
  <2>4. DOMAIN docs = Dossiers /\ \A c \in Dossiers : docs[c] \in [RequiredTypes[c] -> DocStatus]
    BY <1>1 DEF DocStatus
  <2> QED BY <1>1, <2>1, <2>2, <2>3, <2>4 DEF PagesTypeOK
<1>3. DocumentsStay
  BY <1>1 DEF DocumentsStay, Past, SigningStatus, PaidStatus
<1>4. RedirectsLeft /\ PaymentAsked /\ PageShowsItsFile /\ PollsOn
  BY <1>1 DEF RedirectsLeft, PaymentAsked, PageShowsItsFile, PollsOn
<1> QED BY <1>2, <1>3, <1>4 DEF LedOn

\* The back end moves while the tab stays as it is.
LEMMA BackendMoves ==
    ASSUME LedOn, UNCHANGED <<tab, answersDue, hops>>,
           refused \subseteq refused', refused' \subseteq Dossiers,
           status' \in [Dossiers -> Status],
           DOMAIN docs' = Dossiers, \A c \in Dossiers : docs'[c] \in [RequiredTypes[c] -> DocStatus],
           DocumentsStay',
           \A c \in Dossiers :
              \/ status'[c] = status[c]
              \/ /\ status[c] = "en_attente_de_justificatif"
                 /\ status'[c] = "en_attente_de_signature_payeur"
              \/ /\ status[c] = "signature_en_cours"
                 /\ status'[c] \in {"en_attente_paiement", "en_attente_de_signature_payeur"}
    PROVE  LedOn'
<1>1. PagesTypeOK'
  BY DEF LedOn, PagesTypeOK
<1>2. RedirectsLeft'
  <2>1. SUFFICES ASSUME NEW c \in Dossiers, tab.on = c, c # Null, c \notin refused
                 PROVE  hops + Left(tab.page, tab.load, status'[c]) <= 3
    <3>1. tab.on \in Dossiers \cup {Null}
      BY TabPlaces DEF LedOn, PagesTypeOK, Places
    <3> QED BY <2>1, <3>1 DEF LedOn, RedirectsLeft
  <2>2. PICK s, r, n, m : /\ s = status[c] /\ r = status'[c]
                          /\ n = Left(tab.page, tab.load, s) /\ m = Left(tab.page, tab.load, r)
    OBVIOUS
  <2>3. m <= n
    BY <2>2, LeftFalls
  <2>4. n \in 0 .. 3 /\ m \in 0 .. 3 /\ hops \in Nat
    BY <2>2, LeftBound DEF LedOn, PagesTypeOK
  <2>5. hops + n <= 3
    BY <2>1, <2>2 DEF LedOn, RedirectsLeft
  <2> QED BY <2>2, <2>3, <2>4, <2>5
<1>3. PaymentAsked' /\ PageShowsItsFile' /\ PollsOn'
  BY DEF LedOn, PaymentAsked, PageShowsItsFile, PollsOn
<1> QED BY <1>1, <1>2, <1>3 DEF LedOn

\* The user acts: the redirects are counted anew.
LEMMA UserActs ==
    ASSUME LedOn, hops' = 0, UNCHANGED refused,
           status' \in [Dossiers -> Status],
           DOMAIN docs' = Dossiers, \A c \in Dossiers : docs'[c] \in [RequiredTypes[c] -> DocStatus],
           DocumentsStay', tab' \in Tab, answersDue' \subseteq PageCall, PollsOn',
           PaymentAsked', PageShowsItsFile'
    PROVE  LedOn'
<1>1. PagesTypeOK'
  BY DossiersAssumption DEF LedOn, PagesTypeOK
<1>2. RedirectsLeft'
  <2>1. PICK n : n = Left(tab'.page, tab'.load, status'[tab'.on])
    OBVIOUS
  <2>2. n \in 0 .. 3
    BY <2>1, LeftBound
  <2>3. hops' + n <= 3
    BY <2>2
  <2> QED BY <2>1, <2>3 DEF RedirectsLeft, Left
<1> QED BY <1>1, <1>2 DEF LedOn

\* A link, a button or a failed load leads to another page.
LEMMA UserGoes ==
    ASSUME LedOn, hops' = 0, UNCHANGED <<refused, docs>>, status' \in [Dossiers -> Status],
           DocumentsStay', NEW page_ \in Page, NEW c \in Dossiers \cup {Null},
           tab' = Mounted(page_, c) \/ tab' = Mount(page_, c),
           answersDue' \subseteq answersDue \cup LeftBehind,
           page_ # tab.page => answersDue' = {}
    PROVE  LedOn'
<1>1. /\ tab' \in Tab /\ tab'.page = page_ /\ tab'.load # "done"
      /\ page_ = "paiement" /\ tab'.shown # Null => tab'.shown.status = "en_attente_paiement"
  BY MountedSound DEF LedOn
<1>2. answersDue' \subseteq PageCall /\ PollsOn'
  BY <1>1, CallsKept
<1>3. PaymentAsked' /\ PageShowsItsFile'
  BY <1>1 DEF PaymentAsked, PageShowsItsFile
<1>4. DOMAIN docs' = Dossiers /\ \A x \in Dossiers : docs'[x] \in [RequiredTypes[x] -> DocStatus]
  BY DEF LedOn, PagesTypeOK
<1> QED BY <1>1, <1>2, <1>3, <1>4, UserActs

\* The user leaves for a page, the back end staying as it is.
LEMMA UserLeaves ==
    ASSUME LedOn, hops' = 0, UNCHANGED <<status, refused, docs>>,
           NEW page_ \in Page, NEW c \in Dossiers \cup {Null},
           tab' = Mounted(page_, c) \/ tab' = Mount(page_, c),
           answersDue' \subseteq answersDue \cup LeftBehind,
           page_ # tab.page => answersDue' = {}
    PROVE  LedOn'
<1>1. status' \in [Dossiers -> Status] /\ DocumentsStay'
  BY DEF LedOn, PagesTypeOK, DocumentsStay, documentsComplete
<1> QED BY <1>1, UserGoes

LEMMA FollowStep ==
    ASSUME LedOn, NEW page_ \in Page, NEW c \in Dossiers \cup {Null},
           Follow(page_, c) \/ OpenAnew(page_, c)
    PROVE  LedOn'
<1>1. CASE Follow(page_, c)
  <2>1. /\ hops' = 0 /\ UNCHANGED <<refused, docs, status>> /\ tab' = Mounted(page_, c)
        /\ answersDue' \subseteq answersDue \cup LeftBehind
        /\ page_ # tab.page => answersDue' = {}
    BY <1>1 DEF Follow, Goes, backend
  <2> QED BY <2>1, UserLeaves
<1>2. CASE OpenAnew(page_, c)
  <2>1. /\ hops' = 0 /\ UNCHANGED <<refused, docs, status>> /\ tab' = Mount(page_, c)
        /\ answersDue' = {}
    BY <1>2 DEF OpenAnew, backend
  <2> QED BY <2>1, UserLeaves
<1> QED BY <1>1, <1>2

LEMMA SubscribeStep ==
    ASSUME LedOn, NEW c \in Dossiers, Subscribe(c)
    PROVE  LedOn'
<1>1. /\ hops' = 0 /\ UNCHANGED <<refused, docs>>
      /\ status' = [status EXCEPT ![c] = "en_attente_de_justificatif"]
      /\ tab' = Mounted("dossier", c) /\ answersDue' \subseteq answersDue \cup LeftBehind
      /\ "dossier" # tab.page => answersDue' = {}
  BY DEF Subscribe, Goes
<1>2. status' \in [Dossiers -> Status]
  BY <1>1 DEF LedOn, PagesTypeOK, Status, PENDING_SUBSCRIPTION_STATUSES
<1>3. \A x \in Dossiers : status'[x] = IF x = c THEN "en_attente_de_justificatif" ELSE status[x]
  BY <1>1 DEF LedOn, PagesTypeOK
<1>4. DocumentsStay'
  BY <1>1, <1>3
      DEF LedOn, DocumentsStay, documentsComplete, Past, SigningStatus, PaidStatus
<1>5. "dossier" \in Page
  BY DEF Page
<1> QED BY <1>1, <1>2, <1>4, <1>5, UserGoes

LEMMA ContinueStep ==
    ASSUME LedOn, Continue
    PROVE  LedOn'
<1>1. /\ hops' = 0 /\ UNCHANGED <<refused, docs, status>> /\ tab' = Mounted("signature", tab.on)
      /\ answersDue' \subseteq answersDue \cup LeftBehind
      /\ "signature" # tab.page => answersDue' = {}
  BY DEF Continue, Goes, backend
<1>2. "signature" \in Page /\ tab.on \in Dossiers \cup {Null}
  BY TabPlaces DEF Page, LedOn, PagesTypeOK, Places
<1> QED BY <1>1, <1>2, UserLeaves

LEMMA LoadFailsStep ==
    ASSUME LedOn, LoadFails
    PROVE  LedOn'
<1>1. hops' = 0 /\ UNCHANGED <<refused, docs, status>>
  BY DEF LoadFails, backend
<1>2. status' \in [Dossiers -> Status] /\ DocumentsStay'
  BY <1>1 DEF LedOn, PagesTypeOK, DocumentsStay, documentsComplete
<1>3. CASE Redirected("dossier", Null)
  <2>1. "dossier" \in Page
    BY DEF Page
  <2>2. /\ tab' = Mounted("dossier", Null) /\ answersDue' \subseteq answersDue \cup LeftBehind
        /\ "dossier" # tab.page => answersDue' = {}
    BY <1>3 DEF Redirected
  <2> QED BY <1>1, <2>1, <2>2, UserLeaves
<1>4. CASE tab' = [tab EXCEPT !.load = "failed"] /\ UNCHANGED answersDue
  <2>1. tab \in Places
    BY TabPlaces DEF LedOn, PagesTypeOK
  <2>2. tab' \in Tab /\ tab'.page = tab.page /\ tab'.shown = tab.shown /\ tab'.load = "failed"
    BY <1>4, <2>1, TabPlaces DEF Places
  <2>3. PaymentAsked' /\ PageShowsItsFile' /\ PollsOn'
    BY <1>4, <2>2 DEF LedOn, PaymentAsked, PageShowsItsFile, PollsOn
  <2>4. /\ DOMAIN docs' = Dossiers /\ \A x \in Dossiers : docs'[x] \in [RequiredTypes[x] -> DocStatus]
        /\ answersDue' \subseteq PageCall
    BY <1>1, <1>4 DEF LedOn, PagesTypeOK
  <2> QED BY <1>1, <1>2, <2>2, <2>3, <2>4, UserActs
<1> QED BY <1>3, <1>4 DEF LoadFails

LEMMA StatusOf ==
    ASSUME PagesTypeOK, NEW c \in Dossiers, NEW s \in Status,
           status' = [status EXCEPT ![c] = s]
    PROVE  /\ status' \in [Dossiers -> Status]
           /\ \A x \in Dossiers : status'[x] = IF x = c THEN s ELSE status[x]
BY DEF PagesTypeOK

LEMMA DocOf ==
    ASSUME PagesTypeOK, NEW c \in Dossiers, NEW t \in RequiredTypes[c], NEW d \in DocStatus,
           docs' = [docs EXCEPT ![c][t] = d]
    PROVE  /\ DOMAIN docs' = Dossiers
           /\ \A x \in Dossiers : docs'[x] \in [RequiredTypes[x] -> DocStatus]
           /\ \A x \in Dossiers \ {c} : docs'[x] = docs[x]
           /\ docs'[c] = [docs[c] EXCEPT ![t] = d]
<1>1. DOMAIN docs = Dossiers /\ \A x \in Dossiers : docs[x] \in [RequiredTypes[x] -> DocStatus]
  BY DEF PagesTypeOK
<1>2. DOMAIN docs' = Dossiers
  BY <1>1
<1>3. docs'[c] = [docs[c] EXCEPT ![t] = d] /\ \A x \in Dossiers \ {c} : docs'[x] = docs[x]
  BY <1>1
<1>4. [docs[c] EXCEPT ![t] = d] \in [RequiredTypes[c] -> DocStatus]
  BY <1>1
<1> QED BY <1>1, <1>2, <1>3, <1>4

\* tryAdvanceContract moves a file on only when its documents are complete.
LEMMA AdvanceMoves ==
    ASSUME PagesTypeOK, NEW c \in Dossiers, NEW d, status' = Advance(c, d)
    PROVE  /\ status' \in [Dossiers -> Status]
           /\ \A x \in Dossiers :
                 \/ status'[x] = status[x]
                 \/ /\ x = c /\ documentsComplete(d, c)
                    /\ status[x] = "en_attente_de_justificatif"
                    /\ status'[x] = "en_attente_de_signature_payeur"
<1>1. "en_attente_de_signature_payeur" \in Status
  BY DEF Status, PENDING_SUBSCRIPTION_STATUSES
<1>2. CASE status[c] = "en_attente_de_justificatif" /\ documentsComplete(d, c)
  BY <1>1, <1>2, StatusOf DEF Advance
<1>3. CASE ~ (status[c] = "en_attente_de_justificatif" /\ documentsComplete(d, c))
  BY <1>3 DEF Advance, PagesTypeOK
<1> QED BY <1>2, <1>3

\* A document changes, and the gate is tried: the documents of the files past it stay, when
\* it was not one of theirs, or was not accepted yet, or is accepted again.
LEMMA DocumentMoves ==
    ASSUME LedOn, NEW c \in Dossiers, NEW t \in RequiredTypes[c], NEW d \in DocStatus,
           docs' = [docs EXCEPT ![c][t] = d], status' = Advance(c, docs'[c]), UNCHANGED refused,
           d = "pre_qualifie" \/ docs[c][t] # "pre_qualifie"
    PROVE  DocumentsStay'
<1>1. /\ DOMAIN docs' = Dossiers
      /\ \A x \in Dossiers : docs'[x] \in [RequiredTypes[x] -> DocStatus]
      /\ \A x \in Dossiers \ {c} : docs'[x] = docs[x]
      /\ docs'[c] = [docs[c] EXCEPT ![t] = d]
  BY DocOf DEF LedOn
<1>2. PICK e : e = docs'[c]
  OBVIOUS
<1>3. \A x \in Dossiers :
         \/ status'[x] = status[x]
         \/ x = c /\ documentsComplete(e, c)
  BY <1>2, AdvanceMoves DEF LedOn
<1>4. ASSUME NEW x \in Dossiers \ refused, status'[x] \in Past
      PROVE  documentsComplete(docs'[x], x)
  <2>1. CASE x # c
    BY <1>1, <1>3, <1>4, <2>1 DEF LedOn, DocumentsStay
  <2>2. CASE x = c /\ documentsComplete(e, c)
    BY <1>2, <2>2 DEF documentsComplete
  <2>3. CASE x = c /\ status'[x] = status[x]
    <3>1. documentsComplete(docs[c], c)
      BY <1>4, <2>3 DEF LedOn, DocumentsStay
    <3>2. d = "pre_qualifie"
      BY <3>1 DEF documentsComplete, isSlotReadyForSignature
    <3>3. \A q \in RequiredTypes[c] : docs'[c][q] = "pre_qualifie"
      BY <1>1, <3>1, <3>2 DEF documentsComplete, isSlotReadyForSignature, LedOn, PagesTypeOK
    <3> QED BY <2>3, <3>3 DEF documentsComplete, isSlotReadyForSignature
  <2> QED BY <1>3, <2>1, <2>2, <2>3
<1> QED BY <1>4 DEF DocumentsStay, documentsComplete, Past

LEMMA DecidedStep ==
    ASSUME LedOn, NEW c \in Dossiers, NEW t \in RequiredTypes[c], DocumentDecided(c, t)
    PROVE  LedOn'
<1>1. PICK d \in {"pre_qualifie", "a_revoir"} :
         /\ d = "a_revoir" => docs[c][t] = "en_cours_de_verification"
         /\ docs' = [docs EXCEPT ![c][t] = d] /\ status' = Advance(c, docs'[c])
         /\ UNCHANGED <<tab, answersDue, hops, refused>>
  BY DEF DocumentDecided
<1>2. d \in DocStatus /\ PagesTypeOK
  BY DEF DocStatus, LedOn
<1>3. /\ DOMAIN docs' = Dossiers
      /\ \A x \in Dossiers : docs'[x] \in [RequiredTypes[x] -> DocStatus]
  BY <1>1, <1>2, DocOf
<1>4. DocumentsStay'
  BY <1>1, <1>2, DocumentMoves
<1>5. PICK e : e = docs'[c]
  OBVIOUS
<1>6. /\ status' \in [Dossiers -> Status]
      /\ \A x \in Dossiers :
            \/ status'[x] = status[x]
            \/ /\ status[x] = "en_attente_de_justificatif"
               /\ status'[x] = "en_attente_de_signature_payeur"
  BY <1>1, <1>2, <1>5, AdvanceMoves
<1>7. refused' \subseteq Dossiers
  BY <1>1 DEF LedOn, PagesTypeOK
<1> QED BY <1>1, <1>3, <1>4, <1>6, <1>7, BackendMoves

\* A refusal after the gate is known to be one.
LEMMA RefuseStep ==
    ASSUME LedOn, NEW c \in Dossiers, NEW t \in RequiredTypes[c], RefuseDocument(c, t)
    PROVE  LedOn'
<1>1. /\ docs' = [docs EXCEPT ![c][t] = "refuse"]
      /\ refused' = IF status[c] # "en_attente_de_justificatif" THEN refused \cup {c} ELSE refused
      /\ UNCHANGED <<status, tab, answersDue, hops>>
  BY DEF RefuseDocument
<1>2. "refuse" \in DocStatus /\ PagesTypeOK
  BY DEF DocStatus, LedOn
<1>3. /\ DOMAIN docs' = Dossiers
      /\ \A x \in Dossiers : docs'[x] \in [RequiredTypes[x] -> DocStatus]
      /\ \A x \in Dossiers \ {c} : docs'[x] = docs[x]
  BY <1>1, <1>2, DocOf
<1>4. DocumentsStay'
  <2>1. ASSUME NEW x \in Dossiers \ refused', status[x] \in Past
        PROVE  x # c /\ x \notin refused
    BY <1>1, <2>1 DEF Past, SigningStatus, PaidStatus
  <2>2. \A x \in Dossiers \ refused' : status'[x] \in Past => documentsComplete(docs'[x], x)
    BY <1>1, <1>3, <2>1 DEF LedOn, DocumentsStay
  <2> QED BY <2>2 DEF DocumentsStay, documentsComplete, Past
<1>5. refused \subseteq refused' /\ refused' \subseteq Dossiers /\ status' \in [Dossiers -> Status]
  BY <1>1, <1>2 DEF PagesTypeOK
<1> QED BY <1>1, <1>3, <1>4, <1>5, BackendMoves

LEMMA SignatureEndsStep ==
    ASSUME LedOn, NEW c \in Dossiers, SignatureEnds(c)
    PROVE  LedOn'
<1>1. PICK s \in {"en_attente_paiement", "en_attente_de_signature_payeur"} :
         status' = [status EXCEPT ![c] = s]
  BY DEF SignatureEnds
<1>2. s \in Status /\ PagesTypeOK
  BY DEF Status, PENDING_SUBSCRIPTION_STATUSES, LedOn
<1>3. /\ status' \in [Dossiers -> Status]
      /\ \A x \in Dossiers : status'[x] = IF x = c THEN s ELSE status[x]
  BY <1>1, <1>2, StatusOf
<1>4. status[c] = "signature_en_cours" /\ UNCHANGED <<docs, tab, answersDue, hops, refused>>
  BY DEF SignatureEnds
<1>5. DocumentsStay'
  <2>1. \A x \in Dossiers : status'[x] \in Past => status[x] \in Past
    BY <1>3, <1>4 DEF Past, SigningStatus
  <2> QED BY <1>4, <2>1 DEF LedOn, DocumentsStay, documentsComplete, Past
<1>6. /\ DOMAIN docs' = Dossiers /\ \A x \in Dossiers : docs'[x] \in [RequiredTypes[x] -> DocStatus]
      /\ refused \subseteq refused' /\ refused' \subseteq Dossiers
  BY <1>2, <1>4 DEF PagesTypeOK
<1> QED BY <1>3, <1>4, <1>5, <1>6, BackendMoves

LEMMA UploadStep ==
    ASSUME LedOn, NEW t, handleUpload(t)
    PROVE  LedOn'
<1>1. PICK c : c = tab.on
  OBVIOUS
<1>2. /\ c \in Dossiers /\ tab.page = "dossier" /\ tab \in Places /\ PagesTypeOK
      /\ hops' = 0 /\ UNCHANGED <<answersDue, refused>>
  BY <1>1, TabPlaces DEF handleUpload, Settled, uploadOffered, LedOn, PagesTypeOK, Places
<1>3. answersDue' \subseteq PageCall
  BY <1>2 DEF PagesTypeOK
<1>4. CASE t \in RequiredTypes[c] /\ ~ replaceable(docs[c][t])
  <2>1. UNCHANGED <<docs, status, tab>>
    BY <1>1, <1>4 DEF handleUpload
  <2>2. /\ status' \in [Dossiers -> Status] /\ DOMAIN docs' = Dossiers
        /\ \A x \in Dossiers : docs'[x] \in [RequiredTypes[x] -> DocStatus]
        /\ tab' \in Tab
    BY <1>2, <2>1 DEF PagesTypeOK
  <2>3. DocumentsStay' /\ PaymentAsked' /\ PageShowsItsFile' /\ PollsOn'
    BY <1>2, <2>1
        DEF LedOn, DocumentsStay, documentsComplete, PaymentAsked, PageShowsItsFile, Past, PollsOn
  <2> QED BY <1>2, <1>3, <2>2, <2>3, UserActs
<1>5. CASE ~ (t \in RequiredTypes[c] /\ ~ replaceable(docs[c][t]))
  <2>1. /\ status' = Advance(c, docs'[c])
        /\ tab' = [tab EXCEPT !.shown = [of |-> c, status |-> status'[c], docs |-> docs'[c]]]
    BY <1>1, <1>5 DEF handleUpload
  <2>2. PICK e : e = docs'[c]
    OBVIOUS
  <2>3. /\ status' \in [Dossiers -> Status]
        /\ \A x \in Dossiers : status'[x] = status[x] \/ (x = c /\ documentsComplete(e, c))
    BY <1>2, <2>1, <2>2, AdvanceMoves
  <2>4. /\ DOMAIN docs' = Dossiers /\ \A x \in Dossiers : docs'[x] \in [RequiredTypes[x] -> DocStatus]
        /\ DocumentsStay'
    <3>1. CASE t \in RequiredTypes[c]
      <4>1. PICK d \in {"en_cours_de_verification", "pre_qualifie", "a_revoir"} :
               docs' = [docs EXCEPT ![c][t] = d]
        BY <1>1, <1>5, <3>1 DEF handleUpload
      <4>2. d \in DocStatus /\ docs[c][t] # "pre_qualifie"
        BY <1>5, <3>1 DEF DocStatus, replaceable
      <4> QED BY <1>2, <2>1, <3>1, <4>1, <4>2, DocOf, DocumentMoves
    <3>2. CASE t \notin RequiredTypes[c]
      <4>1. UNCHANGED docs
        BY <1>1, <1>5, <3>2 DEF handleUpload
      <4>2. \A x \in Dossiers \ refused : status'[x] \in Past => documentsComplete(docs[x], x)
        BY <2>2, <2>3, <4>1 DEF LedOn, DocumentsStay
      <4> QED BY <1>2, <4>1, <4>2 DEF PagesTypeOK, DocumentsStay, documentsComplete, Past
    <3> QED BY <3>1, <3>2
  <2>5. PICK v : v = [of |-> c, status |-> status'[c], docs |-> docs'[c]]
    OBVIOUS
  <2>6. v \in Views
    <3>1. docs'[c] \in UNION {[RequiredTypes[x] -> DocStatus] : x \in Dossiers}
      BY <1>2, <2>4
    <3>2. status'[c] \in Status
      BY <1>2, <2>3
    <3> QED BY <1>2, <2>5, <3>1, <3>2 DEF Views
  <2>7. tab' = [tab EXCEPT !.shown = v]
    BY <2>1, <2>5
  <2>8. tab' \in Tab /\ tab'.page = "dossier"
    BY <1>2, <2>6, <2>7, TabPlaces DEF Places
  <2>9. PaymentAsked' /\ PageShowsItsFile' /\ PollsOn'
    BY <2>8 DEF PaymentAsked, PageShowsItsFile, PollsOn
  <2> QED BY <1>2, <1>3, <2>3, <2>4, <2>8, <2>9, UserActs
<1> QED BY <1>4, <1>5

\* What the page shows gets another status, and the validation is complete.
LEMMA ShownStatus ==
    ASSUME PagesTypeOK, tab.shown # Null, tab' = Validated
    PROVE  /\ tab' \in Tab /\ UNCHANGED <<tab.page, tab.on, tab.load>>
           /\ tab'.shown.of = tab.shown.of
<1>1. tab \in Places
  BY TabPlaces DEF PagesTypeOK
<1>2. PICK v \in Views : v = tab.shown
  BY <1>1 DEF Places
<1>3. "actif" \in Status
  BY DEF Status
<1>4. [v EXCEPT !.status = "actif"] \in Views /\ [v EXCEPT !.status = "actif"].of = v.of
  BY <1>3 DEF Views
<1>5. tab' = [tab EXCEPT !.shown = [v EXCEPT !.status = "actif"], !.validationComplete = TRUE]
  BY <1>1, <1>2 DEF Places, Validated
<1>6. tab' \in Places /\ UNCHANGED <<tab.page, tab.on, tab.load>>
      /\ tab'.shown = [v EXCEPT !.status = "actif"]
  BY <1>1, <1>4, <1>5 DEF Places
<1> QED BY <1>2, <1>4, <1>6, TabPlaces

\* A button: the back end takes the payment and the validation of a file past the gate only,
\* and the signature of one whose documents are complete.
LEMMA PressMoves ==
    ASSUME LedOn, NEW c \in Dossiers, NEW b \in {"sign", "pay", "validate"}, Accepts(c, b),
           status' = [status EXCEPT ![c] = StatusAfter(c, b)], UNCHANGED <<docs, refused>>
    PROVE  status' \in [Dossiers -> Status] /\ DocumentsStay'
<1>1. PagesTypeOK /\ status[c] \in Status
  BY DEF LedOn, PagesTypeOK
<1>2. StatusAfter(c, b) \in Status
  BY <1>1 DEF StatusAfter, Status, PENDING_SUBSCRIPTION_STATUSES
<1>3. /\ status' \in [Dossiers -> Status]
      /\ \A x \in Dossiers : status'[x] = IF x = c THEN StatusAfter(c, b) ELSE status[x]
  BY <1>1, <1>2, StatusOf
<1>4. b # "sign" => status[c] \in Past
  BY DEF Accepts, Past
<1>5. b = "sign" => documentsComplete(docs[c], c)
  BY DEF Accepts
<1>6. \A x \in Dossiers \ refused : status'[x] \in Past => documentsComplete(docs[x], x)
  BY <1>3, <1>4, <1>5 DEF LedOn, DocumentsStay
<1> QED BY <1>3, <1>6 DEF DocumentsStay, documentsComplete, Past

LEMMA PressStep ==
    ASSUME LedOn, NEW b, Press(b)
    PROVE  LedOn'
<1>1. PICK c : c = tab.on
  OBVIOUS
<1>2. /\ c \in Dossiers /\ tab.shown # Null /\ tab \in Places /\ PagesTypeOK
      /\ b \in {"sign", "pay", "validate"} /\ b \in Offered(tab)
      /\ hops' = 0 /\ UNCHANGED <<docs, refused>>
  BY <1>1, TabPlaces DEF Press, Settled, LedOn, PagesTypeOK, Places
<1>3. DOMAIN docs' = Dossiers /\ \A x \in Dossiers : docs'[x] \in [RequiredTypes[x] -> DocStatus]
  BY <1>2 DEF PagesTypeOK
<1>4. \/ UNCHANGED <<status, tab, answersDue>>
      \/ /\ Accepts(c, b) /\ status' = [status EXCEPT ![c] = StatusAfter(c, b)]
         /\ \/ UNCHANGED <<tab, answersDue>>
            \/ Goes("paiement", c) \/ Goes("espace", Null) \/ Goes("validation", c)
            \/ tab' = Mount("validation", c) /\ answersDue' = {}
            \/ b = "validate" /\ tab' = Validated /\ UNCHANGED answersDue
  BY <1>1 DEF Press
<1>5. status' \in [Dossiers -> Status] /\ DocumentsStay'
  <2>1. CASE UNCHANGED status
    BY <1>2, <2>1 DEF LedOn, PagesTypeOK, DocumentsStay, documentsComplete, Past
  <2>2. CASE Accepts(c, b) /\ status' = [status EXCEPT ![c] = StatusAfter(c, b)]
    BY <1>2, <2>2, PressMoves
  <2> QED BY <1>4, <2>1, <2>2
<1>6. CASE UNCHANGED <<tab, answersDue>>
  <2>1. PollsOn' /\ PaymentAsked' /\ PageShowsItsFile' /\ tab' \in Tab /\ answersDue' \subseteq PageCall
    BY <1>6 DEF LedOn, PagesTypeOK, PollsOn, PaymentAsked, PageShowsItsFile
  <2> QED BY <1>2, <1>3, <1>5, <2>1, UserActs
<1>7. CASE Goes("paiement", c) \/ Goes("espace", Null) \/ Goes("validation", c)
  <2>1. PICK q \in Page, x \in Dossiers \cup {Null} : Goes(q, x)
    BY <1>2, <1>7 DEF Page
  <2>2. /\ tab' = Mounted(q, x) /\ answersDue' \subseteq answersDue \cup LeftBehind
        /\ q # tab.page => answersDue' = {}
    BY <2>1 DEF Goes
  <2> QED BY <1>2, <1>5, <2>2, UserGoes
<1>8. CASE tab' = Mount("validation", c) /\ answersDue' = {}
  <2>1. "validation" \in Page
    BY DEF Page
  <2> QED BY <1>2, <1>5, <1>8, <2>1, UserGoes
<1>9. CASE b = "validate" /\ tab' = Validated /\ UNCHANGED answersDue
  <2>1. /\ tab' \in Tab /\ UNCHANGED <<tab.page, tab.on, tab.load>>
        /\ tab'.shown.of = tab.shown.of
    BY <1>2, <1>9, ShownStatus
  <2>2. tab.page = "validation"
    BY <1>2, <1>9 DEF Offered
  <2>3. PollsOn' /\ PaymentAsked' /\ PageShowsItsFile' /\ answersDue' \subseteq PageCall
    BY <1>2, <1>9, <2>1, <2>2 DEF LedOn, PagesTypeOK, PollsOn, PaymentAsked, PageShowsItsFile
  <2> QED BY <1>2, <1>3, <1>5, <2>1, <2>3, UserActs
<1> QED BY <1>4, <1>6, <1>7, <1>8, <1>9

\* The tab moves while the back end, and what is still to be answered, stay as they are.
LEMMA TabMoves ==
    ASSUME LedOn, UNCHANGED <<status, docs, refused>>, answersDue' \subseteq PageCall, PollsOn',
           tab' \in Tab, hops' \in 0 .. MaxHops, PaymentAsked', PageShowsItsFile',
           RedirectsLeft'
    PROVE  LedOn'
<1>1. PagesTypeOK'
  BY DEF LedOn, PagesTypeOK
<1>2. DocumentsStay'
  BY DEF LedOn, DocumentsStay, documentsComplete, Past
<1> QED BY <1>1, <1>2 DEF LedOn

\* A redirect, counted, to a page that leaves one less; hops stop being counted at MaxHops.
LEMMA TabRedirected ==
    ASSUME LedOn, UNCHANGED <<status, docs, refused>>,
           NEW q \in Page, NEW c \in Dossiers, tab' = Mounted(q, c), Counted,
           answersDue' \subseteq answersDue \cup LeftBehind, q # tab.page => answersDue' = {},
           c \notin refused =>
               hops + 1 + Left(q, LoadOf(q, c), status[c]) <= 3
    PROVE  LedOn'
<1>1. /\ tab' \in Tab /\ tab'.page = q /\ tab'.on = c /\ tab'.load = LoadOf(q, c)
      /\ tab'.load # "done"
      /\ q = "paiement" /\ tab'.shown # Null => tab'.shown.status = "en_attente_paiement"
  BY MountedSound DEF LedOn
<1>2. hops' \in 0 .. MaxHops /\ hops' <= hops + 1 /\ hops \in Nat
  BY DossiersAssumption DEF LedOn, PagesTypeOK, Counted
<1>3. PaymentAsked' /\ PageShowsItsFile'
  BY <1>1 DEF PaymentAsked, PageShowsItsFile
<1>4. RedirectsLeft'
  <2>1. PICK n : n = Left(q, LoadOf(q, c), status[c])
    OBVIOUS
  <2>2. n \in 0 .. 3
    BY <2>1, LeftBound
  <2>3. c \notin refused => hops' + n <= 3
    BY <1>2, <2>1, <2>2
  <2>4. c # Null
    BY DossiersAssumption
  <2> QED BY <1>1, <2>1, <2>3, <2>4 DEF RedirectsLeft, Left
<1>5. answersDue' \subseteq PageCall /\ PollsOn'
  BY <1>1, CallsKept
<1> QED BY <1>1, <1>2, <1>3, <1>4, <1>5, TabMoves

LEMMA PageLoadedStep ==
    ASSUME LedOn, PageLoaded
    PROVE  LedOn'
<1>1. PICK c, q, w : c = tab.on /\ q = tab.page /\ w = Redirect(tab.page, View(tab.on))
  OBVIOUS
<1>2. /\ c \in Dossiers /\ q \in Page /\ tab \in Places /\ PagesTypeOK /\ tab.load = "due"
      /\ DocumentsStay
  BY <1>1, TabPlaces DEF PageLoaded, LedOn, PagesTypeOK, Places
<1>3. /\ w \in Page
      /\ w # q /\ c \notin refused =>
            Left(w, LoadOf(w, c), status[c]) + 1 <= Left(q, "due", status[c])
      /\ w = q => Left(q, "done", status[c]) <= Left(q, "due", status[c])
      /\ w = q /\ q = "paiement" => status[c] = "en_attente_paiement"
  BY <1>1, <1>2, RedirectOne
<1>4. View(c) \in Views /\ View(c).of = c /\ View(c).status = status[c]
  BY <1>2, ViewTyped
<1>5. /\ UNCHANGED <<status, docs, refused>>
      /\ w = q => tab' = Filled(tab, View(c)) /\ UNCHANGED <<hops, answersDue>>
      /\ w # q => Redirected(w, c) /\ Counted
  BY <1>1, <1>4 DEF PageLoaded, Arrives, backend
<1>6. PICK l, m : /\ l = Left(q, "due", status[c])
                  /\ m = Left(w, LoadOf(w, c), status[c])
  OBVIOUS
<1>7. l \in 0 .. 3 /\ m \in 0 .. 3 /\ hops \in Nat /\ hops \in 0 .. MaxHops
  <2>1. hops \in 0 .. MaxHops /\ hops \in Nat
    BY <1>2, DossiersAssumption DEF PagesTypeOK
  <2>2. l \in 0 .. 3 /\ m \in 0 .. 3
    BY <1>6, LeftBound
  <2> QED BY <2>1, <2>2
<1>8. c \notin refused => hops + l <= 3
  BY <1>1, <1>2, <1>6, DossiersAssumption DEF LedOn, RedirectsLeft
<1>9. CASE w # q
  <2>1. c \notin refused => m + 1 <= l
    BY <1>3, <1>6, <1>9
  <2>2. c \notin refused => hops + 1 + m <= 3
    BY <1>7, <1>8, <2>1
  <2>3. /\ tab' = Mounted(w, c) /\ answersDue' \subseteq answersDue \cup LeftBehind
        /\ w # tab.page => answersDue' = {}
    BY <1>5, <1>9 DEF Redirected
  <2> QED BY <1>2, <1>3, <1>5, <1>6, <1>9, <2>2, <2>3, TabRedirected
<1>10. CASE w = q
  <2>1. /\ tab' \in Tab /\ tab'.page = q /\ tab'.on = c /\ tab'.load = "done"
        /\ tab'.shown = View(c)
    BY <1>1, <1>2, <1>4, <1>5, <1>10, FilledSound, TabPlaces
  <2>2. PaymentAsked' /\ PageShowsItsFile'
    BY <1>3, <1>4, <1>10, <2>1 DEF PaymentAsked, PageShowsItsFile
  <2>3. PICK n : n = Left(q, "done", status[c])
    OBVIOUS
  <2>4. n \in 0 .. 3 /\ n <= l
    BY <1>3, <1>6, <1>10, <2>3, LeftBound
  <2>5. c \notin refused => hops + n <= 3
    BY <1>7, <1>8, <2>4
  <2>6. RedirectsLeft'
    BY <1>2, <1>5, <1>10, <2>1, <2>3, <2>5, DossiersAssumption DEF RedirectsLeft, Left
  <2>7. answersDue' \subseteq PageCall /\ PollsOn'
    BY <1>1, <1>5, <1>10, <2>1 DEF LedOn, PagesTypeOK, PollsOn
  <2> QED BY <1>5, <1>7, <1>10, <2>1, <2>2, <2>6, <2>7, TabMoves
<1> QED BY <1>9, <1>10

\* One pending file is opened; what its page still leaves is two redirects at most.
LEMMA DetailLeft ==
    ASSUME NEW s, NEW q, NEW ld, q = dossierDetailPath(s)
    PROVE  q \in Page /\ Left(q, ld, s) <= 2
<1>1. \/ s = "en_attente_paiement" /\ q = "paiement"
      \/ s \in PaidStatus /\ q = "validation"
      \/ s \in SigningStatus /\ q = "signature"
      \/ q = "dossier"
  BY DEF dossierDetailPath
<1> QED BY <1>1 DEF Left, Page, SigningStatus, PaidStatus

LEMMA ListedStep ==
    ASSUME LedOn, Listed
    PROVE  LedOn'
<1>1. /\ tab \in Places /\ PagesTypeOK /\ tab.on = Null /\ tab.load = "due"
      /\ tab.page = "dossier" /\ hops = 0 /\ UNCHANGED <<status, docs, refused>>
  BY TabPlaces DEF Listed, LedOn, PagesTypeOK, Places, RedirectsLeft, backend
<1>2. CASE Cardinality(Pending) = 1
  <2>1. PICK c : c = CHOOSE x \in Pending : TRUE
    OBVIOUS
  <2>2. Pending # {}
    BY <1>2, FS_EmptySet
  <2>3. c \in Dossiers
    BY <2>1, <2>2 DEF Pending
  <2>4. PICK q : q = dossierDetailPath(status[c])
    OBVIOUS
  <2>5. Redirected(q, c) /\ Counted
    BY <1>2, <2>1, <2>4 DEF Listed
  <2>6. /\ tab' = Mounted(q, c) /\ answersDue' \subseteq answersDue \cup LeftBehind
        /\ q # tab.page => answersDue' = {}
    BY <2>5 DEF Redirected
  <2>7. PICK n : n = Left(q, LoadOf(q, c), status[c])
    OBVIOUS
  <2>8. q \in Page /\ n <= 2 /\ n \in 0 .. 3
    BY <2>4, <2>7, DetailLeft, LeftBound
  <2>9. hops + 1 + Left(q, LoadOf(q, c), status[c]) <= 3
    BY <1>1, <2>7, <2>8
  <2> QED BY <1>1, <2>3, <2>5, <2>6, <2>8, <2>9, TabRedirected
<1>3. CASE Cardinality(Pending) # 1
  <2>1. tab' = [tab EXCEPT !.load = "done"] /\ hops' = hops /\ answersDue' = answersDue
    BY <1>3 DEF Listed
  <2>2. /\ tab' \in Tab /\ tab'.page = tab.page /\ tab'.on = Null /\ tab'.shown = tab.shown
        /\ tab.page = "dossier"
    BY <1>1, <2>1, TabPlaces DEF Places
  <2>3. PaymentAsked' /\ PageShowsItsFile' /\ RedirectsLeft' /\ PollsOn'
    BY <1>1, <2>1, <2>2 DEF LedOn, PaymentAsked, PageShowsItsFile, RedirectsLeft, PollsOn
  <2>4. hops' \in 0 .. MaxHops /\ answersDue' \subseteq PageCall
    BY <1>1, <2>1 DEF PagesTypeOK
  <2> QED BY <1>1, <2>2, <2>3, <2>4, TabMoves
<1> QED BY <1>2, <1>3

\* The answer for an earlier URL: an effect's is dropped, a poll's is shown by the page of the
\* documents.
LEMMA LateAnswerStep ==
    ASSUME LedOn, NEW k, LateAnswer(k)
    PROVE  LedOn'
<1>1. /\ tab \in Places /\ PagesTypeOK /\ k \in PageCall /\ k \in answersDue
      /\ answersDue' = answersDue \ {k} /\ UNCHANGED <<status, docs, refused, hops>>
      /\ hops \in 0 .. MaxHops
  BY TabPlaces DEF LateAnswer, LedOn, PagesTypeOK, backend
<1>2. answersDue' \subseteq PageCall
  BY <1>1 DEF PagesTypeOK
<1>3. CASE UNCHANGED tab
  <2>1. PaymentAsked' /\ PageShowsItsFile' /\ tab' \in Tab /\ PollsOn'
    BY <1>1, <1>3 DEF LedOn, PagesTypeOK, PaymentAsked, PageShowsItsFile, PollsOn
  <2>2. RedirectsLeft'
    BY <1>1, <1>3 DEF LedOn, RedirectsLeft, Left, PaidStatus
  <2> QED BY <1>1, <1>2, <2>1, <2>2, TabMoves
<1>4. CASE ~ Dropped(k) /\ tab' = [tab EXCEPT !.shown = View(k.on)]
  <2>1. tab.page = "dossier"
    BY <1>1, <1>4 DEF LedOn, PollsOn, PageCall, Dropped
  <2>2. PICK v \in Views : v = View(k.on)
    BY <1>1, ViewTyped DEF PageCall
  <2>3. tab' = [tab EXCEPT !.shown = v]
    BY <1>4, <2>2
  <2>4. tab' \in Tab /\ tab'.page = "dossier" /\ tab'.on = tab.on /\ tab'.load = tab.load
    BY <1>1, <2>1, <2>3, TabPlaces DEF Places
  <2>5. PaymentAsked' /\ PageShowsItsFile' /\ PollsOn'
    BY <2>4 DEF PaymentAsked, PageShowsItsFile, PollsOn
  <2>6. RedirectsLeft'
    BY <1>1, <2>1, <2>4 DEF LedOn, RedirectsLeft, Left, PaidStatus
  <2> QED BY <1>1, <1>2, <2>4, <2>5, <2>6, TabMoves
<1> QED BY <1>3, <1>4 DEF LateAnswer

LEMMA PollDocumentsStep ==
    ASSUME LedOn, PollDocuments
    PROVE  LedOn'
<1>1. PICK k : k = [kind |-> "poll", on |-> tab.on]
  OBVIOUS
<1>2. /\ PagesTypeOK /\ tab \in Places /\ tab.on # Null /\ tab.page = "dossier"
      /\ UNCHANGED <<status, docs, refused, tab, hops>> /\ answersDue' = answersDue \cup {k}
  BY <1>1, TabPlaces DEF PollDocuments, LedOn, PagesTypeOK, backend
<1>3. k \in PageCall
  BY <1>1, <1>2 DEF Places, PageCall
<1>4. answersDue' \subseteq PageCall /\ PollsOn'
  BY <1>2, <1>3 DEF LedOn, PagesTypeOK, PollsOn
<1>5. PaymentAsked' /\ PageShowsItsFile' /\ tab' \in Tab /\ hops' \in 0 .. MaxHops
  BY <1>2 DEF LedOn, PagesTypeOK, PaymentAsked, PageShowsItsFile
<1>6. RedirectsLeft'
  BY <1>2 DEF LedOn, RedirectsLeft, Left, PaidStatus
<1> QED BY <1>2, <1>4, <1>5, <1>6, TabMoves

LEMMA PollSignatureStep ==
    ASSUME LedOn, PollSignature
    PROVE  LedOn'
<1>1. PICK c : c = tab.on
  OBVIOUS
<1>2. /\ PagesTypeOK /\ tab \in Places /\ tab.page = "signature" /\ c # Null
      /\ UNCHANGED <<status, docs, refused>>
  BY <1>1, TabPlaces DEF PollSignature, LedOn, PagesTypeOK, backend
<1>3. c \in Dossiers /\ status[c] \in Status /\ hops \in 0 .. MaxHops
  BY <1>1, <1>2 DEF Places, PagesTypeOK
<1>4. PICK s, l : s = status[c] /\ l = Left("signature", tab.load, s)
  OBVIOUS
<1>5. l \in 0 .. 3 /\ (c \notin refused => hops + l <= 3)
  BY <1>1, <1>2, <1>3, <1>4, LeftBound DEF LedOn, RedirectsLeft
<1>6. CASE s \in {"en_attente_paiement"} \cup PaidStatus
  <2>1. /\ tab' = Mounted("paiement", c) /\ Counted
        /\ answersDue' \subseteq answersDue \cup LeftBehind
        /\ "paiement" # tab.page => answersDue' = {}
    BY <1>1, <1>4, <1>6 DEF PollSignature, Goes, PaidStatus
  <2>2. PICK ld : ld = LoadOf("paiement", c)
    OBVIOUS
  <2>3. Left("paiement", ld, s) + 1 <= l
    BY <1>4, <1>6 DEF Left, PaidStatus
  <2>4. PICK m : m = Left("paiement", ld, s)
    OBVIOUS
  <2>5. m \in 0 .. 3
    BY <2>4, LeftBound
  <2>6. c \notin refused => hops + 1 + m <= 3
    BY <1>3, <1>5, <2>3, <2>4, <2>5
  <2>7. "paiement" \in Page
    BY DEF Page
  <2> QED BY <1>2, <1>3, <1>4, <2>1, <2>2, <2>4, <2>6, <2>7, TabRedirected
<1>7. CASE UNCHANGED <<tab, hops, answersDue>>
  <2>1. /\ PaymentAsked' /\ PageShowsItsFile' /\ tab' \in Tab /\ hops' \in 0 .. MaxHops
        /\ answersDue' \subseteq PageCall /\ PollsOn'
    BY <1>2, <1>7 DEF LedOn, PagesTypeOK, PaymentAsked, PageShowsItsFile, PollsOn
  <2>2. RedirectsLeft'
    BY <1>2, <1>7 DEF LedOn, RedirectsLeft, Left, PaidStatus
  <2> QED BY <1>2, <2>1, <2>2, TabMoves
<1>8. CASE tab' = [tab EXCEPT !.shown = View(c)] /\ UNCHANGED <<hops, answersDue>>
  <2>1. PICK v \in Views : v = View(c) /\ v.of = c
    BY <1>2, <1>3, ViewTyped
  <2>2. tab' = [tab EXCEPT !.shown = v]
    BY <1>8, <2>1
  <2>3. /\ tab' \in Tab /\ tab'.page = "signature" /\ tab'.on = c /\ tab'.load = tab.load
        /\ tab'.shown = v
    BY <1>1, <1>2, <2>2, TabPlaces DEF Places
  <2>4. PaymentAsked' /\ PageShowsItsFile' /\ hops' \in 0 .. MaxHops
    BY <1>3, <1>8, <2>1, <2>3 DEF PaymentAsked, PageShowsItsFile
  <2>5. RedirectsLeft'
    BY <1>1, <1>2, <1>8, <2>3 DEF LedOn, RedirectsLeft, Left, PaidStatus
  <2>6. answersDue' \subseteq PageCall /\ PollsOn'
    BY <1>2, <1>8, <2>3 DEF LedOn, PagesTypeOK, PollsOn
  <2> QED BY <1>2, <2>3, <2>4, <2>5, <2>6, TabMoves
<1> QED BY <1>1, <1>4, <1>6, <1>7, <1>8 DEF PollSignature

LEMMA LedOnStep == LedOn /\ [PagesNext]_pagesVars => LedOn'
<1> SUFFICES ASSUME LedOn, [PagesNext]_pagesVars PROVE LedOn'
  OBVIOUS
<1>1. CASE UNCHANGED pagesVars
  BY <1>1 DEF pagesVars, LedOn, PagesTypeOK, DocumentsStay, documentsComplete, Past, RedirectsLeft,
              Left, PaidStatus, PaymentAsked, PageShowsItsFile, PollsOn
<1>2. CASE Backend
  BY <1>2, DecidedStep, RefuseStep, SignatureEndsStep DEF Backend
<1>3. CASE User
  <2>1. ASSUME NEW b \in Button, Press(b) PROVE LedOn'
    BY <2>1, PressStep
  <2>2. ASSUME NEW t \in Types, handleUpload(t) PROVE LedOn'
    BY <2>2, UploadStep
  <2> QED BY <1>3, <2>1, <2>2, FollowStep, SubscribeStep, ContinueStep DEF User
<1>4. CASE Answers
  <2>1. ASSUME NEW k \in answersDue, LateAnswer(k) PROVE LedOn'
    BY <2>1, LateAnswerStep
  <2> QED BY <1>4, <2>1, PageLoadedStep, LoadFailsStep, ListedStep, PollDocumentsStep,
             PollSignatureStep DEF Answers
<1> QED BY <1>1, <1>2, <1>3, <1>4 DEF PagesNext

\* The inductive invariant of the pages: the documents of a file past the gate stay complete,
\* and a tab has three redirects at most, those seen and those left.
THEOREM PagesInvariance == PagesSpec => []LedOn
BY LedOnStart, LedOnStep, PTL DEF PagesSpec

\* Once loaded, the pages of the signature, the payment and the validation show the file of
\* their URL, although the router keeps them mounted from file to file: the answers for the
\* URLs left are dropped (DossierSignaturePage, DossierPaiementPage, DossierValidationPage).
THEOREM FileShown == PagesSpec => []PageShowsItsFile
BY PagesInvariance, PTL DEF LedOn

LEMMA OfferedSound == LedOn => OfferedIsAccepted
<1> SUFFICES ASSUME LedOn, UpToDate
             PROVE  /\ \A b \in Offered(tab) : Accepts(tab.on, b)
                    /\ \A t \in RequiredTypes[tab.on] :
                          uploadOffered(tab, t) => replaceable(docs[tab.on][t])
  BY DEF OfferedIsAccepted
<1>1. PICK c : c = tab.on
  OBVIOUS
<1>2. c \in Dossiers /\ tab.shown = View(c) /\ tab.shown # Null /\ PagesTypeOK
  BY <1>1, TabPlaces DEF UpToDate, Settled, LedOn, PagesTypeOK, Places
<1>3. tab.shown.of = c /\ tab.shown.status = status[c] /\ tab.shown.docs = docs[c]
  BY <1>2, ViewTyped
<1>4. ASSUME NEW b \in Offered(tab) PROVE Accepts(c, b)
  <2>1. tab.page = "paiement" => status[c] = "en_attente_paiement"
    BY <1>2, <1>3 DEF LedOn, PaymentAsked
  <2>2. \/ b = "continue"
        \/ b = "sign" /\ allRequiredDocumentsReady(tab.shown)
        \/ b = "pay" /\ status[c] \in {"actif", "en_attente_paiement"}
        \/ b = "validate" /\ status[c] = "en_attente_de_validation_documentaire"
    <3>1. PICK r \in BOOLEAN : r = tab.documentsReady
      BY <1>2, TabPlaces DEF PagesTypeOK, Places
    <3>2. r = TRUE => allRequiredDocumentsReady(tab.shown)
      BY <3>1 DEF UpToDate
    <3>3. b = "sign" => r = TRUE
      BY <1>4, <3>1 DEF Offered
    <3>4. b # "sign" => \/ b = "continue"
                        \/ b = "pay" /\ status[c] \in {"actif", "en_attente_paiement"}
                        \/ b = "validate" /\ status[c] = "en_attente_de_validation_documentaire"
      BY <1>3, <1>4, <2>1 DEF Offered, Button
    <3> QED BY <3>2, <3>3, <3>4
  <2>3. b = "sign" => documentsComplete(docs[c], c)
    BY <1>3, <2>2 DEF allRequiredDocumentsReady, documentsComplete
  <2> QED BY <2>2, <2>3 DEF Accepts, PaidStatus
<1>5. ASSUME NEW t \in RequiredTypes[c], uploadOffered(tab, t)
      PROVE  replaceable(docs[c][t])
  BY <1>3, <1>5 DEF uploadOffered, slotCanSelect, replaceable
<1> QED BY <1>1, <1>4, <1>5

\* A page that shows a file as it is offers nothing the back end will refuse: the guards of
\* the pages and of the contracts' handlers say the same (DossierPaiementPage,
\* DossierValidationPage, MonDossierPage; subscription-contract handlers).
THEOREM OfferAccepted == PagesSpec => []OfferedIsAccepted
BY PagesInvariance, OfferedSound, PTL

LEMMA NoCircle == LedOn => RedirectsAgree
<1> SUFFICES ASSUME LedOn, tab.on \notin refused PROVE hops <= 3
  BY DEF RedirectsAgree
<1>1. PICK n : n = Left(tab.page, tab.load, status[tab.on])
  OBVIOUS
<1>2. n \in 0 .. 3 /\ hops \in Nat
  BY <1>1, LeftBound, DossiersAssumption DEF LedOn, PagesTypeOK
<1>3. hops = 0 \/ hops + n <= 3
  BY <1>1 DEF LedOn, RedirectsLeft
<1> QED BY <1>2, <1>3

LEMMA NoFileLeft == LedOn => NoDeadEnd
<1> SUFFICES ASSUME LedOn, NEW c \in Pending \ refused,
                    NEW q, q = dossierDetailPath(status[c]),
                    NEW tb, tb = Filled(Mount(q, c), View(c))
             PROVE  /\ Redirect(q, View(c)) = q
                    /\ \/ Offered(tb) # {}
                       \/ \E t \in Types : uploadOffered(tb, t)
  BY DEF NoDeadEnd
<1>1. c \in Dossiers /\ PagesTypeOK /\ status[c] \in PENDING_SUBSCRIPTION_STATUSES
  BY DEF Pending, LedOn
<1>2. PICK v \in Views : v = View(c)
  BY <1>1, ViewTyped
<1>3. v.of = c /\ v.status = status[c] /\ v.docs = docs[c]
  BY <1>1, <1>2, ViewTyped
<1>4. PICK m : m = Mount(q, c)
  OBVIOUS
<1>5. m \in Tab /\ m.page = q /\ m.validationComplete = FALSE
  <2>1. q \in Page
    BY DetailLeft
  <2> QED BY <1>1, <1>4, <2>1, MountedSound DEF LedOn, Mount
<1>6. /\ tb.page = q /\ tb.shown = v
      /\ q = "signature" /\ allRequiredDocumentsReady(v) => tb.documentsReady
      /\ v.status # "actif" => ~ tb.validationComplete
  BY <1>2, <1>4, <1>5, FilledSound
<1>7. PICK s : s = status[c]
  OBVIOUS
<1>8. s \in Past => allRequiredDocumentsReady(v)
  BY <1>1, <1>3, <1>7
     DEF LedOn, DocumentsStay, documentsComplete, allRequiredDocumentsReady
<1>9. CASE s = "en_attente_paiement"
  <2>1. q = "paiement"
    BY <1>7, <1>9 DEF dossierDetailPath, PaidStatus, SigningStatus
  <2>2. Redirect(q, v) = q
    BY <1>3, <1>7, <1>9, <2>1 DEF Redirect, PaiementRedirect, PaidStatus
  <2>3. "pay" \in Offered(tb)
    BY <1>6, <2>1 DEF Offered, Button
  <2> QED BY <1>2, <2>2, <2>3
<1>10. CASE s = "en_attente_de_validation_documentaire"
  <2>1. q = "validation"
    BY <1>7, <1>10 DEF dossierDetailPath, PaidStatus, SigningStatus
  <2>2. Redirect(q, v) = q
    BY <2>1 DEF Redirect
  <2>3. "validate" \in Offered(tb)
    BY <1>3, <1>7, <1>10, <1>6, <2>1 DEF Offered, Button
  <2> QED BY <1>2, <2>2, <2>3
<1>11. CASE s \in SigningStatus
  <2>1. q = "signature"
    BY <1>7, <1>11 DEF dossierDetailPath, PaidStatus, SigningStatus
  <2>2. allRequiredDocumentsReady(v)
    BY <1>8, <1>11 DEF Past
  <2>3. Redirect(q, v) = q
    BY <1>3, <1>7, <1>11, <2>1, <2>2
       DEF Redirect, SignatureRedirect, PaidStatus, SigningStatus
  <2>4. "sign" \in Offered(tb)
    BY <1>6, <2>1, <2>2 DEF Offered, Button
  <2> QED BY <1>2, <2>3, <2>4
<1>12. CASE s = "en_attente_de_justificatif"
  <2>1. q = "dossier"
    BY <1>7, <1>12 DEF dossierDetailPath, PaidStatus, SigningStatus
  <2>2. Redirect(q, v) = q
    BY <1>3, <1>7, <1>12, <2>1 DEF Redirect, DossierRedirect, PaidStatus, SigningStatus
  <2>3. CASE allRequiredDocumentsReady(v)
    <3>1. ~ hasPendingVerification(v)
      BY <2>3 DEF allRequiredDocumentsReady, hasPendingVerification, isSlotReadyForSignature
    <3>2. "continue" \in Offered(tb)
      BY <1>6, <2>1, <2>3, <3>1 DEF Offered, Button
    <3> QED BY <1>2, <2>2, <3>2
  <2>4. CASE ~ allRequiredDocumentsReady(v)
    <3>1. PICK t \in RequiredTypes[c] : docs[c][t] # "pre_qualifie"
      BY <1>3, <2>4 DEF allRequiredDocumentsReady, isSlotReadyForSignature
    <3>2. docs[c][t] \in DocStatus
      BY <1>1 DEF PagesTypeOK
    <3>3. uploadOffered(tb, t)
      BY <1>3, <1>6, <2>1, <3>1, <3>2 DEF uploadOffered, slotCanSelect, DocStatus
    <3>4. t \in Types
      BY <1>1 DEF Types
    <3> QED BY <1>2, <2>2, <3>3, <3>4
  <2> QED BY <2>3, <2>4
<1> QED BY <1>1, <1>7, <1>9, <1>10, <1>11, <1>12 DEF PENDING_SUBSCRIPTION_STATUSES, SigningStatus

\* The pages send the user on three times at most, and the page a file's card leads to keeps
\* the user and lets the file move on (dossierDetailPath and the pages' redirects).
THEOREM LedToTheEnd == PagesSpec => []PagesLeadOn
<1>1. LedOn => PagesLeadOn
  BY NoCircle, NoFileLeft DEF PagesLeadOn
<1> QED BY <1>1, PagesInvariance, PTL

-----------------------------------------------------------------------------
(* The advisor. *)

\* The answers a as they were before the question h[i] was asked.
Taken(a, h, i) ==
    [r \in QuestionId |->
        IF \E j \in i .. Len(h) : r \in clearAdvisorAnswer(h[j]) THEN None ELSE a[r]]

\* The answers a with q answered, and with q taken back.
Answered(a, q, v) == [r \in QuestionId |-> IF r = q THEN v ELSE a[r]]
Withdrawn(a, q) == [r \in QuestionId |-> IF r \in clearAdvisorAnswer(q) THEN None ELSE a[r]]

\* Each question of the history is the one the advisor asks without its answer and the later ones.
AskedInOrder ==
    \A i \in 1 .. Len(history) : NextQuestion(Age[who], Taken(answers, history, i)) = history[i]

\* An answer that another led to stands only with that other.
Derived(a) ==
    /\ a["has_scholarship"] # None => a["is_enrolled"] = "yes"
    /\ a["social_right_level"] # None => a["travel_habit"] = "social_rights"
    /\ a["liberte_support"] # None => a["travel_habit"] = "occasional"

\* The inductive invariant of the advisor.
Advised ==
    /\ AdvisorTypeOK /\ AskedInOrder /\ Derived(answers) /\ AnswersOwned /\ FileAsksForAnswers
    /\ step <= 3 => answers = NoAnswer /\ history = <<>>
    /\ step <= 5 => created = None
    /\ step = 5 => canRecommend(Age[who], answers)

Answer == UNION {Options(q) : q \in QuestionId}
AnswerSheet == [QuestionId -> {None} \cup Answer]

LEMMA AnswerNames ==
    /\ None \notin QuestionId /\ None \notin Answer
    /\ None \notin DOMAIN productCatalog /\ None \notin Codes
    /\ \A q \in QuestionId : \A v \in Options(q) : v \in Answer
    /\ None \notin {"yes", "no", "daily", "occasional", "social_rights", "department_assigned"}
<1>1. /\ None \notin QuestionId /\ None \notin Answer
      /\ None \notin DOMAIN productCatalog /\ None \notin Codes
  BY NoAnswerAssumption DEF Answer
<1>2. \A q \in QuestionId : \A v \in Options(q) : v \in Answer
  BY DEF Answer
<1>3. Options("is_enrolled") = {"yes", "no"}
  BY DEF Options
<1>4. Options("travel_habit") = {"daily", "occasional", "social_rights", "department_assigned"}
  BY DEF Options
<1>5. "is_enrolled" \in QuestionId /\ "travel_habit" \in QuestionId
  BY DEF QuestionId
<1> QED BY <1>1, <1>2, <1>3, <1>4, <1>5

\* A profile is found for every age.
LEMMA ProfileOf ==
    ASSUME NEW age \in Nat
    PROVE  deduceProfile(age) \in {"junior", "scolaire", "etudiant", "adulte", "senior"}
BY DEF deduceProfile

\* The question asked is one the person has not answered, nor anything that follows from it.
LEMMA AskedIsNew ==
    ASSUME NEW age \in Nat, NEW a \in AnswerSheet, Derived(a), NEW q, q = NextQuestion(age, a), q # None
    PROVE  /\ q \in QuestionId
           /\ \A r \in clearAdvisorAnswer(q) : a[r] = None
           /\ q = "has_scholarship" => a["is_enrolled"] = "yes"
           /\ q = "social_right_level" => a["travel_habit"] = "social_rights"
           /\ q = "liberte_support" => a["travel_habit"] = "occasional"
<1>1. PICK p : p = ProfileQuestion(age, a)
  OBVIOUS
<1>2. \/ p = None
      \/ p = "is_enrolled" /\ a["is_enrolled"] = None
      \/ p = "has_scholarship" /\ a["is_enrolled"] = "yes" /\ a["has_scholarship"] = None
      \/ p = "travel_habit" /\ a["travel_habit"] = None
      \/ p = "social_right_level" /\ a["travel_habit"] = "social_rights" /\ a["social_right_level"] = None
  BY <1>1, AnswerNames DEF ProfileQuestion, Pupils, Adults
<1>3. \/ p # None /\ q = p
      \/ q = "liberte_support" /\ a["travel_habit"] = "occasional" /\ a["liberte_support"] = None
      \/ q = "has_navigo_card" /\ a["has_navigo_card"] = None
  BY <1>1 DEF NextQuestion
<1>4. \A r \in clearAdvisorAnswer(q) : a[r] = None
  BY <1>2, <1>3, AnswerNames DEF clearAdvisorAnswer, Derived
<1> QED BY <1>2, <1>3, <1>4, AnswerNames DEF QuestionId

LEMMA ClearedTyped ==
    ASSUME NEW q \in QuestionId
    PROVE  q \in clearAdvisorAnswer(q) /\ clearAdvisorAnswer(q) \subseteq QuestionId
BY DEF clearAdvisorAnswer, QuestionId

\* Nothing but the answer to the question asked changes.
LEMMA AnswerApplied ==
    ASSUME NEW q \in QuestionId, NEW v \in Answer, answers \in AnswerSheet,
           \A r \in clearAdvisorAnswer(q) : answers[r] = None
    PROVE  applyAdvisorAnswer(q, v) = Answered(answers, q, v)
<1>1. ASSUME NEW r \in QuestionId
      PROVE  applyAdvisorAnswer(q, v)[r] = IF r = q THEN v ELSE answers[r]
  <2>1. q = "is_enrolled" => answers["has_scholarship"] = None
    BY DEF clearAdvisorAnswer
  <2>2. q = "travel_habit" => answers["social_right_level"] = None /\ answers["liberte_support"] = None
    BY DEF clearAdvisorAnswer
  <2> QED BY <2>1, <2>2 DEF applyAdvisorAnswer
<1>2. applyAdvisorAnswer(q, v) =
         [r \in QuestionId |-> applyAdvisorAnswer(q, v)[r]]
  BY DEF applyAdvisorAnswer
<1> QED BY <1>1, <1>2 DEF Answered

\* Answering a question leaves the past of the questions before it as it was.
LEMMA TakenAppend ==
    ASSUME NEW a \in AnswerSheet, NEW h \in Seq(QuestionId), NEW q \in QuestionId, NEW v,
           \A r \in clearAdvisorAnswer(q) : a[r] = None
    PROVE  /\ \A i \in 1 .. Len(h) : Taken(Answered(a, q, v), Append(h, q), i) = Taken(a, h, i)
           /\ Taken(Answered(a, q, v), Append(h, q), Len(h) + 1) = a
<1> DEFINE n == Len(h)
<1>1. PICK b : b = Answered(a, q, v)
  OBVIOUS
<1>2. \A r \in QuestionId : b[r] = IF r = q THEN v ELSE a[r]
  BY <1>1 DEF Answered
<1>3. /\ n \in Nat /\ Len(Append(h, q)) = n + 1 /\ Append(h, q)[n + 1] = q
      /\ \A j \in 1 .. n : Append(h, q)[j] = h[j]
  BY AppendProperties, LenProperties
<1>4. q \in clearAdvisorAnswer(q)
  BY ClearedTyped
<1>5. ASSUME NEW i \in 1 .. n + 1, NEW r \in QuestionId
      PROVE  (\E j \in i .. n + 1 : r \in clearAdvisorAnswer(Append(h, q)[j])) <=>
             (r \in clearAdvisorAnswer(q) \/ \E j \in i .. n : r \in clearAdvisorAnswer(h[j]))
  <2>1. i .. n + 1 = (i .. n) \cup {n + 1} /\ \A j \in i .. n : j \in 1 .. n
    BY <1>3
  <2> QED BY <1>3, <2>1
<1>6. ASSUME NEW i \in 1 .. n, NEW r \in QuestionId
      PROVE  Taken(b, Append(h, q), i)[r] = Taken(a, h, i)[r]
  <2>1. (\E j \in i .. n + 1 : r \in clearAdvisorAnswer(Append(h, q)[j])) <=>
        (r \in clearAdvisorAnswer(q) \/ \E j \in i .. n : r \in clearAdvisorAnswer(h[j]))
    <3>1. i \in 1 .. n + 1
      BY <1>3
    <3> QED BY <1>5, <3>1, Zenon
  <2>2. /\ Taken(a, h, i)[r] =
              IF \E j \in i .. n : r \in clearAdvisorAnswer(h[j]) THEN None ELSE a[r]
        /\ Taken(b, Append(h, q), i)[r] =
              IF \E j \in i .. n + 1 : r \in clearAdvisorAnswer(Append(h, q)[j]) THEN None ELSE b[r]
    BY <1>3 DEF Taken
  <2>3. r \notin clearAdvisorAnswer(q) => b[r] = a[r]
    BY <1>4, <1>2
  <2> QED BY <2>1, <2>2, <2>3
<1>7. ASSUME NEW r \in QuestionId
      PROVE  Taken(b, Append(h, q), n + 1)[r] = a[r]
  <2>1. n + 1 .. n = {}
    BY <1>3
  <2>2. (\E j \in n + 1 .. n + 1 : r \in clearAdvisorAnswer(Append(h, q)[j])) <=>
        r \in clearAdvisorAnswer(q)
    BY <1>3, <1>5, <2>1
  <2> QED BY <1>3, <1>4, <1>2, <2>2 DEF Taken
<1>8. \A i : Taken(b, Append(h, q), i) = [r \in QuestionId |-> Taken(b, Append(h, q), i)[r]]
  BY DEF Taken
<1>9. \A i : Taken(a, h, i) = [r \in QuestionId |-> Taken(a, h, i)[r]]
  BY DEF Taken
<1>10. a = [r \in QuestionId |-> a[r]]
  BY DEF AnswerSheet
<1> QED BY <1>1, <1>3, <1>6, <1>7, <1>8, <1>9, <1>10

\* Taking back the last question leaves the past of those before it as it was.
LEMMA TakenFront ==
    ASSUME NEW a \in AnswerSheet, NEW h \in Seq(QuestionId), h # <<>>
    PROVE  /\ Front(h) \in Seq(QuestionId) /\ Len(Front(h)) = Len(h) - 1
           /\ Len(h) \in Nat /\ Len(h) >= 1
           /\ \A i \in 1 .. Len(h) - 1 : 
                 /\ Front(h)[i] = h[i]
                 /\ Taken(Withdrawn(a, Last(h)), Front(h), i) = Taken(a, h, i)
           /\ Withdrawn(a, Last(h)) = Taken(a, h, Len(h))
           /\ ToSet(h) = ToSet(Front(h)) \cup {Last(h)}
<1> DEFINE n == Len(h)
<1>1. PICK b : b = Withdrawn(a, Last(h))
  OBVIOUS
<1>2. n \in Nat /\ n >= 1 /\ Last(h) = h[n] /\ h \in [1 .. n -> QuestionId]
  BY LenProperties, EmptySeq DEF Last
<1>3. /\ b = [r \in QuestionId |-> b[r]]
      /\ \A r \in QuestionId : b[r] = IF r \in clearAdvisorAnswer(Last(h)) THEN None ELSE a[r]
  BY <1>1 DEF Withdrawn
<1>4. /\ Front(h) \in Seq(QuestionId) /\ Len(Front(h)) = n - 1
      /\ \A i \in 1 .. n - 1 : Front(h)[i] = h[i]
  <2>1. \A i \in 1 .. n - 1 : h[i] \in QuestionId
    BY <1>2
  <2> QED BY <1>2, <2>1, SubSeqProperties DEF Front
<1>5. ASSUME NEW i \in 1 .. n - 1, NEW r \in QuestionId
      PROVE  Taken(b, Front(h), i)[r] = Taken(a, h, i)[r]
  <2>1. i .. n = (i .. n - 1) \cup {n} /\ \A j \in i .. n - 1 : j \in 1 .. n - 1
    BY <1>2
  <2>2. (\E j \in i .. n : r \in clearAdvisorAnswer(h[j])) <=>
        (r \in clearAdvisorAnswer(h[n]) \/ \E j \in i .. n - 1 : r \in clearAdvisorAnswer(Front(h)[j]))
    BY <1>4, <2>1
  <2> QED BY <1>2, <1>4, <1>3, <2>2 DEF Taken
<1>6. ASSUME NEW r \in QuestionId PROVE Taken(a, h, n)[r] = b[r]
  <2>1. n .. n = {n}
    BY <1>2
  <2> QED BY <1>2, <1>3, <2>1 DEF Taken
<1>7. \A x, y, i : Taken(x, y, i) = [r \in QuestionId |-> Taken(x, y, i)[r]]
  BY DEF Taken
<1>8. \A i \in 1 .. n - 1 : Taken(b, Front(h), i) = Taken(a, h, i)
  BY <1>5, <1>7
<1>9. b = Taken(a, h, n)
  BY <1>6, <1>7, <1>3
<1>10. ToSet(h) = ToSet(Front(h)) \cup {Last(h)}
  <2>1. DOMAIN h = 1 .. n /\ DOMAIN Front(h) = 1 .. n - 1
    BY <1>2, <1>4, LenProperties
  <2>2. 1 .. n = (1 .. n - 1) \cup {n}
    BY <1>2
  <2> QED BY <1>2, <1>4, <2>1, <2>2 DEF ToSet
<1> QED BY <1>1, <1>2, <1>4, <1>8, <1>9, <1>10

LEMMA AdvisorTyped ==
    ASSUME Advised
    PROVE  /\ answers \in AnswerSheet /\ history \in Seq(QuestionId) /\ Len(history) \in Nat
           /\ who \in Beneficiaries /\ Age[who] \in Nat /\ step \in 1 .. 6
BY LenProperties, BeneficiariesAssumption DEF Advised, AdvisorTypeOK, AnswerSheet, Answer

LEMMA NothingAnswered ==
    /\ NoAnswer \in AnswerSheet /\ Derived(NoAnswer)
    /\ \A q \in QuestionId : NoAnswer[q] = None
    /\ <<>> \in Seq(QuestionId) /\ Len(<<>>) = 0 /\ ToSet(<<>>) = {}
BY EmptySeq DEF NoAnswer, AnswerSheet, Derived, QuestionId, ToSet

\* With no answer and no question there is nothing to be wrong.
LEMMA AdvisedAnew ==
    ASSUME step' \in 1 .. 4, who' \in Beneficiaries, usage' \in {"daily", "occasional", "pay-per-use"},
           created' = None, answers' = NoAnswer, history' = <<>>
    PROVE  Advised'
<1>1. AdvisorTypeOK'
  BY NothingAnswered DEF AdvisorTypeOK, AnswerSheet, Answer
<1>2. AskedInOrder' /\ AnswersOwned' /\ Derived(answers)'
  BY NothingAnswered DEF AskedInOrder, AnswersOwned, Derived
<1>3. FileAsksForAnswers'
  BY DEF FileAsksForAnswers
<1>4. step' # 5
  OBVIOUS
<1> QED BY <1>1, <1>2, <1>3, <1>4 DEF Advised

LEMMA AdvisedStart == AdvisorInit => Advised
<1> SUFFICES ASSUME AdvisorInit PROVE Advised
  OBVIOUS
<1>1. AdvisorTypeOK
  BY NothingAnswered DEF AdvisorInit, AdvisorTypeOK, AnswerSheet, Answer
<1>2. AskedInOrder /\ AnswersOwned /\ Derived(answers) /\ FileAsksForAnswers
  BY NothingAnswered DEF AdvisorInit, AskedInOrder, AnswersOwned, Derived, FileAsksForAnswers
<1> QED BY <1>1, <1>2 DEF AdvisorInit, Advised

\* Only the beneficiary's page and the one of the usage come before the questions.
LEMMA AnswerStep ==
    ASSUME Advised, NEW v, handleAdvisorAnswer(v)
    PROVE  Advised' /\ Len(history') = Len(history) + 1
<1>1. PICK q, a, h : q = NextQuestion(Age[who], answers) /\ a = answers /\ h = history
  OBVIOUS
<1>2. /\ step = 4 /\ q # None /\ v \in Options(q) /\ answers' = applyAdvisorAnswer(q, v)
      /\ history' = IF a[q] = None THEN Append(h, q) ELSE h
      /\ UNCHANGED <<step, who, usage, created>>
  BY <1>1 DEF handleAdvisorAnswer
<1>3. a \in AnswerSheet /\ h \in Seq(QuestionId) /\ Age[who] \in Nat /\ Derived(a)
  BY <1>1, AdvisorTyped DEF Advised, Derived
<1>4. /\ q \in QuestionId
      /\ \A r \in clearAdvisorAnswer(q) : a[r] = None
      /\ q = "has_scholarship" => a["is_enrolled"] = "yes"
      /\ q = "social_right_level" => a["travel_habit"] = "social_rights"
      /\ q = "liberte_support" => a["travel_habit"] = "occasional"
  BY <1>1, <1>2, <1>3, AskedIsNew
<1>5. a[q] = None /\ v \in Answer
  BY <1>2, <1>4, ClearedTyped, AnswerNames
<1>6. PICK b : b = Answered(a, q, v)
  OBVIOUS
<1>7. answers' = b /\ history' = Append(h, q)
  BY <1>1, <1>2, <1>3, <1>4, <1>5, <1>6, AnswerApplied
<1>8. /\ Len(h) \in Nat /\ Len(Append(h, q)) = Len(h) + 1 /\ Append(h, q) \in Seq(QuestionId)
      /\ \A i \in 1 .. Len(h) : Append(h, q)[i] = h[i]
      /\ Append(h, q)[Len(h) + 1] = q
  BY <1>3, <1>4, AppendProperties, LenProperties
<1>9. AdvisorTypeOK'
  <2>1. b \in AnswerSheet
    BY <1>3, <1>5, <1>6 DEF AnswerSheet, Answered
  <2> QED BY <1>2, <1>7, <1>8, <2>1 DEF Advised, AdvisorTypeOK, AnswerSheet, Answer
<1>10. /\ \A i \in 1 .. Len(h) : Taken(b, Append(h, q), i) = Taken(a, h, i)
       /\ Taken(b, Append(h, q), Len(h) + 1) = a
  <2>1. \A r \in clearAdvisorAnswer(q) : a[r] = None
    BY <1>4
  <2>2. q \in QuestionId
    BY <1>4
  <2> QED BY <1>3, <1>6, <2>1, <2>2, TakenAppend
<1>11. AskedInOrder'
  <2>1. ASSUME NEW i \in 1 .. Len(h) + 1
        PROVE  NextQuestion(Age[who], Taken(b, Append(h, q), i)) = Append(h, q)[i]
    <3>1. CASE i = Len(h) + 1
      BY <1>1, <1>8, <1>10, <3>1
    <3>2. CASE i \in 1 .. Len(h)
      <4>1. Taken(b, Append(h, q), i) = Taken(a, h, i)
        BY <1>10, <3>2
      <4>2. NextQuestion(Age[who], Taken(a, h, i)) = h[i]
        BY <1>1, <3>2 DEF Advised, AskedInOrder
      <4> QED BY <1>8, <3>2, <4>1, <4>2
    <3> QED BY <1>8, <3>1, <3>2
  <2>2. \A i \in 1 .. Len(history') :
           NextQuestion(Age[who'], Taken(answers', history', i)) = history'[i]
    BY <1>2, <1>7, <1>8, <2>1
  <2> QED BY <2>2 DEF AskedInOrder
<1>12. Derived(b)
  <2>1. \A r \in QuestionId : b[r] = IF r = q THEN v ELSE a[r]
    BY <1>6 DEF Answered
  <2>2. q = "is_enrolled" => a["has_scholarship"] = None
    BY <1>4 DEF clearAdvisorAnswer
  <2>3. q = "travel_habit" => a["social_right_level"] = None /\ a["liberte_support"] = None
    BY <1>4 DEF clearAdvisorAnswer
  <2>4. {"is_enrolled", "has_scholarship", "travel_habit", "social_right_level",
         "liberte_support"} \subseteq QuestionId
    BY DEF QuestionId
  <2> QED BY <1>3, <1>4, <2>1, <2>2, <2>3, <2>4 DEF Derived
<1>13. AnswersOwned'
  <2>1. ToSet(Append(h, q)) = ToSet(h) \cup {q}
    <3>1. DOMAIN h = 1 .. Len(h) /\ DOMAIN Append(h, q) = 1 .. Len(h) + 1
      BY <1>3, <1>8, LenProperties
    <3>2. 1 .. Len(h) + 1 = (1 .. Len(h)) \cup {Len(h) + 1}
      BY <1>8
    <3> QED BY <1>8, <3>1, <3>2 DEF ToSet
  <2>2. ASSUME NEW r \in QuestionId, b[r] # None
        PROVE  \/ r \in ToSet(Append(h, q))
               \/ /\ r = "travel_habit" /\ CurrentProfile[who] \in Adults
                  /\ b[r] = usageToTravelHabit(usage)
    BY <1>1, <1>6, <2>1, <2>2 DEF Advised, AnswersOwned, Answered
  <2>3. \A r \in QuestionId : answers'[r] # None =>
           \/ r \in ToSet(history')
           \/ /\ r = "travel_habit" /\ CurrentProfile[who'] \in Adults
              /\ answers'[r] = usageToTravelHabit(usage')
    BY <1>2, <1>7, <2>2
  <2> QED BY <2>3 DEF AnswersOwned, usageToTravelHabit
<1>14. created' = None /\ FileAsksForAnswers'
  BY <1>2 DEF Advised, FileAsksForAnswers
<1> QED BY <1>1, <1>2, <1>7, <1>8, <1>9, <1>11, <1>12, <1>13, <1>14 DEF Advised, Derived

LEMMA NextStep ==
    ASSUME Advised, goNext
    PROVE  Advised'
<1>1. PICK a : a = answers
  OBVIOUS
<1>2. /\ step \in 1 .. 4 /\ step' = step + 1 /\ UNCHANGED <<who, usage, created>>
      /\ step = 4 => canRecommend(Age[who], a)
      /\ created = None
  BY <1>1, AdvisorTyped DEF goNext, Advised
<1>3. CASE step # 3
  <2>1. UNCHANGED <<answers, history>>
    BY <1>3 DEF goNext
  <2>2. AdvisorTypeOK'
    BY <1>2, <2>1 DEF Advised, AdvisorTypeOK
  <2>3. AskedInOrder' /\ Derived(answers)' /\ AnswersOwned' /\ FileAsksForAnswers'
    BY <1>2, <2>1
       DEF Advised, AskedInOrder, Derived, AnswersOwned, FileAsksForAnswers, usageToTravelHabit
  <2>4. step' <= 3 => answers' = NoAnswer /\ history' = <<>>
    BY <1>2, <2>1 DEF Advised
  <2>5. step' = 5 => canRecommend(Age[who'], answers')
    BY <1>1, <1>2, <2>1
  <2> QED BY <1>2, <2>2, <2>3, <2>4, <2>5 DEF Advised
<1>4. CASE step = 3
  <2>1. a = NoAnswer /\ history' = <<>> /\ answers' = seedAnswersFromUsage /\ step' = 4
    BY <1>1, <1>2, <1>4 DEF goNext, Advised
  <2>2. PICK u \in {"daily", "occasional"} : u = usageToTravelHabit(usage)
    BY DEF usageToTravelHabit
  <2>3. PICK b : b = seedAnswersFromUsage
    OBVIOUS
  <2>4. \/ b = NoAnswer
        \/ CurrentProfile[who] \in Adults /\ b = [NoAnswer EXCEPT !["travel_habit"] = u]
    BY <1>1, <2>1, <2>2, <2>3 DEF seedAnswersFromUsage
  <2>5. "travel_habit" \in QuestionId /\ u \in Answer
    <3>1. "travel_habit" \in QuestionId
      BY DEF QuestionId
    <3>2. u \in Options("travel_habit")
      BY DEF Options
    <3> QED BY <3>1, <3>2, AnswerNames
  <2>6. /\ b \in AnswerSheet
        /\ \A r \in QuestionId : b[r] # None =>
              r = "travel_habit" /\ CurrentProfile[who] \in Adults /\ b[r] = u
    BY <2>4, <2>5, NothingAnswered DEF AnswerSheet
  <2>7. Derived(b)
    BY <2>6 DEF Derived, QuestionId
  <2>8. AdvisorTypeOK'
    BY <1>2, <2>1, <2>3, <2>6, NothingAnswered DEF Advised, AdvisorTypeOK, AnswerSheet, Answer
  <2>9. AskedInOrder'
    BY <2>1, NothingAnswered DEF AskedInOrder
  <2>10. AnswersOwned'
    <3>1. \A r \in QuestionId : answers'[r] # None =>
             /\ r = "travel_habit" /\ CurrentProfile[who'] \in Adults
             /\ answers'[r] = usageToTravelHabit(usage')
      BY <1>2, <2>1, <2>2, <2>3, <2>6
    <3> QED BY <3>1 DEF AnswersOwned, usageToTravelHabit
  <2>11. FileAsksForAnswers'
    BY <1>2 DEF FileAsksForAnswers
  <2> QED BY <1>2, <2>1, <2>3, <2>7, <2>8, <2>9, <2>10, <2>11 DEF Advised, Derived
<1> QED BY <1>3, <1>4

LEMMA BackStep ==
    ASSUME Advised, goBack
    PROVE  /\ Advised'
           /\ step = 4 /\ step' = 4 /\ Len(history') < Len(history)
                => NextQuestion(Age[who'], answers') = Last(history)
<1>1. PICK a, h : a = answers /\ h = history
  OBVIOUS
<1>2. /\ a \in AnswerSheet /\ h \in Seq(QuestionId) /\ Derived(a)
      /\ step \in 2 .. 4 /\ UNCHANGED <<who, usage, created>> /\ created = None
  BY <1>1, AdvisorTyped DEF goBack, Advised, Derived
<1>3. CASE step = 4 /\ h # <<>>
  <2>1. PICK b : b = Withdrawn(a, Last(h))
    OBVIOUS
  <2>2. history' = Front(h) /\ answers' = b /\ step' = 4
    BY <1>1, <1>3, <2>1 DEF goBack, Withdrawn
  <2>3. /\ Front(h) \in Seq(QuestionId) /\ Len(Front(h)) = Len(h) - 1
        /\ Len(h) \in Nat /\ Len(h) >= 1
        /\ \A i \in 1 .. Len(h) - 1 : Front(h)[i] = h[i] /\ Taken(b, Front(h), i) = Taken(a, h, i)
        /\ b = Taken(a, h, Len(h))
        /\ ToSet(h) = ToSet(Front(h)) \cup {Last(h)}
    BY <1>2, <1>3, <2>1, TakenFront
  <2>4. \A i \in 1 .. Len(h) : NextQuestion(Age[who], Taken(a, h, i)) = h[i]
    BY <1>1 DEF Advised, AskedInOrder
  <2>5. AdvisorTypeOK'
    <3>1. b \in AnswerSheet
      BY <1>2, <2>1 DEF AnswerSheet, Withdrawn
    <3> QED BY <1>2, <2>2, <2>3, <3>1 DEF Advised, AdvisorTypeOK, AnswerSheet, Answer
  <2>6. AskedInOrder'
    <3>1. ASSUME NEW i \in 1 .. Len(Front(h))
          PROVE  NextQuestion(Age[who], Taken(b, Front(h), i)) = Front(h)[i]
      <4>1. i \in 1 .. Len(h) - 1 /\ i \in 1 .. Len(h)
        BY <2>3
      <4>2. Front(h)[i] = h[i] /\ Taken(b, Front(h), i) = Taken(a, h, i)
        BY <2>3, <4>1
      <4> QED BY <2>4, <4>1, <4>2
    <3>2. \A i \in 1 .. Len(history') :
             NextQuestion(Age[who'], Taken(answers', history', i)) = history'[i]
      BY <1>2, <2>2, <3>1
    <3> QED BY <3>2 DEF AskedInOrder
  <2>7. Last(h) \in QuestionId
    BY <1>2, <2>3, LenProperties DEF Last
  <2>8. Derived(b)
    BY <1>2, <2>1, <2>7 DEF Derived, Withdrawn, clearAdvisorAnswer, QuestionId
  <2>9. AnswersOwned'
    <3>1. ASSUME NEW r \in QuestionId, b[r] # None
          PROVE  \/ r \in ToSet(Front(h))
                 \/ /\ r = "travel_habit" /\ CurrentProfile[who] \in Adults
                    /\ b[r] = usageToTravelHabit(usage)
      <4>1. r \notin clearAdvisorAnswer(Last(h)) /\ b[r] = a[r]
        BY <2>1, <3>1 DEF Withdrawn
      <4>2. r # Last(h)
        BY <2>7, <4>1, ClearedTyped
      <4> QED BY <1>1, <2>3, <3>1, <4>1, <4>2 DEF Advised, AnswersOwned
    <3>2. \A r \in QuestionId : answers'[r] # None =>
             \/ r \in ToSet(history')
             \/ /\ r = "travel_habit" /\ CurrentProfile[who'] \in Adults
                /\ answers'[r] = usageToTravelHabit(usage')
      BY <1>2, <2>2, <3>1
    <3> QED BY <3>2 DEF AnswersOwned, usageToTravelHabit
  <2>10. FileAsksForAnswers'
    BY <1>2 DEF FileAsksForAnswers
  <2>11. NextQuestion(Age[who], b) = Last(h)
    <3>1. Len(h) \in 1 .. Len(h)
      BY <2>3
    <3> QED BY <2>3, <2>4, <3>1 DEF Last
  <2>12. NextQuestion(Age[who'], answers') = Last(history)
    BY <1>1, <1>2, <2>2, <2>11
  <2> QED BY <1>2, <2>2, <2>5, <2>6, <2>8, <2>9, <2>10, <2>12 DEF Advised, Derived
<1>4. CASE ~ (step = 4 /\ h # <<>>)
  <2>1. /\ step' = step - 1 /\ answers' = NoAnswer /\ history' = <<>>
    BY <1>1, <1>2, <1>4 DEF goBack, AnswersLeft, Advised
  <2>2. who' \in Beneficiaries /\ usage' \in {"daily", "occasional", "pay-per-use"}
    BY <1>2 DEF Advised, AdvisorTypeOK
  <2>3. AdvisorTypeOK'
    BY <1>2, <2>1, <2>2, NothingAnswered DEF Advised, AdvisorTypeOK, AnswerSheet, Answer
  <2>4. AskedInOrder' /\ AnswersOwned' /\ Derived(answers)'
    BY <2>1, NothingAnswered DEF AskedInOrder, AnswersOwned, Derived
  <2>5. FileAsksForAnswers'
    BY <1>2 DEF FileAsksForAnswers
  <2> QED BY <1>2, <2>1, <2>3, <2>4, <2>5 DEF Advised
<1> QED BY <1>3, <1>4

\* A person starts anew, or the usage changes: nothing has been asked yet.
LEMMA AnewStep ==
    ASSUME Advised,
           \/ \E b \in Beneficiaries : handleBeneficiaryChange(b)
           \/ \E u \in {"daily", "occasional", "pay-per-use"} : ChooseUsage(u)
    PROVE  Advised'
<1>1. /\ step' = step /\ step \in {1, 3} /\ answers' = NoAnswer /\ history' = <<>>
      /\ who' \in Beneficiaries /\ usage' \in {"daily", "occasional", "pay-per-use"}
      /\ UNCHANGED created /\ created = None
  BY DEF Advised, AdvisorTypeOK, handleBeneficiaryChange, ChooseUsage
<1>2. AdvisorTypeOK'
  BY <1>1, NothingAnswered DEF Advised, AdvisorTypeOK, AnswerSheet, Answer
<1>3. AskedInOrder' /\ AnswersOwned' /\ Derived(answers)'
  BY <1>1, NothingAnswered DEF AskedInOrder, AnswersOwned, Derived
<1>4. FileAsksForAnswers'
  BY <1>1 DEF FileAsksForAnswers
<1> QED BY <1>1, <1>2, <1>3, <1>4 DEF Advised

\* The catalogue of the front end and the tables of the back end ask for the same documents.
LEMMA TablesAgree ==
    ASSUME NEW code \in Codes
    PROVE  /\ requiredDocumentTypes(code) = BackEnd!RequiredJustificatifTypes(code)
           /\ requiredDocumentTypes(code) # {}
BY AnswerNames DEF requiredDocumentTypes, contractCodeToProductType, Codes, productCatalog,
   DOCUMENT_TO_JUSTIFICATIF, BackEnd!RequiredJustificatifTypes, BackEnd!CONTRACT_CODE_TO_PRODUCT,
   BackEnd!PRODUCT_DOCUMENTS, BackEnd!DOCUMENT_TO_JUSTIFICATIF

\* The documents of the catalogue, with or without a scholarship, are those of the code's slots.
LEMMA SlotsOfProduct ==
    ASSUME NEW x \in DOMAIN productCatalog,
           NEW D \in {productCatalog[x], productCatalog[x] \cup {"scholarship_certificate"}}
    PROVE  /\ mapProductTypeToContractCode(x) \in Codes
           /\ requiredDocumentTypes(mapProductTypeToContractCode(x)) =
                 {DOCUMENT_TO_JUSTIFICATIF[d] : d \in D \ NeverAsked}
<1>1. D \ NeverAsked = productCatalog[x]
  BY DEF NeverAsked, productCatalog
<1>2. mapProductTypeToContractCode(x) \in Codes
  BY DEF mapProductTypeToContractCode, productCatalog, Codes
<1>3. contractCodeToProductType(mapProductTypeToContractCode(x)) = x
  BY DEF contractCodeToProductType, mapProductTypeToContractCode, productCatalog, Codes
<1>4. x # None
  BY AnswerNames
<1> QED BY <1>1, <1>2, <1>3, <1>4 DEF requiredDocumentTypes

LEMMA ContractStep ==
    ASSUME Advised, handleCreateContract
    PROVE  Advised'
<1>1. /\ step = 5 /\ step' = 6 /\ UNCHANGED <<who, usage, answers, history>>
      /\ created' = mapProductTypeToContractCode(Product(Age[who], answers))
  BY DEF handleCreateContract
<1>2. PICK x : x = Product(Age[who], answers)
  OBVIOUS
<1>3. x # None
  BY <1>1, <1>2 DEF Advised, canRecommend
<1>4. x \in DOMAIN productCatalog
  <2>1. deduceProfile(Age[who]) \in {"junior", "scolaire", "etudiant", "adulte", "senior"}
    BY AdvisorTyped, ProfileOf
  <2> QED BY <1>2, <1>3, <2>1, AnswerNames
          DEF Product, AdultProduct, Adults, Pupils, productCatalog
<1>5. /\ created' \in Codes
      /\ requiredDocumentTypes(created') =
            {DOCUMENT_TO_JUSTIFICATIF[d] : d \in requiredDocuments(Age[who], answers) \ NeverAsked}
  <2>1. PICK D : D = requiredDocuments(Age[who], answers)
    OBVIOUS
  <2>2. D \in {productCatalog[x], productCatalog[x] \cup {"scholarship_certificate"}}
    BY <1>2, <2>1 DEF requiredDocuments
  <2> QED BY <1>1, <1>2, <1>4, <2>1, <2>2, SlotsOfProduct
<1>6. AdvisorTypeOK'
  BY <1>1, <1>5 DEF Advised, AdvisorTypeOK
<1>7. AskedInOrder' /\ Derived(answers)' /\ AnswersOwned'
  BY <1>1 DEF Advised, AskedInOrder, Derived, AnswersOwned, usageToTravelHabit
<1>8. FileAsksForAnswers'
  <2>1. PICK code \in Codes : code = created'
    BY <1>5
  <2>2. canRecommend(Age[who], answers)
    BY <1>1 DEF Advised
  <2>3. who' = who /\ answers' = answers
    BY <1>1
  <2> QED BY <1>1, <1>5, <2>1, <2>2, <2>3, TablesAgree DEF FileAsksForAnswers
<1> QED BY <1>1, <1>6, <1>7, <1>8 DEF Advised

LEMMA AdvisedStep ==
    ASSUME Advised, [AdvisorNext]_advisorVars
    PROVE  /\ Advised'
           /\ step = 4 /\ step' = 4 /\ Len(history') < Len(history)
                => NextQuestion(Age[who'], answers') = Last(history)
<1>1. CASE UNCHANGED advisorVars
  BY <1>1, AdvisorTyped
     DEF advisorVars, Advised, AdvisorTypeOK, AskedInOrder, Derived, AnswersOwned, FileAsksForAnswers,
         usageToTravelHabit
<1>2. CASE \/ \E b \in Beneficiaries : handleBeneficiaryChange(b)
           \/ \E u \in {"daily", "occasional", "pay-per-use"} : ChooseUsage(u)
  BY <1>2, AnewStep DEF handleBeneficiaryChange, ChooseUsage
<1>3. CASE goNext
  BY <1>3, NextStep DEF goNext
<1>4. CASE goBack
  BY <1>4, BackStep
<1>5. CASE handleCreateContract
  BY <1>5, ContractStep DEF handleCreateContract
<1>6. ASSUME NEW v, handleAdvisorAnswer(v)
      PROVE  Advised' /\ Len(history') = Len(history) + 1
  BY <1>6, AnswerStep
<1> QED BY <1>1, <1>2, <1>3, <1>4, <1>5, <1>6, AdvisorTyped DEF AdvisorNext

\* The inductive invariant of the advisor: each question was the one to ask without its answer
\* and the later ones, and no answer outlives the one it followed from.
THEOREM AdvisorInvariance == AdvisorSpec => []Advised
<1>1. Advised /\ [AdvisorNext]_advisorVars => Advised'
  BY AdvisedStep
<1> QED BY <1>1, AdvisedStart, PTL DEF AdvisorSpec

\* The recommendation rests on answers the user can take back, the file asks for what the
\* answers call for, a scholarship excepted, and for what the gate waits for; the way back
\* asks the question it takes back (SubscriptionPage, advisor).
THEOREM FileFollows == AdvisorSpec => FileFollowsAnswers
<1>1. Advised => AnswersOwned /\ FileAsksForAnswers
  BY DEF Advised
<1>2. Advised /\ [AdvisorNext]_advisorVars
        => [step = 4 /\ step' = 4 /\ Len(history') < Len(history)
               => NextQuestion(Age[who'], answers') = Last(history)]_advisorVars
  BY AdvisedStep
<1> QED BY <1>1, <1>2, AdvisorInvariance, PTL DEF AdvisorSpec, FileFollowsAnswers, BackAsksAgain

-----------------------------------------------------------------------------
(* The household. *)

Kind == {"active", "pending", "other"}

\* What is told of a person, against the contracts on the profile.
ToldOf(told, p) ==
    /\ told[p] = "active"   => "active" \in held[p]
    /\ told[p] = "pending"  => held[p] \cap {"pending", "active"} # {}
    /\ told[p] = "invented" => page.name = "fiche"

\* The contracts read for a person are, or have become, those on the profile.
ReadOf(titles, p) ==
    /\ "active" \in titles[p] => "active" \in held[p]
    /\ "pending" \in titles[p] => held[p] \cap {"pending", "active"} # {}

Load == [key : UserAccounts \X (People \cup {Null}), name : LoadingPages,
         id : People \cup {Null}, list : {Null} \cup SUBSET People, owners : SUBSET People,
         titles : {Null} \cup UNION {[S -> SUBSET Kind] : S \in SUBSET People}, live : BOOLEAN]

\* The persons a load asks the contracts of.
Whose(l) == IF l.name = "fiche" THEN l.list \cap {l.id} ELSE l.list

\* A load that is not cancelled is for the page mounted, and for the session.
LoadSound(l) ==
    /\ session # Null /\ page.name \in LoadingPages
    /\ l.name = page.name /\ l.id = page.id /\ l.key = Key(session, page.id)
    /\ l.list = Null => l.titles = Null
    /\ l.list # Null =>
          /\ l.list \subseteq Linked(session) /\ page.over \subseteq l.list
          /\ l.titles # Null => \A p \in Whose(l) : ReadOf(l.titles, p)

\* What the cache holds is of the session, of the page mounted, and true of its persons.
CacheSound ==
    cache # Null =>
        /\ session # Null /\ cache.key[1] = session
        /\ \/ cache.data = Demo
           \/ /\ cache.data.people \subseteq Linked(session)
              /\ IF page.name = "fiche" THEN cache.data.people = {cache.key[2]}
                 ELSE page.over \subseteq cache.data.people
              /\ \A p \in cache.data.people : ToldOf(cache.data.told, p)

\* The inductive invariant of the household.
Housed ==
    /\ owned \in [UserAccounts -> SUBSET People] /\ held \in [People -> SUBSET Kind]
    /\ session \in UserAccounts \cup {Null}
    /\ page.id \in People \cup {Null} /\ (page.name # "fiche" => page.id = Null)
    /\ session # Null => page.over \subseteq Linked(session)
    /\ loads \subseteq Load
    /\ \A l \in loads : l.live => LoadSound(l)
    /\ CacheSound

LEMMA LinkedTyped ==
    ASSUME Housed, NEW a \in UserAccounts
    PROVE  Linked(a) \subseteq People /\ a # Null
BY HouseholdAssumption DEF Housed, Linked

LEMMA HousedStart == HouseholdInit => Housed
<1> SUFFICES ASSUME HouseholdInit PROVE Housed
  OBVIOUS
<1>1. owned \in [UserAccounts -> SUBSET People]
  BY HouseholdAssumption DEF HouseholdInit
<1>2. held \in [People -> SUBSET Kind]
  BY HouseholdAssumption DEF HouseholdInit, Kind
<1>3. page.id = Null /\ session = Null /\ loads = {} /\ cache = Null
  BY DEF HouseholdInit, LoginPage
<1> QED BY <1>1, <1>2, <1>3 DEF Housed, CacheSound

\* A load cancelled stays well formed.
LEMMA LoadCancelled ==
    ASSUME NEW l \in Load,
           NEW m, m = [l EXCEPT !.live = FALSE, !.list = Null, !.owners = {}, !.titles = Null]
    PROVE  m \in Load /\ m.live = FALSE
BY DEF Load

\* Another page is mounted, or the same for another reason: only its own load is not cancelled.
LEMMA Started ==
    ASSUME Housed, NEW t, NEW name, NEW id, Start(t, name, id),
           session' = t, t \in UserAccounts \cup {Null},
           t # Null => page'.name = name, page'.id = id, id \in People \cup {Null}
    PROVE  /\ loads' \subseteq Load
           /\ \A l \in loads' : l.live => LoadSound(l)'
<1>1. ASSUME NEW m \in Cancelled PROVE m \in Load /\ m.live = FALSE
  <2>1. PICK l \in loads :
           m = [l EXCEPT !.live = FALSE, !.list = Null, !.owners = {}, !.titles = Null]
    BY <1>1 DEF Cancelled
  <2>2. l \in Load
    BY <2>1 DEF Housed
  <2> QED BY <2>1, <2>2, LoadCancelled
<1>2. ASSUME t # Null, name \in LoadingPages, NEW m, m = HookRequest(t, name, id)
      PROVE  m \in Load /\ LoadSound(m)'
  <2>1. m \in Load
    BY <1>2 DEF HookRequest, Load, Key
  <2>2. /\ m.name = name /\ m.id = id /\ m.key = Key(t, id) /\ m.list = Null /\ m.titles = Null
    BY <1>2 DEF HookRequest
  <2> QED BY <1>2, <2>1, <2>2 DEF LoadSound
<1>3. \A m \in loads' :
         m \in Cancelled \/ (t # Null /\ name \in LoadingPages /\ m = HookRequest(t, name, id))
  BY DEF Start
<1> QED BY <1>1, <1>2, <1>3

\* The persons linked to an account, and the titles on a profile, stay so.
LEMMA SoundStays ==
    ASSUME Housed, UNCHANGED <<session, page>>, NEW l, LoadSound(l),
           \A a \in UserAccounts : Linked(a) \subseteq Linked(a)',
           \A p \in People : /\ "active" \in held[p] => "active" \in held'[p]
                             /\ "pending" \in held[p] => held'[p] \cap {"pending", "active"} # {}
    PROVE  LoadSound(l)'
<1>1. session \in UserAccounts /\ Linked(session) \subseteq People
  BY LinkedTyped DEF Housed, LoadSound
<1>2. PICK a : a = session
  OBVIOUS
<1>3. Linked(a) \subseteq Linked(a)'
  BY <1>1, <1>2
<1>4. ASSUME l.list # Null PROVE l.list \subseteq Linked(a)' /\ page.over \subseteq l.list
  BY <1>2, <1>3, <1>4 DEF LoadSound
<1>5. ASSUME l.list # Null, l.titles # Null, NEW p \in Whose(l)
      PROVE  ReadOf(l.titles, p)'
  <2>1. p \in People
    BY <1>1, <1>5 DEF LoadSound, Whose
  <2> QED BY <1>5, <2>1 DEF LoadSound, ReadOf
<1>6. Linked(session)' = Linked(a)'
  BY <1>2 DEF Linked
<1> QED BY <1>4, <1>5, <1>6 DEF LoadSound

LEMMA CacheStays ==
    ASSUME Housed, UNCHANGED <<session, page, cache>>,
           \A a \in UserAccounts : Linked(a) \subseteq Linked(a)',
           \A p \in People : /\ "active" \in held[p] => "active" \in held'[p]
                             /\ "pending" \in held[p] => held'[p] \cap {"pending", "active"} # {}
    PROVE  CacheSound'
<1> SUFFICES ASSUME cache # Null, cache.data # Demo
             PROVE  /\ cache.data.people \subseteq Linked(session)'
                    /\ \A p \in cache.data.people : ToldOf(cache.data.told, p)'
  BY DEF Housed, CacheSound
<1>1. session \in UserAccounts /\ Linked(session) \subseteq People
  BY LinkedTyped DEF Housed, CacheSound
<1>2. PICK a : a = session
  OBVIOUS
<1>3. Linked(a) \subseteq Linked(a)'
  BY <1>1, <1>2
<1>4. cache.data.people \subseteq Linked(a)'
  BY <1>2, <1>3 DEF Housed, CacheSound
<1>5. ASSUME NEW p \in cache.data.people PROVE ToldOf(cache.data.told, p)'
  <2>1. p \in People
    BY <1>1, <1>5 DEF Housed, CacheSound
  <2> QED BY <1>5, <2>1 DEF Housed, CacheSound, ToldOf
<1>6. Linked(session)' = Linked(a)'
  BY <1>2 DEF Linked
<1> QED BY <1>4, <1>5, <1>6

-----------------------------------------------------------------------------
(* The household, action by action. *)

LEMMA HouseSignIn ==
    ASSUME Housed, NEW a \in UserAccounts, SignInAs(a)
    PROVE  Housed'
<1>1. /\ session' = a /\ cache' = Null /\ UNCHANGED <<owned, held>> /\ Start(a, "espace", Null)
      /\ page'.name = "espace" /\ page'.id = Null /\ page'.over = Linked(a)
  BY DEF SignInAs, FreshCache
<1>2. loads' \subseteq Load /\ \A l \in loads' : l.live => LoadSound(l)'
  BY <1>1, Started
<1>3. page'.over \subseteq Linked(session)'
  BY <1>1 DEF Linked
<1> QED BY <1>1, <1>2, <1>3 DEF Housed, CacheSound

LEMMA HouseSignOut ==
    ASSUME Housed, SignOut
    PROVE  Housed'
<1>1. /\ session' = Null /\ cache' = Null /\ UNCHANGED <<owned, held>> /\ Start(Null, "login", Null)
      /\ page'.name = "login" /\ page'.id = Null
  BY DEF SignOut, FreshCache, LoginPage
<1>2. loads' \subseteq Load /\ \A l \in loads' : l.live => LoadSound(l)'
  BY <1>1, Started
<1> QED BY <1>1, <1>2 DEF Housed, CacheSound

LEMMA HouseUserLoaded ==
    ASSUME Housed, UserLoaded
    PROVE  Housed'
<1>1. UNCHANGED <<owned, held, session, page, cache>> /\ session # Null
  BY DEF UserLoaded
<1>2. loads' \subseteq Load /\ \A l \in loads' : l.live => LoadSound(l)'
  <2>1. CASE page.name \in ListPages
    <3>1. PICK t, n : t = session /\ n = page.name
      OBVIOUS
    <3>2. Start(t, n, Null) /\ page.id = Null
      BY <2>1, <3>1 DEF UserLoaded, Housed, ListPages
    <3>3. t \in UserAccounts \cup {Null}
      BY <3>1 DEF Housed
    <3> QED BY <1>1, <3>1, <3>2, <3>3, Started
  <2>2. CASE page.name \notin ListPages
    <3>1. UNCHANGED loads
      BY <2>2 DEF UserLoaded
    <3>2. \A a : Linked(a)' = Linked(a)
      BY <1>1 DEF Linked
    <3>3. \A p \in People : "pending" \in held[p] => held'[p] \cap {"pending", "active"} # {}
      BY <1>1
    <3>4. ASSUME NEW l \in loads, l.live PROVE LoadSound(l)'
      BY <1>1, <3>2, <3>3, <3>4, SoundStays DEF Housed
    <3> QED BY <3>1, <3>4 DEF Housed
  <2> QED BY <2>1, <2>2
<1>3. CacheSound'
  <2>1. \A a : Linked(a)' = Linked(a)
    BY <1>1 DEF Linked
  <2>2. \A p \in People : "pending" \in held[p] => held'[p] \cap {"pending", "active"} # {}
    BY <1>1
  <2> QED BY <1>1, <2>1, <2>2, CacheStays
<1>4. Linked(session)' = Linked(session)
  BY <1>1 DEF Linked
<1> QED BY <1>1, <1>2, <1>3, <1>4 DEF Housed

LEMMA HouseGoTo ==
    ASSUME Housed, NEW name, NEW id \in People \cup {Null}, name # "fiche" => id = Null,
           GoTo(name, id)
    PROVE  Housed'
<1>1. /\ session # Null /\ UNCHANGED <<owned, held, session>> /\ Start(session, name, id)
      /\ page'.name = name /\ page'.id = id /\ page'.over = Linked(session)
      /\ cache' = IF page.name = "fiche" /\ name = "fiche" THEN cache ELSE Null
  BY DEF GoTo, FreshCache
<1>2. PICK t : t = session
  OBVIOUS
<1>3. t \in UserAccounts \cup {Null}
  BY <1>2 DEF Housed
<1>4. loads' \subseteq Load /\ \A l \in loads' : l.live => LoadSound(l)'
  BY <1>1, <1>2, <1>3, Started
<1>5. Linked(session)' = Linked(session)
  BY <1>1 DEF Linked
<1>6. CacheSound'
  <2>1. CASE page.name = "fiche" /\ name = "fiche"
    BY <1>1, <1>5, <2>1 DEF Housed, CacheSound, ToldOf
  <2>2. CASE ~ (page.name = "fiche" /\ name = "fiche")
    BY <1>1, <2>2 DEF CacheSound
  <2> QED BY <2>1, <2>2
<1> QED BY <1>1, <1>4, <1>5, <1>6 DEF Housed

\* One load moves on, the others stay.
LEMMA HouseLoad ==
    ASSUME Housed, UNCHANGED <<owned, held, session, page>>, CacheSound',
           \A m \in loads' : m \in loads \/ (m \in Load /\ (m.live => LoadSound(m)))
    PROVE  Housed'
<1>1. \A a : Linked(a)' = Linked(a)
  BY DEF Linked
<1>2. \A p \in People : "pending" \in held[p] => held'[p] \cap {"pending", "active"} # {}
  OBVIOUS
<1>3. ASSUME NEW l \in loads', l.live PROVE LoadSound(l)'
  <2>1. LoadSound(l)
    BY <1>3 DEF Housed
  <2> QED BY <1>1, <1>2, <2>1, SoundStays
<1>4. Linked(session)' = Linked(session)
  BY DEF Linked
<1> QED BY <1>3, <1>4 DEF Housed

LEMMA CacheSame ==
    ASSUME Housed, UNCHANGED <<owned, held, session, page, cache>>
    PROVE  CacheSound'
<1>1. \A a : Linked(a)' = Linked(a)
  BY DEF Linked
<1>2. \A p \in People : "pending" \in held[p] => held'[p] \cap {"pending", "active"} # {}
  OBVIOUS
<1> QED BY <1>1, <1>2, CacheStays

LEMMA HouseIdentities ==
    ASSUME Housed, NEW l \in loads, Identities(l)
    PROVE  Housed'
<1>1. l \in Load /\ LoadSound(l) /\ l.list = Null /\ l.titles = Null
  BY DEF Identities, Housed, LoadSound
<1>2. PICK a : a = l.key[1]
  OBVIOUS
<1>3. a = session /\ a \in UserAccounts
  BY <1>1, <1>2 DEF LoadSound, Key, Housed
<1>4. Linked(a) \subseteq People
  BY <1>3, LinkedTyped
<1>5. PICK m : m = [l EXCEPT !.list = Linked(a), !.owners = {p \in Linked(a) : isOwner(p, a)}]
  OBVIOUS
<1>6. /\ m \in Load /\ m.name = l.name /\ m.id = l.id /\ m.key = l.key
      /\ m.list = Linked(a) /\ m.titles = Null
  BY <1>1, <1>4, <1>5 DEF Load
<1>7. LoadSound(m)
  BY <1>1, <1>3, <1>6 DEF LoadSound, Housed
<1>8. loads' = (loads \ {l}) \cup {m} /\ UNCHANGED <<owned, held, session, page, cache>>
  BY <1>2, <1>5 DEF Identities
<1>9. CacheSound'
  BY <1>8, CacheSame
<1> QED BY <1>6, <1>7, <1>8, <1>9, HouseLoad

LEMMA HouseTitles ==
    ASSUME Housed, NEW l \in loads, Titles(l)
    PROVE  Housed'
<1>1. l \in Load /\ l.list # Null /\ UNCHANGED <<owned, held, session, page, cache>>
  BY DEF Titles, Housed
<1>2. PICK w : w = Whose(l)
  OBVIOUS
<1>3. PICK failed \in SUBSET w :
         loads' = (loads \ {l}) \cup
            {[l EXCEPT !.titles = [p \in w |-> IF p \in failed THEN {} ELSE held[p]]]}
  BY <1>2 DEF Titles, Whose
<1>4. PICK f, m : /\ f = [p \in w |-> IF p \in failed THEN {} ELSE held[p]]
                  /\ m = [l EXCEPT !.titles = f]
  OBVIOUS
<1>5. w \in SUBSET People
  BY <1>1, <1>2 DEF Load, Whose
<1>6. f \in [w -> SUBSET Kind]
  BY <1>4, <1>5 DEF Housed
<1>7. /\ m \in Load /\ m.name = l.name /\ m.id = l.id /\ m.key = l.key /\ m.live = l.live
      /\ m.list = l.list /\ m.titles = f
  <2>1. PICK U : U = {Null} \cup UNION {[S -> SUBSET Kind] : S \in SUBSET People}
    OBVIOUS
  <2>2. f \in U
    BY <1>5, <1>6, <2>1
  <2>3. Load = [key : UserAccounts \X (People \cup {Null}), name : LoadingPages,
                id : People \cup {Null}, list : {Null} \cup SUBSET People,
                owners : SUBSET People, titles : U, live : BOOLEAN]
    BY <2>1 DEF Load
  <2> QED BY <1>1, <1>4, <2>2, <2>3
<1>8. ASSUME m.live PROVE LoadSound(m)
  <2>1. LoadSound(l)
    BY <1>7, <1>8 DEF Housed
  <2>2. ASSUME NEW p \in Whose(m) PROVE ReadOf(m.titles, p)
    <3>1. p \in w
      BY <1>2, <1>7, <2>2 DEF Whose
    <3> QED BY <1>4, <1>7, <3>1 DEF ReadOf
  <2> QED BY <1>1, <1>7, <2>1, <2>2 DEF LoadSound
<1>9. loads' = (loads \ {l}) \cup {m}
  BY <1>3, <1>4
<1>10. CacheSound'
  BY <1>1, CacheSame
<1> QED BY <1>1, <1>7, <1>8, <1>9, <1>10, HouseLoad

\* What the pages tell of a person, from the contracts read.
LEMMA ToldRight ==
    ASSUME NEW titles, NEW p, ReadOf(titles, p)
    PROVE  /\ StatusLabel(titles[p]) = "active" => "active" \in held[p]
           /\ StatusLabel(titles[p]) = "pending" => held[p] \cap {"pending", "active"} # {}
           /\ StatusLabel(titles[p]) # "invented"
BY DEF ReadOf, StatusLabel

LEMMA LoadedSound ==
    ASSUME Housed, NEW l \in Load, LoadSound(l), l.list # Null,
           l.titles # Null \/ l.name = "souscription",
           NEW d, d = Loaded(l)
    PROVE  \/ d = Demo
           \/ /\ d.people \subseteq Linked(session)
              /\ IF page.name = "fiche" THEN d.people = {l.key[2]} ELSE page.over \subseteq d.people
              /\ \A p \in d.people : ToldOf(d.told, p)
<1>1. /\ l.name = page.name /\ l.id = page.id /\ l.key[2] = page.id
      /\ page.name \in LoadingPages /\ l.list \subseteq Linked(session) /\ page.over \subseteq l.list
  BY DEF LoadSound, Key
<1>2. CASE l.name = "fiche"
  <2>1. d = Demo \/ (l.id \in l.list /\ d = FromApi({l.id}, l.owners, Told(l)))
    BY <1>2 DEF Loaded
  <2>2. CASE l.id \in l.list /\ d = FromApi({l.id}, l.owners, Told(l))
    <3>1. PICK t : t = Told(l)
      OBVIOUS
    <3>2. d.people = {l.id} /\ d.told = t
      BY <2>2, <3>1 DEF FromApi
    <3>3. t[l.id] = PersonTitre(l.titles[l.id])
      BY <1>2, <3>1 DEF Told, ListPages
    <3>4. ReadOf(l.titles, l.id)
      BY <1>2, <2>2 DEF LoadSound, Whose
    <3>5. ToldOf(t, l.id)
      BY <1>1, <1>2, <3>3, <3>4, ToldRight DEF ToldOf, PersonTitre
    <3> QED BY <1>1, <1>2, <2>2, <3>2, <3>5
  <2> QED BY <2>1, <2>2
<1>3. CASE l.name # "fiche"
  <2>1. d = Demo \/ d = FromApi(l.list, l.owners, Told(l))
    BY <1>3 DEF Loaded
  <2>2. CASE d = FromApi(l.list, l.owners, Told(l))
    <3>1. PICK t : t = Told(l)
      OBVIOUS
    <3>2. d.people = l.list /\ d.told = t
      BY <2>2, <3>1 DEF FromApi
    <3>3. ASSUME NEW p \in l.list PROVE ToldOf(t, p)
      <4>1. CASE l.name = "souscription"
        <5>1. t[p] = "untold"
          BY <3>1, <4>1 DEF Told, ListPages
        <5> QED BY <5>1 DEF ToldOf
      <4>2. CASE l.name \in ListPages
        <5>1. t[p] = StatusLabel(l.titles[p])
          BY <3>1, <4>2 DEF Told, ListPages
        <5>2. ReadOf(l.titles, p)
          BY <1>3, <4>2 DEF LoadSound, Whose, ListPages
        <5> QED BY <5>1, <5>2, ToldRight DEF ToldOf
      <4> QED BY <1>1, <1>3, <4>1, <4>2 DEF LoadingPages
    <3> QED BY <1>1, <1>3, <3>2, <3>3
  <2> QED BY <2>1, <2>2
<1> QED BY <1>2, <1>3

\* A load that was not cancelled is kept, under its own key.
LEMMA HouseKept ==
    ASSUME Housed, NEW l \in loads, UNCHANGED <<owned, held, session, page>>,
           loads' = loads \ {l},
           \/ cache' = cache
           \/ /\ l.live /\ l.list # Null /\ (l.titles # Null \/ l.name = "souscription")
              /\ cache' = Keyed(l.key, Loaded(l))
           \/ l.live /\ cache' = Keyed(l.key, Demo)
    PROVE  Housed'
<1>1. l \in Load
  BY DEF Housed
<1>2. \A a : Linked(a)' = Linked(a)
  BY DEF Linked
<1>3. CASE cache' = cache
  <2>1. CacheSound'
    BY <1>3, CacheSame
  <2> QED BY <2>1, HouseLoad
<1>4. CASE l.live /\ \E d : cache' = Keyed(l.key, d)
                            /\ (d = Demo \/ (/\ d = Loaded(l) /\ l.list # Null
                                             /\ (l.titles # Null \/ l.name = "souscription")))
  <2>1. PICK d : /\ cache' = Keyed(l.key, d)
                 /\ (d = Demo \/ (/\ d = Loaded(l) /\ l.list # Null
                                  /\ (l.titles # Null \/ l.name = "souscription")))
    BY <1>4
  <2>2. LoadSound(l)
    BY <1>4 DEF Housed
  <2>3. \/ d = Demo
        \/ /\ d.people \subseteq Linked(session)
           /\ IF page.name = "fiche" THEN d.people = {l.key[2]} ELSE page.over \subseteq d.people
           /\ \A p \in d.people : ToldOf(d.told, p)
    BY <1>1, <2>1, <2>2, LoadedSound
  <2>4. cache'.key = l.key /\ cache'.data = d
    BY <2>1 DEF Keyed
  <2>5. l.key[1] = session /\ session # Null
    BY <2>2 DEF LoadSound, Key
  <2>6. ASSUME d # Demo
        PROVE  /\ d.people \subseteq Linked(session)'
               /\ IF page.name = "fiche" THEN d.people = {l.key[2]} ELSE page.over \subseteq d.people
               /\ \A p \in d.people : ToldOf(d.told, p)'
    BY <1>2, <2>3, <2>6 DEF ToldOf, Linked
  <2>7. CacheSound'
    BY <2>4, <2>5, <2>6 DEF CacheSound, ToldOf
  <2> QED BY <2>7, HouseLoad
<1> QED BY <1>3, <1>4

LEMMA HouseAnswered ==
    ASSUME Housed, NEW l \in loads, Complete(l) \/ HookFails(l)
    PROVE  Housed'
<1>1. UNCHANGED <<owned, held, session, page>> /\ loads' = loads \ {l}
  BY DEF Complete, HookFails
<1>2. \/ cache' = cache
      \/ /\ l.live /\ l.list # Null /\ (l.titles # Null \/ l.name = "souscription")
         /\ cache' = Keyed(l.key, Loaded(l))
      \/ l.live /\ cache' = Keyed(l.key, Demo)
  BY DEF Complete, HookFails
<1> QED BY <1>1, <1>2, HouseKept

LEMMA HouseAdd ==
    ASSUME Housed, NEW p \in People, NEW from \in {"foyer", "souscription"}, AddPerson(p, from)
    PROVE  Housed'
<1>1. PICK a : a = session
  OBVIOUS
<1>2. /\ a # Null /\ UNCHANGED <<held, session>> /\ Start(a, from, Null) /\ cache' = Null
      /\ owned' = [owned EXCEPT ![a] = @ \cup {p}]
      /\ page'.name = from /\ page'.id = Null /\ page'.over = Linked(a) \cup {p}
  BY <1>1 DEF AddPerson, FreshCache
<1>3. a \in UserAccounts
  BY <1>1, <1>2 DEF Housed
<1>4. owned' \in [UserAccounts -> SUBSET People] /\ owned'[a] = owned[a] \cup {p}
  BY <1>2, <1>3 DEF Housed
<1>5. loads' \subseteq Load /\ \A l \in loads' : l.live => LoadSound(l)'
  BY <1>1, <1>2, <1>3, Started
<1>6. page'.over \subseteq Linked(session)'
  BY <1>1, <1>2, <1>4 DEF Linked
<1> QED BY <1>2, <1>4, <1>5, <1>6 DEF Housed, CacheSound

LEMMA HouseActivated ==
    ASSUME Housed, NEW p \in People, Activated(p)
    PROVE  Housed'
<1>1. /\ held' = [held EXCEPT ![p] = (@ \ {"pending"}) \cup {"active"}]
      /\ UNCHANGED <<owned, session, page, cache, loads>>
  BY DEF Activated
<1>2. held' \in [People -> SUBSET Kind]
  BY <1>1 DEF Housed, Kind
<1>3. \A q \in People : /\ "active" \in held[q] => "active" \in held'[q]
                        /\ "pending" \in held[q] => held'[q] \cap {"pending", "active"} # {}
  BY <1>1 DEF Housed
<1>4. \A a : Linked(a)' = Linked(a)
  BY <1>1 DEF Linked
<1>5. CacheSound'
  BY <1>1, <1>3, <1>4, CacheStays
<1>6. \A l \in loads' : l.live => LoadSound(l)'
  BY <1>1, <1>3, <1>4, SoundStays DEF Housed
<1>7. Linked(session)' = Linked(session)
  BY <1>1 DEF Linked
<1> QED BY <1>1, <1>2, <1>5, <1>6, <1>7 DEF Housed

LEMMA HousedStep == Housed /\ [HouseholdNext]_householdVars => Housed'
<1> SUFFICES ASSUME Housed, [HouseholdNext]_householdVars PROVE Housed'
  OBVIOUS
<1>1. ASSUME UNCHANGED <<owned, held, session, page, cache, loads>> PROVE Housed'
  <2>1. CacheSound'
    BY <1>1, CacheSame
  <2> QED BY <1>1, <2>1, HouseLoad
<1>2. CASE UNCHANGED householdVars
  BY <1>1, <1>2 DEF householdVars
<1>3. ASSUME NEW name \in {"espace", "foyer", "ajouter", "souscription"}, GoTo(name, Null)
      PROVE  Housed'
  BY <1>3, HouseGoTo
<1>4. ASSUME NEW p \in Shown.people \ {Null}, GoTo("fiche", p) PROVE Housed'
  <2>1. Demo.people = {Null}
    BY DEF Demo
  <2>2. PICK d : d = Shown
    OBVIOUS
  <2>3. d = Demo \/ (session # Null /\ cache # Null /\ d = cache.data)
    BY <2>2 DEF Shown
  <2>4. d = Demo \/ d.people \subseteq Linked(session)
    BY <2>3 DEF Housed, CacheSound
  <2>5. p \in Linked(session) /\ session \in UserAccounts
    BY <1>4, <2>1, <2>2, <2>3, <2>4 DEF Housed
  <2>6. p \in People
    BY <2>5, LinkedTyped
  <2> QED BY <1>4, <2>6, HouseGoTo
<1>5. ASSUME NEW p \in People, GoTo("fiche", p) PROVE Housed'
  BY <1>5, HouseGoTo
<1>6. ASSUME NEW holder, NEW payer, CreateContractFor(holder, payer) PROVE Housed'
  BY <1>1, <1>6 DEF CreateContractFor
<1>7. ASSUME NEW l \in loads, Identities(l) \/ Titles(l) \/ Complete(l) \/ HookFails(l)
      PROVE  Housed'
  BY <1>7, HouseIdentities, HouseTitles, HouseAnswered
<1> QED BY <1>2, <1>3, <1>4, <1>5, <1>6, <1>7, HouseSignIn, HouseSignOut, HouseUserLoaded,
           HouseAdd, HouseActivated DEF HouseholdNext

\* The inductive invariant of the household: a load in progress is for the session and the
\* page mounted unless it was cancelled, and so is what the cache holds.
THEOREM HouseholdInvariance == HouseholdSpec => []Housed
BY HousedStart, HousedStep, PTL DEF HouseholdSpec

LEMMA HousedSuffices == Housed => ShownIsHousehold
<1> SUFFICES ASSUME Housed, Shown.source = "api"
             PROVE  /\ Shown.people \subseteq Linked(session)
                    /\ page.name = "fiche" => Shown.people = {page.id}
                    /\ page.name # "fiche" => page.over \subseteq Shown.people
                    /\ \A p \in Shown.people : ToldOf(Shown.told, p)
  BY DEF ShownIsHousehold, ShownBelongs, AddedAppears, TitlesTold, ToldOf
<1>1. Demo.source # "api"
  BY DEF Demo
<1>2. /\ session # Null /\ cache # Null /\ cache.key = Key(session, page.id)
      /\ Shown = cache.data /\ cache.data # Demo
  BY <1>1 DEF Shown
<1>3. cache.key[2] = page.id
  BY <1>2 DEF Key
<1> QED BY <1>2, <1>3 DEF Housed, CacheSound

\* What a page shows of the household as loaded is the household of the account signed in,
\* whole, with titles its persons have (useHouseholdData, usePersonDetail, useBeneficiaries).
THEOREM HouseholdShown == HouseholdSpec => []ShownIsHousehold
BY HouseholdInvariance, HousedSuffices, PTL
=============================================================================
