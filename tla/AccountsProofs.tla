----------------------------- MODULE AccountsProofs -----------------------------
(***************************************************************************)
(* Proofs about the sign-in of one tab (SignIn) and about the accounts and  *)
(* their mobility identities (Accounts), for any number of persons, pages,  *)
(* accounts, browsers and calls.                                            *)
(***************************************************************************)
EXTENDS SignIn, Accounts, FiniteSetTheorems, SequenceTheorems, TLAPS

-----------------------------------------------------------------------------
(* The sign-in. *)

\* The path of the URL a visitor of the login form had opened.
Path(opened) == IF opened = Null THEN Null ELSE opened.at

\* The entries of the history in which the path the guard left is that of the URL opened.
Traced == {p \in Place : p.from = Path(p.opened)}

\* A tab away at FranceConnect, or on an answer of the API, waits for no answer itself.
QuietAway == ~ inApp => checks = {}

\* Nothing is remembered but by a trip, which began on the login form, and remembers what
\* it was begun for.
Remembers ==
    /\ ~ outstanding => remembered = Null
    /\ ~ inApp =>
          /\ trip \in [of : Persons, asked : URL, back : Traced]
          /\ trip.back.at = "login" /\ remembered = trip.asked.at

\* Who waits for the answer of a sign-in: the login form goes where it was asked to; the
\* callback page is the only one to wait, and goes where its trip had remembered.
Awaited ==
    \A c \in checks :
        /\ c.by # "effect" => c.asked \in URL
        /\ c.by = "login" => c.asked.at = c.from
        /\ c.by = "callback" =>
              /\ place.at = "callback" /\ remembered = c.asked.at
              /\ \A d \in checks : d.by # "effect" => d = c

\* The inductive invariant of the tab.
SignedIn ==
    /\ SignInTypeOK /\ ValidEnv(config) /\ place \in Traced
    /\ ApisAgree /\ RealIdentities /\ LandsOnAsked
    /\ QuietAway /\ Remembers /\ Awaited

LEMMA AtTraced ==
    ASSUME NEW page \in Pages \cup {"login", "callback", "provider", "apiError"}
    PROVE  PlaceAt(page) \in Traced /\ PlaceAt(page).at = page
<1>1. PlaceAt(page) \in Place /\ PlaceAt(page).at = page
  BY DEF PlaceAt, Place
<1>2. PlaceAt(page).from = Null /\ PlaceAt(page).opened = Null
  BY DEF PlaceAt
<1> QED BY <1>1, <1>2 DEF Traced, Path

LEMMA LinkTraced ==
    ASSUME NEW url \in URL
    PROVE  /\ [PlaceAt(url.at) EXCEPT !.query = url.query] \in Traced
           /\ [PlaceAt(url.at) EXCEPT !.query = url.query].at = url.at
<1> DEFINE p == [PlaceAt(url.at) EXCEPT !.query = url.query]
<1>1. p = [at |-> url.at, query |-> url.query, from |-> Null, opened |-> Null]
  BY DEF PlaceAt
<1>2. p \in Place
  BY <1>1 DEF URL, Place
<1> QED BY <1>1, <1>2 DEF Traced, Path

LEMMA GuardedStays ==
    ASSUME NEW p \in Traced, NEW tok, NEW wait \in BOOLEAN
    PROVE  /\ Guarded(p, tok, wait) \in Traced
           /\ p.at \in Pages \cup {"login"} => Guarded(p, tok, wait).at \in Pages \cup {"login"}
           /\ p.at = "callback" => Guarded(p, tok, wait) = p
<1>1. p \in Place
  BY DEF Traced
<1>2. CASE ~ wait /\ p.at \in Pages /\ tok = Null
  <2> DEFINE url == [at |-> p.at, query |-> p.query]
  <2>1. url \in URL
    BY <1>1, <1>2 DEF Place, URL
  <2>2. url # Null
    BY <2>1, NullAssumption
  <2>3. Guarded(p, tok, wait) =
            [at |-> "login", query |-> Null, from |-> p.at, opened |-> url]
    BY <1>2 DEF Guarded, PlaceAt
  <2>4. Guarded(p, tok, wait) \in Place
    BY <1>2, <2>1, <2>3 DEF Place
  <2>5. Guarded(p, tok, wait) \in Traced
    BY <2>2, <2>3, <2>4 DEF Traced, Path
  <2> QED BY <1>2, <2>3, <2>5, PagesAssumption
<1>3. CASE ~ wait /\ p.at = "login" /\ tok # Null
  <2>1. Guarded(p, tok, wait) = PlaceAt(Home)
    BY <1>3, PagesAssumption DEF Guarded
  <2> QED BY <1>3, <2>1, AtTraced, HomeAssumption
<1>4. CASE ~ (~ wait /\ p.at \in Pages /\ tok = Null) /\ ~ (~ wait /\ p.at = "login" /\ tok # Null)
  BY <1>4 DEF Guarded
<1> QED BY <1>2, <1>3, <1>4

\* What the login form asks for: the path of the URL its visitor had opened.
LEMMA AskedPage ==
    ASSUME NEW p \in Traced
    PROVE  /\ Wanted(p.opened) \in URL
           /\ ResolveAfterAuth(p.from) \in Pages
           /\ ResolveAfterAuth(p.from) = Wanted(p.opened).at
<1>1. p \in Place /\ p.from = Path(p.opened)
  BY DEF Traced
<1>2. CASE p.opened = Null
  BY <1>1, <1>2, HomeAssumption DEF Path, Wanted, URL, ResolveAfterAuth
<1>3. CASE p.opened # Null
  <2>1. p.opened \in URL /\ p.from = p.opened.at
    BY <1>1, <1>3 DEF Place, Path
  <2>2. p.from \in Pages /\ p.from # Null
    BY <2>1, NullAssumption DEF URL
  <2> QED BY <1>3, <2>1, <2>2 DEF Wanted, ResolveAfterAuth
<1> QED BY <1>2, <1>3

LEMMA EffectCheck ==
    ASSUME NEW tok \in Session
    PROVE  Effect(tok) \in SessionCheck /\ Effect(tok).by = "effect"
BY HomeAssumption DEF Effect, SessionCheck

\* A page load leaves a tab of the application that holds what is stored and waits for the
\* answer of one check at most.
LEMMA Loading ==
    ASSUME SignInTypeOK, NEW p \in Traced, p.at \in Pages \cup {"login"}, Load(p),
           stored' = stored
    PROVE  /\ place' \in Traced /\ loading' \in BOOLEAN /\ token' = stored
           /\ place'.at \in Pages \cup {"login"}
           /\ checks' \subseteq SessionCheck /\ \A c \in checks' : c.by = "effect"
<1>1. place' = Guarded(p, stored, stored # Null) /\ (stored # Null) \in BOOLEAN
  BY DEF Load
<1>2. place' \in Traced /\ place'.at \in Pages \cup {"login"}
  BY <1>1, GuardedStays
<1>3. checks' \subseteq SessionCheck /\ \A c \in checks' : c.by = "effect"
  <2>1. CASE stored = Null
    BY <2>1 DEF Load
  <2>2. CASE stored # Null
    <3>1. stored \in Session
      BY <2>2 DEF SignInTypeOK
    <3>2. checks' = {Effect(stored)}
      BY <2>2 DEF Load
    <3> QED BY <3>1, <3>2, EffectCheck
  <2> QED BY <2>1, <2>2
<1> QED BY <1>2, <1>3 DEF Load

\* What a load has to leave alone for the invariant to hold after it.
LEMMA LoadKeeps ==
    ASSUME SignedIn, NEW p \in Traced, p.at \in Pages \cup {"login"}, Load(p), trip' = Null,
           UNCHANGED <<config, stored, remembered, trips, outstanding, known, landed>>
    PROVE  SignedIn'
<1>1. /\ place' \in Traced /\ place' \in Place /\ loading' \in BOOLEAN /\ token' = stored
      /\ place'.at \in Pages \cup {"login"}
      /\ checks' \subseteq SessionCheck /\ \A c \in checks' : c.by = "effect"
  BY Loading DEF SignedIn, Traced
<1>2. SignInTypeOK'
  BY <1>1 DEF SignedIn, SignInTypeOK
<1>3. place'.at # "provider" /\ place'.at # "apiError"
  BY <1>1, PagesAssumption
<1>4. ApisAgree' /\ QuietAway' /\ Remembers' /\ Awaited'
  BY <1>1, <1>3 DEF SignedIn, ApisAgree, QuietAway, Remembers, Awaited, inApp
<1> QED BY <1>1, <1>2, <1>4 DEF SignedIn, RealIdentities, LandsOnAsked

LEMMA SignedInStart == SignInInit => SignedIn
<1> SUFFICES ASSUME SignInInit PROVE SignedIn
  OBVIOUS
<1>1. SignInTypeOK
  <2>1. place \in Place
    BY AtTraced DEF SignInInit, Traced
  <2>2. config \in Config /\ known \in [Persons -> Session \cup {Null}] /\ trips \in 0..MaxTrips
    BY TripsAssumption DEF SignInInit
  <2> QED BY <2>1, <2>2 DEF SignInInit, SignInTypeOK
<1>2. \A u \in Persons : known[u] = Null
  BY Zenon DEF SignInInit
<1>3. inApp /\ place \in Traced
  <2>1. PlaceAt("login") \in Traced /\ PlaceAt("login").at = "login"
    BY AtTraced
  <2>2. place = PlaceAt("login")
    BY DEF SignInInit
  <2> QED BY <2>1, <2>2 DEF inApp
<1> QED
  BY <1>1, <1>2, <1>3 DEF SignInInit, SignedIn, ApisAgree, RealIdentities, LandsOnAsked, QuietAway,
      Remembers, Awaited

\* The identities FranceConnect's callback may give, in production with FranceConnect live.
LEMMA OwnOnly ==
    ASSUME SignedIn, config.NODE_ENV = "production", config.FRANCECONNECT_MODE # "mock",
           NEW fails \in BOOLEAN, NEW s \in HandleCallback(fails)
    PROVE  s = OwnIdentity
<1>1. config.FRANCECONNECT_MODE = "live"
  BY DEF SignedIn, SignInTypeOK, Config, ValidEnv, SandboxRules
<1>2. ~ shouldFallbackToMock
  BY <1>1 DEF SignedIn, SignInTypeOK, Config, ValidEnv, LiveRules, shouldFallbackToMock
<1> QED BY <1>1, <1>2 DEF HandleCallback

LEMMA PasswordStep ==
    ASSUME SignedIn, NEW u \in Persons, SubmitPassword(u)
    PROVE  SignedIn'
<1> DEFINE s == [account |-> "local", of |-> u, code |-> 0]
           from == ResolveAfterAuth(place.from)
           asked == Wanted(place.opened)
           l == [by |-> "login", session |-> s, from |-> from, asked |-> asked]
<1>1. s \in Session
  BY TripsAssumption DEF Session
<1>2. /\ place \in Traced /\ place.at = "login" /\ ~ loading /\ loading \in BOOLEAN
      /\ asked \in URL /\ from \in Pages /\ from = asked.at
  BY AskedPage DEF SubmitPassword, SignedIn, SignInTypeOK
<1>3. /\ stored' = s /\ token' = s /\ place' = Guarded(place, s, loading)
      /\ checks' = checks \cup {l} \cup (IF s # token THEN {Effect(s)} ELSE {})
      /\ UNCHANGED <<config, loading, remembered, trips, trip, outstanding, known, landed>>
  BY DEF SubmitPassword, Login
<1>4. place' \in Traced /\ place' \in Place /\ place'.at \in Pages \cup {"login"}
  BY <1>2, <1>3, GuardedStays DEF Traced
<1>5. l \in SessionCheck /\ Effect(s) \in SessionCheck /\ Effect(s).by = "effect"
  BY <1>1, <1>2, EffectCheck DEF SessionCheck
<1>6. SignInTypeOK'
  <2>1. checks' \subseteq SessionCheck
    BY <1>3, <1>5 DEF SignedIn, SignInTypeOK
  <2> QED BY <2>1, <1>1, <1>3, <1>4 DEF SignedIn, SignInTypeOK
<1>7. \A c \in checks : c.by # "callback"
  BY <1>2 DEF SignedIn, Awaited
<1>8. \A c \in checks' : c \in checks \/ c = l \/ c = Effect(s)
  BY <1>3
<1>9. Awaited'
  BY <1>2, <1>5, <1>7, <1>8 DEF SignedIn, Awaited
<1>10. inApp' /\ place'.at # "provider"
  BY <1>4, PagesAssumption DEF inApp
<1>11. RealIdentities'
  BY <1>3 DEF SignedIn, RealIdentities
<1> QED
  BY <1>3, <1>4, <1>6, <1>9, <1>10, <1>11
      DEF SignedIn, ApisAgree, LandsOnAsked, QuietAway, Remembers

\* The answer of a sign-in leads where that sign-in was asked to lead.
LEMMA AcceptedLands ==
    ASSUME SignedIn, NEW c \in checks, c.by # "effect",
           c.by = "callback" \/ ~ outstanding
    PROVE  PostAuthTarget(c.from) = c.asked.at /\ c.asked \in URL
<1>1. c \in SessionCheck /\ c.asked \in URL
  BY DEF SignedIn, SignInTypeOK, Awaited
<1>2. CASE c.by = "callback"
  <2>1. remembered = c.asked.at /\ remembered # Null
    BY <1>1, <1>2, NullAssumption DEF SignedIn, Awaited, URL
  <2> QED BY <1>1, <2>1 DEF PostAuthTarget
<1>3. CASE c.by = "login" /\ ~ outstanding
  BY <1>1, <1>3 DEF SignedIn, Awaited, Remembers, PostAuthTarget
<1> QED BY <1>1, <1>2, <1>3 DEF SessionCheck

LEMMA AcceptedStep ==
    ASSUME SignedIn, NEW c \in checks, SessionAccepted(c)
    PROVE  SignedIn'
<1> DEFINE target == PostAuthTarget(c.from)
<1>1. c \in SessionCheck /\ c.by # "effect" /\ c.from \in Pages /\ remembered \in Pages \cup {Null}
  BY DEF SessionAccepted, SignedIn, SignInTypeOK, SessionCheck
<1>2. target \in Pages
  BY <1>1 DEF PostAuthTarget
<1>3. /\ checks' = checks \ {c} /\ remembered' = Null /\ outstanding' = FALSE
      /\ place' = Guarded(PlaceAt(target), token, loading)
      /\ landed' = IF outstanding /\ c.by = "login" THEN Null
                   ELSE [at |-> target, asked |-> c.asked]
      /\ UNCHANGED <<config, loading, token, stored, trips, trip, known>>
  BY DEF SessionAccepted, AfterConsume
<1>4. place' \in Traced /\ place' \in Place /\ place'.at \in Pages \cup {"login"}
  <2>1. PlaceAt(target) \in Traced /\ PlaceAt(target).at = target /\ loading \in BOOLEAN
    BY <1>2, AtTraced DEF SignedIn, SignInTypeOK
  <2> QED BY <1>2, <1>3, <2>1, GuardedStays DEF Traced
<1>5. landed' = Null \/ (landed'.at = landed'.asked.at /\ landed' \in [at : Pages, asked : URL])
  <2>1. CASE outstanding /\ c.by = "login"
    BY <2>1, <1>3
  <2>2. CASE ~ (outstanding /\ c.by = "login")
    <3>1. target = c.asked.at /\ c.asked \in URL
      BY <2>2, <1>1, AcceptedLands DEF SessionCheck
    <3>2. landed' = [at |-> target, asked |-> c.asked]
      BY <2>2, <1>3
    <3> QED BY <3>1, <3>2, <1>2
  <2> QED BY <2>1, <2>2
<1>6. SignInTypeOK'
  BY <1>3, <1>4, <1>5 DEF SignedIn, SignInTypeOK
<1>7. inApp
  BY DEF SignedIn, QuietAway
<1>8. inApp' /\ place'.at # "provider"
  BY <1>4, PagesAssumption DEF inApp
<1>9. Awaited'
  BY <1>1, <1>3 DEF SignedIn, Awaited
<1>10. RealIdentities'
  BY <1>3 DEF SignedIn, RealIdentities
<1>11. ApisAgree' /\ LandsOnAsked' /\ QuietAway' /\ Remembers'
  BY <1>3, <1>5, <1>7, <1>8 DEF SignedIn, ApisAgree, LandsOnAsked, QuietAway, Remembers
<1> QED BY <1>3, <1>4, <1>6, <1>9, <1>10, <1>11 DEF SignedIn

\* A step that takes answers away, or the session with them, and stays where it is or goes
\* to a page of the application.
LEMMA StayingStep ==
    ASSUME SignedIn, inApp, place' \in Traced, loading' \in BOOLEAN,
           place' = place \/ (place'.at \in Pages \cup {"login"}
                              /\ \A c \in checks' : c.by # "callback"),
           checks' \subseteq checks,
           token' \in {token, Null}, token' = token => stored' = stored,
           token' # token => stored' = Null,
           UNCHANGED <<config, remembered, trips, trip, outstanding, known, landed>>
    PROVE  SignedIn'
<1>1. inApp' /\ (place' # place => place'.at # "provider")
  BY PagesAssumption DEF inApp
<1>2. stored' \in {stored, Null}
  OBVIOUS
<1>3. SignInTypeOK'
  BY <1>2 DEF SignedIn, SignInTypeOK, Traced
<1>4. ApisAgree'
  BY DEF SignedIn, ApisAgree
<1>5. Awaited'
  BY DEF SignedIn, Awaited
<1>6. RealIdentities'
  BY <1>2 DEF SignedIn, RealIdentities
<1> QED BY <1>1, <1>3, <1>4, <1>5, <1>6 DEF SignedIn, LandsOnAsked, QuietAway, Remembers

\* Rendering again leads from the login form or a page to one of them, and from nowhere else.
LEMMA Rendered ==
    ASSUME SignedIn, inApp, NEW tok, NEW wait \in BOOLEAN, place' = Guarded(place, tok, wait),
           checks' \subseteq checks
    PROVE  /\ place' \in Traced
           /\ place' = place \/ (place'.at \in Pages \cup {"login"}
                                 /\ \A c \in checks' : c.by # "callback")
<1>1. place \in Traced /\ place \in Place
  BY DEF SignedIn, SignInTypeOK
<1>2. place.at \in Pages \cup {"login"} \/ place.at = "callback"
  BY <1>1 DEF inApp, Place
<1>3. CASE place.at = "callback"
  BY <1>1, <1>3, GuardedStays
<1>4. CASE place.at \in Pages \cup {"login"}
  <2>1. \A c \in checks : c.by # "callback"
    BY <1>4, PagesAssumption DEF SignedIn, Awaited
  <2> QED BY <1>1, <1>4, <2>1, GuardedStays
<1> QED BY <1>2, <1>3, <1>4

LEMMA RefusedStep ==
    ASSUME SignedIn, NEW c \in checks, SessionRefused(c)
    PROVE  SignedIn'
<1>1. inApp /\ loading \in BOOLEAN
  BY DEF SignedIn, QuietAway, SignInTypeOK
<1>2. CASE c.by # "callback"
  <2>1. place' = place /\ place \in Traced
    BY <1>2 DEF SessionRefused, SignedIn
  <2> QED BY <1>1, <2>1, StayingStep DEF SessionRefused
<1>3. CASE c.by = "callback"
  <2>1. PlaceAt("login") \in Traced /\ PlaceAt("login").at = "login"
    BY AtTraced
  <2>2. place' = Guarded(PlaceAt("login"), token, loading)
    BY <1>3 DEF SessionRefused
  <2>3. place' \in Traced /\ place'.at \in Pages \cup {"login"}
    BY <1>1, <2>1, <2>2, GuardedStays
  <2>4. \A d \in checks' : d.by # "callback"
    BY <1>3 DEF SessionRefused, SignedIn, Awaited
  <2> QED BY <1>1, <2>3, <2>4, StayingStep DEF SessionRefused
<1> QED BY <1>2, <1>3

LEMMA CheckStep ==
    ASSUME SignedIn, NEW c \in checks, CheckAnswered(c) \/ CheckFails(c)
    PROVE  SignedIn'
<1>1. inApp /\ checks' \subseteq checks /\ loading' = FALSE
  BY DEF SignedIn, QuietAway, CheckAnswered, CheckFails
<1>2. place' = Guarded(place, token, FALSE) \/ place' = Guarded(place, Null, FALSE)
  BY DEF CheckAnswered, CheckFails
<1>3. /\ place' \in Traced
      /\ place' = place \/ (place'.at \in Pages \cup {"login"}
                            /\ \A d \in checks' : d.by # "callback")
  BY <1>1, <1>2, Rendered
<1>4. /\ token' \in {token, Null} /\ (token' = token => stored' = stored)
      /\ token' # token => stored' = Null
  BY <1>1 DEF CheckAnswered, CheckFails, SignedIn, ApisAgree
<1>5. UNCHANGED <<config, remembered, trips, trip, outstanding, known, landed>>
  BY DEF CheckAnswered, CheckFails
<1> QED BY <1>1, <1>3, <1>4, <1>5, StayingStep

LEMMA LogoutStep ==
    ASSUME SignedIn, Logout
    PROVE  SignedIn'
<1>1. inApp /\ loading \in BOOLEAN /\ loading' = loading /\ checks' = checks
  BY PagesAssumption DEF Logout, inApp, SignedIn, SignInTypeOK
<1>2. place' = Guarded(place, Null, loading)
  BY DEF Logout
<1>3. /\ place' \in Traced
      /\ place' = place \/ (place'.at \in Pages \cup {"login"}
                            /\ \A d \in checks' : d.by # "callback")
  BY <1>1, <1>2, Rendered
<1> QED BY <1>1, <1>3, StayingStep DEF Logout

LEMMA NavigateStep ==
    ASSUME SignedIn, NEW url \in Links, Navigate(url)
    PROVE  SignedIn'
<1>1. inApp /\ loading \in BOOLEAN /\ loading' = loading /\ checks' = checks
  BY PagesAssumption DEF Navigate, inApp, SignedIn, SignInTypeOK
<1>2. place' \in Traced /\ place'.at \in Pages \cup {"login"}
  <2>1. url \in URL
    BY LinksAssumption
  <2>2. url.at \in Pages
    BY <2>1 DEF URL
  <2> QED BY <2>1, <2>2, LinkTraced DEF Navigate
<1>3. \A c \in checks' : c.by # "callback"
  BY <1>1, PagesAssumption DEF Navigate, SignedIn, Awaited
<1> QED BY <1>1, <1>2, <1>3, StayingStep DEF Navigate

LEMMA AwayStep ==
    ASSUME SignedIn, NEW u \in Persons, FranceConnect(u)
    PROVE  SignedIn'
<1> DEFINE asked == Wanted(place.opened)
<1>1. /\ place \in Traced /\ asked \in URL
      /\ ResolveAfterAuth(place.from) \in Pages /\ ResolveAfterAuth(place.from) = asked.at
  BY AskedPage DEF SignedIn
<1>2. /\ remembered' = asked.at /\ trips' = trips + 1 /\ trips < MaxTrips
      /\ trip' = [of |-> u, asked |-> asked, back |-> place]
      /\ place' = PlaceAt("provider")
      /\ checks' = {} /\ loading' = FALSE /\ token' = Null /\ outstanding' = TRUE
      /\ UNCHANGED <<config, stored, known, landed>>
  BY <1>1 DEF FranceConnect
<1>3. trips' \in 0..MaxTrips
  BY <1>2, TripsAssumption DEF SignedIn, SignInTypeOK
<1>4. /\ place' \in Traced /\ place' \in Place /\ place'.at = "provider"
      /\ trip' \in [of : Persons, asked : URL, back : Traced]
      /\ trip' \in [of : Persons, asked : URL, back : Place]
  BY <1>1, <1>2, AtTraced DEF Traced
<1>5. SignInTypeOK'
  BY <1>1, <1>2, <1>3, <1>4 DEF SignedIn, SignInTypeOK
<1>6. ~ inApp' /\ trip'.asked.at = remembered' /\ trip'.back.at = "login"
  BY <1>2, <1>4 DEF inApp, FranceConnect
<1>7. RealIdentities'
  BY <1>2 DEF SignedIn, RealIdentities
<1> QED
  BY <1>2, <1>4, <1>5, <1>6, <1>7
      DEF SignedIn, ApisAgree, LandsOnAsked, QuietAway, Remembers, Awaited

\* The callback page is given the identity of whoever made the trip, and is the only one to wait.
LEMMA CallbackStep ==
    ASSUME SignedIn, NEW fails \in BOOLEAN, Callback(fails)
    PROVE  SignedIn'
<1>1. PICK s \in HandleCallback(fails) :
         /\ known' = [known EXCEPT ![trip.of] = s]
         /\ Login(s, "callback", Home, trip.asked)
         /\ trip' = Null
  BY DEF Callback
<1>2. /\ place.at = "provider" /\ place' = PlaceAt("callback")
      /\ UNCHANGED <<config, loading, remembered, trips, outstanding, landed>>
  BY DEF Callback
<1>3. /\ trip.of \in Persons /\ trip.asked \in URL /\ remembered = trip.asked.at
      /\ checks = {} /\ ~ inApp /\ trips \in 0..MaxTrips
  BY <1>2 DEF SignedIn, SignInTypeOK, Remembers, QuietAway, inApp
<1>4. s \in Session
  <2>1. s \in {MockIdentity, OwnIdentity}
    BY <1>1 DEF HandleCallback
  <2>2. OwnIdentity \in Session
    BY <1>3, TripsAssumption DEF OwnIdentity, Session
  <2>3. MockIdentity \in Session
    BY <1>3 DEF MockIdentity, Session
  <2> QED BY <2>1, <2>2, <2>3
<1> DEFINE l == [by |-> "callback", session |-> s, from |-> Home, asked |-> trip.asked]
<1>5. /\ stored' = s /\ token' = s
      /\ checks' = {l} \cup (IF s # token THEN {Effect(s)} ELSE {})
  BY <1>1, <1>3 DEF Login
<1>6. l \in SessionCheck /\ Effect(s) \in SessionCheck /\ Effect(s).by = "effect"
  BY <1>3, <1>4, HomeAssumption, EffectCheck DEF SessionCheck
<1>7. \A c \in checks' : c = l \/ c = Effect(s)
  BY <1>5
<1>8. SignInTypeOK'
  <2>1. checks' \subseteq SessionCheck
    BY <1>6, <1>7
  <2>2. known' \in [Persons -> Session \cup {Null}]
    BY <1>1, <1>4 DEF SignedIn, SignInTypeOK
  <2>3. place' \in Place
    BY <1>2, AtTraced DEF Traced
  <2> QED BY <1>1, <1>2, <1>4, <1>5, <2>1, <2>2, <2>3 DEF SignedIn, SignInTypeOK
<1>9. Awaited'
  <2>1. l.by = "callback" /\ l.asked \in URL /\ l.asked.at = remembered
    BY <1>3
  <2>2. place'.at = "callback" /\ remembered' = remembered
    BY <1>2, AtTraced
  <2> QED BY <1>6, <1>7, <2>1, <2>2 DEF Awaited
<1>10. RealIdentities'
  <2>1. SUFFICES ASSUME config.NODE_ENV = "production", config.FRANCECONNECT_MODE # "mock"
                 PROVE  /\ s.account = "own"
                        /\ \A u \in Persons : known'[u] # Null => known'[u].account = "own"
    BY <1>2, <1>5 DEF RealIdentities
  <2>2. s = OwnIdentity
    BY <1>1, <2>1, OwnOnly
  <2>3. s.account = "own"
    BY <2>2 DEF OwnIdentity
  <2>4. ASSUME NEW u \in Persons PROVE known'[u] # Null => known'[u].account = "own"
    <3>1. known'[u] = IF u = trip.of THEN s ELSE known[u]
      BY <1>1 DEF SignedIn, SignInTypeOK
    <3> QED BY <2>1, <2>3, <3>1 DEF SignedIn, RealIdentities
  <2> QED BY <2>3, <2>4
<1>11. inApp' /\ place'.at = "callback" /\ place' \in Traced
  BY <1>2, AtTraced DEF inApp
<1>12. ApisAgree' /\ QuietAway' /\ Remembers'
  BY <1>2, <1>5, <1>11 DEF SignedIn, ApisAgree, QuietAway, Remembers
<1> QED BY <1>2, <1>8, <1>9, <1>10, <1>11, <1>12 DEF SignedIn, LandsOnAsked

LEMMA CallbackRefusedStep ==
    ASSUME SignedIn, CallbackRefused
    PROVE  SignedIn'
<1>1. checks = {} /\ ~ inApp /\ ~ inApp'
  BY AtTraced DEF CallbackRefused, SignedIn, QuietAway, inApp
<1>2. place' \in Traced /\ place' \in Place /\ place'.at # "provider"
  BY AtTraced DEF CallbackRefused, Traced
<1>3. SignInTypeOK'
  BY <1>2 DEF CallbackRefused, SignedIn, SignInTypeOK
<1>4. RealIdentities'
  BY DEF CallbackRefused, SignedIn, RealIdentities
<1> QED
  BY <1>1, <1>2, <1>3, <1>4
      DEF CallbackRefused, SignedIn, ApisAgree, LandsOnAsked, QuietAway, Remembers, Awaited

LEMMA SignedInStep == SignedIn /\ [SignInNext]_signInVars => SignedIn'
<1> SUFFICES ASSUME SignedIn, [SignInNext]_signInVars PROVE SignedIn'
  OBVIOUS
<1>1. CASE UNCHANGED signInVars
  BY <1>1 DEF signInVars, SignedIn, SignInTypeOK, ApisAgree, RealIdentities, LandsOnAsked,
      QuietAway, Remembers, Awaited, inApp
<1>2. ASSUME NEW u \in Persons, SubmitPassword(u) \/ FranceConnect(u) PROVE SignedIn'
  BY <1>2, PasswordStep, AwayStep
<1>3. ASSUME NEW c \in checks,
             SessionAccepted(c) \/ SessionRefused(c) \/ CheckAnswered(c) \/ CheckFails(c)
      PROVE  SignedIn'
  BY <1>3, AcceptedStep, RefusedStep, CheckStep
<1>4. CASE Logout
  BY <1>4, LogoutStep
<1>5. ASSUME NEW url \in Links, Navigate(url) PROVE SignedIn'
  BY <1>5, NavigateStep
<1>6. ASSUME NEW p \in Typed \cup {place}, Open(p) PROVE SignedIn'
  <2>1. p \in Traced
    BY AtTraced, LinkTraced, LinksAssumption DEF Typed, SignedIn
  <2> QED BY <1>6, <2>1, LoadKeeps DEF Open
<1>7. CASE Back
  <2>1. trip.back \in Traced /\ trip.back.at \in Pages \cup {"login"}
    BY <1>7 DEF Back, SignedIn, Remembers, inApp
  <2> QED BY <1>7, <2>1, LoadKeeps DEF Back
<1>8. CASE ProviderError
  BY <1>8, LoadKeeps, AtTraced DEF ProviderError
<1>9. CASE CallbackRefused
  BY <1>9, CallbackRefusedStep
<1>10. ASSUME NEW fails \in BOOLEAN, Callback(fails) PROVE SignedIn'
  BY <1>10, CallbackStep
<1> QED BY <1>1, <1>2, <1>3, <1>4, <1>5, <1>6, <1>7, <1>8, <1>9, <1>10 DEF SignInNext

\* The invariant of the sign-in, under every configuration the back end starts with.
THEOREM SignInInvariance == SignInSpec => []SignedIn
BY SignedInStart, SignedInStep, PTL DEF SignInSpec

\* The clients that read the stored token and those given React's speak for one account
\* (front/src/contexts, mobility-api.ts, contracts.ts).
THEOREM ClientsAgree == SignInSpec => []ApisAgree
BY SignInInvariance, PTL DEF SignedIn

\* In production with FranceConnect live, no session is opened for an invented identity
\* (env.validation.ts, franceconnect.service.ts).
THEOREM NoInventedIdentity == SignInSpec => []RealIdentities
BY SignInInvariance, PTL DEF SignedIn

\* A sign-in leads to the path of the page that was opened, if not with its query, but for a
\* password sign-in after a trip that was abandoned (post-auth-redirect, AuthCallback.tsx).
THEOREM SignInLands == SignInSpec => []LandsOnAsked
BY SignInInvariance, PTL DEF SignedIn
-----------------------------------------------------------------------------
(* The accounts. *)

Busy(b) == browserCall[b] # Null

Provisioning(c) == c.as \in {"register", "franceConnect"}
Requesting == {"cancel", "create", "mark"}
Completing == {"recUser", "recRelation", "recStatus", "recMark"}

\* The steps of a call follow from what it was made for, and so does what it carries.
CallShape(c) ==
    /\ c.pc = "createLocal" => c.as = "register"
    /\ c.pc = "sync" => c.as \in {"franceConnect", "addPerson", "request"}
    /\ c.pc = "provision" => Provisioning(c)
    /\ c.pc \in {"identity", "relation"} => Provisioning(c) \/ c.as = "addPerson"
    /\ c.pc \in Requesting \cup Completing <=> c.as = "recovery"
    /\ c.pc \in {"createLocal", "provision", "identity"} => c.person \in Persons
    /\ c.pc = "sync" /\ c.as # "franceConnect" => c.person \in Persons
    /\ c.pc = "relation" => c.identity \in 1 .. MaxIdentities
    /\ c.as = "recovery" => c.identity \in 1 .. MaxIdentities /\ c.account \in Emails

Owns(a) == \E r \in relations : r.account = a /\ r.type = "OWNER"

CallsSound ==
    \A b \in Browsers : Busy(b) =>
        /\ CallShape(browserCall[b])
        /\ browserCall[b].wasAdmin => browserCall[b].account \in users
        /\ browserCall[b].pc \in {"recStatus", "recMark"} => Owns(browserCall[b].account)

PagesSound ==
    \A b \in Browsers :
        browserPage[b].at \in {"match", "code"} => browserPage[b].account \in Emails

RowsSound == \A r \in relations : r.via # "other" => r.type = "OWNER"

\* Two calls at work on one account, or on one recovery, are known to have crossed.
CrossingsKnown ==
    \A b, c \in Browsers : b # c /\ Busy(b) /\ Busy(c) =>
        /\ /\ Provisioning(browserCall[b]) /\ Provisioning(browserCall[c])
           /\ browserCall[b].pc # "createLocal" /\ browserCall[c].pc # "createLocal"
           /\ browserCall[b].account = browserCall[c].account
           => browserCall[b].account \in crossed
        /\ /\ browserCall[b].as = "recovery" /\ browserCall[c].as = "recovery"
           /\ browserCall[b].identity = browserCall[c].identity
           => browserCall[b].identity \in crossed

NoneProvisioned(a) == \A r \in Active : r.via = "provision" => r.account # a
NoneRecovered(i) == \A r \in Active : r.via = "recovery" => r.identity # i
NonePending(i) ==
    \A r \in DOMAIN requests : requests[r].status = "pending" => requests[r].identity # i

\* What a call looked up and found missing is still missing when it comes to insert it,
\* unless another call crossed it.
StillMissing ==
    \A b \in Browsers : Busy(b) =>
        /\ /\ browserCall[b].pc \in {"identity", "relation"} /\ Provisioning(browserCall[b])
           /\ browserCall[b].account \notin crossed
           => NoneProvisioned(browserCall[b].account)
        /\ /\ browserCall[b].pc \in {"recUser", "recRelation"}
           /\ browserCall[b].identity \notin crossed
           => NoneRecovered(browserCall[b].identity)
        /\ browserCall[b].pc = "create" /\ browserCall[b].identity \notin crossed
           => NonePending(browserCall[b].identity)

\* The inductive invariant of the accounts.
Provided ==
    /\ AccountsTypeOK
    /\ CallsSound /\ PagesSound /\ RowsSound /\ CrossingsKnown /\ StillMissing
    /\ SignedInHasIdentity /\ OneOfEach

\* The calls, the pages and the rows a step leaves as sound as they were.
LEMMA CallMoves ==
    ASSUME Provided, NEW b \in Browsers, NEW k \in AccountCall,
           browserCall' = [browserCall EXCEPT ![b] = k],
           users \subseteq users', relations \subseteq relations', crossed \subseteq crossed',
           k # Null =>
              /\ CallShape(k)
              /\ k.wasAdmin => k.account \in users'
              /\ k.pc \in {"recStatus", "recMark"} =>
                    \E r \in relations' : r.account = k.account /\ r.type = "OWNER",
           k # Null => \A c \in Browsers \ {b} : Busy(c) =>
              /\ /\ Provisioning(k) /\ Provisioning(browserCall[c])
                 /\ k.pc # "createLocal" /\ browserCall[c].pc # "createLocal"
                 /\ browserCall[c].account = k.account
                 => k.account \in crossed'
              /\ /\ k.as = "recovery" /\ browserCall[c].as = "recovery"
                 /\ browserCall[c].identity = k.identity
                 => k.identity \in crossed'
    PROVE  browserCall' \in [Browsers -> AccountCall] /\ CallsSound' /\ CrossingsKnown'
<1>1. browserCall \in [Browsers -> AccountCall]
  BY DEF Provided, AccountsTypeOK
<1>2. /\ browserCall' \in [Browsers -> AccountCall] /\ browserCall'[b] = k
      /\ \A c \in Browsers : c # b => browserCall'[c] = browserCall[c]
  BY <1>1
<1>3. CallsSound'
  <2>1. SUFFICES ASSUME NEW c \in Browsers, browserCall'[c] # Null
                 PROVE  /\ CallShape(browserCall'[c])
                        /\ browserCall'[c].wasAdmin => browserCall'[c].account \in users'
                        /\ browserCall'[c].pc \in {"recStatus", "recMark"} =>
                              \E r \in relations' : r.account = browserCall'[c].account
                                                    /\ r.type = "OWNER"
    BY DEF CallsSound, Busy, Owns, CallShape, Provisioning
  <2>2. CASE c = b
    BY <1>2, <2>1, <2>2
  <2>3. CASE c # b
    BY <1>2, <2>1, <2>3 DEF Provided, CallsSound, Busy, Owns
  <2> QED BY <2>2, <2>3
<1>4. CrossingsKnown'
  <2>1. SUFFICES ASSUME NEW c \in Browsers, NEW d \in Browsers, c # d,
                        browserCall'[c] # Null, browserCall'[d] # Null
        PROVE
        /\ /\ Provisioning(browserCall'[c]) /\ Provisioning(browserCall'[d])
           /\ browserCall'[c].pc # "createLocal" /\ browserCall'[d].pc # "createLocal"
           /\ browserCall'[c].account = browserCall'[d].account
           => browserCall'[c].account \in crossed'
        /\ /\ browserCall'[c].as = "recovery" /\ browserCall'[d].as = "recovery"
           /\ browserCall'[c].identity = browserCall'[d].identity
           => browserCall'[c].identity \in crossed'
    BY DEF CrossingsKnown, Busy, Provisioning
  <2>2. CASE c = b
    BY <1>2, <2>1, <2>2 DEF Busy
  <2>3. CASE d = b
    BY <1>2, <2>1, <2>3 DEF Busy
  <2>4. CASE c # b /\ d # b
    BY <1>2, <2>1, <2>4 DEF Provided, CrossingsKnown, Busy
  <2> QED BY <2>2, <2>3, <2>4
<1> QED BY <1>2, <1>3, <1>4

\* A call that goes on with what it was made for has crossed no one it had not crossed.
LEMMA CallGoesOn ==
    ASSUME Provided, NEW b \in Browsers, Busy(b), NEW k \in AccountCall,
           browserCall[b].pc # "createLocal", crossed \subseteq crossed',
           k.as = browserCall[b].as, k.account = browserCall[b].account,
           k.as = "recovery" => k.identity = browserCall[b].identity
    PROVE  \A c \in Browsers \ {b} : Busy(c) =>
              /\ /\ Provisioning(k) /\ Provisioning(browserCall[c])
                 /\ k.pc # "createLocal" /\ browserCall[c].pc # "createLocal"
                 /\ browserCall[c].account = k.account
                 => k.account \in crossed'
              /\ /\ k.as = "recovery" /\ browserCall[c].as = "recovery"
                 /\ browserCall[c].identity = k.identity
                 => k.identity \in crossed'
BY DEF Provided, CrossingsKnown, Provisioning

LEMMA CallsStay ==
    ASSUME Provided, UNCHANGED browserCall,
           users \subseteq users', relations \subseteq relations', crossed \subseteq crossed'
    PROVE  CallsSound' /\ CrossingsKnown'
BY DEF Provided, CallsSound, CrossingsKnown, Busy, Owns

LEMMA PagesMove ==
    ASSUME Provided, relations \subseteq relations',
           \A b \in Browsers :
              \/ browserPage'[b] = browserPage[b]
              \/ /\ browserPage'[b].at \in {"match", "code"} => browserPage'[b].account \in Emails
                 /\ browserPage'[b].at = "in" /\ browserPage'[b].how \in {"register", "recovery"} =>
                       \E r \in relations' : r.account = browserPage'[b].account /\ r.type = "OWNER"
    PROVE  PagesSound' /\ SignedInHasIdentity'
BY DEF Provided, PagesSound, SignedInHasIdentity

\* A step that adds no row and no code of those that are to be there once.
LEMMA NothingAdded ==
    ASSUME Provided, crossed \subseteq crossed',
           \A r \in Active' : r.via # "other" => r \in Active,
           \A r \in DOMAIN requests' : requests'[r].status = "pending" =>
              /\ r \in DOMAIN requests /\ requests[r].status = "pending"
              /\ requests'[r].identity = requests[r].identity
    PROVE  /\ OneOfEach'
           /\ \A a : NoneProvisioned(a) => NoneProvisioned(a)'
           /\ \A i : NoneRecovered(i) => NoneRecovered(i)'
           /\ \A i : NonePending(i) => NonePending(i)'
<1>1. OneProvisioned'
  BY DEF Provided, OneOfEach, OneProvisioned
<1>2. OneRecovered'
  BY DEF Provided, OneOfEach, OneRecovered
<1>3. OneCodePending'
  BY DEF Provided, OneOfEach, OneCodePending
<1> QED BY <1>1, <1>2, <1>3 DEF OneOfEach, NoneProvisioned, NoneRecovered, NonePending

LEMMA MissingMoves ==
    ASSUME Provided, NEW b \in Browsers, NEW k \in AccountCall,
           browserCall' = [browserCall EXCEPT ![b] = k], crossed \subseteq crossed',
           \A c \in Browsers \ {b} : Busy(c) => 
              /\ /\ browserCall[c].pc \in {"identity", "relation"} /\ Provisioning(browserCall[c])
                 /\ browserCall[c].account \notin crossed'
                 => \A r \in Active' : r.via = "provision" => r.account # browserCall[c].account
              /\ /\ browserCall[c].pc \in {"recUser", "recRelation"}
                 /\ browserCall[c].identity \notin crossed'
                 => \A r \in Active' : r.via = "recovery" => r.identity # browserCall[c].identity
              /\ browserCall[c].pc = "create" /\ browserCall[c].identity \notin crossed'
                 => \A r \in DOMAIN requests' : requests'[r].status = "pending" =>
                        requests'[r].identity # browserCall[c].identity,
           k # Null =>
              /\ k.pc \in {"identity", "relation"} /\ Provisioning(k) /\ k.account \notin crossed'
                 => \A r \in Active' : r.via = "provision" => r.account # k.account
              /\ k.pc \in {"recUser", "recRelation"} /\ k.identity \notin crossed'
                 => \A r \in Active' : r.via = "recovery" => r.identity # k.identity
              /\ k.pc = "create" /\ k.identity \notin crossed'
                 => \A r \in DOMAIN requests' : requests'[r].status = "pending" =>
                        requests'[r].identity # k.identity
    PROVE  StillMissing'
<1>1. /\ browserCall'[b] = k
      /\ \A c \in Browsers : c # b => browserCall'[c] = browserCall[c]
  BY DEF Provided, AccountsTypeOK
<1> QED
  BY <1>1 DEF StillMissing, Busy, Provisioning, NoneProvisioned, NoneRecovered, NonePending

\* One call moves, nothing is added: what the others found missing is missing still.
LEMMA MissingKept ==
    ASSUME Provided, NEW b \in Browsers, NEW k \in AccountCall,
           browserCall' = [browserCall EXCEPT ![b] = k], crossed \subseteq crossed',
           \A r \in Active' : r.via # "other" => r \in Active,
           \A r \in DOMAIN requests' : requests'[r].status = "pending" =>
              /\ r \in DOMAIN requests /\ requests[r].status = "pending"
              /\ requests'[r].identity = requests[r].identity,
           k # Null =>
              /\ k.pc \in {"identity", "relation"} /\ Provisioning(k) /\ k.account \notin crossed'
                 => NoneProvisioned(k.account)
              /\ k.pc \in {"recUser", "recRelation"} /\ k.identity \notin crossed'
                 => NoneRecovered(k.identity)
              /\ k.pc = "create" /\ k.identity \notin crossed'
                 => \A r \in DOMAIN requests' : requests'[r].status = "pending" =>
                        requests'[r].identity # k.identity
    PROVE  OneOfEach' /\ StillMissing'
<1>1. /\ OneOfEach'
      /\ \A a : NoneProvisioned(a) => NoneProvisioned(a)'
      /\ \A i : NoneRecovered(i) => NoneRecovered(i)'
      /\ \A i : NonePending(i) => NonePending(i)'
  BY NothingAdded
<1>2. ASSUME NEW q \in AccountCall, NEW c \in Browsers \ {b}, Busy(c), q = browserCall[c]
      PROVE  /\ /\ q.pc \in {"identity", "relation"} /\ Provisioning(q)
                /\ q.account \notin crossed'
                => \A r \in Active' : r.via = "provision" => r.account # q.account
             /\ q.pc \in {"recUser", "recRelation"} /\ q.identity \notin crossed'
                => \A r \in Active' : r.via = "recovery" => r.identity # q.identity
             /\ q.pc = "create" /\ q.identity \notin crossed'
                => \A r \in DOMAIN requests' : requests'[r].status = "pending" =>
                       requests'[r].identity # q.identity
  BY <1>1, <1>2
      DEF Provided, StillMissing, NoneProvisioned, NoneRecovered, NonePending, Provisioning
<1>3. k # Null =>
         /\ k.pc \in {"identity", "relation"} /\ Provisioning(k) /\ k.account \notin crossed'
            => \A r \in Active' : r.via = "provision" => r.account # k.account
         /\ k.pc \in {"recUser", "recRelation"} /\ k.identity \notin crossed'
            => \A r \in Active' : r.via = "recovery" => r.identity # k.identity
         /\ k.pc = "create" /\ k.identity \notin crossed'
            => \A r \in DOMAIN requests' : requests'[r].status = "pending" =>
                   requests'[r].identity # k.identity
  BY <1>1 DEF NoneProvisioned, NoneRecovered
<1>4. \A c \in Browsers \ {b} : browserCall[c] \in AccountCall
  BY DEF Provided, AccountsTypeOK
<1>5. StillMissing'
  BY <1>2, <1>3, <1>4, MissingMoves
<1> QED BY <1>1, <1>5

LEMMA MissingStays ==
    ASSUME Provided, UNCHANGED browserCall, crossed \subseteq crossed',
           \A r \in Active' : r.via # "other" => r \in Active,
           \A r \in DOMAIN requests' : requests'[r].status = "pending" =>
              /\ r \in DOMAIN requests /\ requests[r].status = "pending"
              /\ requests'[r].identity = requests[r].identity
    PROVE  OneOfEach' /\ StillMissing'
<1>1. /\ OneOfEach'
      /\ \A a : NoneProvisioned(a) => NoneProvisioned(a)'
      /\ \A i : NoneRecovered(i) => NoneRecovered(i)'
      /\ \A i : NonePending(i) => NonePending(i)'
  BY NothingAdded
<1>2. StillMissing'
  BY <1>1
      DEF Provided, StillMissing, Busy, NoneProvisioned, NoneRecovered, NonePending, Provisioning
<1> QED BY <1>1, <1>2

-----------------------------------------------------------------------------
(* The accounts, action by action. *)

LEMMA ProvidedStart == AccountsInit => Provided
<1> SUFFICES ASSUME AccountsInit PROVE Provided
  OBVIOUS
<1>1. PICK p \in Persons : identities = << [person |-> p, status |-> "ACTIVE"] >>
  BY DEF AccountsInit
<1>2. /\ users = {Guardian} /\ admins = {} /\ granted = {} /\ requests = <<>> /\ crossed = {}
      /\ made = 0 /\ Guardian \in Accounts
      /\ revoked = {r \in relations : r.type = "OWNER"}
  BY AccountsAssumption DEF AccountsInit, Accounts
<1>3. \A r \in relations : r \in Relationship /\ r.via = "other"
  <2>1. ASSUME NEW t \in RelationshipTypes
        PROVE  [account |-> Guardian, identity |-> 1, type |-> t, via |-> "other"]
                  \in Relationship
    BY <1>2, AccountsAssumption DEF Relationship
  <2> QED BY <2>1 DEF AccountsInit
<1>4. \A b \in Browsers : browserPage[b] = NoSession /\ browserCall[b] = Null
  BY DEF AccountsInit
<1>5. AccountsTypeOK
  <2>1. [person |-> p, status |-> "ACTIVE"] \in MobilityIdentity
    BY DEF MobilityIdentity
  <2>2. identities \in Seq(MobilityIdentity) /\ Len(identities) = 1
    BY <1>1, <2>1
  <2>3. NoSession \in BrowserPage
    BY DEF NoSession, BrowserPage
  <2>4. browserPage \in [Browsers -> BrowserPage] /\ browserCall \in [Browsers -> AccountCall]
    BY <2>3 DEF AccountsInit, AccountCall
  <2>5. requests \in Seq(RecoveryRequest) /\ Len(requests) = 0
    BY <1>2
  <2>6. relations \subseteq Relationship /\ revoked \subseteq relations
    BY <1>2, <1>3
  <2> QED BY <1>2, <2>2, <2>4, <2>5, <2>6, AccountsAssumption DEF AccountsTypeOK
<1>6. CallsSound /\ CrossingsKnown /\ StillMissing
  BY <1>4 DEF CallsSound, CrossingsKnown, StillMissing, Busy
<1>7. PagesSound /\ SignedInHasIdentity
  BY <1>4 DEF PagesSound, SignedInHasIdentity, NoSession
<1>8. RowsSound /\ OneOfEach
  <2>1. \A r \in Active : r.via = "other"
    BY <1>3 DEF Active
  <2> QED BY <1>2, <1>3, <2>1 DEF RowsSound, OneOfEach, OneProvisioned, OneRecovered, OneCodePending
<1> QED BY <1>5, <1>6, <1>7, <1>8 DEF Provided

LEMMA PageEntered ==
    ASSUME NEW a \in Accounts, NEW how \in {"register", "recovery", "franceConnect", "credentials"}
    PROVE  [at |-> "in", account |-> a, person |-> Null, how |-> how] \in BrowserPage
BY DEF BrowserPage

LEMMA CredentialsStep ==
    ASSUME Provided, NEW b \in Browsers, NEW e \in Emails, LoginWithCredentials(b, e)
    PROVE  Provided'
<1> DEFINE p == [at |-> "in", account |-> e, person |-> Null, how |-> "credentials"]
<1>1. /\ browserPage' = [browserPage EXCEPT ![b] = p] /\ made' \in Nat
      /\ UNCHANGED <<users, admins, granted, identities, relations, revoked, requests,
                     browserCall, crossed>>
  BY DEF LoginWithCredentials, EnterAs, Count, Provided, AccountsTypeOK
<1>2. p \in BrowserPage
  BY PageEntered DEF Accounts
<1>3. AccountsTypeOK'
  BY <1>1, <1>2 DEF Provided, AccountsTypeOK
<1>4. \A c \in Browsers : browserPage'[c] = browserPage[c] \/ browserPage'[c] = p
  BY <1>1 DEF Provided, AccountsTypeOK
<1>5. PagesSound' /\ SignedInHasIdentity'
  BY <1>1, <1>4, PagesMove
<1>6. CallsSound' /\ CrossingsKnown'
  BY <1>1, CallsStay
<1>7. OneOfEach' /\ StillMissing'
  BY <1>1, MissingStays DEF Active
<1> QED BY <1>1, <1>3, <1>5, <1>6, <1>7 DEF Provided, RowsSound

LEMMA LeaveStep ==
    ASSUME Provided, NEW b \in Browsers, Leave(b)
    PROVE  Provided'
<1>1. /\ browserPage' = [browserPage EXCEPT ![b] = NoSession]
      /\ UNCHANGED <<users, admins, granted, identities, relations, revoked, requests,
                     browserCall, crossed, made>>
  BY DEF Leave
<1>2. NoSession \in BrowserPage
  BY DEF NoSession, BrowserPage
<1>3. AccountsTypeOK'
  BY <1>1, <1>2 DEF Provided, AccountsTypeOK
<1>4. \A c \in Browsers : browserPage'[c] = browserPage[c] \/ browserPage'[c] = NoSession
  BY <1>1 DEF Provided, AccountsTypeOK
<1>5. PagesSound' /\ SignedInHasIdentity'
  BY <1>1, <1>4, PagesMove DEF NoSession
<1>6. CallsSound' /\ CrossingsKnown'
  BY <1>1, CallsStay
<1>7. OneOfEach' /\ StillMissing'
  BY <1>1, MissingStays DEF Active
<1> QED BY <1>1, <1>3, <1>5, <1>6, <1>7 DEF Provided, RowsSound

LEMMA RoleStep ==
    ASSUME Provided, NEW a \in Accounts, NEW isAdmin \in BOOLEAN, SetUserRole(a, isAdmin)
    PROVE  Provided'
<1>1. /\ a \in users /\ admins' \subseteq admins \cup {a} /\ granted' \subseteq granted \cup {a}
      /\ made' \in Nat
      /\ UNCHANGED <<users, identities, relations, revoked, requests, browserPage, browserCall,
                     crossed>>
  BY DEF SetUserRole, Count, Provided, AccountsTypeOK
<1>2. AccountsTypeOK'
  BY <1>1 DEF Provided, AccountsTypeOK
<1>3. PagesSound' /\ SignedInHasIdentity'
  BY <1>1, PagesMove
<1>4. CallsSound' /\ CrossingsKnown'
  BY <1>1, CallsStay
<1>5. OneOfEach' /\ StillMissing'
  BY <1>1, MissingStays DEF Active
<1> QED BY <1>1, <1>2, <1>3, <1>4, <1>5 DEF Provided, RowsSound

LEMMA RequestChanged ==
    ASSUME NEW q \in RecoveryRequest
    PROVE  /\ [q EXCEPT !.expired = TRUE] \in RecoveryRequest
           /\ [q EXCEPT !.status = "cancelled"] \in RecoveryRequest
           /\ [q EXCEPT !.status = "completed"] \in RecoveryRequest
BY DEF RecoveryRequest

LEMMA ExpireStep ==
    ASSUME Provided, NEW r \in DOMAIN requests, Expire(r)
    PROVE  Provided'
<1>1. /\ requests' = [requests EXCEPT ![r].expired = TRUE]
      /\ UNCHANGED <<users, admins, granted, identities, relations, revoked, browserPage,
                     browserCall, crossed, made>>
  BY DEF Expire
<1>2. requests \in Seq(RecoveryRequest) /\ r \in 1 .. Len(requests)
  BY DEF Provided, AccountsTypeOK
<1>3. [requests[r] EXCEPT !.expired = TRUE] \in RecoveryRequest
  <2>1. requests[r] \in RecoveryRequest
    BY <1>2
  <2> QED BY <2>1, RequestChanged
<1>4. requests' \in Seq(RecoveryRequest) /\ Len(requests') = Len(requests)
  BY <1>1, <1>2, <1>3
<1>5. \A q \in DOMAIN requests' :
         /\ q \in DOMAIN requests /\ requests'[q].status = requests[q].status
         /\ requests'[q].identity = requests[q].identity
  BY <1>1, <1>2 DEF RecoveryRequest
<1>6. AccountsTypeOK'
  BY <1>1, <1>4 DEF Provided, AccountsTypeOK
<1>7. PagesSound' /\ SignedInHasIdentity'
  BY <1>1, PagesMove
<1>8. CallsSound' /\ CrossingsKnown'
  BY <1>1, CallsStay
<1>9. OneOfEach' /\ StillMissing'
  BY <1>1, <1>5, MissingStays DEF Active
<1> QED BY <1>1, <1>6, <1>7, <1>8, <1>9 DEF Provided, RowsSound

LEMMA RelationshipStep ==
    ASSUME Provided, NEW b \in Browsers, NEW i \in 1 .. MaxIdentities,
           NEW type \in RelationshipTypes, CreateRelationship(b, i, type)
    PROVE  Provided'
<1> DEFINE r == [account |-> browserPage[b].account, identity |-> i, type |-> type,
                 via |-> "other"]
<1>1. /\ relations' = relations \cup {r} /\ made' \in Nat
      /\ UNCHANGED <<users, admins, granted, identities, revoked, requests, browserPage,
                     browserCall, crossed>>
  BY DEF CreateRelationship, Count, Provided, AccountsTypeOK
<1>2. r \in Relationship
  BY DEF CreateRelationship, Provided, AccountsTypeOK, BrowserPage, Relationship
<1>3. AccountsTypeOK'
  BY <1>1, <1>2 DEF Provided, AccountsTypeOK
<1>4. \A q \in Active' : q.via # "other" => q \in Active
  BY <1>1 DEF Active
<1>5. PagesSound' /\ SignedInHasIdentity'
  BY <1>1, PagesMove
<1>6. CallsSound' /\ CrossingsKnown'
  BY <1>1, CallsStay
<1>7. OneOfEach' /\ StillMissing'
  BY <1>1, <1>4, MissingStays
<1>8. RowsSound'
  BY <1>1 DEF Provided, RowsSound
<1> QED BY <1>1, <1>3, <1>5, <1>6, <1>7, <1>8 DEF Provided

LEMMA RevokeStep ==
    ASSUME Provided, NEW b \in Browsers, NEW r \in relations, RevokeRelationship(b, r)
    PROVE  Provided'
<1>1. /\ revoked' = revoked \cup {r} /\ made' \in Nat
      /\ UNCHANGED <<users, admins, granted, identities, relations, requests, browserPage,
                     browserCall, crossed>>
  BY DEF RevokeRelationship, Count, Provided, AccountsTypeOK
<1>2. AccountsTypeOK'
  BY <1>1 DEF Provided, AccountsTypeOK
<1>3. PagesSound' /\ SignedInHasIdentity'
  BY <1>1, PagesMove
<1>4. CallsSound' /\ CrossingsKnown'
  BY <1>1, CallsStay
<1>5. OneOfEach' /\ StillMissing'
  BY <1>1, MissingStays DEF Active
<1> QED BY <1>1, <1>2, <1>3, <1>4, <1>5 DEF Provided, RowsSound

-----------------------------------------------------------------------------
(* The calls begun. *)

LEMMA Crossed ==
    ASSUME NEW b \in Browsers, NEW x
    PROVE  /\ Cross(b, x, Provisioned) =>
                /\ crossed \subseteq crossed' /\ crossed' \subseteq crossed \cup {x}
                /\ \A c \in Browsers \ {b} :
                      Busy(c) /\ Provisioning(browserCall[c]) /\ browserCall[c].account = x
                          => x \in crossed'
           /\ Cross(b, x, Recovered) =>
                /\ crossed \subseteq crossed' /\ crossed' \subseteq crossed \cup {x}
                /\ \A c \in Browsers \ {b} :
                      Busy(c) /\ browserCall[c].as = "recovery" /\ browserCall[c].identity = x
                          => x \in crossed'
<1>1. ASSUME Cross(b, x, Provisioned)
      PROVE  /\ crossed \subseteq crossed' /\ crossed' \subseteq crossed \cup {x}
             /\ \A c \in Browsers \ {b} :
                   Busy(c) /\ Provisioning(browserCall[c]) /\ browserCall[c].account = x
                       => x \in crossed'
  BY <1>1 DEF Cross, Provisioned, Provisioning, Busy
<1>2. ASSUME Cross(b, x, Recovered)
      PROVE  /\ crossed \subseteq crossed' /\ crossed' \subseteq crossed \cup {x}
             /\ \A c \in Browsers \ {b} :
                   Busy(c) /\ browserCall[c].as = "recovery" /\ browserCall[c].identity = x
                       => x \in crossed'
  BY <1>2 DEF Cross, Recovered, Busy
<1> QED BY <1>1, <1>2

LEMMA CallTyped ==
    ASSUME NEW pc \in {"createLocal", "sync", "provision"}, NEW a \in Accounts,
           NEW p \in Persons \cup {Null}, NEW was \in BOOLEAN,
           NEW as \in {"register", "franceConnect", "addPerson", "request"}
    PROVE  [pc |-> pc, account |-> a, person |-> p, identity |-> 0, request |-> 0,
            wasAdmin |-> was, as |-> as] \in AccountCall
<1>1. 0 \in 0 .. MaxIdentities /\ 0 \in 0 .. MaxRequests
  BY AccountsAssumption
<1> QED BY <1>1 DEF AccountCall

\* A call begins: what it says of itself and of those at work on the same is all there is to
\* show.
LEMMA Begins ==
    ASSUME Provided, NEW b \in Browsers, NEW k \in AccountCall,
           browserCall' = [browserCall EXCEPT ![b] = k],
           k.pc \in {"createLocal", "sync", "provision", "cancel", "recUser"},
           CallShape(k), k.wasAdmin => k.account \in users,
           k.pc = "recUser" => NoneRecovered(k.identity),
           users \subseteq users', users' \subseteq Accounts, made' \in Nat,
           crossed \subseteq crossed', crossed' \subseteq Accounts \cup 1 .. MaxIdentities,
           \A c \in Browsers \ {b} : Busy(c) =>
              /\ /\ Provisioning(k) /\ Provisioning(browserCall[c])
                 /\ k.pc # "createLocal" /\ browserCall[c].pc # "createLocal"
                 /\ browserCall[c].account = k.account
                 => k.account \in crossed'
              /\ /\ k.as = "recovery" /\ browserCall[c].as = "recovery"
                 /\ browserCall[c].identity = k.identity
                 => k.identity \in crossed',
           UNCHANGED <<admins, granted, identities, relations, revoked, requests, browserPage>>
    PROVE  Provided'
<1>1. browserCall' \in [Browsers -> AccountCall] /\ CallsSound' /\ CrossingsKnown'
  BY CallMoves
<1>2. AccountsTypeOK'
  BY <1>1 DEF Provided, AccountsTypeOK
<1>3. PagesSound' /\ SignedInHasIdentity'
  BY PagesMove
<1>4. OneOfEach' /\ StillMissing'
  BY MissingKept DEF Active
<1> QED BY <1>1, <1>2, <1>3, <1>4 DEF Provided, RowsSound

LEMMA SubmitStep ==
    ASSUME Provided, NEW b \in Browsers, NEW p \in Persons, NEW e \in Emails, Submit(b, p, e)
    PROVE  Provided'
<1>1. /\ made' \in Nat
      /\ UNCHANGED <<users, admins, granted, identities, relations, revoked, requests, crossed>>
  BY DEF Submit, Count, Provided, AccountsTypeOK
<1>2. CASE Matched(p)
  <2> DEFINE g == [at |-> "match", account |-> e, person |-> p, how |-> Null]
  <2>1. browserPage' = [browserPage EXCEPT ![b] = g] /\ UNCHANGED browserCall
    BY <1>2 DEF Submit
  <2>2. g \in BrowserPage
    BY DEF BrowserPage
  <2>3. AccountsTypeOK'
    BY <1>1, <2>1, <2>2 DEF Provided, AccountsTypeOK
  <2>4. \A c \in Browsers : browserPage'[c] = browserPage[c] \/ browserPage'[c] = g
    BY <2>1 DEF Provided, AccountsTypeOK
  <2>5. PagesSound' /\ SignedInHasIdentity'
    BY <1>1, <2>4, PagesMove
  <2>6. CallsSound' /\ CrossingsKnown'
    BY <1>1, <2>1, CallsStay
  <2>7. OneOfEach' /\ StillMissing'
    BY <1>1, <2>1, MissingStays DEF Active
  <2> QED BY <1>1, <2>3, <2>5, <2>6, <2>7 DEF Provided, RowsSound
<1>3. CASE ~ Matched(p)
  <2>1. PICK k : k = [pc |-> "createLocal", account |-> e, person |-> p, identity |-> 0,
                      request |-> 0, wasAdmin |-> e \in admins, as |-> "register"]
    OBVIOUS
  <2>2. browserCall' = [browserCall EXCEPT ![b] = k] /\ UNCHANGED browserPage
    BY <1>3, <2>1 DEF Submit, StartCall
  <2>3. k \in AccountCall
    <3>1. (e \in admins) \in BOOLEAN /\ e \in Accounts
      BY DEF Accounts
    <3> QED BY <2>1, <3>1, CallTyped
  <2>4. CallShape(k) /\ (k.wasAdmin => k.account \in users)
    BY <2>1 DEF CallShape, Requesting, Completing, Provided, AccountsTypeOK
  <2>5. k.pc = "createLocal" /\ k.as = "register"
    BY <2>1
  <2>6. users' \subseteq Accounts /\ crossed' \subseteq Accounts \cup 1 .. MaxIdentities
    BY <1>1 DEF Provided, AccountsTypeOK
  <2> QED BY <1>1, <2>2, <2>3, <2>4, <2>5, <2>6, Begins
<1> QED BY <1>2, <1>3

LEMMA FranceConnectStep ==
    ASSUME Provided, NEW b \in Browsers, NEW s \in Subjects, NEW p \in Persons,
           NEW dated \in BOOLEAN, FranceConnectCallback(b, s, p, dated)
    PROVE  Provided'
<1>1. /\ made' \in Nat /\ Cross(b, s, Provisioned) /\ s \in Accounts
      /\ UNCHANGED <<admins, granted, identities, relations, revoked, requests>>
  BY DEF FranceConnectCallback, Count, Provided, AccountsTypeOK, Accounts
<1>2. /\ crossed \subseteq crossed' /\ crossed' \subseteq Accounts \cup 1 .. MaxIdentities
      /\ \A c \in Browsers \ {b} :
            Busy(c) /\ Provisioning(browserCall[c]) /\ browserCall[c].account = s => s \in crossed'
  BY <1>1, Crossed DEF Provided, AccountsTypeOK
<1>3. OwnerIdentityInput(p, dated) \in Persons \cup {Null} /\ (s \in admins) \in BOOLEAN
      /\ (OwnerIdentityInput(p, dated) # Null => OwnerIdentityInput(p, dated) = p)
  BY DEF OwnerIdentityInput
<1>4. CASE s \in users
  <2>1. PICK k : k = [pc |-> "sync", account |-> s, person |-> OwnerIdentityInput(p, dated),
                      identity |-> 0, request |-> 0, wasAdmin |-> s \in admins,
                      as |-> "franceConnect"]
    OBVIOUS
  <2>2. browserCall' = [browserCall EXCEPT ![b] = k] /\ UNCHANGED <<users, browserPage>>
    BY <1>4, <2>1 DEF FranceConnectCallback, StartCall
  <2>3. k \in AccountCall
    BY <1>1, <1>3, <2>1, CallTyped
  <2>4. CallShape(k) /\ (k.wasAdmin => k.account \in users)
    BY <1>4, <2>1 DEF CallShape, Requesting, Completing, Provisioning
  <2>5. k.pc = "sync" /\ k.as = "franceConnect" /\ k.account = s
    BY <2>1
  <2>6. users' \subseteq Accounts
    BY <2>2 DEF Provided, AccountsTypeOK
  <2> QED BY <1>1, <1>2, <2>2, <2>3, <2>4, <2>5, <2>6, Begins
<1>5. CASE s \notin users /\ OwnerIdentityInput(p, dated) # Null
  <2>1. PICK k : k = [pc |-> "provision", account |-> s, person |-> p,
                      identity |-> 0, request |-> 0, wasAdmin |-> s \in admins,
                      as |-> "franceConnect"]
    OBVIOUS
  <2>2. /\ browserCall' = [browserCall EXCEPT ![b] = k] /\ UNCHANGED browserPage
        /\ users' = users \cup {s}
    BY <1>5, <2>1 DEF FranceConnectCallback, StartCall
  <2>3. k \in AccountCall
    BY <1>1, <1>3, <2>1, CallTyped
  <2>4. CallShape(k) /\ (k.wasAdmin => k.account \in users)
    BY <2>1 DEF CallShape, Requesting, Completing, Provisioning, Provided, AccountsTypeOK
  <2>5. k.pc = "provision" /\ k.as = "franceConnect" /\ k.account = s
    BY <2>1
  <2>6. users \subseteq users' /\ users' \subseteq Accounts
    BY <1>1, <2>2 DEF Provided, AccountsTypeOK
  <2> QED BY <1>1, <1>2, <2>2, <2>3, <2>4, <2>5, <2>6, Begins
<1>6. CASE s \notin users /\ OwnerIdentityInput(p, dated) = Null
  <2> DEFINE g == [at |-> "in", account |-> s, person |-> Null, how |-> "franceConnect"]
  <2>1. /\ browserPage' = [browserPage EXCEPT ![b] = g] /\ UNCHANGED browserCall
        /\ users' = users \cup {s}
    BY <1>6 DEF FranceConnectCallback, EnterAs
  <2>2. g \in BrowserPage
    BY <1>1, PageEntered
  <2>3. AccountsTypeOK'
    BY <1>1, <1>2, <2>1, <2>2 DEF Provided, AccountsTypeOK
  <2>4. \A c \in Browsers : browserPage'[c] = browserPage[c] \/ browserPage'[c] = g
    BY <2>1 DEF Provided, AccountsTypeOK
  <2>5. PagesSound' /\ SignedInHasIdentity'
    BY <1>1, <2>4, PagesMove
  <2>6. CallsSound' /\ CrossingsKnown'
    BY <1>1, <1>2, <2>1, CallsStay
  <2>7. OneOfEach' /\ StillMissing'
    BY <1>1, <1>2, <2>1, MissingStays DEF Active
  <2> QED BY <1>1, <2>3, <2>5, <2>6, <2>7 DEF Provided, RowsSound
<1> QED BY <1>4, <1>5, <1>6

LEMMA AuthenticatedStep ==
    ASSUME Provided, NEW b \in Browsers, NEW as \in {"request", "addPerson"},
           AuthenticatedRequest(b, as)
    PROVE  Provided'
<1>1. /\ made' \in Nat /\ browserPage[b].account \in Accounts
      /\ UNCHANGED <<users, admins, granted, identities, relations, revoked, requests,
                     browserPage, crossed>>
  BY DEF AuthenticatedRequest, Count, Provided, AccountsTypeOK, BrowserPage
<1>2. PICK p \in Persons : StartCall(b, "sync", browserPage[b].account, p, as)
  BY DEF AuthenticatedRequest
<1>3. PICK k : k = [pc |-> "sync", account |-> browserPage[b].account, person |-> p,
                    identity |-> 0, request |-> 0,
                    wasAdmin |-> browserPage[b].account \in admins, as |-> as]
  OBVIOUS
<1>4. browserCall' = [browserCall EXCEPT ![b] = k]
  BY <1>2, <1>3 DEF StartCall
<1>5. k \in AccountCall
  <2>1. (browserPage[b].account \in admins) \in BOOLEAN
    OBVIOUS
  <2> QED BY <1>1, <1>3, <2>1, CallTyped
<1>6. CallShape(k) /\ (k.wasAdmin => k.account \in users)
  BY <1>3 DEF CallShape, Requesting, Completing, Provisioning, Provided, AccountsTypeOK
<1>7. k.pc = "sync" /\ k.as \in {"request", "addPerson"}
  BY <1>3
<1>8. users' \subseteq Accounts /\ crossed' \subseteq Accounts \cup 1 .. MaxIdentities
  BY <1>1 DEF Provided, AccountsTypeOK
<1>9. ~ Provisioning(k) /\ k.as # "recovery"
  BY <1>7 DEF Provisioning
<1> QED BY <1>1, <1>4, <1>5, <1>6, <1>7, <1>8, <1>9, Begins

LEMMA RequestRecoveryStep ==
    ASSUME Provided, NEW b \in Browsers, RequestRecovery(b)
    PROVE  Provided'
<1>1. /\ made' \in Nat /\ browserPage[b].account \in Emails
      /\ browserPage[b].person \in Persons \cup {Null}
      /\ UNCHANGED <<users, admins, granted, identities, relations, revoked, requests,
                     browserPage>>
  BY DEF RequestRecovery, Count, Provided, AccountsTypeOK, BrowserPage, PagesSound
<1>2. PICK i \in FindRecoverable(browserPage[b].person) :
        /\ browserCall' = [browserCall EXCEPT ![b] =
            [pc |-> "cancel", account |-> browserPage[b].account,
             person |-> browserPage[b].person, identity |-> i, request |-> 0,
             wasAdmin |-> FALSE, as |-> "recovery"]]
        /\ Cross(b, i, Recovered)
  BY DEF RequestRecovery
<1>3. i \in 1 .. MaxIdentities
  BY AccountsAssumption DEF FindRecoverable, Provided, AccountsTypeOK
<1>4. PICK k : k = [pc |-> "cancel", account |-> browserPage[b].account,
                    person |-> browserPage[b].person, identity |-> i, request |-> 0,
                    wasAdmin |-> FALSE, as |-> "recovery"]
  OBVIOUS
<1>5. k \in AccountCall
  <2>1. 0 \in 0 .. MaxRequests /\ i \in 0 .. MaxIdentities
    BY <1>3, AccountsAssumption
  <2> QED BY <1>1, <1>4, <2>1 DEF AccountCall, Accounts
<1>6. CallShape(k) /\ ~ k.wasAdmin /\ k.pc = "cancel" /\ k.as = "recovery" /\ k.identity = i
  BY <1>1, <1>3, <1>4 DEF CallShape, Requesting, Completing, Provisioning
<1>7. /\ crossed \subseteq crossed' /\ crossed' \subseteq Accounts \cup 1 .. MaxIdentities
      /\ \A c \in Browsers \ {b} :
            Busy(c) /\ browserCall[c].as = "recovery" /\ browserCall[c].identity = i
                => i \in crossed'
  BY <1>2, <1>3, Crossed DEF Provided, AccountsTypeOK
<1>8. users' \subseteq Accounts /\ ~ Provisioning(k)
  BY <1>1, <1>6 DEF Provided, AccountsTypeOK, Provisioning
<1> QED BY <1>1, <1>2, <1>4, <1>5, <1>6, <1>7, <1>8, Begins

LEMMA CompleteRecoveryStep ==
    ASSUME Provided, NEW b \in Browsers, NEW r \in DOMAIN requests, CompleteRecovery(b, r)
    PROVE  Provided'
<1>1. /\ made' \in Nat /\ browserPage[b].account \in Emails
      /\ browserPage[b].person \in Persons \cup {Null}
      /\ UNCHANGED <<users, admins, granted, identities, relations, revoked, requests,
                     browserPage>>
  BY DEF CompleteRecovery, Count, Provided, AccountsTypeOK, BrowserPage, PagesSound
<1>2. requests[r].identity \in 1 .. MaxIdentities /\ r \in 0 .. MaxRequests
  <2>1. requests[r] \in RecoveryRequest /\ r \in 1 .. MaxRequests
    BY AccountsAssumption DEF Provided, AccountsTypeOK
  <2> QED BY <2>1, AccountsAssumption DEF RecoveryRequest
<1>3. PICK i : i = requests[r].identity
  OBVIOUS
<1>4. PICK k : k = [pc |-> "recUser", account |-> browserPage[b].account,
                    person |-> browserPage[b].person, identity |-> i, request |-> r,
                    wasAdmin |-> FALSE, as |-> "recovery"]
  OBVIOUS
<1>5. browserCall' = [browserCall EXCEPT ![b] = k] /\ Cross(b, i, Recovered)
  BY <1>3, <1>4 DEF CompleteRecovery
<1>6. k \in AccountCall
  <2>1. i \in 0 .. MaxIdentities
    BY <1>2, <1>3, AccountsAssumption
  <2> QED BY <1>1, <1>2, <1>4, <2>1 DEF AccountCall, Accounts
<1>7. CallShape(k) /\ ~ k.wasAdmin /\ k.pc = "recUser" /\ k.as = "recovery" /\ k.identity = i
  BY <1>1, <1>2, <1>3, <1>4 DEF CallShape, Requesting, Completing, Provisioning
<1>8. /\ crossed \subseteq crossed' /\ crossed' \subseteq Accounts \cup 1 .. MaxIdentities
      /\ \A c \in Browsers \ {b} :
            Busy(c) /\ browserCall[c].as = "recovery" /\ browserCall[c].identity = i
                => i \in crossed'
  BY <1>2, <1>3, <1>5, Crossed DEF Provided, AccountsTypeOK
<1>9. NoneRecovered(i)
  BY <1>3 DEF CompleteRecovery, HasActiveOwner, NoneRecovered, Provided, RowsSound, Active
<1>10. users' \subseteq Accounts /\ ~ Provisioning(k)
  BY <1>1, <1>7 DEF Provided, AccountsTypeOK, Provisioning
<1> QED BY <1>1, <1>5, <1>6, <1>7, <1>8, <1>9, <1>10, Begins

-----------------------------------------------------------------------------
(* The calls at work. *)

\* A call goes on, or ends when k is Null, and inserts nothing that is to be there once.
LEMMA GoesOn ==
    ASSUME Provided, NEW b \in Browsers, Busy(b), NEW k \in AccountCall,
           browserCall' = [browserCall EXCEPT ![b] = k],
           k # Null =>
              /\ browserCall[b].pc # "createLocal" /\ CallShape(k)
              /\ k.as = browserCall[b].as /\ k.account = browserCall[b].account
              /\ k.wasAdmin = browserCall[b].wasAdmin
              /\ k.as = "recovery" => k.identity = browserCall[b].identity
              /\ k.pc \in {"recStatus", "recMark"} => Owns(k.account)
              /\ k.pc \in {"identity", "relation"} /\ Provisioning(k) /\ k.account \notin crossed
                 => NoneProvisioned(k.account)
              /\ k.pc \in {"recUser", "recRelation"} /\ k.identity \notin crossed
                 => NoneRecovered(k.identity)
              /\ k.pc = "create" /\ k.identity \notin crossed
                 => \A r \in DOMAIN requests' : requests'[r].status = "pending" =>
                        requests'[r].identity # k.identity,
           users \subseteq users', users' \subseteq Accounts,
           admins' \subseteq users', granted' \subseteq users',
           identities' \in Seq(MobilityIdentity), Len(identities') <= MaxIdentities,
           requests' \in Seq(RecoveryRequest), Len(requests') <= MaxRequests,
           \A r \in DOMAIN requests' : requests'[r].status = "pending" =>
              /\ r \in DOMAIN requests /\ requests[r].status = "pending"
              /\ requests'[r].identity = requests[r].identity,
           browserPage' \in [Browsers -> BrowserPage],
           \A c \in Browsers :
              \/ browserPage'[c] = browserPage[c]
              \/ /\ browserPage'[c].at \in {"match", "code"} => browserPage'[c].account \in Emails
                 /\ browserPage'[c].at = "in" /\ browserPage'[c].how \in {"register", "recovery"} =>
                       \E r \in relations : r.account = browserPage'[c].account /\ r.type = "OWNER",
           UNCHANGED <<relations, revoked, crossed, made>>
    PROVE  Provided'
<1>1. browserCall' \in [Browsers -> AccountCall] /\ CallsSound' /\ CrossingsKnown'
  <2>1. CASE k = Null
    BY <2>1, CallMoves
  <2>2. CASE k # Null
    <3>1. \A c \in Browsers \ {b} : Busy(c) =>
              /\ /\ Provisioning(k) /\ Provisioning(browserCall[c])
                 /\ k.pc # "createLocal" /\ browserCall[c].pc # "createLocal"
                 /\ browserCall[c].account = k.account
                 => k.account \in crossed'
              /\ /\ k.as = "recovery" /\ browserCall[c].as = "recovery"
                 /\ browserCall[c].identity = k.identity
                 => k.identity \in crossed'
      BY <2>2, CallGoesOn
    <3>2. k.wasAdmin => k.account \in users'
      BY <2>2 DEF Provided, CallsSound
    <3>3. k.pc \in {"recStatus", "recMark"} =>
              \E r \in relations' : r.account = k.account /\ r.type = "OWNER"
      BY <2>2 DEF Owns
    <3> QED BY <2>2, <3>1, <3>2, <3>3, CallMoves
  <2> QED BY <2>1, <2>2
<1>2. AccountsTypeOK'
  BY <1>1 DEF Provided, AccountsTypeOK
<1>3. PagesSound' /\ SignedInHasIdentity'
  BY PagesMove
<1>4. OneOfEach' /\ StillMissing'
  BY MissingKept DEF Active
<1> QED BY <1>1, <1>2, <1>3, <1>4 DEF Provided, RowsSound

Steps == {"createLocal", "sync", "provision", "identity", "relation"} \cup Requesting \cup Completing

LEMMA Proceeded ==
    ASSUME Provided, NEW b \in Browsers, Busy(b), NEW pc \in Steps, Proceed(b, pc)
    PROVE  \E k \in AccountCall :
              /\ browserCall' = [browserCall EXCEPT ![b] = k] /\ k.pc = pc
              /\ k.as = browserCall[b].as /\ k.account = browserCall[b].account
              /\ k.person = browserCall[b].person /\ k.identity = browserCall[b].identity
              /\ k.request = browserCall[b].request /\ k.wasAdmin = browserCall[b].wasAdmin
<1> DEFINE k == [browserCall[b] EXCEPT !.pc = pc]
<1>1. browserCall[b] \in AccountCall \ {Null}
  BY DEF Provided, AccountsTypeOK, Busy
<1>2. /\ k \in AccountCall /\ k.pc = pc
      /\ k.as = browserCall[b].as /\ k.account = browserCall[b].account
      /\ k.person = browserCall[b].person /\ k.identity = browserCall[b].identity
      /\ k.request = browserCall[b].request /\ k.wasAdmin = browserCall[b].wasAdmin
  BY <1>1 DEF AccountCall, Steps, Requesting, Completing
<1>3. browserCall' = [browserCall EXCEPT ![b] = k]
  BY DEF Proceed
<1> QED BY <1>2, <1>3

\* A call that ends, whatever page it leaves behind.
LEMMA Ended ==
    ASSUME Provided, NEW b \in Browsers, Busy(b), End(b),
           admins' \subseteq users, browserPage' \in [Browsers -> BrowserPage],
           \A c \in Browsers :
              \/ browserPage'[c] = browserPage[c]
              \/ /\ browserPage'[c].at \in {"match", "code"} => browserPage'[c].account \in Emails
                 /\ browserPage'[c].at = "in" /\ browserPage'[c].how \in {"register", "recovery"} =>
                       \E r \in relations : r.account = browserPage'[c].account /\ r.type = "OWNER",
           UNCHANGED <<users, granted, identities, relations, revoked, requests, crossed, made>>
    PROVE  Provided'
<1>1. PICK k : k = Null
  OBVIOUS
<1>2. k \in AccountCall /\ browserCall' = [browserCall EXCEPT ![b] = k]
  BY <1>1 DEF AccountCall, End
<1>3. /\ users \subseteq Accounts /\ granted \subseteq users
      /\ identities \in Seq(MobilityIdentity) /\ Len(identities) <= MaxIdentities
      /\ requests \in Seq(RecoveryRequest) /\ Len(requests) <= MaxRequests
  BY DEF Provided, AccountsTypeOK
<1> QED BY <1>1, <1>2, <1>3, GoesOn

LEMMA Entered ==
    ASSUME Provided, NEW b \in Browsers, NEW a \in Accounts,
           NEW how \in {"register", "recovery", "franceConnect", "credentials"},
           EnterAs(b, a, how), how \in {"register", "recovery"} => Owns(a)'
    PROVE  /\ browserPage' \in [Browsers -> BrowserPage]
           /\ \A c \in Browsers :
              \/ browserPage'[c] = browserPage[c]
              \/ /\ browserPage'[c].at \in {"match", "code"} => browserPage'[c].account \in Emails
                 /\ browserPage'[c].at = "in" /\ browserPage'[c].how \in {"register", "recovery"} =>
                       \E r \in relations' : r.account = browserPage'[c].account /\ r.type = "OWNER"
<1> DEFINE p == [at |-> "in", account |-> a, person |-> Null, how |-> how]
<1>1. browserPage' = [browserPage EXCEPT ![b] = p] /\ p \in BrowserPage
  BY PageEntered DEF EnterAs
<1>2. browserPage' \in [Browsers -> BrowserPage]
  BY <1>1 DEF Provided, AccountsTypeOK
<1>3. \A c \in Browsers : browserPage'[c] = browserPage[c] \/ browserPage'[c] = p
  BY <1>1 DEF Provided, AccountsTypeOK
<1>4. p.at = "in" /\ p.how = how /\ p.account = a
  OBVIOUS
<1>5. how \in {"register", "recovery"} => \E r \in relations' : r.account = a /\ r.type = "OWNER"
  BY DEF Owns
<1> QED BY <1>2, <1>3, <1>4, <1>5

LEMMA CreateLocalStep ==
    ASSUME Provided, NEW b \in Browsers, CreateLocal(b)
    PROVE  Provided'
<1>1. /\ Busy(b) /\ browserCall[b].pc = "createLocal" /\ Proceed(b, "provision")
      /\ browserCall[b] \in AccountCall \ {Null}
      /\ users' = users \cup {browserCall[b].account}
      /\ UNCHANGED <<admins, granted, identities, relations, revoked, requests, browserPage, made>>
  BY DEF CreateLocal, InCall, Busy, Provided, AccountsTypeOK
<1>2. /\ browserCall[b].as = "register" /\ browserCall[b].person \in Persons
      /\ browserCall[b].account \in Accounts
      /\ browserCall[b].wasAdmin => browserCall[b].account \in users
  BY <1>1 DEF Provided, CallsSound, CallShape, AccountCall
<1>3. PICK k \in AccountCall :
         /\ browserCall' = [browserCall EXCEPT ![b] = k] /\ k.pc = "provision"
         /\ k.as = browserCall[b].as /\ k.account = browserCall[b].account
         /\ k.person = browserCall[b].person /\ k.wasAdmin = browserCall[b].wasAdmin
  BY <1>1, Proceeded DEF Steps
<1>4. CallShape(k) /\ k.as = "register" /\ (k.wasAdmin => k.account \in users)
  BY <1>2, <1>3 DEF CallShape, Requesting, Completing, Provisioning
<1>5. Cross(b, k.account, Provisioned)
  BY <1>3 DEF CreateLocal
<1>6. /\ crossed \subseteq crossed' /\ crossed' \subseteq Accounts \cup 1 .. MaxIdentities
      /\ \A c \in Browsers \ {b} :
            Busy(c) /\ Provisioning(browserCall[c]) /\ browserCall[c].account = k.account
                => k.account \in crossed'
  BY <1>2, <1>3, <1>5, Crossed DEF Provided, AccountsTypeOK
<1>7. users \subseteq users' /\ users' \subseteq Accounts /\ made' \in Nat
  BY <1>1, <1>2 DEF Provided, AccountsTypeOK
<1> QED BY <1>1, <1>3, <1>4, <1>6, <1>7, Begins

LEMMA SyncStep ==
    ASSUME Provided, NEW b \in Browsers, SyncUser(b)
    PROVE  Provided'
<1>1. /\ Busy(b) /\ browserCall[b].pc = "sync" /\ browserCall[b] \in AccountCall \ {Null}
      /\ UNCHANGED <<users, granted, identities, relations, revoked, requests, crossed, made>>
  BY DEF SyncUser, InCall, Busy, Provided, AccountsTypeOK
<1>2. /\ browserCall[b].as \in {"franceConnect", "addPerson", "request"}
      /\ browserCall[b].as # "franceConnect" => browserCall[b].person \in Persons
      /\ browserCall[b].person \in Persons \cup {Null} /\ browserCall[b].account \in Accounts
      /\ browserCall[b].wasAdmin => browserCall[b].account \in users
  BY <1>1 DEF Provided, CallsSound, CallShape, AccountCall
<1>3. admins' \subseteq users
  <2>1. admins \subseteq users
    BY DEF Provided, AccountsTypeOK
  <2> QED BY <1>2, <2>1 DEF SyncUser, Save
<1>4. /\ browserPage \in [Browsers -> BrowserPage]
      /\ users \subseteq Accounts /\ granted \subseteq users
      /\ identities \in Seq(MobilityIdentity) /\ Len(identities) <= MaxIdentities
      /\ requests \in Seq(RecoveryRequest) /\ Len(requests) <= MaxRequests
  BY DEF Provided, AccountsTypeOK
<1>5. CASE browserCall[b].as = "request"
  <2>1. End(b) /\ UNCHANGED browserPage
    BY <1>5 DEF SyncUser
  <2> QED BY <1>1, <1>3, <1>4, <2>1, Ended
<1>6. CASE browserCall[b].as = "franceConnect" /\ browserCall[b].person = Null
  <2>1. PICK a \in Accounts : a = browserCall[b].account
    BY <1>2
  <2>2. End(b) /\ EnterAs(b, a, "franceConnect")
    BY <1>6, <2>1 DEF SyncUser
  <2>3. /\ browserPage' \in [Browsers -> BrowserPage]
        /\ \A c \in Browsers :
              \/ browserPage'[c] = browserPage[c]
              \/ /\ browserPage'[c].at \in {"match", "code"} => browserPage'[c].account \in Emails
                 /\ browserPage'[c].at = "in" /\ browserPage'[c].how \in {"register", "recovery"} =>
                       \E r \in relations' : r.account = browserPage'[c].account /\ r.type = "OWNER"
    BY <2>2, Entered
  <2> QED BY <1>1, <1>3, <2>2, <2>3, Ended
<1>7. CASE browserCall[b].as = "addPerson"
           \/ (browserCall[b].as = "franceConnect" /\ browserCall[b].person # Null)
  <2>1. PICK pc \in {"identity", "provision"} :
           /\ Proceed(b, pc) /\ UNCHANGED browserPage
           /\ browserCall[b].as = "addPerson" <=> pc = "identity"
    BY <1>7 DEF SyncUser
  <2>2. PICK k \in AccountCall :
           /\ browserCall' = [browserCall EXCEPT ![b] = k] /\ k.pc = pc
           /\ k.as = browserCall[b].as /\ k.account = browserCall[b].account
           /\ k.person = browserCall[b].person /\ k.wasAdmin = browserCall[b].wasAdmin
    BY <1>1, <2>1, Proceeded DEF Steps
  <2>3. k.person \in Persons /\ k.as \in {"franceConnect", "addPerson"}
    BY <1>2, <1>7, <2>2
  <2>4. CallShape(k)
    BY <2>1, <2>2, <2>3 DEF CallShape, Requesting, Completing, Provisioning
  <2>5. k.pc = "identity" => ~ Provisioning(k)
    BY <2>1, <2>2 DEF Provisioning
  <2> QED BY <1>1, <1>3, <1>4, <2>1, <2>2, <2>3, <2>4, <2>5, GoesOn
<1> QED BY <1>2, <1>5, <1>6, <1>7

LEMMA ProvisionStep ==
    ASSUME Provided, NEW b \in Browsers, Provision(b)
    PROVE  Provided'
<1>1. /\ Busy(b) /\ browserCall[b].pc = "provision" /\ browserCall[b] \in AccountCall \ {Null}
      /\ UNCHANGED <<users, admins, granted, identities, relations, revoked, requests, crossed,
                     made>>
  BY DEF Provision, InCall, Busy, Provided, AccountsTypeOK
<1>2. /\ Provisioning(browserCall[b]) /\ browserCall[b].person \in Persons
      /\ browserCall[b].account \in Accounts
  BY <1>1 DEF Provided, CallsSound, CallShape, AccountCall
<1>3. /\ browserPage \in [Browsers -> BrowserPage] /\ admins \subseteq users
      /\ users \subseteq Accounts /\ granted \subseteq users
      /\ identities \in Seq(MobilityIdentity) /\ Len(identities) <= MaxIdentities
      /\ requests \in Seq(RecoveryRequest) /\ Len(requests) <= MaxRequests
  BY DEF Provided, AccountsTypeOK
<1>4. CASE FindExistingOwnerIdentity(browserCall[b].account) # {}
  <2>1. PICK a \in Accounts, how \in {"register", "franceConnect"} :
           a = browserCall[b].account /\ how = browserCall[b].as
    BY <1>2 DEF Provisioning
  <2>2. End(b) /\ EnterAs(b, a, how)
    BY <1>4, <2>1 DEF Provision
  <2>3. Owns(a)'
    BY <1>1, <1>4, <2>1 DEF FindExistingOwnerIdentity, Active, Owns
  <2>4. /\ browserPage' \in [Browsers -> BrowserPage]
        /\ \A c \in Browsers :
              \/ browserPage'[c] = browserPage[c]
              \/ /\ browserPage'[c].at \in {"match", "code"} => browserPage'[c].account \in Emails
                 /\ browserPage'[c].at = "in" /\ browserPage'[c].how \in {"register", "recovery"} =>
                       \E r \in relations' : r.account = browserPage'[c].account /\ r.type = "OWNER"
    BY <2>2, <2>3, Entered
  <2> QED BY <1>1, <1>3, <2>2, <2>4, Ended
<1>5. CASE FindExistingOwnerIdentity(browserCall[b].account) = {}
  <2>1. Proceed(b, "identity") /\ UNCHANGED browserPage
    BY <1>5 DEF Provision
  <2>2. PICK k \in AccountCall :
           /\ browserCall' = [browserCall EXCEPT ![b] = k] /\ k.pc = "identity"
           /\ k.as = browserCall[b].as /\ k.account = browserCall[b].account
           /\ k.person = browserCall[b].person /\ k.wasAdmin = browserCall[b].wasAdmin
    BY <1>1, <2>1, Proceeded DEF Steps
  <2>3. NoneProvisioned(k.account)
    BY <1>5, <2>2
        DEF FindExistingOwnerIdentity, NoneProvisioned, Provided, RowsSound, Active
  <2>4. CallShape(k) /\ k.as # "recovery"
    BY <1>2, <2>2 DEF CallShape, Requesting, Completing, Provisioning
  <2> QED BY <1>1, <1>3, <2>1, <2>2, <2>3, <2>4, GoesOn
<1> QED BY <1>4, <1>5

LEMMA CreateIdentityStep ==
    ASSUME Provided, NEW b \in Browsers, CreateIdentity(b)
    PROVE  Provided'
<1>1. /\ Busy(b) /\ browserCall[b].pc = "identity" /\ browserCall[b] \in AccountCall \ {Null}
      /\ UNCHANGED <<users, admins, granted, relations, revoked, requests, browserPage, crossed,
                     made>>
  BY DEF CreateIdentity, InCall, Busy, Provided, AccountsTypeOK
<1>2. /\ browserCall[b].person \in Persons
      /\ Provisioning(browserCall[b]) \/ browserCall[b].as = "addPerson"
  BY <1>1 DEF Provided, CallsSound, CallShape
<1>3. /\ browserPage \in [Browsers -> BrowserPage] /\ admins \subseteq users
      /\ users \subseteq Accounts /\ granted \subseteq users
      /\ identities \in Seq(MobilityIdentity) /\ Len(identities) < MaxIdentities
      /\ requests \in Seq(RecoveryRequest) /\ Len(requests) <= MaxRequests
  BY DEF Provided, AccountsTypeOK, CreateIdentity
<1>4. identities' \in Seq(MobilityIdentity) /\ Len(identities') <= MaxIdentities
  <2>1. [person |-> browserCall[b].person, status |-> "ACTIVE"] \in MobilityIdentity
    BY <1>2 DEF MobilityIdentity
  <2>2. identities' = Append(identities, [person |-> browserCall[b].person, status |-> "ACTIVE"])
    BY DEF CreateIdentity
  <2> QED BY <1>3, <2>1, <2>2, AccountsAssumption
<1>5. PICK n : n = Len(identities) + 1
  OBVIOUS
<1>6. n \in 1 .. MaxIdentities /\ n \in 0 .. MaxIdentities
  BY <1>3, <1>5, AccountsAssumption
<1>7. PICK k : k = [browserCall[b] EXCEPT !.pc = "relation", !.identity = n]
  OBVIOUS
<1>8. /\ k \in AccountCall /\ k.pc = "relation" /\ k.identity = n
      /\ k.as = browserCall[b].as /\ k.account = browserCall[b].account
      /\ k.wasAdmin = browserCall[b].wasAdmin
  BY <1>1, <1>6, <1>7 DEF AccountCall
<1>9. browserCall' = [browserCall EXCEPT ![b] = k]
  <2>1. browserCall' = [browserCall EXCEPT ![b].pc = "relation", ![b].identity = n]
    BY <1>5 DEF CreateIdentity
  <2>2. browserCall \in [Browsers -> AccountCall]
    BY DEF Provided, AccountsTypeOK
  <2> QED BY <1>7, <2>1, <2>2
<1>10. CallShape(k) /\ k.as # "recovery"
  BY <1>2, <1>6, <1>8 DEF CallShape, Requesting, Completing, Provisioning
<1>11. Provisioning(k) /\ k.account \notin crossed => NoneProvisioned(k.account)
  BY <1>1, <1>8 DEF Provided, StillMissing, Provisioning
<1> QED BY <1>1, <1>3, <1>4, <1>8, <1>9, <1>10, <1>11, GoesOn

\* What a call at work inserts was missing, and no other call at work counted on that.
LEMMA OwnerInserted ==
    ASSUME Provided, NEW b \in Browsers, Busy(b), NEW k \in AccountCall,
           browserCall' = [browserCall EXCEPT ![b] = k],
           k.pc \notin {"identity", "relation", "recUser", "recRelation", "create"} \/ k = Null,
           NEW r \in Relationship, relations' = relations \cup {r}, r.type = "OWNER",
           r.account = browserCall[b].account, r.identity = browserCall[b].identity,
           \/ r.via = "other"
           \/ /\ r.via = "provision" /\ browserCall[b].pc = "relation"
              /\ Provisioning(browserCall[b])
           \/ /\ r.via = "recovery" /\ browserCall[b].pc = "recRelation"
              /\ browserCall[b].as = "recovery",
           UNCHANGED <<revoked, requests, crossed>>
    PROVE  OneOfEach' /\ StillMissing' /\ RowsSound'
<1>1. \A q \in Active' : q \in Active \/ q = r
  BY DEF Active
<1>2. RowsSound'
  BY DEF Provided, RowsSound
<1>3. r.via = "provision" /\ r.account \notin crossed => NoneProvisioned(r.account)
  BY DEF Provided, StillMissing
<1>4. r.via = "recovery" /\ r.identity \notin crossed => NoneRecovered(r.identity)
  BY DEF Provided, StillMissing
<1>5. OneProvisioned'
  BY <1>1, <1>3 DEF Provided, OneOfEach, OneProvisioned, NoneProvisioned
<1>6. OneRecovered'
  BY <1>1, <1>4 DEF Provided, OneOfEach, OneRecovered, NoneRecovered
<1>7. OneCodePending'
  BY DEF Provided, OneOfEach, OneCodePending
<1>8. ASSUME NEW c \in Browsers \ {b}, Busy(c)
      PROVE  /\ /\ browserCall[c].pc \in {"identity", "relation"} /\ Provisioning(browserCall[c])
                /\ browserCall[c].account \notin crossed'
                => \A q \in Active' : q.via = "provision" => q.account # browserCall[c].account
             /\ /\ browserCall[c].pc \in {"recUser", "recRelation"}
                /\ browserCall[c].identity \notin crossed'
                => \A q \in Active' : q.via = "recovery" => q.identity # browserCall[c].identity
             /\ browserCall[c].pc = "create" /\ browserCall[c].identity \notin crossed'
                => \A q \in DOMAIN requests' : requests'[q].status = "pending" =>
                       requests'[q].identity # browserCall[c].identity
  <2>1. ASSUME browserCall[c].pc \in {"identity", "relation"}, Provisioning(browserCall[c]),
               browserCall[c].account \notin crossed
        PROVE  \A q \in Active' : q.via = "provision" => q.account # browserCall[c].account
    <3>1. NoneProvisioned(browserCall[c].account)
      BY <1>8, <2>1 DEF Provided, StillMissing
    <3>2. r.via = "provision" => r.account # browserCall[c].account
      BY <1>8, <2>1 DEF Provided, CrossingsKnown
    <3> QED BY <1>1, <3>1, <3>2 DEF NoneProvisioned
  <2>2. ASSUME browserCall[c].pc \in {"recUser", "recRelation"},
               browserCall[c].identity \notin crossed
        PROVE  \A q \in Active' : q.via = "recovery" => q.identity # browserCall[c].identity
    <3>1. NoneRecovered(browserCall[c].identity) /\ browserCall[c].as = "recovery"
      BY <1>8, <2>2 DEF Provided, StillMissing, CallsSound, CallShape, Completing
    <3>2. r.via = "recovery" => r.identity # browserCall[c].identity
      BY <1>8, <2>2, <3>1 DEF Provided, CrossingsKnown
    <3> QED BY <1>1, <3>1, <3>2 DEF NoneRecovered
  <2>3. browserCall[c].pc = "create" /\ browserCall[c].identity \notin crossed
            => \A q \in DOMAIN requests : requests[q].status = "pending" =>
                   requests[q].identity # browserCall[c].identity
    BY <1>8 DEF Provided, StillMissing, NonePending
  <2> QED BY <2>1, <2>2, <2>3
<1>9. StillMissing'
  BY <1>8, MissingMoves
<1> QED BY <1>2, <1>5, <1>6, <1>7, <1>9 DEF OneOfEach

LEMMA CreateOwnerStep ==
    ASSUME Provided, NEW b \in Browsers, CreateOwner(b)
    PROVE  Provided'
<1>1. /\ Busy(b) /\ browserCall[b].pc = "relation" /\ browserCall[b] \in AccountCall \ {Null}
      /\ UNCHANGED <<users, admins, granted, identities, revoked, requests, crossed, made>>
  BY DEF CreateOwner, InCall, Busy, Provided, AccountsTypeOK
<1>2. /\ browserCall[b].identity \in 1 .. MaxIdentities /\ browserCall[b].account \in Accounts
      /\ Provisioning(browserCall[b]) \/ browserCall[b].as = "addPerson"
  BY <1>1 DEF Provided, CallsSound, CallShape, AccountCall
<1>3. PICK via \in {"provision", "other"} :
         via = IF browserCall[b].as = "addPerson" THEN "other" ELSE "provision"
  OBVIOUS
<1>4. PICK r : r = Row(b, via)
  OBVIOUS
<1>5. /\ r \in Relationship /\ r.type = "OWNER" /\ r.via = via
      /\ r.account = browserCall[b].account /\ r.identity = browserCall[b].identity
  BY <1>2, <1>4 DEF Row, Relationship, RelationshipTypes
<1>6. relations' = relations \cup {r}
  BY <1>3, <1>4 DEF CreateOwner
<1>7. PICK k : k = Null
  OBVIOUS
<1>8. k \in AccountCall /\ browserCall' = [browserCall EXCEPT ![b] = k]
  BY <1>7 DEF AccountCall, CreateOwner, End
<1>9. OneOfEach' /\ StillMissing' /\ RowsSound'
  <2>1. \/ r.via = "other"
        \/ r.via = "provision" /\ browserCall[b].pc = "relation" /\ Provisioning(browserCall[b])
    BY <1>1, <1>2, <1>3, <1>5
  <2> QED BY <1>1, <1>5, <1>6, <1>7, <1>8, <2>1, OwnerInserted
<1>10. browserCall' \in [Browsers -> AccountCall] /\ CallsSound' /\ CrossingsKnown'
  BY <1>1, <1>6, <1>7, <1>8, CallMoves
<1>11. browserPage' \in [Browsers -> BrowserPage] /\ PagesSound' /\ SignedInHasIdentity'
  <2>1. CASE browserCall[b].as = "addPerson"
    <3>1. UNCHANGED browserPage
      BY <2>1 DEF CreateOwner
    <3> QED BY <1>6, <3>1, PagesMove DEF Provided, AccountsTypeOK
  <2>2. CASE browserCall[b].as # "addPerson"
    <3>1. PICK a \in Accounts, how \in {"register", "franceConnect"} :
             a = browserCall[b].account /\ how = browserCall[b].as
      BY <1>2, <2>2 DEF Provisioning
    <3>2. EnterAs(b, a, how)
      BY <2>2, <3>1 DEF CreateOwner
    <3>3. Owns(a)'
      BY <1>5, <1>6, <3>1 DEF Owns
    <3>4. /\ browserPage' \in [Browsers -> BrowserPage]
          /\ \A c \in Browsers :
                \/ browserPage'[c] = browserPage[c]
                \/ /\ browserPage'[c].at \in {"match", "code"} => browserPage'[c].account \in Emails
                   /\ browserPage'[c].at = "in" /\ browserPage'[c].how \in {"register", "recovery"} =>
                         \E q \in relations' : q.account = browserPage'[c].account /\ q.type = "OWNER"
      BY <3>2, <3>3, Entered
    <3> QED BY <1>6, <3>4, PagesMove
  <2> QED BY <2>1, <2>2
<1>12. AccountsTypeOK'
  BY <1>1, <1>5, <1>6, <1>10, <1>11 DEF Provided, AccountsTypeOK
<1> QED BY <1>9, <1>10, <1>11, <1>12 DEF Provided

LEMMA RecoverRelationStep ==
    ASSUME Provided, NEW b \in Browsers, RecoverRelation(b)
    PROVE  Provided'
<1>1. /\ Busy(b) /\ browserCall[b].pc = "recRelation" /\ browserCall[b] \in AccountCall \ {Null}
      /\ Proceed(b, "recStatus")
      /\ UNCHANGED <<users, admins, granted, identities, revoked, requests, browserPage,
                     crossed, made>>
  BY DEF RecoverRelation, InCall, Busy, Provided, AccountsTypeOK
<1>2. /\ browserCall[b].identity \in 1 .. MaxIdentities /\ browserCall[b].account \in Accounts
      /\ browserCall[b].account \in Emails /\ browserCall[b].as = "recovery"
      /\ browserCall[b].wasAdmin => browserCall[b].account \in users
  BY <1>1 DEF Provided, CallsSound, CallShape, AccountCall, Completing
<1>3. PICK r : r = Row(b, "recovery")
  OBVIOUS
<1>4. /\ r \in Relationship /\ r.type = "OWNER" /\ r.via = "recovery"
      /\ r.account = browserCall[b].account /\ r.identity = browserCall[b].identity
  BY <1>2, <1>3 DEF Row, Relationship, RelationshipTypes
<1>5. relations' = relations \cup {r}
  BY <1>3 DEF RecoverRelation
<1>6. PICK k \in AccountCall :
         /\ browserCall' = [browserCall EXCEPT ![b] = k] /\ k.pc = "recStatus"
         /\ k.as = browserCall[b].as /\ k.account = browserCall[b].account
         /\ k.identity = browserCall[b].identity /\ k.wasAdmin = browserCall[b].wasAdmin
  BY <1>1, Proceeded DEF Steps, Completing
<1>7. CallShape(k) /\ k.as = "recovery" /\ ~ Provisioning(k)
  BY <1>2, <1>6 DEF CallShape, Requesting, Completing, Provisioning
<1>8. OneOfEach' /\ StillMissing' /\ RowsSound'
  <2>1. r.via = "recovery" /\ browserCall[b].pc = "recRelation" /\ browserCall[b].as = "recovery"
    BY <1>1, <1>2, <1>4
  <2> QED BY <1>1, <1>4, <1>5, <1>6, <2>1, OwnerInserted
<1>9. browserCall' \in [Browsers -> AccountCall] /\ CallsSound' /\ CrossingsKnown'
  <2>1. \A c \in Browsers \ {b} : Busy(c) =>
              /\ /\ Provisioning(k) /\ Provisioning(browserCall[c])
                 /\ k.pc # "createLocal" /\ browserCall[c].pc # "createLocal"
                 /\ browserCall[c].account = k.account
                 => k.account \in crossed'
              /\ /\ k.as = "recovery" /\ browserCall[c].as = "recovery"
                 /\ browserCall[c].identity = k.identity
                 => k.identity \in crossed'
    BY <1>1, <1>6, CallGoesOn
  <2>2. \E q \in relations' : q.account = k.account /\ q.type = "OWNER"
    BY <1>4, <1>5, <1>6
  <2>3. k.wasAdmin => k.account \in users'
    BY <1>1, <1>2, <1>6
  <2>4. users \subseteq users' /\ relations \subseteq relations' /\ crossed \subseteq crossed'
    BY <1>1, <1>5
  <2> QED BY <1>6, <1>7, <2>1, <2>2, <2>3, <2>4, CallMoves
<1>10. PagesSound' /\ SignedInHasIdentity'
  BY <1>1, <1>5, PagesMove
<1>11. AccountsTypeOK'
  BY <1>1, <1>4, <1>5, <1>9 DEF Provided, AccountsTypeOK
<1> QED BY <1>8, <1>9, <1>10, <1>11 DEF Provided

\* The codes of the identity that a call cancels are no longer pending.
LEMMA CancelPendingStep ==
    ASSUME Provided, NEW b \in Browsers, CancelPending(b)
    PROVE  Provided'
<1>1. /\ Busy(b) /\ browserCall[b].pc = "cancel" /\ browserCall[b] \in AccountCall \ {Null}
      /\ Proceed(b, "create")
      /\ UNCHANGED <<users, admins, granted, identities, relations, revoked, browserPage,
                     crossed, made>>
  BY DEF CancelPending, InCall, Busy, Provided, AccountsTypeOK
<1>2. /\ browserCall[b].identity \in 1 .. MaxIdentities /\ browserCall[b].as = "recovery"
      /\ browserCall[b].account \in Emails
  BY <1>1 DEF Provided, CallsSound, CallShape, Requesting
<1>3. /\ browserPage \in [Browsers -> BrowserPage] /\ admins \subseteq users
      /\ users \subseteq Accounts /\ granted \subseteq users
      /\ identities \in Seq(MobilityIdentity) /\ Len(identities) <= MaxIdentities
      /\ requests \in Seq(RecoveryRequest) /\ Len(requests) <= MaxRequests
  BY DEF Provided, AccountsTypeOK
<1>4. PICK k \in AccountCall :
         /\ browserCall' = [browserCall EXCEPT ![b] = k] /\ k.pc = "create"
         /\ k.as = browserCall[b].as /\ k.account = browserCall[b].account
         /\ k.identity = browserCall[b].identity /\ k.wasAdmin = browserCall[b].wasAdmin
  BY <1>1, Proceeded DEF Steps, Requesting
<1>5. CallShape(k) /\ k.as = "recovery"
  BY <1>2, <1>4 DEF CallShape, Requesting, Completing, Provisioning
<1>6. requests' = [q \in DOMAIN requests |->
            IF requests[q].identity = k.identity /\ requests[q].status = "pending"
            THEN [requests[q] EXCEPT !.status = "cancelled"] ELSE requests[q]]
  BY <1>4 DEF CancelPending, CancelPendingForIdentity
<1>7. \A q \in DOMAIN requests : requests[q] \in RecoveryRequest
  BY <1>3
<1>8. \A q \in DOMAIN requests : requests'[q] \in RecoveryRequest
  BY <1>6, <1>7, RequestChanged
<1>9. requests' \in Seq(RecoveryRequest) /\ Len(requests') = Len(requests)
  <2>1. DOMAIN requests' = 1 .. Len(requests) /\ Len(requests) \in Nat
    BY <1>3, <1>6
  <2> QED BY <1>6, <1>8, <2>1, <1>3
<1>10. ASSUME NEW q \in DOMAIN requests', requests'[q].status = "pending"
       PROVE  /\ q \in DOMAIN requests /\ requests[q].status = "pending"
              /\ requests'[q].identity = requests[q].identity
              /\ requests'[q].identity # k.identity
  <2>1. q \in DOMAIN requests
    BY <1>6
  <2>2. CASE requests[q].identity = k.identity /\ requests[q].status = "pending"
    <3>1. requests'[q] = [requests[q] EXCEPT !.status = "cancelled"]
      BY <1>6, <2>1, <2>2
    <3>2. requests'[q].status = "cancelled"
      BY <1>7, <2>1, <3>1 DEF RecoveryRequest
    <3> QED BY <1>10, <3>2
  <2>3. CASE ~ (requests[q].identity = k.identity /\ requests[q].status = "pending")
    <3>1. requests'[q] = requests[q]
      BY <1>6, <2>1, <2>3
    <3> QED BY <1>10, <2>1, <2>3, <3>1
  <2> QED BY <2>2, <2>3
<1>11. ~ Provisioning(k)
  BY <1>5 DEF Provisioning
<1> QED BY <1>1, <1>3, <1>4, <1>5, <1>9, <1>10, <1>11, GoesOn

LEMMA CreateRecoveryRequestStep ==
    ASSUME Provided, NEW b \in Browsers, CreateRecoveryRequest(b)
    PROVE  Provided'
<1>1. /\ Busy(b) /\ browserCall[b].pc = "create" /\ browserCall[b] \in AccountCall \ {Null}
      /\ Proceed(b, "mark") /\ Len(requests) < MaxRequests
      /\ UNCHANGED <<users, admins, granted, identities, relations, revoked, browserPage,
                     crossed, made>>
  BY DEF CreateRecoveryRequest, InCall, Busy, Provided, AccountsTypeOK
<1>2. /\ browserCall[b].identity \in 1 .. MaxIdentities /\ browserCall[b].as = "recovery"
      /\ browserCall[b].account \in Emails
      /\ browserCall[b].wasAdmin => browserCall[b].account \in users
  BY <1>1 DEF Provided, CallsSound, CallShape, Requesting
<1>3. PICK k \in AccountCall :
         /\ browserCall' = [browserCall EXCEPT ![b] = k] /\ k.pc = "mark"
         /\ k.as = browserCall[b].as /\ k.account = browserCall[b].account
         /\ k.identity = browserCall[b].identity /\ k.wasAdmin = browserCall[b].wasAdmin
  BY <1>1, Proceeded DEF Steps, Requesting
<1>4. CallShape(k) /\ k.as = "recovery"
  BY <1>2, <1>3 DEF CallShape, Requesting, Completing, Provisioning
<1>5. PICK q : q = [identity |-> browserCall[b].identity, email |-> browserCall[b].account,
                    status |-> "pending", expired |-> FALSE]
  OBVIOUS
<1>6. q \in RecoveryRequest /\ q.identity = k.identity
  BY <1>2, <1>3, <1>5 DEF RecoveryRequest
<1>7. requests' = Append(requests, q) /\ requests \in Seq(RecoveryRequest)
  BY <1>5 DEF CreateRecoveryRequest, Provided, AccountsTypeOK
<1>8. requests' \in Seq(RecoveryRequest) /\ Len(requests') <= MaxRequests
  BY <1>1, <1>6, <1>7, AccountsAssumption
<1>9. \A r \in DOMAIN requests' :
         \/ r \in DOMAIN requests /\ requests'[r] = requests[r]
         \/ r = Len(requests) + 1 /\ requests'[r] = q
  BY <1>6, <1>7
<1>10. k.identity \notin crossed => NonePending(k.identity)
  BY <1>1, <1>3 DEF Provided, StillMissing
<1>11. OneOfEach'
  <2>1. OneCodePending'
    BY <1>1, <1>6, <1>9, <1>10 DEF Provided, OneOfEach, OneCodePending, NonePending
  <2>2. OneProvisioned' /\ OneRecovered'
    BY <1>1 DEF Provided, OneOfEach, OneProvisioned, OneRecovered, Active
  <2> QED BY <2>1, <2>2 DEF OneOfEach
<1>12. ASSUME NEW c \in Browsers \ {b}, Busy(c)
       PROVE  /\ /\ browserCall[c].pc \in {"identity", "relation"} /\ Provisioning(browserCall[c])
                 /\ browserCall[c].account \notin crossed'
                 => \A r \in Active' : r.via = "provision" => r.account # browserCall[c].account
              /\ /\ browserCall[c].pc \in {"recUser", "recRelation"}
                 /\ browserCall[c].identity \notin crossed'
                 => \A r \in Active' : r.via = "recovery" => r.identity # browserCall[c].identity
              /\ browserCall[c].pc = "create" /\ browserCall[c].identity \notin crossed'
                 => \A r \in DOMAIN requests' : requests'[r].status = "pending" =>
                        requests'[r].identity # browserCall[c].identity
  <2>1. /\ /\ browserCall[c].pc \in {"identity", "relation"} /\ Provisioning(browserCall[c])
           /\ browserCall[c].account \notin crossed
           => \A r \in Active : r.via = "provision" => r.account # browserCall[c].account
        /\ /\ browserCall[c].pc \in {"recUser", "recRelation"}
           /\ browserCall[c].identity \notin crossed
           => \A r \in Active : r.via = "recovery" => r.identity # browserCall[c].identity
    BY <1>12 DEF Provided, StillMissing, NoneProvisioned, NoneRecovered
  <2>2. ASSUME browserCall[c].pc = "create", browserCall[c].identity \notin crossed,
               NEW r \in DOMAIN requests', requests'[r].status = "pending"
        PROVE  requests'[r].identity # browserCall[c].identity
    <3>1. browserCall[c].as = "recovery" /\ NonePending(browserCall[c].identity)
      BY <1>12, <2>2 DEF Provided, StillMissing, CallsSound, CallShape, Requesting
    <3>2. k.identity # browserCall[c].identity
      BY <1>1, <1>2, <1>3, <1>12, <2>2, <3>1 DEF Provided, CrossingsKnown
    <3> QED BY <1>6, <1>9, <2>2, <3>1, <3>2 DEF NonePending
  <2> QED BY <1>1, <2>1, <2>2 DEF Active
<1>13. StillMissing'
  BY <1>1, <1>3, <1>12, MissingMoves
<1>14. browserCall' \in [Browsers -> AccountCall] /\ CallsSound' /\ CrossingsKnown'
  <2>1. \A c \in Browsers \ {b} : Busy(c) =>
              /\ /\ Provisioning(k) /\ Provisioning(browserCall[c])
                 /\ k.pc # "createLocal" /\ browserCall[c].pc # "createLocal"
                 /\ browserCall[c].account = k.account
                 => k.account \in crossed'
              /\ /\ k.as = "recovery" /\ browserCall[c].as = "recovery"
                 /\ browserCall[c].identity = k.identity
                 => k.identity \in crossed'
    BY <1>1, <1>3, CallGoesOn
  <2>2. (k.wasAdmin => k.account \in users') /\ k.pc = "mark"
    BY <1>1, <1>2, <1>3
  <2>3. users \subseteq users' /\ relations \subseteq relations' /\ crossed \subseteq crossed'
    BY <1>1
  <2> QED BY <1>3, <1>4, <2>1, <2>2, <2>3, CallMoves
<1>15. PagesSound' /\ SignedInHasIdentity'
  BY <1>1, PagesMove
<1>16. AccountsTypeOK'
  BY <1>1, <1>8, <1>14 DEF Provided, AccountsTypeOK
<1> QED BY <1>1, <1>11, <1>13, <1>14, <1>15, <1>16 DEF Provided, RowsSound

LEMMA IdentityChanged ==
    ASSUME NEW m \in MobilityIdentity, NEW status \in {"ACTIVE", "PENDING_RECOVERY"}
    PROVE  [m EXCEPT !.status = status] \in MobilityIdentity
BY DEF MobilityIdentity

LEMMA StatusSet ==
    ASSUME Provided, NEW i, NEW status \in {"ACTIVE", "PENDING_RECOVERY"},
           identities' = [identities EXCEPT ![i].status = status]
    PROVE  identities' \in Seq(MobilityIdentity) /\ Len(identities') <= MaxIdentities
<1>1. identities \in Seq(MobilityIdentity) /\ Len(identities) <= MaxIdentities
  BY DEF Provided, AccountsTypeOK
<1>2. CASE i \in DOMAIN identities
  <2>1. identities[i] \in MobilityIdentity /\ i \in 1 .. Len(identities)
    BY <1>1, <1>2
  <2>2. [identities[i] EXCEPT !.status = status] \in MobilityIdentity
    BY <2>1, IdentityChanged
  <2>3. identities' \in Seq(MobilityIdentity) /\ Len(identities') = Len(identities)
    BY <1>1, <2>1, <2>2
  <2> QED BY <1>1, <2>3
<1>3. CASE i \notin DOMAIN identities
  <2>1. identities' = identities
    BY <1>1, <1>3
  <2> QED BY <1>1, <2>1
<1> QED BY <1>2, <1>3

\* A page waits for the answer of a recovery at the step it asked it from.
PagesWait ==
    \A b \in Browsers : Busy(b) /\ browserCall[b].as = "recovery" =>
        browserPage[b].at \in {"match", "code"}

LEMMA MarkPendingStep ==
    ASSUME Provided, PagesWait, NEW b \in Browsers, MarkPendingRecovery(b)
    PROVE  Provided'
<1>1. /\ Busy(b) /\ End(b) /\ browserCall[b].pc = "mark"
      /\ identities' = [identities EXCEPT ![browserCall[b].identity].status = "PENDING_RECOVERY"]
      /\ browserPage' = [browserPage EXCEPT ![b].at = "code"]
      /\ UNCHANGED <<users, admins, granted, relations, revoked, requests, crossed, made>>
  BY DEF MarkPendingRecovery, InCall, Busy
<1>2. /\ browserPage \in [Browsers -> BrowserPage] /\ admins \subseteq users
      /\ users \subseteq Accounts /\ granted \subseteq users
      /\ requests \in Seq(RecoveryRequest) /\ Len(requests) <= MaxRequests
  BY DEF Provided, AccountsTypeOK
<1>3. browserPage[b].at \in {"match", "code"} /\ browserPage[b].account \in Emails
  BY <1>1 DEF PagesWait, Provided, CallsSound, CallShape, Requesting, PagesSound
<1>4. PICK g : g = [browserPage[b] EXCEPT !.at = "code"]
  OBVIOUS
<1>5. g \in BrowserPage /\ g.at = "code" /\ g.account \in Emails
  <2>1. browserPage[b] \in BrowserPage
    BY <1>2
  <2> QED BY <1>3, <1>4, <2>1 DEF BrowserPage
<1>6. browserPage' = [browserPage EXCEPT ![b] = g]
  BY <1>1, <1>4
<1>7. /\ browserPage' \in [Browsers -> BrowserPage]
      /\ \A c \in Browsers : browserPage'[c] = browserPage[c] \/ browserPage'[c] = g
  BY <1>2, <1>5, <1>6
<1>8. identities' \in Seq(MobilityIdentity) /\ Len(identities') <= MaxIdentities
  BY <1>1, StatusSet
<1>9. PICK k : k = Null
  OBVIOUS
<1>10. k \in AccountCall /\ browserCall' = [browserCall EXCEPT ![b] = k]
  BY <1>1, <1>9 DEF AccountCall, End
<1> QED BY <1>1, <1>2, <1>5, <1>7, <1>8, <1>9, <1>10, GoesOn

LEMMA RecoverUserStep ==
    ASSUME Provided, NEW b \in Browsers, RecoverUser(b)
    PROVE  Provided'
<1>1. /\ Busy(b) /\ browserCall[b].pc = "recUser" /\ browserCall[b] \in AccountCall \ {Null}
      /\ Proceed(b, "recRelation") /\ users' = users \cup {browserCall[b].account}
      /\ UNCHANGED <<admins, granted, identities, relations, revoked, requests, browserPage,
                     crossed, made>>
  BY DEF RecoverUser, InCall, Busy, Provided, AccountsTypeOK
<1>2. /\ browserCall[b].as = "recovery" /\ browserCall[b].identity \in 1 .. MaxIdentities
      /\ browserCall[b].account \in Emails
  BY <1>1 DEF Provided, CallsSound, CallShape, Completing
<1>3. /\ browserPage \in [Browsers -> BrowserPage] /\ admins \subseteq users
      /\ users \subseteq Accounts /\ granted \subseteq users
      /\ identities \in Seq(MobilityIdentity) /\ Len(identities) <= MaxIdentities
      /\ requests \in Seq(RecoveryRequest) /\ Len(requests) <= MaxRequests
  BY DEF Provided, AccountsTypeOK
<1>4. PICK k \in AccountCall :
         /\ browserCall' = [browserCall EXCEPT ![b] = k] /\ k.pc = "recRelation"
         /\ k.as = browserCall[b].as /\ k.account = browserCall[b].account
         /\ k.identity = browserCall[b].identity /\ k.wasAdmin = browserCall[b].wasAdmin
  BY <1>1, Proceeded DEF Steps, Completing
<1>5. CallShape(k) /\ k.as = "recovery"
  BY <1>2, <1>4 DEF CallShape, Requesting, Completing, Provisioning
<1>6. k.identity \notin crossed => NoneRecovered(k.identity)
  BY <1>1, <1>4 DEF Provided, StillMissing
<1>7. users \subseteq users' /\ users' \subseteq Accounts /\ admins' \subseteq users'
      /\ granted' \subseteq users'
  BY <1>1, <1>2, <1>3 DEF Accounts
<1> QED BY <1>1, <1>3, <1>4, <1>5, <1>6, <1>7, GoesOn

LEMMA RecoverStatusStep ==
    ASSUME Provided, NEW b \in Browsers, RecoverStatus(b)
    PROVE  Provided'
<1>1. /\ Busy(b) /\ browserCall[b].pc = "recStatus" /\ browserCall[b] \in AccountCall \ {Null}
      /\ Proceed(b, "recMark")
      /\ identities' = [identities EXCEPT ![browserCall[b].identity].status = "ACTIVE"]
      /\ UNCHANGED <<users, admins, granted, relations, revoked, requests, browserPage,
                     crossed, made>>
  BY DEF RecoverStatus, InCall, Busy, Provided, AccountsTypeOK
<1>2. /\ browserCall[b].as = "recovery" /\ browserCall[b].identity \in 1 .. MaxIdentities
      /\ browserCall[b].account \in Emails /\ Owns(browserCall[b].account)
  BY <1>1 DEF Provided, CallsSound, CallShape, Completing
<1>3. /\ browserPage \in [Browsers -> BrowserPage] /\ admins \subseteq users
      /\ users \subseteq Accounts /\ granted \subseteq users
      /\ requests \in Seq(RecoveryRequest) /\ Len(requests) <= MaxRequests
  BY DEF Provided, AccountsTypeOK
<1>4. PICK k \in AccountCall :
         /\ browserCall' = [browserCall EXCEPT ![b] = k] /\ k.pc = "recMark"
         /\ k.as = browserCall[b].as /\ k.account = browserCall[b].account
         /\ k.identity = browserCall[b].identity /\ k.wasAdmin = browserCall[b].wasAdmin
  BY <1>1, Proceeded DEF Steps, Completing
<1>5. CallShape(k) /\ k.as = "recovery" /\ Owns(k.account)
  BY <1>2, <1>4 DEF CallShape, Requesting, Completing, Provisioning
<1>6. identities' \in Seq(MobilityIdentity) /\ Len(identities') <= MaxIdentities
  BY <1>1, StatusSet
<1> QED BY <1>1, <1>3, <1>4, <1>5, <1>6, GoesOn

\* The code is used up; the session opens on an account that owns the identity.
LEMMA MarkCompletedStep ==
    ASSUME Provided, NEW b \in Browsers, MarkCompleted(b)
    PROVE  Provided'
<1>1. /\ Busy(b) /\ browserCall[b].pc = "recMark" /\ End(b)
      /\ requests' = [requests EXCEPT ![browserCall[b].request].status = "completed"]
      /\ EnterAs(b, browserCall[b].account, "recovery")
      /\ UNCHANGED <<users, admins, granted, identities, relations, revoked, crossed, made>>
  BY DEF MarkCompleted, InCall, Busy
<1>2. browserCall[b].account \in Emails /\ Owns(browserCall[b].account)
  BY <1>1 DEF Provided, CallsSound, CallShape, Completing
<1>3. /\ admins \subseteq users
      /\ users \subseteq Accounts /\ granted \subseteq users
      /\ identities \in Seq(MobilityIdentity) /\ Len(identities) <= MaxIdentities
      /\ requests \in Seq(RecoveryRequest) /\ Len(requests) <= MaxRequests
  BY DEF Provided, AccountsTypeOK
<1>4. PICK a \in Accounts : a = browserCall[b].account
  BY <1>2 DEF Accounts
<1>5. Owns(a)'
  BY <1>1, <1>2, <1>4 DEF Owns
<1>6. /\ browserPage' \in [Browsers -> BrowserPage]
      /\ \A c \in Browsers :
            \/ browserPage'[c] = browserPage[c]
            \/ /\ browserPage'[c].at \in {"match", "code"} => browserPage'[c].account \in Emails
               /\ browserPage'[c].at = "in" /\ browserPage'[c].how \in {"register", "recovery"} =>
                     \E r \in relations' : r.account = browserPage'[c].account /\ r.type = "OWNER"
  <2>1. EnterAs(b, a, "recovery")
    BY <1>1, <1>4
  <2> QED BY <1>5, <2>1, Entered
<1>7. PICK n : n = browserCall[b].request
  OBVIOUS
<1>8. /\ requests' \in Seq(RecoveryRequest) /\ Len(requests') = Len(requests)
      /\ \A q \in DOMAIN requests' : requests'[q].status = "pending" =>
            /\ q \in DOMAIN requests /\ requests[q].status = "pending"
            /\ requests'[q].identity = requests[q].identity
  <2>1. requests' = [requests EXCEPT ![n].status = "completed"]
    BY <1>1, <1>7
  <2>2. CASE n \in DOMAIN requests
    <3>1. requests[n] \in RecoveryRequest /\ n \in 1 .. Len(requests)
      BY <1>3, <2>2
    <3>2. PICK m \in RecoveryRequest : m = [requests[n] EXCEPT !.status = "completed"]
      BY <3>1, RequestChanged
    <3>3. m.status = "completed"
      BY <3>1, <3>2 DEF RecoveryRequest
    <3>4. requests' = [requests EXCEPT ![n] = m]
      BY <2>1, <3>2
    <3>5. requests' \in Seq(RecoveryRequest) /\ Len(requests') = Len(requests)
      BY <1>3, <3>1, <3>4
    <3>6. /\ DOMAIN requests' = DOMAIN requests
          /\ \A q \in DOMAIN requests : requests'[q] = IF q = n THEN m ELSE requests[q]
      BY <1>3, <3>4
    <3> QED BY <3>3, <3>5, <3>6
  <2>3. CASE n \notin DOMAIN requests
    <3>1. requests' = requests
      BY <1>3, <2>1, <2>3
    <3> QED BY <1>3, <3>1
  <2> QED BY <2>2, <2>3
<1>9. PICK k : k = Null
  OBVIOUS
<1>10. k \in AccountCall /\ browserCall' = [browserCall EXCEPT ![b] = k]
  BY <1>1, <1>9 DEF AccountCall, End
<1> QED BY <1>1, <1>3, <1>6, <1>8, <1>9, <1>10, GoesOn

LEMMA FailStep ==
    ASSUME Provided, NEW b \in Browsers, AccountCallFails(b)
    PROVE  Provided'
<1>1. admins \subseteq users /\ browserPage \in [Browsers -> BrowserPage]
  BY DEF Provided, AccountsTypeOK
<1> QED BY <1>1, Ended DEF AccountCallFails, NoCall, Busy

LEMMA ProvidedStep == Provided /\ PagesWait /\ [AccountsNext]_accountsVars => Provided'
<1> SUFFICES ASSUME Provided, PagesWait, [AccountsNext]_accountsVars PROVE Provided'
  OBVIOUS
<1>1. CASE UNCHANGED accountsVars
  <2>1. UNCHANGED <<users, admins, granted, identities, relations, revoked, requests, browserPage,
                    browserCall, crossed, made>>
    BY <1>1 DEF accountsVars
  <2>2. AccountsTypeOK'
    BY <2>1 DEF Provided, AccountsTypeOK
  <2>3. PagesSound' /\ SignedInHasIdentity'
    BY <2>1, PagesMove
  <2>4. CallsSound' /\ CrossingsKnown'
    BY <2>1, CallsStay
  <2>5. OneOfEach' /\ StillMissing'
    BY <2>1, MissingStays DEF Active
  <2> QED BY <2>1, <2>2, <2>3, <2>4, <2>5 DEF Provided, RowsSound
<1>2. ASSUME NEW b \in Browsers, Entering(b) PROVE Provided'
  BY <1>2, SubmitStep, FranceConnectStep, CredentialsStep, RequestRecoveryStep,
     CompleteRecoveryStep DEF Entering
<1>3. ASSUME NEW b \in Browsers, InSession(b) PROVE Provided'
  BY <1>3, AuthenticatedStep, RelationshipStep, RevokeStep DEF InSession
<1>4. ASSUME NEW b \in Browsers, SigningIn(b) PROVE Provided'
  BY <1>4, CreateLocalStep, SyncStep, ProvisionStep, CreateIdentityStep, CreateOwnerStep
     DEF SigningIn
<1>5. ASSUME NEW b \in Browsers, Recovering(b) PROVE Provided'
  BY <1>5, CancelPendingStep, CreateRecoveryRequestStep, MarkPendingStep, RecoverUserStep,
     RecoverRelationStep, RecoverStatusStep, MarkCompletedStep DEF Recovering
<1>6. ASSUME NEW b \in Browsers, AccountCallFails(b) \/ Leave(b) PROVE Provided'
  BY <1>6, FailStep, LeaveStep
<1>7. ASSUME NEW a \in Accounts, NEW isAdmin \in BOOLEAN, SetUserRole(a, isAdmin) PROVE Provided'
  BY <1>7, RoleStep
<1>8. ASSUME NEW r \in DOMAIN requests, Expire(r) PROVE Provided'
  BY <1>8, ExpireStep
<1> QED BY <1>1, <1>2, <1>3, <1>4, <1>5, <1>6, <1>7, <1>8 DEF AccountsNext

-----------------------------------------------------------------------------
(* The pages wait. *)

LEMMA WaitsStill ==
    ASSUME Provided, PagesWait, NEW b \in Browsers,
           \A c \in Browsers \ {b} :
              browserCall'[c] = browserCall[c] /\ browserPage'[c] = browserPage[c],
           browserCall'[b] # Null /\ browserCall'[b].as = "recovery" =>
              browserPage'[b].at \in {"match", "code"}
    PROVE  PagesWait'
BY DEF PagesWait, Busy

\* The page stays, and its call, if any, is one that went on or that it could make.
LEMMA CallWaits ==
    ASSUME Provided, PagesWait, NEW b \in Browsers, UNCHANGED browserPage, NEW k,
           browserCall' = [browserCall EXCEPT ![b] = k],
           k # Null /\ k.as = "recovery" =>
              \/ Busy(b) /\ browserCall[b].as = "recovery"
              \/ browserPage[b].at \in {"match", "code"}
    PROVE  PagesWait'
<1>1. /\ browserCall'[b] = k
      /\ \A c \in Browsers \ {b} : browserCall'[c] = browserCall[c]
  BY DEF Provided, AccountsTypeOK
<1> QED BY <1>1, WaitsStill DEF PagesWait

\* A page changes when no call of its is under way, or when one ends.
LEMMA PageWaits ==
    ASSUME Provided, PagesWait, NEW b \in Browsers, NEW p,
           browserPage' = [browserPage EXCEPT ![b] = p],
           (NoCall(b) /\ UNCHANGED browserCall) \/ End(b)
    PROVE  PagesWait'
<1>1. /\ browserCall'[b] = Null
      /\ \A c \in Browsers \ {b} :
            browserCall'[c] = browserCall[c] /\ browserPage'[c] = browserPage[c]
  BY DEF Provided, AccountsTypeOK, NoCall, End
<1> QED BY <1>1, WaitsStill

LEMMA ProceedWaits ==
    ASSUME Provided, PagesWait, NEW b \in Browsers, Busy(b), NEW pc \in Steps, Proceed(b, pc),
           UNCHANGED browserPage
    PROVE  PagesWait'
<1>1. PICK k \in AccountCall :
         browserCall' = [browserCall EXCEPT ![b] = k] /\ k.as = browserCall[b].as
  BY Proceeded
<1> QED BY <1>1, CallWaits

LEMMA EndWaits ==
    ASSUME Provided, PagesWait, NEW b \in Browsers, End(b), UNCHANGED browserPage
    PROVE  PagesWait'
<1>1. PICK k : k = Null
  OBVIOUS
<1>2. browserCall' = [browserCall EXCEPT ![b] = k]
  BY <1>1 DEF End
<1> QED BY <1>1, <1>2, CallWaits

LEMMA StartWaits ==
    ASSUME Provided, PagesWait, NEW b \in Browsers, UNCHANGED browserPage, NEW pc, NEW a, NEW p,
           NEW as, as # "recovery", StartCall(b, pc, a, p, as)
    PROVE  PagesWait'
<1>1. PICK k : k = [pc |-> pc, account |-> a, person |-> p, identity |-> 0, request |-> 0,
                    wasAdmin |-> a \in admins, as |-> as]
  OBVIOUS
<1>2. browserCall' = [browserCall EXCEPT ![b] = k] /\ k.as # "recovery"
  BY <1>1 DEF StartCall
<1> QED BY <1>2, CallWaits

LEMMA EnterWaits ==
    ASSUME Provided, PagesWait, NEW b \in Browsers, NEW a, NEW how, EnterAs(b, a, how),
           (NoCall(b) /\ UNCHANGED browserCall) \/ End(b)
    PROVE  PagesWait'
BY PageWaits DEF EnterAs

LEMMA EnteringWaits ==
    ASSUME Provided, PagesWait, NEW b \in Browsers, Entering(b)
    PROVE  PagesWait'
<1>1. ASSUME NEW p \in Persons, NEW e \in Emails, Submit(b, p, e) PROVE PagesWait'
  BY <1>1, PageWaits, StartWaits DEF Submit
<1>2. ASSUME NEW s \in Subjects, NEW p \in Persons, NEW dated \in BOOLEAN,
             FranceConnectCallback(b, s, p, dated)
      PROVE  PagesWait'
  BY <1>2, StartWaits, EnterWaits DEF FranceConnectCallback
<1>3. ASSUME NEW e \in Emails, LoginWithCredentials(b, e) PROVE PagesWait'
  BY <1>3, EnterWaits DEF LoginWithCredentials
<1>4. CASE RequestRecovery(b)
  <2>1. PICK k : browserCall' = [browserCall EXCEPT ![b] = k]
    BY <1>4 DEF RequestRecovery
  <2> QED BY <1>4, <2>1, CallWaits DEF RequestRecovery
<1>5. ASSUME NEW r \in DOMAIN requests, CompleteRecovery(b, r) PROVE PagesWait'
  <2>1. PICK k : browserCall' = [browserCall EXCEPT ![b] = k]
    BY <1>5 DEF CompleteRecovery
  <2> QED BY <1>5, <2>1, CallWaits DEF CompleteRecovery
<1> QED BY <1>1, <1>2, <1>3, <1>4, <1>5 DEF Entering

LEMMA SigningInWaits ==
    ASSUME Provided, PagesWait, NEW b \in Browsers, SigningIn(b)
    PROVE  PagesWait'
<1>1. CASE CreateLocal(b)
  BY <1>1, ProceedWaits DEF CreateLocal, InCall, Busy, Steps
<1>2. CASE SyncUser(b)
  <2>1. Busy(b) /\ browserCall[b].as \in {"request", "addPerson", "franceConnect"}
    BY <1>2 DEF SyncUser, InCall, Busy, Provided, CallsSound, CallShape
  <2> QED BY <1>2, <2>1, ProceedWaits, EndWaits, EnterWaits DEF SyncUser, Steps
<1>3. CASE Provision(b)
  BY <1>3, ProceedWaits, EnterWaits DEF Provision, InCall, Busy, Steps
<1>4. CASE CreateIdentity(b)
  <2>1. browserCall' = [browserCall EXCEPT ![b] =
            [[browserCall[b] EXCEPT !.pc = "relation"] EXCEPT !.identity = Len(identities) + 1]]
    BY <1>4 DEF CreateIdentity, Provided, AccountsTypeOK
  <2>2. browserCall[b] \in AccountCall \ {Null} /\ browserCall[b].as # "recovery"
    BY <1>4 DEF CreateIdentity, InCall, Provided, AccountsTypeOK, CallsSound, CallShape, Busy,
        Provisioning
  <2>3. PICK k : k = [[browserCall[b] EXCEPT !.pc = "relation"] EXCEPT
                         !.identity = Len(identities) + 1]
    OBVIOUS
  <2>4. k.as # "recovery" /\ browserCall' = [browserCall EXCEPT ![b] = k]
    BY <2>1, <2>2, <2>3 DEF AccountCall
  <2> QED BY <1>4, <2>4, CallWaits DEF CreateIdentity
<1>5. CASE CreateOwner(b)
  BY <1>5, EndWaits, EnterWaits DEF CreateOwner
<1> QED BY <1>1, <1>2, <1>3, <1>4, <1>5 DEF SigningIn

LEMMA RecoveringWaits ==
    ASSUME Provided, PagesWait, NEW b \in Browsers, Recovering(b)
    PROVE  PagesWait'
<1>1. CASE CancelPending(b) \/ CreateRecoveryRequest(b) \/ RecoverUser(b) \/ RecoverRelation(b)
           \/ RecoverStatus(b)
  BY <1>1, ProceedWaits DEF CancelPending, CreateRecoveryRequest, RecoverUser, RecoverRelation,
     RecoverStatus, InCall, Busy, Steps, Requesting, Completing
<1>2. CASE MarkPendingRecovery(b)
  <2>1. browserPage' = [browserPage EXCEPT ![b] = [browserPage[b] EXCEPT !.at = "code"]]
    BY <1>2 DEF MarkPendingRecovery
  <2> QED BY <1>2, <2>1, PageWaits DEF MarkPendingRecovery
<1>3. CASE MarkCompleted(b)
  BY <1>3, EnterWaits DEF MarkCompleted
<1> QED BY <1>1, <1>2, <1>3 DEF Recovering

LEMMA WaitStep == Provided /\ PagesWait /\ [AccountsNext]_accountsVars => PagesWait'
<1> SUFFICES ASSUME Provided, PagesWait, [AccountsNext]_accountsVars PROVE PagesWait'
  OBVIOUS
<1>1. ASSUME UNCHANGED <<browserPage, browserCall>> PROVE PagesWait'
  BY <1>1 DEF PagesWait, Busy
<1>2. ASSUME NEW b \in Browsers, InSession(b) PROVE PagesWait'
  <2>1. ASSUME NEW as \in {"request", "addPerson"}, AuthenticatedRequest(b, as) PROVE PagesWait'
    BY <2>1, StartWaits DEF AuthenticatedRequest
  <2> QED BY <1>1, <1>2, <2>1 DEF InSession, CreateRelationship, RevokeRelationship
<1>3. ASSUME NEW b \in Browsers, AccountCallFails(b) \/ Leave(b) PROVE PagesWait'
  BY <1>3, EndWaits, PageWaits DEF AccountCallFails, Leave
<1>4. ASSUME NEW b \in Browsers, Entering(b) \/ SigningIn(b) \/ Recovering(b) PROVE PagesWait'
  BY <1>4, EnteringWaits, SigningInWaits, RecoveringWaits
<1> QED BY <1>1, <1>2, <1>3, <1>4 DEF AccountsNext, accountsVars, SetUserRole, Expire

\* The invariant of the accounts, whatever the number of browsers, accounts and calls.
THEOREM AccountsInvariance == AccountsSpec => [](Provided /\ PagesWait)
<1>1. AccountsInit => PagesWait
  BY DEF AccountsInit, PagesWait, Busy
<1> QED BY <1>1, ProvidedStart, ProvidedStep, WaitStep, PTL DEF AccountsSpec

\* A registration or a recovery that failed half-way never ends in a session
\* (register-with-credentials, complete-recovery): whoever it signed in owned an identity.
THEOREM SessionsHaveIdentities == AccountsSpec => []SignedInHasIdentity
BY AccountsInvariance, PTL DEF Provided

\* The identity provisioned for an account, the owner who recovered an identity and the code
\* pending for it are there once, unless two calls at work on it overlapped: looked up, then
\* inserted, without a lock.
THEOREM InsertedOnce == AccountsSpec => []OneOfEach
BY AccountsInvariance, PTL DEF Provided
=============================================================================
