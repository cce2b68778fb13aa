-------------------------------- MODULE SignIn --------------------------------
(***************************************************************************)
(* How one browser tab gets and keeps a session (front/src/contexts,        *)
(* auth-zones.ts, Login.tsx, AuthCallback.tsx, the guards of App.tsx), by   *)
(* password or by the round trip to FranceConnect that the back end drives  *)
(* (auth/infrastructure/franceconnect.service.ts), under every              *)
(* configuration the back end accepts to start with (env.validation.ts).    *)
(*                                                                          *)
(* A page load forgets what React holds and keeps localStorage (the token), *)
(* sessionStorage (the page to go back to) and the history entry's state    *)
(* (`from`, a path: the guard drops the query of the page asked for, which  *)
(* names the file it is about).  Each session is checked by calls of        *)
(* /auth/me whose answers come late, in any order, or never.  One zone      *)
(* ("mobility") is routed.                                                  *)
(***************************************************************************)
EXTENDS Naturals, ServiceNames

CONSTANTS
    Pages,      \* the paths of the protected pages
    Queries,    \* what a URL may name besides: ?contractId=
    Links,      \* the URLs that links, addresses and bookmarks name
    Home,       \* MOBILITY_HOME
    MaxTrips    \* bound: round trips to FranceConnect

URL == [at : Pages, query : Queries \cup {Null}]

ASSUME HomeAssumption == Home \in Pages
ASSUME LinksAssumption == Links \subseteq URL
ASSUME PagesAssumption == Pages \cap {"login", "callback", "provider", "apiError"} = {}
ASSUME NullAssumption == Null \notin Pages \cup Queries \cup Persons \cup URL
ASSUME TripsAssumption == MaxTrips \in Nat

VARIABLES
    config,      \* the environment of the back end
    place,       \* where the tab is
    loading,     \* React: isLoading
    token,       \* React: token
    stored,      \* localStorage
    remembered,  \* sessionStorage: postAuthRedirect
    checks,      \* calls of /auth/me not answered yet
    trips,       \* round trips begun; the code of each is its number
    trip,        \* the one under way
    outstanding, \* history: a trip has begun since the last sign-in
    known,       \* history: the session FranceConnect's last visit gave each person
    landed       \* history: where the last sign-in led, and the URL its visitor had opened

signInVars == <<config, place, loading, token, stored, remembered, checks, trips, trip,
          outstanding, known, landed>>

-----------------------------------------------------------------------------
(* The configuration. *)

Config ==
    [NODE_ENV : {"development", "test", "production"},
     FRANCECONNECT_MODE : {"mock", "sandbox", "live"},
     FRANCECONNECT_FALLBACK_TO_MOCK : BOOLEAN,
     FRANCECONNECT_CLIENT : {"placeholder", "legacy", "provisioned"},
     FRANCECONNECT_REDIRECT_URI : {"sandboxCallback", "other"},
     FRANCECONNECT_ISSUER_URL : {"sandbox", "other"}]

SandboxRules(c) ==
    c.FRANCECONNECT_MODE = "sandbox" =>
        /\ c.NODE_ENV # "production"
        /\ c.FRANCECONNECT_REDIRECT_URI = "sandboxCallback"
        /\ c.FRANCECONNECT_ISSUER_URL = "sandbox"
        /\ c.FRANCECONNECT_CLIENT = "provisioned"

\* Mutant: the fallback is looked at in the sandbox only.
NoLiveRule(c) == c.FRANCECONNECT_MODE = "live" => c.FRANCECONNECT_CLIENT # "placeholder"

LiveRules(c) ==
    c.FRANCECONNECT_MODE = "live" =>
        /\ c.FRANCECONNECT_CLIENT # "placeholder"
        /\ c.NODE_ENV = "production" => ~ c.FRANCECONNECT_FALLBACK_TO_MOCK

\* validateEnv: the process does not start otherwise.
ValidEnv(c) == SandboxRules(c) /\ LiveRules(c)

-----------------------------------------------------------------------------
(* The session and the tab. *)

\* A session names its account: "local" by password, "own" the one FranceConnect vouches
\* for, "mock" the invented one, whose subject is taken from the code.  of: history, who
\* signed in.
Session == [account : {"local", "own", "mock"}, of : Persons, code : 0..MaxTrips]

\* An entry of the tab's history: `from` is its state; opened: history, the URL that the
\* visitor of the login form had opened when the guard sent him there, Null if it was none.
Place == [at : Pages \cup {"login", "callback", "provider", "apiError"},
          query : Queries \cup {Null}, from : Pages \cup {Null}, opened : URL \cup {Null}]

PlaceAt(page) == [at |-> page, query |-> Null, from |-> Null, opened |-> Null]

\* The URL a sign-in is for; without one opened before, the home page.
Wanted(opened) == IF opened = Null THEN [at |-> Home, query |-> Null] ELSE opened

SessionCheck == [by : {"effect", "login", "callback"}, session : Session,
          from : Pages, asked : URL \cup {Null}]

SignInTypeOK ==
    /\ config \in Config
    /\ place \in Place
    /\ loading \in BOOLEAN
    /\ token \in Session \cup {Null}
    /\ stored \in Session \cup {Null}
    /\ remembered \in Pages \cup {Null}
    /\ checks \subseteq SessionCheck
    /\ trips \in 0..MaxTrips
    /\ trip = Null \/ trip \in [of : Persons, asked : URL, back : Place]
    /\ outstanding \in BOOLEAN
    /\ known \in [Persons -> Session \cup {Null}]
    /\ landed = Null \/ landed \in [at : Pages, asked : URL]

\* ProtectedRoute and PublicRoute, as often as React renders: of the URL, the login form is
\* told the path only (location.pathname).
Guarded(p, tok, wait) ==
    CASE ~ wait /\ p.at \in Pages /\ tok = Null ->
            [PlaceAt("login") EXCEPT !.from = p.at, !.opened = [at |-> p.at, query |-> p.query]]
      [] ~ wait /\ p.at = "login" /\ tok # Null -> PlaceAt(Home)
      [] OTHER -> p

Effect(tok) == [by |-> "effect", session |-> tok, from |-> Home, asked |-> Null]

\* A page load: the token is read back, and checked before anything is shown.
Load(p) ==
    /\ token' = stored
    /\ loading' = (stored # Null)
    /\ checks' = IF stored = Null THEN {} ELSE {Effect(stored)}
    /\ place' = Guarded(p, stored, stored # Null)

SignInInit ==
    /\ config \in {c \in Config : ValidEnv(c)}
    /\ place = PlaceAt("login")
    /\ loading = FALSE
    /\ token = Null /\ stored = Null /\ remembered = Null
    /\ checks = {} /\ trips = 0 /\ trip = Null /\ outstanding = FALSE
    /\ known = [u \in Persons |-> Null]
    /\ landed = Null

inApp == place.at \notin {"provider", "apiError"}

\* resolveAfterAuth, then consumePostAuthRedirect.
ResolveAfterAuth(from) == IF from = Null THEN Home ELSE from

\* Mutant: the page remembered stays in sessionStorage.
KeepRemembered(used) == remembered
AfterConsume(used) == Null

PostAuthTarget(fallback) == IF remembered = Null THEN fallback ELSE remembered

-----------------------------------------------------------------------------
(* The session in AuthContext.tsx. *)

\* login(): the token is stored and set, /auth/me is called, and once more by the effect
\* on the token.
Login(tok, by, from, asked) ==
    /\ stored' = tok
    /\ token' = tok
    /\ checks' = checks \cup
         {[by |-> by, session |-> tok, from |-> from, asked |-> asked]}
         \cup (IF tok # token THEN {Effect(tok)} ELSE {})

\* handleSubmit, once the back end has accepted the password.
SubmitPassword(u) ==
    /\ place.at = "login" /\ ~ loading
    /\ LET s == [account |-> "local", of |-> u, code |-> 0] IN
         /\ Login(s, "login", ResolveAfterAuth(place.from), Wanted(place.opened))
         /\ place' = Guarded(place, s, loading)
    /\ UNCHANGED <<config, loading, remembered, trips, trip, outstanding, known, landed>>

\* me() answers what login() waits for: the page the user came for is shown.
SessionAccepted(c) ==
    LET target == PostAuthTarget(c.from) IN
    /\ c \in checks /\ c.by # "effect"
    /\ checks' = checks \ {c}
    /\ remembered' = AfterConsume(target)
    /\ place' = Guarded(PlaceAt(target), token, loading)
    /\ landed' = IF outstanding /\ c.by = "login" THEN Null ELSE [at |-> target, asked |-> c.asked]
    /\ outstanding' = FALSE
    /\ UNCHANGED <<config, loading, token, stored, trips, trip, known>>

\* ... or fails: the callback goes to the login form, the form shows an error.
SessionRefused(c) ==
    /\ c \in checks /\ c.by # "effect"
    /\ checks' = checks \ {c}
    /\ place' = IF c.by = "callback"
                THEN Guarded(PlaceAt("login"), token, loading) ELSE place
    /\ UNCHANGED <<config, loading, token, stored, remembered, trips, trip, outstanding, known,
                   landed>>

\* The effect's call: its answer ends the loading screen ...
CheckAnswered(c) ==
    /\ c \in checks /\ c.by = "effect"
    /\ checks' = checks \ {c}
    /\ loading' = FALSE
    /\ place' = Guarded(place, token, FALSE)
    /\ UNCHANGED <<config, token, stored, remembered, trips, trip, outstanding, known, landed>>

\* ... and any failure (an expired token, a network error) ends whatever session the
\* tab holds by then.
CheckFails(c) ==
    /\ c \in checks /\ c.by = "effect"
    /\ checks' = checks \ {c}
    /\ loading' = FALSE
    /\ stored' = Null
    /\ token' = Null
    /\ place' = Guarded(place, Null, FALSE)
    /\ UNCHANGED <<config, remembered, trips, trip, outstanding, known, landed>>

\* Mutant: the state is reset and the stored token forgotten.
LogoutOfReact ==
    /\ place.at \in Pages /\ token # Null /\ ~ loading
    /\ token' = Null
    /\ place' = Guarded(place, Null, loading)
    /\ UNCHANGED <<config, loading, stored, remembered, checks, trips, trip, outstanding, known,
                   landed>>

Logout ==
    /\ place.at \in Pages /\ token # Null /\ ~ loading
    /\ stored' = Null
    /\ token' = Null
    /\ place' = Guarded(place, Null, loading)
    /\ UNCHANGED <<config, loading, remembered, checks, trips, trip, outstanding, known, landed>>

\* A link inside the application.
Navigate(url) ==
    /\ place.at \in Pages /\ token # Null /\ ~ loading
    /\ url # [at |-> place.at, query |-> place.query]
    /\ place' = [PlaceAt(url.at) EXCEPT !.query = url.query]
    /\ UNCHANGED <<config, loading, token, stored, remembered, checks, trips, trip, outstanding,
                   known, landed>>

\* An address typed, or the page reloaded: the history entry keeps its state.
Typed == {PlaceAt("login")} \cup {[PlaceAt(url.at) EXCEPT !.query = url.query] : url \in Links}

Open(p) ==
    /\ p.at \in Pages \cup {"login"}
    /\ Load(p)
    /\ trip' = Null
    /\ UNCHANGED <<config, stored, remembered, trips, outstanding, known, landed>>

-----------------------------------------------------------------------------
(* The round trip to FranceConnect. *)

\* handleFranceConnect, GET /auth/franceconnect/login, and the redirection it answers.
FranceConnect(u) ==
    /\ place.at = "login" /\ ~ loading /\ trips < MaxTrips
    /\ remembered' = ResolveAfterAuth(place.from)
    /\ trips' = trips + 1
    /\ trip' = [of |-> u, asked |-> Wanted(place.opened), back |-> place]
    /\ place' = PlaceAt("provider")
    /\ checks' = {} /\ loading' = FALSE /\ token' = Null
    /\ outstanding' = TRUE
    /\ UNCHANGED <<config, stored, known, landed>>

\* The browser's back button.
Back ==
    /\ place.at \in {"provider", "apiError"} /\ trip # Null
    /\ Load(trip.back)
    /\ trip' = Null
    /\ UNCHANGED <<config, stored, remembered, trips, outstanding, known, landed>>

\* FranceConnect redirects with an error, and the back end to the callback page without
\* a token, which leads to the login form.  In mock mode nobody is asked.
ProviderError ==
    /\ place.at = "provider"
    /\ config.FRANCECONNECT_MODE # "mock"
    /\ Load(PlaceAt("login"))
    /\ trip' = Null
    /\ UNCHANGED <<config, stored, remembered, trips, outstanding, known, landed>>

MockIdentity == [account |-> "mock", of |-> trip.of, code |-> trips]
OwnIdentity == [account |-> "own", of |-> trip.of, code |-> 0]

shouldFallbackToMock ==
    config.FRANCECONNECT_MODE = "sandbox" \/ config.FRANCECONNECT_FALLBACK_TO_MOCK

\* handleCallback: the identities a code may be exchanged for; exchangeCodeLive fails
\* when FranceConnect does not answer both calls.
HandleCallback(fails) ==
    IF config.FRANCECONNECT_MODE = "mock" THEN {MockIdentity}
    ELSE IF ~ fails THEN {OwnIdentity}
    ELSE IF shouldFallbackToMock THEN {MockIdentity} ELSE {}

\* FranceConnectCallbackUseCase: the user is synchronised, the token signed and handed
\* over in the fragment of the callback page.
Callback(fails) ==
    /\ place.at = "provider"
    /\ \E s \in HandleCallback(fails) :
         /\ known' = [known EXCEPT ![trip.of] = s]
         /\ Login(s, "callback", Home, trip.asked)
         /\ trip' = Null
    /\ place' = PlaceAt("callback")
    /\ UNCHANGED <<config, loading, remembered, trips, outstanding, landed>>

\* Without an identity the callback answers 401, in JSON, where the page was.
CallbackRefused ==
    /\ place.at = "provider"
    /\ HandleCallback(TRUE) = {}
    /\ place' = PlaceAt("apiError")
    /\ UNCHANGED <<config, loading, token, stored, remembered, checks, trips, trip, outstanding,
                   known, landed>>

SignInNext ==
    \/ \E u \in Persons : SubmitPassword(u) \/ FranceConnect(u)
    \/ \E c \in checks :
         SessionAccepted(c) \/ SessionRefused(c) \/ CheckAnswered(c) \/ CheckFails(c)
    \/ Logout
    \/ \E url \in Links : Navigate(url)
    \/ \E p \in Typed \cup {place} : Open(p)
    \/ Back \/ ProviderError \/ CallbackRefused
    \/ \E fails \in BOOLEAN : Callback(fails)

SignInSpec == SignInInit /\ [][SignInNext]_signInVars

-----------------------------------------------------------------------------
(* Properties. *)

\* In a tab, the clients that read the stored token (mobility-api.ts) and those that are
\* given React's (contracts.ts) speak for the same account, whatever checks fail late.
ApisAgree == inApp => stored = token

\* In production with FranceConnect live, no session is opened for an invented identity,
\* whatever fails on the way (env.validation.ts, franceconnect.service.ts).
RealIdentities ==
    config.NODE_ENV = "production" /\ config.FRANCECONNECT_MODE # "mock" =>
        /\ stored # Null => stored.account # "mock"
        /\ \A u \in Persons : known[u] # Null => known[u].account = "own"

\* A sign-in leads to the path of the page its visitor had opened, through the round trip to
\* FranceConnect too, whatever trips were abandoned before; not its query, which the guard
\* drops.  Excepted is a password given after an abandoned trip, which is led by what that
\* trip had remembered.
LandsOnAsked == landed # Null => landed.at = landed.asked.at

=============================================================================
