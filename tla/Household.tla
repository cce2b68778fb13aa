------------------------------ MODULE Household ------------------------------
(***************************************************************************)
(* One browser tab on the pages of the household (/espace, /foyer,         *)
(* /foyer/:id, /foyer/ajouter) and on the choice of a beneficiary          *)
(* (/souscription/nouvelle): what their three loading hooks ask, keep and  *)
(* show, when the demonstration household stands in for the real one, what *)
(* they tell of a person's titles, and who is made the payer of a          *)
(* contract; against the persons linked to the accounts and the contracts  *)
(* on their profiles, which the back end keeps.                            *)
(*                                                                         *)
(* An answer reaches a hook whose page may have been left, or whose        *)
(* session ended.  A second tab, which shares the stored token, is not     *)
(* modelled.                                                               *)
(***************************************************************************)
EXTENDS Integers, FiniteSets, TLC, ServiceNames

CONSTANTS
    UserAccounts, \* accounts, one session token each
    People,       \* persons of the mobility registry
    AgeOf,        \* Age[p]
    Self,         \* Self[a]: the person registered with account a
    Linked0,      \* Linked0[a]: persons linked to a other than as owner
    Held0,        \* Held0[p]: the kinds of contracts on the profile of p at first
    MaxLoads      \* loads running or cancelled and unanswered, at most

ASSUME HouseholdAssumption ==
    /\ IsFiniteSet(People) /\ AgeOf \in [People -> Nat]
    /\ Self \in [UserAccounts -> People] /\ Linked0 \in [UserAccounts -> SUBSET People]
    /\ Held0 \in [People -> SUBSET {"active", "pending", "other"}]
    /\ Null \notin People \cup UserAccounts
    /\ MaxLoads \in Nat

VARIABLES
    owned,     \* owned[a]: persons with an active relationship "owner" to account a
    held,      \* held[p]: the kinds of mobility contracts of p
    session,   \* the session of the tab, Null when signed out
    named,     \* the user's profile has been loaded
    page,      \* the page mounted: its name, the person of its URL, whom it was mounted over
    cache,     \* what the hook of the page keeps, Null before its first answer
    loads,     \* requests of the hooks not yet answered
    contract   \* the last contract created, Null before

householdVars == <<owned, held, session, named, page, cache, loads, contract>>

Linked(a) == owned[a] \cup Linked0[a]

ListPages == {"espace", "foyer"}
LoadingPages == ListPages \cup {"fiche", "souscription"}
LoginPage == [name |-> "login", id |-> Null, over |-> {}]

\* The persons of the demonstration household stand for Null.
Demo ==
    [source |-> "mock", people |-> {Null}, owners |-> {Null}, told |-> Null :> "invented"]
FromApi(list, owners, told) ==
    [source |-> "api", people |-> list, owners |-> owners, told |-> told]

Keyed(key, data) == [key |-> key, data |-> data]

-----------------------------------------------------------------------------
(* What is told of the contracts of a person. *)

\* mapContractsToStatusLabel; "pending" stands for the four statuses of a contract
\* not active yet, "other" for those of one no longer so.
StatusLabel(kinds) ==
    IF "active" \in kinds THEN "active"
    ELSE IF "pending" \in kinds THEN "pending" ELSE "none"

\* The page of a person shows its first contract, active ones before pending ones;
\* for a person without any it takes the active title of the demonstration.
PersonTitre(kinds) == IF kinds = {} THEN "invented" ELSE StatusLabel(kinds)

\* What the contracts read so far let a page tell of each person of its list.
Told(l) ==
    CASE l.name = "fiche"         -> [p \in {l.id} |-> PersonTitre(l.titles[p])]
      [] l.name \in ListPages     -> [p \in l.list |-> StatusLabel(l.titles[p])]
      [] l.name = "souscription"  -> [p \in l.list |-> "untold"]

-----------------------------------------------------------------------------
(* The hooks. *)

\* Mutant: the page of a person is cached by the token alone.
KeyOfToken(t, id) == <<t, Null>>

\* What the effect of a hook depends on, which is also what its cache is keyed
\* by: the token, and the person for the page of one.
Key(t, id) == <<t, id>>

HookRequest(t, name, id) ==
    [key |-> Key(t, id), name |-> name, id |-> id, list |-> Null, owners |-> {},
     titles |-> Null, live |-> TRUE]

\* The cleanup of the effects: what a cancelled load has read, or reads, is of no use.
Cancelled ==
    {[l EXCEPT !.live = FALSE, !.list = Null, !.owners = {}, !.titles = Null] : l \in loads}

\* A page mounted under t, or whose effect depends on what has just changed,
\* asks for the household anew; the loads of before are cancelled.
Start(t, name, id) ==
    /\ Cardinality(loads) < MaxLoads
    /\ loads' = Cancelled \cup
         (IF t # Null /\ name \in LoadingPages THEN {HookRequest(t, name, id)} ELSE {})

\* A state of the component, gone with it.
FreshCache == Null

\* usePersonDetail: the person of the URL, or the demonstration when the
\* household has no such person; the other hooks: everyone, or the demonstration
\* household when there is no one.
Loaded(l) ==
    IF l.name = "fiche"
    THEN IF l.id \in l.list THEN FromApi({l.id}, l.owners, Told(l)) ELSE Demo
    ELSE IF l.list # {} THEN FromApi(l.list, l.owners, Told(l)) ELSE Demo

\* What the page shows: the demonstration until the cache holds an answer for
\* the session and the person shown.
Shown ==
    IF session = Null \/ cache = Null THEN Demo
    ELSE IF cache.key = Key(session, page.id) THEN cache.data ELSE Demo

hookLoading ==
    /\ session # Null /\ page.name \in LoadingPages
    /\ IF cache = Null THEN TRUE ELSE cache.key # Key(session, page.id)

-----------------------------------------------------------------------------
HouseholdInit ==
    /\ owned = [a \in UserAccounts |-> {Self[a]}]
    /\ held = Held0
    /\ session = Null /\ named = FALSE
    /\ page = LoginPage /\ cache = Null
    /\ loads = {} /\ contract = Null

\* Signing in and going to a page; the profile is loaded afterwards.
SignInAs(a) ==
    /\ session = Null
    /\ session' = a /\ named' = FALSE
    /\ page' = [name |-> "espace", id |-> Null, over |-> Linked(a)]
    /\ cache' = FreshCache
    /\ Start(a, "espace", Null)
    /\ UNCHANGED <<owned, held, contract>>

\* The button, or the profile refused because the token has expired.
SignOut ==
    /\ session # Null
    /\ session' = Null /\ named' = FALSE
    /\ page' = LoginPage /\ cache' = FreshCache
    /\ Start(Null, "login", Null)
    /\ UNCHANGED <<owned, held, contract>>

\* The effect of useHouseholdData depends on the user's name too: it runs again
\* when the name arrives, and the cache, keyed by the token, stays shown.
UserLoaded ==
    /\ session # Null /\ ~ named
    /\ named' = TRUE
    /\ IF page.name \in ListPages THEN Start(session, page.name, Null) ELSE UNCHANGED loads
    /\ UNCHANGED <<owned, held, session, page, cache, contract>>

\* A link mounts another page.  The browser's history can lead from the page of
\* a person straight to that of another: the component stays, and its cache.
GoTo(name, id) ==
    /\ session # Null
    /\ page' = [name |-> name, id |-> id, over |-> Linked(session)]
    /\ page' # [page EXCEPT !.over = Linked(session)]
    /\ cache' = IF page.name = "fiche" /\ name = "fiche" THEN cache ELSE FreshCache
    /\ Start(session, name, id)
    /\ UNCHANGED <<owned, held, session, named, contract>>

\* household-from-api: the account owns the identity as long as an owner's row is active.
isOwner(p, a) == p \in owned[a]

\* GET /users/me/identities answers, with what the relationships say now.
Identities(l) ==
    /\ l.list = Null /\ l.live
    /\ LET a == l.key[1] IN
       loads' = (loads \ {l}) \cup {[l EXCEPT !.list = Linked(a), !.owners = {p \in Linked(a) : isOwner(p, a)}]}
    /\ UNCHANGED <<owned, held, session, named, page, cache, contract>>

\* The contracts of each person of the list, or of the one shown, answer; those
\* that fail are taken for none.
Titles(l) ==
    /\ l.list # Null /\ l.titles = Null
    /\ l.name # "souscription"
    /\ LET whose == IF l.name = "fiche" THEN l.list \cap {l.id} ELSE l.list IN
       \E failed \in SUBSET whose :
           loads' = (loads \ {l}) \cup
               {[l EXCEPT !.titles = [p \in whose |-> IF p \in failed THEN {} ELSE held[p]]]}
    /\ UNCHANGED <<owned, held, session, named, page, cache, contract>>

\* The hook keeps what it has, unless it was cancelled.
Complete(l) ==
    /\ l.live => l.list # Null /\ (l.titles # Null \/ l.name = "souscription")
    /\ loads' = loads \ {l}
    /\ cache' = IF l.live THEN Keyed(l.key, Loaded(l)) ELSE cache
    /\ UNCHANGED <<owned, held, session, named, page, contract>>

\* A request fails: an error is shown over the demonstration.
HookFails(l) ==
    /\ loads' = loads \ {l}
    /\ cache' = IF l.live THEN Keyed(l.key, Demo) ELSE cache
    /\ UNCHANGED <<owned, held, session, named, page, contract>>

\* POST /mobility-identities: whoever is added, as a child or otherwise, gets the
\* relationship "owner" of the account; the page then goes back to where it was
\* opened from.
AddPerson(p, from) ==
    /\ session # Null /\ page.name = "ajouter"
    /\ \A a \in UserAccounts : p \notin Linked(a)
    /\ owned' = [owned EXCEPT ![session] = @ \cup {p}]
    /\ page' = [name |-> from, id |-> Null, over |-> Linked(session) \cup {p}]
    /\ cache' = FreshCache
    /\ Start(session, from, Null)
    /\ UNCHANGED <<held, session, named, contract>>

\* The list is sorted with those marked "self" first, the eldest before.
Eldest(S) == {p \in S : \A q \in S : AgeOf[q] <= AgeOf[p]}

\* isSelf is: has an active relationship "owner"; the first one marked is taken
\* for the person of the account, and the first of all when none is.
ownerBeneficiary(d) ==
    IF d.source = "mock" THEN {Null}
    ELSE IF d.people \cap d.owners # {} THEN Eldest(d.people \cap d.owners)
    ELSE Eldest(d.people)

\* The recommendation accepted: the contract carries the beneficiary as holder and
\* the owner found in the list as payer, with the account's e-mail for both.
CreateContractFor(holder, payer) ==
    /\ page.name = "souscription" /\ ~ hookLoading
    /\ holder \in Shown.people /\ payer \in ownerBeneficiary(Shown)
    /\ contract' = [by |-> session, holder |-> holder, payer |-> payer]
    /\ UNCHANGED <<owned, held, session, named, page, cache, loads>>

\* SubscriptionProfile: the decision taken on the documents activates a contract of p.
Activated(p) ==
    /\ "pending" \in held[p]
    /\ held' = [held EXCEPT ![p] = (@ \ {"pending"}) \cup {"active"}]
    /\ UNCHANGED <<owned, session, named, page, cache, loads, contract>>

HouseholdNext ==
    \/ \E a \in UserAccounts : SignInAs(a)
    \/ SignOut
    \/ UserLoaded
    \/ \E name \in {"espace", "foyer", "ajouter", "souscription"} : GoTo(name, Null)
    \/ \E p \in Shown.people \ {Null} : GoTo("fiche", p)
    \/ \E p \in People : page.name = "fiche" /\ GoTo("fiche", p)
    \/ \E l \in loads : Identities(l) \/ Titles(l) \/ Complete(l) \/ HookFails(l)
    \/ \E p \in People, from \in {"foyer", "souscription"} : AddPerson(p, from)
    \/ \E p \in People : Activated(p)
    \/ \E holder, payer \in People \cup {Null} : CreateContractFor(holder, payer)

HouseholdSpec == HouseholdInit /\ [][HouseholdNext]_householdVars

-----------------------------------------------------------------------------
(* Properties. *)

HouseholdTypeOK ==
    /\ owned \in [UserAccounts -> SUBSET People]
    /\ session \in UserAccounts \cup {Null} /\ named \in BOOLEAN
    /\ page.name \in LoadingPages \cup {"ajouter", "login"}
    /\ page.id \in People \cup {Null} /\ page.over \subseteq People
    /\ held \in [People -> SUBSET {"active", "pending", "other"}]
    /\ cache # Null => cache.data.people \subseteq People \cup {Null}
    /\ \A l \in loads : l.name \in LoadingPages /\ l.live \in BOOLEAN
    /\ contract # Null => contract.by \in UserAccounts

\* Whoever a page shows as loaded is linked to the account signed in, and is the
\* person of the URL on the page of one: through sign-outs, other accounts,
\* history jumps between persons and answers that come late.
ShownBelongs ==
    Shown.source = "api" =>
        /\ Shown.people \subseteq Linked(session)
        /\ page.name = "fiche" => Shown.people = {page.id}

\* A list that a page shows as loaded has everyone who was linked to the account
\* when the page was opened: the person just added is in the household and can
\* be chosen as beneficiary, also after a reload started by the user's name.
AddedAppears ==
    (Shown.source = "api" /\ page.name # "fiche") => page.over \subseteq Shown.people

\* Nobody is told to have more than is on their profile: an active title, or one on
\* its way, is shown of a person who has it, however late the contracts answer and
\* whichever of them fail; only the page of one person invents a title.
TitlesTold ==
    Shown.source = "api" => \A p \in Shown.people :
        /\ Shown.told[p] = "active"   => "active" \in held[p]
        /\ Shown.told[p] = "pending"  => held[p] \cap {"pending", "active"} # {}
        /\ Shown.told[p] = "invented" => page.name = "fiche"

\* What a page shows of the household is the household: of this account, and whole,
\* with the titles its persons have.
ShownIsHousehold == ShownBelongs /\ AddedAppears /\ TitlesTold
=============================================================================
