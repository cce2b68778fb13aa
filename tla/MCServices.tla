------------------------------- MODULE MCServices -------------------------------
(* The sign-in, the accounts, the pages of the front end and the services behind them *)
(* in one instance for TLC.  They share no variable and none waits for another: TLC    *)
(* explores each one with the others at rest, instead of their product.  `part` names  *)
(* the one that moves.                                                                 *)
EXTENDS SignIn, YousignExchange, Accounts, DossierPages, SubscriptionAdvisor, Household,
        ExternalApis, Assistant

CONSTANTS
    Parts,                                  \* the modules that move
    e1, e2, g,                              \* accounts: two e-mails, FranceConnect's
    c1, c2,                                 \* files
    infant, pupil, student, graduate, adult, entitled, elder,
    a1, a2, parent, child, grandmother, other

VARIABLE part

vars == <<part, signInVars, exchangeVars, accountsVars, pagesVars, advisorVars, householdVars,
          apisVars, chatVars>>

-----------------------------------------------------------------------------
(* Values of the constants. *)

MCPages == {"/espace", "/dossier"}
MCHome == "/espace"
MCLinks ==
    {[at |-> "/espace", query |-> Null], [at |-> "/dossier", query |-> "contractId"]}

MCBrowsers == Calls
MCQuestions == Calls

\* Two files that require one document each, of different types.
MCRequiredTypes == c1 :> {"photo"} @@ c2 :> {"mandat_sepa"}

MCAge ==
    infant :> 3 @@ pupil :> 15 @@ student :> 20 @@ graduate :> 26 @@ adult :> 40
        @@ entitled :> 50 @@ elder :> 70

\* The profile of the graduate was stored at 25; a right was stored for the entitled.
MCCurrentProfile ==
    infant :> "junior" @@ pupil :> "scolaire" @@ student :> "etudiant" @@ graduate :> "etudiant"
        @@ adult :> "adulte" @@ entitled :> "tst" @@ elder :> "senior"

MCAgeOf == parent :> 40 @@ child :> 9 @@ grandmother :> 70 @@ other :> 30
MCSelf == a1 :> parent @@ a2 :> other
MCLinked0 == a1 :> {} @@ a2 :> {child}
MCHeld0 ==
    parent :> {"active", "other"} @@ child :> {"pending"} @@ grandmother :> {"other"}
        @@ other :> {"active"}

-----------------------------------------------------------------------------

\* What rests does so in one of its initial states.
Init ==
    /\ part \in Parts
    /\ part = "sign_in" \/ config = CHOOSE c \in Config : ValidEnv(c)
    /\ SignInInit
    /\ ExchangeInit /\ AccountsInit /\ PagesInit /\ HouseholdInit
    /\ part = "advisor" \/ who = adult
    /\ AdvisorInit
    /\ part = "apis" \/ mode = [r \in Registries |-> "mock"]
    /\ ApisInit
    /\ part = "chat" \/ configured = TRUE
    /\ ChatInit

Next ==
    /\ IF part = "sign_in"  THEN SignInNext    ELSE UNCHANGED signInVars
    /\ IF part = "exchange" THEN ExchangeNext  ELSE UNCHANGED exchangeVars
    /\ IF part = "accounts" THEN AccountsNext  ELSE UNCHANGED accountsVars
    /\ IF part = "pages"    THEN PagesNext     ELSE UNCHANGED pagesVars
    /\ IF part = "advisor"  THEN AdvisorNext   ELSE UNCHANGED advisorVars
    /\ IF part = "foyer"    THEN HouseholdNext ELSE UNCHANGED householdVars
    /\ IF part = "apis"     THEN ApisNext      ELSE UNCHANGED apisVars
    /\ IF part = "chat"     THEN ChatNext      ELSE UNCHANGED chatVars
    /\ UNCHANGED part

Spec == Init /\ [][Next]_vars

-----------------------------------------------------------------------------

\* Browsers, callers and questions are only compared, and so are the two e-mails.
Symmetry == Permutations(Calls) \cup Permutations({e1, e2})
=============================================================================
