------------------------------- MODULE MCMobility -------------------------------
(* The instances of the mobility modules and of the registry that TLC checks.     *)
(* They share no variable and none waits for another: TLC explores each one with   *)
(* the others at rest, instead of their product.  `part` names the one that moves. *)
EXTENDS Supports, Journeys, SubscriptionProfile, SmartTicketRegistry, Access, TLC

CONSTANTS
    Parts,        \* the modules that move
    mia, agent    \* the accounts

VARIABLE part

vars == <<part, supportsVars, journeysVars, profileVars, registryVars, accessVars>>

-----------------------------------------------------------------------------
(* Values of the constants. *)

\* Subscriptions and identities carry the names of their persons.
MCNames == {"lea", "tom"}
MCIdentities == {"lea"}
MCHolder == [n \in MCNames |-> n]
MCNameOf == [n \in MCIdentities |-> n]

MCAccounts == {mia, agent}
MCAdmins == {agent}
MCOwnerOf == [i \in MCIdentities |-> mia]
MCTypes == {"owner", "read_only"}

\* Handlers and tabs are only compared.
Symmetry == Permutations(Handlers) \cup Permutations(Tabs)

-----------------------------------------------------------------------------

Init ==
    /\ part \in Parts
    /\ SupportsInit /\ JourneysInit /\ ProfileInit /\ RegistryInit /\ AccessInit
    /\ part = "profile" \/ linked = Identities
    /\ part = "registry" \/ (admins = {CHOOSE w \in Wallets : TRUE} /\ registrars = admins)

Next ==
    /\ \/ /\ part = "supports" /\ SupportsNext
          /\ UNCHANGED <<journeysVars, profileVars, registryVars, accessVars>>
       \/ /\ part = "journeys" /\ JourneysNext
          /\ UNCHANGED <<supportsVars, profileVars, registryVars, accessVars>>
       \/ /\ part = "profile" /\ ProfileNext
          /\ UNCHANGED <<supportsVars, journeysVars, registryVars, accessVars>>
       \/ /\ part = "registry" /\ RegistryNext
          /\ UNCHANGED <<supportsVars, journeysVars, profileVars, accessVars>>
       \/ /\ part = "access" /\ AccessNext
          /\ UNCHANGED <<supportsVars, journeysVars, profileVars, registryVars>>
    /\ UNCHANGED part

Spec == Init /\ [][Next]_vars
=============================================================================
