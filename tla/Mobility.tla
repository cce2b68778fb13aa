-------------------------------- MODULE Mobility --------------------------------
(* What the modules about modules/mobility and the registry have in common.       *)
EXTENDS FiniteSets

CONSTANTS
    Handlers,    \* requests handled at the same time
    Identities,  \* mobility identities
    Rights,      \* transport rights, by their identifier in the tables and on chain
    Null

ASSUME HandlersAssumption == IsFiniteSet(Handlers)
=============================================================================
