------------------------- MODULE SmartTicketRegistry -------------------------
(***************************************************************************)
(* The Solidity registry of transport rights and of the supports           *)
(* authorised to carry them.  A transaction is one action; a call that     *)
(* reverts changes nothing, so what makes it revert is a missing guard.    *)
(*                                                                         *)
(* Next to the storage stands `mirror`: what a reader of the event log,    *)
(* who applies each event in the order it was emitted, believes.           *)
(***************************************************************************)
EXTENDS Mobility, Naturals

CONSTANTS
    Wallets,     \* addresses, the zero address left out
    Supports,    \* support commitments, zero left out
    Holders,     \* holder commitments, zero left out
    MaxTime      \* bound on block.timestamp

ASSUME MaxTimeAssumption == MaxTime \in Nat
ASSUME NullAssumption == Null \notin Holders

VARIABLES
    now,         \* block.timestamp
    admins,      \* accounts that hold DEFAULT_ADMIN_ROLE
    registrars,  \* accounts that hold REGISTRAR_ROLE
    rights,      \* _rights
    commitments, \* _rightSupports
    mirror       \* history: the registry as a reader of its events knows it

registryVars == <<now, admins, registrars, rights, commitments, mirror>>

RightStatus == {"ACTIVE", "SUSPENDED", "EXPIRED", "REVOKED"}
CommitmentStatus == {"UNKNOWN", "AUTHORIZED", "REVOKED"}
Time == 0 .. MaxTime

\* The storage of a right before it is registered is all zeros; ACTIVE is zero.
NoRight == [exists |-> FALSE, holder |-> Null, status |-> "ACTIVE", validUntil |-> 0, updatedAt |-> 0]
NoSupport == [status |-> "UNKNOWN", updatedAt |-> 0]

RightRecord ==
    [exists : BOOLEAN, holder : Holders \cup {Null}, status : RightStatus,
     validUntil : Nat, updatedAt : Time]
SupportRecord == [status : CommitmentStatus, updatedAt : Time]

\* What the events carry of a right and of its supports.
Mirror ==
    [known : BOOLEAN, status : RightStatus, validUntil : Nat,
     support : [Supports -> SupportRecord]]

RegistryTypeOK ==
    /\ now \in Time
    /\ admins \subseteq Wallets
    /\ registrars \subseteq Wallets
    /\ rights \in [Rights -> RightRecord]
    /\ commitments \in [Rights -> [Supports -> SupportRecord]]
    /\ mirror \in [Rights -> Mirror]

\* constructor: both addresses are given, and may be the same.
RegistryInit ==
    /\ now = 0
    /\ admins \in {{a} : a \in Wallets}
    /\ registrars \in {{a} : a \in Wallets}
    /\ rights = [r \in Rights |-> NoRight]
    /\ commitments = [r \in Rights |-> [s \in Supports |-> NoSupport]]
    /\ mirror = [r \in Rights |->
                    [known |-> FALSE, status |-> "ACTIVE", validUntil |-> 0,
                     support |-> [s \in Supports |-> NoSupport]]]

-----------------------------------------------------------------------------
(* The views. *)

IsValid(r) == /\ rights[r].exists
              /\ rights[r].status = "ACTIVE"
              /\ now <= rights[r].validUntil

IsValidForSupport(r, s) == IsValid(r) /\ commitments[r][s].status = "AUTHORIZED"

MatchesHolder(r, h) == rights[r].exists /\ h # Null /\ rights[r].holder = h

-----------------------------------------------------------------------------
(* The events, and what their reader makes of them. *)

RightRegistered(r, until) == [event |-> "RightRegistered", right |-> r, until |-> until]
RightStatusUpdated(r, old, new) ==
    [event |-> "RightStatusUpdated", right |-> r, old |-> old, new |-> new]
SupportAuthorized(r, s) ==
    [event |-> "SupportAuthorized", right |-> r, support |-> s, updatedAt |-> now]
SupportRevoked(r, s) ==
    [event |-> "SupportRevoked", right |-> r, support |-> s, updatedAt |-> now]

Read(m, e) ==
    CASE e.event = "RightRegistered" ->
            [m EXCEPT ![e.right].known = TRUE, ![e.right].status = "ACTIVE",
                      ![e.right].validUntil = e.until]
      [] e.event = "RightStatusUpdated" ->
            [m EXCEPT ![e.right].status = e.new]
      [] e.event = "SupportAuthorized" ->
            [m EXCEPT ![e.right].support[e.support] =
                [status |-> "AUTHORIZED", updatedAt |-> e.updatedAt]]
      [] e.event = "SupportRevoked" ->
            [m EXCEPT ![e.right].support[e.support] =
                [status |-> "REVOKED", updatedAt |-> e.updatedAt]]

Emit(e) == mirror' = Read(mirror, e)
EmitBoth(e, f) == mirror' = Read(Read(mirror, e), f)

-----------------------------------------------------------------------------
(* The transactions of a registrar. *)

RegisterRight(sender, r, h, until) ==
    /\ sender \in registrars
    /\ until > now
    /\ ~rights[r].exists
    /\ rights' = [rights EXCEPT ![r] =
                    [exists |-> TRUE, holder |-> h, status |-> "ACTIVE",
                     validUntil |-> until, updatedAt |-> now]]
    /\ Emit(RightRegistered(r, until))
    /\ UNCHANGED <<now, admins, registrars, commitments>>

UpdateRightStatus(sender, r, status) ==
    /\ sender \in registrars
    /\ rights[r].exists
    /\ rights' = [rights EXCEPT ![r].status = status, ![r].updatedAt = now]
    /\ Emit(RightStatusUpdated(r, rights[r].status, status))
    /\ UNCHANGED <<now, admins, registrars, commitments>>

Authorized == [status |-> "AUTHORIZED", updatedAt |-> now]
Revoked == [status |-> "REVOKED", updatedAt |-> now]

\* Mutant: a support that was revoked may be authorised again.
UnlessAuthorized(r, s) == commitments[r][s].status # "AUTHORIZED"

Unknown(r, s) == commitments[r][s].status = "UNKNOWN"

AuthorizeSupport(sender, r, s) ==
    /\ sender \in registrars
    /\ rights[r].exists
    /\ Unknown(r, s)
    /\ commitments' = [commitments EXCEPT ![r][s] = Authorized]
    /\ Emit(SupportAuthorized(r, s))
    /\ UNCHANGED <<now, admins, registrars, rights>>

RevokeSupport(sender, r, s) ==
    /\ sender \in registrars
    /\ rights[r].exists
    /\ commitments[r][s].status = "AUTHORIZED"
    /\ commitments' = [commitments EXCEPT ![r][s] = Revoked]
    /\ Emit(SupportRevoked(r, s))
    /\ UNCHANGED <<now, admins, registrars, rights>>

\* Mutant: the new support is not looked at, and may be the old one.
ReplaceByAny(sender, r, old, new) ==
    /\ sender \in registrars
    /\ rights[r].exists
    /\ commitments[r][old].status = "AUTHORIZED"
    /\ commitments' = [commitments EXCEPT ![r][new] = Authorized, ![r][old] = Revoked]
    /\ EmitBoth(SupportRevoked(r, old), SupportAuthorized(r, new))
    /\ UNCHANGED <<now, admins, registrars, rights>>

\* old = new reverts: an authorised support is not unknown.
ReplaceSupport(sender, r, old, new) ==
    /\ sender \in registrars
    /\ rights[r].exists
    /\ commitments[r][old].status = "AUTHORIZED"
    /\ Unknown(r, new)
    /\ commitments' = [commitments EXCEPT ![r][old] = Revoked, ![r][new] = Authorized]
    /\ EmitBoth(SupportRevoked(r, old), SupportAuthorized(r, new))
    /\ UNCHANGED <<now, admins, registrars, rights>>

-----------------------------------------------------------------------------
(* OpenZeppelin's AccessControl; DEFAULT_ADMIN_ROLE administers both roles.  *)

GrantRole(sender, a) ==
    /\ sender \in admins
    /\ \/ admins' = admins \cup {a} /\ UNCHANGED registrars
       \/ registrars' = registrars \cup {a} /\ UNCHANGED admins
    /\ UNCHANGED <<now, rights, commitments, mirror>>

\* An admin takes a role from anybody; everybody may renounce their own.
RemoveRole(sender, a) ==
    /\ sender \in admins \/ sender = a
    /\ \/ admins' = admins \ {a} /\ UNCHANGED registrars
       \/ registrars' = registrars \ {a} /\ UNCHANGED admins
    /\ UNCHANGED <<now, rights, commitments, mirror>>

Tick ==
    /\ now < MaxTime
    /\ now' = now + 1
    /\ UNCHANGED <<admins, registrars, rights, commitments, mirror>>

Transaction(sender) ==
    \/ \E r \in Rights, h \in Holders, until \in Time : RegisterRight(sender, r, h, until)
    \/ \E r \in Rights, status \in RightStatus : UpdateRightStatus(sender, r, status)
    \/ \E r \in Rights, s \in Supports : AuthorizeSupport(sender, r, s)
    \/ \E r \in Rights, s \in Supports : RevokeSupport(sender, r, s)
    \/ \E r \in Rights, old, new \in Supports : ReplaceSupport(sender, r, old, new)
    \/ \E a \in Wallets : GrantRole(sender, a) \/ RemoveRole(sender, a)

RegistryNext == Tick \/ \E sender \in Wallets : Transaction(sender)

RegistrySpec == RegistryInit /\ [][RegistryNext]_registryVars

-----------------------------------------------------------------------------
(* Properties. *)

\* Replaying the events gives the statuses, the limits and the times of the
\* storage, so validity can be decided off chain: replaceSupport emits its two
\* events in an order that leaves the replay right.
MirrorAgrees ==
    \A r \in Rights :
        /\ mirror[r].known = rights[r].exists
        /\ mirror[r].status = rights[r].status
        /\ mirror[r].validUntil = rights[r].validUntil
        /\ mirror[r].support = commitments[r]

\* A support the registry has revoked is never valid for that right again,
\* whatever the registrars call afterwards, replacements included.
RevokedForGood ==
    [][\A r \in Rights, s \in Supports :
        commitments[r][s].status = "REVOKED" => ~IsValidForSupport(r, s)']_registryVars

\* A right past its limit is never valid again: no call moves the limit, and
\* registering it a second time is refused.
ExpiredForGood ==
    [][\A r \in Rights :
        rights[r].exists /\ now > rights[r].validUntil => ~IsValid(r)']_registryVars

\* The holder of a right never changes, not even by a new registration after it
\* has expired or was revoked.
HolderKept ==
    [][\A r \in Rights, h \in Holders : MatchesHolder(r, h) => MatchesHolder(r, h)']_registryVars

\* What no later call takes back: a revocation, an expiry, the holder of a right.
RightsFinal == RevokedForGood /\ ExpiredForGood /\ HolderKept
=============================================================================
