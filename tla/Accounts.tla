------------------------------- MODULE Accounts -------------------------------
(***************************************************************************)
(* Accounts, their sessions and their mobility identities: registration,   *)
(* FranceConnect, login with a password, the recovery of an identity whose *)
(* holder had no account, relationships, and the roles an administrator    *)
(* sets while the accounts are at work.                                    *)
(*                                                                         *)
(* A call of the API is cut at its writes.  What it reads before writing   *)
(* the user is read in one step: the unique index of the table users       *)
(* decides again when the row is inserted.                                 *)
(***************************************************************************)
EXTENDS Integers, Sequences, FiniteSets, ServiceNames

CONSTANTS
    Browsers,        \* each with at most one call under way
    Emails,          \* e-mails of local accounts
    Subjects,        \* accounts of FranceConnect
    Guardian,        \* the account of a child's guardian
    MaxIdentities,   \* bound on the identities created
    MaxRequests,     \* bound on the recoveries requested
    MaxAccountCalls  \* bound on the calls made

ASSUME AccountsAssumption ==
    /\ Guardian \in Emails \cup Subjects
    /\ Emails \cap Subjects = {}
    /\ Null \notin Emails \cup Subjects \cup Persons
    /\ MaxIdentities \in Nat \ {0} /\ MaxRequests \in Nat /\ MaxAccountCalls \in Nat

VARIABLES
    users,        \* accounts in table users
    admins,       \* those whose roles have ADMIN
    granted,      \* history: those an administrator last made ADMIN
    identities,   \* table mobility_identities, in the order of insertion
    relations,    \* rows of table relationships, revoked ones included
    revoked,      \* those that are revoked
    requests,     \* table recovery_requests, in the order of insertion
    browserPage,  \* what each browser shows
    browserCall,  \* the call of each browser under way in the back
    crossed,      \* history: accounts and identities two calls were at work on
    made          \* number of calls made

accountsVars ==
    <<users, admins, granted, identities, relations, revoked, requests, browserPage,
      browserCall, crossed, made>>

Accounts == Emails \cup Subjects
RelationshipTypes == {"OWNER", "LEGAL_GUARDIAN"}

\* via: history, how the relationship was made.
Relationship ==
    [account : Accounts, identity : 1 .. MaxIdentities, type : RelationshipTypes,
     via : {"provision", "recovery", "other"}]

MobilityIdentity == [person : Persons, status : {"ACTIVE", "PENDING_RECOVERY"}]

RecoveryRequest ==
    [identity : 1 .. MaxIdentities, email : Emails,
     status : {"pending", "cancelled", "completed"}, expired : BOOLEAN]

\* form: the pages without a session, the three steps of Register; in: a session.
BrowserPage ==
    [at : {"form", "match", "code"}, account : Emails \cup {Null}, person : Persons \cup {Null},
     how : {Null}]
    \cup
    [at : {"in"}, account : Accounts, person : {Null},
     how : {"register", "recovery", "franceConnect", "credentials"}]

\* then: what a call does after it has synchronised the user.
AccountCall ==
    [pc : {"createLocal", "sync", "provision", "identity", "relation",
           "cancel", "create", "mark", "recUser", "recRelation", "recStatus", "recMark"},
     account : Accounts, person : Persons \cup {Null}, identity : 0 .. MaxIdentities,
     request : 0 .. MaxRequests, wasAdmin : BOOLEAN,
     as : {"register", "recovery", "franceConnect", "addPerson", "request"}]
    \cup {Null}

AccountsTypeOK ==
    /\ users \subseteq Accounts
    /\ admins \subseteq users
    /\ granted \subseteq users
    /\ identities \in Seq(MobilityIdentity)
    /\ Len(identities) <= MaxIdentities
    /\ relations \subseteq Relationship
    /\ revoked \subseteq relations
    /\ requests \in Seq(RecoveryRequest)
    /\ Len(requests) <= MaxRequests
    /\ browserPage \in [Browsers -> BrowserPage]
    /\ browserCall \in [Browsers -> AccountCall]
    /\ crossed \subseteq Accounts \cup 1 .. MaxIdentities
    /\ made \in Nat

NoSession == [at |-> "form", account |-> Null, person |-> Null, how |-> Null]

\* A child whose guardian's account kept the guardianship only.
AccountsInit ==
    /\ users = {Guardian}
    /\ admins = {}
    /\ granted = {}
    /\ \E p \in Persons : identities = << [person |-> p, status |-> "ACTIVE"] >>
    /\ relations = {[account |-> Guardian, identity |-> 1, type |-> t, via |-> "other"] :
                        t \in RelationshipTypes}
    /\ revoked = {r \in relations : r.type = "OWNER"}
    /\ requests = <<>>
    /\ browserPage = [b \in Browsers |-> NoSession]
    /\ browserCall = [b \in Browsers |-> Null]
    /\ crossed = {}
    /\ made = 0

Count == made < MaxAccountCalls /\ made' = made + 1
NoCall(b) == browserCall[b] = Null
InCall(b, pc) == browserCall[b] # Null /\ browserCall[b].pc = pc
Proceed(b, pc) == browserCall' = [browserCall EXCEPT ![b].pc = pc]
StartCall(b, pc, account, person, as) ==
    browserCall' = [browserCall EXCEPT ![b] =
        [pc |-> pc, account |-> account, person |-> person, identity |-> 0, request |-> 0,
         wasAdmin |-> account \in admins, as |-> as]]
End(b) == browserCall' = [browserCall EXCEPT ![b] = Null]
EnterAs(b, account, how) ==
    browserPage' = [browserPage EXCEPT ![b] =
        [at |-> "in", account |-> account, person |-> Null, how |-> how]]

-----------------------------------------------------------------------------
(* What the calls look up. *)

Active == relations \ revoked

HasActiveOwner(i) == \E r \in Active : r.identity = i /\ r.type = "OWNER"

\* Candidates of findByIdentityTriplet come in any order.
FindRecoverable(person) ==
    {i \in DOMAIN identities : identities[i].person = person /\ ~HasActiveOwner(i)}

\* Mutant: any relationship of the account counts.
FindAnyRelationship(account) == {r \in Active : r.account = account}

\* Mutant: the wrong type of relationship is looked for.
FindGuardianship(account) == {r \in Active : r.account = account /\ r.type = "LEGAL_GUARDIAN"}

FindExistingOwnerIdentity(account) ==
    {r \in Active : r.account = account /\ r.type = "OWNER"}

Matched(person) == FindRecoverable(person) # {}

\* Every account has an e-mail.
FindLegalGuardianEmail(i) ==
    \E r \in Active : r.identity = i /\ r.type = "LEGAL_GUARDIAN"

\* The index is unique whatever the status.
Insertable(account, i, type) ==
    ~\E r \in relations : r.account = account /\ r.identity = i /\ r.type = type

\* The account a call provisions an identity for, the identity a call recovers.

Provisioned(c) == IF c.as \in {"register", "franceConnect"} THEN c.account ELSE Null
Recovered(c) == IF c.as = "recovery" THEN c.identity ELSE Null

\* Two calls are at work on x.
Cross(b, x, On(_)) ==
    crossed' = IF \E c \in Browsers \ {b} : browserCall[c] # Null /\ On(browserCall[c]) = x
               THEN crossed \cup {x} ELSE crossed

-----------------------------------------------------------------------------
(* Register, its first step: the form. *)

\* A profile without an owner is offered for recovery; otherwise the account is
\* registered, 409 when the e-mail is taken.
Submit(b, p, e) ==
    /\ browserPage[b].at = "form"
    /\ NoCall(b)
    /\ IF Matched(p)
       THEN /\ browserPage' = [browserPage EXCEPT ![b] =
                [at |-> "match", account |-> e, person |-> p, how |-> Null]]
            /\ UNCHANGED browserCall
       ELSE /\ e \notin users
            /\ StartCall(b, "createLocal", e, p, "register")
            /\ UNCHANGED browserPage
    /\ Count
    /\ UNCHANGED <<users, admins, granted, identities, relations, revoked, requests, crossed>>

CreateLocal(b) ==
    /\ InCall(b, "createLocal")
    /\ browserCall[b].account \notin users
    /\ users' = users \cup {browserCall[b].account}
    /\ Proceed(b, "provision")
    /\ Cross(b, browserCall[b].account, Provisioned)
    /\ UNCHANGED <<admins, granted, identities, relations, revoked, requests, browserPage,
                   made>>

-----------------------------------------------------------------------------
(* FranceConnect, the password, and the calls of a session. *)

\* The identity provider gives the birth date or not; without it, no mobility
\* identity is made.
OwnerIdentityInput(p, dated) == IF dated THEN p ELSE Null

FranceConnectCallback(b, s, p, dated) ==
    /\ browserPage[b].at = "form"
    /\ NoCall(b)
    /\ IF s \in users
       THEN /\ StartCall(b, "sync", s, OwnerIdentityInput(p, dated), "franceConnect")
            /\ UNCHANGED <<users, browserPage>>
       ELSE /\ users' = users \cup {s}
            /\ IF OwnerIdentityInput(p, dated) # Null
               THEN StartCall(b, "provision", s, p, "franceConnect") /\ UNCHANGED browserPage
               ELSE EnterAs(b, s, "franceConnect") /\ UNCHANGED browserCall
    /\ Cross(b, s, Provisioned)
    /\ Count
    /\ UNCHANGED <<admins, granted, identities, relations, revoked, requests>>

LoginWithCredentials(b, e) ==
    /\ browserPage[b].at = "form"
    /\ NoCall(b)
    /\ e \in users
    /\ EnterAs(b, e, "credentials")
    /\ Count
    /\ UNCHANGED <<users, admins, granted, identities, relations, revoked, requests,
                   browserCall, crossed>>

\* Every call of a session finds the user and saves it: AddPerson is one of them.
AuthenticatedRequest(b, as) ==
    /\ browserPage[b].at = "in"
    /\ NoCall(b)
    /\ \E p \in Persons : StartCall(b, "sync", browserPage[b].account, p, as)
    /\ Count
    /\ UNCHANGED <<users, admins, granted, identities, relations, revoked, requests,
                   browserPage, crossed>>

\* The whole row is written, the roles as they were read.
Save(b) ==
    admins' = IF browserCall[b].wasAdmin THEN admins \cup {browserCall[b].account}
              ELSE admins \ {browserCall[b].account}

SyncUser(b) ==
    /\ InCall(b, "sync")
    /\ Save(b)
    /\ CASE browserCall[b].as = "request" -> End(b) /\ UNCHANGED browserPage
         [] browserCall[b].as = "addPerson" -> Proceed(b, "identity") /\ UNCHANGED browserPage
         [] browserCall[b].as = "franceConnect" ->
                IF browserCall[b].person = Null
                THEN End(b) /\ EnterAs(b, browserCall[b].account, "franceConnect")
                ELSE Proceed(b, "provision") /\ UNCHANGED browserPage
    /\ UNCHANGED <<users, granted, identities, relations, revoked, requests, crossed, made>>

\* An administrator replaces the roles of a user.
SetUserRole(a, isAdmin) ==
    /\ a \in users
    /\ admins' = IF isAdmin THEN admins \cup {a} ELSE admins \ {a}
    /\ granted' = IF isAdmin THEN granted \cup {a} ELSE granted \ {a}
    /\ Count
    /\ UNCHANGED <<users, identities, relations, revoked, requests, browserPage, browserCall,
                   crossed>>

-----------------------------------------------------------------------------
(* The owner's mobility identity. *)

\* An account that has an owner identity is signed in at once.
Provision(b) ==
    /\ InCall(b, "provision")
    /\ IF FindExistingOwnerIdentity(browserCall[b].account) # {}
       THEN End(b) /\ EnterAs(b, browserCall[b].account, browserCall[b].as)
       ELSE Proceed(b, "identity") /\ UNCHANGED browserPage
    /\ UNCHANGED <<users, admins, granted, identities, relations, revoked, requests, crossed,
                   made>>

CreateIdentity(b) ==
    /\ InCall(b, "identity")
    /\ Len(identities) < MaxIdentities
    /\ identities' = Append(identities, [person |-> browserCall[b].person, status |-> "ACTIVE"])
    /\ browserCall' = [browserCall EXCEPT ![b].pc = "relation", ![b].identity = Len(identities) + 1]
    /\ UNCHANGED <<users, admins, granted, relations, revoked, requests, browserPage, crossed,
                   made>>

Row(b, via) ==
    [account |-> browserCall[b].account, identity |-> browserCall[b].identity,
     type |-> "OWNER", via |-> via]

CreateOwner(b) ==
    /\ InCall(b, "relation")
    /\ Insertable(browserCall[b].account, browserCall[b].identity, "OWNER")
    /\ relations' = relations \cup
            {Row(b, IF browserCall[b].as = "addPerson" THEN "other" ELSE "provision")}
    /\ End(b)
    /\ IF browserCall[b].as = "addPerson" THEN UNCHANGED browserPage
       ELSE EnterAs(b, browserCall[b].account, browserCall[b].as)
    /\ UNCHANGED <<users, admins, granted, identities, revoked, requests, crossed, made>>

\* An active relationship of the type is refused, and the index refuses one that
\* was revoked.
CreateRelationship(b, i, type) ==
    /\ browserPage[b].at = "in"
    /\ i \in DOMAIN identities
    /\ Insertable(browserPage[b].account, i, type)
    /\ relations' = relations \cup
            {[account |-> browserPage[b].account, identity |-> i, type |-> type, via |-> "other"]}
    /\ Count
    /\ UNCHANGED <<users, admins, granted, identities, revoked, requests, browserPage,
                   browserCall, crossed>>

RevokeRelationship(b, r) ==
    /\ browserPage[b].at = "in"
    /\ r \in Active
    /\ r.account = browserPage[b].account \/ browserPage[b].account \in admins
    /\ revoked' = revoked \cup {r}
    /\ Count
    /\ UNCHANGED <<users, admins, granted, identities, relations, requests, browserPage,
                   browserCall, crossed>>

-----------------------------------------------------------------------------
(* The recovery: its code goes to the guardian. *)

RequestRecovery(b) ==
    /\ browserPage[b].at = "match"
    /\ NoCall(b)
    /\ browserPage[b].account \notin users
    /\ \E i \in FindRecoverable(browserPage[b].person) :
        /\ FindLegalGuardianEmail(i)
        /\ browserCall' = [browserCall EXCEPT ![b] =
            [pc |-> "cancel", account |-> browserPage[b].account, person |-> browserPage[b].person,
             identity |-> i, request |-> 0, wasAdmin |-> FALSE, as |-> "recovery"]]
        /\ Cross(b, i, Recovered)
    /\ Count
    /\ UNCHANGED <<users, admins, granted, identities, relations, revoked, requests,
                   browserPage>>

CancelPendingForIdentity(b) ==
    {r \in DOMAIN requests : requests[r].identity = browserCall[b].identity}

CancelPending(b) ==
    /\ InCall(b, "cancel")
    /\ requests' = [r \in DOMAIN requests |->
            IF r \in CancelPendingForIdentity(b) /\ requests[r].status = "pending"
            THEN [requests[r] EXCEPT !.status = "cancelled"] ELSE requests[r]]
    /\ Proceed(b, "create")
    /\ UNCHANGED <<users, admins, granted, identities, relations, revoked, browserPage,
                   crossed, made>>

CreateRecoveryRequest(b) ==
    /\ InCall(b, "create")
    /\ Len(requests) < MaxRequests
    /\ requests' = Append(requests,
            [identity |-> browserCall[b].identity, email |-> browserCall[b].account,
             status |-> "pending", expired |-> FALSE])
    /\ Proceed(b, "mark")
    /\ UNCHANGED <<users, admins, granted, identities, relations, revoked, browserPage,
                   crossed, made>>

MarkPendingRecovery(b) ==
    /\ InCall(b, "mark")
    /\ identities' = [identities EXCEPT ![browserCall[b].identity].status = "PENDING_RECOVERY"]
    /\ browserPage' = [browserPage EXCEPT ![b].at = "code"]
    /\ End(b)
    /\ UNCHANGED <<users, admins, granted, relations, revoked, requests, crossed, made>>

Expire(r) ==
    /\ ~requests[r].expired
    /\ requests' = [requests EXCEPT ![r].expired = TRUE]
    /\ UNCHANGED <<users, admins, granted, identities, relations, revoked, browserPage,
                   browserCall, crossed, made>>

\* Any code that was sent for the e-mail and is still pending is taken.
CompleteRecovery(b, r) ==
    /\ browserPage[b].at = "code"
    /\ NoCall(b)
    /\ requests[r].email = browserPage[b].account
    /\ requests[r].status = "pending"
    /\ ~requests[r].expired
    /\ browserPage[b].account \notin users
    /\ ~HasActiveOwner(requests[r].identity)
    /\ browserCall' = [browserCall EXCEPT ![b] =
            [pc |-> "recUser", account |-> browserPage[b].account, person |-> browserPage[b].person,
             identity |-> requests[r].identity, request |-> r, wasAdmin |-> FALSE,
             as |-> "recovery"]]
    /\ Cross(b, requests[r].identity, Recovered)
    /\ Count
    /\ UNCHANGED <<users, admins, granted, identities, relations, revoked, requests,
                   browserPage>>

RecoverUser(b) ==
    /\ InCall(b, "recUser")
    /\ browserCall[b].account \notin users
    /\ users' = users \cup {browserCall[b].account}
    /\ Proceed(b, "recRelation")
    /\ UNCHANGED <<admins, granted, identities, relations, revoked, requests, browserPage,
                   crossed, made>>

RecoverRelation(b) ==
    /\ InCall(b, "recRelation")
    /\ Insertable(browserCall[b].account, browserCall[b].identity, "OWNER")
    /\ relations' = relations \cup {Row(b, "recovery")}
    /\ Proceed(b, "recStatus")
    /\ UNCHANGED <<users, admins, granted, identities, revoked, requests, browserPage, crossed,
                   made>>

RecoverStatus(b) ==
    /\ InCall(b, "recStatus")
    /\ identities' = [identities EXCEPT ![browserCall[b].identity].status = "ACTIVE"]
    /\ Proceed(b, "recMark")
    /\ UNCHANGED <<users, admins, granted, relations, revoked, requests, browserPage, crossed,
                   made>>

MarkCompleted(b) ==
    /\ InCall(b, "recMark")
    /\ requests' = [requests EXCEPT ![browserCall[b].request].status = "completed"]
    /\ End(b)
    /\ EnterAs(b, browserCall[b].account, "recovery")
    /\ UNCHANGED <<users, admins, granted, identities, relations, revoked, crossed, made>>

-----------------------------------------------------------------------------
\* A call to the database fails, or the replica stops: the page shows an error.
AccountCallFails(b) ==
    /\ ~NoCall(b)
    /\ End(b)
    /\ UNCHANGED <<users, admins, granted, identities, relations, revoked, requests,
                   browserPage, crossed, made>>

\* The page is left, or the session ended.
Leave(b) ==
    /\ NoCall(b)
    /\ browserPage[b] # NoSession
    /\ browserPage' = [browserPage EXCEPT ![b] = NoSession]
    /\ UNCHANGED <<users, admins, granted, identities, relations, revoked, requests,
                   browserCall, crossed, made>>

Entering(b) ==
    \/ \E p \in Persons, e \in Emails : Submit(b, p, e)
    \/ \E s \in Subjects, p \in Persons, dated \in BOOLEAN : FranceConnectCallback(b, s, p, dated)
    \/ \E e \in Emails : LoginWithCredentials(b, e)
    \/ RequestRecovery(b)
    \/ \E r \in DOMAIN requests : CompleteRecovery(b, r)

InSession(b) ==
    \/ \E as \in {"request", "addPerson"} : AuthenticatedRequest(b, as)
    \/ \E i \in 1 .. MaxIdentities, type \in RelationshipTypes : CreateRelationship(b, i, type)
    \/ \E r \in relations : RevokeRelationship(b, r)

SigningIn(b) ==
    \/ CreateLocal(b)
    \/ SyncUser(b)
    \/ Provision(b)
    \/ CreateIdentity(b)
    \/ CreateOwner(b)

Recovering(b) ==
    \/ CancelPending(b)
    \/ CreateRecoveryRequest(b)
    \/ MarkPendingRecovery(b)
    \/ RecoverUser(b)
    \/ RecoverRelation(b)
    \/ RecoverStatus(b)
    \/ MarkCompleted(b)

AccountsNext ==
    \/ \E b \in Browsers :
        \/ Entering(b) \/ InSession(b) \/ SigningIn(b) \/ Recovering(b)
        \/ AccountCallFails(b) \/ Leave(b)
    \/ \E a \in Accounts, isAdmin \in BOOLEAN : SetUserRole(a, isAdmin)
    \/ \E r \in DOMAIN requests : Expire(r)

AccountsSpec == AccountsInit /\ [][AccountsNext]_accountsVars

-----------------------------------------------------------------------------
(* Properties. *)

\* Whoever is signed in by a registration or a recovery owns a mobility identity,
\* or did: a call that failed half-way never ends in a session.
SignedInHasIdentity ==
    \A b \in Browsers :
        browserPage[b].at = "in" /\ browserPage[b].how \in {"register", "recovery"} =>
            \E r \in relations : r.account = browserPage[b].account /\ r.type = "OWNER"

\* An account has at most one identity provisioned at its sign-in that it still
\* owns, however often it signs in, unless two sign-ins overlapped.
OneProvisioned ==
    \A r, q \in Active :
        /\ r.via = "provision"
        /\ q.via = "provision"
        /\ r.account = q.account
        /\ r.account \notin crossed
        => r = q

\* An identity has at most one account that recovered it and still owns it,
\* whatever requests, failures and revocations came in between, unless two calls
\* were at work on its recovery at the same time.
OneRecovered ==
    \A r, q \in Active :
        /\ r.via = "recovery"
        /\ q.via = "recovery"
        /\ r.identity = q.identity
        /\ r.identity \notin crossed
        => r = q

\* An identity has at most one code pending, unless two calls overlapped: a
\* code sent earlier opens nothing.
OneCodePending ==
    \A r, q \in DOMAIN requests :
        /\ requests[r].status = "pending"
        /\ requests[q].status = "pending"
        /\ requests[r].identity = requests[q].identity
        /\ requests[r].identity \notin crossed
        => r = q

\* The roles of an account are those an administrator last gave it.
RolesAsSet == admins = granted

\* What is looked up and then inserted without a lock is there once, whenever no two
\* calls were at work on it: the identity of an account, the owner who recovered an
\* identity, the code that opens a recovery.
OneOfEach == OneProvisioned /\ OneRecovered /\ OneCodePending
=============================================================================
