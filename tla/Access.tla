--------------------------------- MODULE Access ---------------------------------
(***************************************************************************)
(* Who may do what to a mobility identity (modules/mobility): the           *)
(* relationships that link accounts to identities, the permissions each     *)
(* type of relationship carries, and the endpoints of mobility.controller.ts *)
(* that ask for one before they read or change anything.                    *)
(*                                                                          *)
(* A call checks the permission, then acts, then records the act in the     *)
(* identity's timeline: three accesses to the database, any of which may    *)
(* fail, between which relationships are created and revoked by others.     *)
(***************************************************************************)
EXTENDS Mobility, Naturals, FiniteSets

CONSTANTS
    Accounts,   \* the accounts that call
    Admins,     \* those with the role ADMIN
    OwnerOf,    \* the account that created each identity
    Types,      \* the types of relationship that are created
    MaxRows     \* bound: rows of the relationships table

RelationshipType ==
    {"owner", "payer", "legal_guardian", "manager", "read_only", "former_guardian"}

ASSUME AccountsAssumption == Admins \subseteq Accounts
ASSUME OwnerAssumption == OwnerOf \in [Identities -> Accounts]
ASSUME TypesAssumption == Types \subseteq RelationshipType
ASSUME RowsAssumption == MaxRows \in Nat

VARIABLES
    rows,     \* the relationships table
    calls,    \* each account's request in progress
    recorded  \* acts recorded

accessVars == <<rows, calls, recorded>>

-----------------------------------------------------------------------------
(* Permissions. *)

All == {"canView", "canEditIdentity", "canSubscribe", "canPay", "canManageDocuments",
        "canManageSupport", "canTransferOwnership", "canViewHistory"}

\* DefaultPermissionsService
forType(type) ==
    CASE type = "owner" -> All
      [] type \in {"legal_guardian", "manager"} -> All \ {"canPay", "canTransferOwnership"}
      [] type = "payer" -> {"canView", "canSubscribe", "canPay", "canViewHistory"}
      [] type \in {"read_only", "former_guardian"} -> {"canView", "canViewHistory"}

Row == [id : 1..MaxRows, account : Accounts, identity : Identities, type : Types,
        status : {"ACTIVE", "REVOKED"}]

Writes == {"updateIdentity", "addDocument"}

Act == [by : Accounts, on : Identities, op : Writes \cup {"link"}]

NoCall == [step |-> "idle"]

AccessTypeOK ==
    /\ rows \subseteq Row
    /\ \A a \in Accounts : calls[a] = NoCall \/ calls[a] \in
         [step : {"check", "act", "record"}, op : {"read"} \cup Writes,
          permission : All, on : Identities, held : SUBSET All]
         \cup [step : {"insert", "record"}, op : {"link"}, on : Identities, type : Types,
               account : Accounts]
    /\ recorded \subseteq Act

\* Mutant: the status is not looked at.
AnyRelationship(a, i) == {r \in rows : r.account = a /\ r.identity = i}

\* findActiveByAccountAndIdentity
ActiveRelationships(a, i) ==
    {r \in rows : r.account = a /\ r.identity = i /\ r.status = "ACTIVE"}

hasPermission(a, i, permission) ==
    a \in Admins \/ \E r \in ActiveRelationships(a, i) : permission \in forType(r.type)

\* History: what the relationships of an account grant, admin or not.
Granted(table, a, i) ==
    IF a \in Admins THEN All
    ELSE UNION {forType(r.type) :
                r \in {q \in table : q.account = a /\ q.identity = i /\ q.status = "ACTIVE"}}

\* History: each call remembers what its account has been granted since it began.
Witnessed(cs, table) ==
    [a \in Accounts |->
       IF cs[a].step \in {"check", "act"}
       THEN [cs[a] EXCEPT !.held = @ \cup Granted(table, a, cs[a].on)] ELSE cs[a]]

AccessInit ==
    /\ \E number \in [Identities -> 1..Cardinality(Identities)] :
         /\ \A i, j \in Identities : number[i] = number[j] => i = j
         /\ rows = {[id |-> number[i], account |-> OwnerOf[i], identity |-> i,
                     type |-> "owner", status |-> "ACTIVE"] : i \in Identities}
    /\ calls = [a \in Accounts |-> NoCall]
    /\ recorded = {}

Next_(a, call, table) == calls' = Witnessed([calls EXCEPT ![a] = call], table)

-----------------------------------------------------------------------------
(* The endpoints of an identity. *)

Endpoint(a, op, permission, i) ==
    /\ calls[a] = NoCall
    /\ Next_(a, [step |-> "check", op |-> op, permission |-> permission, on |-> i,
                 held |-> {}], rows)
    /\ UNCHANGED <<rows, recorded>>

GetIdentity(a, i) == Endpoint(a, "read", "canView", i)
GetContracts(a, i) == Endpoint(a, "read", "canView", i)
GetDocuments(a, i) == Endpoint(a, "read", "canView", i)
GetSupports(a, i) == Endpoint(a, "read", "canView", i)
GetTransportRights(a, i) == Endpoint(a, "read", "canView", i)
GetProofEvents(a, i) == Endpoint(a, "read", "canViewHistory", i)
GetIdentityTimeline(a, i) == Endpoint(a, "read", "canViewHistory", i)
UpdateIdentity(a, i) == Endpoint(a, "updateIdentity", "canEditIdentity", i)
AddDocument(a, i) == Endpoint(a, "addDocument", "canManageDocuments", i)

\* assertPermission
AssertPermission(a) ==
    /\ calls[a].step = "check"
    /\ Next_(a, IF hasPermission(a, calls[a].on, calls[a].permission)
                THEN [calls[a] EXCEPT !.step = "act"] ELSE NoCall, rows)
    /\ UNCHANGED <<rows, recorded>>

\* The rows the endpoint lists are answered as they are by then.
AnswerRows(a) ==
    /\ calls[a].step = "act" /\ calls[a].op = "read"
    /\ Next_(a, NoCall, rows)
    /\ UNCHANGED <<rows, recorded>>

Write(a) ==
    /\ calls[a].step = "act" /\ calls[a].op \in Writes
    /\ Next_(a, [calls[a] EXCEPT !.step = "record"], rows)
    /\ UNCHANGED <<rows, recorded>>

\* TimelineRecorderService, whose actor is the caller.
RecordAct(a) ==
    /\ calls[a].step = "record"
    /\ recorded' = recorded \cup {[by |-> a, on |-> calls[a].on, op |-> calls[a].op]}
    /\ Next_(a, NoCall, rows)
    /\ UNCHANGED rows

\* The database call of any step fails: the request is answered 500.
Fails(a) ==
    /\ calls[a] # NoCall
    /\ Next_(a, NoCall, rows)
    /\ UNCHANGED <<rows, recorded>>

-----------------------------------------------------------------------------
(* Relationships. *)

\* CreateRelationshipUseCase: no relationship of the type is active ...
Link(a, for, i, type) ==
    /\ calls[a] = NoCall
    /\ for = a \/ a \in Admins
    /\ \A r \in ActiveRelationships(for, i) : r.type # type
    /\ Next_(a, [step |-> "insert", op |-> "link", on |-> i, type |-> type,
                 account |-> for], rows)
    /\ UNCHANGED <<rows, recorded>>

\* Mutant: the index leaves out the rows that are revoked.
ActiveIndex(row) ==
    \A r \in rows : r.status = "REVOKED" \/ r.account # row.account
                    \/ r.identity # row.identity \/ r.type # row.type

\* @Index([...], { unique: true }), whatever the status.
UniqueIndex(row) ==
    \A r \in rows : <<r.account, r.identity, r.type>> # <<row.account, row.identity, row.type>>

\* ... when it was read: the row is inserted, or the index refuses it and the call
\* fails.
Insert(a) ==
    LET c == calls[a]
        row == [id |-> Cardinality(rows) + 1, account |-> c.account, identity |-> c.on,
                type |-> c.type, status |-> "ACTIVE"]
    IN
    /\ c.step = "insert" /\ Cardinality(rows) < MaxRows
    /\ UniqueIndex(row)
    /\ rows' = rows \cup {row}
    /\ Next_(a, [c EXCEPT !.step = "record"], rows')
    /\ UNCHANGED recorded

\* RevokeRelationshipUseCase: the row stays.
Revoke(a, r) ==
    /\ calls[a] = NoCall
    /\ r \in rows
    /\ r.account = a \/ a \in Admins
    /\ rows' = (rows \ {r}) \cup {[r EXCEPT !.status = "REVOKED"]}
    /\ Next_(a, NoCall, rows')
    /\ UNCHANGED recorded

AccessNext ==
    \E a \in Accounts :
       \/ \E i \in Identities :
            \/ GetIdentity(a, i) \/ GetContracts(a, i) \/ GetDocuments(a, i)
            \/ GetSupports(a, i) \/ GetTransportRights(a, i)
            \/ GetProofEvents(a, i) \/ GetIdentityTimeline(a, i)
            \/ UpdateIdentity(a, i) \/ AddDocument(a, i)
            \/ \E type \in Types, for \in Accounts : Link(a, for, i, type)
       \/ \E r \in rows : Revoke(a, r)
       \/ AssertPermission(a) \/ AnswerRows(a) \/ Write(a) \/ RecordAct(a) \/ Fails(a) \/ Insert(a)

AccessSpec == AccessInit /\ [][AccessNext]_accessVars

-----------------------------------------------------------------------------
(* Properties. *)

\* Nothing of an identity is read or changed by a call whose account has held no
\* relationship granting the endpoint's permission since it began, whatever is created
\* and revoked between the check and the act (mobility-access.service.ts).
ActsUnderPermission ==
    \A a \in Accounts :
        calls[a].step = "act" => calls[a].permission \in calls[a].held

\* Two calls that both find no relationship of a type create one (create-relationship,
\* relationship.orm-entity.ts): an account is linked once in each capacity.
LinkedOnce ==
    \A r, q \in rows :
        /\ r.account = q.account /\ r.identity = q.identity /\ r.type = q.type
        /\ r.status = "ACTIVE" /\ q.status = "ACTIVE"
        => r = q

Linked(table, a, i, type) ==
    \E r \in table : r.account = a /\ r.identity = i /\ r.type = type /\ r.status = "ACTIVE"

\* A revocation is for good: the check of create-relationship looks at active rows only,
\* the index at all of them, and the account never has the capacity back.
RevocationFinal ==
    [][\A r \in rows : r.status = "REVOKED" =>
         ~ Linked(rows', r.account, r.identity, r.type)]_rows

\* Every act was permitted when it was checked, and no account has two rows that
\* could disagree about what it is permitted.
ActsPermitted == ActsUnderPermission /\ LinkedOnce
=============================================================================
