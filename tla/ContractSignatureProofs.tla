----------------------- MODULE ContractSignatureProofs -----------------------
(***************************************************************************)
(* TLAPS proofs about ContractSignature, for any number of contracts,      *)
(* signature requests, concurrent handlers and replicas and any number of  *)
(* webhook deliveries.                                                     *)
(***************************************************************************)
EXTENDS ContractSignature, TLAPS

-----------------------------------------------------------------------------
(* Type correctness *)

\* Assigning a status to a row, or merging two rows, gives a row.
LEMMA RowType ==
    /\ Absent \in Row
    /\ \A r \in Row, s \in Status : WithStatus(r, s) \in Row
    /\ \A cur, base, snap \in Row : Merged(cur, base, snap) \in Row
BY DEF Absent, Row, Status, WithStatus, Merged

\* A handler that is not in flight is a handler.
LEMMA IdleType == Idle \in Request
BY RowType DEF Idle, Request, Operation, Pc

\* What a handler reads and holds is a row of the table.
LEMMA HeldType ==
    ASSUME TypeOK, NEW h \in Requests
    PROVE  Snap(h) \in Row /\ request[h] \in Request
BY DEF TypeOK, Snap, Request

\* What a handler reads of its contract is a row of the table.
LEMMA FoundType ==
    ASSUME TypeOK, NEW h \in Requests, request[h].on \in Contracts
    PROVE  Found(h) \in Row
BY DEF TypeOK, Found

-----------------------------------------------------------------------------
(* Steps that disturb one handler, or none *)

\* What no step takes back: a request's contract and its completion, an acceptance,
\* and the history.
Grows ==
    /\ \A c \in Contracts : (wasReady[c] => wasReady'[c]) /\ (paid[c] => paid'[c])
    /\ \A c \in Contracts, sr \in SignatureRequests :
          acceptances[c][sr] > 0 => acceptances'[c][sr] > 0
    /\ \A sr \in SignatureRequests :
          /\ yousign[sr].externalId # Null => yousign'[sr].externalId = yousign[sr].externalId
          /\ yousign[sr].state = "done" => yousign'[sr] = yousign[sr]

\* A copy that could be written before such a step can be written after it.
LEMMA BackedGrows ==
    ASSUME TypeOK, Grows, NEW c \in Contracts, NEW r \in Row, Backed(c, r)
    PROVE  Backed(c, r)'
<1>1. Consented(c) => Consented(c)'
  BY DEF Consented, Grows
<1>2. QED
  BY <1>1, NullAssumption DEF Backed, Grows, Row

\* A handler that does not move keeps its part of the invariant.
LEMMA HandlerGrows ==
    ASSUME TypeOK, Grows, NEW q \in Request, HandlerOK(q)
    PROVE  HandlerOK(q)'
<1>1. q.pc \in Holding => Backed(q.on, q.snap)'
  <2> SUFFICES ASSUME q.pc \in Holding PROVE Backed(q.on, q.snap)'
    OBVIOUS
  <2>1. q.on \in Contracts /\ q.snap \in Row /\ Backed(q.on, q.snap)
    BY DEF HandlerOK, Holding, Request
  <2>2. QED
    BY <2>1, BackedGrows
<1>2. q.pc \notin {"idle", "find"} => q.on \in Contracts
  BY DEF HandlerOK
<1>3. q.pc \in Holding => q.pc \notin {"idle", "find"}
  BY DEF Holding
<1>4. q.pc \notin {"idle", "find"} => /\ wasReady[q.on] => wasReady'[q.on]
                                      /\ paid[q.on] => paid'[q.on]
  BY <1>2 DEF Grows
<1>5. q.op = "sign" /\ q.pc \notin {"idle", "find", "load", "ready"} => wasReady'[q.on]
  BY <1>4 DEF HandlerOK, Grows
<1>6. q.pc = "find" => /\ q.event \in SignatureRequests
                       /\ q.op = "done" => yousign'[q.event].state = "done"
  BY DEF HandlerOK, Grows
<1>7. QED
  BY <1>1, <1>2, <1>3, <1>4, <1>5, <1>6 DEF HandlerOK, Grows

\* A handler that is not in flight can disturb nothing.
LEMMA IdleOK == HandlerOK(Idle) /\ HandlerOK(Idle)'
BY DEF HandlerOK, Idle, Holding

\* One handler moves from q to another state, the database and YouSign only grow.
LEMMA HandlerStep ==
    ASSUME IInv, Grows, TypeOK', DatabaseOK', NEW h \in Requests, NEW q \in Request,
           request' = [request EXCEPT ![h] = q], HandlerOK(q)'
    PROVE  IInv'
<1>1. ASSUME NEW g \in Requests PROVE HandlerOK(request[g])'
  <2>1. CASE g = h
    <3>1. request'[g] = q
      BY <2>1 DEF IInv, TypeOK
    <3>2. QED
      BY <3>1 DEF HandlerOK, Backed, Consented
  <2>2. CASE g # h
    <3>1. request'[g] = request[g] /\ request[g] \in Request
      BY <2>2 DEF IInv, TypeOK
    <3>2. \A p \in Request : HandlerOK(p) => HandlerOK(p)'
      BY HandlerGrows DEF IInv
    <3>3. HandlerOK(request[g])
      BY DEF IInv
    <3>4. QED
      BY <3>1, <3>2, <3>3 DEF HandlerOK, Backed, Consented
  <2>3. QED
    BY <2>1, <2>2
<1>2. QED
  BY <1>1 DEF IInv

\* No handler moves.
LEMMA OtherStep ==
    ASSUME IInv, Grows, TypeOK', DatabaseOK', UNCHANGED request
    PROVE  IInv'
<1>1. \A p \in Request : HandlerOK(p) => HandlerOK(p)'
  BY HandlerGrows DEF IInv
<1>2. ASSUME NEW g \in Requests PROVE HandlerOK(request[g])'
  <2>1. request[g] \in Request /\ HandlerOK(request[g]) /\ request'[g] = request[g]
    BY DEF IInv, TypeOK
  <2>2. QED
    BY <2>1, <1>1 DEF HandlerOK, Backed, Consented
<1>3. QED
  BY <1>2 DEF IInv

\* Only one handler moves.
LEMMA LocalStep ==
    ASSUME IInv, Local, NEW h \in Requests, NEW q \in Request,
           request' = [request EXCEPT ![h] = q], HandlerOK(q)
    PROVE  IInv'
<1> USE DEF Local, database, external
<1>1. Grows
  BY DEF Grows
<1>2. TypeOK'
  BY DEF IInv, TypeOK
<1>3. DatabaseOK'
  BY DEF IInv, DatabaseOK, AcceptanceTraceable, Backed, Consented
<1>4. HandlerOK(q)'
  BY HandlerGrows, <1>1 DEF IInv
<1>5. QED
  BY <1>1, <1>2, <1>3, <1>4, HandlerStep

-----------------------------------------------------------------------------
(* The steps between two awaits *)

\* A handler that works on a contract may go on to pc with the copy snap.
MayGo(h, pc, snap) ==
    LET q == request[h] IN
    /\ pc \in Pc \ {"find", "update"} /\ snap \in Row
    /\ q.pc \notin {"idle", "find"}
    /\ pc \in Holding =>
          /\ Backed(q.on, snap)
          /\ snap.status \in PaidStatus => paid[q.on] \/ q.op = "pay"
    /\ pc \in {"fetch", "lookup", "record"} => snap.sr \in SignatureRequests
    /\ pc \in {"lookup", "record"} => yousign[snap.sr].state = "done"
    /\ q.op = "sign" /\ pc \notin {"idle", "load", "ready"} => wasReady[q.on]
    /\ q.op = "pay" /\ pc = "select" => snap.status = "en_attente_de_validation_documentaire"

\* The handler that Goto(h, pc, snap) leaves.
Moved(h, pc, snap) ==
    IF pc = "idle" THEN Idle
    ELSE [request[h] EXCEPT !.pc = pc, !.base = Absent,
                            !.snap = IF pc \in Holding THEN snap ELSE Absent]

\* A handler that goes on to where it may go keeps its part of the invariant.
LEMMA MovedOK ==
    ASSUME IInv, NEW h \in Requests, NEW pc \in Pc, NEW snap \in Row, MayGo(h, pc, snap)
    PROVE  Moved(h, pc, snap) \in Request /\ HandlerOK(Moved(h, pc, snap))
<1> DEFINE q == Moved(h, pc, snap)
<1>1. request[h] \in Request /\ HandlerOK(request[h])
  BY DEF IInv, TypeOK
<1>2. q \in Request
  BY <1>1, RowType, IdleType DEF Moved, Request
<1>3. CASE pc = "idle"
  BY <1>2, <1>3, IdleOK DEF Moved
<1>4. CASE pc # "idle"
  <2>1. /\ q.pc = pc /\ q.on = request[h].on /\ q.op = request[h].op
        /\ pc \in Holding => q.snap = snap
    BY <1>1, <1>4 DEF Moved, Request
  <2>2. request[h].on \in Contracts
    BY <1>1 DEF MayGo, HandlerOK
  <2>3. HandlerOK(q)
    <3> HIDE DEF q
    <3>1. q.pc \notin {"find", "update"}
      BY <2>1 DEF MayGo
    <3>2. q.pc \in Holding => /\ Backed(q.on, q.snap)
                              /\ q.snap.status \in PaidStatus => paid[q.on] \/ q.op = "pay"
      BY <2>1 DEF MayGo
    <3>3. /\ q.pc \in {"fetch", "lookup", "record"} => q.snap.sr \in SignatureRequests
          /\ q.pc \in {"lookup", "record"} => yousign[q.snap.sr].state = "done"
      BY <2>1 DEF MayGo, Holding
    <3>4. q.op = "sign" /\ q.pc \notin {"idle", "find", "load", "ready"} => wasReady[q.on]
      BY <2>1 DEF MayGo
    <3>5. q.op = "pay" /\ q.pc \in {"select", "update"} =>
             q.snap.status = "en_attente_de_validation_documentaire"
      BY <2>1, <3>1 DEF MayGo, Holding
    <3>6. QED
      BY <2>1, <2>2, <3>1, <3>2, <3>3, <3>4, <3>5 DEF HandlerOK
  <2>4. QED
    BY <1>2, <2>3
<1>5. QED
  BY <1>3, <1>4

\* A step that only moves its handler to where it may go keeps the invariant.
LEMMA GotoStep ==
    ASSUME IInv, Local, NEW h \in Requests, NEW pc, NEW snap, Goto(h, pc, snap),
           MayGo(h, pc, snap)
    PROVE  IInv'
<1>1. pc \in Pc /\ snap \in Row
  BY DEF MayGo
<1>2. Moved(h, pc, snap) \in Request /\ HandlerOK(Moved(h, pc, snap))
  BY <1>1, MovedOK
<1>3. request' = [request EXCEPT ![h] = Moved(h, pc, snap)]
  BY DEF Goto, Moved, IInv, TypeOK
<1> DEFINE q == Moved(h, pc, snap)
<1>4. PICK p \in Request : p = q
  BY <1>2
<1>5. HandlerOK(p)
  BY <1>2, <1>4
<1>6. request' = [request EXCEPT ![h] = p]
  BY <1>3, <1>4
<1>7. QED
  BY <1>5, <1>6, LocalStep

\* What a handler that works on a contract may rely on.
LEMMA AtWork ==
    ASSUME IInv, NEW h \in Requests, request[h].pc \notin {"idle", "find"}
    PROVE  /\ request[h] \in Request /\ HandlerOK(request[h])
           /\ request[h].on \in Contracts
           /\ Snap(h) \in Row /\ Found(h) \in Row /\ Absent \in Row
           /\ Backed(request[h].on, Found(h))
           /\ Found(h).status \in PaidStatus => paid[request[h].on]
<1>1. request[h] \in Request /\ HandlerOK(request[h])
  BY DEF IInv, TypeOK
<1>2. request[h].on \in Contracts
  BY <1>1 DEF HandlerOK
<1>3. QED
  BY <1>1, <1>2, RowType, FoundType, HeldType DEF IInv, DatabaseOK, Found

\* Where the status checks of the signature use case lead, it may go.
LEMMA AfterChecksGo ==
    ASSUME IInv, NEW h \in Requests, request[h].pc \notin {"idle", "find"}, NEW status,
           request[h].op = "sign" => wasReady[request[h].on]
    PROVE  MayGo(h, AfterChecks(status), Absent)
<1>1. AfterChecks(status) \in {"reload", "gate", "idle"}
  BY DEF AfterChecks
<1>2. QED
  BY <1>1, RowType DEF MayGo, Holding, Pc

\* Loading the contract, checking its documents and loading it again before the
\* PDF is made (SignContractUseCase) keep the invariant.
LEMMA SignSteps ==
    ASSUME IInv, NEW h \in Requests,
           SignLoad(h) \/ SignCheckDocuments(h) \/ SignReload(h)
    PROVE  IInv'
<1>1. request[h].pc \notin {"idle", "find"} /\ request[h].op = "sign"
  BY DEF SignLoad, SignCheckDocuments, SignReload, At
<1>2. /\ request[h] \in Request /\ HandlerOK(request[h])
      /\ request[h].on \in Contracts
      /\ Snap(h) \in Row /\ Found(h) \in Row /\ Absent \in Row
      /\ Backed(request[h].on, Found(h))
      /\ Found(h).status \in PaidStatus => paid[request[h].on]
  BY <1>1, AtWork
<1>3. CASE SignLoad(h)
  <2>1. MayGo(h, "ready", Found(h))
    BY <1>1, <1>2 DEF MayGo, Pc
  <2>2. QED
    BY <1>3, <2>1, GotoStep DEF SignLoad
<1>4. CASE SignReload(h)
  <2>1. MayGo(h, "create", Found(h))
    BY <1>1, <1>2, <1>4 DEF MayGo, Pc, HandlerOK, SignReload, At
  <2>2. QED
    BY <1>4, <2>1, GotoStep DEF SignReload
<1>5. CASE SignCheckDocuments(h)
  <2>1. CASE documentsReady[request[h].on]
    <3>1. wasReady[request[h].on]
      BY <1>2, <2>1 DEF IInv, DatabaseOK
    <3>2. MayGo(h, AfterDocuments(Snap(h).status), Absent)
      <4>1. MayGo(h, AfterChecks(Snap(h).status), Absent)
        BY <1>1, <3>1, AfterChecksGo
      <4>2. MayGo(h, "sync", Absent)
        BY <1>1, <1>2, <3>1 DEF MayGo, Holding, Pc
      <4>3. QED
        BY <4>1, <4>2 DEF AfterDocuments
    <3>3. QED
      BY <1>5, <2>1, <3>2, GotoStep DEF SignCheckDocuments
  <2>2. CASE ~documentsReady[request[h].on]
    <3>1. MayGo(h, "idle", Absent)
      BY <1>1, <1>2 DEF MayGo, Holding, Pc
    <3>2. QED
      BY <1>5, <2>2, <3>1, GotoStep DEF SignCheckDocuments
  <2>3. QED
    BY <2>1, <2>2
<1>6. QED
  BY <1>3, <1>4, <1>5

\* The first read of syncIfPending keeps the invariant.
LEMMA SyncLoadStep ==
    ASSUME IInv, NEW h \in Requests, SyncLoad(h)
    PROVE  IInv'
<1>1. request[h].pc = "sync" /\ request[h].op \in {"sign", "poll"} /\ Local
  BY DEF SyncLoad, At
<1>2. /\ request[h] \in Request /\ HandlerOK(request[h])
      /\ request[h].on \in Contracts
      /\ Found(h) \in Row /\ Absent \in Row
      /\ Backed(request[h].on, Found(h))
      /\ Found(h).status \in PaidStatus => paid[request[h].on]
  BY <1>1, AtWork
<1>3. request[h].op = "sign" => wasReady[request[h].on]
  BY <1>1, <1>2 DEF HandlerOK
<1>4. CASE Found(h).status = "signature_en_cours" /\ Found(h).sr # Null
  <2> DEFINE q == [request[h] EXCEPT !.pc = "fetch", !.snap = Found(h), !.then = "synced"]
  <2>1. request' = [request EXCEPT ![h] = q]
    BY <1>2, <1>4 DEF SyncLoad, IInv, TypeOK
  <2>2. q \in Request
    BY <1>2 DEF Request, Pc
  <2>3. q.pc = "fetch" /\ q.snap = Found(h) /\ q.on = request[h].on /\ q.op = request[h].op
    BY <1>2 DEF Request
  <2>4. Found(h).sr \in SignatureRequests
    BY <1>2, <1>4 DEF Row
  <2>5. HandlerOK(q)
    <3> HIDE DEF q
    <3>1. Backed(q.on, q.snap)
      BY <1>2, <2>3
    <3>2. QED
      BY <1>2, <1>3, <2>3, <2>4, <3>1 DEF HandlerOK
  <2>6. PICK p \in Request : p = q
    BY <2>2
  <2>7. QED
    BY <1>1, <2>1, <2>5, <2>6, LocalStep
<1>5. CASE ~(Found(h).status = "signature_en_cours" /\ Found(h).sr # Null)
  <2>1. MayGo(h, AfterChecks(Found(h).status), Absent)
    BY <1>1, <1>3, AfterChecksGo
  <2>2. MayGo(h, "idle", Absent)
    BY <1>1, <1>2 DEF MayGo, Holding, Pc
  <2>3. QED
    BY <1>1, <1>5, <2>1, <2>2, GotoStep DEF SyncLoad
<1>6. QED
  BY <1>4, <1>5

\* A copy whose status is assigned stays a copy that may be written.
LEMMA WithStatusBacked ==
    ASSUME NEW c \in Contracts, NEW r \in Row, NEW s \in Status, Backed(c, r),
           s \in SignedStatus => Consented(c), wasReady[c]
    PROVE  /\ WithStatus(r, s) \in Row /\ WithStatus(r, s).status = s
           /\ WithStatus(r, s).sr = r.sr /\ Backed(c, WithStatus(r, s))
BY RowType DEF WithStatus, Row, Backed

\* A contract whose copy names a request has had its documents complete.
LEMMA NamedReady ==
    ASSUME IInv, NEW c \in Contracts, NEW r \in Row, Backed(c, r), r.sr \in SignatureRequests
    PROVE  wasReady[c] /\ yousign[r.sr].externalId = c
BY NullAssumption DEF Backed, IInv, DatabaseOK

\* Asking YouSign for the request's status keeps the invariant: what is recorded
\* next is signed, and a reverted copy is no longer past the signature.
LEMMA SyncFetchStep ==
    ASSUME IInv, NEW h \in Requests, SyncFetch(h)
    PROVE  IInv'
<1> DEFINE state == yousign[Snap(h).sr].state
           reverted == WithStatus(Snap(h), "en_attente_de_signature_payeur")
<1>1. request[h].pc = "fetch" /\ request[h].op \in {"sign", "poll"} /\ Local
  BY DEF SyncFetch, At
<1>2. /\ request[h] \in Request /\ HandlerOK(request[h])
      /\ request[h].on \in Contracts /\ Snap(h) \in Row
  BY <1>1, AtWork
<1>3. /\ Snap(h).sr \in SignatureRequests /\ Backed(request[h].on, Snap(h))
      /\ Snap(h).status \in PaidStatus => paid[request[h].on]
  BY <1>1, <1>2 DEF HandlerOK, Snap, Holding
<1>4. wasReady[request[h].on]
  BY <1>2, <1>3, NamedReady
<1>5. CASE IsDone(state)
  <2>1. MayGo(h, "lookup", Snap(h))
    BY <1>1, <1>2, <1>3, <1>4, <1>5 DEF MayGo, Pc, IsDone
  <2>2. QED
    BY <1>1, <1>5, <2>1, GotoStep DEF SyncFetch
<1>6. CASE ~IsDone(state)
  <2>1. MayGo(h, "select", Snap(h))
    BY <1>1, <1>2, <1>3, <1>4 DEF MayGo, Pc
  <2>2. reverted \in Row /\ Backed(request[h].on, reverted) /\ reverted.status \notin PaidStatus
    BY <1>2, <1>3, <1>4, WithStatusBacked DEF Status, SignedStatus, PaidStatus
  <2>3. MayGo(h, "select", reverted)
    <3> HIDE DEF reverted
    <3>1. QED
      BY <1>1, <1>2, <1>4, <2>2 DEF MayGo, Pc
  <2>4. QED
    BY <1>1, <1>6, <2>1, <2>3, GotoStep DEF SyncFetch
<1>7. QED
  BY <1>5, <1>6

\* Looking for the acceptance keeps the invariant: the copy becomes payable only
\* when there is one.
LEMMA SyncLookupStep ==
    ASSUME IInv, NEW h \in Requests, SyncLookup(h)
    PROVE  IInv'
<1> DEFINE marked == WithStatus(Snap(h), "en_attente_paiement")
<1>1. request[h].pc = "lookup" /\ request[h].op \in {"sign", "poll"} /\ Local
  BY DEF SyncLookup, At
<1>2. /\ request[h] \in Request /\ HandlerOK(request[h])
      /\ request[h].on \in Contracts /\ Snap(h) \in Row
  BY <1>1, AtWork
<1>3. /\ Snap(h).sr \in SignatureRequests /\ Backed(request[h].on, Snap(h))
      /\ Snap(h).status \in PaidStatus => paid[request[h].on]
      /\ yousign[Snap(h).sr].state = "done"
  BY <1>1, <1>2 DEF HandlerOK, Snap, Holding
<1>4. wasReady[request[h].on]
  BY <1>2, <1>3, NamedReady
<1>5. CASE acceptances[request[h].on][Snap(h).sr] > 0
  <2>1. Consented(request[h].on)
    BY <1>2, <1>3, <1>5 DEF Consented, IInv, DatabaseOK, AcceptanceTraceable
  <2>2. marked \in Row /\ Backed(request[h].on, marked) /\ marked.status \notin PaidStatus
    BY <1>2, <1>3, <1>4, <2>1, WithStatusBacked DEF Status, PaidStatus
  <2>3. MayGo(h, "select", marked)
    <3> HIDE DEF marked
    <3>1. QED
      BY <1>1, <1>2, <1>4, <2>2 DEF MayGo, Pc
  <2>4. QED
    BY <1>1, <1>5, <2>3, GotoStep DEF SyncLookup
<1>6. CASE ~(acceptances[request[h].on][Snap(h).sr] > 0)
  <2>1. MayGo(h, "record", Snap(h))
    BY <1>1, <1>2, <1>3, <1>4 DEF MayGo, Pc
  <2>2. QED
    BY <1>1, <1>6, <2>1, GotoStep DEF SyncLookup
<1>7. QED
  BY <1>5, <1>6

\* The steps that give up their copy: they keep only what the handler already knew.
LEMMA PlainSteps ==
    ASSUME IInv, NEW h \in Requests,
           SyncFails(h) \/ Synced(h) \/ Advanced(h) \/ Fail(h)
    PROVE  IInv'
<1>1. CASE SyncFails(h)
  <2>1. request[h].pc \notin {"idle", "find", "load", "ready"}
    BY <1>1 DEF SyncFails
  <2>2. HandlerOK(request[h]) /\ Absent \in Row
    BY <2>1, AtWork
  <2>3. MayGo(h, "synced", Absent)
    BY <2>1, <2>2 DEF MayGo, Pc, Holding, HandlerOK
  <2>4. QED
    BY <1>1, <2>3, GotoStep DEF SyncFails
<1>2. CASE Synced(h)
  <2>1. request[h].pc = "synced"
    BY <1>2 DEF Synced, At
  <2>2. HandlerOK(request[h]) /\ Absent \in Row
    BY <2>1, AtWork
  <2>3. MayGo(h, AfterChecks(Found(h).status), Absent)
    BY <2>1, <2>2, AfterChecksGo DEF HandlerOK
  <2>4. MayGo(h, "idle", Absent)
    BY <2>1, <2>2 DEF MayGo, Pc, Holding
  <2>5. QED
    BY <1>2, <2>3, <2>4, GotoStep DEF Synced
<1>3. CASE Advanced(h)
  <2>1. request[h].pc = "advanced"
    BY <1>3 DEF Advanced, At
  <2>2. HandlerOK(request[h]) /\ Absent \in Row
    BY <2>1, AtWork
  <2>3. MayGo(h, "reload", Absent) /\ MayGo(h, "idle", Absent)
    BY <2>1, <2>2 DEF MayGo, Pc, Holding, HandlerOK
  <2>4. QED
    BY <1>3, <2>3, GotoStep DEF Advanced
<1>4. CASE Fail(h)
  <2>1. request' = [request EXCEPT ![h] = Idle] /\ Local
    BY <1>4 DEF Fail, Goto
  <2>2. QED
    BY <2>1, IdleType, IdleOK, LocalStep
<1>5. QED
  BY <1>1, <1>2, <1>3, <1>4

\* The two reads of tryAdvanceContract keep the invariant: the copy leaves the
\* document stage only when the documents are complete.
LEMMA GateSteps ==
    ASSUME IInv, NEW h \in Requests, GateLoad(h) \/ GateReadUploads(h)
    PROVE  IInv'
<1>1. /\ request[h].pc \in {"gate", "uploads"} /\ request[h].op \in {"sign", "gate"}
      /\ Local
  BY DEF GateLoad, GateReadUploads, At
<1>2. /\ request[h] \in Request /\ HandlerOK(request[h])
      /\ request[h].on \in Contracts
      /\ Snap(h) \in Row /\ Found(h) \in Row /\ Absent \in Row
      /\ Backed(request[h].on, Found(h))
      /\ Found(h).status \in PaidStatus => paid[request[h].on]
  BY <1>1, AtWork
<1>3. request[h].op = "sign" => wasReady[request[h].on]
  BY <1>1, <1>2 DEF HandlerOK
<1>4. MayGo(h, AfterGate(h), Absent) /\ AfterGate(h) \in {"idle", "advanced"}
  BY <1>1, <1>2, <1>3 DEF MayGo, Pc, Holding, AfterGate
<1>5. CASE GateLoad(h)
  <2>1. MayGo(h, "uploads", Found(h))
    BY <1>1, <1>2, <1>3 DEF MayGo, Pc
  <2>2. QED
    BY <1>4, <1>5, <2>1, GotoStep DEF GateLoad
<1>6. CASE GateReadUploads(h)
  <2>1. CASE ~documentsReady[request[h].on]
    BY <1>4, <1>6, <2>1, GotoStep DEF GateReadUploads
  <2>2. CASE documentsReady[request[h].on]
    <3> DEFINE advanced == WithStatus(Snap(h), "en_attente_de_signature_payeur")
               q == [request[h] EXCEPT !.pc = "select", !.then = AfterGate(h),
                                       !.snap = advanced]
    <3>1. request' = [request EXCEPT ![h] = q]
      BY <1>2, <1>6, <2>2 DEF GateReadUploads, IInv, TypeOK, Snap
    <3>2. Backed(request[h].on, Snap(h)) /\ wasReady[request[h].on]
      BY <1>2, <1>6, <2>2 DEF HandlerOK, Snap, Holding, GateReadUploads, At, IInv, DatabaseOK
    <3>3. /\ advanced \in Row /\ Backed(request[h].on, advanced)
          /\ advanced.status \notin PaidStatus
      BY <1>2, <3>2, WithStatusBacked DEF Status, SignedStatus, PaidStatus
    <3>4. q \in Request
      <4> HIDE DEF advanced
      <4>1. QED
        BY <1>2, <1>4, <3>3 DEF Request, Pc
    <3>5. /\ q.pc = "select" /\ q.snap = advanced /\ q.on = request[h].on
          /\ q.op = request[h].op
      BY <1>2 DEF Request
    <3>6. HandlerOK(q)
      <4> HIDE DEF q, advanced
      <4>1. Backed(q.on, q.snap)
        BY <3>3, <3>5
      <4>2. q.op # "pay"
        BY <1>1, <3>5
      <4>3. QED
        BY <1>2, <3>2, <3>3, <3>5, <4>1, <4>2 DEF HandlerOK
    <3>7. PICK p \in Request : p = q
      BY <3>4
    <3>8. QED
      BY <1>1, <3>1, <3>6, <3>7, LocalStep
  <2>3. QED
    BY <2>1, <2>2
<1>7. QED
  BY <1>5, <1>6

\* The reads of the payment and validation use cases keep the invariant.
LEMMA PaySteps ==
    ASSUME IInv, NEW h \in Requests, PayLoad(h) \/ ValidateLoad(h)
    PROVE  IInv'
<1>1. request[h].pc = "load" /\ request[h].op \in {"pay", "validate"} /\ Local
  BY DEF PayLoad, ValidateLoad, At
<1>2. /\ request[h].on \in Contracts /\ Found(h) \in Row /\ Absent \in Row
      /\ Backed(request[h].on, Found(h))
      /\ Found(h).status \in PaidStatus => paid[request[h].on]
  BY <1>1, AtWork
<1>3. MayGo(h, "idle", Absent)
  BY <1>1, <1>2 DEF MayGo, Pc, Holding
<1>4. ASSUME Found(h).status \in SignedStatus, NEW s \in PaidStatus,
             s = "actif" => request[h].op = "validate" /\ paid[request[h].on],
             s # "actif" => request[h].op = "pay"
      PROVE  MayGo(h, "select", WithStatus(Found(h), s))
  <2> DEFINE copy == WithStatus(Found(h), s)
  <2>1. Consented(request[h].on) /\ wasReady[request[h].on] /\ s \in Status
    BY <1>2, <1>4 DEF Backed, SignedStatus, PaidStatus, Status
  <2>2. copy \in Row /\ Backed(request[h].on, copy) /\ copy.status = s
    BY <1>2, <2>1, WithStatusBacked
  <2>3. MayGo(h, "select", copy)
    <3> HIDE DEF copy
    <3>1. QED
      BY <1>1, <1>4, <2>1, <2>2 DEF MayGo, Pc, PaidStatus
  <2>4. QED
    BY <2>3
<1>5. CASE PayLoad(h)
  BY <1>1, <1>3, <1>4, <1>5, GotoStep DEF PayLoad, At, Payable, SignedStatus, PaidStatus
<1>6. CASE ValidateLoad(h)
  BY <1>1, <1>2, <1>3, <1>4, <1>6, GotoStep
     DEF ValidateLoad, At, Validatable, SignedStatus, PaidStatus
<1>7. QED
  BY <1>5, <1>6

\* TypeORM's SELECT keeps the invariant: a row past its payment has been paid.
LEMMA SelectStep ==
    ASSUME IInv, NEW h \in Requests, SelectForSave(h)
    PROVE  IInv'
<1>1. request[h].pc = "select" /\ Local
  BY DEF SelectForSave
<1>2. /\ request[h] \in Request /\ HandlerOK(request[h])
      /\ request[h].on \in Contracts /\ Found(h) \in Row
      /\ Found(h).status \in PaidStatus => paid[request[h].on]
  BY <1>1, AtWork
<1> DEFINE q == [request[h] EXCEPT !.pc = "update", !.base = Found(h)]
<1>3. request' = [request EXCEPT ![h] = q]
  BY <1>2 DEF SelectForSave, IInv, TypeOK
<1>4. q \in Request
  BY <1>2 DEF Request, Pc
<1>5. /\ q.pc = "update" /\ q.snap = request[h].snap /\ q.on = request[h].on
      /\ q.op = request[h].op /\ q.base = Found(h)
  BY <1>2 DEF Request
<1>6. HandlerOK(q)
  <2> HIDE DEF q
  <2>1. Backed(q.on, q.snap)
    BY <1>1, <1>2, <1>5 DEF HandlerOK, Holding
  <2>2. q.snap.status \in PaidStatus => paid[q.on] \/ q.op = "pay"
    BY <1>1, <1>2, <1>5 DEF HandlerOK, Holding
  <2>3. QED
    BY <1>1, <1>2, <1>5, <2>1, <2>2 DEF HandlerOK
<1>7. PICK p \in Request : p = q
  BY <1>4
<1>8. QED
  BY <1>1, <1>3, <1>6, <1>7, LocalStep

\* A webhook handler that found its contract, or none, keeps the invariant.
LEMMA FindStep ==
    ASSUME IInv, NEW h \in Requests, FindByRequest(h)
    PROVE  IInv'
<1>1. /\ request[h].pc = "find" /\ request[h].op \in {"done", "declined"} /\ Local
      /\ request[h] \in Request /\ HandlerOK(request[h])
  BY DEF FindByRequest, At, IInv, TypeOK
<1>2. CASE Goto(h, "idle", Absent)
  <2>1. request' = [request EXCEPT ![h] = Idle]
    BY <1>2 DEF Goto
  <2>2. QED
    BY <1>1, <2>1, IdleType, IdleOK, LocalStep
<1>3. ASSUME NEW c \in Named(request[h].event),
             request' = [request EXCEPT ![h].on = c,
               ![h].pc = IF request[h].op = "done" THEN "record" ELSE "select",
               ![h].snap = IF request[h].op = "done" THEN row[c]
                           ELSE WithStatus(row[c], "en_attente_de_signature_payeur")]
      PROVE  IInv'
  <2> DEFINE copy == IF request[h].op = "done" THEN row[c]
                     ELSE WithStatus(row[c], "en_attente_de_signature_payeur")
             pc == IF request[h].op = "done" THEN "record" ELSE "select"
             q == [request[h] EXCEPT !.on = c, !.pc = pc, !.snap = copy]
  <2>1. request' = [request EXCEPT ![h] = q]
    BY <1>3 DEF IInv, TypeOK
  <2>2. /\ c \in Contracts /\ row[c] \in Row /\ row[c].sr = request[h].event
        /\ row[c].sr \in SignatureRequests /\ Backed(c, row[c])
        /\ row[c].status \in PaidStatus => paid[c]
    BY <1>1, <1>3 DEF Named, IInv, TypeOK, DatabaseOK, HandlerOK
  <2>3. wasReady[c]
    BY <2>2, NamedReady
  <2>4. /\ WithStatus(row[c], "en_attente_de_signature_payeur") \in Row
        /\ Backed(c, WithStatus(row[c], "en_attente_de_signature_payeur"))
        /\ WithStatus(row[c], "en_attente_de_signature_payeur").status \notin PaidStatus
    BY <2>2, <2>3, WithStatusBacked DEF Status, SignedStatus, PaidStatus
  <2>5. /\ copy \in Row /\ Backed(c, copy)
        /\ copy.status \in PaidStatus => paid[c]
        /\ pc = "record" => /\ copy.sr \in SignatureRequests
                            /\ yousign[copy.sr].state = "done"
        /\ pc \in {"record", "select"}
    BY <1>1, <2>2, <2>4 DEF HandlerOK
  <2>6. q \in Request
    <3> HIDE DEF copy, pc
    <3>1. QED
      BY <1>1, <2>2, <2>5 DEF Request, Pc
  <2>7. q.pc = pc /\ q.on = c /\ q.snap = copy /\ q.op = request[h].op
    <3> HIDE DEF copy, pc
    <3>1. QED
      BY <1>1 DEF Request
  <2>8. HandlerOK(q)
    <3> HIDE DEF q, copy, pc
    <3>1. Backed(q.on, q.snap)
      BY <2>5, <2>7
    <3>2. q.op \notin {"pay", "sign"}
      BY <1>1, <2>7
    <3>3. QED
      BY <2>2, <2>5, <2>7, <3>1, <3>2 DEF HandlerOK
  <2>9. PICK p \in Request : p = q
    BY <2>6
  <2>10. QED
    BY <1>1, <2>1, <2>8, <2>9, LocalStep
<1>4. QED
  BY <1>2, <1>3 DEF FindByRequest

\* A request that arrives keeps the invariant.
LEMMA BeginStep ==
    ASSUME IInv, NEW h \in Requests, NEW op \in DOMAIN Entry, NEW c \in Contracts,
           NEW r \in Replicas, Begin(h, op, c, r)
    PROVE  IInv'
<1> DEFINE q == [Idle EXCEPT !.op = op, !.pc = Entry[op], !.at = r, !.on = c]
<1>1. q \in Request
  <2>1. op \in Operation /\ Entry[op] \in Pc
    BY DEF Entry, Operation, Pc
  <2>2. QED
    BY <2>1, IdleType DEF Request
<1>2. /\ q.pc \in {"load", "sync", "gate"} /\ q.on = c /\ q.op = op
      /\ op = "sign" => q.pc = "load"
  BY DEF Idle, Entry
<1>3. HandlerOK(q)
  <2> HIDE DEF q
  <2>1. QED
    BY <1>2 DEF HandlerOK, Holding
<1>4. PICK p \in Request : p = q
  BY <1>1
<1>5. QED
  BY <1>3, <1>4, LocalStep DEF Begin

-----------------------------------------------------------------------------
(* The steps that write to the database or to YouSign *)

\* A new signature request keeps the invariant: it names the contract that asked.
LEMMA CreateStep ==
    ASSUME IInv, NEW h \in Requests, SignCreate(h)
    PROVE  IInv'
<1>1. /\ request[h].pc = "create" /\ request[h].op = "sign"
      /\ UNCHANGED <<row, acceptances, documentsReady, deliveries, wasReady,
                      processedEvents, paid>>
  BY DEF SignCreate, At, database
<1>2. request[h] \in Request /\ HandlerOK(request[h]) /\ request[h].on \in Contracts
  BY <1>1, AtWork
<1>c. PICK c \in Contracts : c = request[h].on
  BY <1>2
<1>3. wasReady[c]
  BY <1>1, <1>2, <1>c DEF HandlerOK
<1>4. PICK sr \in SignatureRequests :
        /\ yousign[sr].state = "none"
        /\ yousign' = [yousign EXCEPT ![sr] = [state |-> "ongoing", externalId |-> c]]
        /\ request' = [request EXCEPT
                         ![h].pc = "select", ![h].then = "idle",
                         ![h].snap = [status |-> "signature_en_cours", sr |-> sr]]
  BY <1>c DEF SignCreate
<1>5. yousign[sr].externalId = Null
  BY <1>4 DEF IInv, DatabaseOK
<1>6. \A s \in SignatureRequests :
        yousign'[s] = IF s = sr THEN [state |-> "ongoing", externalId |-> c] ELSE yousign[s]
  BY <1>4 DEF IInv, TypeOK
<1>7. Grows
  BY <1>1, <1>4, <1>5, <1>6 DEF Grows
<1> DEFINE copy == [status |-> "signature_en_cours", sr |-> sr]
<1>8. copy \in Row /\ copy.status = "signature_en_cours" /\ copy.sr = sr
  BY DEF Row, Status
<1>9. PICK q \in Request :
        q = [request[h] EXCEPT !.pc = "select", !.then = "idle", !.snap = copy]
  <2> HIDE DEF copy
  <2>1. QED
    BY <1>2, <1>8 DEF Request, Pc
<1>10. /\ request' = [request EXCEPT ![h] = q]
       /\ q.pc = "select" /\ q.snap = copy /\ q.on = c /\ q.op = "sign"
  BY <1>1, <1>2, <1>4, <1>9, <1>c DEF IInv, TypeOK, Request
<1>11. TypeOK'
  <2>1. request' \in [Requests -> Request]
    BY <1>10 DEF IInv, TypeOK
  <2>2. yousign' \in [SignatureRequests ->
                        [state : YouSignState, externalId : Contracts \cup {Null}]]
    BY <1>2, <1>4 DEF IInv, TypeOK, YouSignState
  <2>3. QED
    BY <1>1, <2>1, <2>2 DEF IInv, TypeOK
<1>12. DatabaseOK'
  <2>1. ASSUME NEW d \in Contracts PROVE Backed(d, row[d])'
    <3>1. Backed(d, row[d]) /\ row[d] \in Row
      BY DEF IInv, DatabaseOK, TypeOK
    <3>2. \A r \in Row : Backed(d, r) => Backed(d, r)'
      BY <1>7, BackedGrows DEF IInv
    <3>3. row'[d] = row[d]
      BY <1>1
    <3>4. QED
      BY <3>1, <3>2, <3>3 DEF Backed, Consented
  <2>2. AcceptanceTraceable'
    BY <1>1, <1>4, <1>6 DEF AcceptanceTraceable, IInv, DatabaseOK
  <2>3. \A s \in SignatureRequests : /\ yousign'[s].state = "none" => yousign'[s].externalId = Null
                                    /\ \A d \in Contracts : yousign'[s].externalId = d => wasReady[d]
    BY <1>3, <1>6 DEF IInv, DatabaseOK
  <2>4. QED
    BY <1>1, <2>1, <2>2, <2>3 DEF IInv, DatabaseOK
<1>13. HandlerOK(q)'
  <2>1. wasReady'[c] /\ yousign'[sr].externalId = c
    BY <1>1, <1>3, <1>6
  <2>2. Backed(c, copy)'
    BY <1>8, <2>1 DEF Backed, SignedStatus
  <2>3. q.snap.status \notin PaidStatus
    BY <1>8, <1>10 DEF PaidStatus
  <2>4. Backed(q.on, q.snap)'
    BY <1>10, <2>2
  <2>5. QED
    BY <1>10, <2>1, <2>3, <2>4 DEF HandlerOK
<1>14. QED
  BY <1>7, <1>10, <1>11, <1>12, <1>13, HandlerStep

\* Recording an acceptance keeps the invariant: its request is signed and names the
\* contract it is recorded for.
LEMMA RecordStep ==
    ASSUME IInv, NEW h \in Requests, RecordAcceptance(h)
    PROVE  IInv'
<1> DEFINE copy == WithStatus(Snap(h), "en_attente_paiement")
<1>1. /\ request[h].pc = "record" /\ request[h].op \in {"sign", "poll", "done"}
      /\ UNCHANGED <<row, documentsReady, yousign, deliveries, wasReady, processedEvents, paid>>
  BY DEF RecordAcceptance, At, external
<1>2. request[h] \in Request /\ HandlerOK(request[h]) /\ request[h].on \in Contracts
  BY <1>1, AtWork
<1>3. PICK c \in Contracts, sr \in SignatureRequests, snap \in Row :
        c = request[h].on /\ snap = Snap(h) /\ sr = snap.sr
  BY <1>1, <1>2 DEF HandlerOK, Request, Snap
<1>4. /\ Backed(c, snap) /\ (snap.status \in PaidStatus => paid[c])
      /\ yousign[sr].state = "done"
  BY <1>1, <1>2, <1>3 DEF HandlerOK, Holding, Snap
<1>5. wasReady[c] /\ yousign[sr].externalId = c
  BY <1>3, <1>4, NamedReady
<1>6. yousign[sr] = [state |-> "done", externalId |-> c]
  BY <1>4, <1>5 DEF IInv, TypeOK
<1>7. /\ acceptances' = [acceptances EXCEPT ![c][sr] = @ + 1]
      /\ Goto(h, "select", WithStatus(snap, "en_attente_paiement"))
  BY <1>3 DEF RecordAcceptance, Snap
<1>8. /\ acceptances' \in [Contracts -> [SignatureRequests -> Nat]]
      /\ acceptances'[c][sr] > 0
      /\ \A d \in Contracts, s \in SignatureRequests :
            /\ acceptances[d][s] > 0 => acceptances'[d][s] > 0
            /\ acceptances'[d][s] > 0 => acceptances[d][s] > 0 \/ (d = c /\ s = sr)
  BY <1>7 DEF IInv, TypeOK
<1>9. Grows
  BY <1>1, <1>8 DEF Grows
<1>10. Consented(c)'
  BY <1>1, <1>6, <1>8 DEF Consented
<1>11. PICK marked \in Row :
        /\ marked = WithStatus(snap, "en_attente_paiement")
        /\ marked.status = "en_attente_paiement" /\ marked.sr = sr
  <2>1. "en_attente_paiement" \in Status
    BY DEF Status
  <2>2. WithStatus(snap, "en_attente_paiement") \in Row
    BY <2>1, RowType
  <2>3. /\ WithStatus(snap, "en_attente_paiement").status = "en_attente_paiement"
        /\ WithStatus(snap, "en_attente_paiement").sr = sr
    BY <1>3 DEF WithStatus, Row
  <2>4. QED
    BY <2>2, <2>3
<1>12. PICK q \in Request :
        /\ request' = [request EXCEPT ![h] = q]
        /\ q.pc = "select" /\ q.snap = marked /\ q.on = c /\ q.op = request[h].op
  <2> DEFINE p == Moved(h, "select", marked)
  <2>1. p \in Request
    BY <1>2, RowType DEF Moved, Request, Pc
  <2>2. p.pc = "select" /\ p.snap = marked /\ p.on = c /\ p.op = request[h].op
    BY <1>2, <1>3 DEF Moved, Request, Holding
  <2>3. request' = [request EXCEPT ![h] = p]
    BY <1>7, <1>11 DEF Goto, Moved, IInv, TypeOK
  <2>4. QED
    BY <2>1, <2>2, <2>3
<1>13. TypeOK'
  BY <1>1, <1>8, <1>12 DEF IInv, TypeOK
<1>14. DatabaseOK'
  <2>1. ASSUME NEW d \in Contracts PROVE Backed(d, row[d])'
    <3>1. Backed(d, row[d]) /\ row[d] \in Row /\ row'[d] = row[d]
      BY <1>1 DEF IInv, DatabaseOK, TypeOK
    <3>2. \A r \in Row : Backed(d, r) => Backed(d, r)'
      BY <1>9, BackedGrows DEF IInv
    <3>3. QED
      BY <3>1, <3>2 DEF Backed, Consented
  <2>2. AcceptanceTraceable'
    BY <1>1, <1>6, <1>8 DEF AcceptanceTraceable, IInv, DatabaseOK
  <2>3. QED
    BY <1>1, <2>1, <2>2 DEF IInv, DatabaseOK
<1>15. HandlerOK(q)'
  <2>1. Backed(q.on, q.snap)'
    BY <1>1, <1>5, <1>10, <1>11, <1>12 DEF Backed
  <2>2. wasReady'[q.on] /\ q.snap.status \notin PaidStatus /\ q.op # "pay"
    BY <1>1, <1>5, <1>11, <1>12 DEF PaidStatus
  <2>3. QED
    BY <1>12, <2>1, <2>2 DEF HandlerOK
<1>16. QED
  BY <1>9, <1>12, <1>13, <1>14, <1>15, HandlerStep

\* TypeORM's UPDATE keeps the invariant: every column written comes from a copy or a
\* row that was backed.
LEMMA UpdateStep ==
    ASSUME IInv, NEW h \in Requests, UpdateForSave(h)
    PROVE  IInv'
<1>1. /\ request[h].pc = "update"
      /\ UNCHANGED <<acceptances, documentsReady, yousign, deliveries, wasReady,
                      processedEvents>>
  BY DEF UpdateForSave, external
<1>2. /\ request[h] \in Request /\ HandlerOK(request[h]) /\ request[h].on \in Contracts
      /\ Absent \in Row
  BY <1>1, AtWork
<1>3. PICK c \in Contracts, snap \in Row, base \in Row, old \in Row :
        c = request[h].on /\ snap = request[h].snap /\ base = request[h].base /\ old = row[c]
  BY <1>2 DEF Request, IInv, TypeOK
<1>4. /\ Backed(c, snap) /\ (snap.status \in PaidStatus => paid[c] \/ request[h].op = "pay")
      /\ Backed(c, old) /\ (old.status \in PaidStatus => paid[c])
  BY <1>1, <1>2, <1>3 DEF HandlerOK, Holding, IInv, DatabaseOK
<1>5. PICK new \in Row : new = Merged(old, base, snap)
  BY <1>3, RowType
<1>6. /\ new.status \in {old.status, snap.status} /\ new.sr \in {old.sr, snap.sr}
  BY <1>3, <1>5 DEF Merged
<1>7. Backed(c, new)
  BY <1>4, <1>6 DEF Backed
<1>8. /\ row' = [row EXCEPT ![c] = new]
      /\ paid' = [paid EXCEPT ![c] = @ \/ request[h].op = "pay"]
  BY <1>3, <1>5 DEF UpdateForSave, IInv, TypeOK
<1>9. /\ row' \in [Contracts -> Row]
      /\ \A d \in Contracts : row'[d] = IF d = c THEN new ELSE row[d]
  BY <1>8 DEF IInv, TypeOK
<1>10. /\ paid' \in [Contracts -> BOOLEAN]
       /\ \A d \in Contracts : paid[d] => paid'[d]
       /\ request[h].op = "pay" => paid'[c]
  BY <1>8 DEF IInv, TypeOK
<1>11. Grows
  BY <1>1, <1>10 DEF Grows
<1>12. MayGo(h, request[h].then, Absent)
  <2>1. request[h].then \in {"idle", "synced", "advanced"}
    BY <1>2 DEF Request
  <2>2. request[h].op = "sign" => wasReady[request[h].on]
    BY <1>1, <1>2 DEF HandlerOK
  <2>3. QED
    BY <1>1, <1>2, <2>1, <2>2 DEF MayGo, Holding, Pc
<1>13. PICK q \in Request : HandlerOK(q) /\ request' = [request EXCEPT ![h] = q]
  <2>1. request[h].then \in Pc
    BY <1>12 DEF MayGo
  <2>2. Moved(h, request[h].then, Absent) \in Request /\ HandlerOK(Moved(h, request[h].then, Absent))
    BY <1>2, <1>12, <2>1, MovedOK
  <2>3. request' = [request EXCEPT ![h] = Moved(h, request[h].then, Absent)]
    BY DEF UpdateForSave, Goto, Moved, IInv, TypeOK
  <2>4. PICK p \in Request : p = Moved(h, request[h].then, Absent)
    BY <2>2
  <2>5. HandlerOK(p) /\ request' = [request EXCEPT ![h] = p]
    BY <2>2, <2>3, <2>4
  <2>6. QED
    BY <2>5
<1>14. HandlerOK(q)'
  BY <1>11, <1>13, HandlerGrows DEF IInv
<1>15. TypeOK'
  BY <1>1, <1>9, <1>10, <1>13 DEF IInv, TypeOK
<1>16. DatabaseOK'
  <2>1. ASSUME NEW d \in Contracts
        PROVE  Backed(d, row[d])' /\ (row'[d].status \in PaidStatus => paid'[d])
    <3>1. \A r \in Row : Backed(d, r) => Backed(d, r)'
      BY <1>11, BackedGrows DEF IInv
    <3>2. CASE d = c
      <4>1. row'[d] = new /\ Backed(d, new)'
        BY <1>7, <1>9, <3>1, <3>2
      <4>2. QED
        BY <1>4, <1>6, <1>10, <3>2, <4>1 DEF Backed, Consented
    <3>3. CASE d # c
      <4>1. /\ row'[d] = row[d] /\ row[d] \in Row /\ Backed(d, row[d])
            /\ row[d].status \in PaidStatus => paid[d]
        BY <1>9, <3>3 DEF IInv, TypeOK, DatabaseOK
      <4>2. QED
        BY <1>10, <3>1, <4>1 DEF Backed, Consented
    <3>4. QED
      BY <3>2, <3>3
  <2>2. QED
    BY <1>1, <2>1 DEF IInv, DatabaseOK, AcceptanceTraceable
<1>17. QED
  BY <1>11, <1>13, <1>14, <1>15, <1>16, HandlerStep

\* A webhook is taken up by a free handler, or is skipped.
LEMMA DeliverStep ==
    ASSUME IInv, NEW h \in Requests, NEW r \in Replicas, NEW sr \in SignatureRequests,
           DeliverEvent(h, r, sr)
    PROVE  IInv'
<1> DEFINE op == yousign[sr].state
           q == [Idle EXCEPT !.op = op, !.pc = "find", !.at = r, !.event = sr]
<1>1. /\ op \in {"done", "declined"}
      /\ deliveries' = [deliveries EXCEPT ![sr] = @ + 1]
      /\ UNCHANGED <<row, acceptances, documentsReady, yousign, wasReady, paid>>
  BY DEF DeliverEvent, Dispatched, database
<1>2. Grows
  BY <1>1 DEF Grows
<1>3. DatabaseOK'
  BY <1>1 DEF IInv, DatabaseOK, AcceptanceTraceable, Backed, Consented
<1>4. deliveries' \in [SignatureRequests -> Nat]
  BY <1>1 DEF IInv, TypeOK
<1>5. CASE UNCHANGED <<processedEvents, request>>
  <2>1. TypeOK'
    BY <1>1, <1>4, <1>5 DEF IInv, TypeOK
  <2>2. QED
    BY <1>2, <1>3, <1>5, <2>1, OtherStep
<1>6. CASE /\ processedEvents' = [processedEvents EXCEPT ![r] = @ \cup {sr}]
           /\ request' = [request EXCEPT ![h] = q]
  <2>1. q \in Request
    BY <1>1, RowType DEF Idle, Request, Operation, Pc
  <2>2. q.pc = "find" /\ q.event = sr /\ q.op = op
    BY DEF Idle
  <2>3. PICK p \in Request : p.pc = "find" /\ p.event = sr /\ p.op = op /\ p = q
    BY <2>1, <2>2
  <2>4. request' = [request EXCEPT ![h] = p]
    BY <1>6, <2>3
  <2>5. HandlerOK(p)'
    BY <1>1, <2>3 DEF HandlerOK, Holding
  <2>6. TypeOK'
    BY <1>1, <1>4, <1>6, <2>4 DEF IInv, TypeOK
  <2>7. QED
    BY <1>2, <1>3, <2>4, <2>5, <2>6, HandlerStep
<1>7. QED
  BY <1>5, <1>6 DEF DeliverEvent

\* A user's new contract starts without a signature request.
LEMMA CreateContractStep ==
    ASSUME IInv, NEW c \in Contracts, CreateContract(c)
    PROVE  IInv'
<1> DEFINE new == [status |-> "en_attente_de_justificatif", sr |-> Null]
<1>1. /\ row' = [row EXCEPT ![c] = new]
      /\ UNCHANGED <<acceptances, documentsReady, yousign, deliveries, wasReady,
                      processedEvents, request, paid>>
  BY DEF CreateContract, external
<1>2. new \in Row /\ Backed(c, new)' /\ new.status \notin PaidStatus
  BY DEF Row, Status, Backed, SignedStatus, PaidStatus
<1>3. Grows
  BY <1>1 DEF Grows
<1>4. TypeOK'
  BY <1>1, <1>2 DEF IInv, TypeOK
<1>5. DatabaseOK'
  <2>1. \A d \in Contracts : row'[d] = IF d = c THEN new ELSE row[d]
    BY <1>1 DEF IInv, TypeOK
  <2>2. ASSUME NEW d \in Contracts
        PROVE  Backed(d, row[d])' /\ (row'[d].status \in PaidStatus => paid'[d])
    <3>1. CASE d = c
      BY <1>1, <1>2, <2>1, <3>1 DEF Backed, Consented
    <3>2. CASE d # c
      BY <1>1, <2>1, <3>2 DEF IInv, DatabaseOK, Backed, Consented
    <3>3. QED
      BY <3>1, <3>2
  <2>3. QED
    BY <1>1, <2>2 DEF IInv, DatabaseOK, AcceptanceTraceable
<1>6. QED
  BY <1>1, <1>3, <1>4, <1>5, OtherStep

\* YouSign's request ends; the contract it was made for stays.
LEMMA SignerEndsStep ==
    ASSUME IInv, NEW sr \in SignatureRequests, NEW state \in {"done", "declined", "expired"},
           SignerEnds(sr, state)
    PROVE  IInv'
<1>1. /\ yousign[sr].state = "ongoing"
      /\ yousign' = [yousign EXCEPT ![sr].state = state]
      /\ UNCHANGED <<row, acceptances, documentsReady, deliveries, wasReady,
                      processedEvents, request, paid>>
  BY DEF SignerEnds, database
<1>2. /\ yousign' \in [SignatureRequests ->
                         [state : YouSignState, externalId : Contracts \cup {Null}]]
      /\ \A s \in SignatureRequests :
            /\ yousign'[s].externalId = yousign[s].externalId
            /\ s # sr => yousign'[s] = yousign[s]
            /\ yousign'[s].state = "none" => yousign[s].state = "none"
  BY <1>1 DEF IInv, TypeOK, YouSignState
<1>3. Grows
  BY <1>1, <1>2 DEF Grows
<1>4. TypeOK'
  BY <1>1, <1>2 DEF IInv, TypeOK
<1>5. DatabaseOK'
  <2>1. ASSUME NEW c \in Contracts PROVE Backed(c, row[c])'
    <3>1. Backed(c, row[c]) /\ row[c] \in Row /\ row'[c] = row[c]
      BY <1>1 DEF IInv, DatabaseOK, TypeOK
    <3>2. \A r \in Row : Backed(c, r) => Backed(c, r)'
      BY <1>3, BackedGrows DEF IInv
    <3>3. QED
      BY <3>1, <3>2 DEF Backed, Consented
  <2>2. AcceptanceTraceable'
    BY <1>1, <1>2 DEF IInv, DatabaseOK, AcceptanceTraceable
  <2>3. QED
    BY <1>1, <1>2, <2>1, <2>2 DEF IInv, DatabaseOK
<1>6. QED
  BY <1>1, <1>3, <1>4, <1>5, OtherStep

\* A contract's documents become complete, or incomplete again.
LEMMA DocumentsStep ==
    ASSUME IInv, NEW c \in Contracts, DocumentsChange(c)
    PROVE  IInv'
<1>1. /\ documentsReady' = [documentsReady EXCEPT ![c] = ~@]
      /\ wasReady' = [wasReady EXCEPT ![c] = TRUE]
      /\ UNCHANGED <<row, acceptances, yousign, deliveries, processedEvents, request, paid>>
  BY DEF DocumentsChange, database
<1>2. /\ documentsReady' \in [Contracts -> BOOLEAN]
      /\ wasReady' \in [Contracts -> BOOLEAN]
      /\ \A d \in Contracts : /\ wasReady[d] => wasReady'[d]
                              /\ d = c => wasReady'[d]
                              /\ d # c => documentsReady'[d] = documentsReady[d]
  BY <1>1 DEF IInv, TypeOK
<1>3. Grows
  BY <1>1, <1>2 DEF Grows
<1>4. TypeOK'
  BY <1>1, <1>2 DEF IInv, TypeOK
<1>5. DatabaseOK'
  <2>1. \A d \in Contracts : Backed(d, row[d])'
    BY <1>1, <1>2 DEF IInv, DatabaseOK, Backed, Consented
  <2>2. QED
    BY <1>1, <1>2, <2>1 DEF IInv, DatabaseOK, AcceptanceTraceable
<1>6. QED
  BY <1>1, <1>3, <1>4, <1>5, OtherStep

\* A replica's handlers end where they are.
LEMMA RestartStep ==
    ASSUME IInv, NEW r \in Replicas, Restart(r)
    PROVE  IInv'
<1>1. /\ processedEvents' = [processedEvents EXCEPT ![r] = {}]
      /\ request' = [h \in Requests |-> IF request[h].at = r THEN Idle ELSE request[h]]
      /\ UNCHANGED <<row, acceptances, documentsReady, yousign, deliveries, wasReady, paid>>
  BY DEF Restart, database, external
<1>2. TypeOK'
  BY <1>1, IdleType DEF IInv, TypeOK
<1>3. DatabaseOK'
  BY <1>1 DEF IInv, DatabaseOK, AcceptanceTraceable, Backed, Consented
<1>4. ASSUME NEW h \in Requests PROVE HandlerOK(request[h])'
  <2>1. request'[h] = Idle \/ request'[h] = request[h]
    BY <1>1
  <2>2. HandlerOK(request[h])
    BY DEF IInv
  <2>3. QED
    BY <1>1, <2>1, <2>2, IdleOK DEF HandlerOK, Backed, Consented
<1>5. QED
  BY <1>2, <1>3, <1>4 DEF IInv

-----------------------------------------------------------------------------
(* The inductive invariant *)

\* The empty database satisfies the inductive invariant.
LEMMA InvariantInit == Init => IInv
<1> SUFFICES ASSUME Init PROVE IInv
  OBVIOUS
<1>1. TypeOK
  BY RowType, IdleType DEF Init, TypeOK, YouSignState
<1>2. DatabaseOK
  BY NullAssumption DEF Init, DatabaseOK, AcceptanceTraceable, Backed, Absent, SignedStatus,
     PaidStatus
<1>3. \A h \in Requests : HandlerOK(request[h])
  BY IdleOK DEF Init
<1>4. QED
  BY <1>1, <1>2, <1>3 DEF IInv

\* Every step of handlers, YouSign, users and replicas keeps it.
LEMMA InvariantNext == IInv /\ [Next]_vars => IInv'
<1> SUFFICES ASSUME IInv, [Next]_vars PROVE IInv'
  OBVIOUS
<1>1. ASSUME NEW h \in Requests, Arrival(h) PROVE IInv'
  <2>1. PICK r \in Replicas :
          \/ \E c \in Contracts, op \in DOMAIN Entry : Begin(h, op, c, r)
          \/ \E sr \in SignatureRequests : DeliverEvent(h, r, sr)
    BY <1>1 DEF Arrival, RequestSignature, PollSignature, DocumentDecided, ConfirmPayment,
       ConfirmValidation, Entry
  <2>2. QED
    BY <2>1, BeginStep, DeliverStep
<1>2. ASSUME NEW h \in Requests, Resume(h) PROVE IInv'
  <2>1. CASE SignLoad(h) \/ SignCheckDocuments(h) \/ SignReload(h)
    BY <2>1, SignSteps
  <2>2. CASE SignCreate(h)
    BY <2>2, CreateStep
  <2>3. CASE SyncLoad(h)
    BY <2>3, SyncLoadStep
  <2>4. CASE SyncFetch(h)
    BY <2>4, SyncFetchStep
  <2>5. CASE SyncLookup(h)
    BY <2>5, SyncLookupStep
  <2>6. CASE RecordAcceptance(h)
    BY <2>6, RecordStep
  <2>7. CASE Synced(h) \/ Advanced(h)
    BY <2>7, PlainSteps
  <2>8. CASE GateLoad(h) \/ GateReadUploads(h)
    BY <2>8, GateSteps
  <2>9. CASE PayLoad(h) \/ ValidateLoad(h)
    BY <2>9, PaySteps
  <2>10. CASE FindByRequest(h)
    BY <2>10, FindStep
  <2>11. CASE SelectForSave(h)
    BY <2>11, SelectStep
  <2>12. CASE UpdateForSave(h)
    BY <2>12, UpdateStep
  <2>13. QED
    BY <1>2, <2>1, <2>2, <2>3, <2>4, <2>5, <2>6, <2>7, <2>8, <2>9, <2>10, <2>11, <2>12
       DEF Resume
<1>3. ASSUME Surroundings PROVE IInv'
  <2>1. ASSUME NEW c \in Contracts, CreateContract(c) \/ DocumentsChange(c) PROVE IInv'
    BY <2>1, CreateContractStep, DocumentsStep
  <2>2. ASSUME NEW h \in Requests, SyncFails(h) \/ Fail(h) PROVE IInv'
    BY <2>2, PlainSteps
  <2>3. QED
    BY <1>3, <2>1, <2>2, SignerEndsStep, RestartStep DEF Surroundings
<1>4. ASSUME UNCHANGED vars PROVE IInv'
  BY <1>4 DEF vars, IInv, TypeOK, DatabaseOK, AcceptanceTraceable, HandlerOK, Backed, Consented
<1>5. QED
  BY <1>1, <1>2, <1>3, <1>4 DEF Next

\* The inductive invariant holds of every behaviour.
THEOREM Invariance == Spec => []IInv
  BY InvariantInit, InvariantNext, PTL DEF Spec

\* Every variable keeps its type: in particular no handler saves a row that is not one.
THEOREM TypeCorrect == Spec => []TypeOK
<1>1. IInv => TypeOK
  BY DEF IInv
<1>2. QED
  BY <1>1, Invariance, PTL

\* No contract is put up for payment, paid or activated without a recorded acceptance
\* that its signer gave (webhook, poller and stale saves included).
THEOREM ConsentBeforePayment == Spec => []PaymentNeedsConsent
<1>1. IInv => PaymentNeedsConsent
  BY DEF IInv, DatabaseOK, Backed, PaymentNeedsConsent
<1>2. QED
  BY <1>1, Invariance, PTL

\* Every acceptance recorded names a request of that contract which was signed.
THEOREM Traceability == Spec => []AcceptanceTraceable
<1>1. IInv => AcceptanceTraceable
  BY DEF IInv, DatabaseOK
<1>2. QED
  BY <1>1, Invariance, PTL

\* No contract is under validation or active without a confirmed payment.
THEOREM PaymentBeforeActivation == Spec => []ActivationFollowsPayment
<1>1. IInv => ActivationFollowsPayment
  BY DEF IInv, DatabaseOK, ActivationFollowsPayment, PaidStatus
<1>2. QED
  BY <1>1, Invariance, PTL

\* No signature is requested and no contract leaves the document stage before its
\* documents have been complete.
THEOREM DocumentsFirst == Spec => []SignatureFollowsDocuments
<1>1. IInv => SignatureFollowsDocuments
  BY DEF IInv, DatabaseOK, Backed, SignatureFollowsDocuments
<1>2. QED
  BY <1>1, Invariance, PTL

-----------------------------------------------------------------------------
(* Refinement of ConsentLedger *)

\* A step that writes none of the ledger's tables is a stutter of the ledger.
LEMMA LedgerStutter ==
    ASSUME UNCHANGED <<row, acceptances, yousign, paid>>
    PROVE  UNCHANGED Ledger!vars
BY DEF Ledger!vars, Completed, Consents, Stage

\* Two rows with one status are in one stage, and a stage past "open" is a status past
\* the signature.
LEMMA StageStatus ==
    ASSUME NEW status \in Status
    PROVE  /\ StageOf(status) \in Ledger!Stages
           /\ StageOf(status) # "open" => status \in SignedStatus
           /\ StageOf(status) \in {"validating", "active"} => status \in PaidStatus
BY DEF StageOf, Status, SignedStatus, PaidStatus, Ledger!Stages

\* What the ledger's consents say of one contract.
LEMMA ConsentsOf ==
    ASSUME NEW c \in Contracts
    PROVE  Consented(c) => Consents[c] # {}
BY DEF Consented, Consents

\* A completed signature is the ledger's Complete, for the contract it was made for.
LEMMA SignerEndsLedger ==
    ASSUME IInv, NEW sr \in SignatureRequests, NEW state \in {"done", "declined", "expired"},
           SignerEnds(sr, state)
    PROVE  [Ledger!Next]_(Ledger!vars)
<1>1. /\ yousign[sr].state = "ongoing"
      /\ yousign' = [yousign EXCEPT ![sr].state = state]
      /\ UNCHANGED <<row, acceptances, paid>>
  BY DEF SignerEnds, database
<1>2. /\ Consents' = Consents /\ Stage' = Stage /\ paid' = paid
  BY <1>1 DEF Consents, Stage
<1>3. /\ \A s \in SignatureRequests : s # sr => yousign'[s] = yousign[s]
      /\ yousign'[sr] = [state |-> state, externalId |-> yousign[sr].externalId]
      /\ yousign[sr].externalId \in Contracts \cup {Null}
  BY <1>1 DEF IInv, TypeOK
<1>4. CASE state = "done" /\ yousign[sr].externalId \in Contracts
  <2>1. PICK c \in Contracts : c = yousign[sr].externalId
    BY <1>4
  <2>2. \A d \in Contracts : sr \notin Completed[d]
    BY <1>1 DEF Completed
  <2>3. \A d \in Contracts :
           Completed'[d] = IF d = c THEN Completed[d] \cup {sr} ELSE Completed[d]
    BY <1>3, <1>4, <2>1 DEF Completed
  <2>4. Completed' = [Completed EXCEPT ![c] = @ \cup {sr}]
    BY <2>3 DEF Completed
  <2>5. Ledger!Complete(c, sr)
    BY <1>2, <2>2, <2>4 DEF Ledger!Complete
  <2>6. QED
    BY <2>5 DEF Ledger!Next
<1>5. CASE ~(state = "done" /\ yousign[sr].externalId \in Contracts)
  <2>1. \A d \in Contracts, s \in SignatureRequests :
           yousign'[s] = [state |-> "done", externalId |-> d]
             <=> yousign[s] = [state |-> "done", externalId |-> d]
    <3> SUFFICES ASSUME NEW d \in Contracts
                 PROVE  /\ yousign'[sr] # [state |-> "done", externalId |-> d]
                        /\ yousign[sr] # [state |-> "done", externalId |-> d]
      BY <1>3
    <3>1. [state |-> "done", externalId |-> d].state = "done"
          /\ [state |-> "done", externalId |-> d].externalId = d
      OBVIOUS
    <3>2. yousign'[sr].state = state /\ yousign'[sr].externalId = yousign[sr].externalId
      BY <1>3
    <3>3. QED
      BY <1>1, <1>5, <3>1, <3>2
  <2>2. Completed' = Completed
    BY <2>1 DEF Completed
  <2>3. QED
    BY <1>2, <2>2 DEF Ledger!vars
<1>6. QED
  BY <1>4, <1>5

\* A new signature request completes nothing.
LEMMA CreateLedger ==
    ASSUME IInv, NEW h \in Requests, SignCreate(h)
    PROVE  UNCHANGED Ledger!vars
<1>1. PICK sr \in SignatureRequests :
        /\ yousign[sr].state = "none"
        /\ yousign' = [yousign EXCEPT ![sr] =
                         [state |-> "ongoing", externalId |-> request[h].on]]
  BY DEF SignCreate
<1>2. UNCHANGED <<row, acceptances, paid>>
  BY DEF SignCreate, database
<1>3. yousign'[sr].state = "ongoing" /\ \A s \in SignatureRequests \ {sr} : yousign'[s] = yousign[s]
  BY <1>1 DEF IInv, TypeOK
<1>4. \A d \in Contracts, s \in SignatureRequests :
         yousign'[s] = [state |-> "done", externalId |-> d]
           <=> yousign[s] = [state |-> "done", externalId |-> d]
  BY <1>1, <1>3
<1>5. Completed' = Completed
  BY <1>4 DEF Completed
<1>6. QED
  BY <1>2, <1>5 DEF Ledger!vars, Consents, Stage

\* A recorded acceptance is the ledger's Consent to a completed signature.
LEMMA RecordLedger ==
    ASSUME IInv, NEW h \in Requests, RecordAcceptance(h)
    PROVE  \E c \in Contracts, sr \in SignatureRequests : Ledger!Consent(c, sr)
<1>1. request[h].pc = "record" /\ UNCHANGED <<row, yousign, paid>>
  BY DEF RecordAcceptance, At, external
<1>2. request[h] \in Request /\ HandlerOK(request[h]) /\ request[h].on \in Contracts
  BY <1>1, AtWork
<1>3. PICK c \in Contracts, sr \in SignatureRequests, snap \in Row :
        c = request[h].on /\ snap = request[h].snap /\ sr = snap.sr
  BY <1>1, <1>2 DEF HandlerOK, Request
<1>4. Backed(c, snap) /\ yousign[sr].state = "done"
  BY <1>1, <1>2, <1>3 DEF HandlerOK, Holding
<1>5. yousign[sr] = [state |-> "done", externalId |-> c]
  BY <1>3, <1>4, NamedReady DEF IInv, TypeOK
<1>6. acceptances' = [acceptances EXCEPT ![c][sr] = @ + 1]
  BY <1>3 DEF RecordAcceptance
<1>7. \A d \in Contracts, s \in SignatureRequests :
         acceptances'[d][s] > 0 <=> acceptances[d][s] > 0 \/ (d = c /\ s = sr)
  BY <1>6 DEF IInv, TypeOK
<1>8. \A d \in Contracts :
         Consents'[d] = IF d = c THEN Consents[d] \cup {sr} ELSE Consents[d]
  BY <1>7 DEF Consents
<1>9. Consents' = [Consents EXCEPT ![c] = @ \cup {sr}]
  BY <1>8 DEF Consents
<1>10. sr \in Completed[c] /\ Completed' = Completed /\ Stage' = Stage
  BY <1>1, <1>5 DEF Completed, Stage
<1>11. Ledger!Consent(c, sr)
  BY <1>1, <1>9, <1>10 DEF Ledger!Consent
<1>12. QED
  BY <1>11

\* A save is a payment, a move of the contract to the stage of the saved copy, or a
\* stutter.
LEMMA UpdateLedger ==
    ASSUME IInv, NEW h \in Requests, UpdateForSave(h)
    PROVE  [Ledger!Next]_(Ledger!vars)
<1>1. /\ request[h].pc = "update" /\ UNCHANGED <<acceptances, yousign>>
  BY DEF UpdateForSave, external
<1>2. request[h] \in Request /\ HandlerOK(request[h]) /\ request[h].on \in Contracts
  BY <1>1, AtWork
<1>3. PICK c \in Contracts, snap \in Row, base \in Row, old \in Row :
        c = request[h].on /\ snap = request[h].snap /\ base = request[h].base /\ old = row[c]
  BY <1>2 DEF Request, IInv, TypeOK
<1>4. /\ Backed(c, snap) /\ (snap.status \in PaidStatus => paid[c] \/ request[h].op = "pay")
      /\ request[h].op = "pay" => snap.status = "en_attente_de_validation_documentaire"
      /\ base.status \in PaidStatus => paid[c]
  BY <1>1, <1>2, <1>3 DEF HandlerOK, Holding
<1>5. PICK new \in Row : new = Merged(old, base, snap)
  BY RowType
<1>6. new.status = IF snap.status # base.status THEN snap.status ELSE old.status
  BY <1>5 DEF Merged
<1>7. /\ row' = [row EXCEPT ![c] = new]
      /\ paid' = [paid EXCEPT ![c] = @ \/ request[h].op = "pay"]
  BY <1>3, <1>5 DEF UpdateForSave, IInv, TypeOK
<1>8. Completed' = Completed /\ Consents' = Consents
  BY <1>1 DEF Completed, Consents
<1>9. Stage' = [Stage EXCEPT ![c] = StageOf(new.status)]
  <2>1. \A d \in Contracts : row'[d] = IF d = c THEN new ELSE row[d]
    BY <1>7 DEF IInv, TypeOK
  <2>2. QED
    BY <2>1 DEF Stage
<1>10. Stage[c] = StageOf(old.status)
  BY <1>3 DEF Stage
<1>11. /\ paid[c] \/ request[h].op # "pay" => paid' = paid
       /\ request[h].op = "pay" => paid' = [paid EXCEPT ![c] = TRUE]
  BY <1>7 DEF IInv, TypeOK
<1>12. snap.status \in Status
  BY DEF Row
<1>13. CASE snap.status = base.status
  <2>1. Stage' = Stage
    BY <1>6, <1>9, <1>10, <1>13 DEF Stage
  <2>2. paid' = paid
    BY <1>4, <1>11, <1>13 DEF PaidStatus
  <2>3. QED
    BY <1>8, <2>1, <2>2 DEF Ledger!vars
<1>14. CASE snap.status # base.status /\ request[h].op = "pay"
  <2>1. Consents[c] # {}
    BY <1>4, <1>14, ConsentsOf DEF Backed, SignedStatus
  <2>2. StageOf(new.status) = "validating"
    BY <1>4, <1>6, <1>14 DEF StageOf
  <2>3. Ledger!Pay(c)
    BY <1>8, <1>9, <1>11, <1>14, <2>1, <2>2 DEF Ledger!Pay
  <2>4. QED
    BY <2>3 DEF Ledger!Next
<1>15. CASE snap.status # base.status /\ request[h].op # "pay"
  <2>1. /\ StageOf(snap.status) \in Ledger!Stages
        /\ StageOf(snap.status) # "open" => snap.status \in SignedStatus
        /\ StageOf(snap.status) \in {"validating", "active"} => snap.status \in PaidStatus
    BY <1>12, StageStatus
  <2>2. StageOf(snap.status) # "open" => Consents[c] # {}
    BY <1>4, <2>1, ConsentsOf DEF Backed
  <2>3. StageOf(snap.status) \in {"validating", "active"} => paid[c]
    BY <1>4, <1>15, <2>1
  <2>4. Ledger!Move(c, StageOf(snap.status))
    BY <1>6, <1>8, <1>9, <1>11, <1>15, <2>2, <2>3 DEF Ledger!Move
  <2>5. QED
    BY <2>1, <2>4 DEF Ledger!Next
<1>16. QED
  BY <1>13, <1>14, <1>15

\* A contract that is created starts in the stage "open", where it was.
LEMMA CreateContractLedger ==
    ASSUME IInv, NEW c \in Contracts, CreateContract(c)
    PROVE  UNCHANGED Ledger!vars
<1>1. /\ row[c].status = "absent" /\ UNCHANGED <<acceptances, yousign, paid>>
      /\ \A d \in Contracts :
            row'[d] = IF d = c THEN [status |-> "en_attente_de_justificatif", sr |-> Null]
                      ELSE row[d]
  BY DEF CreateContract, external, IInv, TypeOK
<1>2. \A d \in Contracts : StageOf(row'[d].status) = StageOf(row[d].status)
  BY <1>1 DEF StageOf
<1>3. Stage' = Stage
  BY <1>2 DEF Stage
<1>4. QED
  BY <1>1, <1>3 DEF Ledger!vars, Completed, Consents

\* The handlers start with an empty ledger.
LEMMA LedgerInit == Init => Ledger!Init
<1> SUFFICES ASSUME Init PROVE Ledger!Init
  OBVIOUS
<1>1. \A c \in Contracts : Completed[c] = {} /\ Consents[c] = {} /\ Stage[c] = "open"
  BY DEF Init, Completed, Consents, Stage, StageOf, Absent
<1>2. Completed = [c \in Contracts |-> {}]
  BY <1>1 DEF Completed
<1>3. Consents = [c \in Contracts |-> {}]
  BY <1>1 DEF Consents
<1>4. Stage = [c \in Contracts |-> "open"]
  BY <1>1 DEF Stage
<1>5. QED
  BY <1>2, <1>3, <1>4 DEF Ledger!Init, Init

\* Every step of the detailed specification is a step or a stutter of the ledger.
LEMMA LedgerNext == IInv /\ [Next]_vars => [Ledger!Next]_(Ledger!vars)
<1> SUFFICES ASSUME IInv, [Next]_vars PROVE [Ledger!Next]_(Ledger!vars)
  OBVIOUS
<1>q. UNCHANGED <<row, acceptances, yousign, paid>> => [Ledger!Next]_(Ledger!vars)
  BY LedgerStutter
<1>1. ASSUME NEW h \in Requests, Arrival(h) PROVE [Ledger!Next]_(Ledger!vars)
  BY <1>1, <1>q DEF Arrival, RequestSignature, PollSignature, DocumentDecided, ConfirmPayment,
     ConfirmValidation, Begin, DeliverEvent, Local, database, external
<1>2. ASSUME NEW h \in Requests, Resume(h) PROVE [Ledger!Next]_(Ledger!vars)
  <2>1. CASE SignCreate(h)
    BY <2>1, CreateLedger
  <2>2. CASE RecordAcceptance(h)
    BY <2>2, RecordLedger DEF Ledger!Next
  <2>3. CASE UpdateForSave(h)
    BY <2>3, UpdateLedger
  <2>4. CASE Local
    BY <2>4, <1>q DEF Local, database, external
  <2>5. QED
    BY <1>2, <2>1, <2>2, <2>3, <2>4 DEF Resume, SignLoad, SignCheckDocuments, SignReload,
       SyncLoad, SyncFetch, SyncLookup, Synced, GateLoad, GateReadUploads, Advanced, PayLoad,
       ValidateLoad, FindByRequest, SelectForSave
<1>3. ASSUME Surroundings PROVE [Ledger!Next]_(Ledger!vars)
  <2>1. ASSUME NEW c \in Contracts, CreateContract(c) PROVE [Ledger!Next]_(Ledger!vars)
    BY <2>1, CreateContractLedger
  <2>2. ASSUME NEW c \in Contracts, DocumentsChange(c) PROVE [Ledger!Next]_(Ledger!vars)
    BY <2>2, <1>q DEF DocumentsChange, database
  <2>3. ASSUME NEW h \in Requests, SyncFails(h) \/ Fail(h) PROVE [Ledger!Next]_(Ledger!vars)
    BY <2>3, <1>q DEF SyncFails, Fail, Local, database, external
  <2>4. ASSUME NEW r \in Replicas, Restart(r) PROVE [Ledger!Next]_(Ledger!vars)
    BY <2>4, <1>q DEF Restart, database, external
  <2>5. QED
    BY <1>3, <2>1, <2>2, <2>3, <2>4, SignerEndsLedger DEF Surroundings
<1>4. ASSUME UNCHANGED vars PROVE [Ledger!Next]_(Ledger!vars)
  BY <1>4, <1>q DEF vars
<1>5. QED
  BY <1>1, <1>2, <1>3, <1>4 DEF Next

\* The handlers, replicas, webhooks and pollers together implement the consent ledger:
\* no interleaving, failure, repetition or restart makes them do what it forbids.
THEOREM Refinement == Spec => ImplementsLedger
<1>1. IInv /\ [Next]_vars => [Ledger!Next]_(Ledger!vars)
  BY LedgerNext
<1>2. QED
  BY <1>1, LedgerInit, Invariance, PTL DEF Spec, ImplementsLedger, Ledger!Spec

-----------------------------------------------------------------------------
(* A deployment that handles one request at a time *)

OneRequest == \A g, h \in Requests : g = h

\* The request has ended without a signature.
Closed(sr) == yousign[sr].state \in REVERT_STATUSES

\* A contract names no request before its first signature is asked for, and while it
\* waits for a signature to be asked for again the request it names is closed.
Tidy(r) ==
    /\ r.status \in {"absent", "en_attente_de_justificatif"} => r.sr = Null
    /\ r.status = "en_attente_de_signature_payeur" /\ r.sr # Null => Closed(r.sr)

\* The contract can name another request without dropping a signed one.
Free(c) == row[c].sr # Null => Closed(row[c].sr)

\* Where the handler's copy is the row as it read it.
AsRead == {"ready", "fetch", "lookup", "record", "uploads", "create"}

\* What the only handler has read of its contract stays so until it writes.
AloneOK(q) ==
    /\ q.pc \notin {"idle", "find"} => row[q.on].status # "absent"
    /\ q.pc = "find" /\ q.op = "declined" => Closed(q.event)
    /\ q.pc \in {"reload", "create"} => row[q.on].status = "en_attente_de_signature_payeur"
    /\ q.pc = "uploads" => row[q.on].status = "en_attente_de_justificatif"
    /\ q.pc \in AsRead => q.snap = row[q.on]
    /\ q.pc \in {"select", "update"} =>
          /\ q.snap.status # "absent" /\ Tidy(q.snap)
          /\ q.snap.sr = row[q.on].sr \/ Free(q.on)
    /\ q.pc = "update" => q.base = row[q.on]

Alone ==
    /\ \A c \in Contracts : Tidy(row[c])
    /\ \A h \in Requests : AloneOK(request[h])

\* Rows stay tidy while nothing reopens a request.
LEMMA TidyStays ==
    ASSUME TypeOK, Alone, UNCHANGED row,
           \A sr \in SignatureRequests : Closed(sr) => Closed(sr)'
    PROVE  \A c \in Contracts : Tidy(row[c])'
<1> SUFFICES ASSUME NEW c \in Contracts PROVE Tidy(row[c])'
  OBVIOUS
<1>1. PICK r \in Row : r = row[c] /\ r = row'[c] /\ Tidy(r)
  BY DEF Alone, TypeOK
<1>2. Tidy(r)'
  BY <1>1 DEF Tidy, Row
<1>3. QED
  BY <1>1, <1>2 DEF Tidy

\* The only handler moves to q.
LEMMA AloneStep ==
    ASSUME OneRequest, IInv, Alone, UNCHANGED row, NEW h \in Requests, NEW q \in Request,
           request' = [request EXCEPT ![h] = q], AloneOK(q)',
           \A sr \in SignatureRequests : Closed(sr) => Closed(sr)'
    PROVE  Alone'
<1>1. \A g \in Requests : request'[g] = q
  BY DEF OneRequest, IInv, TypeOK
<1>2. \A g \in Requests : AloneOK(request[g])'
  BY <1>1 DEF AloneOK, Tidy, Free, Closed
<1>3. QED
  BY <1>2, TidyStays DEF Alone, IInv

\* The same, where nothing but the handler moves.
LEMMA AloneLocal ==
    ASSUME OneRequest, IInv, Alone, Local, NEW h \in Requests, NEW q \in Request,
           request' = [request EXCEPT ![h] = q], AloneOK(q)
    PROVE  Alone'
<1>1. UNCHANGED <<row, yousign>>
  BY DEF Local, database, external
<1>2. AloneOK(q)' /\ \A sr \in SignatureRequests : Closed(sr) => Closed(sr)'
  BY <1>1 DEF AloneOK, Tidy, Free, Closed
<1>3. QED
  BY <1>1, <1>2, AloneStep

\* Where the only handler may go on to with the copy snap.
MayGoAlone(h, pc, snap) ==
    LET c == request[h].on IN
    /\ pc \in Pc \ {"find", "update"} /\ snap \in Row
    /\ pc \in {"reload", "create"} => row[c].status = "en_attente_de_signature_payeur"
    /\ pc = "uploads" => row[c].status = "en_attente_de_justificatif"
    /\ pc \in AsRead => snap = row[c]
    /\ pc = "select" => /\ snap.status # "absent" /\ Tidy(snap)
                        /\ snap.sr = row[c].sr \/ Free(c)

LEMMA MovedAlone ==
    ASSUME IInv, Alone, NEW h \in Requests, NEW pc, NEW snap, MayGoAlone(h, pc, snap),
           request[h].pc \notin {"idle", "find"}
    PROVE  Moved(h, pc, snap) \in Request /\ AloneOK(Moved(h, pc, snap))
<1> DEFINE q == Moved(h, pc, snap)
<1>1. request[h] \in Request /\ pc \in Pc \ {"find", "update"} /\ snap \in Row
  BY DEF IInv, TypeOK, MayGoAlone
<1>2. q \in Request
  BY <1>1, RowType, IdleType DEF Moved, Request
<1>3. CASE pc = "idle"
  <2>1. AloneOK(Idle)
    BY DEF AloneOK, Idle, AsRead
  <2>2. QED
    BY <1>2, <1>3, <2>1 DEF Moved
<1>4. CASE pc # "idle"
  <2>1. q.pc = pc /\ q.on = request[h].on /\ (pc \in Holding => q.snap = snap)
    BY <1>1, <1>4 DEF Moved, Request
  <2>2. row[q.on].status # "absent"
    BY <2>1 DEF Alone, AloneOK
  <2>3. AloneOK(q)
    <3> HIDE DEF q
    <3>1. pc \in AsRead \cup {"select"} => q.snap = snap
      BY <2>1 DEF AsRead, Holding
    <3>2. pc = "select" => Tidy(q.snap)
      BY <3>1 DEF MayGoAlone
    <3>3. QED
      BY <1>1, <2>1, <2>2, <3>1, <3>2 DEF AloneOK, MayGoAlone
  <2>4. QED
    BY <1>2, <2>3
<1>5. QED
  BY <1>3, <1>4

\* A step that only moves its handler.
LEMMA AloneGoto ==
    ASSUME OneRequest, IInv, Alone, Local, NEW h \in Requests, NEW pc, NEW snap,
           Goto(h, pc, snap), MayGoAlone(h, pc, snap), request[h].pc \notin {"idle", "find"}
    PROVE  Alone'
<1>1. PICK q \in Request : q = Moved(h, pc, snap) /\ AloneOK(q)
  BY MovedAlone
<1>2. request' = [request EXCEPT ![h] = q]
  BY <1>1 DEF Goto, Moved, IInv, TypeOK
<1>3. QED
  BY <1>1, <1>2, AloneLocal

\* A handler that ends.
LEMMA AloneEnds ==
    ASSUME OneRequest, IInv, Alone, Local, NEW h \in Requests, Goto(h, "idle", Absent)
    PROVE  Alone'
<1>1. request' = [request EXCEPT ![h] = Idle] /\ Idle \in Request
  BY IdleType DEF Goto
<1>2. AloneOK(Idle)
  BY DEF AloneOK, Idle, AsRead
<1>3. QED
  BY <1>1, <1>2, AloneLocal

\* What the only handler knows of its contract.
LEMMA AloneAtWork ==
    ASSUME IInv, Alone, NEW h \in Requests, request[h].pc \notin {"idle", "find"}
    PROVE  /\ request[h] \in Request /\ request[h].on \in Contracts /\ AloneOK(request[h])
           /\ Snap(h) \in Row /\ Found(h) \in Row /\ Absent \in Row
           /\ Found(h).status # "absent" /\ Tidy(Found(h))
           /\ MayGoAlone(h, "idle", Absent)
<1>1. /\ request[h] \in Request /\ request[h].on \in Contracts
      /\ Snap(h) \in Row /\ Found(h) \in Row /\ Absent \in Row
  BY AtWork
<1>2. AloneOK(request[h]) /\ Found(h).status # "absent"
  BY DEF Alone, AloneOK, Found
<1>3. Tidy(Found(h))
  BY <1>1 DEF Alone, Found
<1>4. MayGoAlone(h, "idle", Absent)
  BY <1>1 DEF MayGoAlone, Pc, AsRead
<1>5. QED
  BY <1>1, <1>2, <1>3, <1>4

\* Where the status checks on the contract as it is lead.
LEMMA AfterChecksAlone ==
    ASSUME IInv, Alone, NEW h \in Requests, request[h].pc \notin {"idle", "find"}
    PROVE  MayGoAlone(h, AfterChecks(Found(h).status), Absent)
<1>1. /\ AfterChecks(Found(h).status) \in {"reload", "gate", "idle"}
      /\ AfterChecks(Found(h).status) = "reload"
           => Found(h).status = "en_attente_de_signature_payeur"
  BY DEF AfterChecks
<1>2. QED
  BY <1>1, RowType DEF MayGoAlone, Pc, AsRead, Found

\* The reads of SignContractUseCase.
LEMMA SignAlone ==
    ASSUME OneRequest, IInv, Alone, NEW h \in Requests,
           SignLoad(h) \/ SignCheckDocuments(h) \/ SignReload(h) \/ Advanced(h)
    PROVE  Alone'
<1>1. request[h].pc \in {"load", "ready", "reload", "advanced"} /\ Local
  BY DEF SignLoad, SignCheckDocuments, SignReload, Advanced, At
<1>2. /\ AloneOK(request[h]) /\ Found(h) \in Row /\ Absent \in Row
      /\ MayGoAlone(h, "idle", Absent)
  BY <1>1, AloneAtWork
<1>3. CASE SignLoad(h)
  <2>1. MayGoAlone(h, "ready", Found(h))
    BY <1>2 DEF MayGoAlone, Pc, AsRead, Found
  <2>2. QED
    BY <1>1, <1>3, <2>1, AloneGoto DEF SignLoad
<1>4. CASE SignReload(h)
  <2>1. MayGoAlone(h, "create", Found(h))
    BY <1>2, <1>4 DEF MayGoAlone, Pc, AsRead, Found, AloneOK, SignReload, At
  <2>2. QED
    BY <1>1, <1>4, <2>1, AloneGoto DEF SignReload
<1>5. CASE SignCheckDocuments(h)
  <2>1. Snap(h) = Found(h)
    BY <1>2, <1>5 DEF AloneOK, AsRead, Snap, Found, SignCheckDocuments, At
  <2>2. MayGoAlone(h, AfterChecks(Found(h).status), Absent)
    BY <1>1, AfterChecksAlone
  <2>3. MayGoAlone(h, "sync", Absent)
    BY <1>2 DEF MayGoAlone, Pc, AsRead
  <2>4. MayGoAlone(h, AfterDocuments(Snap(h).status), Absent)
    BY <2>1, <2>2, <2>3 DEF AfterDocuments
  <2>5. QED
    BY <1>1, <1>2, <1>5, <2>4, AloneGoto DEF SignCheckDocuments
<1>6. CASE Advanced(h)
  <2>1. Found(h).status = "en_attente_de_signature_payeur" => MayGoAlone(h, "reload", Absent)
    BY <1>2 DEF MayGoAlone, Pc, AsRead, Found
  <2>2. QED
    BY <1>1, <1>2, <1>6, <2>1, AloneGoto DEF Advanced
<1>7. QED
  BY <1>3, <1>4, <1>5, <1>6

\* A step that sets the pc, the return address and the copy of its handler.
LEMMA AloneHolds ==
    ASSUME OneRequest, IInv, Alone, Local, NEW h \in Requests,
           request[h].pc \notin {"idle", "find"}, NEW pc \in Holding \ {"update"},
           NEW then \in {"idle", "synced", "advanced"}, NEW snap,
           request' = [request EXCEPT ![h].pc = pc, ![h].then = then, ![h].snap = snap],
           MayGoAlone(h, pc, snap)
    PROVE  Alone'
<1>1. /\ request[h] \in Request /\ snap \in Row /\ pc \in Pc
      /\ row[request[h].on].status # "absent"
  BY AloneAtWork DEF MayGoAlone, Found
<1>2. PICK q \in Request : q = [request[h] EXCEPT !.pc = pc, !.then = then, !.snap = snap]
  BY <1>1 DEF Request
<1>3. request' = [request EXCEPT ![h] = q]
  BY <1>2 DEF IInv, TypeOK
<1>4. q.pc = pc /\ q.on = request[h].on /\ q.snap = snap /\ pc # "find" /\ pc # "update"
  BY <1>1, <1>2 DEF Request, Holding
<1>5. Tidy(snap) => Tidy(q.snap)
  BY <1>4
<1>6. AloneOK(q)
  BY <1>1, <1>4, <1>5 DEF AloneOK, MayGoAlone
<1>7. QED
  BY <1>3, <1>6, AloneLocal

\* A copy of a row without the status "absent" that may be saved: its request is the
\* row's, and is closed if the copy waits for a signature.
LEMMA SaveAlone ==
    ASSUME IInv, NEW h \in Requests, NEW r \in Row, r.sr = Found(h).sr, NEW s \in Status,
           s \notin {"absent", "en_attente_de_justificatif"},
           s = "en_attente_de_signature_payeur" /\ r.sr # Null => Closed(r.sr)
    PROVE  MayGoAlone(h, "select", WithStatus(r, s))
<1>1. /\ WithStatus(r, s) \in Row /\ WithStatus(r, s).status = s /\ WithStatus(r, s).sr = r.sr
  BY RowType DEF WithStatus, Row
<1>2. PICK p \in Row : p = WithStatus(r, s)
  BY <1>1
<1>3. Tidy(p)
  BY <1>1, <1>2 DEF Tidy
<1>4. MayGoAlone(h, "select", p)
  BY <1>1, <1>2, <1>3 DEF MayGoAlone, Pc, AsRead, Found
<1>5. QED
  BY <1>2, <1>4

\* The steps of syncIfPending.
LEMMA SyncAlone ==
    ASSUME OneRequest, IInv, Alone, NEW h \in Requests,
           SyncLoad(h) \/ SyncFetch(h) \/ SyncLookup(h) \/ Synced(h) \/ SyncFails(h)
    PROVE  Alone'
<1>1. /\ request[h].pc \in {"sync", "fetch", "lookup", "record", "select", "update", "synced"}
      /\ Local
  BY DEF SyncLoad, SyncFetch, SyncLookup, Synced, SyncFails, At
<1>2. /\ AloneOK(request[h]) /\ Snap(h) \in Row /\ Found(h) \in Row /\ Absent \in Row
      /\ Found(h).status # "absent" /\ Tidy(Found(h)) /\ MayGoAlone(h, "idle", Absent)
  BY <1>1, AloneAtWork
<1>3. request[h].pc \in {"fetch", "lookup"} => Snap(h) = Found(h)
  BY <1>2 DEF AloneOK, AsRead, Snap, Found
<1>4. MayGoAlone(h, AfterChecks(Found(h).status), Absent)
  BY <1>1, AfterChecksAlone
<1>5. CASE SyncLoad(h)
  <2>1. MayGoAlone(h, "fetch", Found(h))
    BY <1>2 DEF MayGoAlone, Pc, AsRead, Found
  <2>2. CASE Found(h).status = "signature_en_cours" /\ Found(h).sr # Null
    <3>1. request' = [request EXCEPT ![h].pc = "fetch", ![h].then = "synced",
                                     ![h].snap = Found(h)]
      BY <1>5, <2>2 DEF SyncLoad, IInv, TypeOK, Request
    <3>2. QED
      BY <1>1, <2>1, <3>1, AloneHolds DEF Holding
  <2>3. CASE ~(Found(h).status = "signature_en_cours" /\ Found(h).sr # Null)
    BY <1>1, <1>2, <1>4, <1>5, <2>3, AloneGoto DEF SyncLoad
  <2>4. QED
    BY <2>2, <2>3
<1>6. CASE SyncFetch(h)
  <2> DEFINE state == yousign[Snap(h).sr].state
             reverted == WithStatus(Snap(h), "en_attente_de_signature_payeur")
  <2>1. Snap(h) = Found(h)
    BY <1>3, <1>6 DEF SyncFetch, At
  <2>2. MayGoAlone(h, "lookup", Snap(h))
    BY <1>2, <2>1 DEF MayGoAlone, Pc, AsRead, Found
  <2>3. MayGoAlone(h, "select", Snap(h))
    BY <1>2, <2>1 DEF MayGoAlone, Pc, AsRead, Found
  <2>4. state \in REVERT_STATUSES => MayGoAlone(h, "select", reverted)
    BY <1>2, <2>1, SaveAlone DEF Status, Closed
  <2>5. QED
    BY <1>1, <1>6, <2>2, <2>3, <2>4, AloneGoto DEF SyncFetch
<1>7. CASE SyncLookup(h)
  <2>1. Snap(h) = Found(h)
    BY <1>3, <1>7 DEF SyncLookup, At
  <2>2. MayGoAlone(h, "record", Snap(h))
    BY <1>2, <2>1 DEF MayGoAlone, Pc, AsRead, Found
  <2>3. MayGoAlone(h, "select", WithStatus(Snap(h), "en_attente_paiement"))
    BY <1>2, <2>1, SaveAlone DEF Status
  <2>4. QED
    BY <1>1, <1>7, <2>2, <2>3, AloneGoto DEF SyncLookup
<1>8. CASE Synced(h)
  BY <1>1, <1>2, <1>4, <1>8, AloneGoto DEF Synced
<1>9. CASE SyncFails(h)
  <2>1. MayGoAlone(h, "synced", Absent)
    BY <1>2 DEF MayGoAlone, Pc, AsRead
  <2>2. QED
    BY <1>1, <1>9, <2>1, AloneGoto DEF SyncFails
<1>10. QED
  BY <1>5, <1>6, <1>7, <1>8, <1>9

\* The steps of tryAdvanceContract.
LEMMA GateAlone ==
    ASSUME OneRequest, IInv, Alone, NEW h \in Requests, GateLoad(h) \/ GateReadUploads(h)
    PROVE  Alone'
<1>1. request[h].pc \in {"gate", "uploads"} /\ Local
  BY DEF GateLoad, GateReadUploads, At
<1>2. /\ AloneOK(request[h]) /\ request[h] \in Request
      /\ Snap(h) \in Row /\ Found(h) \in Row /\ Absent \in Row
      /\ Found(h).status # "absent" /\ Tidy(Found(h))
  BY <1>1, AloneAtWork
<1>3. MayGoAlone(h, AfterGate(h), Absent) /\ AfterGate(h) \in {"idle", "advanced"}
  BY <1>2 DEF MayGoAlone, Pc, AsRead, AfterGate
<1>4. CASE GateLoad(h)
  <2>1. Found(h).status = "en_attente_de_justificatif" => MayGoAlone(h, "uploads", Found(h))
    BY <1>2 DEF MayGoAlone, Pc, AsRead, Found
  <2>2. QED
    BY <1>1, <1>3, <1>4, <2>1, AloneGoto DEF GateLoad
<1>5. CASE GateReadUploads(h)
  <2>1. Snap(h) = Found(h) /\ Found(h).status = "en_attente_de_justificatif"
    BY <1>2, <1>5 DEF AloneOK, AsRead, Snap, Found, GateReadUploads, At
  <2>2. Found(h).sr = Null
    BY <1>2, <2>1 DEF Tidy
  <2> DEFINE advanced == WithStatus(Snap(h), "en_attente_de_signature_payeur")
  <2>3. MayGoAlone(h, "select", advanced)
    BY <1>2, <2>1, <2>2, SaveAlone DEF Status
  <2>4. CASE documentsReady[request[h].on]
    <3>1. request' = [request EXCEPT ![h].pc = "select", ![h].then = AfterGate(h),
                                     ![h].snap = advanced]
      BY <1>2, <1>5, <2>4 DEF GateReadUploads, IInv, TypeOK, Request, Snap
    <3>2. QED
      <4> HIDE DEF advanced
      <4>1. QED
        BY <1>1, <1>3, <2>3, <3>1, AloneHolds DEF Holding
  <2>5. CASE ~documentsReady[request[h].on]
    BY <1>1, <1>3, <1>5, <2>5, AloneGoto DEF GateReadUploads
  <2>6. QED
    BY <2>4, <2>5
<1>6. QED
  BY <1>4, <1>5

\* The reads of the payment and validation use cases.
LEMMA PayAlone ==
    ASSUME OneRequest, IInv, Alone, NEW h \in Requests, PayLoad(h) \/ ValidateLoad(h)
    PROVE  Alone'
<1>1. request[h].pc = "load" /\ Local
  BY DEF PayLoad, ValidateLoad, At
<1>2. Found(h) \in Row /\ MayGoAlone(h, "idle", Absent)
  BY <1>1, AloneAtWork
<1>3. /\ MayGoAlone(h, "select", WithStatus(Found(h), "en_attente_de_validation_documentaire"))
      /\ MayGoAlone(h, "select", WithStatus(Found(h), "actif"))
  BY <1>2, SaveAlone DEF Status
<1>4. QED
  BY <1>1, <1>2, <1>3, AloneGoto DEF PayLoad, ValidateLoad

\* TypeORM's SELECT.
LEMMA SelectAlone ==
    ASSUME OneRequest, IInv, Alone, NEW h \in Requests, SelectForSave(h)
    PROVE  Alone'
<1>1. request[h].pc = "select" /\ Local
  BY DEF SelectForSave
<1>2. AloneOK(request[h]) /\ request[h] \in Request /\ Found(h) \in Row
  BY <1>1, AloneAtWork
<1>3. PICK q \in Request : q = [request[h] EXCEPT !.pc = "update", !.base = Found(h)]
  BY <1>2 DEF Request, Pc
<1>4. request' = [request EXCEPT ![h] = q]
  BY <1>3 DEF SelectForSave, IInv, TypeOK
<1>5. /\ q.pc = "update" /\ q.on = request[h].on /\ q.snap = request[h].snap
      /\ q.base = row[q.on]
  BY <1>2, <1>3 DEF Request, Found
<1>6. Tidy(request[h].snap) => Tidy(q.snap)
  BY <1>5
<1>7. AloneOK(q)
  BY <1>1, <1>2, <1>5, <1>6 DEF AloneOK, AsRead
<1>8. QED
  BY <1>1, <1>4, <1>7, AloneLocal

\* A webhook handler that looks for its contract.
LEMMA FindAlone ==
    ASSUME OneRequest, IInv, Alone, NEW h \in Requests, FindByRequest(h)
    PROVE  Alone'
<1>1. /\ request[h].pc = "find" /\ request[h].op \in {"done", "declined"} /\ Local
      /\ request[h] \in Request /\ HandlerOK(request[h]) /\ AloneOK(request[h])
  BY DEF FindByRequest, At, IInv, TypeOK, Alone
<1>2. CASE Goto(h, "idle", Absent)
  BY <1>1, <1>2, AloneEnds
<1>3. ASSUME NEW c \in Named(request[h].event),
             request' = [request EXCEPT ![h].on = c,
               ![h].pc = IF request[h].op = "done" THEN "record" ELSE "select",
               ![h].snap = IF request[h].op = "done" THEN row[c]
                           ELSE WithStatus(row[c], "en_attente_de_signature_payeur")]
      PROVE  Alone'
  <2>1. /\ c \in Contracts /\ row[c] \in Row /\ row[c].sr = request[h].event
        /\ row[c].sr # Null /\ Tidy(row[c])
    BY <1>1, <1>3, NullAssumption DEF Named, IInv, TypeOK, HandlerOK, Alone
  <2>2. row[c].status # "absent"
    BY <2>1 DEF Tidy
  <2>3. PICK copy \in Row :
          copy = IF request[h].op = "done" THEN row[c]
                 ELSE WithStatus(row[c], "en_attente_de_signature_payeur")
    BY <2>1, RowType DEF Status
  <2>4. PICK pc \in {"record", "select"} :
          pc = IF request[h].op = "done" THEN "record" ELSE "select"
    OBVIOUS
  <2>5. PICK q \in Request : q = [request[h] EXCEPT !.on = c, !.pc = pc, !.snap = copy]
    BY <1>1, <2>1 DEF Request, Pc
  <2>6. request' = [request EXCEPT ![h] = q]
    BY <1>3, <2>3, <2>4, <2>5 DEF IInv, TypeOK
  <2>7. q.on = c /\ q.pc = pc /\ q.snap = copy
    BY <1>1, <2>5 DEF Request
  <2>8. pc = "record" => copy = row[c]
    BY <1>1, <2>3, <2>4
  <2>9. pc = "select" => /\ copy.status = "en_attente_de_signature_payeur"
                         /\ copy.sr = row[c].sr /\ Closed(copy.sr)
    BY <1>1, <2>1, <2>3, <2>4 DEF AloneOK, WithStatus, Row
  <2>10. pc = "select" => Tidy(q.snap)
    BY <2>7, <2>9 DEF Tidy
  <2>11. AloneOK(q)
    BY <2>2, <2>4, <2>7, <2>8, <2>9, <2>10 DEF AloneOK, AsRead
  <2>12. QED
    BY <1>1, <2>6, <2>11, AloneLocal
<1>4. QED
  BY <1>2, <1>3 DEF FindByRequest

\* A request that arrives has read nothing.
LEMMA BeginAlone ==
    ASSUME OneRequest, IInv, Alone, NEW h \in Requests, NEW op \in DOMAIN Entry,
           NEW c \in Contracts, NEW r \in Replicas, Begin(h, op, c, r)
    PROVE  Alone'
<1>1. op \in Operation /\ Entry[op] \in {"load", "sync", "gate"}
  BY DEF Entry, Operation
<1>2. PICK q \in Request : q = [Idle EXCEPT !.op = op, !.pc = Entry[op], !.at = r, !.on = c]
  BY <1>1, IdleType DEF Request, Pc
<1>3. q.pc \in {"load", "sync", "gate"} /\ q.on = c
  BY <1>1, <1>2 DEF Idle
<1>4. AloneOK(q)
  BY <1>3 DEF AloneOK, AsRead, Begin
<1>5. QED
  BY <1>2, <1>4, AloneLocal DEF Begin

\* A new signature request is asked for where no signed one is named.
LEMMA CreateAlone ==
    ASSUME OneRequest, IInv, Alone, NEW h \in Requests, SignCreate(h)
    PROVE  Alone'
<1>1. request[h].pc = "create" /\ UNCHANGED row
  BY DEF SignCreate, At, database
<1>2. /\ AloneOK(request[h]) /\ request[h] \in Request /\ request[h].on \in Contracts
      /\ Found(h).status # "absent" /\ Tidy(Found(h))
  BY <1>1, AloneAtWork
<1>3. PICK c \in Contracts : c = request[h].on
  BY <1>2
<1>4. row[c].status = "en_attente_de_signature_payeur" /\ Free(c)
  BY <1>1, <1>2, <1>3 DEF AloneOK, Tidy, Free, Found
<1>5. PICK sr \in SignatureRequests :
        /\ yousign[sr].state = "none"
        /\ yousign' = [yousign EXCEPT ![sr] = [state |-> "ongoing", externalId |-> c]]
        /\ request' = [request EXCEPT
                         ![h].pc = "select", ![h].then = "idle",
                         ![h].snap = [status |-> "signature_en_cours", sr |-> sr]]
  BY <1>3 DEF SignCreate
<1>6. \A s \in SignatureRequests : Closed(s) => Closed(s)'
  BY <1>5 DEF Closed, REVERT_STATUSES, IInv, TypeOK
<1>7. Free(c)'
  BY <1>1, <1>4, <1>6 DEF Free, IInv, TypeOK, Row
<1>8. PICK copy \in Row : copy = [status |-> "signature_en_cours", sr |-> sr]
  BY DEF Row, Status
<1>9. PICK q \in Request :
        q = [request[h] EXCEPT !.pc = "select", !.then = "idle", !.snap = copy]
  BY <1>2 DEF Request, Pc
<1>10. request' = [request EXCEPT ![h] = q]
  BY <1>5, <1>8, <1>9 DEF IInv, TypeOK
<1>11. q.pc = "select" /\ q.on = c /\ q.snap = copy
  BY <1>2, <1>3, <1>9 DEF Request
<1>12. Tidy(q.snap)'
  BY <1>8, <1>11 DEF Tidy
<1>13. AloneOK(q)'
  BY <1>1, <1>4, <1>7, <1>8, <1>11, <1>12 DEF AloneOK, AsRead
<1>14. QED
  BY <1>1, <1>6, <1>10, <1>13, AloneStep

\* A recorded acceptance changes neither the row nor YouSign.
LEMMA RecordAlone ==
    ASSUME OneRequest, IInv, Alone, NEW h \in Requests, RecordAcceptance(h)
    PROVE  Alone'
<1>1. /\ request[h].pc = "record" /\ UNCHANGED <<row, yousign>>
      /\ Goto(h, "select", WithStatus(Snap(h), "en_attente_paiement"))
  BY DEF RecordAcceptance, At, external, Snap
<1>2. AloneOK(request[h]) /\ Snap(h) \in Row
  BY <1>1, AloneAtWork
<1>3. Snap(h) = Found(h)
  BY <1>1, <1>2 DEF AloneOK, AsRead, Snap, Found
<1>4. MayGoAlone(h, "select", WithStatus(Snap(h), "en_attente_paiement"))
  BY <1>2, <1>3, SaveAlone DEF Status
<1>5. PICK q \in Request :
        q = Moved(h, "select", WithStatus(Snap(h), "en_attente_paiement")) /\ AloneOK(q)
  BY <1>1, <1>4, MovedAlone
<1>6. request' = [request EXCEPT ![h] = q]
  BY <1>1, <1>5 DEF Goto, Moved, IInv, TypeOK
<1>7. AloneOK(q)' /\ \A sr \in SignatureRequests : Closed(sr) => Closed(sr)'
  BY <1>1, <1>5 DEF AloneOK, Tidy, Free, Closed
<1>8. QED
  BY <1>1, <1>6, <1>7, AloneStep

\* The row the only handler saves is the copy it holds.
LEMMA UpdateAlone ==
    ASSUME OneRequest, IInv, Alone, NEW h \in Requests, UpdateForSave(h)
    PROVE  /\ Alone'
           /\ \A c \in Contracts : Free(c) \/ row'[c].sr = row[c].sr
<1>1. request[h].pc = "update" /\ UNCHANGED yousign
  BY DEF UpdateForSave, external
<1>2. AloneOK(request[h]) /\ request[h] \in Request /\ request[h].on \in Contracts /\ Snap(h) \in Row
  BY <1>1, AloneAtWork
<1>3. PICK c \in Contracts, snap \in Row :
        c = request[h].on /\ snap = request[h].snap /\ request[h].base = row[c]
  BY <1>1, <1>2 DEF AloneOK, Snap
<1>4. snap.status # "absent" /\ Tidy(snap) /\ (snap.sr = row[c].sr \/ Free(c))
  BY <1>1, <1>2, <1>3 DEF AloneOK
<1>5. Merged(row[c], row[c], snap) = snap
  BY DEF Merged, Row, IInv, TypeOK
<1>6. row' = [row EXCEPT ![c] = snap]
  BY <1>3, <1>5 DEF UpdateForSave, IInv, TypeOK
<1>7. \A d \in Contracts : row'[d] = IF d = c THEN snap ELSE row[d]
  BY <1>6 DEF IInv, TypeOK
<1>8. \A r \in Row : Tidy(r) => Tidy(r)'
  BY <1>1 DEF Tidy, Closed
<1>9. ASSUME NEW d \in Contracts PROVE Tidy(row[d])'
  <2>1. PICK r \in Row : r = row'[d] /\ Tidy(r)
    BY <1>4, <1>7 DEF Alone, IInv, TypeOK
  <2>2. QED
    BY <1>8, <2>1 DEF Tidy
<1>10. PICK q \in Request : /\ request' = [request EXCEPT ![h] = q]
                            /\ q.pc \in {"idle", "synced", "advanced"}
                            /\ q.pc # "idle" => q.on = c
  <2>1. request[h].then \in {"idle", "synced", "advanced"}
    BY <1>2 DEF Request
  <2>2. MayGoAlone(h, request[h].then, Absent)
    BY <2>1, RowType DEF MayGoAlone, Pc, AsRead
  <2>3. PICK q \in Request : q = Moved(h, request[h].then, Absent)
    BY <1>1, <2>2, MovedAlone
  <2>4. request' = [request EXCEPT ![h] = q]
    BY <2>3 DEF UpdateForSave, Goto, Moved, IInv, TypeOK
  <2>5. q.pc = request[h].then /\ (q.pc # "idle" => q.on = c)
    BY <1>2, <1>3, <2>1, <2>3 DEF Moved, Idle, Request
  <2>6. QED
    BY <2>1, <2>4, <2>5
<1>11. \A g \in Requests : request'[g] = q
  BY <1>10 DEF OneRequest, IInv, TypeOK
<1>12. ASSUME NEW g \in Requests PROVE AloneOK(request[g])'
  <2>1. q.pc # "idle" => row'[q.on].status # "absent"
    BY <1>4, <1>7, <1>10
  <2>2. AloneOK(q)'
    BY <1>10, <2>1 DEF AloneOK, AsRead
  <2>3. QED
    BY <1>11, <2>2 DEF AloneOK, Tidy, Free, Closed
<1>13. \A d \in Contracts : Free(d) \/ row'[d].sr = row[d].sr
  BY <1>4, <1>7
<1>14. QED
  BY <1>9, <1>12, <1>13 DEF Alone

\* A webhook names a request that has ended, and keeps it so.
LEMMA DeliverAlone ==
    ASSUME OneRequest, IInv, Alone, NEW h \in Requests, NEW r \in Replicas,
           NEW sr \in SignatureRequests, DeliverEvent(h, r, sr)
    PROVE  Alone'
<1>1. yousign[sr].state \in {"done", "declined"} /\ UNCHANGED <<row, yousign>>
  BY DEF DeliverEvent, Dispatched, database
<1>2. \A s \in SignatureRequests : Closed(s) => Closed(s)'
  BY <1>1 DEF Closed
<1>3. CASE UNCHANGED request
  BY <1>1, <1>3 DEF Alone, AloneOK, Tidy, Free, Closed
<1>4. CASE request' = [request EXCEPT ![h] =
                         [Idle EXCEPT !.op = yousign[sr].state, !.pc = "find", !.at = r,
                                      !.event = sr]]
  <2>1. PICK op \in {"done", "declined"} : op = yousign[sr].state
    BY <1>1
  <2>2. PICK q \in Request : q = [Idle EXCEPT !.op = op, !.pc = "find", !.at = r, !.event = sr]
    BY RowType DEF Idle, Request, Operation, Pc
  <2>3. q.pc = "find" /\ q.op = op /\ q.event = sr
    BY <2>2 DEF Idle
  <2>4. op = "declined" => Closed(sr)'
    BY <1>1, <2>1 DEF Closed, REVERT_STATUSES
  <2>5. AloneOK(q)'
    BY <2>3, <2>4 DEF AloneOK, AsRead, Closed
  <2>6. request' = [request EXCEPT ![h] = q]
    BY <1>4, <2>1, <2>2
  <2>7. QED
    BY <1>1, <1>2, <2>5, <2>6, AloneStep
<1>5. QED
  BY <1>3, <1>4 DEF DeliverEvent

\* What happens around the only handler.
LEMMA SurroundingsAlone ==
    ASSUME OneRequest, IInv, Alone, Surroundings
    PROVE  Alone' /\ \A c \in Contracts : row[c].sr # Null => row'[c].sr = row[c].sr
<1>1. ASSUME NEW c \in Contracts, CreateContract(c)
      PROVE  Alone' /\ \A d \in Contracts : row[d].sr # Null => row'[d].sr = row[d].sr
  <2>1. /\ row[c].status = "absent" /\ row[c].sr = Null /\ UNCHANGED <<request, yousign>>
        /\ \A d \in Contracts : row'[d] = IF d = c THEN [status |-> "en_attente_de_justificatif",
                                                         sr |-> Null] ELSE row[d]
    BY <1>1 DEF CreateContract, external, IInv, TypeOK, Alone, Tidy
  <2>2. ASSUME NEW d \in Contracts PROVE Tidy(row[d])'
    <3>1. Tidy(row[d])
      BY DEF Alone
    <3>2. QED
      BY <2>1, <3>1 DEF Tidy, Closed
  <2>3. ASSUME NEW g \in Requests PROVE AloneOK(request[g])'
    <3>1. PICK q \in Request : q = request[g] /\ q = request'[g] /\ AloneOK(q) /\ HandlerOK(q)
      BY <2>1 DEF Alone, IInv, TypeOK
    <3>2. q.pc \notin {"idle", "find"} => q.on # c /\ row'[q.on] = row[q.on]
      BY <2>1, <3>1 DEF AloneOK, HandlerOK
    <3>3. Tidy(q.snap) => Tidy(q.snap)'
      BY <2>1 DEF Tidy, Closed
    <3>4. AloneOK(q)'
      BY <2>1, <3>1, <3>2, <3>3 DEF AloneOK, AsRead, Free, Closed
    <3>5. QED
      BY <3>1, <3>4 DEF AloneOK, Tidy, Free, Closed
  <2>4. QED
    BY <2>1, <2>2, <2>3 DEF Alone
<1>2. ASSUME NEW sr \in SignatureRequests, NEW state \in {"done", "declined", "expired"},
             SignerEnds(sr, state)
      PROVE  Alone' /\ UNCHANGED row
  <2>1. UNCHANGED <<row, request>> /\ \A s \in SignatureRequests : Closed(s) => Closed(s)'
    BY <1>2 DEF SignerEnds, database, Closed, REVERT_STATUSES, IInv, TypeOK
  <2>2. ASSUME NEW g \in Requests PROVE AloneOK(request[g])'
    <3>1. PICK q \in Request : q = request[g] /\ q = request'[g] /\ AloneOK(q) /\ HandlerOK(q)
      BY <2>1 DEF Alone, IInv, TypeOK
    <3>2. q.snap \in Row /\ (q.pc \notin {"idle", "find"} => row[q.on] \in Row)
      BY <3>1 DEF Request, HandlerOK, IInv, TypeOK
    <3>3. Tidy(q.snap) => Tidy(q.snap)'
      BY <2>1, <3>2 DEF Tidy, Row
    <3>4. q.pc \notin {"idle", "find"} => (Free(q.on) => Free(q.on)')
      BY <2>1, <3>2 DEF Free, Row
    <3>5. q.pc = "find" => q.event \in SignatureRequests
      BY <3>1 DEF HandlerOK
    <3>6. AloneOK(q)'
      BY <2>1, <3>1, <3>3, <3>4, <3>5 DEF AloneOK, AsRead
    <3>7. QED
      BY <3>1, <3>6 DEF AloneOK, Tidy, Free, Closed
  <2>3. QED
    BY <2>1, <2>2, TidyStays DEF Alone, IInv
<1>3. ASSUME NEW h \in Requests, SyncFails(h) \/ Fail(h) PROVE Alone' /\ UNCHANGED row
  BY <1>3, SyncAlone, AloneEnds DEF Fail, SyncFails, Local, database
<1>4. ASSUME UNCHANGED <<row, yousign>>, \A h \in Requests : request'[h] \in {request[h], Idle}
      PROVE  Alone' /\ UNCHANGED row
  <2>1. ASSUME NEW g \in Requests PROVE AloneOK(request[g])'
    <3>1. AloneOK(request[g]) /\ AloneOK(Idle)
      BY DEF Alone, AloneOK, Idle, AsRead
    <3>2. QED
      BY <1>4, <3>1 DEF AloneOK, Tidy, Free, Closed
  <2>2. \A sr \in SignatureRequests : Closed(sr) => Closed(sr)'
    BY <1>4 DEF Closed
  <2>3. QED
    BY <1>4, <2>1, <2>2, TidyStays DEF Alone, IInv
<1>5. ASSUME NEW c \in Contracts, DocumentsChange(c) PROVE Alone' /\ UNCHANGED row
  BY <1>4, <1>5 DEF DocumentsChange, database
<1>6. ASSUME NEW r \in Replicas, Restart(r) PROVE Alone' /\ UNCHANGED row
  BY <1>4, <1>6 DEF Restart, database, external
<1>7. QED
  BY <1>1, <1>2, <1>3, <1>5, <1>6 DEF Surroundings

LEMMA AloneNext ==
    ASSUME OneRequest, IInv, Alone, [Next]_vars
    PROVE  Alone' /\ \A c \in Contracts : Free(c) \/ row'[c].sr = row[c].sr
<1>1. ASSUME NEW h \in Requests, Arrival(h) PROVE Alone' /\ UNCHANGED row
  BY <1>1, BeginAlone, DeliverAlone DEF Arrival, RequestSignature, PollSignature, DocumentDecided,
     ConfirmPayment, ConfirmValidation, Entry, Begin, DeliverEvent, Local, database
<1>2. ASSUME NEW h \in Requests, Resume(h)
      PROVE  Alone' /\ (UNCHANGED row \/ UpdateForSave(h))
  <2>1. CASE SignLoad(h) \/ SignCheckDocuments(h) \/ SignReload(h) \/ Advanced(h)
    BY <2>1, SignAlone DEF SignLoad, SignCheckDocuments, SignReload, Advanced, Local, database
  <2>2. CASE SyncLoad(h) \/ SyncFetch(h) \/ SyncLookup(h) \/ Synced(h)
    BY <2>2, SyncAlone DEF SyncLoad, SyncFetch, SyncLookup, Synced, Local, database
  <2>3. CASE GateLoad(h) \/ GateReadUploads(h) \/ PayLoad(h) \/ ValidateLoad(h)
    BY <2>3, GateAlone, PayAlone
       DEF GateLoad, GateReadUploads, PayLoad, ValidateLoad, Local, database
  <2>4. CASE FindByRequest(h) \/ SelectForSave(h)
    BY <2>4, FindAlone, SelectAlone DEF FindByRequest, SelectForSave, Local, database
  <2>5. CASE SignCreate(h) \/ RecordAcceptance(h)
    BY <2>5, CreateAlone, RecordAlone DEF SignCreate, RecordAcceptance, database
  <2>6. CASE UpdateForSave(h)
    BY <2>6, UpdateAlone
  <2>7. QED
    BY <1>2, <2>1, <2>2, <2>3, <2>4, <2>5, <2>6 DEF Resume
<1>3. CASE UNCHANGED vars
  BY <1>3 DEF vars, Alone, AloneOK, Tidy, Free, Closed
<1>4. CASE Surroundings
  BY <1>4, SurroundingsAlone DEF Free
<1>5. QED
  BY <1>1, <1>2, <1>3, <1>4, UpdateAlone DEF Next

\* With one request at a time, what the handler has read of its contract stays so, and a
\* contract that waits for a signature names no open or signed request.
THEOREM AloneInvariance == ASSUME OneRequest PROVE Spec => []Alone
<1>1. Init => Alone
  BY DEF Init, Alone, Tidy, AloneOK, Idle, AsRead, Absent
<1>2. IInv /\ Alone /\ [Next]_vars => Alone'
  BY AloneNext
<1>3. QED
  BY <1>1, <1>2, Invariance, PTL DEF Spec

\* With one request at a time, a signed request is never dropped for another one,
\* whatever fails between two writes and however late and often its webhook arrives.
THEOREM SignedKept == ASSUME OneRequest PROVE Spec => SignedRequestKept
<1> DEFINE Kept == \A c \in Contracts :
              row[c].sr # Null /\ yousign[row[c].sr].state = "done" => row'[c].sr = row[c].sr
<1>1. IInv /\ Alone /\ [Next]_vars => [Kept]_vars
  <2> SUFFICES ASSUME IInv, Alone, Next PROVE Kept
    OBVIOUS
  <2>1. \A c \in Contracts : Free(c) \/ row'[c].sr = row[c].sr
    BY AloneNext
  <2>2. QED
    BY <2>1 DEF Free, Closed, REVERT_STATUSES
<1>2. QED
  BY <1>1, Invariance, AloneInvariance, PTL DEF Spec, SignedRequestKept

=============================================================================
