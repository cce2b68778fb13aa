------------------------- MODULE JustificatifsProofs -------------------------
(***************************************************************************)
(* TLAPS proofs about Justificatifs, for any product, any number of files  *)
(* and any number of concurrent handlers, with all their interleavings,    *)
(* failures and late or repeated verdicts.                                 *)
(***************************************************************************)
EXTENDS Justificatifs, SequenceTheorems, FiniteSetTheorems,
        WellFoundedInduction, TLAPS

-----------------------------------------------------------------------------
(* The inductive invariant *)

\* Some file found conforming was uploaded for type t.
Evidence(t) == \E f \in vouched : filed[f] = t

\* A document refers to files of its own type, and is ready on evidence of that type:
\* several handlers' writes may mix, and then its own file need not be the evidence.
DocumentOK(j) ==
    /\ filed[j.file] = j.type
    /\ j.vid # Null => filed[j.vid] = j.type
    /\ j.status \in READY_STATUSES => Evidence(j.type)

Holding == {"lookup", "stored", "create", "analyse", "fetch", "select", "update"}

HandlerOK(q) ==
    /\ q.pc \in Holding =>
          /\ q.copy \in Justificatif
          /\ DocumentOK(q.copy)
          /\ q.id # 0 => q.id \in 1..Len(docs) /\ docs[q.id].type = q.copy.type
    /\ q.pc = "lookup" => q.id = 0 /\ q.copy.status \notin READY_STATUSES
    /\ q.pc = "fetch" => q.copy.vid # Null
    /\ (q.pc \in {"select", "update"} /\ q.copy.status \in READY_STATUSES) => q.then = "gate"
    /\ q.pc = "advance" => \A t \in Required : Evidence(t)

Inv ==
    /\ TypeOK
    /\ \A i \in 1..Len(docs) : DocumentOK(docs[i])
    /\ \A f \in Files : verification[f] = "verified" => f \in vouched
    /\ \A h \in Handlers : HandlerOK(handler[h])
    /\ opened => \A t \in Required : Evidence(t)
    /\ GateNotMissed

-----------------------------------------------------------------------------
(* What the gate reads *)

\* Every row is a document.
LEMMA RowType ==
    ASSUME TypeOK
    PROVE  /\ Len(docs) \in Nat /\ DOMAIN docs = 1..Len(docs)
           /\ \A i \in 1..Len(docs) :
                 /\ docs[i] \in Justificatif
                 /\ docs[i].type \in JustificatifType
                 /\ docs[i].status \in JustificatifStatus
                 /\ docs[i].file \in Files
                 /\ docs[i].vid \in Files \cup {Null}
                 /\ docs[i].decision \in {"none", "accepted", "refused"}
<1>1. Len(docs) \in Nat /\ DOMAIN docs = 1..Len(docs)
  BY DEF TypeOK
<1>2. \A i \in 1..Len(docs) : docs[i] \in Justificatif
  BY ElementOfSeq DEF TypeOK
<1>3. QED
  BY <1>1, <1>2 DEF Justificatif

\* Priorities 0 and 1 are those of the statuses that count as ready.
LEMMA Priorities ==
    ASSUME NEW s \in JustificatifStatus
    PROVE  UPLOAD_PRIORITY[s] \in 0..7 /\ (UPLOAD_PRIORITY[s] <= 1 <=> s \in READY_STATUSES)
<1>1. CASE s = "accepte"
  BY <1>1 DEF UPLOAD_PRIORITY, READY_STATUSES
<1>2. CASE s = "pre_qualifie"
  BY <1>2 DEF UPLOAD_PRIORITY, READY_STATUSES
<1>3. CASE s = "en_cours_de_verification"
  BY <1>3 DEF UPLOAD_PRIORITY, READY_STATUSES
<1>4. CASE s = "recu"
  BY <1>4 DEF UPLOAD_PRIORITY, READY_STATUSES
<1>5. CASE s = "a_revoir"
  BY <1>5 DEF UPLOAD_PRIORITY, READY_STATUSES
<1>6. CASE s = "refuse"
  BY <1>6 DEF UPLOAD_PRIORITY, READY_STATUSES
<1>7. CASE s = "incomplet"
  BY <1>7 DEF UPLOAD_PRIORITY, READY_STATUSES
<1>8. CASE s = "expire"
  BY <1>8 DEF UPLOAD_PRIORITY, READY_STATUSES
<1>9. QED
  BY <1>1, <1>2, <1>3, <1>4, <1>5, <1>6, <1>7, <1>8 DEF JustificatifStatus

\* Among documents of a type there is one of the best status.
LEMMA BestExists ==
    ASSUME TypeOK, NEW t, OfType(t) # {}
    PROVE  PickBestUpload(t) \in OfType(t)
             /\ \A j \in OfType(t) : UPLOAD_PRIORITY[docs[PickBestUpload(t)].status]
                                       <= UPLOAD_PRIORITY[docs[j].status]
<1> DEFINE P(i) == UPLOAD_PRIORITY[docs[i].status]
           Best(i) == i \in OfType(t) /\ \A j \in OfType(t) : P(i) <= P(j)
<1>1. \A i \in OfType(t) : P(i) \in 0..7
  BY Priorities, RowType DEF OfType
<1> HIDE DEF P
<1>2. ASSUME NEW n \in 0..7, \A i \in OfType(t) : P(i) >= n, ~ \E i : Best(i)
      PROVE  \A i \in OfType(t) : P(i) >= n + 1
  BY <1>1, <1>2
<1>3. \E i : Best(i)
  <2> SUFFICES ASSUME ~ \E i : Best(i) PROVE FALSE
    OBVIOUS
  <2> HIDE DEF Best
  <2>1. \A i \in OfType(t) : P(i) >= 2
    BY <1>1, <1>2
  <2>2. \A i \in OfType(t) : P(i) >= 4
    <3>1. \A i \in OfType(t) : P(i) >= 3
      BY <1>2, <2>1
    <3>2. QED
      BY <1>2, <3>1
  <2>3. \A i \in OfType(t) : P(i) >= 6
    <3>1. \A i \in OfType(t) : P(i) >= 5
      BY <1>2, <2>2
    <3>2. QED
      BY <1>2, <3>1
  <2>4. \A i \in OfType(t) : P(i) >= 8
    <3>1. \A i \in OfType(t) : P(i) >= 7
      BY <1>2, <2>3
    <3>2. QED
      BY <1>2, <3>1
  <2>5. QED
    BY <1>1, <2>4
<1>4. QED
  BY <1>3 DEF PickBestUpload, P

\* The code's choice of the best upload decides as if it asked whether some upload of
\* each required type is ready (contractDocumentsComplete).
SomeReady ==
    \A t \in Required : \E i \in 1..Len(docs) :
        docs[i].type = t /\ docs[i].status \in READY_STATUSES

LEMMA CompleteMeansReady == TypeOK => (ContractDocumentsComplete <=> SomeReady)
<1> SUFFICES ASSUME TypeOK PROVE ContractDocumentsComplete <=> SomeReady
  OBVIOUS
<1>1. DOMAIN docs = 1..Len(docs)
  BY DEF TypeOK
<1>2. ASSUME NEW t \in Required, NEW i \in 1..Len(docs),
             docs[i].type = t, docs[i].status \in READY_STATUSES
      PROVE  OfType(t) # {} /\ docs[PickBestUpload(t)].status \in READY_STATUSES
  <2>1. i \in OfType(t)
    BY <1>1, <1>2 DEF OfType
  <2>2. PickBestUpload(t) \in 1..Len(docs)
        /\ UPLOAD_PRIORITY[docs[PickBestUpload(t)].status] <= UPLOAD_PRIORITY[docs[i].status]
    BY <1>1, <2>1, BestExists DEF OfType
  <2>3. QED
    <3> DEFINE j == docs[PickBestUpload(t)]
    <3>1. j.status \in JustificatifStatus /\ docs[i].status \in JustificatifStatus
      BY <2>2, RowType
    <3>2. UPLOAD_PRIORITY[j.status] <= 1
      BY <1>2, <2>2, <3>1, Priorities
    <3>3. QED
      BY <2>1, <3>1, <3>2, Priorities
<1>3. ASSUME NEW t \in Required, OfType(t) # {},
             docs[PickBestUpload(t)].status \in READY_STATUSES
      PROVE  \E i \in 1..Len(docs) : docs[i].type = t /\ docs[i].status \in READY_STATUSES
  BY <1>1, <1>3, BestExists DEF OfType
<1>4. QED
  BY <1>2, <1>3 DEF ContractDocumentsComplete, SomeReady

\* The same after a step.
LEMMA CompleteMeansReadyNext ==
    TypeOK' => (ContractDocumentsComplete' <=> SomeReady')
BY CompleteMeansReady, PTL

-----------------------------------------------------------------------------
(* Steps that disturb one handler, or none *)

\* What no step takes back.
Grows ==
    /\ Len(docs) <= Len(docs')
    /\ \A i \in 1..Len(docs) : docs'[i].type = docs[i].type
    /\ \A f \in Files : filed[f] # Null => filed'[f] = filed[f]
    /\ vouched \subseteq vouched'

\* Evidence is not lost.
LEMMA EvidenceGrows ==
    ASSUME TypeOK, Grows, NEW t \in JustificatifType, Evidence(t)
    PROVE  Evidence(t)'
<1>1. PICK f \in vouched : filed[f] = t
  BY DEF Evidence
<1>2. f \in Files /\ filed[f] # Null
  BY <1>1, NullAssumption DEF TypeOK
<1>3. QED
  BY <1>1, <1>2 DEF Evidence, Grows

\* A document that could be saved before such a step can be saved after it.
LEMMA DocumentGrows ==
    ASSUME TypeOK, Grows, NEW j \in Justificatif, DocumentOK(j)
    PROVE  DocumentOK(j)'
<1>1. j.type \in JustificatifType /\ j.file \in Files /\ (j.vid # Null => j.vid \in Files)
  BY DEF Justificatif
<1>2. j.type # Null
  BY <1>1, NullAssumption
<1>3. filed'[j.file] = j.type /\ (j.vid # Null => filed'[j.vid] = j.type)
  BY <1>1, <1>2 DEF DocumentOK, Grows
<1>4. QED
  BY <1>1, <1>3, EvidenceGrows DEF DocumentOK

\* What a product requires is among the document types.
LEMMA RequiredType == Required \subseteq JustificatifType
BY DEF Required, RequiredJustificatifTypes, CONTRACT_CODE_TO_PRODUCT, PRODUCT_DOCUMENTS,
       DOCUMENT_TO_JUSTIFICATIF, JustificatifType

\* A handler that does not move keeps its part of the invariant.
LEMMA HandlerGrows ==
    ASSUME TypeOK, TypeOK', Grows, NEW q \in Handler, HandlerOK(q)
    PROVE  HandlerOK(q)'
<1>1. Len(docs) \in Nat /\ Len(docs') \in Nat
  BY DEF TypeOK
<1>2. ASSUME q.pc \in Holding
      PROVE  /\ q.copy \in Justificatif
             /\ DocumentOK(q.copy)'
             /\ q.id # 0 => q.id \in 1..Len(docs') /\ docs'[q.id].type = q.copy.type
  BY <1>1, <1>2, DocumentGrows DEF HandlerOK, Grows
<1>3. ASSUME q.pc = "advance" PROVE \A t \in Required : Evidence(t)'
  BY <1>3, EvidenceGrows, RequiredType DEF HandlerOK
<1>4. QED
  BY <1>2, <1>3 DEF HandlerOK

\* The contract stays open on evidence.
LEMMA OpenedGrows ==
    ASSUME Inv, Grows, opened PROVE \A t \in Required : Evidence(t)'
BY EvidenceGrows, RequiredType DEF Inv

\* The other handlers are not disturbed by a step of h.
LEMMA HandlersStep ==
    ASSUME Inv, TypeOK', Grows, NEW h \in Handlers, NEW q \in Handler,
           handler' = [handler EXCEPT ![h] = q], HandlerOK(q)'
    PROVE  \A g \in Handlers : HandlerOK(handler[g])'
<1> SUFFICES ASSUME NEW g \in Handlers PROVE HandlerOK(handler[g])'
  OBVIOUS
<1>1. PICK x \in Handler : x = handler'[g] /\ HandlerOK(x)'
  <2>1. CASE g = h
    BY <2>1 DEF Inv, TypeOK
  <2>2. CASE g # h
    <3>1. PICK x \in Handler : x = handler[g] /\ HandlerOK(x)
      BY DEF Inv, TypeOK
    <3>2. HandlerOK(x)'
      BY <3>1, HandlerGrows DEF Inv
    <3>3. x = handler'[g]
      BY <2>2, <3>1 DEF Inv, TypeOK
    <3>4. QED
      BY <3>2, <3>3
  <2>3. QED
    BY <2>1, <2>2
<1>2. QED
  BY <1>1 DEF HandlerOK

\* If h does not forget a gate it owes, some handler still owes it.
LEMMA GateStep ==
    ASSUME Inv, NEW h \in Handlers, NEW q \in Handler,
           handler' = [handler EXCEPT ![h] = q],
           opened' = opened, interrupted => interrupted',
           ContractDocumentsComplete' => ContractDocumentsComplete \/ OwesGate(q),
           OwesGate(handler[h])
             => OwesGate(q) \/ opened \/ interrupted' \/ ~ContractDocumentsComplete
    PROVE  GateNotMissed'
<1> SUFFICES ASSUME ContractDocumentsComplete', Required # {}, ~opened, ~interrupted'
             PROVE  \E k \in Handlers : OwesGate(handler'[k])
  BY DEF GateNotMissed, OwesGate
<1>1. handler'[h] = q /\ \A g \in Handlers : g # h => handler'[g] = handler[g]
  BY DEF Inv, TypeOK
<1>2. CASE OwesGate(q)
  BY <1>1, <1>2
<1>3. CASE ~OwesGate(q)
  <2>1. PICK g \in Handlers : OwesGate(handler[g])
    BY <1>3 DEF Inv, GateNotMissed
  <2>2. g # h
    BY <1>3, <2>1
  <2>3. QED
    BY <1>1, <2>1, <2>2
<1>4. QED
  BY <1>2, <1>3

\* A step of one handler that changes no document and does not open the contract.
LEMMA HandlerStep ==
    ASSUME Inv, NEW h \in Handlers, NEW q \in Handler,
           handler' = [handler EXCEPT ![h] = q],
           docs' = docs, opened' = opened,
           filed' \in [Files -> Types \cup {Null}], Grows,
           vouched' \subseteq Files,
           verification' \in [Files -> {"none", "pending", "verified", "rejected"}],
           \A f \in Files : verification'[f] = "verified" => f \in vouched',
           interrupted' \in BOOLEAN, interrupted => interrupted',
           HandlerOK(q)',
           OwesGate(handler[h])
             => OwesGate(q) \/ opened \/ interrupted' \/ ~ContractDocumentsComplete
    PROVE  Inv'
<1>1. TypeOK /\ TypeOK'
  BY DEF Inv, TypeOK
<1>2. \A i \in 1..Len(docs) : DocumentOK(docs[i])'
  BY <1>1, RowType, DocumentGrows DEF Inv
<1>3. \A g \in Handlers : HandlerOK(handler[g])'
  BY <1>1, HandlersStep
<1>4. opened' => \A t \in Required : Evidence(t)'
  BY OpenedGrows
<1>5. ContractDocumentsComplete' <=> ContractDocumentsComplete
  BY DEF ContractDocumentsComplete, PickBestUpload, OfType
<1>6. GateNotMissed'
  BY <1>5, GateStep
<1>7. QED
  BY <1>1, <1>2, <1>3, <1>4, <1>6 DEF Inv

\* The write of a document: the only files it may bring in are of the row's type, and
\* what makes a row ready owes the gate.
LEMMA WriteStep ==
    ASSUME Inv, NEW h \in Handlers, NEW q \in Handler,
           handler' = [handler EXCEPT ![h] = q],
           UNCHANGED <<filed, verification, opened, vouched, interrupted>>,
           docs' \in Seq(Justificatif), Grows,
           \A i \in 1..Len(docs') : DocumentOK(docs'[i]),
           HandlerOK(q)', ~OwesGate(handler[h]),
           \A i \in 1..Len(docs') :
              docs'[i].status \in READY_STATUSES
                => \/ OwesGate(q)
                   \/ i \in 1..Len(docs) /\ docs[i].status \in READY_STATUSES
    PROVE  Inv'
<1>1. TypeOK /\ TypeOK'
  BY DEF Inv, TypeOK
<1>2. \A i \in 1..Len(docs') : DocumentOK(docs[i])'
  BY DEF DocumentOK, Evidence
<1>3. \A g \in Handlers : HandlerOK(handler[g])'
  BY <1>1, HandlersStep
<1>4. opened' => \A t \in Required : Evidence(t)'
  BY OpenedGrows
<1>5. ContractDocumentsComplete' => ContractDocumentsComplete \/ OwesGate(q)
  <2>1. (ContractDocumentsComplete <=> SomeReady) /\ (ContractDocumentsComplete' <=> SomeReady')
    BY <1>1, CompleteMeansReady, CompleteMeansReadyNext
  <2>2. SomeReady' /\ ~OwesGate(q) => SomeReady
    BY DEF SomeReady, Grows
  <2>3. QED
    BY <2>1, <2>2
<1>6. GateNotMissed'
  BY <1>5, GateStep
<1>7. QED
  BY <1>1, <1>2, <1>3, <1>4, <1>6 DEF Inv

-----------------------------------------------------------------------------
(* The forms of the handlers' steps *)

Statuses == {"none", "pending", "verified", "rejected"}

\* What is recorded outside the documents only grows, and stays well-formed.
Recorded ==
    /\ docs' = docs /\ opened' = opened /\ interrupted' = interrupted
    /\ filed' \in [Files -> Types \cup {Null}]
    /\ \A f \in Files : filed[f] # Null => filed'[f] = filed[f]
    /\ vouched \subseteq vouched' /\ vouched' \subseteq Files
    /\ verification' \in [Files -> Statuses]
    /\ \A f \in Files : verification'[f] = "verified" => f \in vouched'

LEMMA RecordedGrows ==
    ASSUME Inv, Recorded PROVE Grows
<1>1. Len(docs) \in Nat
  BY DEF Inv, TypeOK
<1>2. QED
  BY <1>1 DEF Recorded, Grows

\* Most steps touch none of it.
LEMMA StillRecorded ==
    ASSUME Inv, UNCHANGED <<docs, filed, verification, opened, vouched, interrupted>>
    PROVE  Recorded
BY DEF Inv, TypeOK, Recorded, Statuses

\* DocumentOK in the next state, of a copy made in this one.
SavedOK(j) ==
    /\ filed'[j.file] = j.type
    /\ j.vid # Null => filed'[j.vid] = j.type
    /\ j.status \in READY_STATUSES => \E f \in vouched' : filed'[f] = j.type

\* What was fit to be saved still is.
LEMMA StillFit ==
    ASSUME Inv, Recorded, NEW j \in Justificatif, DocumentOK(j)
    PROVE  SavedOK(j)
BY RecordedGrows, DocumentGrows DEF Inv, SavedOK, DocumentOK, Evidence

\* A handler gives a copy to save().
LEMMA SaveStep ==
    ASSUME Inv, Recorded, NEW h \in Handlers, handler[h].pc \in Holding,
           NEW copy \in Justificatif, NEW then \in {"idle", "stored", "analyse", "gate"},
           Save(h, copy, then),
           copy.type = handler[h].copy.type, SavedOK(copy),
           copy.status \in READY_STATUSES => then = "gate"
    PROVE  Inv'
<1> PICK q : q = [handler[h] EXCEPT !.pc = "select", !.copy = copy, !.then = then]
  OBVIOUS
<1>1. handler[h] \in Handler /\ HandlerOK(handler[h])
  BY DEF Inv, TypeOK
<1>2. q \in Handler /\ q.pc = "select" /\ q.copy = copy /\ q.then = then /\ q.id = handler[h].id
  BY <1>1 DEF Handler, Pc
<1>3. handler' = [handler EXCEPT ![h] = q]
  BY DEF Save, Inv, TypeOK
<1>4. ~OwesGate(handler[h])
  BY DEF OwesGate, Holding
<1>5. HandlerOK(q)'
  BY <1>1, <1>2 DEF HandlerOK, Holding, Recorded, SavedOK, DocumentOK, Evidence
<1>6. QED
  BY <1>2, <1>3, <1>4, <1>5, HandlerStep, RecordedGrows DEF Recorded, Statuses, Inv, TypeOK

\* A handler that has ended leaves nothing to keep.
LEMMA IdleOK == Idle \in Handler /\ HandlerOK(Idle) /\ HandlerOK(Idle)' /\ ~OwesGate(Idle)
BY DEF Idle, Handler, Pc, Columns, HandlerOK, Holding, OwesGate

\* A handler ends.
LEMMA EndStep ==
    ASSUME Inv, NEW h \in Handlers, End(h),
           UNCHANGED <<docs, filed, verification, opened, vouched>>,
           interrupted' \in BOOLEAN, interrupted => interrupted',
           OwesGate(handler[h]) => opened \/ interrupted' \/ ~ContractDocumentsComplete
    PROVE  Inv'
<1>1. Grows
  BY DEF Inv, TypeOK, Grows
<1>2. QED
  BY <1>1, IdleOK, HandlerStep DEF End, Inv, TypeOK

\* A handler starts.
LEMMA StartStep ==
    ASSUME Inv, Recorded, NEW h \in Handlers,
           NEW op, NEW pc, NEW id, NEW copy, NEW then, Start(h, op, pc, id, copy, then),
           op \in {"upload", "poll", "event", "validate", "refuse", "sign"},
           pc \in {"lookup", "fetch", "select", "gate"},
           id \in Nat, then \in {"idle", "stored", "analyse", "gate"},
           copy \in Justificatif \cup {Null},
           pc # "gate" =>
              /\ copy \in Justificatif /\ SavedOK(copy)
              /\ id # 0 => id \in 1..Len(docs) /\ docs[id].type = copy.type,
           pc = "lookup" => id = 0 /\ copy.status \notin READY_STATUSES,
           pc = "fetch" => copy.vid # Null,
           (pc = "select" /\ copy.status \in READY_STATUSES) => then = "gate"
    PROVE  Inv'
<1> DEFINE q == [op |-> op, pc |-> pc, id |-> id, copy |-> copy, changed |-> {}, then |-> then]
<1>1. q \in Handler
  BY DEF Handler, Pc
<1>2. q.pc = pc /\ q.id = id /\ q.copy = copy /\ q.then = then
  OBVIOUS
<1>3. handler' = [handler EXCEPT ![h] = q] /\ ~OwesGate(handler[h])
  BY IdleOK DEF Start
<1> HIDE DEF q
<1>4. HandlerOK(q)'
  BY <1>2 DEF HandlerOK, Holding, Recorded, SavedOK, DocumentOK, Evidence
<1>5. QED
  BY <1>1, <1>3, <1>4, HandlerStep, RecordedGrows DEF Recorded, Statuses, Inv, TypeOK

-----------------------------------------------------------------------------
(* save() *)

\* What is known of a handler that holds a copy.
LEMMA CopyHeld ==
    ASSUME Inv, NEW h \in Handlers, handler[h].pc \in Holding
    PROVE  /\ handler[h] \in Handler
           /\ handler[h].copy \in Justificatif
           /\ handler[h].copy.type \in JustificatifType
           /\ handler[h].copy.file \in Files
           /\ handler[h].copy.vid \in Files \cup {Null}
           /\ DocumentOK(handler[h].copy)
           /\ handler[h].id \in Nat
           /\ handler[h].id # 0 => /\ handler[h].id \in 1..Len(docs)
                                   /\ docs[handler[h].id].type = handler[h].copy.type
           /\ handler[h].then \in {"idle", "stored", "analyse", "gate"}
           /\ ~OwesGate(handler[h])
<1>1. handler[h] \in Handler /\ HandlerOK(handler[h])
  BY DEF Inv, TypeOK
<1>2. handler[h].copy \in Justificatif
  BY <1>1 DEF HandlerOK
<1>3. QED
  BY <1>1, <1>2 DEF HandlerOK, Handler, Holding, OwesGate, Justificatif

LEMMA SelectForSaveStep ==
    ASSUME Inv, NEW h \in Handlers, SelectForSave(h) PROVE Inv'
<1>1. handler[h].pc = "select" /\ handler[h].pc \in Holding
  BY DEF SelectForSave, Holding
<1>2. PICK c \in SUBSET Columns :
        handler' = [handler EXCEPT ![h].pc = "update", ![h].changed = c]
  BY DEF SelectForSave
<1>3. PICK q : q = [handler[h] EXCEPT !.pc = "update", !.changed = c]
  OBVIOUS
<1>4. /\ q \in Handler /\ q.pc = "update" /\ q.id = handler[h].id
      /\ q.copy = handler[h].copy /\ q.then = handler[h].then
  BY <1>1, <1>3, CopyHeld DEF Handler, Pc
<1>5. handler' = [handler EXCEPT ![h] = q]
  BY <1>2, <1>3 DEF Inv, TypeOK
<1>6. Recorded
  BY StillRecorded DEF SelectForSave
<1>7. PICK j \in Justificatif : j = handler[h].copy /\ DocumentOK(j)
  BY <1>1, CopyHeld
<1>8. handler[h].copy.status \in READY_STATUSES => handler[h].then = "gate"
  BY <1>1 DEF Inv, HandlerOK
<1>9. HandlerOK(q)'
  <2>1. SavedOK(j)
    BY <1>6, <1>7, StillFit
  <2>2. DocumentOK(j)'
    BY <2>1 DEF SavedOK, DocumentOK, Evidence
  <2>3. docs' = docs
    BY <1>6 DEF Recorded
  <2>4. j = q.copy /\ (q.id # 0 => q.id \in 1..Len(docs') /\ docs'[q.id].type = q.copy.type)
    BY <1>1, <1>4, <1>7, <2>3, CopyHeld
  <2>5. QED
    BY <1>4, <1>7, <1>8, <2>2, <2>4 DEF HandlerOK
<1>10. QED
  BY <1>1, <1>4, <1>5, <1>6, <1>9, CopyHeld, RecordedGrows, HandlerStep
  DEF Recorded, Statuses, Inv, TypeOK

\* Where save() returns to.
AfterSaveRecord(q, id) ==
    CASE q.then = "idle" -> Idle
      [] q.then = "gate" -> [Idle EXCEPT !.op = "gate", !.pc = "gate"]
      [] OTHER -> [q EXCEPT !.pc = q.then, !.id = id, !.changed = {}]

LEMMA AfterSaveStep ==
    ASSUME Inv, NEW h \in Handlers, handler[h].pc = "update", NEW id \in Nat \ {0},
           AfterSave(h, id)
    PROVE  \E q \in Handler :
             /\ handler' = [handler EXCEPT ![h] = q]
             /\ q.pc = (IF handler[h].then = "idle" THEN "idle" ELSE handler[h].then)
             /\ handler[h].then = "gate" => OwesGate(q)
             /\ q.pc \in {"stored", "analyse"} => q.copy = handler[h].copy /\ q.id = id
<1>1. handler[h] \in Handler /\ handler[h].then \in {"idle", "stored", "analyse", "gate"}
      /\ handler \in [Handlers -> Handler]
  BY DEF Inv, TypeOK, Handler
<1>2. PICK q : q = AfterSaveRecord(handler[h], id)
  OBVIOUS
<1>3. CASE handler[h].then = "idle"
  BY <1>1, <1>2, <1>3, IdleOK DEF AfterSave, End, AfterSaveRecord, Idle
<1>4. CASE handler[h].then = "gate"
  <2>1. q = [Idle EXCEPT !.op = "gate", !.pc = "gate"]
    BY <1>2, <1>4 DEF AfterSaveRecord
  <2>2. q \in Handler /\ q.pc = "gate" /\ OwesGate(q)
    BY <2>1, IdleOK DEF Idle, Handler, Pc, OwesGate
  <2>3. handler' = [handler EXCEPT ![h] = q]
    BY <1>4, <2>1 DEF AfterSave
  <2>4. QED
    BY <1>4, <2>2, <2>3
<1>5. CASE handler[h].then \in {"stored", "analyse"}
  <2>1. q = [handler[h] EXCEPT !.pc = handler[h].then, !.id = id, !.changed = {}]
    BY <1>2, <1>5 DEF AfterSaveRecord
  <2>2. q \in Handler
    BY <1>1, <1>5, <2>1 DEF Handler, Pc
  <2>3. handler' = [handler EXCEPT ![h] = q]
    BY <1>1, <1>5, <2>1 DEF AfterSave
  <2>4. q.pc = handler[h].then /\ q.copy = handler[h].copy /\ q.id = id
    BY <1>1, <2>1 DEF Handler
  <2>5. QED
    BY <1>5, <2>2, <2>3, <2>4
<1>6. QED
  BY <1>1, <1>3, <1>4, <1>5

LEMMA InsertStep ==
    ASSUME Inv, NEW h \in Handlers, Insert(h) PROVE Inv'
<1>1. /\ handler[h].pc = "update" /\ handler[h].pc \in Holding
      /\ docs' = Append(docs, handler[h].copy)
      /\ UNCHANGED <<filed, verification, opened, vouched, interrupted>>
  BY DEF Insert, Holding
<1>2. PICK j \in Justificatif : /\ j = handler[h].copy /\ DocumentOK(j)
                                /\ j.type \in JustificatifType
  BY <1>1, CopyHeld
<1>3. Len(docs) \in Nat /\ docs \in Seq(Justificatif)
  BY DEF Inv, TypeOK
<1>4. /\ docs' \in Seq(Justificatif) /\ Len(docs') = Len(docs) + 1
      /\ \A i \in 1..Len(docs) : docs'[i] = docs[i]
      /\ docs'[Len(docs) + 1] = j
  BY <1>1, <1>2, <1>3, AppendProperties
<1>5. Grows
  BY <1>1, <1>3, <1>4 DEF Grows
<1>6. PICK n : n = Len(docs) + 1
  OBVIOUS
<1>7. PICK q \in Handler :
        /\ handler' = [handler EXCEPT ![h] = q]
        /\ q.pc = (IF handler[h].then = "idle" THEN "idle" ELSE handler[h].then)
        /\ handler[h].then = "gate" => OwesGate(q)
        /\ q.pc \in {"stored", "analyse"} => q.copy = j /\ q.id = n
  BY <1>1, <1>2, <1>3, <1>6, AfterSaveStep DEF Insert
<1>8. \A i \in 1..Len(docs') : DocumentOK(docs'[i])
  BY <1>2, <1>3, <1>4 DEF Inv
<1>9. HandlerOK(q)'
  <2>1. DocumentOK(j)'
    BY <1>1, <1>2 DEF DocumentOK, Evidence
  <2>2. n \in 1..Len(docs') /\ docs'[n].type = j.type
    BY <1>3, <1>4, <1>6
  <2>3. q.pc \in {"idle", "stored", "analyse", "gate"}
    BY <1>1, <1>7, CopyHeld
  <2>4. QED
    BY <1>7, <2>1, <2>2, <2>3 DEF HandlerOK, Holding
<1>10. \A i \in 1..Len(docs') :
          docs'[i].status \in READY_STATUSES
            => OwesGate(q) \/ (i \in 1..Len(docs) /\ docs[i].status \in READY_STATUSES)
  <2>1. j.status \in READY_STATUSES => handler[h].then = "gate"
    BY <1>1, <1>2 DEF Inv, HandlerOK
  <2>2. QED
    BY <1>3, <1>4, <1>7, <2>1
<1>11. QED
  BY <1>1, <1>4, <1>5, <1>7, <1>8, <1>9, <1>10, CopyHeld, WriteStep

\* The row written is fit if the row found and the copy were, whatever columns are
\* written: both are of one type.
LEMMA MergedOK ==
    ASSUME NEW row \in Justificatif, NEW copy \in Justificatif, NEW changed \in SUBSET Columns,
           DocumentOK(row), DocumentOK(copy), row.type = copy.type
    PROVE  LET m == Merged(row, copy, changed) IN
             /\ m \in Justificatif /\ m.type = row.type /\ DocumentOK(m)
             /\ m.status \in {row.status, copy.status}
<1>1. Merged(row, copy, changed) \in Justificatif
  BY DEF Merged, Justificatif
<1>2. QED
  BY <1>1 DEF Merged, DocumentOK

LEMMA UpdateStep ==
    ASSUME Inv, NEW h \in Handlers, Update(h) PROVE Inv'
<1>1. /\ handler[h].pc = "update" /\ handler[h].pc \in Holding /\ handler[h].id # 0
      /\ UNCHANGED <<filed, verification, opened, vouched, interrupted>>
  BY DEF Update, Holding
<1>2. PICK j \in Justificatif : /\ j = handler[h].copy /\ DocumentOK(j)
  BY <1>1, CopyHeld
<1>3. PICK n \in 1..Len(docs) : n = handler[h].id /\ docs[n].type = j.type
  BY <1>1, <1>2, CopyHeld
<1>4. Len(docs) \in Nat /\ docs \in Seq(Justificatif) /\ docs[n] \in Justificatif
      /\ DocumentOK(docs[n])
  BY <1>3, RowType DEF Inv, TypeOK
<1>5. PICK m : m = Merged(docs[n], j, handler[h].changed)
  OBVIOUS
<1>6. handler[h].changed \in SUBSET Columns
  BY DEF Inv, TypeOK, Handler
<1>7. /\ m \in Justificatif /\ m.type = docs[n].type /\ DocumentOK(m)
      /\ m.status \in {docs[n].status, j.status}
  BY <1>2, <1>3, <1>4, <1>5, <1>6, MergedOK
<1>8. docs' = [docs EXCEPT ![n] = m]
  BY <1>2, <1>3, <1>5 DEF Update
<1>9. /\ docs' \in Seq(Justificatif) /\ Len(docs') = Len(docs)
      /\ \A i \in 1..Len(docs) : docs'[i] = IF i = n THEN m ELSE docs[i]
  BY <1>4, <1>7, <1>8, ExceptSeq
<1>10. Grows
  BY <1>1, <1>4, <1>7, <1>9 DEF Grows
<1>11. PICK q \in Handler :
        /\ handler' = [handler EXCEPT ![h] = q]
        /\ q.pc = (IF handler[h].then = "idle" THEN "idle" ELSE handler[h].then)
        /\ handler[h].then = "gate" => OwesGate(q)
        /\ q.pc \in {"stored", "analyse"} => q.copy = j /\ q.id = n
  BY <1>1, <1>2, <1>3, <1>4, AfterSaveStep DEF Update
<1>12. \A i \in 1..Len(docs') : DocumentOK(docs'[i])
  BY <1>7, <1>9 DEF Inv
<1>13. HandlerOK(q)'
  <2>1. DocumentOK(j)'
    BY <1>1, <1>2 DEF DocumentOK, Evidence
  <2>2. n \in 1..Len(docs') /\ docs'[n].type = j.type
    BY <1>3, <1>7, <1>9
  <2>3. q.pc \in {"idle", "stored", "analyse", "gate"}
    BY <1>1, <1>11, CopyHeld
  <2>4. QED
    BY <1>2, <1>11, <2>1, <2>2, <2>3 DEF HandlerOK, Holding
<1>14. \A i \in 1..Len(docs') :
          docs'[i].status \in READY_STATUSES
            => OwesGate(q) \/ (i \in 1..Len(docs) /\ docs[i].status \in READY_STATUSES)
  <2>1. j.status \in READY_STATUSES => handler[h].then = "gate"
    BY <1>1, <1>2 DEF Inv, HandlerOK
  <2>2. QED
    BY <1>7, <1>9, <1>11, <2>1
<1>15. QED
  BY <1>1, <1>9, <1>10, <1>11, <1>12, <1>13, <1>14, CopyHeld, WriteStep

-----------------------------------------------------------------------------
(* The upload *)

\* Changes of a copy that keep it fit: its status, when not made ready.
LEMMA StatusOK ==
    ASSUME NEW j \in Justificatif, DocumentOK(j),
           NEW st \in JustificatifStatus \ READY_STATUSES
    PROVE  LET k == [j EXCEPT !.status = st] IN
             /\ k \in Justificatif /\ k.type = j.type /\ k.status = st /\ DocumentOK(k)
BY DEF Justificatif, DocumentOK

LEMMA UploadStep ==
    ASSUME Inv, NEW h \in Handlers, NEW t \in Types, NEW f \in Files, Upload(h, t, f)
    PROVE  Inv'
<1>1. PICK j : j = Received(t, f)
  OBVIOUS
<1>2. /\ j \in Justificatif /\ j.type = t /\ j.file = f /\ j.vid = Null /\ j.status = "recu"
  BY <1>1, TypesAssumption DEF Received, Justificatif, JustificatifStatus
<1>3. Recorded
  BY DEF Upload, Inv, TypeOK, Recorded, Statuses
<1>4. SavedOK(j)
  BY <1>2 DEF Upload, Inv, TypeOK, SavedOK, READY_STATUSES
<1>5. Start(h, "upload", "lookup", 0, j, "idle")
  BY <1>1 DEF Upload
<1>6. QED
  BY <1>2, <1>3, <1>4, <1>5, StartStep DEF READY_STATUSES

LEMMA LookupExistingStep ==
    ASSUME Inv, NEW h \in Handlers, LookupExisting(h) PROVE Inv'
<1>1. handler[h].pc = "lookup" /\ handler[h].pc \in Holding
  BY DEF LookupExisting, Holding
<1>2. Recorded
  BY StillRecorded DEF LookupExisting
<1>3. PICK j \in Justificatif : j = handler[h].copy /\ DocumentOK(j) /\ SavedOK(j)
  BY <1>1, <1>2, CopyHeld, StillFit
<1>4. j.status \notin READY_STATUSES
  BY <1>1, <1>3 DEF Inv, HandlerOK
<1>5. CASE Save(h, handler[h].copy, "stored")
  BY <1>1, <1>2, <1>3, <1>4, <1>5, SaveStep
<1>6. CASE End(h)
  BY <1>1, <1>2, <1>6, CopyHeld, EndStep DEF LookupExisting, Recorded, Inv, TypeOK
<1>7. ASSUME NEW i \in Latest(h), Replace(h, i) PROVE Inv'
  <2>1. i \in 1..Len(docs) /\ docs[i].type = j.type /\ i \in Nat
    BY <1>3, RowType DEF Latest, OfType, Inv
  <2>2. PICK q : q = [handler[h] EXCEPT !.pc = "select", !.id = i, !.then = "stored"]
    OBVIOUS
  <2>3. q \in Handler /\ q.pc = "select" /\ q.id = i /\ q.copy = j /\ q.then = "stored"
    BY <1>1, <1>3, <2>1, <2>2, CopyHeld DEF Handler, Pc
  <2>4. handler' = [handler EXCEPT ![h] = q]
    BY <1>7, <2>2 DEF Replace, Inv, TypeOK
  <2>5. HandlerOK(q)'
    BY <1>2, <1>3, <1>4, <2>1, <2>3
    DEF HandlerOK, Holding, Recorded, SavedOK, DocumentOK, Evidence
  <2>6. QED
    BY <1>1, <1>2, <2>3, <2>4, <2>5, CopyHeld, RecordedGrows, HandlerStep
    DEF Recorded, Statuses, Inv, TypeOK
<1>8. QED
  BY <1>5, <1>6, <1>7 DEF LookupExisting

LEMMA GoToYousignStep ==
    ASSUME Inv, NEW h \in Handlers, GoToYousign(h) PROVE Inv'
<1>1. handler[h].pc = "stored" /\ handler[h].pc \in Holding
  BY DEF GoToYousign, Holding
<1>2. Recorded
  BY StillRecorded DEF GoToYousign
<1>3. PICK j \in Justificatif : j = handler[h].copy /\ SavedOK(j)
  BY <1>1, <1>2, CopyHeld, StillFit
<1>4. PICK q : q = [handler[h] EXCEPT !.pc = "create"]
  OBVIOUS
<1>5. q \in Handler /\ q.pc = "create" /\ q.id = handler[h].id /\ q.copy = j
  BY <1>1, <1>3, <1>4, CopyHeld DEF Handler, Pc
<1>6. handler' = [handler EXCEPT ![h] = q]
  BY <1>4 DEF GoToYousign
<1>7. q.id # 0 => q.id \in 1..Len(docs) /\ docs[q.id].type = j.type
  BY <1>1, <1>3, <1>5, CopyHeld
<1>8. HandlerOK(q)'
  BY <1>2, <1>3, <1>5, <1>7 DEF HandlerOK, Holding, Recorded, SavedOK, DocumentOK, Evidence
<1>9. QED
  BY <1>1, <1>2, <1>5, <1>6, <1>8, CopyHeld, RecordedGrows, HandlerStep
  DEF Recorded, Statuses, Inv, TypeOK

LEMMA GoToAnalysisStep ==
    ASSUME Inv, NEW h \in Handlers, GoToAnalysis(h) PROVE Inv'
<1>1. handler[h].pc \in Holding
  BY DEF GoToAnalysis, Holding
<1>2. Recorded
  BY StillRecorded DEF GoToAnalysis
<1>3. PICK k : k = [handler[h].copy EXCEPT !.status = "en_cours_de_verification"]
  OBVIOUS
<1>4. /\ k \in Justificatif /\ k.type = handler[h].copy.type /\ DocumentOK(k)
      /\ k.status \notin READY_STATUSES
  <2>1. "en_cours_de_verification" \in JustificatifStatus \ READY_STATUSES
    BY DEF JustificatifStatus, READY_STATUSES
  <2>2. QED
    BY <1>1, <1>3, <2>1, CopyHeld, StatusOK
<1>5. Save(h, k, "analyse")
  BY <1>3 DEF GoToAnalysis
<1>6. QED
  BY <1>1, <1>2, <1>4, <1>5, StillFit, SaveStep

LEMMA CreatePendingStep ==
    ASSUME Inv, NEW h \in Handlers, CreatePending(h) PROVE Inv'
<1>1. handler[h].pc \in Holding
  BY DEF CreatePending, Holding
<1>2. Recorded
  BY <1>1, CopyHeld DEF CreatePending, Recorded, Statuses, Inv, TypeOK
<1>3. PICK j \in Justificatif : j = handler[h].copy /\ DocumentOK(j) /\ j.file \in Files
  BY <1>1, CopyHeld
<1>4. PICK k : k = [j EXCEPT !.vid = j.file, !.status = "en_cours_de_verification"]
  OBVIOUS
<1>5. /\ k \in Justificatif /\ k.type = j.type /\ k.status \notin READY_STATUSES
      /\ k.vid = j.file /\ k.file = j.file
  BY <1>3, <1>4 DEF Justificatif, JustificatifStatus, READY_STATUSES
<1>6. DocumentOK(k)
  BY <1>3, <1>5 DEF DocumentOK
<1>7. Save(h, k, "gate")
  BY <1>3, <1>4 DEF CreatePending
<1>8. QED
  BY <1>1, <1>2, <1>3, <1>5, <1>6, <1>7, StillFit, SaveStep

LEMMA RejectLocallyStep ==
    ASSUME Inv, NEW h \in Handlers, RejectLocally(h) PROVE Inv'
<1>1. handler[h].pc \in Holding
  BY DEF RejectLocally, Holding
<1>2. Recorded
  BY StillRecorded DEF RejectLocally
<1>3. PICK k : k = [handler[h].copy EXCEPT !.status = "a_revoir"]
  OBVIOUS
<1>4. k \in Justificatif /\ k.type = handler[h].copy.type /\ DocumentOK(k)
  BY <1>1, <1>3, CopyHeld, StatusOK DEF JustificatifStatus, READY_STATUSES
<1>5. Save(h, k, "gate")
  BY <1>3 DEF RejectLocally, ApplyYousignResult
<1>6. QED
  BY <1>1, <1>2, <1>4, <1>5, StillFit, SaveStep

LEMMA VerificationRejectedStep ==
    ASSUME Inv, NEW h \in Handlers, VerificationRejected(h) PROVE Inv'
<1>1. handler[h].pc \in Holding
  BY DEF VerificationRejected, Holding
<1>2. Recorded
  BY StillRecorded DEF VerificationRejected
<1>3. PICK k : k = [handler[h].copy EXCEPT !.status = "a_revoir"]
  OBVIOUS
<1>4. k \in Justificatif /\ k.type = handler[h].copy.type /\ DocumentOK(k)
      /\ k.status = "a_revoir"
  BY <1>1, <1>3, CopyHeld, StatusOK DEF JustificatifStatus, READY_STATUSES
<1>5. PICK q : q = [handler[h] EXCEPT !.op = "reject", !.pc = "select", !.then = "gate",
                                      !.changed = {}, !.copy = k]
  OBVIOUS
<1>6. q \in Handler /\ q.pc = "select" /\ q.id = handler[h].id /\ q.copy = k /\ q.then = "gate"
  BY <1>1, <1>4, <1>5, CopyHeld DEF Handler, Pc
<1>7. handler' = [handler EXCEPT ![h] = q]
  BY <1>3, <1>5 DEF VerificationRejected, ApplyYousignResult
<1>8. SavedOK(k) /\ (q.id # 0 => q.id \in 1..Len(docs) /\ docs[q.id].type = k.type)
  BY <1>1, <1>2, <1>4, <1>6, StillFit, CopyHeld
<1>9. HandlerOK(q)'
  BY <1>2, <1>4, <1>6, <1>8 DEF HandlerOK, Holding, Recorded, SavedOK, DocumentOK, Evidence
<1>10. QED
  BY <1>1, <1>2, <1>6, <1>7, <1>9, CopyHeld, RecordedGrows, HandlerStep
  DEF Recorded, Statuses, Inv, TypeOK

\* A copy made ready by a verdict on a file of its type.
LEMMA VerdictOK ==
    ASSUME Inv, Recorded, NEW j \in Justificatif, DocumentOK(j), NEW f \in Files, f \in vouched',
           filed[f] = j.type, NEW st \in READY_STATUSES
    PROVE  LET k == [j EXCEPT !.status = st] IN
             k \in Justificatif /\ k.type = j.type /\ k.status = st /\ SavedOK(k)
<1> DEFINE k == [j EXCEPT !.status = st]
<1>1. /\ k \in Justificatif /\ k.type = j.type /\ k.status = st /\ k.file = j.file
      /\ k.vid = j.vid
  BY DEF Justificatif, JustificatifStatus, READY_STATUSES
<1>2. filed[f] # Null /\ j.type # Null
  BY NullAssumption DEF Justificatif
<1>3. filed'[f] = j.type
  BY <1>2 DEF Recorded
<1>4. SavedOK(j)
  BY StillFit
<1>5. QED
  BY <1>1, <1>3, <1>4 DEF SavedOK

LEMMA CreateDecidedStep ==
    ASSUME Inv, NEW h \in Handlers, NEW verdict \in {"verified", "rejected"},
           CreateDecided(h, verdict)
    PROVE  Inv'
<1>1. handler[h].pc \in Holding
  BY DEF CreateDecided, Holding
<1>2. PICK j \in Justificatif : j = handler[h].copy /\ DocumentOK(j) /\ j.file \in Files
  BY <1>1, CopyHeld
<1>3. Recorded /\ (verdict = "verified" => j.file \in vouched')
  BY <1>2 DEF CreateDecided, Recorded, Statuses, Inv, TypeOK
<1>4. PICK i : i = [j EXCEPT !.vid = j.file]
  OBVIOUS
<1>5. i \in Justificatif /\ i.type = j.type /\ DocumentOK(i) /\ filed[j.file] = i.type
  BY <1>2, <1>4 DEF Justificatif, DocumentOK
<1>6. PICK k : k = ApplyYousignResult(i, verdict)
  OBVIOUS
<1>7. Save(h, k, "gate")
  BY <1>2, <1>4, <1>6 DEF CreateDecided
<1>8. k \in Justificatif /\ k.type = i.type /\ SavedOK(k)
  <2>1. CASE verdict = "verified"
    BY <1>2, <1>3, <1>5, <1>6, <2>1, VerdictOK DEF ApplyYousignResult, READY_STATUSES
  <2>2. CASE verdict = "rejected"
    <3>1. "a_revoir" \in JustificatifStatus \ READY_STATUSES
      BY DEF JustificatifStatus, READY_STATUSES
    <3>2. QED
      BY <1>3, <1>5, <1>6, <2>2, <3>1, StatusOK, StillFit DEF ApplyYousignResult
  <2>3. QED
    BY <2>1, <2>2
<1>9. QED
  BY <1>1, <1>2, <1>3, <1>5, <1>7, <1>8, SaveStep

LEMMA AnalyseStep ==
    ASSUME Inv, NEW h \in Handlers, NEW conforme \in BOOLEAN, Analyse(h, conforme)
    PROVE  Inv'
<1>1. handler[h].pc \in Holding
  BY DEF Analyse, Holding
<1>2. PICK j \in Justificatif : j = handler[h].copy /\ DocumentOK(j) /\ j.file \in Files
  BY <1>1, CopyHeld
<1>3. Recorded /\ (conforme => j.file \in vouched')
  BY <1>2 DEF Analyse, Recorded, Statuses, Inv, TypeOK
<1>4. PICK k : k = [j EXCEPT !.status = IF conforme THEN "pre_qualifie" ELSE "a_revoir"]
  OBVIOUS
<1>5. Save(h, k, "gate")
  BY <1>2, <1>4 DEF Analyse
<1>6. k \in Justificatif /\ k.type = j.type /\ SavedOK(k)
  <2>1. CASE conforme
    BY <1>2, <1>3, <1>4, <2>1, VerdictOK DEF DocumentOK, READY_STATUSES
  <2>2. CASE ~conforme
    <3>1. "a_revoir" \in JustificatifStatus \ READY_STATUSES
      BY DEF JustificatifStatus, READY_STATUSES
    <3>2. QED
      BY <1>2, <1>3, <1>4, <2>2, <3>1, StatusOK, StillFit
  <2>3. QED
    BY <2>1, <2>2
<1>7. QED
  BY <1>1, <1>2, <1>3, <1>5, <1>6, SaveStep

-----------------------------------------------------------------------------
(* YouSign's verdict *)

\* A step that moves no handler, changes no document and does not open the contract.
LEMMA OutsideStep ==
    ASSUME Inv, Recorded, handler' = handler PROVE Inv'
<1>1. TypeOK' /\ Grows
  BY RecordedGrows DEF Inv, TypeOK, Recorded, Statuses
<1>2. ASSUME NEW h \in Handlers PROVE HandlerOK(handler[h])'
  <2>1. PICK x \in Handler : x = handler[h] /\ HandlerOK(x)
    BY DEF Inv, TypeOK
  <2>2. HandlerOK(x)'
    BY <1>1, <2>1, HandlerGrows DEF Inv
  <2>3. QED
    BY <2>1, <2>2
<1>3. \A i \in 1..Len(docs) : DocumentOK(docs[i])'
  BY <1>1, RowType, DocumentGrows DEF Inv, Recorded
<1>4. opened' => \A t \in Required : Evidence(t)'
  BY <1>1, OpenedGrows DEF Recorded
<1>5. GateNotMissed'
  BY DEF Inv, GateNotMissed, Recorded, ContractDocumentsComplete, PickBestUpload, OfType, OwesGate
<1>6. QED
  BY <1>1, <1>2, <1>3, <1>4, <1>5 DEF Inv, Recorded

LEMMA VerifyStep ==
    ASSUME Inv, NEW f \in Files, NEW verdict \in {"verified", "rejected"}, Verify(f, verdict)
    PROVE  Inv'
<1>1. Recorded
  BY DEF Verify, Recorded, Statuses, Inv, TypeOK
<1>2. QED
  BY <1>1, OutsideStep DEF Verify

\* A row is a copy fit to be saved.
LEMMA RowRead ==
    ASSUME Inv, NEW i \in DOMAIN docs
    PROVE  /\ i \in 1..Len(docs) /\ i \in Nat /\ i # 0
           /\ docs[i] \in Justificatif /\ DocumentOK(docs[i])
           /\ docs[i].file \in Files /\ docs[i].vid \in Files \cup {Null}
BY RowType DEF Inv

\* Applying YouSign's verdict on the verification a copy refers to.
LEMMA ApplyOK ==
    ASSUME Inv, Recorded, NEW j \in Justificatif, DocumentOK(j), j.vid # Null,
           verification[j.vid] \in {"verified", "rejected"}
    PROVE  LET k == ApplyYousignResult(j, verification[j.vid]) IN
             /\ k \in Justificatif /\ k.type = j.type /\ SavedOK(k)
             /\ k.status \in READY_STATUSES => verification[j.vid] = "verified"
<1>1. j.vid \in Files /\ filed[j.vid] = j.type
  BY DEF Justificatif, DocumentOK
<1>2. CASE verification[j.vid] = "verified"
  <2>1. j.vid \in vouched'
    BY <1>1, <1>2 DEF Inv, Recorded
  <2>2. QED
    BY <1>1, <1>2, <2>1, VerdictOK DEF ApplyYousignResult, READY_STATUSES
<1>3. CASE verification[j.vid] = "rejected"
  <2>1. "a_revoir" \in JustificatifStatus \ READY_STATUSES
    BY DEF JustificatifStatus, READY_STATUSES
  <2>2. QED
    BY <1>3, <2>1, StatusOK, StillFit DEF ApplyYousignResult
<1>4. QED
  BY <1>2, <1>3

LEMMA PollStepLemma ==
    ASSUME Inv, NEW h \in Handlers, NEW i \in DOMAIN docs, Poll(h, i) PROVE Inv'
<1>1. Recorded
  BY StillRecorded DEF Poll
<1>2. SavedOK(docs[i])
  BY <1>1, RowRead, StillFit
<1>3. QED
  BY <1>1, <1>2, RowRead, StartStep DEF Poll

LEMMA FetchStep ==
    ASSUME Inv, NEW h \in Handlers, Fetch(h) PROVE Inv'
<1>1. handler[h].pc = "fetch" /\ handler[h].pc \in Holding
  BY DEF Fetch, Holding
<1>2. Recorded
  BY StillRecorded DEF Fetch
<1>3. PICK j \in Justificatif : j = handler[h].copy /\ DocumentOK(j) /\ j.vid # Null
  BY <1>1, CopyHeld DEF Inv, HandlerOK
<1>4. CASE verification[j.vid] \in {"verified", "rejected"}
  <2>1. PICK k : k = ApplyYousignResult(j, verification[j.vid])
    OBVIOUS
  <2>2. k \in Justificatif /\ k.type = j.type /\ SavedOK(k)
    BY <1>2, <1>3, <1>4, <2>1, ApplyOK
  <2>3. Save(h, k, "gate")
    BY <1>3, <1>4, <2>1 DEF Fetch
  <2>4. QED
    BY <1>1, <1>2, <1>3, <2>2, <2>3, SaveStep
<1>5. CASE verification[j.vid] \notin {"verified", "rejected"}
  <2>1. End(h)
    BY <1>3, <1>5 DEF Fetch
  <2>2. QED
    BY <1>1, <1>2, <2>1, CopyHeld, EndStep DEF Fetch, Recorded, Inv, TypeOK
<1>6. QED
  BY <1>4, <1>5

LEMMA ReceiveVerdictStep ==
    ASSUME Inv, NEW h \in Handlers, NEW i \in DOMAIN docs, NEW then \in {"gate", "idle"},
           ReceiveVerdict(h, i, then)
    PROVE  Inv'
<1>1. Recorded
  BY StillRecorded DEF ReceiveVerdict
<1>2. /\ docs[i].vid # Null /\ verification[docs[i].vid] \in {"verified", "rejected"}
      /\ verification[docs[i].vid] = "verified" => then = "gate"
  BY DEF ReceiveVerdict
<1>3. PICK j \in Justificatif : j = docs[i] /\ DocumentOK(j)
  BY RowRead
<1>4. PICK k : k = ApplyYousignResult(j, verification[j.vid])
  OBVIOUS
<1>5. /\ k \in Justificatif /\ k.type = j.type /\ SavedOK(k)
      /\ k.status \in READY_STATUSES => then = "gate"
  BY <1>1, <1>2, <1>3, <1>4, ApplyOK
<1>6. Start(h, "event", "select", i, k, then)
  BY <1>3, <1>4 DEF ReceiveVerdict
<1>7. QED
  BY <1>1, <1>3, <1>5, <1>6, RowRead, StartStep

-----------------------------------------------------------------------------
(* The agents *)

LEMMA ValidateStep ==
    ASSUME Inv, NEW h \in Handlers, NEW i \in DOMAIN docs, Validate(h, i) PROVE Inv'
<1>1. PICK j \in Justificatif : j = docs[i] /\ DocumentOK(j) /\ j.file \in Files
  BY RowRead
<1>2. Recorded /\ j.file \in vouched' /\ filed[j.file] = j.type
  BY <1>1 DEF Validate, Recorded, Statuses, Inv, TypeOK, DocumentOK
<1>3. PICK k : k = Accepted(j)
  OBVIOUS
<1>4. /\ k \in Justificatif /\ k.type = j.type /\ k.file = j.file /\ k.vid = j.vid
      /\ k.status = "accepte"
  BY <1>3 DEF Accepted, Justificatif, JustificatifStatus
<1>5. SavedOK(k)
  <2>1. filed'[j.file] = j.type
    BY <1>1, <1>2 DEF Validate
  <2>2. SavedOK(j)
    BY <1>1, <1>2, StillFit
  <2>3. QED
    BY <1>2, <1>4, <2>1, <2>2 DEF SavedOK
<1>6. Start(h, "validate", "select", i, k, "gate")
  BY <1>1, <1>3 DEF Validate
<1>7. QED
  BY <1>1, <1>2, <1>4, <1>5, <1>6, RowRead, StartStep

LEMMA RefuseStep ==
    ASSUME Inv, NEW h \in Handlers, NEW i \in DOMAIN docs, Refuse(h, i) PROVE Inv'
<1>1. Recorded
  BY StillRecorded DEF Refuse
<1>2. PICK j \in Justificatif : j = docs[i] /\ DocumentOK(j)
  BY RowRead
<1>3. PICK k : k = Refused(j)
  OBVIOUS
<1>4. /\ k \in Justificatif /\ k.type = j.type /\ k.file = j.file /\ k.vid = j.vid
      /\ k.status = "refuse"
  BY <1>3 DEF Refused, Justificatif, JustificatifStatus
<1>5. SavedOK(k) /\ k.status \notin READY_STATUSES
  BY <1>1, <1>2, <1>4, StillFit DEF SavedOK, READY_STATUSES
<1>6. Start(h, "refuse", "select", i, k, "idle")
  BY <1>2, <1>3 DEF Refuse
<1>7. QED
  BY <1>1, <1>2, <1>4, <1>5, <1>6, RowRead, StartStep

-----------------------------------------------------------------------------
(* The gate, and handlers that stop *)

LEMMA AskSignatureStep ==
    ASSUME Inv, NEW h \in Handlers, AskSignature(h) PROVE Inv'
<1>1. Recorded
  BY StillRecorded DEF AskSignature
<1>2. QED
  BY <1>1, StartStep DEF AskSignature

\* A handler goes from one read of the gate to the next.
LEMMA GateGoesOn ==
    ASSUME Inv, NEW h \in Handlers, handler[h].pc \in {"gate", "uploads"},
           NEW pc \in {"uploads", "advance"},
           handler' = [handler EXCEPT ![h].pc = pc],
           pc = "advance" => \A t \in Required : Evidence(t),
           UNCHANGED <<docs, filed, verification, opened, vouched, interrupted>>
    PROVE  Inv'
<1>1. Recorded
  BY StillRecorded
<1>2. handler[h] \in Handler
  BY DEF Inv, TypeOK
<1>3. PICK q : q = [handler[h] EXCEPT !.pc = pc]
  OBVIOUS
<1>4. q \in Handler /\ q.pc = pc /\ q.op = handler[h].op
  BY <1>2, <1>3 DEF Handler, Pc
<1>5. handler' = [handler EXCEPT ![h] = q]
  BY <1>3
<1>6. HandlerOK(q)'
  BY <1>4 DEF HandlerOK, Holding, Evidence
<1>7. OwesGate(handler[h]) => OwesGate(q)
  BY <1>4 DEF OwesGate
<1>8. /\ docs' = docs /\ opened' = opened /\ filed' \in [Files -> Types \cup {Null}] /\ Grows
      /\ vouched' \subseteq Files /\ verification' \in [Files -> Statuses]
      /\ \A f \in Files : verification'[f] = "verified" => f \in vouched'
      /\ interrupted' = interrupted
  BY <1>1, RecordedGrows DEF Recorded
<1>9. interrupted' \in BOOLEAN /\ (interrupted => interrupted')
  BY <1>8 DEF Inv, TypeOK
<1>10. OwesGate(handler[h])
         => OwesGate(q) \/ opened \/ interrupted' \/ ~ContractDocumentsComplete
  BY <1>7
<1>11. verification' \in [Files -> {"none", "pending", "verified", "rejected"}]
  BY <1>8 DEF Statuses
<1>12. QED
  BY <1>4, <1>5, <1>6, <1>8, <1>9, <1>10, <1>11, HandlerStep

LEMMA GateLoadStep ==
    ASSUME Inv, NEW h \in Handlers, GateLoad(h) PROVE Inv'
<1>1. CASE opened
  BY <1>1, EndStep DEF GateLoad, Inv, TypeOK
<1>2. CASE ~opened
  BY <1>2, GateGoesOn DEF GateLoad
<1>3. QED
  BY <1>1, <1>2

\* What the gate finds complete is vouched for.
LEMMA CompleteOnEvidence ==
    ASSUME Inv, ContractDocumentsComplete PROVE \A t \in Required : Evidence(t)
BY CompleteMeansReady DEF Inv, SomeReady, DocumentOK

LEMMA GateReadUploadsStep ==
    ASSUME Inv, NEW h \in Handlers, GateReadUploads(h) PROVE Inv'
<1>1. CASE ContractDocumentsComplete
  <2>1. \A t \in Required : Evidence(t)
    BY <1>1, CompleteOnEvidence
  <2>2. /\ handler[h].pc = "uploads" /\ handler' = [handler EXCEPT ![h].pc = "advance"]
        /\ UNCHANGED <<docs, filed, verification, opened, vouched, interrupted>>
    BY <1>1 DEF GateReadUploads
  <2>3. QED
    BY <2>1, <2>2, GateGoesOn
<1>2. CASE ~ContractDocumentsComplete
  BY <1>2, EndStep DEF GateReadUploads, Inv, TypeOK
<1>3. QED
  BY <1>1, <1>2

LEMMA AdvanceStep ==
    ASSUME Inv, NEW h \in Handlers, Advance(h) PROVE Inv'
<1>1. /\ handler[h].pc = "advance" /\ opened' = TRUE /\ handler' = [handler EXCEPT ![h] = Idle]
      /\ UNCHANGED <<docs, filed, verification, vouched, interrupted>>
  BY DEF Advance, End
<1>2. \A t \in Required : Evidence(t)
  BY <1>1 DEF Inv, HandlerOK
<1>3. TypeOK' /\ Grows
  BY <1>1, IdleOK DEF Inv, TypeOK, Grows
<1>4. \A g \in Handlers : HandlerOK(handler[g])'
  BY <1>1, <1>3, IdleOK, HandlersStep
<1>5. (\A i \in 1..Len(docs) : DocumentOK(docs[i])) /\ (\A t \in Required : Evidence(t)')
  BY <1>1, <1>2 DEF Inv, Evidence
<1>6. (\A i \in 1..Len(docs) : DocumentOK(docs[i]))'
  BY <1>1, <1>5 DEF DocumentOK, Evidence
<1>7. GateNotMissed'
  BY <1>1 DEF GateNotMissed
<1>8. QED
  BY <1>1, <1>3, <1>4, <1>5, <1>6, <1>7 DEF Inv

LEMMA StopStep ==
    ASSUME Inv, NEW h \in Handlers, Stop(h) PROVE Inv'
BY EndStep DEF Stop, Inv, TypeOK, OwesGate

-----------------------------------------------------------------------------
(* The theorems *)

LEMMA InitInv == Init => Inv
<1> SUFFICES ASSUME Init PROVE Inv
  OBVIOUS
<1>1. TypeOK
  <2>1. docs \in Seq(Justificatif)
    BY EmptySeq DEF Init
  <2>2. QED
    BY <2>1, IdleOK DEF Init, TypeOK
<1>2. Len(docs) = 0
  BY DEF Init
<1>3. \A h \in Handlers : HandlerOK(handler[h])
  BY IdleOK DEF Init
<1>4. GateNotMissed
  <2>1. ~ContractDocumentsComplete \/ Required = {}
    BY <1>1, <1>2, CompleteMeansReady DEF SomeReady
  <2>2. QED
    BY <2>1 DEF GateNotMissed
<1>5. QED
  BY <1>1, <1>2, <1>3, <1>4 DEF Init, Inv

LEMMA NextInv == Inv /\ [Next]_vars => Inv'
<1> SUFFICES ASSUME Inv, [Next]_vars PROVE Inv'
  OBVIOUS
<1>1. ASSUME NEW h \in Handlers, Arrival(h) PROVE Inv'
  BY <1>1, UploadStep, PollStepLemma, ReceiveVerdictStep, ValidateStep, RefuseStep,
     AskSignatureStep
  DEF Arrival
<1>2. ASSUME NEW h \in Handlers, Resume(h) PROVE Inv'
  BY <1>2, SelectForSaveStep, InsertStep, UpdateStep, LookupExistingStep, GoToYousignStep,
     GoToAnalysisStep, CreatePendingStep, RejectLocallyStep, VerificationRejectedStep,
     CreateDecidedStep, AnalyseStep, FetchStep, GateLoadStep, GateReadUploadsStep, AdvanceStep
  DEF Resume, AiAnswers
<1>3. ASSUME NEW h \in Handlers, Stop(h) PROVE Inv'
  BY <1>3, StopStep
<1>4. CASE YousignDecides
  BY <1>4, VerifyStep DEF YousignDecides
<1>5. CASE UNCHANGED vars
  BY <1>5, StillRecorded, OutsideStep DEF vars
<1>6. QED
  BY <1>1, <1>2, <1>3, <1>4, <1>5 DEF Next

\* Inv holds in every reachable state.
THEOREM Invariance == Spec => []Inv
BY InitInv, NextInv, PTL DEF Spec

\* The database, the handlers and the history keep their types.
THEOREM TypeCorrect == Spec => []TypeOK
<1>1. Inv => TypeOK
  BY DEF Inv
<1>2. QED
  BY <1>1, Invariance, PTL

\* The contract never goes on to the signature without, for each required type, a file
\* found conforming, however the handlers' writes of the rows mix.
THEOREM DocumentsVouched == Spec => []OpenedOnEvidence
<1>1. Inv => OpenedOnEvidence
  BY DEF Inv, OpenedOnEvidence, Evidence
<1>2. QED
  BY <1>1, Invariance, PTL

\* Complete documents never leave the contract waiting with nobody to open the gate,
\* unless a handler was stopped between its save and its gate.
THEOREM GateIsOpened == Spec => []GateNotMissed
<1>1. Inv => GateNotMissed
  BY DEF Inv
<1>2. QED
  BY <1>1, Invariance, PTL

-----------------------------------------------------------------------------
(* How many documents a type has.  An upload only plans an insertion while  *)
(* there is no document of its type, so all that ever insert one were at    *)
(* work at the same time: the documents of a type and the insertions still  *)
(* planned never outnumber the handlers.                                    *)

Filed == {"stored", "create", "analyse", "fetch"}

\* Uploads that have looked for a document of type t, found none, and will insert one.
Inserting(t) ==
    {h \in Handlers : /\ handler[h].pc \in {"select", "update"}
                      /\ handler[h].id = 0
                      /\ handler[h].copy.type = t}

Bounded ==
    /\ \A h \in Handlers : handler[h].pc \in Filed => handler[h].id # 0
    /\ \A t \in JustificatifType :
          Cardinality(OfType(t)) + Cardinality(Inserting(t)) <= Cardinality(Handlers)

LEMMA FiniteParts ==
    ASSUME TypeOK, NEW t
    PROVE  /\ IsFiniteSet(OfType(t)) /\ IsFiniteSet(Inserting(t))
           /\ Cardinality(OfType(t)) \in Nat /\ Cardinality(Inserting(t)) \in Nat
           /\ Cardinality(Inserting(t)) <= Cardinality(Handlers)
<1>1. DOMAIN docs = 1..Len(docs) /\ Len(docs) \in Nat
  BY DEF TypeOK
<1>2. OfType(t) \in SUBSET (1..Len(docs)) /\ Inserting(t) \in SUBSET Handlers
  BY <1>1 DEF OfType, Inserting
<1>3. IsFiniteSet(1..Len(docs))
  BY <1>1, FS_Interval
<1>4. QED
  BY <1>2, <1>3, HandlersAssumption, FS_Subset, FS_CardinalityType

\* Neither set gains anything.
LEMMA CountKept ==
    ASSUME NEW P, NEW C, IsFiniteSet(P), IsFiniteSet(C), NEW Q \in SUBSET P, NEW D \in SUBSET C
    PROVE  Cardinality(Q) + Cardinality(D) <= Cardinality(P) + Cardinality(C)
<1>1. Cardinality(Q) <= Cardinality(P) /\ Cardinality(D) <= Cardinality(C)
  BY FS_Subset
<1>2. /\ Cardinality(P) \in Nat /\ Cardinality(C) \in Nat
      /\ Cardinality(Q) \in Nat /\ Cardinality(D) \in Nat
  BY FS_CardinalityType, FS_Subset
<1>3. QED
  BY <1>1, <1>2

\* One set gains an element, the other loses one.
LEMMA CountMoved ==
    ASSUME NEW P, NEW C, IsFiniteSet(P), IsFiniteSet(C), NEW x, NEW h \in C
    PROVE  Cardinality(P \cup {x}) + Cardinality(C \ {h}) <= Cardinality(P) + Cardinality(C)
<1>1. /\ IsFiniteSet(P \cup {x}) /\ Cardinality(P \cup {x}) <= Cardinality(P) + 1
      /\ IsFiniteSet(C \ {h}) /\ Cardinality(C \ {h}) = Cardinality(C) - 1
  <2>1. Cardinality(P) \in Nat
    BY FS_CardinalityType
  <2>2. /\ IsFiniteSet(P \cup {x})
        /\ Cardinality(P \cup {x}) \in {Cardinality(P), Cardinality(P) + 1}
    BY FS_AddElement
  <2>3. IsFiniteSet(C \ {h}) /\ Cardinality(C \ {h}) = Cardinality(C) - 1
    BY FS_RemoveElement
  <2>4. QED
    BY <2>1, <2>2, <2>3
<1>2. /\ Cardinality(P) \in Nat /\ Cardinality(C) \in Nat
      /\ Cardinality(P \cup {x}) \in Nat /\ Cardinality(C \ {h}) \in Nat
  BY FS_AddElement, FS_RemoveElement, FS_CardinalityType
<1>3. QED
  BY <1>1, <1>2

\* Steps that keep the documents' types, and of which no insertion comes.
LEMMA BoundKept ==
    ASSUME TypeOK, Bounded,
           \A t \in JustificatifType :
              OfType(t)' \subseteq OfType(t) /\ Inserting(t)' \subseteq Inserting(t),
           \A g \in Handlers : handler'[g].pc \in Filed => handler'[g].id # 0
    PROVE  Bounded'
<1> SUFFICES ASSUME NEW t \in JustificatifType
             PROVE  Cardinality(OfType(t)') + Cardinality(Inserting(t)') <= Cardinality(Handlers)
  BY DEF Bounded
<1>1. PICK Q, D : Q = OfType(t)' /\ D = Inserting(t)'
  OBVIOUS
<1>2. Q \in SUBSET OfType(t) /\ D \in SUBSET Inserting(t)
  BY <1>1
<1>3. Cardinality(Q) + Cardinality(D) <= Cardinality(OfType(t)) + Cardinality(Inserting(t))
  BY <1>2, FiniteParts, CountKept
<1>4. /\ Cardinality(Q) \in Nat /\ Cardinality(D) \in Nat
      /\ Cardinality(OfType(t)) \in Nat /\ Cardinality(Inserting(t)) \in Nat
      /\ Cardinality(Handlers) \in Nat
  BY <1>2, FiniteParts, HandlersAssumption, FS_Subset, FS_CardinalityType
<1>5. Cardinality(OfType(t)) + Cardinality(Inserting(t)) <= Cardinality(Handlers)
  BY DEF Bounded
<1>6. QED
  BY <1>1, <1>3, <1>4, <1>5

\* A step of one handler that writes no document.
LEMMA BoundMove ==
    ASSUME TypeOK, Bounded, docs' = docs, NEW h \in Handlers,
           \A g \in Handlers \ {h} : handler'[g] = handler[g],
           handler'[h].pc \in Filed => handler'[h].id # 0,
           (handler'[h].pc \in {"select", "update"} /\ handler'[h].id = 0) =>
              /\ handler[h].pc \in {"select", "update"} /\ handler[h].id = 0
              /\ handler'[h].copy.type = handler[h].copy.type
    PROVE  Bounded'
<1>1. \A g \in Handlers : handler'[g].pc \in Filed => handler'[g].id # 0
  BY DEF Bounded
<1>2. ASSUME NEW t \in JustificatifType
      PROVE  OfType(t)' \subseteq OfType(t) /\ Inserting(t)' \subseteq Inserting(t)
  BY DEF OfType, Inserting
<1>3. QED
  BY <1>1, <1>2, BoundKept

\* What a handler's record shows before and after the step.
LEMMA BoundEnd ==
    ASSUME TypeOK, Bounded, docs' = docs, NEW h \in Handlers, End(h) PROVE Bounded'
<1>1. handler'[h] = Idle /\ \A g \in Handlers \ {h} : handler'[g] = handler[g]
  BY DEF End, TypeOK
<1>2. QED
  BY <1>1, BoundMove DEF Idle, Filed

LEMMA BoundStart ==
    ASSUME TypeOK, Bounded, docs' = docs, NEW h \in Handlers, NEW op, NEW pc, NEW id, NEW copy,
           NEW then, Start(h, op, pc, id, copy, then), id # 0 \/ pc \in {"lookup", "gate"}
    PROVE  Bounded'
<1>1. /\ handler'[h].pc = pc /\ handler'[h].id = id
      /\ \A g \in Handlers \ {h} : handler'[g] = handler[g]
  BY DEF Start, TypeOK
<1>2. QED
  BY <1>1, BoundMove DEF Filed

LEMMA BoundSave ==
    ASSUME TypeOK, Bounded, docs' = docs, NEW h \in Handlers, NEW copy, NEW then,
           Save(h, copy, then), handler[h].pc \in Filed
    PROVE  Bounded'
<1>1. /\ handler'[h].pc = "select" /\ handler'[h].id = handler[h].id
      /\ \A g \in Handlers \ {h} : handler'[g] = handler[g]
  BY DEF Save, TypeOK, Handler
<1>2. handler[h].id # 0
  BY DEF Bounded
<1>3. QED
  BY <1>1, <1>2, BoundMove DEF Filed

LEMMA BoundGoes ==
    ASSUME TypeOK, Bounded, docs' = docs, NEW h \in Handlers, NEW pc,
           handler' = [handler EXCEPT ![h].pc = pc],
           \/ pc = "create" /\ handler[h].pc = "stored"
           \/ pc \in {"uploads", "advance"}
    PROVE  Bounded'
<1>1. /\ handler'[h].pc = pc /\ handler'[h].id = handler[h].id
      /\ \A g \in Handlers \ {h} : handler'[g] = handler[g]
  BY DEF TypeOK, Handler
<1>2. QED
  BY <1>1, BoundMove DEF Bounded, Filed

LEMMA BoundArrival ==
    ASSUME TypeOK, Bounded, NEW h \in Handlers, Arrival(h) PROVE Bounded'
<1>1. \A i \in DOMAIN docs : i # 0
  BY DEF TypeOK
<1>2. ASSUME NEW t \in Types, NEW f \in Files, Upload(h, t, f) PROVE Bounded'
  BY <1>2, BoundStart DEF Upload
<1>3. ASSUME NEW i \in DOMAIN docs, Poll(h, i) PROVE Bounded'
  BY <1>1, <1>3, BoundStart DEF Poll
<1>4. ASSUME NEW i \in DOMAIN docs, NEW then, ReceiveVerdict(h, i, then) PROVE Bounded'
  BY <1>1, <1>4, BoundStart DEF ReceiveVerdict
<1>5. ASSUME NEW i \in DOMAIN docs, Validate(h, i) PROVE Bounded'
  BY <1>1, <1>5, BoundStart DEF Validate
<1>6. ASSUME NEW i \in DOMAIN docs, Refuse(h, i) PROVE Bounded'
  BY <1>1, <1>6, BoundStart DEF Refuse
<1>7. CASE AskSignature(h)
  BY <1>7, BoundStart DEF AskSignature
<1>8. QED
  BY <1>2, <1>3, <1>4, <1>5, <1>6, <1>7 DEF Arrival

\* A type that has a document has a latest one: counting back from the last row, one
\* that is nearest.
LEMMA NoLatest ==
    ASSUME TypeOK, NEW h \in Handlers, Latest(h) = {}
    PROVE  OfType(handler[h].copy.type) = {}
<1> DEFINE S == OfType(handler[h].copy.type)
           Back == {Len(docs) - i : i \in S}
           Less == {ss \in Nat \X Nat : ss[1] < ss[2]}
<1> SUFFICES ASSUME S # {} PROVE \E i \in S : \A j \in S : j <= i
  BY DEF Latest
<1>1. Len(docs) \in Nat /\ S \in SUBSET (1..Len(docs))
  BY DEF OfType, TypeOK
<1> HIDE DEF S
<1>2. Back \subseteq Nat /\ Back # {}
  <2>1. \A i \in S : Len(docs) - i \in Nat
    BY <1>1
  <2>2. QED
    BY <2>1
<1>3. \E x \in Back : \A y \in Back : ~(<<y, x>> \in Less)
  <2>1. IsWellFoundedOn(Less, Nat)
    BY NatLessThanWellFounded DEF OpToRel
  <2> HIDE DEF Less, Back
  <2>2. QED
    BY <1>2, <2>1, WFMin
<1>4. PICK x \in Back : \A y \in Back : ~(y < x)
  BY <1>2, <1>3
<1>5. PICK i \in S : x = Len(docs) - i
  OBVIOUS
<1>6. ASSUME NEW j \in S PROVE j <= i
  <2>1. Len(docs) - j \in Back
    OBVIOUS
  <2>2. ~(Len(docs) - j < Len(docs) - i)
    BY <1>4, <1>5, <2>1
  <2>3. i \in Nat /\ j \in Nat /\ Len(docs) \in Nat
    BY <1>1
  <2>4. QED
    BY <2>2, <2>3
<1>7. QED
  BY <1>5, <1>6

\* The look-up plans an insertion only while there is no document of the type.
LEMMA BoundLookup ==
    ASSUME Inv, Bounded, NEW h \in Handlers, LookupExisting(h) PROVE Bounded'
<1>1. /\ docs' = docs /\ handler[h].pc = "lookup" /\ TypeOK
      /\ handler[h] \in Handler /\ handler[h].copy.type \in JustificatifType
  BY CopyHeld DEF LookupExisting, Inv, Holding
<1>2. CASE End(h)
  BY <1>1, <1>2, BoundEnd
<1>3. ASSUME NEW i \in Latest(h), Replace(h, i) PROVE Bounded'
  <2>1. i # 0
    BY <1>1 DEF Latest, OfType, TypeOK
  <2>2. /\ handler'[h].pc = "select" /\ handler'[h].id = i
        /\ \A g \in Handlers \ {h} : handler'[g] = handler[g]
    BY <1>1, <1>3 DEF Replace, TypeOK, Handler
  <2>3. QED
    BY <1>1, <2>1, <2>2, BoundMove DEF Filed
<1>4. CASE Latest(h) = {} /\ Save(h, handler[h].copy, "stored")
  <2>1. PICK u \in JustificatifType : u = handler[h].copy.type
    BY <1>1
  <2>2. /\ handler'[h].pc = "select" /\ handler'[h].copy = handler[h].copy
        /\ \A g \in Handlers \ {h} : handler'[g] = handler[g]
    BY <1>1, <1>4 DEF Save, TypeOK, Handler
  <2>3. OfType(u) = {}
    BY <1>1, <1>4, <2>1, NoLatest
  <2>4. \A g \in Handlers : handler'[g].pc \in Filed => handler'[g].id # 0
    BY <2>2 DEF Bounded, Filed
  <2>5. ASSUME NEW t \in JustificatifType
        PROVE  Cardinality(OfType(t)') + Cardinality(Inserting(t)') <= Cardinality(Handlers)
    <3>1. OfType(t)' = OfType(t)
      BY <1>1 DEF OfType
    <3>2. CASE t = u
      <4>1. PICK D \in SUBSET Handlers : D = Inserting(t)'
        BY DEF Inserting
      <4>2. Cardinality(D) <= Cardinality(Handlers) /\ Cardinality(D) \in Nat
        BY HandlersAssumption, FS_Subset, FS_CardinalityType
      <4>3. Cardinality(OfType(t)') = 0
        BY <2>3, <3>1, <3>2, FS_EmptySet
      <4>4. QED
        BY <4>1, <4>2, <4>3
    <3>3. CASE t # u
      <4>1. PICK D : D = Inserting(t)'
        OBVIOUS
      <4>2. D \in SUBSET Inserting(t)
        BY <2>1, <2>2, <3>3, <4>1 DEF Inserting
      <4>3. Cardinality(OfType(t)) + Cardinality(D)
              <= Cardinality(OfType(t)) + Cardinality(Inserting(t))
        BY <1>1, <4>2, FiniteParts, CountKept
      <4>4. /\ Cardinality(OfType(t)) \in Nat /\ Cardinality(D) \in Nat
            /\ Cardinality(Inserting(t)) \in Nat /\ Cardinality(Handlers) \in Nat
        BY <1>1, <4>2, FiniteParts, HandlersAssumption, FS_Subset, FS_CardinalityType
      <4>5. Cardinality(OfType(t)) + Cardinality(Inserting(t)) <= Cardinality(Handlers)
        BY DEF Bounded
      <4>6. QED
        BY <3>1, <4>1, <4>3, <4>4, <4>5
    <3>4. QED
      BY <3>2, <3>3
  <2>6. QED
    BY <2>4, <2>5 DEF Bounded
<1>5. QED
  BY <1>2, <1>3, <1>4 DEF LookupExisting

\* What save() returns to.
LEMMA BoundAfterSave ==
    ASSUME Inv, NEW h \in Handlers, handler[h].pc = "update", NEW id \in Nat \ {0},
           AfterSave(h, id)
    PROVE  /\ \A g \in Handlers \ {h} : handler'[g] = handler[g]
           /\ handler'[h].pc \notin {"select", "update"}
           /\ handler'[h].pc \in Filed => handler'[h].id # 0
<1>1. PICK q \in Handler :
        /\ handler' = [handler EXCEPT ![h] = q]
        /\ q.pc = (IF handler[h].then = "idle" THEN "idle" ELSE handler[h].then)
        /\ q.pc \in {"stored", "analyse"} => q.id = id
  BY AfterSaveStep
<1>2. handler[h].then \in {"idle", "stored", "analyse", "gate"}
  BY CopyHeld DEF Holding
<1>3. QED
  BY <1>1, <1>2 DEF Inv, TypeOK, Filed

\* The insertion takes the place of the plan.
LEMMA BoundInsert ==
    ASSUME Inv, Bounded, NEW h \in Handlers, Insert(h) PROVE Bounded'
<1>1. /\ handler[h].pc = "update" /\ handler[h].id = 0 /\ TypeOK
      /\ docs' = Append(docs, handler[h].copy) /\ docs \in Seq(Justificatif) /\ Len(docs) \in Nat
      /\ handler[h].copy \in Justificatif /\ handler[h].copy.type \in JustificatifType
  BY CopyHeld DEF Insert, Inv, TypeOK, Holding
<1>2. PICK u \in JustificatifType : u = handler[h].copy.type
  BY <1>1
<1>3. PICK n \in Nat \ {0} : n = Len(docs) + 1
  BY <1>1
<1>4. /\ \A g \in Handlers \ {h} : handler'[g] = handler[g]
      /\ handler'[h].pc \notin {"select", "update"}
      /\ handler'[h].pc \in Filed => handler'[h].id # 0
  BY <1>1, <1>3, BoundAfterSave DEF Insert
<1>5. /\ DOMAIN docs = 1..Len(docs) /\ DOMAIN docs' = 1..n
      /\ \A i \in 1..Len(docs) : docs'[i] = docs[i]
      /\ docs'[n].type = u
  BY <1>1, <1>2, <1>3, AppendProperties
<1>6. \A g \in Handlers : handler'[g].pc \in Filed => handler'[g].id # 0
  BY <1>4 DEF Bounded
<1>7. ASSUME NEW t \in JustificatifType
      PROVE  Cardinality(OfType(t)') + Cardinality(Inserting(t)') <= Cardinality(Handlers)
  <2>1. PICK Q, D : Q = OfType(t)' /\ D = Inserting(t)'
    OBVIOUS
  <2>2. D \in SUBSET Inserting(t) /\ h \notin D
    BY <1>4, <2>1 DEF Inserting
  <2>3. Q \in SUBSET (OfType(t) \cup {n}) /\ (t # u => Q \in SUBSET OfType(t))
    BY <1>1, <1>3, <1>5, <2>1 DEF OfType
  <2>4. /\ IsFiniteSet(OfType(t)) /\ IsFiniteSet(Inserting(t))
        /\ Cardinality(OfType(t)) \in Nat /\ Cardinality(Inserting(t)) \in Nat
        /\ Cardinality(Handlers) \in Nat
    BY <1>1, FiniteParts, HandlersAssumption, FS_CardinalityType
  <2>5. Cardinality(Q) + Cardinality(D) <= Cardinality(OfType(t)) + Cardinality(Inserting(t))
    <3>1. CASE t # u
      BY <2>2, <2>3, <2>4, <3>1, CountKept
    <3>2. CASE t = u
      <4>1. h \in Inserting(t)
        BY <1>1, <1>2, <3>2 DEF Inserting
      <4>2. PICK P, C : P = OfType(t) \cup {n} /\ C = Inserting(t) \ {h}
        OBVIOUS
      <4>3. /\ IsFiniteSet(P) /\ IsFiniteSet(C) /\ Q \in SUBSET P /\ D \in SUBSET C
        BY <2>2, <2>3, <2>4, <4>2, FS_AddElement, FS_RemoveElement
      <4>4. Cardinality(Q) + Cardinality(D) <= Cardinality(P) + Cardinality(C)
        BY <4>3, CountKept
      <4>5. Cardinality(P) + Cardinality(C) <= Cardinality(OfType(t)) + Cardinality(Inserting(t))
        BY <2>4, <4>1, <4>2, CountMoved
      <4>6. /\ Cardinality(P) \in Nat /\ Cardinality(C) \in Nat
            /\ Cardinality(Q) \in Nat /\ Cardinality(D) \in Nat
        BY <4>3, FS_Subset, FS_CardinalityType
      <4>7. QED
        BY <2>4, <4>4, <4>5, <4>6
    <3>3. QED
      BY <3>1, <3>2
  <2>6. Cardinality(Q) \in Nat /\ Cardinality(D) \in Nat
    BY <2>2, <2>3, <2>4, FS_AddElement, FS_Subset, FS_CardinalityType
  <2>7. Cardinality(OfType(t)) + Cardinality(Inserting(t)) <= Cardinality(Handlers)
    BY DEF Bounded
  <2>8. QED
    BY <2>1, <2>4, <2>5, <2>6, <2>7
<1>8. QED
  BY <1>6, <1>7 DEF Bounded

\* An update leaves every row its type.
LEMMA BoundUpdate ==
    ASSUME Inv, Bounded, NEW h \in Handlers, Update(h) PROVE Bounded'
<1>1. /\ handler[h].pc = "update" /\ handler[h].id # 0 /\ TypeOK
      /\ handler[h].id \in 1..Len(docs) /\ Len(docs) \in Nat
  BY CopyHeld DEF Update, Inv, TypeOK, Holding
<1>2. PICK n \in Nat \ {0} : n = handler[h].id
  BY <1>1
<1>3. /\ \A g \in Handlers \ {h} : handler'[g] = handler[g]
      /\ handler'[h].pc \notin {"select", "update"}
      /\ handler'[h].pc \in Filed => handler'[h].id # 0
  BY <1>1, <1>2, BoundAfterSave DEF Update
<1>4. PICK m : m = Merged(docs[n], handler[h].copy, handler[h].changed)
  OBVIOUS
<1>4a. docs' = [docs EXCEPT ![n] = m] /\ m.type = docs[n].type
  BY <1>2, <1>4 DEF Update, Merged
<1>5. DOMAIN docs' = DOMAIN docs /\ \A i \in DOMAIN docs : docs'[i].type = docs[i].type
  BY <1>4a
<1>6. ASSUME NEW t \in JustificatifType
      PROVE  OfType(t)' \subseteq OfType(t) /\ Inserting(t)' \subseteq Inserting(t)
  BY <1>3, <1>5 DEF OfType, Inserting
<1>7. \A g \in Handlers : handler'[g].pc \in Filed => handler'[g].id # 0
  BY <1>3 DEF Bounded
<1>8. QED
  BY <1>1, <1>6, <1>7, BoundKept

LEMMA BoundResume ==
    ASSUME Inv, Bounded, NEW h \in Handlers, Resume(h) PROVE Bounded'
<1>1. TypeOK
  BY DEF Inv
<1>2. CASE SelectForSave(h)
  <2>1. /\ docs' = docs /\ handler[h].pc = "select" /\ handler'[h].pc = "update"
        /\ handler'[h].id = handler[h].id /\ handler'[h].copy = handler[h].copy
        /\ \A g \in Handlers \ {h} : handler'[g] = handler[g]
    BY <1>1, <1>2 DEF SelectForSave, TypeOK, Handler
  <2>2. QED
    BY <1>1, <2>1, BoundMove DEF Filed
<1>3. CASE VerificationRejected(h)
  <2>1. /\ docs' = docs /\ handler[h].pc \in {"create", "select", "update"}
        /\ handler'[h].pc = "select" /\ handler'[h].id = handler[h].id
        /\ handler'[h].copy.type = handler[h].copy.type
        /\ \A g \in Handlers \ {h} : handler'[g] = handler[g]
    BY <1>1, <1>3, CopyHeld
       DEF VerificationRejected, TypeOK, Handler, ApplyYousignResult, Holding, Justificatif
  <2>2. QED
    BY <1>1, <2>1, BoundMove DEF Bounded, Filed
<1>4. CASE GoToYousign(h)
  BY <1>1, <1>4, BoundGoes DEF GoToYousign
<1>5. CASE GoToAnalysis(h)
  BY <1>1, <1>5, BoundSave DEF GoToAnalysis, Filed
<1>6. CASE CreatePending(h)
  BY <1>1, <1>6, BoundSave DEF CreatePending, Filed
<1>7. CASE RejectLocally(h)
  BY <1>1, <1>7, BoundSave DEF RejectLocally, Filed
<1>8. ASSUME NEW verdict \in {"verified", "rejected"}, CreateDecided(h, verdict) PROVE Bounded'
  BY <1>1, <1>8, BoundSave DEF CreateDecided, Filed
<1>9. ASSUME NEW conforme \in AiAnswers, Analyse(h, conforme) PROVE Bounded'
  BY <1>1, <1>9, BoundSave DEF Analyse, Filed
<1>10. CASE Fetch(h)
  BY <1>1, <1>10, BoundSave, BoundEnd DEF Fetch, Filed
<1>11. CASE GateLoad(h) \/ GateReadUploads(h)
  BY <1>1, <1>11, BoundGoes, BoundEnd DEF GateLoad, GateReadUploads
<1>12. CASE Advance(h)
  BY <1>1, <1>12, BoundEnd DEF Advance
<1>13. QED
  BY <1>2, <1>3, <1>4, <1>5, <1>6, <1>7, <1>8, <1>9, <1>10, <1>11, <1>12, BoundLookup,
     BoundInsert, BoundUpdate
  DEF Resume

LEMMA BoundNext == Inv /\ Bounded /\ [Next]_vars => Bounded'
<1> SUFFICES ASSUME Inv, Bounded, [Next]_vars PROVE Bounded'
  OBVIOUS
<1>1. TypeOK
  BY DEF Inv
<1>2. ASSUME NEW h \in Handlers, Arrival(h) \/ Resume(h) \/ Stop(h) PROVE Bounded'
  BY <1>1, <1>2, BoundArrival, BoundResume, BoundEnd DEF Stop
<1>3. CASE handler' = handler /\ docs' = docs
  <2>1. \A t \in JustificatifType :
           OfType(t)' \subseteq OfType(t) /\ Inserting(t)' \subseteq Inserting(t)
    BY <1>3 DEF OfType, Inserting
  <2>2. \A g \in Handlers : handler'[g].pc \in Filed => handler'[g].id # 0
    BY <1>3 DEF Bounded
  <2>3. QED
    BY <1>1, <2>1, <2>2, BoundKept
<1>4. QED
  BY <1>2, <1>3 DEF Next, YousignDecides, Verify, vars

LEMMA InitBounded == Init => Bounded
<1> SUFFICES ASSUME Init PROVE Bounded
  OBVIOUS
<1>1. DOMAIN docs = {}
  BY EmptySeq DEF Init
<1>2. \A h \in Handlers : handler[h].pc = "idle"
  BY DEF Init, Idle
<1>3. ASSUME NEW t \in JustificatifType
      PROVE  Cardinality(OfType(t)) + Cardinality(Inserting(t)) <= Cardinality(Handlers)
  <2>1. OfType(t) = {} /\ Inserting(t) = {}
    BY <1>1, <1>2 DEF OfType, Inserting
  <2>2. Cardinality(Handlers) \in Nat
    BY HandlersAssumption, FS_CardinalityType
  <2>3. QED
    BY <2>1, <2>2, FS_EmptySet
<1>4. QED
  BY <1>2, <1>3 DEF Bounded, Filed

\* However many uploads, verdicts and failures there are, a type never has more
\* documents than there are handlers at work at once: uploads that meet may each insert
\* one, later ones never do.
THEOREM DocumentsStayFew == Spec => []DocumentsBounded
<1>1. Inv /\ Bounded => DocumentsBounded
  <2> SUFFICES ASSUME Inv, Bounded, NEW t \in Types
               PROVE  Cardinality(OfType(t)) <= Cardinality(Handlers)
    BY DEF DocumentsBounded
  <2>1. t \in JustificatifType
    BY TypesAssumption
  <2>2. /\ Cardinality(OfType(t)) \in Nat /\ Cardinality(Inserting(t)) \in Nat
        /\ Cardinality(Handlers) \in Nat
    BY FiniteParts, HandlersAssumption, FS_CardinalityType DEF Inv
  <2>3. Cardinality(OfType(t)) + Cardinality(Inserting(t)) <= Cardinality(Handlers)
    BY <2>1 DEF Bounded
  <2>4. QED
    BY <2>2, <2>3
<1>2. Inv /\ Inv' /\ Bounded /\ [Next]_vars => Bounded'
  BY BoundNext
<1>3. QED
  BY <1>1, <1>2, InitBounded, Invariance, PTL DEF Spec

-----------------------------------------------------------------------------
(* One handler at a time *)

OneHandler == \A g, h \in Handlers : g = h

\* A document, or a copy of one, refers to no verification but its own file's, and is
\* ready on account of the file it holds.
OwnFile(j) ==
    /\ j.vid # Null => j.vid = j.file
    /\ j.status \in READY_STATUSES => j.file \in vouched

\* What a handler has read stays so until it writes: the row its copy came from, that
\* there is none of the type, that the file may be replaced, the columns to write, and
\* that the documents are complete.
UpToDate(q) ==
    /\ q.pc \in Holding => OwnFile(q.copy)
    /\ q.pc \in {"stored", "create", "analyse", "fetch"} => q.id # 0 /\ q.copy = docs[q.id]
    /\ q.pc \in {"select", "update"} =>
          /\ q.id = 0 => OfType(q.copy.type) = {}
          /\ (q.id # 0 /\ docs[q.id].status \in READY_STATUSES) => q.copy.file = docs[q.id].file
    /\ (q.pc = "update" /\ q.id # 0) =>
          q.changed = {c \in Columns : q.copy[c] # docs[q.id][c]}
    /\ q.pc = "advance" => ContractDocumentsComplete

\* A type has one document, which uploads replace.
OneDocumentPerType ==
    \A i, j \in DOMAIN docs : docs[i].type = docs[j].type => i = j

SerialInv ==
    /\ Inv
    /\ \A i \in DOMAIN docs : OwnFile(docs[i])
    /\ OneDocumentPerType
    /\ \A h \in Handlers : UpToDate(handler[h])

\* A row is one document of its type.
LEMMA RowsApart ==
    ASSUME SerialInv, NEW i \in 1..Len(docs), NEW j \in 1..Len(docs), docs[i].type = docs[j].type
    PROVE  i = j
BY RowType DEF SerialInv, Inv, OneDocumentPerType

\* A step that writes no document, of the only handler.
LEMMA ReadStep ==
    ASSUME OneHandler, SerialInv, Inv', docs' = docs, vouched \subseteq vouched',
           NEW h \in Handlers, NEW q, handler' = [handler EXCEPT ![h] = q], UpToDate(q)'
    PROVE  SerialInv'
<1>1. \A g \in Handlers : handler'[g] = q
  BY DEF OneHandler, SerialInv, Inv, TypeOK
<1>2. \A g \in Handlers : UpToDate(handler[g])'
  BY <1>1 DEF UpToDate
<1>3. OneDocumentPerType' /\ \A i \in DOMAIN docs' : OwnFile(docs[i])'
  BY DEF SerialInv, OneDocumentPerType, OwnFile
<1>4. QED
  BY <1>2, <1>3 DEF SerialInv

\* A handler that has ended has read nothing.
LEMMA IdleUpToDate == UpToDate(Idle) /\ UpToDate(Idle)'
BY DEF UpToDate, Idle, Holding

LEMMA EndUpToDate ==
    ASSUME OneHandler, SerialInv, Inv', NEW h \in Handlers, End(h),
           docs' = docs, vouched \subseteq vouched'
    PROVE  SerialInv'
BY IdleUpToDate, ReadStep DEF End

\* A handler goes on with the copy it holds.
LEMMA MoveUpToDate ==
    ASSUME OneHandler, SerialInv, Inv', NEW h \in Handlers, NEW pc,
           handler' = [handler EXCEPT ![h].pc = pc],
           docs' = docs, vouched \subseteq vouched',
           \/ pc = "create" /\ handler[h].pc = "stored"
           \/ pc = "uploads"
           \/ pc = "advance" /\ ContractDocumentsComplete
    PROVE  SerialInv'
<1>1. PICK q : q = [handler[h] EXCEPT !.pc = pc]
  OBVIOUS
<1>2. handler' = [handler EXCEPT ![h] = q]
  BY <1>1 DEF SerialInv, Inv, TypeOK
<1>3. handler[h] \in Handler /\ UpToDate(handler[h])
  BY DEF SerialInv, Inv, TypeOK
<1>4. q.pc = pc /\ q.copy = handler[h].copy /\ q.id = handler[h].id
  BY <1>1, <1>3 DEF Handler
<1>5. ContractDocumentsComplete' <=> ContractDocumentsComplete
  BY DEF ContractDocumentsComplete, PickBestUpload, OfType
<1>6. UpToDate(q)'
  BY <1>3, <1>4, <1>5 DEF UpToDate, OwnFile, Holding
<1>7. QED
  BY <1>2, <1>6, ReadStep

\* A handler starts from the row it has read, or from nothing.
LEMMA StartUpToDate ==
    ASSUME OneHandler, SerialInv, Inv', NEW h \in Handlers,
           NEW op, NEW pc, NEW id, NEW copy, NEW then, Start(h, op, pc, id, copy, then),
           docs' = docs, vouched \subseteq vouched',
           \/ pc = "gate"
           \/ pc = "lookup" /\ copy.vid = Null /\ copy.status \notin READY_STATUSES
           \/ pc = "fetch" /\ id \in DOMAIN docs /\ copy = docs[id]
           \/ /\ pc = "select" /\ id \in DOMAIN docs
              /\ copy.file = docs[id].file /\ copy.vid = docs[id].vid
              /\ copy.status \in READY_STATUSES => copy.file \in vouched'
    PROVE  SerialInv'
<1>1. PICK q : q = [op |-> op, pc |-> pc, id |-> id, copy |-> copy, changed |-> {}, then |-> then]
  OBVIOUS
<1>2. handler' = [handler EXCEPT ![h] = q]
  BY <1>1 DEF Start
<1>3. q.pc = pc /\ q.id = id /\ q.copy = copy
  BY <1>1
<1>4. \A i \in DOMAIN docs : OwnFile(docs[i]) /\ i # 0
  BY RowRead DEF SerialInv
<1>5. UpToDate(q)'
  <2>1. CASE pc = "gate"
    BY <1>3, <2>1 DEF UpToDate, Holding
  <2>2. CASE pc = "lookup" /\ copy.vid = Null /\ copy.status \notin READY_STATUSES
    BY <1>3, <2>2 DEF UpToDate, OwnFile
  <2>3. CASE pc = "fetch" /\ id \in DOMAIN docs /\ copy = docs[id]
    BY <1>3, <1>4, <2>3 DEF UpToDate, OwnFile
  <2>4. CASE /\ pc = "select" /\ id \in DOMAIN docs
             /\ copy.file = docs[id].file /\ copy.vid = docs[id].vid
             /\ copy.status \in READY_STATUSES => copy.file \in vouched'
    BY <1>3, <1>4, <2>4 DEF UpToDate, OwnFile
  <2>5. QED
    BY <2>1, <2>2, <2>3, <2>4
<1>6. QED
  BY <1>2, <1>5, ReadStep

\* A handler gives its copy to save(): it is still the copy of its row, with another
\* status, or there is no document of the type.
LEMMA SaveUpToDate ==
    ASSUME OneHandler, SerialInv, Inv', NEW h \in Handlers, NEW copy, NEW then,
           Save(h, copy, then), docs' = docs, vouched \subseteq vouched',
           copy.type = handler[h].copy.type, copy.file = handler[h].copy.file,
           copy.vid \in {handler[h].copy.vid, copy.file},
           copy.status \in READY_STATUSES => copy.file \in vouched',
           \/ handler[h].pc \in {"stored", "create", "analyse", "fetch"}
           \/ handler[h].pc = "lookup" /\ OfType(copy.type) = {}
    PROVE  SerialInv'
<1>1. PICK q : q = [handler[h] EXCEPT !.pc = "select", !.copy = copy, !.then = then]
  OBVIOUS
<1>2. handler' = [handler EXCEPT ![h] = q]
  BY <1>1 DEF Save, SerialInv, Inv, TypeOK
<1>3. handler[h] \in Handler /\ UpToDate(handler[h]) /\ HandlerOK(handler[h])
  BY DEF SerialInv, Inv, TypeOK
<1>4. q.pc = "select" /\ q.copy = copy /\ q.id = handler[h].id
  BY <1>1, <1>3 DEF Handler
<1>5. OwnFile(copy)'
  BY <1>3 DEF UpToDate, OwnFile, Holding
<1>6. handler[h].pc = "lookup" => handler[h].id = 0
  BY <1>3 DEF HandlerOK
<1>7. UpToDate(q)'
  BY <1>3, <1>4, <1>5, <1>6 DEF UpToDate, OfType
<1>8. QED
  BY <1>2, <1>7, ReadStep

-----------------------------------------------------------------------------
(* One handler at a time: save() *)

\* The rows are as before but for one that is new or was written.
LEMMA WriteUpToDate ==
    ASSUME OneHandler, SerialInv, Inv', NEW h \in Handlers, handler[h].pc = "update",
           NEW n \in 1..Len(docs'), NEW row,
           docs'[n] = row, OwnFile(row), row.type = handler[h].copy.type,
           \A i \in 1..Len(docs') : i # n => i \in 1..Len(docs) /\ docs'[i] = docs[i],
           \A i \in 1..Len(docs) : docs[i].type = row.type => i = n,
           vouched' = vouched, AfterSave(h, n), row = handler[h].copy
    PROVE  SerialInv'
<1>1. /\ DOMAIN docs = 1..Len(docs) /\ Len(docs) \in Nat
      /\ DOMAIN docs' = 1..Len(docs') /\ Len(docs') \in Nat
  BY DEF SerialInv, Inv, TypeOK
<1>2. n \in Nat \ {0}
  BY <1>1
<1>3. PICK q \in Handler :
        /\ handler' = [handler EXCEPT ![h] = q]
        /\ q.pc = (IF handler[h].then = "idle" THEN "idle" ELSE handler[h].then)
        /\ q.pc \in {"stored", "analyse"} => q.copy = handler[h].copy /\ q.id = n
  BY <1>2, AfterSaveStep DEF SerialInv
<1>4. handler[h].then \in {"idle", "stored", "analyse", "gate"}
  BY CopyHeld DEF SerialInv, Holding
<1>5. \A i \in DOMAIN docs' : OwnFile(docs'[i])
  BY <1>1 DEF SerialInv
<1>6. (\A i \in DOMAIN docs' : OwnFile(docs'[i])) => \A i \in DOMAIN docs' : OwnFile(docs[i])'
  BY DEF OwnFile
<1>7. OneDocumentPerType'
  BY <1>1, RowsApart DEF OneDocumentPerType
<1>8. UpToDate(q)'
  BY <1>2, <1>3, <1>4 DEF UpToDate, OwnFile, Holding
<1>9. \A g \in Handlers : handler'[g] = q
  BY <1>3 DEF OneHandler, SerialInv, Inv, TypeOK
<1>10. \A g \in Handlers : UpToDate(handler[g])'
  BY <1>8, <1>9 DEF UpToDate
<1>11. QED
  BY <1>5, <1>6, <1>7, <1>10 DEF SerialInv

LEMMA InsertUpToDate ==
    ASSUME OneHandler, SerialInv, Inv', NEW h \in Handlers, Insert(h) PROVE SerialInv'
<1>1. /\ handler[h].pc = "update" /\ handler[h].pc \in Holding /\ handler[h].id = 0
      /\ docs' = Append(docs, handler[h].copy) /\ vouched' = vouched
      /\ AfterSave(h, Len(docs) + 1)
  BY DEF Insert, Holding
<1>2. Inv /\ handler[h].copy \in Justificatif
  BY <1>1, CopyHeld DEF SerialInv
<1>3. Len(docs) \in Nat /\ docs \in Seq(Justificatif) /\ DOMAIN docs = 1..Len(docs)
  BY <1>2 DEF Inv, TypeOK
<1>4. /\ Len(docs') = Len(docs) + 1
      /\ \A i \in 1..Len(docs) : docs'[i] = docs[i]
      /\ docs'[Len(docs) + 1] = handler[h].copy
  BY <1>1, <1>2, <1>3, AppendProperties
<1>5. OwnFile(handler[h].copy) /\ OfType(handler[h].copy.type) = {}
  BY <1>1 DEF SerialInv, UpToDate
<1>6. \A i \in 1..Len(docs) : docs[i].type # handler[h].copy.type
  BY <1>3, <1>5 DEF OfType
<1>7. \A i \in 1..Len(docs') : i # Len(docs) + 1 => i \in 1..Len(docs) /\ docs'[i] = docs[i]
  BY <1>3, <1>4
<1>8. Len(docs) + 1 \in 1..Len(docs')
  BY <1>3, <1>4
<1>9. QED
  BY <1>1, <1>4, <1>5, <1>6, <1>7, <1>8, WriteUpToDate

\* The copy has the row's type, and the columns in which it differs are all written.
LEMMA MergedIsCopy ==
    ASSUME NEW row \in Justificatif, NEW copy \in Justificatif, row.type = copy.type
    PROVE  Merged(row, copy, {c \in Columns : copy[c] # row[c]}) = copy
<1> DEFINE changed == {c \in Columns : copy[c] # row[c]}
<1>1. Merged(row, copy, changed) \in Justificatif
  BY DEF Merged, Justificatif
<1>2. /\ copy.status # row.status => "status" \in changed
      /\ copy.file # row.file => "file" \in changed
      /\ copy.vid # row.vid => "vid" \in changed
      /\ copy.decision # row.decision => "decision" \in changed
  BY DEF Columns
<1> HIDE DEF changed
<1> DEFINE m == Merged(row, copy, changed)
<1>3. /\ m.type = copy.type /\ m.status = copy.status /\ m.file = copy.file
      /\ m.vid = copy.vid /\ m.decision = copy.decision
  BY <1>2 DEF Merged
<1> HIDE DEF m
<1>4. m = copy
  BY <1>1, <1>3 DEF Justificatif, m
<1>5. QED
  BY <1>4 DEF m, changed

\* With one handler the row written is the copy.
LEMMA UpdateWritesCopy ==
    ASSUME SerialInv, NEW h \in Handlers, Update(h)
    PROVE  LET n == handler[h].id IN
             /\ n \in 1..Len(docs) /\ docs[n].type = handler[h].copy.type
             /\ Len(docs') = Len(docs)
             /\ \A i \in 1..Len(docs) :
                   docs'[i] = IF i = n THEN handler[h].copy ELSE docs[i]
<1>1. handler[h].pc = "update" /\ handler[h].pc \in Holding /\ handler[h].id # 0
  BY DEF Update, Holding
<1>2. PICK n \in 1..Len(docs) : n = handler[h].id /\ docs[n].type = handler[h].copy.type
  BY <1>1, CopyHeld DEF SerialInv
<1>3. /\ Len(docs) \in Nat /\ docs \in Seq(Justificatif) /\ docs[n] \in Justificatif
      /\ handler[h].copy \in Justificatif
  BY <1>1, <1>2, RowType, CopyHeld DEF SerialInv, Inv, TypeOK
<1>4. handler[h].changed = {c \in Columns : handler[h].copy[c] # docs[n][c]}
  BY <1>1, <1>2 DEF SerialInv, UpToDate
<1>5. docs' = [docs EXCEPT ![n] = handler[h].copy]
  <2>1. docs' = [docs EXCEPT ![n] = Merged(docs[n], handler[h].copy, handler[h].changed)]
    BY <1>2 DEF Update
  <2>2. Merged(docs[n], handler[h].copy, handler[h].changed) = handler[h].copy
    BY <1>2, <1>3, <1>4, MergedIsCopy
  <2>3. QED
    BY <2>1, <2>2
<1>6. QED
  BY <1>2, <1>3, <1>5, ExceptSeq

LEMMA UpdateUpToDate ==
    ASSUME OneHandler, SerialInv, Inv', NEW h \in Handlers, Update(h) PROVE SerialInv'
<1>1. /\ handler[h].pc = "update" /\ handler[h].pc \in Holding
      /\ vouched' = vouched /\ AfterSave(h, handler[h].id)
  BY DEF Update, Holding
<1>2. OwnFile(handler[h].copy)
  BY <1>1 DEF SerialInv, UpToDate
<1>3. PICK n \in 1..Len(docs) :
        /\ n = handler[h].id /\ docs[n].type = handler[h].copy.type
        /\ Len(docs') = Len(docs)
        /\ \A i \in 1..Len(docs) : docs'[i] = IF i = n THEN handler[h].copy ELSE docs[i]
  BY UpdateWritesCopy
<1>4. /\ n \in 1..Len(docs') /\ docs'[n] = handler[h].copy
      /\ \A i \in 1..Len(docs') : i # n => i \in 1..Len(docs) /\ docs'[i] = docs[i]
  BY <1>3
<1>5. \A i \in 1..Len(docs) : docs[i].type = handler[h].copy.type => i = n
  BY <1>3, RowsApart
<1>6. AfterSave(h, n)
  BY <1>1, <1>3
<1>7. QED
  BY <1>1, <1>2, <1>4, <1>5, <1>6, WriteUpToDate

LEMMA SelectUpToDate ==
    ASSUME OneHandler, SerialInv, Inv', NEW h \in Handlers, SelectForSave(h) PROVE SerialInv'
<1>1. handler[h].pc = "select" /\ docs' = docs /\ vouched' = vouched
  BY DEF SelectForSave
<1>2. PICK c : c = {d \in Columns : handler[h].id # 0
                                     /\ handler[h].copy[d] # docs[handler[h].id][d]}
  OBVIOUS
<1>3. PICK q : q = [handler[h] EXCEPT !.pc = "update", !.changed = c]
  OBVIOUS
<1>4. handler' = [handler EXCEPT ![h] = q]
  BY <1>2, <1>3 DEF SelectForSave, SerialInv, Inv, TypeOK
<1>5. handler[h] \in Handler /\ UpToDate(handler[h])
  BY DEF SerialInv, Inv, TypeOK
<1>6. /\ q.pc = "update" /\ q.copy = handler[h].copy /\ q.id = handler[h].id /\ q.changed = c
  BY <1>3, <1>5 DEF Handler
<1>7. q.id # 0 => q.changed = {d \in Columns : q.copy[d] # docs'[q.id][d]}
  BY <1>1, <1>2, <1>6
<1>8. UpToDate(q)'
  BY <1>1, <1>5, <1>6, <1>7 DEF UpToDate, OwnFile, OfType, Holding
<1>9. QED
  BY <1>1, <1>4, <1>8, ReadStep

-----------------------------------------------------------------------------
(* One handler at a time: the upload *)

LEMMA LookupUpToDate ==
    ASSUME OneHandler, SerialInv, Inv', NEW h \in Handlers, LookupExisting(h) PROVE SerialInv'
<1>1. /\ handler[h].pc = "lookup" /\ handler[h].pc \in Holding
      /\ docs' = docs /\ vouched' = vouched
  BY DEF LookupExisting, Holding
<1>2. OwnFile(handler[h].copy)
  BY <1>1 DEF SerialInv, UpToDate
<1>3. CASE Latest(h) = {} /\ Save(h, handler[h].copy, "stored")
  <2>1. \A i, j \in OfType(handler[h].copy.type) : i = j
    BY DEF OfType, SerialInv, OneDocumentPerType
  <2>2. \A i \in OfType(handler[h].copy.type) : i \in Nat
    BY RowRead DEF OfType, SerialInv
  <2>3. OfType(handler[h].copy.type) = {}
    BY <1>3, <2>1, <2>2 DEF Latest
  <2>4. QED
    BY <1>1, <1>2, <1>3, <2>3, SaveUpToDate DEF OwnFile
<1>4. CASE End(h)
  BY <1>1, <1>4, EndUpToDate
<1>5. ASSUME NEW i \in Latest(h), docs[i].status \in REPLACEABLE_JUSTIFICATIF_STATUSES,
             Replace(h, i)
      PROVE  SerialInv'
  <2>1. i \in DOMAIN docs /\ i # 0
    BY RowRead DEF Latest, OfType, SerialInv
  <2>2. docs[i].status \notin READY_STATUSES
    BY <1>5 DEF REPLACEABLE_JUSTIFICATIF_STATUSES, READY_STATUSES
  <2>3. PICK q : q = [handler[h] EXCEPT !.pc = "select", !.id = i, !.then = "stored"]
    OBVIOUS
  <2>4. handler' = [handler EXCEPT ![h] = q]
    BY <1>5, <2>3 DEF Replace, SerialInv, Inv, TypeOK
  <2>5. handler[h] \in Handler
    BY DEF SerialInv, Inv, TypeOK
  <2>6. q.pc = "select" /\ q.copy = handler[h].copy /\ q.id = i
    BY <2>3, <2>5 DEF Handler
  <2>7. UpToDate(q)'
    BY <1>1, <1>2, <2>1, <2>2, <2>6 DEF UpToDate, OwnFile
  <2>8. QED
    BY <1>1, <2>4, <2>7, ReadStep
<1>6. QED
  BY <1>3, <1>4, <1>5 DEF LookupExisting

-----------------------------------------------------------------------------
(* One handler at a time: verifications, verdicts and agents *)

\* The copy a handler holds while it waits for an answer is its row's.
LEMMA CopyOfRow ==
    ASSUME SerialInv, NEW h \in Handlers,
           handler[h].pc \in {"stored", "create", "analyse", "fetch"}
    PROVE  OwnFile(handler[h].copy) /\ handler[h].copy \in Justificatif
BY CopyHeld DEF SerialInv, UpToDate, Holding

LEMMA GoToAnalysisUpToDate ==
    ASSUME OneHandler, SerialInv, Inv', NEW h \in Handlers, GoToAnalysis(h) PROVE SerialInv'
<1>1. PICK j \in Justificatif : j = handler[h].copy /\ OwnFile(j)
  BY CopyOfRow DEF GoToAnalysis
<1>2. PICK k : k = [j EXCEPT !.status = "en_cours_de_verification"]
  OBVIOUS
<1>3. /\ k.type = j.type /\ k.file = j.file /\ k.vid = j.vid
      /\ k.status = "en_cours_de_verification"
  BY <1>2 DEF Justificatif
<1>4. Save(h, k, "analyse") /\ handler[h].pc = "stored" /\ docs' = docs /\ vouched' = vouched
  BY <1>1, <1>2 DEF GoToAnalysis
<1>5. QED
  BY <1>1, <1>3, <1>4, SaveUpToDate DEF READY_STATUSES

LEMMA CreatePendingUpToDate ==
    ASSUME OneHandler, SerialInv, Inv', NEW h \in Handlers, CreatePending(h) PROVE SerialInv'
<1>1. PICK j \in Justificatif : j = handler[h].copy /\ OwnFile(j)
  BY CopyOfRow DEF CreatePending
<1>2. PICK k : k = [j EXCEPT !.vid = j.file, !.status = "en_cours_de_verification"]
  OBVIOUS
<1>3. /\ k.type = j.type /\ k.file = j.file /\ k.vid = j.file
      /\ k.status = "en_cours_de_verification"
  BY <1>2 DEF Justificatif
<1>4. Save(h, k, "gate") /\ handler[h].pc = "create" /\ docs' = docs /\ vouched' = vouched
  BY <1>1, <1>2 DEF CreatePending
<1>5. QED
  BY <1>1, <1>3, <1>4, SaveUpToDate DEF READY_STATUSES

\* A verdict changes the status alone.
LEMMA VerdictFields ==
    ASSUME NEW j \in Justificatif, NEW verdict
    PROVE  LET k == ApplyYousignResult(j, verdict) IN
             /\ k.type = j.type /\ k.file = j.file /\ k.vid = j.vid
             /\ k.status \in READY_STATUSES => verdict = "verified"
BY DEF Justificatif, ApplyYousignResult, READY_STATUSES

LEMMA CreateDecidedUpToDate ==
    ASSUME OneHandler, SerialInv, Inv', NEW h \in Handlers,
           NEW verdict \in {"verified", "rejected"}, CreateDecided(h, verdict)
    PROVE  SerialInv'
<1>1. PICK j \in Justificatif : j = handler[h].copy /\ OwnFile(j)
  BY CopyOfRow DEF CreateDecided
<1>2. PICK i : i = [j EXCEPT !.vid = j.file]
  OBVIOUS
<1>3. i \in Justificatif /\ i.type = j.type /\ i.file = j.file /\ i.vid = j.file
  BY <1>2 DEF Justificatif
<1>4. PICK k : k = ApplyYousignResult(i, verdict)
  OBVIOUS
<1>5. /\ k.type = j.type /\ k.file = j.file /\ k.vid = j.file
      /\ k.status \in READY_STATUSES => verdict = "verified"
  BY <1>3, <1>4, VerdictFields
<1>6. /\ Save(h, k, "gate") /\ handler[h].pc = "create" /\ docs' = docs
      /\ vouched \subseteq vouched' /\ (verdict = "verified" => j.file \in vouched')
  BY <1>1, <1>2, <1>4 DEF CreateDecided
<1>7. QED
  BY <1>1, <1>5, <1>6, SaveUpToDate

LEMMA RejectLocallyUpToDate ==
    ASSUME OneHandler, SerialInv, Inv', NEW h \in Handlers, RejectLocally(h) PROVE SerialInv'
<1>1. handler[h].copy \in Justificatif
  BY CopyOfRow DEF RejectLocally
<1>2. PICK k : k = ApplyYousignResult(handler[h].copy, "rejected")
  OBVIOUS
<1>3. /\ k.type = handler[h].copy.type /\ k.file = handler[h].copy.file
      /\ k.vid = handler[h].copy.vid /\ k.status \notin READY_STATUSES
  BY <1>1, <1>2, VerdictFields
<1>4. Save(h, k, "gate") /\ handler[h].pc = "create" /\ docs' = docs /\ vouched' = vouched
  BY <1>2 DEF RejectLocally
<1>5. QED
  BY <1>3, <1>4, SaveUpToDate

LEMMA VerificationRejectedUpToDate ==
    ASSUME OneHandler, SerialInv, Inv', NEW h \in Handlers, VerificationRejected(h)
    PROVE  SerialInv'
<1>1. /\ handler[h].pc \in {"create", "select", "update"} /\ handler[h].pc \in Holding
      /\ docs' = docs /\ vouched' = vouched
  BY DEF VerificationRejected, Holding
<1>2. PICK j \in Justificatif : j = handler[h].copy /\ handler[h] \in Handler
  BY <1>1, CopyHeld DEF SerialInv
<1>3. PICK k : k = ApplyYousignResult(j, "rejected")
  OBVIOUS
<1>4. k.type = j.type /\ k.file = j.file /\ k.vid = j.vid /\ k.status \notin READY_STATUSES
  BY <1>3, VerdictFields
<1>5. PICK q : q = [handler[h] EXCEPT !.op = "reject", !.pc = "select", !.then = "gate",
                                      !.changed = {}, !.copy = k]
  OBVIOUS
<1>6. handler' = [handler EXCEPT ![h] = q]
  BY <1>2, <1>3, <1>5 DEF VerificationRejected
<1>7. q.pc = "select" /\ q.copy = k /\ q.id = handler[h].id
  BY <1>2, <1>5 DEF Handler
<1>8. UpToDate(handler[h])
  BY DEF SerialInv
<1>9. UpToDate(q)'
  BY <1>1, <1>2, <1>4, <1>7, <1>8 DEF UpToDate, OwnFile, OfType
<1>10. QED
  BY <1>1, <1>6, <1>9, ReadStep

LEMMA AnalyseUpToDate ==
    ASSUME OneHandler, SerialInv, Inv', NEW h \in Handlers, NEW conforme \in BOOLEAN,
           Analyse(h, conforme)
    PROVE  SerialInv'
<1>1. PICK j \in Justificatif : j = handler[h].copy /\ OwnFile(j)
  BY CopyOfRow DEF Analyse
<1>2. PICK k : k = [j EXCEPT !.status = IF conforme THEN "pre_qualifie" ELSE "a_revoir"]
  OBVIOUS
<1>3. /\ k.type = j.type /\ k.file = j.file /\ k.vid = j.vid
      /\ k.status \in READY_STATUSES => conforme
  BY <1>2 DEF Justificatif, READY_STATUSES
<1>4. /\ Save(h, k, "gate") /\ handler[h].pc = "analyse" /\ docs' = docs
      /\ vouched \subseteq vouched' /\ (conforme => j.file \in vouched')
  BY <1>1, <1>2 DEF Analyse
<1>5. QED
  BY <1>1, <1>3, <1>4, SaveUpToDate

\* A verdict found at YouSign is on the file of the verification.
LEMMA VerifiedIsVouched ==
    ASSUME SerialInv, NEW j \in Justificatif, OwnFile(j), j.vid # Null
    PROVE  verification[j.vid] = "verified" => j.file \in vouched
BY DEF SerialInv, Inv, OwnFile, Justificatif

LEMMA FetchUpToDate ==
    ASSUME OneHandler, SerialInv, Inv', NEW h \in Handlers, Fetch(h) PROVE SerialInv'
<1>1. handler[h].pc = "fetch" /\ docs' = docs /\ vouched' = vouched
  BY DEF Fetch
<1>2. PICK j \in Justificatif : j = handler[h].copy /\ OwnFile(j)
  BY <1>1, CopyOfRow
<1>3. j.vid # Null
  BY <1>1, <1>2 DEF SerialInv, Inv, HandlerOK
<1>4. CASE End(h)
  BY <1>1, <1>4, EndUpToDate
<1>5. CASE Save(h, ApplyYousignResult(j, verification[j.vid]), "gate")
  <2>1. PICK k : k = ApplyYousignResult(j, verification[j.vid])
    OBVIOUS
  <2>2. /\ k.type = j.type /\ k.file = j.file /\ k.vid = j.vid
        /\ k.status \in READY_STATUSES => j.file \in vouched
    BY <1>2, <1>3, <2>1, VerdictFields, VerifiedIsVouched
  <2>3. Save(h, k, "gate")
    BY <1>5, <2>1
  <2>4. QED
    BY <1>1, <1>2, <2>2, <2>3, SaveUpToDate
<1>6. QED
  BY <1>2, <1>4, <1>5 DEF Fetch

LEMMA ReceiveVerdictUpToDate ==
    ASSUME OneHandler, SerialInv, Inv', NEW h \in Handlers, NEW i \in DOMAIN docs,
           NEW then \in {"gate", "idle"}, ReceiveVerdict(h, i, then)
    PROVE  SerialInv'
<1>1. docs[i].vid # Null /\ docs' = docs /\ vouched' = vouched
  BY DEF ReceiveVerdict
<1>2. PICK j \in Justificatif : j = docs[i] /\ OwnFile(j)
  BY RowRead DEF SerialInv
<1>3. PICK k : k = ApplyYousignResult(j, verification[j.vid])
  OBVIOUS
<1>4. /\ k.file = j.file /\ k.vid = j.vid
      /\ k.status \in READY_STATUSES => j.file \in vouched
  BY <1>1, <1>2, <1>3, VerdictFields, VerifiedIsVouched
<1>5. Start(h, "event", "select", i, k, then)
  BY <1>2, <1>3 DEF ReceiveVerdict
<1>6. QED
  BY <1>1, <1>2, <1>4, <1>5, StartUpToDate

LEMMA ValidateUpToDate ==
    ASSUME OneHandler, SerialInv, Inv', NEW h \in Handlers, NEW i \in DOMAIN docs,
           Validate(h, i)
    PROVE  SerialInv'
<1>1. PICK j \in Justificatif : j = docs[i]
  BY RowRead DEF SerialInv
<1>2. PICK k : k = Accepted(j)
  OBVIOUS
<1>3. k.file = j.file /\ k.vid = j.vid
  BY <1>2 DEF Accepted, Justificatif
<1>4. /\ Start(h, "validate", "select", i, k, "gate")
      /\ docs' = docs /\ vouched \subseteq vouched' /\ j.file \in vouched'
  BY <1>1, <1>2 DEF Validate
<1>5. QED
  BY <1>1, <1>3, <1>4, StartUpToDate

LEMMA RefuseUpToDate ==
    ASSUME OneHandler, SerialInv, Inv', NEW h \in Handlers, NEW i \in DOMAIN docs, Refuse(h, i)
    PROVE  SerialInv'
<1>1. PICK j \in Justificatif : j = docs[i]
  BY RowRead DEF SerialInv
<1>2. PICK k : k = Refused(j)
  OBVIOUS
<1>3. k.file = j.file /\ k.vid = j.vid /\ k.status \notin READY_STATUSES
  BY <1>2 DEF Refused, Justificatif, READY_STATUSES
<1>4. Start(h, "refuse", "select", i, k, "idle") /\ docs' = docs /\ vouched' = vouched
  BY <1>1, <1>2 DEF Refuse
<1>5. QED
  BY <1>1, <1>3, <1>4, StartUpToDate

-----------------------------------------------------------------------------
(* One handler at a time: the theorems *)

LEMMA InitSerial == Init => SerialInv
<1> SUFFICES ASSUME Init PROVE SerialInv
  OBVIOUS
<1>1. Inv
  BY InitInv
<1>2. DOMAIN docs = {}
  <2>1. docs = <<>> /\ DOMAIN docs = 1..Len(docs) /\ Len(docs) = 0
    BY EmptySeq DEF Init
  <2>2. QED
    BY <2>1
<1>3. QED
  BY <1>1, <1>2, IdleUpToDate DEF Init, SerialInv, OneDocumentPerType

LEMMA ArrivalUpToDate ==
    ASSUME OneHandler, SerialInv, Inv', NEW h \in Handlers, Arrival(h) PROVE SerialInv'
<1>1. ASSUME NEW t \in Types, NEW f \in Files, Upload(h, t, f) PROVE SerialInv'
  BY <1>1, StartUpToDate DEF Upload, Received, READY_STATUSES
<1>2. ASSUME NEW i \in DOMAIN docs, Poll(h, i) PROVE SerialInv'
  BY <1>2, StartUpToDate DEF Poll
<1>3. CASE AskSignature(h)
  BY <1>3, StartUpToDate DEF AskSignature
<1>4. QED
  BY <1>1, <1>2, <1>3, ReceiveVerdictUpToDate, ValidateUpToDate, RefuseUpToDate DEF Arrival

LEMMA ResumeUpToDate ==
    ASSUME OneHandler, SerialInv, Inv', NEW h \in Handlers, Resume(h) PROVE SerialInv'
<1>1. CASE GoToYousign(h)
  BY <1>1, MoveUpToDate DEF GoToYousign
<1>2. CASE GateLoad(h)
  BY <1>2, EndUpToDate, MoveUpToDate DEF GateLoad
<1>3. CASE GateReadUploads(h)
  BY <1>3, EndUpToDate, MoveUpToDate DEF GateReadUploads
<1>4. CASE Advance(h)
  BY <1>4, EndUpToDate DEF Advance
<1>5. QED
  BY <1>1, <1>2, <1>3, <1>4, SelectUpToDate, InsertUpToDate, UpdateUpToDate, LookupUpToDate,
     GoToAnalysisUpToDate, CreatePendingUpToDate, RejectLocallyUpToDate,
     VerificationRejectedUpToDate, CreateDecidedUpToDate, AnalyseUpToDate, FetchUpToDate
  DEF Resume, AiAnswers

\* No handler moves.
LEMMA OutsideUpToDate ==
    ASSUME SerialInv, Inv', docs' = docs, handler' = handler, vouched \subseteq vouched'
    PROVE  SerialInv'
<1>1. OneDocumentPerType' /\ \A i \in DOMAIN docs' : OwnFile(docs[i])'
  BY DEF SerialInv, OneDocumentPerType, OwnFile
<1>2. ContractDocumentsComplete' <=> ContractDocumentsComplete
  BY DEF ContractDocumentsComplete, PickBestUpload, OfType
<1>3. \A h \in Handlers : UpToDate(handler[h])'
  BY <1>2 DEF SerialInv, UpToDate, OwnFile, OfType
<1>4. QED
  BY <1>1, <1>3 DEF SerialInv

LEMMA SerialNext ==
    ASSUME OneHandler PROVE SerialInv /\ [Next]_vars => SerialInv'
<1> SUFFICES ASSUME SerialInv, [Next]_vars PROVE SerialInv'
  OBVIOUS
<1>1. Inv'
  BY NextInv DEF SerialInv
<1>2. ASSUME NEW h \in Handlers, Arrival(h) \/ Resume(h) \/ Stop(h) PROVE SerialInv'
  BY <1>1, <1>2, ArrivalUpToDate, ResumeUpToDate, EndUpToDate DEF Stop
<1>3. CASE YousignDecides
  BY <1>1, <1>3, OutsideUpToDate DEF YousignDecides, Verify
<1>4. CASE UNCHANGED vars
  BY <1>1, <1>4, OutsideUpToDate DEF vars
<1>5. QED
  BY <1>2, <1>3, <1>4 DEF Next

\* With one handler at a time, what a handler has read is still so when it writes.
THEOREM SerialInvariance == ASSUME OneHandler PROVE Spec => []SerialInv
<1>1. SerialInv /\ [Next]_vars => SerialInv'
  BY SerialNext
<1>2. QED
  BY <1>1, InitSerial, PTL DEF Spec

\* With one handler at a time, a document is ready on account of the file it holds,
\* however late the verdicts on the files it held before.
THEOREM ReadyOnItsFile == ASSUME OneHandler PROVE Spec => []ReadyFileVouched
<1>1. SerialInv => ReadyFileVouched
  BY DEF SerialInv, ReadyFileVouched, OwnFile
<1>2. QED
  BY <1>1, SerialInvariance, PTL

=============================================================================
