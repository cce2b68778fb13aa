---------------------------- MODULE Justificatifs ----------------------------
(***************************************************************************)
(* The supporting documents of one contract: uploads, the automatic        *)
(* verification by YouSign or by the AI service, the polling and the       *)
(* webhooks that bring YouSign's verdict, the agents' decisions, and the   *)
(* gate that lets the contract leave "en_attente_de_justificatif".         *)
(*                                                                         *)
(* A handler is cut at its awaits.  It works on a private copy of the      *)
(* document it read, and TypeORM's save() selects the row again and writes *)
(* the columns in which the copy differs.                                  *)
(***************************************************************************)
EXTENDS Integers, Sequences, FiniteSets

CONSTANTS
    Handlers,     \* concurrent executions of a handler
    Files,        \* files that may be uploaded; a verification has its file's name
    Types,        \* the document types uploaded
    ProductCode,  \* the product the contract is for
    Decisions,    \* the decisions agents take: some of "accepted" and "refused"
    Null

JustificatifType == {"piece_identite", "justificatif_domicile", "certificat_scolarite",
    "attestation_bourse", "photo", "mandat_sepa", "attestation_caf", "autre"}

ASSUME TypesAssumption == Types \subseteq JustificatifType
ASSUME NullAssumption == Null \notin Files \cup JustificatifType
ASSUME HandlersAssumption == IsFiniteSet(Handlers)

VARIABLES
    docs,          \* table justificatifs, in the order of insertion
    filed,         \* the type a file was uploaded for
    verification,  \* YouSign: what is known of the verification of a file
    opened,        \* the contract has left "en_attente_de_justificatif"
    handler,       \* the handlers in progress
    vouched,       \* history: files found conforming by YouSign, the AI or an agent
    interrupted    \* history: a handler has stopped between a save and its gate

vars == <<docs, filed, verification, opened, handler, vouched, interrupted>>

-----------------------------------------------------------------------------
(* Which documents a product requires. *)

CONTRACT_CODE_TO_PRODUCT ==
    [imagine_r_junior     |-> "imagine_r_junior",
     imagine_r_scolaire   |-> "imagine_r_scolaire",
     imagine_r_etudiant   |-> "imagine_r_etudiant",
     navigo_annuel        |-> "navigo_annuel",
     navigo_annuel_senior |-> "navigo_senior",
     navigo_liberte_plus  |-> "liberte_plus",
     tst                  |-> "tst",
     amethyste            |-> "amethyste"]

PRODUCT_DOCUMENTS ==
    [imagine_r_junior   |-> {"identity_document", "photo", "school_certificate"},
     imagine_r_scolaire |-> {"identity_document", "photo", "school_certificate"},
     imagine_r_etudiant |-> {"identity_document", "photo", "student_certificate"},
     navigo_annuel      |-> {"identity_document", "photo", "address_proof", "payment_mandate"},
     navigo_senior      |-> {"identity_document", "photo"},
     liberte_plus       |-> {"identity_document", "payment_mandate"},
     tst                |-> {"identity_document", "social_right", "address_proof"},
     amethyste          |-> {"identity_document", "address_proof"}]

DOCUMENT_TO_JUSTIFICATIF ==
    [identity_document   |-> "piece_identite",
     school_certificate  |-> "certificat_scolarite",
     student_certificate |-> "certificat_scolarite",
     photo               |-> "photo",
     address_proof       |-> "justificatif_domicile",
     payment_mandate     |-> "mandat_sepa",
     social_right        |-> "attestation_caf"]

\* A product code nobody knows requires nothing.
RequiredJustificatifTypes(code) ==
    IF code \in DOMAIN CONTRACT_CODE_TO_PRODUCT
    THEN {DOCUMENT_TO_JUSTIFICATIF[d] : d \in PRODUCT_DOCUMENTS[CONTRACT_CODE_TO_PRODUCT[code]]}
    ELSE {}

Required == RequiredJustificatifTypes(ProductCode)

YOUSIGN_VERIFIED_TYPES == {"piece_identite"}

-----------------------------------------------------------------------------
(* The documents.  No code sets "incomplet" or "expire". *)

JustificatifStatus == {"recu", "en_cours_de_verification", "pre_qualifie", "a_revoir",
    "accepte", "refuse", "incomplet", "expire"}

\* decision: agentDecision with decidedBy, decidedAt and the agent's motive.
Justificatif ==
    [type     : JustificatifType,
     status   : JustificatifStatus,
     file     : Files,
     vid      : Files \cup {Null},
     decision : {"none", "accepted", "refused"}]

READY_STATUSES == {"pre_qualifie", "accepte"}
\* Mutant: an accepted document may be replaced.
ReplaceableOrAccepted ==
    {"a_revoir", "refuse", "incomplet", "recu", "en_cours_de_verification", "accepte"}

REPLACEABLE_JUSTIFICATIF_STATUSES ==
    {"a_revoir", "refuse", "incomplet", "recu", "en_cours_de_verification"}

UPLOAD_PRIORITY ==
    [accepte |-> 0, pre_qualifie |-> 1, en_cours_de_verification |-> 2, recu |-> 3,
     a_revoir |-> 4, refuse |-> 5, incomplet |-> 6, expire |-> 7]

OfType(t) == {i \in DOMAIN docs : docs[i].type = t}

\* The code prefers the latest of those with the best status; the choice does not
\* change the status found, and only the status is used.
PickBestUpload(t) ==
    CHOOSE i \in OfType(t) : \A j \in OfType(t) :
        UPLOAD_PRIORITY[docs[i].status] <= UPLOAD_PRIORITY[docs[j].status]

\* Mutant: a missing document does not count.
CompleteIfNoneMissing ==
    \A t \in Required : OfType(t) # {} => docs[PickBestUpload(t)].status \in READY_STATUSES

ContractDocumentsComplete ==
    \A t \in Required : /\ OfType(t) # {}
                        /\ docs[PickBestUpload(t)].status \in READY_STATUSES

-----------------------------------------------------------------------------
Pc == {"idle", "lookup", "stored", "create", "analyse", "fetch", "select", "update",
       "gate", "uploads", "advance"}

Columns == {"status", "file", "vid", "decision"}

Handler ==
    [op   : {"none", "upload", "reject", "poll", "event", "validate", "refuse", "gate", "sign"},
     pc   : Pc,
     id   : Nat,                             \* the row, 0: to be inserted
     copy : Justificatif \cup {Null},        \* its private copy of the document
     changed : SUBSET Columns,               \* save(): the columns TypeORM will write
     then : {"idle", "stored", "analyse", "gate"}]   \* where save() returns to

Idle == [op |-> "none", pc |-> "idle", id |-> 0, copy |-> Null, changed |-> {}, then |-> "idle"]

TypeOK ==
    /\ docs \in Seq(Justificatif)
    /\ filed \in [Files -> Types \cup {Null}]
    /\ verification \in [Files -> {"none", "pending", "verified", "rejected"}]
    /\ opened \in BOOLEAN
    /\ handler \in [Handlers -> Handler]
    /\ vouched \subseteq Files
    /\ interrupted \in BOOLEAN

Init ==
    /\ docs = <<>>
    /\ filed = [f \in Files |-> Null]
    /\ verification = [f \in Files |-> "none"]
    /\ opened = FALSE
    /\ handler = [h \in Handlers |-> Idle]
    /\ vouched = {}
    /\ interrupted = FALSE

\* The handler starts with a document it has just read, or made.
Start(h, op, pc, id, copy, then) ==
    /\ handler[h] = Idle
    /\ handler' = [handler EXCEPT ![h] =
          [op |-> op, pc |-> pc, id |-> id, copy |-> copy, changed |-> {}, then |-> then]]

\* The copy is changed and given to save(), which returns to then.
Save(h, copy, then) ==
    handler' = [handler EXCEPT ![h].pc = "select", ![h].copy = copy, ![h].then = then]

End(h) == handler' = [handler EXCEPT ![h] = Idle]

-----------------------------------------------------------------------------
(* Justificatif.accept, refuse and applyYousignResult. *)

Accepted(j) == [j EXCEPT !.status = "accepte", !.decision = "accepted"]
Refused(j) == [j EXCEPT !.status = "refuse", !.decision = "refused"]

\* "verified" stands for done, verified and success; "rejected" for failed,
\* inconclusive and rejected.
ApplyYousignResult(j, verdict) ==
    [j EXCEPT !.status = IF verdict = "verified" THEN "pre_qualifie" ELSE "a_revoir"]

-----------------------------------------------------------------------------
(* TypeOrmJustificatifRepository.save *)

SelectForSave(h) ==
    LET q == handler[h] IN
    /\ q.pc = "select"
    /\ handler' = [handler EXCEPT
          ![h].pc = "update",
          ![h].changed = {c \in Columns : q.id # 0 /\ q.copy[c] # docs[q.id][c]}]
    /\ UNCHANGED <<docs, filed, verification, opened, vouched, interrupted>>

Merged(row, copy, changed) ==
    [type     |-> row.type,
     status   |-> IF "status" \in changed THEN copy.status ELSE row.status,
     file     |-> IF "file" \in changed THEN copy.file ELSE row.file,
     vid      |-> IF "vid" \in changed THEN copy.vid ELSE row.vid,
     decision |-> IF "decision" \in changed THEN copy.decision ELSE row.decision]

AfterSave(h, id) ==
    CASE handler[h].then = "idle" -> End(h)
      [] handler[h].then = "gate" ->
            handler' = [handler EXCEPT ![h] = [Idle EXCEPT !.op = "gate", !.pc = "gate"]]
      [] OTHER ->
            handler' = [handler EXCEPT ![h].pc = handler[h].then, ![h].id = id, ![h].changed = {}]

Insert(h) ==
    LET q == handler[h] IN
    /\ q.pc = "update" /\ q.id = 0
    /\ docs' = Append(docs, q.copy)
    /\ AfterSave(h, Len(docs) + 1)
    /\ UNCHANGED <<filed, verification, opened, vouched, interrupted>>

Update(h) ==
    LET q == handler[h] IN
    /\ q.pc = "update" /\ q.id # 0
    /\ docs' = [docs EXCEPT ![q.id] = Merged(@, q.copy, q.changed)]
    /\ AfterSave(h, q.id)
    /\ UNCHANGED <<filed, verification, opened, vouched, interrupted>>

-----------------------------------------------------------------------------
(* UploadJustificatifUseCase.execute.  A request refused for its owner, its  *)
(* MIME type, its size or the missing name of the holder changes nothing and *)
(* is not modelled.                                                          *)

Received(t, f) ==
    [type |-> t, status |-> "recu", file |-> f, vid |-> Null, decision |-> "none"]

\* writeFile; the file keeps its place on the disk whatever comes after.
Upload(h, t, f) ==
    /\ filed[f] = Null
    /\ filed' = [filed EXCEPT ![f] = t]
    /\ Start(h, "upload", "lookup", 0, Received(t, f), "idle")
    /\ UNCHANGED <<docs, verification, opened, vouched, interrupted>>

\* Mutant: the verification of the file replaced stays attached to the document.
ReplacedKeepsVerification(h, i) ==
    handler' = [handler EXCEPT ![h].pc = "select", ![h].id = i, ![h].then = "stored",
                               ![h].copy.vid = docs[i].vid]

Replace(h, i) ==
    handler' = [handler EXCEPT ![h].pc = "select", ![h].id = i, ![h].then = "stored"]

\* Mutant: the newest document of the type is not looked for.
LatestForgotten(h) == {}

\* findByContractIdAndType: the latest document of the type.
Latest(h) ==
    {i \in OfType(handler[h].copy.type) : \A j \in OfType(handler[h].copy.type) : j <= i}

LookupExisting(h) ==
    /\ handler[h].pc = "lookup"
    /\ \/ /\ Latest(h) = {}
          /\ Save(h, handler[h].copy, "stored")
       \/ \E i \in Latest(h) :
             IF docs[i].status \in REPLACEABLE_JUSTIFICATIF_STATUSES
             THEN Replace(h, i)
             ELSE End(h)     \* 409
    /\ UNCHANGED <<docs, filed, verification, opened, vouched, interrupted>>

\* runVerification, its first branch: to YouSign ...
GoToYousign(h) ==
    /\ handler[h].pc = "stored"
    /\ handler[h].copy.type \in YOUSIGN_VERIFIED_TYPES
    /\ handler' = [handler EXCEPT ![h].pc = "create"]
    /\ UNCHANGED <<docs, filed, verification, opened, vouched, interrupted>>

\* ... and its second: saved as being verified, then analysed by the AI service.
GoToAnalysis(h) ==
    LET j == handler[h].copy IN
    /\ handler[h].pc = "stored"
    /\ j.type \notin YOUSIGN_VERIFIED_TYPES
    /\ Save(h, [j EXCEPT !.status = "en_cours_de_verification"], "analyse")
    /\ UNCHANGED <<docs, filed, verification, opened, vouched, interrupted>>

\* createIdentityVerification answers that the verification is pending.
CreatePending(h) ==
    LET j == handler[h].copy IN
    /\ handler[h].pc = "create"
    /\ verification' = [verification EXCEPT ![j.file] = "pending"]
    /\ Save(h, [j EXCEPT !.vid = j.file, !.status = "en_cours_de_verification"], "gate")
    /\ UNCHANGED <<docs, filed, opened, vouched, interrupted>>

\* It answers with a verdict at once.
CreateDecided(h, verdict) ==
    LET j == handler[h].copy IN
    /\ handler[h].pc = "create"
    /\ verification' = [verification EXCEPT ![j.file] = verdict]
    /\ vouched' = IF verdict = "verified" THEN vouched \cup {j.file} ELSE vouched
    /\ Save(h, ApplyYousignResult([j EXCEPT !.vid = j.file], verdict), "gate")
    /\ UNCHANGED <<docs, filed, opened, interrupted>>

\* The sandbox client refuses the file's name itself: there is no verification to
\* refer to.
RejectLocally(h) ==
    /\ handler[h].pc = "create"
    /\ Save(h, ApplyYousignResult(handler[h].copy, "rejected"), "gate")
    /\ UNCHANGED <<docs, filed, verification, opened, vouched, interrupted>>

\* The catch block: YouSign's call, or the save that follows it, has failed.
VerificationRejected(h) ==
    LET q == handler[h] IN
    /\ q.op = "upload"
    /\ \/ q.pc = "create"
       \/ /\ q.pc \in {"select", "update"}
          /\ q.then = "gate"
          /\ q.copy.type \in YOUSIGN_VERIFIED_TYPES
    /\ handler' = [handler EXCEPT
          ![h] = [q EXCEPT !.op = "reject", !.pc = "select", !.then = "gate", !.changed = {},
                           !.copy = ApplyYousignResult(q.copy, "rejected")]]
    /\ UNCHANGED <<docs, filed, verification, opened, vouched, interrupted>>

\* Mutant: the document is ready and the contract is not looked at.
AnalyseWithoutGate(h, conforme) ==
    LET j == handler[h].copy IN
    /\ handler[h].pc = "analyse"
    /\ vouched' = IF conforme THEN vouched \cup {j.file} ELSE vouched
    /\ Save(h, [j EXCEPT !.status = IF conforme THEN "pre_qualifie" ELSE "a_revoir"], "idle")
    /\ UNCHANGED <<docs, filed, verification, opened, interrupted>>

\* The answers of the AI service: the model's for an image; without a key, for a PDF or
\* on an error always "conforme".  The three MIME types let through reach no other case.
AiAnswers == BOOLEAN

Analyse(h, conforme) ==
    LET j == handler[h].copy IN
    /\ handler[h].pc = "analyse"
    /\ vouched' = IF conforme THEN vouched \cup {j.file} ELSE vouched
    /\ Save(h, [j EXCEPT !.status = IF conforme THEN "pre_qualifie" ELSE "a_revoir"], "gate")
    /\ UNCHANGED <<docs, filed, verification, opened, interrupted>>

-----------------------------------------------------------------------------
(* YouSign's verdict: the poll and the webhook. *)

\* External: YouSign decides.
Verify(f, verdict) ==
    /\ verification[f] = "pending"
    /\ verification' = [verification EXCEPT ![f] = verdict]
    /\ vouched' = IF verdict = "verified" THEN vouched \cup {f} ELSE vouched
    /\ UNCHANGED <<docs, filed, opened, handler, interrupted>>

\* syncPendingVerification on one of the rows GET /justificatifs or its /pending
\* list has read; Promise.all makes each of them a concurrent activity.
Poll(h, i) ==
    /\ docs[i].status = "en_cours_de_verification"
    /\ docs[i].vid # Null
    /\ Start(h, "poll", "fetch", i, docs[i], "idle")
    /\ UNCHANGED <<docs, filed, verification, opened, vouched, interrupted>>

\* Mutant: a rejection is not recognised as the end of a verification.
FetchVerifiedOnly(h) ==
    LET j == handler[h].copy IN
    /\ handler[h].pc = "fetch"
    /\ IF verification[j.vid] = "verified"
       THEN Save(h, ApplyYousignResult(j, "verified"), "gate")
       ELSE End(h)
    /\ UNCHANGED <<docs, filed, verification, opened, vouched, interrupted>>

Fetch(h) ==
    LET j == handler[h].copy IN
    /\ handler[h].pc = "fetch"
    /\ IF verification[j.vid] \in {"verified", "rejected"}
       THEN Save(h, ApplyYousignResult(j, verification[j.vid]), "gate")
       ELSE End(h)
    /\ UNCHANGED <<docs, filed, verification, opened, vouched, interrupted>>

\* An event of YouSign, from the moment its handler has found the document by the
\* verification's id.  It may be delivered late, twice or never.  The handler of a
\* "done" event goes to the gate, the one of a "failed" event does not.
ReceiveVerdict(h, i, then) ==
    /\ docs[i].vid # Null
    /\ \/ verification[docs[i].vid] = "verified" /\ then = "gate"
       \/ verification[docs[i].vid] = "rejected" /\ then \in {"gate", "idle"}
    /\ Start(h, "event", "select", i,
             ApplyYousignResult(docs[i], verification[docs[i].vid]), then)
    /\ UNCHANGED <<docs, filed, verification, opened, vouched, interrupted>>

-----------------------------------------------------------------------------
(* The agents' decisions: ValidateJustificatifUseCase, RefuseJustificatifUseCase. *)

Validate(h, i) ==
    /\ "accepted" \in Decisions
    /\ Start(h, "validate", "select", i, Accepted(docs[i]), "gate")
    /\ vouched' = vouched \cup {docs[i].file}
    /\ UNCHANGED <<docs, filed, verification, opened, interrupted>>

Refuse(h, i) ==
    /\ "refused" \in Decisions
    /\ Start(h, "refuse", "select", i, Refused(docs[i]), "idle")
    /\ UNCHANGED <<docs, filed, verification, opened, vouched, interrupted>>

-----------------------------------------------------------------------------
(* ContractDocumentGateService.tryAdvanceContract, at the end of the handlers *)
(* above or called by the signature use case.                                 *)

AskSignature(h) ==
    /\ Start(h, "sign", "gate", 0, Null, "idle")
    /\ UNCHANGED <<docs, filed, verification, opened, vouched, interrupted>>

GateLoad(h) ==
    /\ handler[h].pc = "gate"
    /\ IF opened THEN End(h) ELSE handler' = [handler EXCEPT ![h].pc = "uploads"]
    /\ UNCHANGED <<docs, filed, verification, opened, vouched, interrupted>>

GateReadUploads(h) ==
    /\ handler[h].pc = "uploads"
    /\ IF ContractDocumentsComplete
       THEN handler' = [handler EXCEPT ![h].pc = "advance"]
       ELSE End(h)
    /\ UNCHANGED <<docs, filed, verification, opened, vouched, interrupted>>

Advance(h) ==
    /\ handler[h].pc = "advance"
    /\ opened' = TRUE
    /\ End(h)
    /\ UNCHANGED <<docs, filed, verification, vouched, interrupted>>

-----------------------------------------------------------------------------
\* The handler has changed a document and not yet looked at the contract.
OwesGate(q) == q.pc \in {"gate", "uploads", "advance"} /\ q.op # "sign"

\* An awaited call fails and nothing catches it, or the process stops.
Stop(h) ==
    /\ handler[h] # Idle
    /\ interrupted' = (interrupted \/ OwesGate(handler[h]))
    /\ End(h)
    /\ UNCHANGED <<docs, filed, verification, opened, vouched>>

\* What people, the front end and YouSign start.
Arrival(h) ==
    \/ \E t \in Types, f \in Files : Upload(h, t, f)
    \/ \E i \in DOMAIN docs :
          \/ Poll(h, i)
          \/ \E then \in {"gate", "idle"} : ReceiveVerdict(h, i, then)
          \/ Validate(h, i)
          \/ Refuse(h, i)
    \/ AskSignature(h)

\* What the event loop does with a handler whose awaited call has been answered.
Resume(h) ==
    \/ SelectForSave(h) \/ Insert(h) \/ Update(h)
    \/ LookupExisting(h) \/ GoToYousign(h) \/ GoToAnalysis(h)
    \/ CreatePending(h) \/ RejectLocally(h) \/ VerificationRejected(h)
    \/ \E verdict \in {"verified", "rejected"} : CreateDecided(h, verdict)
    \/ \E conforme \in AiAnswers : Analyse(h, conforme)
    \/ Fetch(h) \/ GateLoad(h) \/ GateReadUploads(h) \/ Advance(h)

YousignDecides == \E f \in Files, verdict \in {"verified", "rejected"} : Verify(f, verdict)

Next ==
    \/ \E h \in Handlers : Arrival(h) \/ Resume(h) \/ Stop(h)
    \/ YousignDecides

Spec == Init /\ [][Next]_vars

-----------------------------------------------------------------------------
(* Safety, whatever is interleaved. *)

\* The contract goes on to the signature only if each required type has had a file
\* that YouSign, the AI service or an agent found conforming, although the columns
\* of a row may mix the writes of several handlers (ContractDocumentGateService).
OpenedOnEvidence ==
    opened => \A t \in Required : \E f \in vouched : filed[f] = t

\* When the last required document becomes ready, somebody opens the gate: two
\* handlers that make two documents ready at once do not both leave it to the other
\* (each handler calls tryAdvanceContract after its own save).
GateNotMissed ==
    (ContractDocumentsComplete /\ Required # {} /\ ~opened /\ ~interrupted)
        => \E h \in Handlers : OwesGate(handler[h])

\* The look-up and the insertion are two steps, so uploads at work at the same time may
\* each insert a document of one type; but only those: however many uploads follow, a
\* type never has more documents than there are handlers at once (findByContractIdAndType).
DocumentsBounded ==
    \A t \in Types : Cardinality(OfType(t)) <= Cardinality(Handlers)

-----------------------------------------------------------------------------
(* Safety, one handler at a time; verdicts still come late, and handlers stop. *)

\* A document is ready on account of the file it holds: the verdict on a file that
\* has been replaced since is not applied to its successor (upload-justificatif).
ReadyFileVouched ==
    \A i \in DOMAIN docs : docs[i].status \in READY_STATUSES => docs[i].file \in vouched

\* The file of a document found ready is not replaced (LOCKED_JUSTIFICATIF_STATUSES).
ReadyFileKept ==
    [][\A i \in DOMAIN docs : docs[i].status \in READY_STATUSES => docs'[i].file = docs[i].file]_vars

-----------------------------------------------------------------------------
(* Liveness.  The front end lists the documents every three seconds while one  *)
(* is being verified; YouSign decides; a handler is resumed or its call fails; *)
(* and of the calls repeated for ever some are answered.                       *)

PollStep(i, Step(_)) ==
    \E h \in Handlers : handler[h].op = "poll" /\ handler[h].id = i /\ Step(h)

FairSpec ==
    /\ Spec
    /\ \A h \in Handlers : WF_vars(Resume(h) \/ Stop(h))
    /\ \A f \in Files : WF_vars(\E verdict \in {"verified", "rejected"} : Verify(f, verdict))
    /\ \A i \in 1..Cardinality(Files) :
         /\ SF_vars(\E h \in Handlers : i \in DOMAIN docs /\ Poll(h, i))
         /\ SF_vars(PollStep(i, Fetch))
         /\ SF_vars(PollStep(i, SelectForSave))
         /\ SF_vars(PollStep(i, Update))

InVerification(i) == i \in DOMAIN docs /\ docs[i].status = "en_cours_de_verification"

\* A document handed to YouSign does not stay "being verified" for ever: if the
\* webhook is lost the poll brings the verdict (syncPendingVerification).
PendingSettles ==
    \A i \in 1..Cardinality(Files) :
        (InVerification(i) /\ docs[i].vid # Null) ~> ~InVerification(i)

=============================================================================
