# comutitre: verification project

TLA+ models of the comutitre monorepo (NestJS back end, React front end,
Solidity registry), TLC runs on small instances, and TLAPS proofs.
Paths are relative to the repository; `back/` abbreviates `back/src/modules/`.

```
tlc -workers 2 -config ContractConcurrent.cfg MCContractSignature.tla
tlc -workers 2 -config DocsConcurrent.cfg MCJustificatifs.tla
tlc -workers 2 -config Mobility.cfg MCMobility.tla
tlc -workers 2 -config Services.cfg MCServices.tla
tlc -workers 2 -config SupportsOpposed.cfg Supports.tla
tlapm ContractSignatureProofs.tla          # and the seven other *Proofs modules
```

The configurations of a run are listed in section 3. `PROJECT.json` holds the
same runs, for each definition the source lines it models, and for each property
a change of the model that breaks it.

## 1. The system

comutitre sells transport subscriptions. A user creates a contract, uploads the
documents its product requires, signs the terms (CGVU) at YouSign, pays, is
validated and gets a subscription on a mobility profile, which carries supports
(passes) and rights. The back end runs as **two replicas** (`docker/stack.swarm.yml`,
`README.md`) over one PostgreSQL database. Handlers are async functions; there is
**no transaction, lock or version column**: between two awaits a handler holds a
private copy of a row that others may change. The front end adds a second kind of
concurrency: answers that arrive after the user has gone to another page, another
person or another account.

| Component | State | Operations | Interactions and hard behaviours | What makes it correct | Status |
|---|---|---|---|---|---|
| `back/contracts` | `subscription_contracts`, `cgvu_acceptances` | create, sign, poll, pay, validate | calls the gate, YouSign, the mobility profile; written by webhooks; stale copies, retries; polled by a page that shows a pending signature | consent before payment, payment before activation, signed requests not lost | `ContractSignature`, `SignaturePage`, `SubscriptionProfile` |
| `back/webhooks` | set of processed event ids, per process | signature done/declined, verification done/failed | answers first, dispatches later; duplicates, losses, restarts | an event takes effect, once or harmlessly more often | `ContractSignature` (signature), `Justificatifs` (verification); HMAC left out |
| `back/justificatifs` gate | none | `tryAdvanceContract`, `getReadiness` | called by uploads, polls, agents, webhooks and the signature | opens only on complete documents, and is not missed | `Justificatifs`, `ContractSignature` |
| `back/justificatifs` documents | `justificatifs`, files | upload, verify (YouSign or language model), poll, validate, refuse | verdict, agent and new upload race | a verdict is about the file shown; a type has as many documents as uploads at once | `Justificatifs` |
| `back/src/infrastructure/yousign` | requests at YouSign | create, upload, add signer, activate | four calls in a row, each refused, lost or the last | what can be signed is whole | `YousignExchange` implements `SignatureOrders`; PDF layout left out |
| `back/mobility` profile | mobility contracts, rights | sync after payment, activate after validation | check-then-create; runs after the contract was saved | pending contracts bounded, none active without a validation | `SubscriptionProfile` |
| `back/mobility` supports and cases | supports, proof events, timeline | activate, create, declare found, close a case | check-then-create, decisions taken on an old status | two active supports, no return without a decision, one chain | `Supports` |
| `back/mobility` journeys | validations, anomalies | validate | reads the last accepted one, then appends | nobody is reported for a journey that can be made | `Journeys` |
| `back/mobility` relationships, permissions | relationships, timeline | link, revoke, every endpoint | a permission is checked, the act follows | every act permitted, revocation final | `Access` |
| `back/auth`, `back/users` | users, identities, recovery requests | register, login, FranceConnect, recover, set roles | several writes without a transaction, check-then-create, save over a role change | one identity per account, one owner, one code | `Accounts`, `SignIn`; Dynamic tokens and hashing left out |
| `back/external-apis` | none | eligibility, carrier's systems, addresses, communes | entries before scenarios, mock or live by registry | no right validated by accident, territory consistent | `ExternalApis` |
| `back/rag`, front assistant | shared embeddings, connection | embed, answer, stream | shared build that fails, lines cut in pieces | whole answers, failures not kept | `Assistant` |
| configuration | environment | validated at start | FranceConnect live, sandbox, fall-back | no invented identity in production | `SignIn` |
| `chain/src/SmartTicketRegistry.sol` | rights, authorised supports, roles | register, status, authorise, revoke, replace | long call sequences, time limits | revocation, expiry and holder final; events tell the storage | `SmartTicketRegistry` |
| `front/src` session | token in React and in storage | sign in, callback, log out, guards | late checks of earlier sessions | the two token readers agree | `SignIn` |
| `front/src` subscription files | page, what it loaded | redirects, uploads, buttons, polls | redirects that meet, late answers, pages that keep the state of the file left | no circle, no dead end, offered is accepted | `DossierPages`, `SubscriptionProfile` |
| `front/src` advisor | answers, history | next question, back, product, contract | derived and seeded answers, change of person | the file follows the answers | `SubscriptionAdvisor` |
| `front/src` household | page, cache, loads | list, add, titles, payer | late answers of another account | the household shown is this account's | `Household` |
| `front/src` pages reached from no route | - | - | nothing imports them from `App.tsx` | - | not modelled |
| docker, ansible, terraform | - | deployment | replicas restart | - | `Replicas`, `Restart` |

`PROJECT.json` lists the hazards of the code at their lines, with the properties
that would catch them; three have none and say why.

## 2. Modules

| Module | Content |
|---|---|
| `ContractSignature` | the contract from creation to activation, one action per stretch of a handler between two awaits |
| `SignaturePage` | `ContractSignature` and the page that watches a pending signature; who polls, and for how long |
| `ConsentLedger` | the abstract promise of `ContractSignature`: no stage past "open" without a consent, none past the payment without it, no consent without a completed signature |
| `Justificatifs` | the documents of one contract from upload to decision, and the gate that reads them |
| `YousignExchange` | the four HTTP calls that have a document signed, and YouSign's side of them |
| `SignatureOrders` | its abstract promise: an order is sent whole or not at all; the step `SignCreate` of `ContractSignature` is one such order |
| `Mobility` | the constants that `Supports`, `Journeys`, `SubscriptionProfile`, `Access` and the registry have in common |
| `Supports` | supports, their limit, the proof chain, the cases of found supports |
| `Journeys` | validations of journeys, anomalies |
| `SubscriptionProfile` | payment and validation pages, their two handlers, the contracts and rights on the holder's profile |
| `Access` | relationships, permissions, endpoints, the record of the acts |
| `SmartTicketRegistry` | the Solidity contract and a reader of its events |
| `Accounts` | accounts, identities, recovery, roles |
| `ServiceNames` | the constants that `SignIn`, `Accounts`, `DossierPages`, `SubscriptionAdvisor`, `Household` and `YousignExchange` have in common |
| `SignIn` | one tab's session, FranceConnect, the configurations accepted |
| `DossierPages` | the pages of the subscription files, over contracts and documents that move |
| `SubscriptionAdvisor` | the subscription wizard; takes the gate's tables from `Justificatifs` (`Back`) |
| `Household` | the household pages and the choice of a beneficiary and a payer |
| `ExternalApis` | the eligibility and carrier mocks, the registries |
| `Assistant` | the embeddings, the stream, the browser's reader |
| `MCContractSignature`, `MCJustificatifs` | instances with symmetry |
| `MCMobility`, `MCServices` | the instances of the other modules, one at a time |
| `ContractSignatureProofs`, `JustificatifsProofs`, `SupportsProofs`, `SubscriptionProfileProofs` | the proofs of the module they name |
| `MobilityProofs` | the proofs of `Access`, `Journeys`, `SmartTicketRegistry` |
| `ExchangesProofs` | the proofs of `Assistant`, `YousignExchange` |
| `AccountsProofs` | the proofs of `SignIn`, `Accounts` |
| `PagesProofs` | the proofs of `DossierPages`, `SubscriptionAdvisor`, `Household`, `ExternalApis` |

`MCMobility` and `MCServices` hold several modules that share no variable. Their
product would be explored for nothing, so the constant `part`, chosen at first,
names the module that moves; the others rest in one of their initial states. A
run over all parts visits the sum of the parts' states, and every property is
checked where its module moves.

### Correspondence of `ContractSignature` with the code

- **Rows.** `row[c]` holds the two columns of a contract that handlers change,
  `status` and the YouSign request id; `acceptances[c][sr]` counts the rows of
  `cgvu_acceptances`.
- **Handlers.** `request[h]` is a handler in flight: its operation, the await it
  waits for (`pc`), its process, its contract and its copy (`snap`). `Resume(h)`
  runs it to the next await: `SignLoad` ... `SignCreate` are
  `SignContractUseCase.execute`, `SyncLoad` ... `Synced` are
  `ContractSignatureSyncService.syncIfPending`, `GateLoad` and `GateReadUploads`
  are `tryAdvanceContract`, `PayLoad` and `ValidateLoad` the two confirmations,
  `FindByRequest` and `RecordAcceptance` the webhook handlers. The gate and the
  synchronisation are called by several operations, as in the code, and return
  to their caller (`then`, `AfterGate`, `AfterChecks`).
- **`save`.** TypeORM's `save` is two database calls: it selects the row, compares
  it with the entity and updates only the columns that differ. `SelectForSave`
  keeps the row it compared with (`base`), `UpdateForSave` writes the columns in
  which `snap` differs from `base`. So a concurrent write between the two
  survives in the columns the copy did not change.
- **Webhooks.** `DeliverEvent` adds the event to the replica's memory and starts a
  handler (`setImmediate`); an event of that memory is answered and skipped. The
  final event of a request stands for its `event_id`. `MaxDeliveries` bounds how
  often YouSign sends it; zero deliveries is a behaviour of every run.
- **YouSign.** `yousign[sr]` is external: created by `SignCreate`, ended by
  `SignerEnds`. "expired" stands for every ending that has no webhook handler
  (expired, canceled, rejected).
- **Failures.** `Fail` rejects any await, `SyncFails` is the catch block of the
  synchronisation, `Restart` drops a replica's handlers and memory.
- **Left out:** the owner checks (a refused request changes nothing), the
  signature link, holder data, `updatedAt`, the HMAC check, wording and logging.
  `documentsReady` changes freely in both directions, which allows everything
  the uploads of `Justificatifs` can do. A failure after a write whose effect is kept is `Fail` at the
  next await.
- **History variables:** `wasReady` and `paid` are set by the actions the
  properties are about and read by no guard.

### `SignaturePage`

`DossierSignaturePage.tsx` reads the contract once, when it is opened (36-74). If that
answer says `signature_en_cours`, its effect (137-178) asks for the state of the
signature every 8 seconds and when the window gets the focus, until an answer says
otherwise. `watching` holds the contracts shown that way: `LoadPage` is the answer that
starts it, `EndWatch` the one that ends it, `LeavePage` the user who goes.
The page the signature is started from goes on showing the contract it read before
(`handleSign`, 78-121, does not read it again): it is not in `watching`, and nothing
polls for that contract until somebody loads the page. `routes/SignatureCallback.tsx`,
which would poll on YouSign's return, is routed by nothing.

### Correspondence of `Justificatifs` with the code

- **Rows.** `docs` is the table `justificatifs` for one contract, in the order of
  insertion (`createdAt`), with the columns `status`, `file_path`,
  `yousign_verification_id` and the agent's decision. A verification is created
  for one file, so it has its file's name: `vid = file` says that the verdict a
  row waits for is about the file it shows. Motives, dates and YouSign's status
  codes follow these columns and decide nothing.
- **Handlers.** `handler[h]` is a handler between two awaits, with the row's id and
  its private copy. `Upload` ... `Analyse` are `UploadJustificatifUseCase`
  (`VerificationRejected` is its catch block, which saves and goes on to the
  gate), `Poll` and `Fetch` the synchronisation of one document by
  `ListJustificatifsUseCase`, `ReceiveVerdict` the two handlers of verification
  events, `Validate` and `Refuse` the agents' use cases, `GateLoad`,
  `GateReadUploads` and `Advance` `tryAdvanceContract`.
- **`save`.** As above: `SelectForSave` computes the columns in which the copy
  differs from the row (`changed`), `Update` writes those.
- **The gate.** `opened` stands for the contract having left
  `en_attente_de_justificatif`. The other columns of the contract, and what a stale
  save of it does, are the matter of `ContractSignature`.
- **Completeness.** `ContractDocumentsComplete` is translated from
  `required-documents.ts` with its three tables. `pickBestUpload` breaks ties by
  date; only the status found is used, so the tie is left out
  (`CompleteMeansReady` in the proofs shows what the choice amounts to).
- **Verdicts.** "verified" stands for `done`, `verified` and `success`, "rejected"
  for `failed`, `inconclusive` and `rejected`. An event may come at any time after
  the verdict, any number of times or never: the event memory is per process and
  lost with it, so it excludes no repetition. An event that comes before the id
  of its verification was saved finds no document and changes nothing.
- **Agents.** A decision applies to the document as the handler reads it; the agent
  counts as having seen the file it then holds. `Decisions` bounds what agents do.
- **Failures.** `Stop` is an await that rejects uncaught, or the end of the
  process; `interrupted` records one that cut a handler off from its gate.
- **Left out:** owner, MIME, size and name checks (a refused request changes
  nothing), the disk, `getReadiness` (reads only).
- **History variables:** `filed`, `vouched`, `interrupted`. `filed` also says which
  files are new, each file being uploaded once.

### `Supports` and `Journeys`

- **Rows** are sequences in the order of insertion: `supports`, `proofs` (with the
  entry each was chained to, which is what its hash covers), `timeline` (only the
  entries about found supports), `validations`, `anomalies`.
- **Handlers** are cut at their database accesses. `ActivateCount`,
  `ActivateInsert`, `ActivateLatest`, `ActivateAppend` are one activation;
  `DeclareRead`/`DeclareAppend` a declaration; `CloseRead`, `UpdateSelect`,
  `UpdateWrite`, `CloseAppend` a closure with the repository's read-then-save;
  `ReadLast`, `AppendValidation`, `CreateAnomaly` a validation. `Stop` and
  `StopValidating` end any of them between two steps.
- **Time.** The instant of a validation comes with the request, so it may be earlier
  than one already recorded; instants are minutes.
- **Left out:** rights and permissions that only decide whether a request is
  served at all (`Access` has the permissions); the demonstration's views.
- **History:** `opposed`, `returned`, `calm`.

### `SubscriptionProfile`

`status`, `contracts`, `transportRights`, `linked` are the tables;
`page` and `request` the two pages of the browser and the call each has under way.
`ConfirmPayment`, `PaySave`, `SyncRead`, `SyncCreate` are the payment;
`ConfirmValidation`, `ValidateSave`, `ActivateRead`, `ActivateUpdate` the validation;
`ReplyPayment`, `ReplyValidation` and `Fail` what the page does with the answer. A page
offers the demonstration's buttons from what it last loaded, so a payment can be
repeated by another tab. The account is one; `AddContract`,
`RegisterTransportRight` and `Relate` are what other requests do to the same profiles.

### `Access`

Every endpoint of an identity is `Endpoint` (check), then `AnswerRows` or `Write`,
then `RecordAct`: three accesses, between which relationships are linked
(`Link`, `Insert`) and revoked by others. `held` remembers the permissions an
account has had since its call began.

### `SmartTicketRegistry`

A transaction is one action and a revert changes nothing, so a `require` is a guard.
`mirror` applies the events in the order they are emitted. The zero address and
zero commitments, which the code refuses, are left out of the constants.

### `Accounts` and `SignIn`

`Accounts` cuts a call at its writes: `CreateLocal`, `Save`, `Provision`,
`CreateIdentity`, `CreateOwner` are a registration or a sign-in; `RequestRecovery`,
`CancelPending`, `CreateRequest`, `MarkPendingRecovery` the request of a code;
`CompleteRecovery`, `RecoverUser`, `RecoverRelation`, `RecoverStatus`,
`MarkCompleted` its use. `Insertable` is the unique index of the relationships.
`crossed` remembers the accounts and identities on which two calls overlapped.

`SignIn` is one tab. A page load loses what React holds and keeps the two storages
and the history entry. `checks` are calls of `/auth/me` not yet answered,
`ValidEnv` the rules by which the process accepts its environment, so each run
starts in every accepted configuration. A URL is a path and a query. The guard hands the
login form the path only (`App.tsx:43` and `:76`), so `from` is a path; `opened` is
history, the whole URL the visitor had opened, and `LandsOnAsked` is about its path:
whoever opens `/dossier/signature?contractId=7` signs in and lands on
`/dossier/signature` without the file. A password given after an abandoned trip to
FranceConnect is led by what that trip had remembered, and excepted.

### `DossierPages`

`tab` is the URL, the progress of its loading effect (`load`) and what the mounted page
holds. React Router keeps the page mounted when only `?contractId=` changes, and the
pages reset nothing then: `Mounted` keeps `shown`, `documentsReady` and
`validationComplete` of the former file until the new one is loaded (`Filled`), and for
ever if that fails on a page that stays (`LoadFails`). Only another page, or the
document loaded anew (`OpenAnew`), starts empty (`Mount`). A user may act on what is
still shown in the meantime. `answersDue` are requests the mounted page sent for earlier
URLs. The answers to its loading effects are dropped, those to the poll of
`MonDossierPage.tsx:206` are not (`LateAnswer`): another file's documents may be put
there at any time. So `PageShowsItsFile` is about the three other pages, once the
load of their URL is answered (`load = "done"`).

`Redirect` collects the redirects of the four pages, `Offered` their buttons, `Accepts`
and `StatusAfter` the guards and results of the handlers. The box that accepts the terms
is left out: it can always be ticked. "espace" stands for all pages that load no file.
A handler of the back end is one step.

### `SubscriptionAdvisor`, `Household`

`SubscriptionAdvisor` keeps the wizard's `step`, the person, the usage, the answers and
the history of questions. `NextQuestion`, `Product` and `requiredDocuments` are the decision
tables of `advisor.ts`, over ages instead of birth dates. `FileAsksForAnswers` compares the
contract created with the product of the answers, and the documents its page asks for
with those the answers call for and with those the gate waits for. It excepts one
document, `NeverAsked`: the certificate of a scholarship (section 3).

`Household` keeps the account's token, the page, the hook's cache and the loads. A load
is asked, answered in two or three stages (identities, contracts) and kept by the
page only if it was not cancelled (`live`). Demonstration data is `Demo`, shown
until a load completes and after one fails. `titles` are the kinds of contracts
of each person as they were when they were answered.

### `ExternalApis`, `Assistant`, `YousignExchange`

`ExternalApis` holds decision tables: `Check`, `CheckInternal`, the mock and live
registries, with the values of a person reduced to those the tables tell apart.
The variables are the last answers given, which a caller can compare.

`Assistant`: `ready` is the memoized promise, `build` the embeddings started,
`wire` the lines between server and browser, read in pieces of any length (`Read`) and
taken from the browser's buffer one by one, the page showing each before the next
(`TakeLine`); the i-th delta of an answer is i. `Disconnect` cuts the connection, `Restart` the process.

`YousignExchange`: each of the four calls is refused, carried out and answered, or
carried out and its answer lost (`answered`). The refinement hides the drafts.

## 3. Properties and runs

| Run | Module, configuration | Instance | Distinct states | Shows |
|---|---|---|---|---|
| `contract_concurrent` | `MCContractSignature`, `ContractConcurrent` | 1 contract, 2 signature requests, 2 handlers, 1 replica, 1 delivery | 1.4 M | `PaymentNeedsConsent`, `ActivationFollowsPayment`, `SignatureFollowsDocuments`, `ImplementsLedger` (every step is one of the ledger or a stutter) |
| `contract_serial` | `MCContractSignature`, `ContractSerial` | 2 contracts, 2 requests, 1 handler, 2 replicas, 2 deliveries | 1.5 M | `AcceptanceTraceable`: consents are not mixed up between contracts; `SignedRequestKept`: without concurrency a signed request is never replaced; `ImplementsLedger` with repeated events |
| `contract_liveness` | `SignaturePage`, `ContractLiveness` | 2 requests, 1 handler, 1 delivery | 37 k | while a page watches, a signed contract becomes payable and a closed one signable again |
| `contract_liveness_concurrent` | `SignaturePage`, `ContractLivenessConcurrent` | 1 request, 2 handlers, no webhook at all | 97 k | `NoStuckSignature` |
| `docs_concurrent` | `MCJustificatifs`, `DocsConcurrent` | 2 handlers, 3 files, identity document and mandate, no agents | 2.2 M | `GateNotMissed`: two handlers never both leave the gate to the other; `OpenedOnEvidence`: replaced files and late verdicts never open the gate without a conforming file of each type; `DocumentsBounded`: uploads at once leave at most as many documents of a type as there are handlers |
| `docs_serial` | `MCJustificatifs`, `DocsSerial` | 1 handler, 4 files, agents accept and refuse | 1.9 M | `ReadyFileVouched`: a ready document is ready on account of the file it holds; `ReadyFileKept`: that file is not replaced |
| `docs_liveness` | `MCJustificatifs`, `DocsLiveness` | 2 handlers, 1 file, agents accept and refuse | 82 k | `PendingSettles`: a verification ends although events may all be lost |
| `mobility` | `MCMobility`, `Mobility` | 2 handlers, tabs, accounts, wallets; see below | 6.3 M | what the unlocked checks of `back/mobility` still guarantee, and the registry's finality |
| `services` | `MCServices`, `Services` | 2 browsers, callers, questions; see below | 1.9 M | sign-in, accounts, pages, wizard, household, registries, assistant, YouSign's calls |
| `contract_lost_signature`, `supports_opposed`, `accounts_roles` | | | | violated, see below |

Parts of `mobility`:

| Part | Bounds | States | Properties |
|---|---|---|---|
| `supports` | 3 supports, 2 entries about found supports, 2 handlers | 3.2 M | `CirculationBounded` (`ActiveBound`: two active supports, one more for each other activation under way; `OnlyActiveOrLostReturn`), `ForkWidth`, `ReturnedOnDecision` |
| `journeys` | 3 validations, 3 stations, 3 instants | 0.4 M | `AnomalyJustified`, `AcceptedSpaced` |
| `profile` | 2 subscriptions, 2 tabs, 2 contracts on the profile | 2.0 M | `ProfileFollowsSubscriptions`: `PendingBound`, `ActiveAfterValidation`, `RightBacked` |
| `registry` | 1 right, 2 supports, 2 holders, 2 wallets, 3 instants | 53 k | `MirrorAgrees`, `RightsFinal` |
| `access` | 2 accounts (one administrator), 3 rows, 2 types | 0.7 M | `ActsPermitted`: `ActsUnderPermission`, `LinkedOnce`; `RevocationFinal` |

Parts of `services`:

| Part | Bounds | States | Properties |
|---|---|---|---|
| `sign_in` | 1 person, 2 pages (`/dossier` opened with a query), 2 trips to FranceConnect, every accepted configuration | 621 k | `ApisAgree`, `RealIdentities`, `LandsOnAsked` |
| `accounts` | 2 browsers, 3 accounts, 3 identities, 2 recoveries, 6 calls | 328 k | `SignedInHasIdentity`, `OneOfEach` |
| `pages` | 2 files of one document each, 1 late answer, 4 redirects counted | 271 k | `PagesLeadOn`, `OfferedIsAccepted`, `PageShowsItsFile` |
| `advisor` | 7 persons of all ages and profiles | 484 | `FileFollowsAnswers` |
| `foyer` | 2 accounts, 4 persons, 2 loads | 470 k | `ShownIsHousehold`: `ShownBelongs`, `AddedAppears`, `TitlesTold` |
| `apis` | all inputs the tables tell apart, 3 departments | 32 k | `AnswersCoherent` |
| `chat` | 2 questions, 2 deltas, 2 builds | 166 k | `AnswersSound`: `AnswerIsWhole`, `OneBuild`, `FailureIsFresh` |
| `exchange` | 2 callers, 3 requests, 2 contracts, 2 signers | 22 k | `ImplementsOrders` |

**Bounds.** Two handlers are the smallest number that interleave, and every lost
update needs only two; two requests are one repetition of the signature; two
replicas are what is deployed; two deliveries reach both replicas or the same one
twice. Three supports exceed the limit of two by one, which is what two activations
can do; two accesses to the registry before and after each limit are three instants;
three validations are two that are accepted and one between them; two trips to
FranceConnect are one given up and one after it; two loads of a hook are one
cancelled and one running, two builds one that fails and its repetition, two
deltas one line cut from another. The safety properties that are proved hold
without these bounds (section 4).

Deadlock is not looked for in `mobility` and `services`, `supports_opposed` and
`accounts_roles`, where the bounds on rows, calls and trips stop the system.

The documents use `navigo_liberte_plus`, whose two required documents go one to
YouSign and one to the AI service, so both branches and the race of two documents
for the gate occur. Three files replace one document while the other is there;
four, one handler at a time, replace both. Agents next to a second handler are in
`docs_liveness` and in the proofs; with three files they exceed what a run can visit.

**Fairness** (`FairPage` of `SignaturePage`). A handler in flight answers or fails (`WF` on
`Resume(h) \/ Fail(h)`: Node.js runs what is ready and the awaited calls end).
Polling (`SF` on `Poll(c)`) is assumed of a contract in `watching` and of no other: of a
page that loaded the contract while its signature was pending and is still open. A call of
the poller that is tried again and again succeeds at some time (`SF` on `Polling`), and its
answer reaches the page (`SF` on `EndWatch`): neither YouSign nor the database is down
for ever. Nothing is assumed of webhooks, signers or users: nobody has to open, reload
or stay on a page. The three properties therefore begin with a page that watches
(`Watched`) and allow that the user leaves it. They say nothing of the page on which the
signature was started, which does not watch; if its webhook is lost, the contract stays
in signature until the page is loaded again.

`FairSpec` of `Justificatifs` is alike: a handler is resumed or stops (`WF`);
YouSign decides what is pending (`WF` on `Verify`); the front end lists the
documents every 3 seconds while one is being verified (`MonDossierPage.tsx:208`), hence `SF` on `Poll`, and of the calls repeated for
ever some are answered (`SF` on the poll's steps). Users, agents and events are free.

The other modules state no liveness: after a failure of the pages or the assistant
the user starts again or goes, and nothing in the code retries.

### What the code does not keep

Three runs are violated, each on a sentence of the repository:

- `contract_lost_signature`: the "polling fallback" of
  `contract-signature-sync.service.ts:27` with two concurrent handlers. A gate
  handler reads a contract that waits for documents; another one advances it and
  the user signs; the first one saves its copy, with the old status and no
  request id. The completed signature is then found by nobody: the page that watches
  stops, with a contract that is not payable and names no request.
- `supports_opposed`: "remis en circulation uniquement s'il n'a pas encore été opposé
  ou remplacé" (`declare-found-support.use-case.ts:20`). Closing looks neither at
  whether the case is closed nor at what became of the support, so three closures of
  one case revoke a support, set it unclaimed and make it active.
- `accounts_roles`: "never downgrade roles on sync" (`typeorm-user.repository.ts:55`).
  `save` writes the roles it read; a promotion in between is undone.

More sentences and expectations that differ, without a run of their own:

- "Idempotency: skip already processed events" (`yousign-webhook.controller.ts:83`):
  the memory is per process, so two replicas both process an event; and it is
  written before the dispatch, so an event whose handler failed is skipped when it
  comes again. The handlers bear both (`ImplementsLedger`, `SignedEventuallyPayable`).
- `docs/yousign_integration.md:101` says the event makes the contract active; it makes
  it payable. Lines 72-74 have the proof of address verified by YouSign;
  `YOUSIGN_VERIFIED_TYPES` names the identity document only.
- "votre agent qui garde le dernier mot" (`docs/presentation-gamma-comutitres.md:144`):
  a verdict that comes after the decision, by event or by poll, sets the status of
  the decided document.
- After a document is refused late, `MonDossierPage.tsx:180` (a contract past the
  documents) and `DossierSignaturePage.tsx:60` (documents not ready) send the user
  to each other for ever; `PagesLeadOn` excepts files in `refused`.
- A validation answers success although no contract of the profile was activated, and
  activates the first pending contract of a holder of that name, not the one of
  the subscription (`activate-subscription-on-profile.use-case.ts:54`).
- The advisor requires a scholar's certificate (`advisor.ts:340`), and the contract is
  created without the scholarship (`contract-mapping.ts:67`): the file never asks for
  it, the gate does not wait for it (`NeverAsked`).
- "revenez sur cet onglet — vous serez redirige automatiquement" (`DossierSignaturePage.tsx:258`)
  is shown, and kept, by a page that loaded the contract with its signature under way.
  The tab in which the signature was started neither says so nor polls
  (`SignaturePage`): its effect looks at the contract read before the click.
- The guards keep the path and drop `?contractId=` (`App.tsx:43` and `:76`), so a sign-in
  asked for by the link to a file leads to its page without the file.
- A page whose `?contractId=` changes shows the former file until the new one is loaded,
  and `DossierValidationPage.tsx`, which swallows a failed load, for ever
  (`DossierPages`); its buttons act on the file of the URL.
- The payer of a new contract is the eldest person owned
  (`NouvelleSouscriptionPage.tsx:82`), the legal guardian told is the first owner of
  the list (`household-from-api.ts:390`), which need not be the user.
- A list of contracts that fails is told as no contract, and on the page of one
  person as an invented title (`TitlesTold` allows it there).
- The e-mail of a recovery that failed after the account was created stays taken,
  and the recovery cannot be repeated with it.

`SignedEventuallyPayable` and `SignedRequestKept` hold, and are stated, for one
handler at a time; `NoStuckSignature` is what is left of the first one
with concurrent handlers.

The two properties of `docs_serial` are stated for one handler at a time, because two
handlers break each of them, as TLC shows with a second one: an upload that has read the
old status replaces the file of a document found ready meanwhile (`ReadyFileKept`), and
a verdict's save mixes with the columns of a new upload, so that a file nobody looked
at is ready (`ReadyFileVouched`). With two handlers two uploads of a type also both find
none and insert two documents, and a refusal may be saved between the gate's read and
its save, so that the gate opens on documents no longer complete. What then remains is
that a type has no more documents than handlers were at work (`DocumentsBounded`), and
that the contract goes on only if some file of each required type was found conforming
(`OpenedOnEvidence`).

Likewise the bounds of `mobility` say what check-then-create leaves: with h handlers
at a time up to h + 1 active supports (`ActiveBound`), h successors of one proof
(`ForkWidth`), as many pending contracts as tabs (`PendingBound`); with one handler,
two, one and one. `OneOfEach` excepts the accounts and identities on which two calls
overlapped (`crossed`), `AcceptedSpaced` the rights whose validations overlapped or
came out of order (`calm`): two overlapping calls break each, as TLC shows when the
exception is taken away.

A handler stopped between its save and its gate leaves a complete contract waiting
until the signature is asked for or a document changes; `GateNotMissed` excepts it by
`interrupted`. A stop during the AI analysis leaves the document being verified, with
no verification id for the poll: `PendingSettles` is about documents that have one,
and no property covers the others, nor a verdict that is saved over an agent's
decision.

## 4. Proofs

`ContractSignatureProofs` proves, for every value of the constants, from
`NullAssumption` (NULL is not an id) and `DeliveriesAssumption`:

| Theorem | States |
|---|---|
| `Invariance` | `Spec => []IInv` |
| `TypeCorrect` | `Spec => []TypeOK` |
| `ConsentBeforePayment` | `Spec => []PaymentNeedsConsent` |
| `Traceability` | `Spec => []AcceptanceTraceable` |
| `PaymentBeforeActivation` | `Spec => []ActivationFollowsPayment` |
| `DocumentsFirst` | `Spec => []SignatureFollowsDocuments` |
| `Refinement` | `Spec => ImplementsLedger` |
| `AloneInvariance` | `Spec => []Alone`, assuming `OneRequest` |
| `SignedKept` | `Spec => SignedRequestKept`, assuming `OneRequest` |

The properties speak of rows, but a row is written from a copy read earlier, so
none of them is inductive. `IInv` says of **every private copy** what the
properties say of the row: a copy past the signature belongs to a contract with a
consent, a copy past the payment to a paid one (or is the payment itself), a
copy's request names its contract (`Backed`, `HandlerOK`). It is kept because
what it rests on only grows: a completed request stays completed, an acceptance
is never deleted, history is not taken back (`Grows`). So the handlers that do
not move keep their part (`HandlerGrows`), and each step only needs the argument
for its own handler (`HandlerStep`, `GotoStep`) and for the row it writes.
`Merged` mixes two backed rows column by column, and the mixture is backed.

Why stale copies are harmless to safety although they lose updates: they may
take a contract back to an earlier stage, or to a later one it had already
reached; both are moves of the ledger.

The last two theorems are about a deployment with one handler at a time
(`OneRequest == \A g, h \in Requests : g = h`, the instance of `contract_serial`; it
assumes nothing of contracts, replicas, events and failures). `Alone` says that what the handler has
read is still so when it writes: its copy is the row (`AsRead`), the row it compares
with is the row (`base`), hence `Merged` writes the copy. A row that waits for a
signature names no request or a closed one (`Tidy`), so `SignCreate`, the only
step that puts another request into a copy, finds no signed one to replace. With
two handlers the copy is not the row, and both the invariant and
`contract_lost_signature` fall.

`JustificatifsProofs` proves, for every product, every set of document types, files
and handlers, from `TypesAssumption` (the types uploaded are those of the enumeration),
`HandlersAssumption` (finitely many) and `NullAssumption`:

| Theorem | States |
|---|---|
| `Invariance` | `Spec => []Inv` |
| `TypeCorrect` | `Spec => []TypeOK` |
| `DocumentsVouched` | `Spec => []OpenedOnEvidence` |
| `GateIsOpened` | `Spec => []GateNotMissed` |
| `DocumentsStayFew` | `Spec => []DocumentsBounded` |
| `SerialInvariance` | `Spec => []SerialInv`, assuming `OneHandler` |
| `ReadyOnItsFile` | `Spec => []ReadyFileVouched`, assuming `OneHandler` |

`OpenedOnEvidence` speaks of a flag set long after the evidence was found. `Inv`
carries the evidence through everything on the way: every row and every private copy
refers to a file and a verification of its own type and is ready only if some file of
that type was found conforming (`DocumentOK`), and a handler about to open the gate has
that for each required type. Because this is said of the type and not of the row's
own file, `Merged` keeps it: whatever columns two handlers leave in a row, all
come from documents of one type. The stronger `ReadyFileVouched` is lost exactly
there.

`GateNotMissed` needs that a save which makes a document ready always returns to the
gate (the conjunct of `HandlerOK` on `then`). When the gate of one handler finds the
documents incomplete, the documents were not complete at that moment, so whoever
completes them saves later, and goes to the gate after it.

`DocumentsBounded` is not inductive: what two uploads may still insert has to be counted.
`Bounded` counts the documents of a type together with the insertions under way
(`Inserting`), which never outnumber the handlers: an upload plans one only when it
finds no document of the type, and then those under way are all there is.

`SerialInv`, for one handler at a time (`OneHandler`; two handlers break
`ReadyFileVouched`, section 3), adds to `Inv` that every row refers to no verification but its own
file's and is ready on account of that file (`OwnFile`), and that what the handler
has read stays so until it writes (`UpToDate`): the row its copy came from, that there
is none of the type before it inserts one, that the file it replaces is not ready,
the columns `save` is going to write, and, before the gate opens, that the documents
are complete. The deployment allows more than one handler at a time: the invariant is
there for `ReadyOnItsFile`, whose hazard is not an overlap but a verdict that comes
late or twice. Late verdicts are the case that needs `OwnFile`: an event finds its
document by the verification's id, and a row that took another file dropped that id.

The other modules with proofs, and what each proof rests on:

| Module | Theorems | Inductive invariant and argument | Assumptions |
|---|---|---|---|
| `ExchangesProofs`, `YousignExchange` | `ExchangeInvariance` (`Exchanging`), `Refinement` (`ImplementsOrders`) | the types, `CallAgrees` (a caller's private state is what its draft holds) and `OwnRequest` (two callers never share a draft). The draft is invisible to the order, so three calls stutter and the fourth is `Send`; without `CallAgrees` it could send less than everything | `NoneAssumption`, `SignersAssumption` |
| `ExchangesProofs`, `Assistant` | `ChatInvariance`, `AnswersWhole` (`AnswersSound`) | `Chatting`: of an answer on its way, the browser's buffer followed by the connection is exactly the lines of the deltas not shown yet, in order, and the last event's once the server is over (`OnItsWay`), so the end of a stream is reached with nothing left; a question a failed build ended has an error as its last event. `Building`: what is memoized runs or is built, and is the last build; what runs is memoized, so no other runs, and every question was asked before it was over | `DeltasAssumption`, `BuildsAssumption` |
| `MobilityProofs`, `Access` | `OneRowEach`, `LinkedOnceEach`, `RevokedForEver` (`RevocationFinal`), `PermittedCalls`, `ActsArePermitted` (`ActsPermitted`) | `Table`: the unique index, whatever the status, so that a revoked row blocks its capacity for good; `Permitted`: a call past its check has held what it asked for since it began | `AccountsAssumption`, `OwnerAssumption`, `TypesAssumption`, `RowsAssumption` |
| `MobilityProofs`, `SmartTicketRegistry` | `TypeCorrect`, `EventsTellStorage` (`MirrorAgrees`), `SupportRevocationFinal`, `ExpiryFinal`, `HolderFinal`, `Final` (`RightsFinal`) | `Sound`: the types and `MirrorAgrees`. Each transaction changes storage and mirror alike, `replaceSupport` by its two events in order (`Emit`, `EmitBoth`). The finality theorems are step properties: no call leaves `REVOKED`, moves a limit or a holder | `MaxTimeAssumption`, `NullAssumption` |
| `MobilityProofs`, `Journeys` | `JourneysInvariance`, `AnomaliesJustified` (`AnomalyJustified`), `AcceptancesSpaced` (`AcceptedSpaced`) | `Validated`: what a call has read is an accepted validation of its right (`CallHolds`); for a calm right there is one call (`Alone`), which appends after the last accepted one, nothing having been accepted since (`ReadsLast`), so the accepted ones are in the order of their instants (`InOrder`) | `InstantsAssumption` |
| `SupportsProofs` | `Invariance`, `NeverIssuedNeverActive`, `Bounded` (`CirculationBounded`), `ForksBounded` (`ForkWidth`), `DecidedReturn` (`ReturnedOnDecision`) | `Circulating`: types, what status a support can reach from its birth (`StatusFromBirth`), cases only about supports that were active or lost (`CasesOnIssued`), and what each handler has read (`HandlerSound`). `ActiveBound` counts the insertions under way with the active supports, which makes it inductive: a count below two admits one more, and there are at most as many insertions as handlers. `ForkWidth` needs that a handler's latest event is no later than the chain (`Backward`) and the appends under way counted with the successors (`Forks`) | `HandlersAssumption`, `CreatedAsAssumption` |
| `SubscriptionProfileProofs` | `StandsOnValidation`, `Followed` (`ProfileFollowsSubscriptions`) | `Founded`: a page, a request and a contract on the profile say of a subscription only what was paid or validated; `PendingBound` as `ActiveBound`, the creations under way counted | `TabsAssumption`, `BoundAssumption`, `HolderAssumption`, `NameOfAssumption` |
| `AccountsProofs`, `SignIn` | `SignInInvariance`, `ClientsAgree` (`ApisAgree`), `NoInventedIdentity` (`RealIdentities`), `SignInLands` (`LandsOnAsked`) | `SignedIn`: the three properties, the accepted environment, and what is still to come: a trip remembers the path it was begun for (`Remembers`), the path the guard left in the history is that of the URL opened (`Traced`), an answer under way goes there and a callback is awaited by nothing else (`Awaited`), a tab that is away waits for no answer (`QuietAway`) | `HomeAssumption`, `LinksAssumption`, `PagesAssumption`, `NullAssumption`, `TripsAssumption` |
| `AccountsProofs`, `Accounts` | `AccountsInvariance`, `SessionsHaveIdentities` (`SignedInHasIdentity`), `InsertedOnce` (`OneOfEach`) | `Provided` and `PagesWait`: what a call at each step was made for and has done (`CallsSound`, `PagesSound`), that two calls at work on one account or recovery are known to have crossed (`CrossingsKnown`), and that what a call looked up and found missing is still missing when it inserts it, unless another call crossed it (`StillMissing`) | `AccountsAssumption` |
| `PagesProofs`, `ExternalApis` | `AnswersAgree` (`AnswersCoherent`) | `Coherent`, case by case over the decision tables; an entry of the mock about the person wins over every scenario, and without one an unknown scenario validates nobody (`EntryWins`) | `DepartmentsAssumption` |
| `PagesProofs`, `DossierPages` | `PagesInvariance`, `FileShown` (`PageShowsItsFile`), `OfferAccepted` (`OfferedIsAccepted`), `LedToTheEnd` (`PagesLeadOn`) | `LedOn`: the documents of a file past the gate stay complete unless refused late (`DocumentsStay`), and a measure, `Left`, of the redirects a page may still make: with those already made it never exceeds three (`RedirectsLeft`). The files move under the page, so `Left` must not grow by any step of another actor. `PageShowsItsFile` needs that a page's loading effect, once answered, is the one of its URL, and that only the page of the documents has polls under way (`PollsOn`), whatever it keeps of the file before | `DossiersAssumption` |
| `PagesProofs`, `SubscriptionAdvisor` | `AdvisorInvariance`, `FileFollows` (`FileFollowsAnswers`) | `Advised`: the history is exactly the questions `NextQuestion` asks along it (`AskedInOrder`: each was the one to ask without its answer and the later ones), and no answer outlives the one that led to its question (`Derived`). So going back one question leaves the answers as they were when it was asked. That the file asks for what the answers call for is shown product by product over the tables of the wizard and of the back end | `BeneficiariesAssumption`, `NoAnswerAssumption` |
| `PagesProofs`, `Household` | `HouseholdInvariance`, `HouseholdShown` (`ShownIsHousehold`) | `Housed`: every load that was not cancelled is for the session and the page mounted, and what it has been answered so far is of that account (`LoadSound`); so is what the cache holds under the page's key (`CacheSound`) | `HouseholdAssumption` |

TLC evaluates all these assumptions in the runs, with the values given there.

**Only model-checked:**

- the liveness properties `SignedEventuallyPayable`, `ClosedEventuallySignable`,
  `NoStuckSignature`, `PendingSettles`: fairness and `ENABLED` are outside the prover's
  reach;
- `ReadyFileKept`, which holds for one handler at a time only: two overlapping uploads,
  which the deployment allows, are what it would have to withstand;
- the three runs that are violated, whose sentences are false.

Every other safety property of the passing runs, and the refinements `ImplementsLedger`
and `ImplementsOrders`, are theorems. The bounds of section 3 (numbers of handlers,
files, persons, calls) limit the runs only; the bounds that are constants of a
module (`MaxTrips`, `MaxRows`, `MaxDeliveries`, ...) are any number in the proofs.

## 5. Not modelled

- Pages and components of the front end that `App.tsx` does not reach
  (`routes/AdminDossiers.tsx`, `routes/SignatureCallback.tsx`, `routes/Justificatifs.tsx`, `routes/Dashboard.tsx`,
  `components/mobility/`, `pages/mobility/` and others): no user can open them.
- Cryptography and transport: HMAC of the webhooks, password hashes, Dynamic's
  tokens, the signing key of external tokens (one per process,
  `dynamic-external-jwt.service.ts:49`), HTTP.
- The files on the disk, MIME types, sizes; the layout of the PDF; presenters,
  Swagger decorations, translations, styles; module wiring and logging.
- Ansible, Terraform and the build, which have no behaviour at run time beyond the
  two replicas and their restarts.

## 6. Plan

1. A composition of `Justificatifs` with `ContractSignature`, `documentsReady` derived
   from the uploads, and an abstract specification of a document's review that
   `Justificatifs` implements for one handler at a time.
2. `SubscriptionProfile` composed with `ContractSignature`: one status, two readers.
