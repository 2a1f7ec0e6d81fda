# forms-api-v6 in TLA+

TLA+ models of the Topcoder forms service (`src/`), the TLC runs that check
them and TLAPS proofs about every part. File names are relative to the repository;
`forms.service.ts` is `src/forms/forms.service.ts`.

## 1. The system

An HTTP API (NestJS, Prisma, PostgreSQL) that stores versioned website forms and
their submissions, a React renderer, and a Payload CMS plug-in that edits forms.
Several replicas run at once and share nothing but the database.

| Component | State | Operations | Interacts with |
| --- | --- | --- | --- |
| Form lifecycle (`forms.service.ts`) | `Form`, `FormVersion` rows, one SQL reporting view per launched version | `createForm`, `putVersion`, `publish`, `retire`, reads | submissions, through the `Form` row lock (`lockForm`) |
| Submissions (`forms.service.ts`) | `Submission` and answer rows, idempotency keys | `submit`; retention deletes | lifecycle, event delivery |
| Event delivery (`publishSubmission`, `event-bus.service.ts`) | `SubmissionEvent.publishedAt` | second half of `submit` with `kafka: true` | Bus API over HTTP, under a row lock and a 15 s transaction timeout |
| Reports and exports (`reportForm`, `report`, `exportForm`, `csvChunks`) | none; the client holds the cursor | pages of rows, CSV streams | submissions, processor tables |
| Website renderer (`integrations/react/TopcoderForm.tsx`) | schema shown, UI state, attempt key, active request | load, submit, retry, change of form | the API over HTTP |
| Payload integration (`integrations/payload/forms.ts`) | the CMS document, `lastSyncedAt/Version` | save, synchronize | the API over HTTP |
| Validation (`validation.ts`, `dto.ts`) and the schema's CHECKs and triggers | none | `validateDefinition`, `validateAnswers` | `submit`, `putVersion` |
| Access (`auth.ts`, `forms.controller.ts`) | none; the audit columns and `memberId` record its verdicts | `canActivate`, `normalizeActor`, the routes | all routes |
| Database client (`db.service.ts`) | the connection pool | connections for transactions | all requests of a replica |
| Configuration, bootstrap, errors, health | none of their own | wiring | all routes |
| Processor tables | flows, deliveries, classifications | written by forms-processor-v6 (another service) | reports read them |
| Release automation (`deploy/release.py`, `activate.py`) | the ECS service and its stack | migrate, promote, roll back | AWS |

### What is hard here, and what makes it correct

* **Interleaved transactions.** Every lifecycle call and every submission of a
  form reads, decides and writes in a READ COMMITTED transaction; only the lock
  on the `Form` row keeps two of them apart. Correct means: together they behave
  like atomic steps, one live version, no stale decision.
* **Retries.** Every client is told to repeat a request whose answer it lost.
  Correct means: one row and one receipt per key, never a conflict for work that
  is already done, also after retirement.
* **A send inside a transaction.** The event goes to Bus API while a row lock is
  held, and the transaction can end before the call does. Correct means: nothing
  but saved content is sent, a record means acceptance, duplicates only after a
  lost attempt, and delivery resumes whenever the client asks again.
* **Reading while rows change.** A report is a chain of independent queries, and an
  export keeps the columns of its first page. Correct means: rows in order, none
  skipped silently, no answer without a column.
* **Acting in somebody's name.** Roles, scopes and user ids come from several claims
  of two kinds of tokens. Correct means: what the tables record of people is true and
  stays so, and a receipt is never given to another member.
* **Two sets of rules.** `validation.ts` and the schema's CHECKs and triggers were
  written separately, and an answer changes form several times between a request
  and a report. Correct means: nothing accepted is refused at commit (which long labels
  can be, section 6), nothing is lost on the way, and retries are told apart by meaning.
* **Late answers in the browser and in the CMS.** Correct means: what is shown or
  recorded is true of what is displayed or saved *now*.
* **Deploying beside others.** A release reads the service, works for half an hour and
  then overwrites it, while the stack is updated, rollouts fail and migrations outlive
  the run that started them. Correct means: no runtime without its schema, no
  deployment replaced that nobody looked at, and no run that blocks the next.

`PROJECT.json` lists the hazards one by one with the lines where they bite and the
properties that cover them.

## 2. Modules

| Module | Models | Builds on |
| --- | --- | --- |
| `Forms` | the abstract specification: one form, every request one atomic step | |
| `FormTransactions` | the same requests as interleaved transactions with lock, private writes, rollback | refines `Forms` |
| `Api` | the routes: tokens, actors and permissions in front of every request | extends `Forms`, implements it |
| `EventDelivery` | `submit` with its event: connection, row, lock, send, acknowledgement, timeout, crash | extends `Forms` |
| `ReportPaging` | cursor walks over changing rows, revisions and flows; columns | |
| `Answers` | rules, canonical forms, rows and report cells of fields and answers, against the schema's own rules | |
| `TopcoderForm` | one mounted renderer and the network around it | |
| `PayloadSync` | document, `syncForm`, conditional update | calls the actions of `Forms` |
| `Release` | runs of the deploy job against ECS, CloudFormation and migrations | |
| `FormsProofs`, `FormTransactionsProofs`, `ApiProofs`, `EventDeliveryProofs`, `ReportsProofs`, `TopcoderFormProofs`, `PayloadSyncProofs`, `ReleaseProofs` | theorems | each the module it is named after, `ReportsProofs` both `Answers` and `ReportPaging`; those of `Forms` are used by `FormTransactionsProofs`, `ApiProofs`, `EventDeliveryProofs` and `PayloadSyncProofs` |
| `MC*` | constants and symmetry for TLC | |

Definitions named "Faulty" in a comment are the code with a plausible bug; no
specification uses them. They show that a property can fail.

### How state and actions correspond to the code

**Forms / FormTransactions.** `form`, `versions` and `submissions` are the committed
tables of one form (the code never relates two forms; locks are per form). A
definition is an opaque value, as `definitionHash` makes it; a body stands for
what `requestHash` covers. `Fits` is the verdict of `validateAnswers`, and an
arbitrary relation, so results hold for whatever the rules are.
`FormTransactions` splits each `$transaction` at the points where others can act:
`Begin`, `LockForm` (`SELECT ... FOR UPDATE`), one step for the reads, decisions
and private writes under the lock, `Commit` or `RollBack`, `Close`. Reading under
the lock is one step because the only rows read are changed solely by holders of
the same lock (retention deletes excepted, which are actions of `Forms` only). `RollBack`
stands for the interactive transaction's timeout, a failing statement or COMMIT,
and a crash; in a crash nobody receives its 500. `createForm` is an upsert outside
the lock. The unique and partial indexes and the `protect_*`/`validate_*` triggers
of the migration, and `CREATE VIEW`, which refuses a view that exists, are left out of
the steps on purpose: they are stated beside them, and `SchemaNeverRefuses` says that what
a whole transaction writes never runs into one. That `publish` retires (line 540) before
it publishes (line 552), which the index of published versions needs, is read off the
code: within a transaction the order of the writes is not modelled.

**Api.** A request is a header (none, invalid, or the claims of a verified token) and a
body. `NormalizeActor` and `CanActivate` translate `auth.ts`; verifying a token is
tc-core-library-js's and external. Every handler that changes something is one step,
the step of `Forms` it conjoins with the audit columns it writes (`PostPublish` names
the publisher in two rows: the new version's and the one it retires). `receipts` is a
history of which member was given which receipt. A body is now its content together
with the member, as `requestHash` has it. The routes that only read change nothing and
are left out; what they return is `ReportPaging`'s.

**EventDelivery.** The first transaction is one step of `Forms` (that it may be is what
`Linearizable` says); the second is split at every await. `TransactionExpires` frees the
row while the HTTP call goes on; an abandoned call may or may not still be
accepted (`MaybeAccepted`), which is decided when it is abandoned: nothing looks
at the topic in between. A delivery needs a connection of the pool (`Connect`) and
holds it until its transaction ends, during the call as well; the pool may have any
size up to `MaxPool`, and a request that waits in vain fails (`PoolExhausted`).
`failures` counts attempts whose outcome is unknown or
unrecorded; it exists to bound duplicates by them.

**ReportPaging.** `stage` and `createdAt` are submission rows, stamped before they
commit; `newest` and `classified` stand for the published revisions and the form's
`ai-classify` flow. `CheckCursor` is everything a page reads first (revisions, flow,
cursor row), `ReadPage` its rows. A page follows Prisma's cursor semantics (external):
rows in order (`InOrder`) from the cursor row's place on, `skip: 1` drops the first one whatever it is,
nothing at all when the cursor row is gone. `header` are the columns an export took from
its first page, `hidden` the answers handed out without a column. Replicas share one
clock. Left out: CSV quoting, date parsing and the `sendgrid-email` flow, which appends
one column the way `ai-classify` appends five and filters nothing.

**Answers.** `draft` and `fields` are a definition as sent and as stored, `sent`,
`hash` and `answers` the first accepted answers, what `requestHash` covers of them
and their rows. `PutVersion` and `Submit` are whole requests (one step, because
`lockForm` serializes them). A string is a value of `Strings`; what the code can see
of it (blank, NUL, length, the number or the day it spells) is given by constants,
so formats are parameters and the theorems hold for any. A string has two lengths:
`Length`, in code points, is PostgreSQL's and that of `validateAnswers`; `PipeLength` is
that of `@Length` (class-validator over validator 13.15.35, external), which leaves out
the selectors U+FE0E and U+FE0F after a character. Strings are well-formed Unicode (a lone
surrogate, which JSON can spell and UTF-8 cannot, is left out). JSON values carry their
`typeof` as the name of their component. SHA-256 is injective; `toFixed()` gives one
text per number and is modelled as the number; a sorted array of distinct keys is
modelled as the set. `SchemaTakesField` and `SchemaTakesAnswers` are translated from the migration,
never from the service: reply 500 is the schema refusing what the service accepted.
`Filled` and `Untouched` (together `Entries`) are what the renderer's native controls
permit (the browser's checks of `required`, `min`, `max`, `step` and `maxLength` are
external) and `Collected` what `collectAnswers` makes of it. Which strings a visitor can
type at all is `WordsAssumption`: there is a word of one letter, a zero and a day, and no
option key or number is blank.
Title, success message and description (rules of a label), help texts, `sourcePage` and
the sizes of lists are left out.

**TopcoderForm.** One action per piece of code between two awaits. `post[n]` is the
n-th submission with its own abort signal and what the network holds of it; the
server handles a request also when nobody waits for it any more. Refused answers
(4xx, 5xx, malformed, timeout) are one action, as they differ only in wording. The
change of `formKey` and the effect that reacts to it are one step; React runs them
in one commit.

**PayloadSync.** `Save` is an editor's update, `StartSync` to `Record` the endpoint.
The API executes a call at some moment by an action of `Forms` or refuses it; a
call that was abandoned may be executed later (`late`). Payload's bulk `update`
with a `where` on `updatedAt` is taken as one conditional step (external). `since`
is a history of the document since its last save: has it been recorded, and has a call
made for another document, an abandoned one or that of another synchronization, taken
effect meanwhile. `MetadataTrue` promises nothing after the latter.

**Release.** A run is one execution of `release.py` and registers revision `r`; the
serial group of CircleCI lets one run be active. Each `d.require(initial_stable(...))`
is a step of its own, as are the AWS calls between them, so that the service can move in
between. `Stop` is a failed AWS call, a finding of the image scan or a killed job, at
any stage; what the run started goes on. ECS (`RolloutCompletes`, `RollBack`,
`TasksSettle`), CloudFormation (`StackBegins`, `StackApplies`, `StackEnds`) and
`prisma migrate deploy` (`ApplyMigration`, ...) are external and modelled by what the
script can see of them. `Commit` says which migrations the images of a run contain, so
that an older commit can be deployed after a newer one.

## 3. Runs

| Run | Question | Instance |
| --- | --- | --- |
| `api` | Whatever tokens callers bring: does the lifecycle hold, is the audit trail true, complete and final, do receipts stay with their member? | 2 versions, an open and a member-only definition, 2 keys, 2 ids, 6 tokens, none and an invalid one |
| `transactions` | Do interleaved transactions implement `Forms`, without stale decisions, writes the schema refuses, second views, false successes or conflicts for retries, and is every request answered? | 2 requests, 2 versions, 2 definitions, 2 bodies, 2 ids, 1 key |
| `delivery` | What is sent, what is recorded, how often? | 2 calls, 2 submissions, 3 bodies, 2 lost attempts each, 1 or 2 connections |
| `delivery_liveness` | Does each call end, and do retries get an event delivered? | 2 calls, 1 submission, 1 lost attempt, 1 or 2 connections |
| `report` | Is a walk ordered, complete and finite, and does every answer have its column? | 3 rows, 2 instants, 2 labels, 2 revisions, pages of one row |
| `answers` | Is everything accepted stored (but for labels longer for the column than for the pipe), shown as said, retried by meaning, and can every saved field be answered with the website's controls? | 42 definitions, 106 answer objects, all field types |
| `page` | Is success real, are retries stored once and edits under a new key, is there one submission at a time, does the page settle? | 2 forms, 3 loads, 2 clicks, 2 contents, 2 identities, 2 versions |
| `sync` | Is only published what was saved for it, and does the metadata tell the truth about the API? | 2 syncs, 2 versions, 2 definitions, 2 document updates, 1 late call |
| `release` | Does every runtime find its schema, is no deployment overwritten blindly, does every run end? | 2 runs in either order, up to 2 tasks, 2 stack updates |
| `concurrent_sends`, `export_complete`, `reserved_columns` | Documented promises the code does not keep (section 6) | smallest instances that show it |

**Why the bounds are enough.** Two versions are what it takes to replace a live one, and
to ask for an older draft after a newer launch was retired. Two requests are one too
many for every race in the code, since the lock admits one at a time and every decision
concerns one version and one key. The proofs of section 4 need none of these bounds. The six
tokens of `api` are two editors (one a legacy token without subject), a build machine,
and three callers to refuse: a reporter with a machine's scope, a machine with human
roles, a token with an oversized member id. Ids are at least as many as the submissions
that can be retained with one key per version. A second lost attempt is the first that
meets a retry of a retry. Three rows in two instants have a tie and a page boundary on
either side of it. In `answers` integers have two bits, decimals are halves up to 3,
labels have one and texts three characters, so that every limit is met, passed and
missed by one; each doubtful definition breaks one rule, and two have a label (of a field,
of an option) that is one character for the pipe and two for the column. A pool of one connection is
exhausted by one slow delivery, one of two by two. Two clicks and three loads include an
edit, a retry, a change of form and the way back with a newer version live. Two document
updates let a save fall before, between and after the calls of a synchronization. Two
runs of a release include a newer and an older commit in either order, a migration that
outlives its run, and a rollback to the revision before; two stack updates may fall
before, within and after the window of a run. `MaxVersion`, `MaxTime`, `MaxLoads`,
`MaxClicks`, `MaxUpdates`, `MaxLate`, `MaxFailures`, `MaxPool`, `MaxRelease`,
`MaxDesired` and `MaxChanges` only bound; the code's own limit on versions is 1,000,000
and its pool has ten connections. Symmetry is used for requests, ids, syncs and
definitions where a run has no liveness property and nothing distinguishes them.
Deadlock is checked everywhere except in `page`, where a visitor may simply stop, and in
`release`, where the last run ends.

**Fairness.** `transactions`: open transactions go on (the event loop and PostgreSQL
schedule them; weak fairness on leaving the present step, by whichever outcome), and
PostgreSQL gives a row lock to its waiters (strong fairness on `LockForm`). Arrivals
and rollbacks are not fair. `delivery_liveness`: the service's own steps, a
call to the bus comes back, the pool serves its waiters, and a request is not killed or
starved at the same point for ever (strong fairness on `Connect`, `Send`, `Acknowledged`
and `Record`); `ClientRetries` and `BusRecovers` are assumptions about the outside world,
stated as such, because the service has no background worker. `report`: queries are
answered and the client asks on or goes away. `page`: fetches have a 20 s timeout; that
the host page's `getAccessToken` settles is an assumption, for the component puts no
timeout on it. `release`: a run that has begun takes its next step, which while it waits
may be the deadline of `wait_until`; nothing is assumed of AWS or of migrations. `api`
and `sync` have no liveness property.

## 4. Proofs

For **every** number of versions, definitions, keys, bodies, requests, tokens and runs.

`FormsProofs`: the atomic specification is well-typed (`TypeCorrect`), at most one
version is live and it is the newest launched (`AtMostOnePublished`,
`LiveVersionIsNewest`), numbers have no gaps (`NumbersHaveNoGaps`), views follow
launches, versions only advance, submissions stay valid and receipts unique. The
inductive invariants are conjunctions of those properties with `TypeOK`; validity of
submissions needs in addition that a launched version's definition never changes.

`FormTransactionsProofs`: the inductive invariant is
`TypeOK /\ CallsKnown /\ LockHeld /\ FormFound /\ NoStaleDecision`. `LockHeld` (the
transactions past `lockForm` are exactly the lock's owner) is what excludes two
bodies; with it a transaction's decision, made before its COMMIT, can only be
disturbed by itself, so `NoStaleDecision` is preserved; and a COMMIT whose decision
still holds is one step of `Forms`. That gives `TransactionsAreAtomic`
(`Spec => Linearizable`), and with it the theorems about `Forms` carry over
(`AtMostOnePublished`, `ReceiptsAreUnique`). Assumptions are those on the constants in
the modules: `MaxVersion` is a natural number, subsets are subsets, and the stand-ins
for "none" are not real values.

What a client may rely on rests on a second invariant, `HistoryInv`. "The version is
live" stops being true when a newer one is launched, so it cannot be carried through
the steps; `Recorded` says of each success what can never be undone (a saved
definition, a launch, a retirement, a submission), every commit of a success
establishes it (`CommitRecords`), and no step of `Forms` takes it back (`RecordsLast`).
`SuccessLasts` follows. `RetriesSucceed` is an action property: case by case, the
conflicts a body can answer contradict `Done`, for a submission because its key has one
row, which fits its version.

`SchemaAcceptsWrites` closes the gap between the service's checks and the database's own:
what a transaction that reaches its COMMIT has written is refused by no lifecycle trigger
(`protect_form_version`, `protect_form_definition`, `validate_submission_envelope`) and no
unique index, creates no view that exists (`CreateView`), and waits in no index for another
transaction. It combines `NoStaleDecision` (what is written suits what was read, and that
still holds) with the lifecycle invariant of `Forms` (a draft has no view yet) and with
`WritersCommit` (nobody else has uncommitted rows).

`EventDeliveryProofs`: the tables obey `Forms` (`DeliveryImplementsForms`), and the
inductive invariant is `CopyInv`. Its first half says who holds what: a row lock belongs
to exactly the unexpired transaction past the lock (`LocksHeld`, hence
`RowsHaveOneHolder`), which found the event pending, and it still is (`HeldRowsPend`).
`ContentsAgree` says that an id stands for one content in rows, requests and topic
alike, which is why only saved content is sent. The rest is bookkeeping:
`CopiesCounted` states that the copies accepted, plus the abandoned calls that may yet
be accepted, are at most the failures plus one, and the one is free only while a holder
knows of its acceptance or once it is recorded. Each action moves one unit within that
account (`OwnAccount`, `RequestKind`), so duplicates are lost attempts
(`DuplicatesAreLostAttempts`) for any pool, any number of calls and failures. With
`AcceptedMeansSent` a record means acceptance (`RecordsAreTrue`).

`PayloadSyncProofs`: the calls of any number of synchronizations are steps of `Forms`
(`SyncsUseForms`), so its invariants hold of the API. `SyncInv` adds what each call was
made for (`CallMeant`: a document that was saved, in the status it asked for, with put
accepted before publish), also for the abandoned calls that are executed later; hence
`LiveWasSaved`. For the metadata it distinguishes what a success leaves behind for good
(`Achieved`) from what the next launch undoes (`Kept`): while nothing has overtaken the
document (`since`), a synchronization that saw it in its status and whose document is
unchanged finds it so still (`ArrivedAreKept`), which is what `Record` writes down and
`MetadataTellTruth` promises.

`TopcoderFormProofs`: for any number of forms, loads, clicks and contents. `ClientInv`
says that the only request that may still change the page is the one whose controller
is in `activeSubmission`, that it was made for the form and version shown
(`OnlyActive`), and that every receipt in the network stands for a stored row
(`ReceiptsStored`). For retries it says that until success or a change of form the
remembered attempt is the last click's (`AttemptIsLast`), so that any interval of
clicks on the same content has one key (`OneKey`), which is stated over intervals
because it is then preserved click by click; with the server's unique index one row is
stored. Conversely a key, also the remembered one, stands for one content of one form
(`KeysOfContents`), since a new key is new and the old one is taken only for the old body.
Together they are `RetriesAreOne`. Assumed: there is at least one load and one version, and
`None` is neither a schema, a request nor an attempt.

`ReportsProofs`, of `Answers`: for every set of strings, all limits, definitions and
answers, the schema refuses no answers the service accepts, and of the definitions only
those with a label longer for the column than for the pipe (`AcceptedIsStored`); reports
show exactly what was said (`AnswersAreShown`). `FieldsAgree` and `AnswersAgree` compare
the two sets of rules type by type; the invariant `Consistency` carries them through
the steps: stored fields satisfy the schema, and the rows are those of the canonical
answers sent. That a retry is told from a conflict by meaning
(`RetriesAreToldByMeaning`) needs in addition what was hashed (`KeptAsSent`) and that
canonical forms are unique: two answer objects have equal canonical forms exactly when
they say the same of every field (`HashTellsMeaning`), two definitions exactly when they
differ in no more than the spelling of bounds (`DefinitionTellsMeaning`). `TypesHold`
follows from the same invariant. Assumed: btrim's blanks are among trim's, a key that
matches `KEY_PATTERN` has no NUL, the pipe counts no string as longer than PostgreSQL
does, the constants have their types.

That every saved field can be answered (`SavedFormsAnswerable`) is proved field by field
(`Answerable`), for what the draft's rules leave in the row (`SavedFacts`): a word of one
letter fits every limit of a text; bounds are values of spellings, which can be typed
again, so that a bound, or zero, is an answer to a number, and the spinner of an INTEGER
field goes in whole steps from an integer; a choice has options, which are listed once.
Of an e-mail field nothing is said, as its limit may be shorter than any address, and of
freely typed decimals only that one fits. Assumed besides: `WordsAssumption`.

Both models put a set in order by choosing an ascending listing of it (`Ascending`,
`InOrder`). That one exists is one lemma for both (`OrdersList`): a least set that had
none would, without its last element (`LastExists`), give a smaller one, subsets of a
finite set being well-founded under inclusion; and a listing names each element once
(`ListingIsOnto`).

`ReportsProofs`, of `ReportPaging`: for any rows, revisions, walks and page size. From
`RowsInOrderOnce` come what `skip: 1` leaves (`RestFollowsCursor`) and what a page and
its cursor are (`PageIsHead`). The invariant `PagingInv` then says of each walk that its
cursor is the last row handed out and that rows handed out keep their timestamps
(`WalksKeepOrder`); that rows still due lie beyond the cursor and also match what the
page under way has read, which may be older than what is true by now
(`WalksSkipNothing`); and of an export that rows stamped no later than its snapshot
answer revisions whose columns it has, because a later revision is published in a later
millisecond (`AnswersKeepColumns`). What everybody else may do to a walk is stated once
(`Surroundings`), proved of all other steps (`StepsAround`) and shown to keep the
invariant (`SurroundingsKeepWalks`). Of `WalksEnd` the part without scheduling is proved:
a page that announces another one is full (`PagesAreFull`) and a walk hands out no more
rows than there are ids (`WalksAreBounded`), so it has boundedly many pages. Assumed: ids are finitely many integers, there is
at least one revision, and the stand-ins for "none" are not values.

`ApiProofs`: every step of `Api` is a step of `Forms` or leaves its tables alone
(`RequestsAreSteps`), so `Api` implements `Forms` (`ApiImplementsForms`) and its theorems
hold behind the guard (`ApiKeepsLifecycle`). `AuditsNameEditors` rests on an invariant
that ties each audit column to the status of its version; that names are those of tokens
that may manage forms comes from `CanActivate`, token by token, for any set of claims.
`AuditEntriesAreFinal` is an action property of the same invariant: a column is written
only in a step that begins with it empty. `ReceiptsStay` needs that ids are never reused
and that a retry is answered only for the same body, hence the same member. Assumed are
the shape of claims and that `requestHash` covers the member.

`ReleaseProofs`: for any number of runs and stack updates, any capacity and any commits.
`RuntimesHaveTheirSchema` needs the invariant `SchemaInv`: a task that succeeded has
applied its commit, a run comes to the registration only after its own task succeeded,
and only registered revisions reach the service, by whatever way. `OverwritesAreSeen`
needs `LookInv`: one run is active, and since it came to update the service either the
deployment it began with is still there or something moved after the last look.

Only model-checked: all liveness (`RequestsEnd`, `CallsEnd`, `EventuallyDelivered`,
`WalksEnd`, `PageSettles`, `ReleasesEnd`), out of this prover's reach, as is `ENABLED`.
Every other property of the passing runs is also a theorem. Conversely, a single live
version, numbers without gaps, a view per launch, the exclusion by the locks, unique
receipts, the types of `Forms` and `FormTransactions`, full pages, and what delivery and
synchronizations do to the tables are proved and no run repeats them.

## 5. Not modelled

Listed with reasons in `PROJECT.json`. In short:

* configuration (parsed once), bootstrap, health and throttling (framework wiring; the
  throttle counts per replica and decides nothing else);
* processor tables: written by another service; what reports see of them is external in
  `ReportPaging`;
* `activate.py`, which repeats the last wait of `release.py` for the older pipeline, and
  the publication and verification of images and manifests (external services);
* CSV quoting (per cell, no state), the markup of the renderer, `hiddenAnswers` and the
  shape check `isPublicForm`;
* scripts (sequential, run by hand) and legacy migrations (not deployed any more);
* that `total` and the rows of one report page come from separate statements:
  `docs/api.md` disclaims a snapshot.

## 6. Where code and documents disagree

* `concurrent_sends`: after the 15 s timeout of the delivery transaction two sends of
  one event can be under way (`docs/data-model.md:55` against `forms.service.ts:713`).
* `export_complete`: an export whose cursor row is deleted or relabelled between the
  check and the read ends normally without its remaining rows
  (`forms.service.ts:364` against `:233`).
* `reserved_columns`: the names of the columns a processor flow appends are not
  reserved, so a field of that name loses its answers in reports (`docs/api.md:42`
  against `forms.service.ts:306`).

Noticed while reading, without a run of its own:

* A label of 150 times "❤️" has length 150 for `@Length(1, 200)`, which leaves out the
  selector in each, and 300 for `VARCHAR(200)` (lines 55 and 73 of the first migration),
  so the definition is accepted and its insert ends in a 500, however often it is repeated
  (`docs/api.md:126` and `:133` against `dto.ts:59`). `OnlyLongLabelsFail` excepts exactly
  these definitions: the `answers` run reaches such a reply with the label `heart`.
  `@Length` and `@MaxLength` count so too for title, success message, description and help
  text, and for a visitor's `sourcePage`, which `Answers` leaves out.
* An idempotency key is reserved per revision, not per form (`docs/api.md:109` against
  `forms.service.ts:639`).
* A release sets the desired count it read at its beginning, so a capacity change that
  finished in between is undone (`release.py:117`), about which the documents say nothing.

## 7. Plan

1. Done: all modules of section 2, and proofs about every one of them.
2. Next: `sendgrid-email` columns and CSV cells beside the cells of `Answers`, and
   `hiddenAnswers` in `TopcoderForm`.
