# MemHouse, in TLA+

MemHouse keeps memories for agents: a client sends a statement or a conversation, a pipeline
classifies, gates and embeds it, and a Postgres store keeps the records that later answer recalls.
The promises that matter are about what happens when several of these things run at once: a write
that was acknowledged is not lost, what was erased stays erased, two corrections of one fact leave
one current fact, a stricter policy is in force where it was made stricter, and what a caller may
not see it cannot tell from what is not there.

This directory holds TLA+ modules of the parts that make those promises, TLC configurations that
check the ones with state on small instances, and TLAPS proofs. Paths below are relative to `src/`;
`core` is `crates/memhouse-core/src`, `store` is `crates/memhouse-store-postgres/src/lib.rs`,
`server` is `crates/memhouse-server/src`.

## Inventory

| Part | State | Operations | What is hard | What makes it correct |
|---|---|---|---|---|
| Write path (`core/engine.rs`, `core/intake.rs`, `store`) | `mh_intake` rows, `mh_memory` status and `superseded_by` | enqueue, claim, pipeline, `apply_intake`, `finish`, `fail`, poison, prune, forget, `delete_subject`, expiry | workers and request tasks run the same code; leases are outlived; the pipeline reads long before it writes | order of a subject's writes, erasure is final, nothing acknowledged is lost, a record is stored once, revisions do not fork |
| Gate, classifier and stages (`core/gate.rs`, `core/classify.rs`, `core/intake.rs`) | none of their own | prepare, redact, gate, route, embed, resolve | a write is queued under one policy and tried under another | redaction is complete and stable, a hedged statement is held, every write leaves an audit event |
| Review (`core/engine.rs` admit, reject) | `mh_memory` status, audit events | admit, reject | each call is several transactions | one successor of a version, an audit trail that says what happened |
| Idempotency keys (`core/engine.rs`) | `mh_request_key` | replay, `remember_key` | check, act and record are three statements; the gate compares what was stored meanwhile, and not every kind of record | one copy of a write takes effect, an answer is about what was sent, a repeat of a recorded key changes nothing |
| Enrichment (`core/enrich.rs`) | `mh_enrich_job`, `mh_llm_cache`, facts | claim, read, ask, dedupe, insert, finish, fail | a language model call of seconds between reading and writing, with erasures meanwhile | a fact once, and once more for every outlived lease; nothing derived from an erased round |
| Policy (`core/policy.rs`) | `mh_policy_spec`, `mh_policy_activation`, `mh_policy`, a cache per process | propose, approve, rollback, `policy_for`, compile | caches, restarts under another configuration | approved before active, governance wins, picked up in time |
| Recall and listing (`core/engine.rs`, `core/explain.rs`, `store`) | explanations kept in memory and in `mh_recall` | recall, explain, list, page | the records, the policy and the clock change between the stages; pages are read one by one | an answer passed its own filters, an answer is audited first, an explanation is that of its answer, pages meet |
| Access and callers (`core/access.rs`, `core/caller.rs`) | grants | a decision before every operation, a second check after it | what is hidden must not differ from what is missing | every operation is constrained by its decision |
| Identity (`core/identity.rs`, `crates/memhouse-cli/src/principals.rs`) | principals, keys, signing keys, a cache of 5 s | authenticate, issue tokens, revoke, rotate, disable, connect | cached answers and refusals beside an operator's commands of several statements | a revocation takes effect in time, tokens never widen, a rotation leaves a key |
| Re-embedding (`core/reembed.rs`) | staging columns, the target and the model in `mh_meta` | passes, cutover, abort, resume | writers of the old model go on, runs overlap | vectors of one model only, none lost in the switch, stale readers refused |
| Audit (`store`) | `mh_audit`, a chain of hashes | append, seal, verify | numbers are drawn, sealed and committed by transactions that may fail | the log verifies whatever the order, an altered row is found |
| Wider erasures (`core/engine.rs`, `store`) | records, queue, keys, links, recalls, cached vectors and answers | forget by record, session, user, agent, source, subject, tenant; retention | several transactions, batch by batch, beside everything that writes | nothing of the scope is left or comes back |
| Schema (`store` migrate) | `mh_meta`, tables, the columns of old rows | create, stamp, backfill, repair, guard | statements with no transaction around them, by builds of several versions | a version is recorded after its tables and rows are there, and never falls |
| Export and import (`core/format.rs`) | a file, another database | export by pages, import by chunks, upgrade of version 1 | no snapshot; an import may break off | a file has what was there all along, an import may be repeated, what is written is read back |
| Front ends (`server/lib.rs`, `server/mcp.rs`, `server/openapi.rs`, `core/error.rs`) | none of their own | decode, verify, call, encode; tools; the published contract | two generations of tools, a document that must not break its clients | a refusal has a documented status, a tool cannot do more than the API |
| Models, command line, configuration, telemetry, benchmarks | none the rest depends on | translation | | |

The parts meet in the database: everything a worker knows between two statements may be stale by
the second one. So every module with state has one action per SQL statement, or per transaction
holding its row locks, and interleaves there.

## Modules

Modules with state:

| Module | Models | State and actions |
|---|---|---|
| `Intake` | the write path | `rows`, `seq` are `mh_intake`; `mem`, `by`, `confirmed` are columns of `mh_memory`; `attempt` is what a worker carries between its statements. `EnqueueBegin`/`EnqueueCommit`, `Claim`, `RunPipeline`/`PipelineFails`, `ApplyIntake`, `Finish`, `Retry`/`Bury`/`QuarantinePoison`, `Crash`/`Dies`, `LeaseExpires`, `BackoffEnds`, `ForgetDiscard`/`ForgetDelete`, `DeleteSubject`, `ExpireDue`, `Prune` |
| `WriteLog` | what a client relies on | a fate per record: `Send`, `Accept`, `SetAside`, `Store`, `Erase`. `Intake` implements it (`ImplementsWriteLog`) |
| `Admission` | `admit`, `reject` | the calls of reviewers step by step, beside direct commits, expiry, forget and crashes |
| `Requests` | idempotency keys | `Replay`, `Dedup`, `EnqueueWrite`, `RememberKey` of each call, on a queue taken at `Intake`'s word; `Land` is what the gate makes of the oldest write, `Admit` and `Close` what reviewers and events do to a record later, `known` and `admitted` are histories |
| `Enrichment` | enrichment jobs | `ReadRounds`, `Lookup`, `Chat`, `CachePut`, `Dedupe`, `Insert`, `Finish`, `Fail`, and the erasures |
| `Erasure` | forget by every scope, and retention | `ForgetStep` is one statement of a call (`Begin`, `Discard`, `Count`, `ForgetMatches`, `Delete`, `RecallsDelete`, `ForgetCount`, `TenantSubjects`, `EraseSubject`, `TenantRows`), whose `known` is what there was when it began; beside it `Enqueue`, `Claim`, `EmbedPassages`, `ApplyIntake` of writes, `ReadRound`, `EmbedFact`, `StoreFact` of facts, recalls and links |
| `Policy` | which policy an operation runs under | `log` is `mh_policy_activation`; `cache` is `PolicyCache`; `policy_for` is `Begin`, `Ask`, `Confirm`, `Record`, `Put`, `End`; approve and rollback are `AdminRecords`, `Activate`, `Invalidate`, `Audit` |
| `Governance` | `compile` | the compiler as operators on records of settings, and a process that activates and restarts |
| `Reembed` | moving to another embedding model in use | `db`, `target` are `mh_meta`; `vec`, `next` are the columns `embedding`, `embedding_next`. A run is `BeginRun`, `Pending`, `Check`, `Create`, `Fetch`, `Write`, `Cutover`, with `Abort` and `Crash`; processes `Start`, `Insert`, `Recall` beside it. `overtaken` and `mixed` are histories |
| `Identity` | the authenticator | `principals`, `keys`, `signers` are tables, `cache` its answers; a call is a step per lookup, a command a step per statement. `since` and `lived` are histories: since when a credential has been in order, and when a principal was last live |
| `Schema` | `migrate` | `meta`, `tables`, `rows`; a process's start is a step per statement, and it may stop before any of them, or serve and write |
| `Archive` | export and import, on `Schema` | `file` with a page per query, `copy` with a chunk per transaction; breaking off and repeating |
| `Recalls` | the recalls of a process | a call is `Begin`, `ResolvePolicy`, `Embed`, `Search`, `LookupExact`, `LookupMore`, `Rank`, `Audit`, `Record`, or `Degrade`; `Put` and `DropStored` keep explanations, `Change` is everything else |
| `Audit` | `mh_audit` | `BeginTx`, `Lock`, `AppendRow`, `Commit`, `Fail` of writers |

Modules of operators, for code that decides and computes but keeps nothing:

| Module | Models |
|---|---|
| `Statements` | what the gate reads in a text: redaction, injection, classification, route, changed values |
| `Pipeline` | what each stage of `intake.rs` makes of a record, and the events of its way in |
| `Format` | the lines of an export and their checks, version 1 files, the times a supersession and the upgrade's repair write |
| `Access` | decisions, constraints and visibility |
| `Recall` | filters, probes, cutting to `k`, the budget, and the reasons an explanation gives |
| `Callers` | every operation of a caller: what it checks, in order, and what it hands to the engine |
| `Listing` | which records a list shows, its order and its pages |
| `Contract`, `Server`, `Tools` | the published operations and the check for breaking changes, the REST routes, the MCP tools |

`Pipeline` extends `Statements` and `Format` extends `Pipeline`: a text becomes a record and the
record a line. `Recall` extends `Access`, `Recalls` and `Callers` extend `Recall`, `Server` extends
`Callers` and `Contract`, and `Tools` extends `Server`: a request comes in at the top of the chain
and its decision is made at the bottom. `Archive` extends `Schema`, for an export reads what
processes of several builds write. `Identity` extends `Access`. The modules `MC...` are instances
for TLC and those named `...Proofs` hold theorems; each of these extends the modules it is about, so
names that would meet in one of them differ (`RequestNext`, `ReembedNext`, `ErasureNext`).

What is abstracted: contents are identities, and a text is what patterns and word lists find in it.
In the modules with state the verdict of the gate, the nearest record and the language model's
answer are choices over every outcome the code distinguishes; `Pipeline` says which outcome belongs
to which text. Time is its effects: a lease runs out, a backoff ends, an expiry is due. `Policy`,
`Reembed` and `Identity` have a clock, for the age of a cached answer is a promise in seconds; a
tick is a part of that age. A hash is what it was made of.

## Runs

A run is exhaustive. `CHECK_DEADLOCK FALSE` stands where a system with nothing left to do stops, or
where a bound on calls or clocks does. Workers, reviewers, tasks, administrators and re-embedding
runs are interchangeable; a large configuration that checks no liveness says so with `SYMMETRY`.

| Run | What it shows | Bounds |
|---|---|---|
| `intake_session` | a subject's writes in order (`SubjectOrder`, `LandsInOrder`), an erasure final, a forget that misses nothing, claims held once and nothing acknowledged lost (`QueueSafe`), and the refinement of `WriteLog` | a session of two rounds and a statement, two workers, one fault, poison after one attempt, one round forgotten, the subject erased |
| `intake_plan` | a revision that took effect is the one that replaced its version (`RevisionLinked`); a record is inserted once (`StoredOnce`) | a revision that may be held as a plan, a statement that may correct the same version or confirm the plan, two attempts, one fault, either forgotten |
| `intake_live` | every acknowledged write ends | two writes of a subject, one fault, and in another subject a write that takes down every worker |
| `admission_rivals` | one successor of a version, final states final, every decision in the trail | two reviewers, two revisions of one version, one of them possibly committed directly; expiry, forget, a crash |
| `enrichment_erase` | a fact once, and once more for every outlived lease; one session at a time; what may come back after an erasure; every job ends | two sessions, two workers, two attempts, one fault, a round and the subject erased |
| `requests_retry` | copies of a content the gate compares take one effect, unless a reviewer or an event admits one; an answer is about the content that was sent, and a repeat of a recorded key gets the first answer and queues nothing | a statement and a structured record, each sent twice under one key, one fault, one erasure |
| `policy_change` | what runs was kept, compiled under the governance in force, approved, and is picked up in time | one version, two administrators, two operations on one cache, two activations, one restart |
| `governance_rules` | the compiler: governance wins, something ranks, restarts are monotone | every spec that sets at most two settings, an empty ranking section among them, and configurations one setting from a plain or a strict one |
| `reembed_switch` | vectors of one model, none lost, stale recalls refused in time | two records, a process that stays on its model, two runs of three commands to three targets, two of one dimension and one that changes the prefix only, an abort, an interruption |
| `identity_service` | who is served was sound a moment ago, tokens pass on no more than their issuer has, a refusal has a cause, a rotation hands over before it ends | one call at a time, three credentials, one command, one failed statement, a clock of two ticks |
| `erasure_forget` | nothing acknowledged before an erasure is left or comes back, no trace of it is left, no cached vector without a cause | one forget of every scope and retention, a session and a statement with one text, one fact, recall and link, one trace written at a time |
| `schema_archive` | a version is recorded after what it stands for and never falls; a file has what was there all along; an import may be repeated | three builds, two configurations, three records, two of them old; pages of one, chunks of two |

Every invariant and action property of these runs is also a theorem, for all values of the
constants; the two liveness properties are not. So a run is there to find a wrong model or property
early, and to show that each property can fail. Types are part of every inductive invariant that is
proved, and so the configurations spend their time on properties that say more.

Two of everything is enough for the races named in `PROJECT.json`: each is a race of two actors
over one row, and a third actor repeats what the second may do. One fault is enough to outlive a
lease or to crash between any two steps. Poison after one attempt keeps `intake_session` small and
drops no interleaving of it, for an attempt that fails and is tried again differs in the count only;
`intake_plan` has two. The attempts counter saturates at `AttemptCap`, above what the faults of a run
allow; `OneHolder` tells attempts apart below it, and so holds for any cap.
A write that waits for a reviewer takes the path of any other write and its later life is
`Admission`, so no configuration of `Intake` has one.

Ten passes of a re-embedding run are two here (`MaxPasses`), which is enough to be put off once and
to give up. The five seconds for which a look at the database's model is trusted are two ticks
(`Recheck`); the five for which an authentication is cached are one (`CacheTtl`), and so is the
time a verification takes (`Lag`). `MaxCached` is one, so that the cache is full when it matters.
In `erasure_forget`, `Batch` is one record and `Extra` one round beyond those that the first count
calls for (ten in the code), so that a call may find new records and may give up; `MaxTraces` and
`MaxSlow` bound how many keys, recalls and links, and how many attempts that embed late, are under
way. In `schema_archive`
no process starts while a file is written: the races of starts are in the states before.

### Conditions the properties carry

They are there because the code does no better, and each was found by stating the stronger property
first and reading the counterexample:

- `StoredOnce` and `LandsInOrder` except writes that were set aside: `apply_intake` refuses a `done`
  proposal and not a `dead` one, so an attempt that outlived its lease may store what another buried,
  after later writes landed, and again after the record was forgotten.
- `SubjectOrder` for writes acknowledged before the later one was sent: a sequence number is drawn
  before its row is visible, so of two writes sent at once the earlier number may appear behind a
  claimed later one.
- `EveryWriteEnds` except in the subject of a write that takes down every worker: attempts are
  counted where one reports an error, so such a proposal is claimed for ever, and the sentence of
  `docs/operations.md:373-375` that a proposal that keeps failing never blocks its subject holds for
  the ones that report.
- `RevisionLinked` except plans that were confirmed: a held revision is committed by a later event
  without superseding what it revises, so a version can have two current successors.
- `OneSuccessor` says a version has one successor and not that the successor is current: `admit`
  supersedes first, and a rejection between its two statements leaves neither version current.
  `DecisionsAudited` says a decision has its event and not the converse: `admit` logs an admission
  whose update changed nothing.
- `OnlyRacedComeBack`, and the fact that `ErasedForGood` excepts: a fact of an erased round may
  appear, by an attempt that had read the round (the comment at `store:1720-1721` says facts go with
  their record). The cached answer of a job that failed may stay as well, for no job names its key
  (`core/enrich.rs:261`).
- `FactsOnce` allows a copy more for every attempt that outlived its lease. `enrich_fail` and
  `enrich_finish` name the job and not its holder, so a late attempt may return a job another attempt
  runs, and both insert what neither found; one attempt that outlived its lease adds one copy and not
  two. `OneAtATime` has no such bound and holds while no lease was outlived.
- `OneCopyTakesEffect` of contents the gate compares, and not of copies that were held. The comment at
  `core/engine.rs:221-223` says that where a key is not recorded a retry may queue its content again
  "and the gate rejects that copy as a near-duplicate of the first". It does so for statements and
  the like that were committed by then: structured records are compared with nothing
  (`core/intake.rs:798-800`), nor are the rounds of a session (`:778`), so two copies of one that are
  queued at once are both committed (`Uncompared`); and `nearest_many` looks at committed records only,
  so of two copies that are held, or left to a reviewer, both may be admitted (`admitted`), for
  neither `admit` nor a confirmation compares. `docs/development.md:333-334` promises integrators
  that a job which sends its keys again "writes nothing twice"; that holds where the key was recorded
  before the repeat began, which is what `AnswerFits` says.
- `AnswerFits`, and not that retries are answered alike: a retry beside its original, or after a
  failure to record the key, is answered with a record of its own, which the pipeline may reject as
  a duplicate. A call that is refused because the insert failed may have been stored. A repeat that
  began before its subject was erased is a new write after it, for the erasure takes the key.
- `PickedUp` within the refresh and a pause of the operation itself (`MaxStall`), not within the
  refresh alone, nor at once for the process that approves: an entry is dated when it is put, and may
  be put after the invalidation. An activation and its audit event are two statements, so one may
  be without the other. Two proposals that compute the same version: the primary key refuses one.
- `OneModel` until a switch that is `mixed`, and from the next switch that is not. A switch is mixed
  if its target was recorded while a run to another target of the same dimension was at work (one
  whose target was aborted under it, or one that had looked for a target at the same moment):
  `reembed_write` looks at dimensions and not at whose columns it fills. It is mixed as well if a
  process on another passage prefix of the same model is up, for the trigger that guards inserts
  compares names. `docs/operations.md:476-477` says that vectors of the same model with a different
  prefix can't be compared and so a database holds one embedder at a time; both exceptions were
  needed (each fails without the other), and there are no others.
- `StaleRefused` says a process on the old model is refused again and again, not always: between two
  looks at the database its recalls are answered, and the look that refused counts as one.
- `ServedWasSound` allows the cache's age and a verification's time after a revocation, and the
  cache's age after the last moment at which the principal was live (`lived`). It is not of the time
  the record was disabled at: `principals` commands read a record and put it back whole, so a
  command that had read it disabled writes the old time back after another one enabled it, and who
  was served in between seems to have been disabled all along.
- `ErasedForGood` asks of a forget that gives up that nothing of what it was to erase is queued, and
  no more: records that come while it goes round take turns with those it began with, so some of
  these may be left when its rounds are over. It answers with an error that says so. With a batch of
  one and two writes this cannot be seen, with more it can.
- `TracesErased` is of what was kept before the erasure. A key recorded last, and an explanation put
  by a task that was spawned, may land after it; the ring in memory answers `explain` after an
  erasure (`docs/governance.md:272` and `docs/schema.md:159` say it is erased). `VectorsHaveCause`
  excepts texts that were never stored or were being tried: their vectors stay in the cache. A
  forget of a wide scope that carries a key is recorded under no subject.
- `RunsAsRecorded` excepts processes that looked before the first start had recorded all of its
  configuration: two first starts with different settings can record a mixture. A version 1 process
  that writes after the backfill leaves rows without the new columns.
- `ExportComplete` is of records that were there all the time. An export is not a snapshot: policies
  are read first and links last, so a file may lack the policy of a later record, and have a link
  whose record it does not have, which the import then refuses at its end, every time.
- `WritesReadBack` asks that the caller's end of validity is not before the write and that a path of
  code is named once, for `remember` does not ask, and the import does (`docs/memory-format.md:67`,
  `:73`). A version 1 record that is superseded by nothing in its file is accepted by the upgrade and
  its exported line refused.
- `RepairEndsOpenRecords` states what the last statement of the upgrade does beside what its comment
  says (`store:936-944`): `greatest` passes over NULL, so a record with no end whose last change was
  stamped before its creation gets an end where it begins, and is recalled at no time afterwards.
- `RefusalsDocumented` is of what the access layer refuses, but for a `remember` that names a memory
  it supersedes: one that is not there is answered 404, which the document does not list for it
  (`server/openapi.rs:154`). Nor does it list the 400 of `GET /v1/audit` for a limit that does not
  decode (`server/openapi.rs:475`). `OldBodiesFit` is of what the check for breaking
  changes looks at: it compares no bounds, no schemas of parameters, and no enum, alternatives or
  items where there were none.
- `ChainVerifies` and `ChangeIsFound` are of rows that are there: cutting off the newest rows leaves
  a chain that verifies. The time of an event is read before the lock, so times need not follow the
  numbers.

### Fairness

`FairSpec` of `Intake` and `Enrichment` assumes weak fairness of an attempt's next step, of claiming
each job by some worker, of an unattended lease running out and of a backoff ending. `LocalRunner`
polls for ever and every step of an attempt is bounded by a timeout, so an enabled one is taken;
a clock advances. Nothing is assumed of clients, erasures, faults or of a particular worker. A panic
ends the loop of a worker for good (`core/intake.rs:182`); the properties assume that one worker is
left. The other modules state no fairness and no liveness.

## Proofs

Every theorem is for all values of the constants that satisfy the named assumptions, and so for any
number of actors, records, faults and steps. The pattern is the same throughout: a property is
seldom inductive, so each module of proofs defines an inductive invariant, shows that the initial
states satisfy it, has one lemma per action that keeps it, and reads the properties off it.

`IntakeProofs`, the write path:

- `SubjectOrderHolds`, `ErasureHolds`, `LandsInOrderHolds` from `IInv`. A claim compares sequence
  numbers, so `Numbered` says the numbers agree with what was acknowledged before what; a claim is
  lost and taken again, so `Working` and `Grounded` say that what runs, lands or is erased was
  acknowledged.
- `QueueSafeHolds`, `ForgetNeverMissesHolds`, `RevisionLinkedHolds`, `StoredOnceHolds` from `QInv`
  and `AInv` on top of it. `Content` says when a row has its content, `Stocked` where a stored
  record came from, `Carrying` how what an attempt holds relates to the row it left, which loses
  records under it and never gains any. `Counted` numbers attempts by the claim that began them, and
  is why a worker that lost its lease never holds the claim. `Current` says that what may become a
  current version is settled, and no transaction will insert it again: without it a version could be
  superseded before it is there.
- `WriteLogImplemented`: every step of `Intake` is a step of `WriteLog` or a stutter, one lemma per
  action, under the refinement mapping `Fate`.

`PolicyProofs`:

- `KeptBeforeUsedHolds`, `GovernanceWinsHolds`, `ApprovedOnceFirstHolds`, `PickedUpHolds` from
  `PolicyInv`. `Recent` gives every cache entry and every read in flight an age: what was read `n`
  ticks ago had seen all but the activations of those ticks. `Governed` says who compiled what is
  cached, across restarts.
- `OneModelHolds`, `StaleRefusedHolds`, `NoVectorLostHolds` of `Reembed`, for any models, dimensions
  and prefixes. The invariant says that what is staged is of the target, for whichever run staged it,
  unless a rival run was at work when the target was recorded (`overtaken`); and that a process the
  trigger lets write is of the database's identity, unless the last switch was mixed.

`AdmissionProofs`:

- `OneSuccessorHolds`, `DecisionsAuditedHolds`, `FinalStatesStayHolds` of `Admission`. `CallSound`
  says that what a call has read still holds when it writes: a version that it superseded is still
  superseded by it, or gone. `Trail` counts a decision that a call is about to log.
- `ErasedForGoodHolds`, `TracesErasedHolds`, `VectorsHaveCauseHolds` of `Erasure`. `Progress` says
  of a forget at each of its steps what it has seen to, and `Grows` what anything else may do
  meanwhile, so that what was seen to stays so (`ProgressStays`): a record that is stored anew was
  queued, or is derived; a trace that appears was not there. `Landed` and `Derived` say how a
  record, its proposal, its attempts and its fact relate. `Removes` is what one record's cascade and
  one subject's deletion have in common.

`QueueProofs`:

- `OneCopyTakesEffectHolds`, `AnswerFitsHolds` of `Requests`: what is recorded under a key, and what
  a call carries to its answer, has the content of the call. `OneCopyTakesEffect` is inductive as it
  is: a compared content is committed by `Land` only, which sees every committed copy. `KnownKept`
  says that a key once recorded stays recorded for the same call until its subject is erased,
  `NotYet` and `QueuedOnly` that a call has no record before it queues one, and `RepeatsOnly` that
  one which began when its key was recorded is at `Replay`, or is over.
- `FactsOnceHolds`, `OneAtATimeHolds`, `OnlyRacedHolds` of `Enrichment`. `TriesBounded` counts, of
  each job, the attempts that are at it and the claim it is open to: together one, and one more for
  every outlived lease, since only a lease that ends under its attempt opens a job twice. `Copies`
  counts the copies of a fact and the attempts that are about to store it: only attempts at the fact's
  own job are, and none sets out to while there is a copy. `JobsHeld`: while no lease was outlived, an
  attempt has its job to itself. `ReadKept`: a round that was read is there, or went while it was read.

`ArchiveProofs`:

- `UpgradeIsSoundHolds`, `VersionOnlyRisesHolds` of `Schema`: `Behind`, `Sees` and `Knows` say of a
  process on its way what it has made, what it has seen and what it runs. A process that will raise
  the version without a backfill has seen a database with no old records, and there are none later.
- `ExportCompleteHolds`, `ImportRepeatableHolds` of `Archive`: up to the cursor, what was there and
  is there is in the file; what was read of the file is in the other database. They rest on lemmas
  about a page as the least ids behind a cursor (`InOrder`).

`FrontProofs`, the way of a request:

- `HiddenIsMissing`: what a caller may not see is answered exactly as what does not exist.
  `FoundIsGettable`, `ListedIsGettable`: what a recall or a list shows may also be read by its id.
  `ExplanationAgrees`: `explain` gives ranking as the reason for an absence exactly where the search
  could have found the record. `TokenNeverWider`: a token is never wider than its issuer.
- `RefusalsDocumented`, `NoToolForgetsATenant`, `OldCallsAccepted`, `OldBodiesFit`: refusals have a
  documented status, no tool of either generation forgets a tenant, and where the check for breaking
  changes is silent, old calls and bodies are accepted.
- `ServedWasSoundHolds`, `TokensNarrowHolds`, `RefusedForCauseHolds`, `HandedOverHolds` of
  `Identity`. A verification reads at several moments, so the invariant says of every read that it
  was right when it was made, and that what rows say once stays true of them (`Grows`): an id keeps
  its kind, a key its principal and permissions, and an end is never put into the past. So an answer
  is right about the moment it was made at for good, wherever it is kept.

`RulesProofs`, the rules:

- `GovernanceAlwaysHolds`, `AlwaysRanks`, `StricterAlwaysStricter`, `LooserAlwaysCompiles` of
  `Governance`, from `Made`: what a process runs is what its configuration made of the active spec.
- Of the stages: redaction is idempotent (`RedactionIdempotent`) and complete under the policy in
  force (`PolicyInForceRedacts`); a hedged statement is held; a refused kind is neither classified
  nor embedded; the rounds partition a conversation; what is superseded was current, not newer and
  not taken before; every write is audited; updates change a value.
- Of the format: a write's exported line is accepted by the import (`WritesReadBack`) and still is
  after a supersession; no two versions are valid at a time; the repair puts times in order, and
  ends open records; the upgrade's links lead to records of the file. Lines are followed through the
  stages by what each of them keeps (`Keeps`).
- `PagesMeet`: whatever is written or erased between two pages, a record that stays is on the page
  or behind its cursor, and not both. A page is what has fewer than `n` newer records, so the proof
  counts what is above a record.

`RecallsProofs`:

- `AnswersPassFilters`, `AnswersAreAudited`, `ExplanationsAreTrue` of `Recalls`. The records may
  change at any time, so the invariant says of a call at each stage what it has read and under which
  policy.
- `ChainVerifies`, `LogOnlyGrows`, `ChangeIsFound` of `Audit`: who holds the lock, that the rows a
  writer carries continue the sealed ones, and that numbers rise.

### Assumptions

The named `ASSUME`s, which TLC evaluates in the runs, say of what kind each constant is, and:

- `Intake`: a record belongs to one proposal and lives in its subject; a statement has one record;
  rounds revise nothing. `Enrichment`: a round belongs to one session, and a fact cites a round; workers
  are finitely many.
- `Admission`: the records that were there at first revise none of the others, and nothing revises
  itself.
- `Policy`: there is an engine, and an entry is trusted for at least a tick.
- `Reembed`: a name has one dimension, for it says so where a model's vectors are shortened
  (`crates/memhouse-models/src/lib.rs:306`). `Schema`: ids are numbers, and finitely many; an unset key is
  no number. `Erasure`: writes are finitely many, and a forget names one of the six scopes.
- `Identity`: keys and tokens are told apart, the rows at the start are of principals under their
  own ids, and a key is of a principal there is.

`Listing`, `Callers` and the others without state have none: their hypotheses are in the theorems'
own statements, such as that no record has `Nobody` for a scope, which is what `core/access.rs`
chose the value for, and that the value for an absent field is no number.

### Only model-checked, only proved

Only model-checked are the liveness properties `EveryWriteEnds` and `EveryJobEnds`: the prover has
no rule for fairness or `ENABLED`. What a recursive or inductively defined computation gives for
every input cannot be proved here, which is why no theorem is about ranking, budgets or whole files
of lines. Only proved, and not run, are the theorems on `Recalls`, `Audit` and the modules of
operators: their constants are arbitrary, and an instance for TLC would be the small case of what is
shown for all.

## Not modelled

- Ranking in a recall is floating-point arithmetic over texts and vectors: a probe may rank the
  records that pass its filters in any order.
- What a pattern or a word list matches in a text is given with the text. A stretch is redacted as a
  whole, so a mark inside a larger match (a key in a PEM block) is left out; the injection check
  reads the redacted text; the content hash is not made again after a second redaction. A caller's
  metadata may hold keys the pipeline reads (`duplicate_of`, `derived`), and does in `Pipeline`.
  `core/classify.rs:287` cuts a word at five bytes.
- Prompt building and the parsing of answers of the language model are the rounds a fact cites.
- `relabel`, the model adapters, the command line beyond `principals`, configuration, metrics,
  telemetry, benchmarks and development tasks keep no state the modules depend on.
- `code_of` reads errors without a code by their text: `Server` keeps which phrases a message has.
- Forgetting one round of a session drops the session's enrichment job (`store:1731`), so its other
  rounds are not read again; that is what `ForgetRound` does and no document says otherwise.
- Of a re-embedding, the second vector of a round moves with the first and the audit event after the
  switch is left out.

## Plan

1. Done: the modules above, with the write path first, for everything else reads or erases what it
   stores; and a theorem for every safety property that a run checks.
2. To prove next: that `Policy` runs what `Governance` compiles, so that `GovernanceWins` and
   `GovernanceAlwaysHolds` are about the same policy; that the pages of a whole list, taken together,
   are the list (`PagesMeet` is of two); for `Recall`, that what is cut to the budget is a prefix of
   what was ranked.
3. To model next: the way of a relabel through the store; ranking as an order on records, so that
   what is cut to `k` and to the budget can be compared with what was asked for.
