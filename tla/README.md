# M4Trust AI worker: TLA+ specifications and proofs

The M4Trust AI service takes AI jobs from RabbitMQ, runs a document or a video
pipeline for each and publishes one result event per job. The hard part is not
the AI. Deliveries are at-least-once, workers crash, a run takes minutes, its
result is not reproducible (an LLM), and yet a job must not get two different
results. Around that core the service turns what models answer into a result
that has to be complete and honest: what was cut, read by OCR, replaced or not
believed must be said. This directory specifies both, model-checks them on
small instances and proves the main properties for all of them.

## The system

### Components

| Component (source) | State it keeps | Operations | Interacts through | What is hard | What makes it correct |
| --- | --- | --- | --- | --- | --- |
| Command handler (`app/worker.py`) | locals of one `handle_command`; the heartbeat thread beside a run | validate, resolve, run, commit, publish, mark, forget, ack or nack | all of the below | a crash, a lost connection or another worker between any two steps | every message settled, one result per job, every claim released |
| Job record (`app/common/idempotency.py`, `RedisJobStore`) | one Redis key per job: PROCESSING, PENDING_PUBLISH or TERMINAL, with owner, lease, identity, event | `resolve`, `commit_pending_publish`, `renew_lease`, `mark_terminal`, `forget` | WATCH/MULTI/EXEC; several workers and each worker's own renewal thread | optimistic transactions that fail, leases that lapse | decided once, by the holder of the claim, for good |
| In-memory job store (same file, `InMemoryJobStore`; only tests build it) | a dict of entries | the same five, under a lock | the handler of one process | no leases: a claim lives as long as the process | a claim always has its run |
| Broker, consumer, publisher (`app/messaging/*`) | queues, unacknowledged deliveries, prefetch windows, dead letters | deliver, ack, nack, confirmed publish | callbacks on the consumer's thread, which also runs the handler | redelivery, duplicates, unconfirmed publishes, deliveries that wait behind a run | nothing lost silently |
| Contract validation (`app/contracts/*`) | loaded schemas | the verdict on a command; the check of an event | exceptions | cancels and requests have different rules; bodies nobody thought of | what acts is contracted, what is contracted is not rejected |
| Cancellation (`app/common/cancellation.py`) | one Redis key per cancelled job | record, check | read at checkpoints | a cancel before, during and after the run | an early cancel prevents the result |
| Lease heartbeat (`app/common/heartbeat.py`, `app/config.py`) | a thread and its stop event | renew every interval, stop, join for 1 s | `renew_lease` | late threads, clocks, a renewal in flight while the run ends | a live worker keeps its job |
| Retry and deadline (`app/common/retry.py`, `app/pipeline/deadline.py`) | attempt number | attempt, back off, give up | exceptions of the pipeline | cancel, deadline and expiry between attempts | only transient failures are retried; no call for an expired job |
| Source download (`app/storage/*`) | a temporary file | validate, request, redirect, verify, delete | HTTP | redirects, failures half-way | only allowed URLs, only verified content, no file left |
| Document pipeline (`document_extraction/pipeline.py`, `text_extraction.py`, `llm.py`) | none between jobs | read or OCR the pages, mask, cut, ask the LLM, map, warn | the above | a page that is scanned or blank, a cut at the limit | what was not read or not shown is said |
| Document mapping (`document_extraction/mapping.py`) | none | merge parties, map rules, summarize | the LLM's answer | answers in any order, values at or beyond bounds | nothing is lost or invented silently |
| Names (`document_extraction/name_masking.py`) | the table of tokens of one document | find, replace, restore | NER model, LLM | offsets, spellings, tokens that are dropped or repeated | a token is one person |
| Legal retrieval (`legal_rag.py`, `legal_corpus/scripts/*`) | two files of the image, two globals of the process | build, ship, load, retrieve | files, a batch query | half-done builds and loads; a basis found by position | a basis is the nearest article, or none |
| Video pipeline (`video_analysis/*`) | none between jobs | sample, call Roboflow per frame, aggregate | the above | rounding, limits, thresholds, running maxima | review exactly on evidence |
| Contract sync (`contracts/scripts/check_drift.py`) | a manifest of hashes | `--sync`, `--check` | two working trees people edit | edits between the commands, line endings | a check that passes vouches for the copy |
| Health, metrics, logging; `validate_contracts.py`; test console | counters, a flag; files | read; build-time; a developer's sender | HTTP | - | - |

`PROJECT.json` lists the same components with their status, and the hazards of
this code at the lines where they bite, with the property that watches each or
the reason why none does.

### How a job goes

1. `handle_command` gets a delivery. An invalid one is dead-lettered; a cancel
   sets the job's cancel key.
2. `resolve` tries `SET NX`. A new record is a claim with a lease. An existing
   one means CONFLICT (other input), TERMINAL (publish the stored event again),
   IN_PROGRESS (ack and forget), or a takeover: of a lapsed claim, which runs
   the pipeline again, or of a PENDING_PUBLISH record, which does not.
3. The pipeline runs in a thread of its own, in `run_with_retry`, with a
   heartbeat thread that renews the lease, while the handler's thread pumps the
   AMQP connection.
4. The event is made durable (PENDING_PUBLISH) under WATCH and an owner check,
   then published with confirmation, then marked TERMINAL, then the delivery is
   acked. Cancelled and unexpected ends `forget` the claim.

## Modules

| Module | What it is | Lines of the source it stands for |
| --- | --- | --- |
| `RedisJobStore` | the record of one job and the five operations on it, as the Redis steps they take | `idempotency.py` |
| `CommandBroker` | the deliveries of a job's commands, connections, confirmed publishes | `messaging/*` |
| `AiWorker` | processes running `handle_command`, each with its heartbeat thread; composes the two above | `worker.py`, `consumer.py`, `heartbeat.py`, `cancellation.py` |
| `AiWorkerProperties` | what all of it must do, and the inductive invariants | - |
| `JobOutcome` | abstract: a job is decided at most once, before it is announced | implemented by `AiWorker` and by `LocalJobStore` |
| `AiWorkerProofs` | theorems about states, steps, the refinement, claims and the clock of the lease | - |
| `LeaseTiming` | the lease against the clock | `config.py`, `heartbeat.py`, `idempotency.py` |
| `SourceFetch` | `fetch_source`: redirects, verification, the temporary file | `object_store.py`, `ssrf_guard.py` |
| `JobAttempts`, `JobAttemptsProperties`, `JobAttemptsProofs` | one run from the inside: attempts, checkpoints, rounds; extends `SourceFetch` | `retry.py`, `deadline.py`, both `pipeline.py`, `llm.py`, `roboflow_client.py`, `text_extraction.py`, `errors.py` |
| `PipelineRun` | abstract: what `AiWorker` takes a run for | implemented by `JobAttempts` |
| `CommandIntake`, `CommandIntakeProofs` | routing, prefetch windows, dispatch, the verdict on a command, many jobs | `validation.py`, `envelope.py`, `topology.py`, `consumer.py`, `worker.py` |
| `LocalJobStore`, `LocalJobStoreProofs` | the in-memory store under the handler of one worker | `idempotency.py`, `worker.py` |
| `DocumentText` | pages, OCR, masking, the cut | `text_extraction.py`, `pipeline.py`, `pii_masking.py` |
| `DocumentResult` | the LLM's answer, rules and their values, warnings, summary, the outgoing check; extends `DocumentText` | `mapping.py`, `pipeline.py`, `llm.py`, `validation.py` |
| `PartyMerge` | the parties of a contract | `mapping.py` |
| `NameMasking`, `NameMaskingProofs` | person names out and back | `name_masking.py` |
| `LegalBasis` | corpus build, image, load, batch retrieval, basis | `legal_rag.py`, `mapping.py`, `build_embeddings.py` |
| `VideoEvidence`, `VideoEvidenceProofs` | sampling, predictions, observations, damage, review | `frames.py`, `aggregation.py`, `pipeline.py`, `roboflow_client.py` |
| `PipelineResults`, `ResultProofs` | composes the five passes above; theorems about pages, answers, parties, bases, and all passes together | `registry.py`, both pipelines |
| `ContractSync`, `ContractSyncProofs` | the copy of Spring's contracts and its check | `check_drift.py` |
| `MC*` | values and symmetry for TLC | - |

## How state and actions correspond to the code

*One job.* Every key and message names one job, and handlers of different jobs
share nothing but the processes' time; `AiWorker`, `JobAttempts`, `LeaseTiming`
and `LocalJobStore` are about one jobId. `CommandIntake`, where jobs do share the
time of a worker, is about several.

*`AiWorker`.* `pc` names the place in `handle_command`: `received` (before
validation), `resolve` and `takeover` (inside `resolve`), `claimed` (before the
first `is_cancelled`), `started` (the run's first checkpoint is ahead),
`running`, `commit`/`committing` (around the WATCH of
`commit_pending_publish`), `publish`, `mark`/`marking`, `republish`,
`forget`/`forgetting`, `settle` (the ack or nack), `down`. `hb` is the heartbeat
thread; `late` is one that the join gave up waiting for.

*Redis.* A store operation takes two steps, WATCH with its GET and EXEC with its
check; in between anybody may write, which breaks the WATCH. `watching` holds
the threads whose WATCH is unbroken. A single command (SET NX, a forget's DEL
inside its EXEC) is one step. WATCH and GET are one step because a write between
them only breaks the WATCH of a thread that then reads the new value: it fails
where it could have succeeded, which a slower thread does too. A Redis error that
leaves `handle_command` ends the process with its claim, as `Crash` does.

*Results* are named by the run they come from (`<<kind, process, delivery>>`):
two runs never give the same one. Each message is sent once by the core, so a
resent request is one more member of `Request`.

*Processes.* A process that crashes stays down; its replacement is a process
with a new `ownerId`, that is another member of `Process`. A process whose
connection is lost goes down when it next touches the channel. `Mortal` names
those that may do either.

*Left out of the core.* The 72 h TTL, the record's write-only `attempt` field,
metrics, logging, payloads. The lease is a bit, `lapsed`, that may turn at any
time: `LeaseMayLapse = FALSE` is the same system with a lease that is renewed in
time, and `LeaseTiming` proves when that is so. `JoinMayTimeOut` says whether a
renewal may outlive `thread.join(timeout=1.0)`. A late renewal that is still in
flight when the next run of the same process begins shares its slot, which is
exact: that run's own claim has broken its WATCH.

*`JobAttempts`.* `step` names the place in the pipeline's `run()`. Both
pipelines have the same shape; a round is the one LLM call of a document or the
two Roboflow calls of a frame, and the retries of the OpenAI client inside one
call are inside a round. A checkpoint is two reads, the cancel key and then the
clock. `lateCalls` is a history variable: it counts rounds sent after the cancel
or the deadline. The source's bytes are `right` or `wrong` for the request;
`Allowed` is the set of URLs `validate_download_url` accepts, and any of them may
fail to resolve. The code resolves a host to validate it and httpx once more to
connect; a constant `Allowed` leaves out an answer that changes in between. A backoff lasts as long as it likes.

*`LeaseTiming`.* One worker's clock, the lease, the heartbeat thread with the
time its next step is due, and a second worker whose clock may run ahead by
`Skew`. A thread acts at most `Delay` late and a write reaches Redis at most
`Delay` after the clock was read.

*`CommandIntake`.* A command is what validation looks at: whether its body is bytes
that cannot be decoded, a text that is no JSON, a value that makes intake raise, an
object that fits no schema, or a valid one; its event and job types, routing key, producer and subject. `place` says where the
broker or a worker has it. A worker's window holds up to `Prefetch` commands of
each queue; its one thread dispatches them, and none while it runs a pipeline.

*`LocalJobStore`.* Every operation is one step under the lock. A crash and a lost
connection both end the process and with it the store: one action, `Restart`.
`AnnouncedThisLife` maps to the announced results of `JobOutcome`; what an earlier
life announced is forgotten with it, as the code forgets it. `build_job_store`
gives every worker a `RedisJobStore`; this one runs in the repository's tests.

*`DocumentText`, `DocumentResult`.* A page is the length of its text, to which masks
add or from which they take; OCR gives text or nothing. A rule of the answer has
a declared type and every field the LLM's schema has, at, in and beyond its
bounds; a currency is of three letters, longer, shorter or a sign, and a date is
extended, basic (which `fromisoformat` reads and the schema does not) or wrong.
The outgoing check is the part of the result schema that an answer can miss.

*`PartyMerge`.* A party is the mentions it is made of: the first, the one whose name
it carries, the pages in the order in which they were found. `Normalized` is
`_normalize_name`, any function of names.

*`NameMasking`.* A text is a sequence of words, blanks and tokens; what the NER model
finds is any list of disjoint spans, persons or not; the model's answer is the
masked text or any short text with its tokens. Characters are not modelled, so
neither are a token that the model cuts in two and a text that spells a token
itself (`TokenAssumption`: no word of a text is one).

*`LegalBasis`.* A file is the number of the build that wrote it; similarity is the
constant `score`; `image` is what was shipped, `cache` the two globals, and a
retrieval can fail at each of its steps.

*`VideoEvidence`.* A frame is its number; predictions have a class or none, and a
confidence in steps. Frame rates and the sampling interval are fractions in units
of `1 / Scale`, and `fps` is the rate of the video at hand: their product is exact
where a float's is only nearly so, and `Round` is Python's, to the nearest and of
two as near to the even. A time is truncated to milliseconds from a quotient of
floats, so one that is a whole number may come out as the one before (`TimesMs`).
`unencoded` is a history variable: the frames that were due and could not be
encoded. The average of confidences is left out.

*`PipelineResults`.* The passes hand data on and share no variable, so an
interleaving of two of them shows no state of either that following one at a
time does not; `pass` says which is followed, from every one of its inputs, while
the others rest. That a later pass gets what an earlier one gave is in the
inputs: they are all those the type of that data allows. The checkpoints inside
the pipelines are those of `JobAttempts`.

*`ContractSync`.* A hash is the text it was computed from, line endings aside, and a
commit the tree it names, or none if git could not say. `said` is what the last
command said: a check's "drift" is told from a sync's "refused". People edit, remove and check out files of either tree
between the commands.

## Runs

A run whose system may rightly stop (every message settled, every process down, a
bound reached) sets `CHECK_DEADLOCK FALSE`; liveness says what must happen before.

| Run | Question | Instance and why it is enough |
| --- | --- | --- |
| `worker_safety` | one result, decided by the holder, published only once durable, live claims kept, nobody answered with another input's result, `JobOutcome` implemented, the inductive invariant | 2 workers that may crash, 3 requests (one for another input), an invalid message, lapsing leases, late renewals: a zombie, its successor and a duplicate, all at once (2 million states) |
| `worker_ends` | every command settled and every request answered; every way out of a handler releases its claim; results dropped only after a takeover; early cancels hold | a worker that may be lost and one that survives, 2 requests, 1 cancel, lapsing leases, renewals joined in time |
| `worker_orphan` | *violated*: a crashed claim is always reachable | 1 request, the first of 2 workers crashes |
| `worker_late_renewal` | *violated*: results are dropped only after a takeover | 1 worker, 1 request, a renewal that outlives the join |
| `lease_timing` | a live worker keeps its job | the shipped 600 s / 180 s in units of 30 s, 30 s of delay and of skew, 25 minutes (`Horizon`), one failed renewal allowed in the model |
| `lease_missed_beat` | *violated*: one missed heartbeat is harmless | the same |
| `attempts` | calls, files, requests and results of a run; `PipelineRun` implemented; a run ends | `MaxAttempts` 3, `MaxRounds` 2, `MaxRedirects` 2, 3 URLs (source, allowed, refused), cancel, deadline and expiry at any step (`Deadline`, `Expiry` before `Horizon`): every pair of attempts with every failure between |
| `intake` | what acts is contracted, what is contracted is not rejected, cancels are recorded, a running job's cancel is a peer's, commands settle | 2 workers, a window of 1, `MaxSent` 2 of 14 commands that differ from the contract in one respect or none, `MaxFaults` 1: a command behind a run, and a command redelivered after a fault |
| `intake_non_object` | *violated*: a body that is no object is dead-lettered | the same, two commands |
| `results` | completeness and honesty of the results (thirteen properties, by pass) | `MaxPages` 3, `MaxContent` 3 pages and rules together, values at and beyond both ends of each bound; `MaxText` 4 words with 2 people in 2 spellings, `MaxEntities` 2, `MaxAnswer` 2; `MaxMentions` 3 of 2 roles and names; 2 builds of 3 and 4 articles, `MaxRules` 2; rates of 0, 1/4, 10/4, 11/4 frames a second (the default, and intervals that round to nothing, to even and up), `MaxFrames` 4, `MaxSampled` 2, `MaxPredictions` 3, `MaxExpected` 2 (6 million states) |
| `local_store` | requests served, `JobOutcome` within one life | 3 requests with 2 inputs, `MaxRestarts` 2 |
| `contract_sync` | a check tells the truth | a tracked and an excluded file, two texts and line endings, `MaxEdits` 4 |

A property in `PROJECT.json` is paired with a mutant, a small change of a mapped
definition (a guard dropped, a reset forgotten, a step skipped) that makes the
run find it violated. The faulty variants stand before the definition they
replace, marked as such, and nothing uses them.

### What the violated runs show

- **An orphaned job** (`worker_orphan`). `idempotency.py:17-20` promises that a
  crashed worker's job can be taken over once the lease is out. The broker
  redelivers the request at once; the lease is still valid, so the next worker
  acks it as a duplicate. When the lease lapses, no message is left to take the
  job over with.
- **A result dropped for nobody** (`worker_late_renewal`). The join of the
  heartbeat thread gives up after a second; the renewal then breaks the WATCH
  of the worker's own commit, which reads this as a takeover
  (`idempotency.py:258-260`), drops the result and acks the request.
- **One missed heartbeat is fatal** (`lease_missed_beat`). `config.py:80-81`
  says the next heartbeat comes in time after a missed one. `_heartbeat` ends
  on the first renewal that fails or raises, so there is no next one.
- **A body that ends every worker** (`intake_non_object`). `validation.py:91-92`
  rejects a body that is no JSON object, but `worker.py:77` asks it for a field
  first, outside any `try`; the process ends, and the redelivery ends the next.
  (So do bytes that are no Unicode text, at line 68: their error is no
  `JSONDecodeError`.)

Properties that hold are stated with the exceptions the code has, and these are
worth knowing too:

- A lost worker's claim leaves its job without an answer even though another
  worker lives: the redelivered copy is acked as IN_PROGRESS, and then the claim
  is forgotten by the first worker or left behind (`EveryRequestAnswered`).
- A currency that is not three letters long after `upper()[:3]`, a basic-format
  date, an empty review reason or a one-letter language pass the mapping and fail
  the outgoing schema: the finished analysis is dead-lettered
  (`OnlyMisfitsAreLost`; compare the docstring of `mapping.py:4-6`).
- Samples are not always the configured interval apart: at 12.5 frames a second
  `round` makes 12 frames of a second, which are 960 ms. They are within half a
  frame and a millisecond of it (`SamplesAreSpaced`).
- Mentions of parties without a name merge into one `UNKNOWN` party of their role,
  with a warning (`PartiesAreRight`).
- A prediction without a class is counted as `UNKNOWN` and reported with
  confidence 0 (`EveryClassIsReported`; `aggregation.py:45` and `:104`).
- An image built from two half-done builds maps rows to other rows' articles, and
  nothing in the loader could tell (`BasisIsNearest` starts from one build).
- `--sync` compares hashes with line endings normalized, not byte for byte as
  `check_drift.py:30-31` says (`PassVouchesForSpring` is about the text).

### Fairness

`AiWorker`: weak fairness of each handler's steps (a thread that is not dead
goes on; the broker delivers to a connected consumer), of the write of a renewal
that has begun, and nothing else: no lease has to lapse, no request has to be
sent, nothing has to crash. A run is bounded by its timeouts, which `RunEnds`
backs. `JobAttempts`: weak fairness of the run's own steps; every
HTTP call has a timeout and a sleep ends. A source that trickles its bytes
forever is excluded by this (a hazard without a property). `CommandIntake`: weak
fairness of the broker's deliveries while some window has room, of the restart of
a process that ended (the container's restart policy) and of each handler. The
other modules state no liveness.

## Proofs

`tlapm` checks every theorem; the constants are arbitrary within the named
assumptions (`ConstantsAssumption`, `NoneAssumption`, `TimingAssumption`,
`AttemptAssumption`, `IntakeAssumption`, `LocalAssumption`, `SyncAssumption`,
`TextAssumption`, `ResultAssumption`, `MaskingAssumption`, `TokenAssumption`,
`MergeAssumption`, `LegalAssumption`, `VideoAssumption`). Every invariant and
every action property of the passing runs, and both refinements, are theorems;
what the runs add is liveness, and that the situations the theorems speak of
happen.

| Theorem | For every number of workers, messages, attempts, mentions ... |
| --- | --- |
| `AiWorkerProofs!Safety`, `TypeCorrect` | the inductive invariant, the types |
| `AiWorkerProofs!OneResult` | no two different results are published |
| `AiWorkerProofs!AnswersMatch` | an answer was computed for the input asked about |
| `AiWorkerProofs!DecidedStays`, `HolderDecides`, `EarlyCancel` | a decision is final; only the holder decides; early cancels hold |
| `AiWorkerProofs!LiveClaimStays` | a run under a standing lease keeps its claim |
| `AiWorkerProofs!Implements` | the fleet implements `JobOutcome` |
| `AiWorkerProofs!ClaimsAreHeldByRuns`, `ClaimsAreReleased`, `DropsOnlyAfterTakeover` | if no renewal outlives its join: claims are held only by handlers that will commit or release them, none between two messages, and a result is dropped only after a takeover |
| `AiWorkerProofs!RunsOnceAtATime` | if no lease lapses and no process is lost: no two runs at once |
| `AiWorkerProofs!BeatsInTime`, `KeepsClaim` | a live worker keeps its job, for runs of any length |
| `JobAttemptsProofs!AttemptsKeepInvariant` | the inductive invariant of a run |
| `JobAttemptsProofs!ChecksAreHeeded`, `FilesAreDeleted`, `SourceIsVerified`, `UrlsAreChecked`, `CancelIsHonoured` | calls, files, content, URLs, cancels |
| `JobAttemptsProofs!RunsAsPromised` | a run implements `PipelineRun` |
| `CommandIntakeProofs!IntakeIsRight`, `OnlyContractedCommandsAct`, `ContractedCommandsAreTaken`, `AckedCancelsAreRecorded` | the verdict on every command, through faults |
| `CommandIntakeProofs!CancelsComeFromPeers` | a cancel that a run meets was recorded by another process |
| `LocalJobStoreProofs!LocalStoreIsRight`, `EveryRequestIsServed`, `OutcomeHolds` | the in-memory store serves requests and implements `JobOutcome` within a life |
| `ResultProofs!MergeKeepsInvariant`, `MergeIsRight` | the parties, their order and the warning, for mentions of any number and any normalization |
| `ResultProofs!BasesKeepInvariant`, `BasesAreNearest` | the basis of every rule, for any corpora, builds and documents |
| `ResultProofs!ReadingKeepsInvariant`, `OcrTextIsReported` | text of OCR is reported as such, for any number of pages |
| `ResultProofs!AnswersKeepInvariant` | the inductive invariant from the text to the event |
| `ResultProofs!CutsAreReviewed`, `FallbacksHaveWarnings`, `MisfitsAreLost` | a document not shown whole goes to review; a value has its type or a warning; only four kinds of answer lose an analysis |
| `NameMaskingProofs!MaskingKeepsInvariant`, `NoNameIsSent`, `EveryNameComesBack` | exactly the names found are replaced before the text is sent, and they come back, for texts of any length and any spans |
| `VideoEvidenceProofs!AnalysisKeepsInvariant` | the inductive invariant of an analysis |
| `VideoEvidenceProofs!SamplesKeepTheirDistance`, `ReviewNeedsEvidence`, `ClassesAreReported`, `WorstDamageIsReported` | the sampling interval up to its rounding, the review reasons, counts and presence, damage, for any fractional rates and interval, any frames and predictions |
| `ContractSyncProofs!SyncKeepsInvariant`, `ChecksTellTheTruth` | what the check says of two repositories is so, for any files, edits and commands |
| `ResultProofs!PassesImplementTheirSpecs` | the composition implements the specification of each pass |
| `ResultProofs!ResultsAreTyped`, `DocumentsAreRight`, `NamesAreRight`, `RulesAndPartiesAreRight`, `EvidenceIsRight` | so all thirteen properties hold in the composition that the run checks |

**`SafetyInvariant`.** `OneResultPerJob` alone is not inductive: a worker about to
publish must be known to hold the very event the record holds. So the invariant
says, part by part, what each phase may rely on: a handler past validation works
on a request; a decided record carries an event for the identity it is kept
under; only that event is published or about to be; a run whose claim stands
serves the record's identity; and, the key to every store operation, what a
thread has read is still true while its WATCH is unbroken. The step proofs have
one case per action.

**`ReleaseInvariant` and `RunInvariant`.** To know that a handler's end releases its
claim one has to know why a WATCH can break: with every renewal joined, only by a
takeover. `ReleaseInvariant` says which phases may hold a claim and what a broken
WATCH means in each. `RunInvariant` is for a steady fleet: a run implies that the
record is its own claim.

**`TimingInvariant`.** In each phase of the heartbeat thread the age of the last
renewal is bounded: one interval, plus the delays of the renewal that wrote it,
of the wake-up, of the next write and of the final commit. The sum,
`Interval + 4 * Delay + Skew < Lease`, is what the code has to satisfy; with
180 s and 600 s it leaves about 100 s for each delay at small skew.

**`AttemptInvariant`.** The source is held exactly in the steps between the
verified download and the end of the attempt; a round can be late only once,
because after it the run is outside the stretch between a checkpoint and its
call, and no later checkpoint lets it in again; what is retried is transient.

**`IntakeInvariant`, `LocalInvariant`.** What a handler knows of its command when it
settles it, what the end of a command says of its verdict, where the recorded
intents come from; what the entry is in each phase of the handler.

**`MergeInvariant`.** The promise of the merge, of the mentions seen so far: a new
mention extends it by a party or a party by a mention.

**`LegalInvariant`.** `BasisIsNearest` needs `LoadedIsShipped`: what a process holds
is its image's, and nothing is searched before it has vectors. A half-done load,
which `_load` takes for a whole one ever after, then has no records at all, so
that retrieval raises and every rule goes without a basis.

**`OcrInvariant`.** The pages counted as OCR's are, of the pages read so far, those
with text where the digital layer has too little; a document that is past its
reading has a page with text, without which `Method` would have two answers.

**`AnswerInvariant`.** Values are those of the rules mapped so far, and there are as
many fallback warnings as fallbacks among them. `CutIsReviewed` speaks of pages
and the code of characters: `ShownToTheLast` shows, of the text joined with its
separators, that each page is shown whole exactly if the sum stays within the
limit. `OnlyMisfitsAreLost` needs a table of what each declared type makes of
each value (`ValueIsJudged`): of the values that were mapped, the schema refuses
only the three kinds of misfit the property names.

**`NamesInvariant`.** Entities are found in the order of the text and replaced from
the last to the first. `SpansAreOfPeople` says why that is right: what is still to
be replaced lies before everything that has been, and the text up to there is the
original one, so a span still points at its name. `TextIsMasked` says what has
been achieved: seen without its numbers the text is the original with the spans
in `Replaced` shown as tokens, and with each token read as its person it reads as
the original. A step turns three parts of a sequence, of which the middle one is
a name, into two and a token (`PiecesAreSpliced`, `EachOfSplice`). The way back is
one lemma about reading twice (`EachOfEach`).

**`VideoInvariant`.** Of the frames and expected items passed so far, what the
property says of all of them: which frames were sampled, which items are missing,
how many of each were counted, each class once at its first frame, the worst
damage. `SamplesAreSpaced` is arithmetic from there: `RoundIsNearest` bounds the
interval by half a frame (`IntervalIsRounded`), `NextMultiple` gives the next frame
due, and `TimesAreTruncated` bounds a time by its millisecond (`TimesAreSpaced`). `BestFrameIsBest` says that the frame an item is
counted in has most of them, and `ReportedOfFrame` that a frame adds each class
it is the first to show, once.

**`SyncInvariant`.** The manifest is of the trees as they were when it was last
written, whatever was edited since (`ManifestIsOfLastSync`), its commit Spring's or
none; what the last command
said follows from it and from the trees now.

**Induction.** The prover cannot use a theorem that takes an operator, so induction
is stated with sets: a set of numbers that holds 0 and with each number the next
holds them all (`AllNumbers`), and a set that is not empty has a least element
(`HasLeast`), from well-foundedness. With `Recursion`, which gives a recursive
function as the chain of its values, that is enough for what the model computes
recursively: `Joined`, `Scan` and the library's `FlattenSeq` (`JoinedIs`,
`ScanByPredictions`, `FlattenByPieces`).

### What is only model-checked

Liveness (`EveryCommandSettles` of `AiWorker` and of `CommandIntake`,
`EveryRequestAnswered`, `RunEnds`): fairness and ENABLED are out of the prover's
reach. The inductive invariants other than `SafetyInvariant`, and the parts of a
conjunction that a run checks (`ChecksStopCalls`, `RequestsAreServed`,
`PartiesAreRight`), are stated once more by theorems of their own; the runs check
what follows from them. `RunsOnceAtATime` is a theorem no run states: its
hypothesis, a fleet without faults, is not that of a run.

## Plan

Done so far: the worker and its broker, store, lease and attempts; the intake of
commands; the in-memory store; the passes of both pipelines; the contract sync.
All safety properties are proved. Next, in order:

1. An abstract specification of the store's operations as atomic ones, and
   `RedisJobStore` under `AiWorker` shown to implement it.
2. The safety half of the liveness properties as theorems: a measure of what a run,
   or a pass, has left to do, that every step of it lowers. With the fairness of
   the runs, this is the argument for `RunEnds`.

## Not modelled

- The HTTP endpoints, the worker-health flag, metrics and logging: nothing the
  worker reads back.
- `pii_masking.py` and `chunk_legal_texts.py`: regular expressions over
  characters; only their place is modelled. Cosine similarity and the embedding,
  NER, OCR, LLM and Roboflow models: any answer of their type.
- `validate_contracts.py`: one pass of schema evaluations over fixtures. JSON
  Schema itself is the verdict of an external validator.
- Delivery requirements, titles, categories and tax identifiers (`mapping.py`),
  averages of confidences (`aggregation.py`): defaults or arithmetic of one field.
- The outgoing check of a video's event: an `UnexpectedError` of `AiWorker`.
- TTLs of Redis keys: timers of days.
- The test console.
