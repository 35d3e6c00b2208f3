# NektronMoments: verification project

TLA+ models of the parts of NektronMoments whose correctness depends on
interleavings, redelivery, crashes and retries, the TLC configurations that
check them on small instances, and theorems about them proved with TLAPS.
Paths are relative to `src/`; `service.py` is `services/domain/service.py` and
`processor.py` is `services/worker/processor.py`.

## 1. The system

A photographer's client scans folders, sends *manifests* (file identities and
EXIF metadata, never originals) to an API, and the service catalogues them,
resolves GPS positions to addresses (Amazon Location) and, when asked, has scene
previews described (OpenAI). State lives in one MySQL database; jobs travel
over SQS; the client keeps its own SQLite store.

| Component | State it keeps | Operations | Interacts with |
|---|---|---|---|
| Catalog (`service.py`, `repositories.py`) | assets, occurrences, locations, descriptions, lifecycle | manifest entry, merge, trash, restore, mutation under an idempotency key | jobs it cancels, change feed |
| Idempotent mutations (`service.py` 363-430) | key, request fingerprint, stored response, expiry | lock the user, reserve, replay, complete | every API mutation |
| Change feed (`list_changes`) | append-only rows with an auto-increment id | append in every mutation, page after a cursor | clients |
| Geocode jobs (`service.py` 954-1252, 1820-1937, 3385-3716, 4520-5157; `processor.py`) | job row: status, attempts, due time, lease, reservation | prepare, retry, sweep, claim, reuse, reserve, consume, complete, fail, defer | ledger, catalog, SQS, provider |
| Description jobs and upload sessions (`service.py` 2172-2380, 2774-3344, 3799-4518; `staging.py`) | job row with two reservations, upload session, staged object | plan, complete, cancel or expire an upload; claim, reserve, consume, complete, fail, defer | ledger (requests and USD), object store, client |
| Provider usage ledger and circuit (`service.py` 5066-5378) | per user, provider and month: processed, reserved, cost, circuit | get or create, reserve, settle, open, close | jobs |
| Worker (`services/worker`) | program position between transactions | handle one SQS message; acknowledge or ask for a retry | jobs, providers |
| Bulk manifest import (`services/bulk`, `services/api/manifest_import_service.py`) | import row: phase, lease, attempts; staged rows; result object | create, upload, finalize, claim, stage, merge, result, fail, recover | catalog, object store, SQS |
| CLI store and outbox (`cli/.../state.py`, `sync.py`) | file cache, queued batches, source locks | queue, acknowledge, quarantine, discard, suspend | API |
| CLI scene previews (`sync.py`, `state.py`) | description outbox | plan, upload, complete, resume | upload sessions |
| CLI bulk client (`bulk.py`) | manifest file, chunks, import id | build, upload, poll, apply results | bulk import |
| BYOK journal (`byok.py`) | journal rows, spent and reserved budget | reserve, call, record, recover, stop | provider, API |
| Desktop bridge, Windows application, installer, infra, legacy importer | - | - | - |

### Where the system is hard

* *Between transactions.* A worker handles a message in up to five database
  transactions with a provider call between two of them. Each re-reads the job
  under a lock and re-checks its lease and its asset; everything else can run in
  between.
* *At-least-once delivery.* A message whose execution died is delivered again, and a
  new message may be sent for a job that still has one. A worker may die anywhere;
  dispatch follows the commit and can fail.
* *Money.* A call is counted against a monthly ceiling before it is made, a
  reservation must be taken back on every path that does not make it, and months
  roll over while jobs hold reservations.
* *Time.* Leases expire during calls, a sweep re-dispatches every five minutes,
  deferred jobs come back next month or when a user closes the circuit.
* *Staleness.* An asset is moved, trashed or restored while its job runs.

For each component, what makes it correct:

* geocode jobs: one claimant; the ledger equals what the rows hold; calls are
  charged first and stay under the ceiling; no stale address is written; no
  job is stuck;
* description jobs: the same for two currencies, plus upload sessions that do
  not strand a reservation or free another's;
* bulk import: phases advance once, a lost lease never writes, a retry does not
  apply an entry twice, a finished import has its result;
* idempotency: one effect for one key and request, the same answer on replay;
* change feed: a consumer that resumes after its cursor misses no committed row;
* catalogue: an asset is in the trash exactly when no active occurrence has it,
  whichever way and in whatever order the entries came;
* outboxes: nothing acknowledged that was not accepted, nothing lost when a run dies
  or an answer is lost, nothing waiting for ever;
* BYOK journal: nothing spent that was not budgeted, an uncertain call never
  silently retried.

## 2. What is modelled now

| Module | Models |
|---|---|
| `ProviderLedger` | the updates of one ledger row: `Reserve`, `Settle`, `Fits`, `OpenCircuit`, `CloseCircuit` |
| `GeocodeJobs` | geocode jobs end to end: API, sweep, worker, queue, ledger, clock |
| `DescriptionJobs` | scene-description jobs end to end: upload sessions, object store, two ledgers, devices with their own key, sweep, worker, queue, clock |
| `MonthlyBudget` | abstract specification: clients take, spend or return units of a month's budget |
| `ManifestImport` | a bulk import end to end: API, object store, queue, worker phases, lease, recovery schedule |
| `ImportPromise` | abstract specification: what a client may rely on of imports; implemented by `ManifestImport`, used by `ManifestSync` |
| `Catalog` | assets and occurrences under manifests, removed sources and bulk merges; idempotency keys, transaction views, change rows |
| `ManifestSync` | the CLI keeping the catalogue in step with a folder: scan, outbox, batches, bulk import, edits, dying runs |
| `SceneOutbox` | the CLI's outbox of scene previews against upload sessions and jobs of the service |
| `ByokJournal` | photos described with the user's own key: journal, budget, threads, retries, flushing, the backend's grant |
| `MC*` | instances for TLC: symmetry, views, named constant values |
| `GeocodeJobsProofs` | theorems of `GeocodeJobs` |
| `DescriptionJobsProofs` | theorems of `DescriptionJobs`: its leases and ledgers, then its uploads |
| `ManifestImportProofs` | theorems of `ManifestImport` |
| `SceneOutboxProofs` | theorems of `SceneOutbox` |
| `ByokJournalProofs` | theorems of `ByokJournal` |
| `CatalogProofs` | theorems of `Catalog` |
| `ManifestSyncProofs` | theorems of `ManifestSync` |
| `Folding` | lemmas: induction over finite sets, folds over sequences and sets, sums, least and greatest numbers |

How they compose: `GeocodeJobs` and `DescriptionJobs` run on `ProviderLedger`;
`GeocodeJobs` implements `MonthlyBudget`; `ManifestImport` implements
`ImportPromise`, and `ManifestSync` takes its server from `ImportPromise`, so the
client is checked against what the service was checked to promise. `Catalog`
compares the two ways entries reach the rows. `SceneOutbox` and `ByokJournal`
contain the few server handlers their requests reach; `DescriptionJobs` has them
in full.

### GeocodeJobs: state and actions

A job is `<<asset, coordinates>>`, as its idempotency key is built from the asset
and its coordinate revision. `job[j]` holds the columns that steer the code;
`due` is `next_attempt_at_utc` rounded to the month, `live` says whether
`lease_expires_at_utc` is in the future, and `held` is the month recorded in
`request_json["providerUsageReservation"]`. `usage[m]` is the row of
`ProviderUsageMonth`; `pc`, `task` and `answer` are a worker's position, message
and local result. `calls` and `charge` are history variables: no guard reads
`calls`, and `charge` only names the month a call is counted under.

| Action | Code |
|---|---|
| `UpsertLocation`, `TrashAsset`, `RestoreAsset` | `_upsert_location`, `_trash_if_unreferenced` with `_cancel_asset_processing`, `_restore_asset` |
| `PrepareEnrichment`, `RetryJob` | `prepare_enrichment` for a batch of one asset, `retry_job` with promotion of circuit-deferred jobs |
| `RedispatchDueJobs` | `redispatch_due_jobs`, the five-minute sweep |
| `Claim`, `Lookup`, `ReserveCall`, `Defer`, `ConsumeCall`, `Complete`, `Fail`, `DeferCalled` | one transaction each: `claim_geocode_job`, `find_reusable_location`, `reserve_provider_call`, `defer_geocode_quota`, `consume_provider_call`, `complete_geocode`, `fail_geocode`, `defer_geocode_quota` after the call |
| `CallProvider` | `AwsLocationProvider.reverse_geocode`, with the error classes of `enrichment/aws_location.py` |
| `Acknowledge`, `Crash` | the Lambda's partial-batch response; a time-out, an exception or a dead process |
| `ExpireLease`, `AdvanceMonth` | the clock |

Assumptions of the model, each taken from the code or its deployment:

* a `transaction_scope` block is atomic. Every ledger or job transaction takes the
  user's row, then the job's or asset's, `FOR UPDATE`;
* the worker's message id is the lease token (`processor.py` passes it);
* SQS gives a message it accepts a fresh identity; `Crash` may or may not
  return the message, which covers redelivery, the dead-letter queue and a
  message that is lost;
* the queue hides a message for longer than an execution may run (900 seconds against
  120 in `infra/serverless.yml`), so no two executions of the job worker have the same
  message. `OneClaimant` rests on this, because the message's identity is the lease
  token. `ManifestImport` does not assume it. That the deployment runs one execution at
  a time (`reservedConcurrency: 1`) is assumed nowhere;
* a batch of `prepare_enrichment` and the promotion limit of 100 jobs are larger
  than any instance: a batch of one, and promotion of all.

### DescriptionJobs: state and actions

An asset has one description job. `job[a]` holds the columns that steer the code,
with the two reservations of `request_json` reduced to the month they were taken
in while their state is `Reserved` (`req`, `cost`), `consumed` to the month of
`providerRequestConsumption`, and `staged` to the `uploadSessionId` of the staging
fields. `upload[u]` is an `UploadSession` row; its active marker is set exactly
while it is `Uploading`. `objects` are the previews in the object store, `reqs` and
`usd` the two rows of `ProviderUsageMonth`, `byok[a]` the claim a device put on the
job. `claim[w]` and `fault[w]` are the worker's local results. `calls` and `charge`
are history variables, as in `GeocodeJobs`.

| Action | Code |
|---|---|
| `PrepareEnrichment` | `prepare_enrichment`, the description part |
| `CreateUploadPlan`, `GetUploadSession`, `CompleteUpload`, `CancelUpload` | the upload-session handlers; the first expires what ran out, renews a deferred job and reserves in both ledgers |
| `PutObject` | the client's presigned PUT |
| `RetryJob`, `CancelJob` | `retry_job` with promotion of circuit-deferred jobs; `cancel_job`, the user's skip |
| `TrashAsset`, `RestoreAsset` | `_cancel_asset_processing` and `_restore_asset` |
| `ClaimByok`, `SaveByok` | `save_byok_result` without and with a description |
| `RedispatchDueJobs` | `redispatch_due_jobs` |
| `Claim`, `ReserveCall`, `ConsumeCall`, `Complete`, `Fail`, `Defer` | one transaction each: `claim_description_job`, `reserve_description_provider_call`, `consume_description_provider_call`, `complete_description`, `fail_description`, `defer_description_quota` |
| `Presign`, `CallProvider`, `Clean` | what the worker does between them: sign the preview's URL, call the provider, delete the preview |
| `Acknowledge`, `Crash`, `ExpireLease`, `ExpireUpload`, `AdvanceMonth` | the Lambda's response or death, and the clock |

What is abstracted: the price of a request is one constant and the actual cost any
value up to it; a preview put after its session ended, and a deletion the store
refuses, are left to the bucket's lifecycle rule, as the code does; the
configuration a message carries is valid (its mismatch is one of the failures of
`Presign`).

### ManifestImport and ImportPromise

`row[i]` holds the columns of a `ManifestImport` that steer the code, with the three
deadlines as flags (`live`, `due`, `late`) and `staged` for the presence of
`ManifestImportEntry` rows. `manifests` and `results` are the objects in the store,
`completing` the completions between their look at the object and their commit,
`queue` the messages, `pc`, `task`, `permanent` the executions of the worker Lambda,
`merges` the merges committed (history).

| Action | Code |
|---|---|
| `Create`, `RefreshUpload`, `CompleteHead`, `CompleteCommit`, `CompleteAbort` | `ManifestImportService.create`, `refresh_upload`, `complete` |
| `PutManifest` | the client's presigned PUT |
| `Deliver`, `Claim`, `Load`, `Start`, `Merge`, `Write`, `Upload`, `Complete`, `Fail`, `Ack`, `Stop` | `handler.py`, `processor.py` and one transaction each of `bulk/repository.py`; every one but `Deliver` may also end in `Err` |
| `Recover`, `RetryComesDue`, `LeaseExpires`, `UploadLapses` | `due_import_ids` with `dispatch_due`, and the clock |
| `Lose`, `LoseSource` | a lost message; a removed source or a closed account |

`Merge` is one transaction in the code and one step here; what it does to the
catalogue is `Catalog!BulkMerge`. `ImportPromise` has four things a client can see:
an import is created while no other is open, submitted, merged once while it works,
and ends.

### Catalog

`asset` and `occ` are the rows of `MediaAsset` and `MediaOccurrence`, `records` the
idempotency keys with an answer, and `request[r]` the view of the database a request
fixed when it read the account, before it waited for the user's row lock. `Begin`
is that read; `SubmitManifest`, `RemoveSource`, `CreateSource`, `Refuse` and `Replay`
are the rest of the request, from the lock to the commit. A manifest is applied entry
by entry to `t`, which keeps the session's rows apart from the flushed ones
(`rows`), because the check for other occurrences asks the database and autoflush is
off. `Commit` writes the attributes the session changed over what is there now.
`BulkMerge` is `_merge_assets` and `_merge_occurrences` as set operations.
`Init` is any catalogue earlier requests may have left.

### ManifestSync

`disk` is the folder, `catalog` the active occurrences on the server, `known` the
client's belief of them; `outbox` and `bulk` are the rows of `ManifestOutbox` and
`BulkManifestOutbox`; `pc` is where a run is. `answers` are the idempotency records
the client may still ask for. `Scan` takes what a walk listed and what could be
read; `SubmitBatch`, `AnswerLost` and `RefuseBatch` are a request with what the server
does about it; `Stop` ends a run anywhere; `LateCompletion` is a request of a dead
client served late.

### SceneOutbox

`task[j]` is a `DescriptionOutbox` row, `kept` the plans on record under the keys of
its present attempt, `session` the upload sessions of the server, `cur` what the
client has in hand. Each request is a step with three outcomes: done and answered,
done with the answer lost, refused. `OtherClient` is another device with the same
photo, `Work`, `RetryJob` and `Withdraw` what else happens to the job.

### ByokJournal

`row` and `past` are `ByokAnalysis` and `ByokPastAttempt`; `run`, `stop`, `down` the
process; `pc[j]` the thread of a photo; `server[j]` the job and its claim; `charge`,
`billed` and `orders` are what the provider took and what the user ordered
(history). Each thread step is one SQLite statement, one request or one call.

### Runs

| Run | Instance | Shows |
|---|---|---|
| `GeocodeLedger` | 1 asset, 2 coordinates, 2 workers, limit 1, 1 attempt, 2 months | the ledger equals what rows hold, the ceiling, no address of replaced coordinates, and `GeocodeJobs` implements `MonthlyBudget`. Limit 1 with two jobs makes every reservation a contested one; two months give the rollover with a reservation in flight |
| `GeocodeClaims` | 1 job, 2 workers, 2 message ids, 2 attempts, 1 month | one claimant and calls charged, with a redelivered and a re-sent message in flight together; queued and leased jobs settle |
| `DescriptionLedger` | 1 photo, 2 uploads, 1 device claim, 1 attempt, 2 months, room for two requests and one price | reservations are never returned twice, are held only where they are in use, only a leased job has a call behind it, the staged preview of a queued job exists, a device's photo is not also analysed in the cloud, neither ledger passes its limit |
| `DescriptionClaims` | 1 photo, 2 workers, 2 message ids, 2 attempts | one claimant; queued and leased jobs settle |
| `ImportLifecycle` | 2 imports, 2 executions, 1 message id, 2 attempts | nothing is merged twice, what a retry needs is there, success is backed by its result, and `ManifestImport` implements `ImportPromise` |
| `ImportRecovery` | 1 import, 2 executions, 2 message ids, 2 attempts | a submitted import ends |
| `SyncDelivery` | 2 files, 3 batches, 2 imports, 1 edit, one revision the server rejects | what the client believes of a file that does not wait is what the catalogue has; what an import captured is still there to resume |
| `SyncConverges` | 1 file, 2 batches, 1 import, 2 edits | a file left alone reaches the catalogue or the user is told |
| `CatalogManifests` | 2 items of one source, 2 contents, 2 sizes, 1 key, 2 overlapping requests of up to 2 entries, 1 merge | the trash follows the occurrences, removed sources are empty, a key is applied once, the merge does what entries do, every change has its row |
| `SceneOutbox` | 1 photo, 3 sessions, 2 faults | a task is shown as sent only once a preview was taken, a job has one open session, and no task waits or stays wrong for ever |
| `ByokCalls` | 2 photos, 2 months, room for one call at a time, 1 retry | the cap, no photo paid twice unasked, no repeated inference, results reach the backend unless one is refused |
| `ByokBlocked` | as `ByokCalls` | *violation*: see Findings |

Bounds: `MaxMonth` (calendar), `MessageIds` (messages outstanding per job or import),
`Uploads`, `Claims`, `Sessions` (sessions and claims; `SceneOutbox` reuses a session no
answer names any more), `MaxAttempts` (a column of the code, 5 in production; the
code compares it only with `>=`, so 1 and 2 show both sides), `MaxEdits`,
`MaxRevision`, `BatchIds`, `Imports`, `MaxRows`, `MaxMerges`, `MaxRetries` and `MaxFaults`
(killed runs and lost requests or answers). Two workers or requests suffice for
each claim or lock: a third could only repeat the part of one of them. Two uploads
of one photo give every overlap of an ended session with its successor; three
sessions one to each of a plan, its replacement and the other device. Two rows of
a manifest give every pair of entries that share an item or a content. `MergeAgrees`
looks at every merge the state admits, not only at those `Next` makes.
Runs whose properties read no history variable, or only the last change rows, use a
view (`NoHistory`, `NoFeed`). The theorems below depend on no bound but that the sets named
in section 3 are finite and the calendar of the model ends.
`ImportLifecycle` and `ImportRecovery` switch the deadlock check off: when all imports
have ended, nothing is left to do.

### Fairness

`FairSpec` of `GeocodeJobs` and `DescriptionJobs` assumes that leases run out, that the
five-minute sweep keeps running and that one of its sends for a job that keeps being
due reaches the queue (`SF`: a send may fail, not for ever), that the queue does not
starve a message, and that a worker that is not killed takes its next step. It
assumes nothing of users, clients or manifests, and lets workers crash without
limit. `JobsSettle` still holds because attempts are counted at claim and the sweep
fails exhausted jobs. `ManifestImport` assumes the same of the `RetryManifestImports`
schedule.

`ManifestSync` assumes that the user runs the client again and again, that the service
ends every import submitted to it (`ImportsEnd`), and that each step a run attempts
time after time succeeds at times (`SF`): a run may still die at any of them.
`SceneOutbox` assumes that the client is run again and a run goes on until it ends,
faults being bounded, and that what is put off comes due. `ByokJournal` assumes that
the user runs it again, a run goes on or ends, threads do not hang, and the backend,
asked often enough, takes a result it has no reason to refuse.

### Findings

* `ByokBlocked`: `run` sends the saved results first and lets the refusal of one end the
  run (`byok.py:300`); the row stays `ResultReady`, so every later run ends there too,
  and the results and photos behind it are never sent. `app.py:775` says that isolated
  photo failures are not a failed source or run.

### Known disagreements

Further properties that a document, comment or test states and the code does not
have. They are defined beside the others and no run of the project checks them; each
is refuted in seconds by a copy of the named run with the constants given (one
asset, item or photo, one worker and one message id where nothing else is said).

| Property | Copy of | Constants | What happens |
|---|---|---|---|
| `GeocodeJobs!AddressNearby` | `GeocodeLedger` | 3 coordinates, `Near <- OnALine`, 1 month | `README.md:352-353` lets a result satisfy another coordinate within 5 metres. The code (`service.py:1862`, 4633-4665) takes over any stored address nearby, itself taken over or not, so small moves carry an address any distance |
| `DescriptionJobs!CallsCharged` | `DescriptionClaims`, no view | 2 attempts | when a later attempt ends before its own call, its settlement (`service.py:5239`) subtracts the consumption of the earlier, real call: a request made leaves the count |
| `DescriptionJobs!CallsPaid` | the same | 2 attempts | the same message, redelivered after a call that was not answered for, may fail before a call of its own and returns the dollars of the one made (`service.py:4260`); `docs/PHASE1_STATUS.md:137-138` |
| `DescriptionJobs!NothingReservedWhenIdle` | the same | 2 attempts | `prepare_enrichment` replaces the request document of a job in preparation, reservations included (`service.py:1187`) |
| `DescriptionJobs!FailedHoldNothing` | the same | 2 uploads, limits 3, 1 attempt | a job skipped on its last attempt can be staged again; the sweep fails it without returning what its plan reserved (`service.py:3676`) |
| `DescriptionJobs!SkippedStaysRetryable` | the same | 2 attempts | a message still in the queue turns the skip into a stale preview (`service.py:3956`), which `retry_job` refuses |
| `Catalog!LiveAlways` | `CatalogManifests` | 2 keys, 1 size, 1 row, no merge | a request that waited for the user's lock acts on its older view (`service.py:384`): an asset is live with no occurrence or trashed with one |
| `ManifestSync!NoRace` | `SyncConverges`, `Spec` | as there | "batch transport will not race it" (`sync.py:651`): a completion still under way submits the import after the client has given it up |
| `ManifestSync!ResultApplied` | `SyncConverges`, `Spec` | 2 files | a run that resumes a saved result first sets its state back (`state.py:2039`) and then gives it up; the batches are sent instead |
| `SceneOutbox!AllAttended` | `SceneOutbox` | as there | `cancel_job` refuses the skip of a photo that was edited after its job succeeded: the task is tried for ever (`sync.py:1687`) |
| `SceneOutbox!SkippedIsStopped` | `SceneOutbox` | as there | a skip of a job retried since is answered from the record of the first skip (`sync.py:1690`) |

These bound what the runs can say: `ReservationsBacked` is an inequality where
`GeocodeJobs` has an equality, and no run claims that a description call stays
charged; `LiveWhileUsed` excuses what overtaken requests wrote and contents whose size
the rows of a merge dispute; `KnownIsServed` and `Delivers` excuse files the user was
told of or an abandoned import has; `Attended` excuses photos the client cannot read;
`SentWasStaged` has an exception for a lease that ran out while the client held it,
where `cancel_upload` answers as if the preview had been taken.

## 3. What is proved

| Theorem | Says |
|---|---|
| `GeocodeJobsProofs!TypeCorrect` | `Spec => []TypeOK` |
| `GeocodeJobsProofs!LedgerNeverDrifts` | `Spec => []LedgerMatchesHolders` |
| `GeocodeJobsProofs!CeilingNeverPassed` | `Spec => []CeilingRespected` |
| `GeocodeJobsProofs!OnlyRunningJobsHold` | `Spec => []HeldOnlyWhileRunning` |
| `GeocodeJobsProofs!LedgerImplementsBudget` | `Spec => Budget!Spec` |
| `GeocodeJobsProofs!OneWorkerPerLease` | `Spec => []OneClaimant` |
| `GeocodeJobsProofs!CallsArePaid` | `Spec => []CallsCharged` |
| `GeocodeJobsProofs!AddressesStayNear` | `Spec => []AddressNearby`, where `Near` is transitive |
| `DescriptionJobsProofs!LeasesCorrect` | `Spec => []LeasesSound` |
| `DescriptionJobsProofs!OneWorkerPerLease` | `Spec => []OneClaimant` |
| `DescriptionJobsProofs!NothingGivenBackTwice` | `Spec => []ReservationsBacked` |
| `DescriptionJobsProofs!CeilingsHold` | `Spec => []CeilingsRespected` |
| `DescriptionJobsProofs!AnalysedAtMostOnce` | `Spec => []AnalysedOnce` |
| `DescriptionJobsProofs!ReservationsHaveUse` | `Spec => []ReservationsInUse` |
| `DescriptionJobsProofs!PreviewsKept` | `Spec => []StagedPreviewKept` |
| `ManifestImportProofs!TypeCorrect` | `Spec => []TypeOK` |
| `ManifestImportProofs!ImportsInvariant` | `Spec => []IInv` |
| `ManifestImportProofs!MergedAtMostOnce` | `Spec => []MergedOnce` |
| `ManifestImportProofs!StagedRowsKept` | `Spec => []StagedKept` |
| `ManifestImportProofs!SuccessIsBacked` | `Spec => []ResultBacked` |
| `ManifestImportProofs!ImportsKeepPromise` | `Spec => PromiseKept` |
| `SceneOutboxProofs!TasksAreSound` | `Spec => []TasksSound` |
| `SceneOutboxProofs!OneSessionIsOpen` | `Spec => []OneOpenSession` |
| `SceneOutboxProofs!SentTasksWereStaged` | `Spec => []SentWasStaged` |
| `ByokJournalProofs!TypeCorrect` | `Spec => []TypeOK` |
| `ByokJournalProofs!PhotosInvariant` | `Spec => []IInv` |
| `ByokJournalProofs!NeverPaidUnasked` | `Spec => []PaidOnRequest` |
| `ByokJournalProofs!SavedResultsStay` | `Spec => NoRepeatInference` |
| `ByokJournalProofs!CapNeverPassed` | `Spec => []JournalSound` |
| `CatalogProofs!SourcesStaySound` | `Spec => []SourcesSound` |
| `CatalogProofs!UsedIsLive` | `Spec => []LiveWhileUsed` |
| `CatalogProofs!NothingAppliedTwice` | `Spec => []AppliedOnce` |
| `CatalogProofs!NothingUntold` | `Spec => ChangesTold` |
| `CatalogProofs!MergeIsManifest` | `Spec => []MergeAgrees` |
| `ManifestSyncProofs!QueueStaysSound` | `Spec => []QueueSound` |
| `ManifestSyncProofs!KnownStaysServed` | `Spec => []KnownIsServed` |
| `ManifestSyncProofs!NoRaceWithOwnImport` | `Spec => RaceOnlyAstray`: `NoRace` for every import but the abandoned ones |

Those of `GeocodeJobs` hold for any finite `Assets`, `Coordinates` and `Workers`, any
`MessageIds`, `Near`, `Limit` and `MaxAttempts` that satisfy the module's named
assumptions; those of `DescriptionJobs` for any finite `Assets`, any `Workers`, `Uploads`,
`Claims` and `MessageIds`, and any limits, price, months and attempts that satisfy
`LimitAssumption` and `SetAssumption`; those of `ManifestImport` for any imports, executions and messages, finite
or not, and any number of attempts; those of `SceneOutbox` for any jobs, sessions and number of
faults that satisfy `BoundsAssumption`; those of `ByokJournal` for any finite set of photos, any cap, price,
costs, number of months and of retries that satisfy `ByokAssumption`; those of `Catalog` for any finite set of
occurrences, any contents, sizes, keys and requests and any number of entries and merges
(`CatalogAssumption`); those of `ManifestSync` for any finite sets of files and batches, any imports, and any
number of revisions and edits (`BoundsAssumption`, `NoneAssumption`).

In `GeocodeJobsProofs`, `TypeCorrect` is proved action by action; the strengthening `TypeInv` adds what the
types alone do not say but `attempts + 1`, `calls[charge[w]]` and `usage[held]`
need: a job that may be claimed has attempts left where it counts one more,
and a worker about to call has a month to charge.

The ledger theorems use `TypeInv`, `LedgerMatchesHolders` and
`HeldOnlyWhileRunning` together. None of them is inductive alone: `Settle` uses
`min(reserved, charged + released)` as the code does, so it only takes out the
right amount if `reserved` counts every holder, and a handler that requeues a job
would drop a reservation if jobs outside `Running` could hold one. Every
transaction is first shown to be one of four effects on the ledger and the
`held` column: none, a reservation taken, an old one exchanged, or `Effect(C, R)`,
the jobs of `C` charged and those of `R` released. The cardinality argument is
made once, for `Effect(C, R)`, and each action only names its `C` and `R`. The
same lemma shows that a step is a `Settle` or `Take` of `MonthlyBudget` or a
stutter.

The worker theorems add an invariant each to those. `SoleHolder` (a message is with one
worker or in the queue, and what is sent is new) gives `OneClaimant`: two workers with
the lease of one job would have the same message. `Covered(m)` is `CallsCharged` for
one month: the charged calls of a month never decrease, because every ledger step is a
`Take` or `Settle` of `MonthlyBudget`, and the step that adds a worker about to call
is the one that charges its month. `AnswerNear` says of the address a worker carries
what `AddressNearby` says of a stored one. `AddressesStayNear` needs `Near` to be
transitive, as it is when only equal coordinates are reused; with a radius it is false
(see Known disagreements).

In `DescriptionJobsProofs`, `LeasesSound` is proved on sets of rows: `SoundRows` have a
call behind them only while they are leased, `IdleRows` have none, and settling or
returning a reservation always yields an idle row (`IdleEdits`), so a handler that ends,
requeues or defers a job may give it any status. `OneClaimant` follows from
`SoleHolder`, as for geocode jobs.

The two ledgers of `DescriptionJobs` are proved together, from `LedgersSound`: each has
reserved at least a unit for every job that holds one, and processed and reserved
together pass no limit. Neither part is inductive alone: with less reserved than is
held, `min(reserved, released)` would take out less than a job gives up, and the rest
of the transaction would charge what is no longer counted. A transaction is either a
loss, in which some jobs stop holding and the ledger returns no more than they held
(`LoseStep`, whose counting is `CountLoses`), or an exchange on one job, which gives up
an old reservation for a new one (`SwapBacked`); a new upload plan is the one after the
other, and the sweep is two losses of different jobs. It is an inequality because the
code forgets reservations in two places (see Known disagreements), never more.

The second part of `DescriptionJobsProofs` proves three properties from one invariant, `UploadInv`.
`OwnKey`, `InUse` and `Staged` are the three for one photo. `Staged` alone is not
inductive: a worker deletes the preview in a step of its own, after the transaction
that ended the job, and by then the photo may have been retried and staged anew.
`Cleaning` says why that is harmless: the session whose preview a worker is about to
delete has left `Uploading`, to which no session returns, so it can be of no later
job, and since a preview is of one photo it is of no other live job. Steps are sorted
by what they touch: those that leave sessions alone and only end a job, keep it live or
defer it with nothing held (`RowsStep`), those of the API that move sessions and jobs
together (`ApiStep`), and the worker's last transaction, which starts a cleanup
(`CleanStep`).

In `ManifestImportProofs`, what makes `MergedOnce` true is who may still write:
`Holding` says that an execution between its claim and its end has the lease, unless
its import has ended meanwhile, and `Solo` that it is then the only one. `RowInv` and
`MergeInv` say what status, phase, lease, staged rows and merges mean together: until
an import ends it is in a phase behind the merge exactly when it was merged, once.
Each transaction re-checks the lease, so a step either meets `Holding` for the import
it changes or changes nothing (`Permitted`, `StepKeeps`). The refinement maps the
status through `Told`, step by step: `RetryDue` and `Running` are both work to a client.

`SceneOutboxProofs` has an invariant in two halves. `ServerInv` is about the service
alone: an open session means a job in preparation (`OpenIsPreparing`), a job has one at
most (`OneOpen`), and whatever is queued, running or done had its preview taken
(`StagedKnown`). `ClientInv` says what the client may rely on at each of its steps, though
the service has moved on since it was told: a session it holds was opened for that task
and its preview, if confirmed, stays taken (`HandSound`), a check compares with tasks
that were sent (`CheckSent`), and the replies to plans name the jobs asked for
(`PlansNamed`). What joins them is `Onwards`, the facts every step of the service leaves true
(an ended session never opens again, a preview taken stays taken): a step of
the server keeps `ClientInv` because it is `Onwards`, and a step of the client keeps
`ServerInv` because it changes rows only through the handlers. TLC checked all the
parts on the instance of `SceneOutbox` first.

`PaidOnRequest` says that no photo is billed more calls than the user ordered. It is
not inductive: a call is billed when the answer of the provider is recorded, so the
invariant must say why the thread that gets there is still owed one. `IInv` ties
together, photo by photo, the row a thread finds at each of its steps (`RowAt`), that
threads exist only in a run and the list of a retry holds only failed photos
(`InRun`), that a photo not yet called is owed its call (`Owed`), and that a row with a
result is `ResultReady` or `Synced` (`Kept`). The steps of one photo's thread touch
no other photo (`ThreadApart`), so they are proved for that photo and carried to the
rest by one lemma; a kill sends every thread to `Idle` at once and leaves the rows,
which is where `recover` must not put a row that was `Calling` back to `Ready`.
`NoRepeatInference` follows from `RowAt` and `Kept`: at a row with a result no thread
is at any step but `Sync`. TLC checked `IInv` on the instance of `ByokCalls` first.

The cap is about a sum: what the rows of a month cost together. `Spent` folds over the
rows; `Folding` shows that the fold is `Total`, a sum that
does not depend on the order, and what one changed row does to it. `Within` says of
each month that what was billed is covered by the attempts given up and by what the
rows have been charged (`Payment`: nothing before the provider answered, the charge
while the answer is in hand, the row's cost from then on), and that attempts and costs
are under the cap. `Reservation` is needed beside it: a row whose thread may still
call has the full price reserved, so an answer can only lower its cost. A step changes
the rows of one photo at most, and `Balanced` says what it must do to that one. TLC
checked `BudgetInv` on the instance of `ByokCalls` first.

In `CatalogProofs`, a transaction is a fold of its entries over what its session has in
memory. `Effect` is what one entry does, whichever of its branches it takes; `Since`
and `Unseen` say what holds after any number of entries, in terms of the view the
transaction began with, and `Folding` makes of "kept by each entry" a fact about the
manifest. Requests act on views that may be old. `ViewSound` is what remains true of
such a view whatever is committed meanwhile (nothing it shows is lost, and its assets
are live exactly while used, but for contents that were overtaken or disputed), and
because a commit writes only the attributes the session changed (`Pick`), it cannot
undo what it never looked at. `RemovedIsEmpty` and `Counted` complete the invariant:
the active occurrences of a removed source were written by requests that overtook its
removal, and a key is on record exactly when it was carried out once. `MergeIsManifest`
compares two programs, the merge's set operations and the entry-by-entry manifest:
`Been` describes the transaction that has been through some of the rows by the
same set operations, and one more row keeps it (`BeenFurther`). TLC checked the
invariant on the instance of `CatalogManifests` first.

`ManifestSyncProofs` treats the outbox as the set of its batches: the lemmas up to
`Becomes` show of each operation on the sequence (append, split, acknowledge, quarantine,
discard, finish) which batches go and which come, and that batch numbers stay unique.
`KnownIsServed` is not inductive: when a batch is acknowledged or a page of a result
applied, the client's belief jumps to what it sent, so the invariant must say why that
is what the catalogue has. `Answered` says it of a batch that was served and not
acknowledged: it still waits, its answer is what a repetition would be, and nothing
has written its files since, but for an abandoned import, because no file waits twice (`Alone`). `Manifested`
and `Merged` say it of an import: its manifest is what its captured batches say, they
still wait (the code raises an error otherwise, `state.py:2210`), and once it is merged
the catalogue has it. `Told` and `Promised` join client and service: an import works only
for the client that is bound to it or astray; whoever reads a result has an import that
succeeded, and so was merged, with nothing rejected. `InHand` is where a run stands:
batches are sent only when no import is active, so `NoRaceWithOwnImport` follows too, and
a scan is made only when nothing waits. Edits, dying runs and the user's commands leave
all this alone (`QuietKeeps`). TLC checked the invariant on the instance of
`SyncDelivery` first.

Induction over data is done on sets: the prover cannot instantiate the library's
induction schemes, which take an operator, so `Folding` derives induction over finite
subsets, with a set for the property, from the theorem that strict inclusion is well founded
there, and from it what a fold computes.

Only model-checked: the liveness properties (`JobsSettle`, `ImportsEnd`, `Delivers`,
`Attended`, `SentWatched`, `ResultsReach`), because liveness under fairness is beyond the
prover. Every invariant and action property of the passing runs is a theorem.

## 4. Hazards

`PROJECT.json` lists each at its line, with the properties that would catch it, or a
note on why none does: those that happen are in the table of known disagreements.

## 5. What is not modelled, and the plan

Theorems that would add to these: that the request ledger of `DescriptionJobs` and the
cap of `ByokJournal` implement a budget as `GeocodeJobs` does, with the exceptions named
above; what holds of the properties in the table of known disagreements outside the
circumstances it names, as `NoRaceWithOwnImport` does for `NoRace`.

Left out of the modelled components: metadata merging, provenance and explicit
coordinates of the catalogue (data the lifecycle does not read); the expiry of
idempotency keys (a day, longer than any retry of the client); reading the change
feed, which no client in the repository does; late requests of dead clients other
than a completion; `--fast-add` revisions, `--dry-run`; page sizes and run limits of
`SceneOutbox` and `ByokJournal`; the client's reselection of another photo with the same
content; the pacing of BYOK workers, which only chooses an order.

Not modelled, and why: SQL queries of the library views (read-only), request
formatting and parsing of providers (their outcomes are choices of the model),
authentication, the desktop bridge (a line protocol around commands), the Windows
user interface, the installer, deployment files (they fix assumptions: worker
concurrency, visibility time-out, schedules) and the single-user legacy importer
(sequential scripts).
