----------------------------- MODULE ManifestSync -----------------------------
(***************************************************************************)
(* The command-line client keeping the catalogue of one Local source in    *)
(* step with a folder: it scans, saves batches of changes in an outbox,    *)
(* and delivers them either one by one with an idempotency key or together *)
(* as a bulk manifest import.  The import service is ImportPromise.        *)
(*                                                                         *)
(* Actions are SQLite transactions of the client, requests together with   *)
(* what the server does about them, and edits of the folder.  A run of     *)
(* the client may end after any of them.                                   *)
(***************************************************************************)
EXTENDS Naturals, FiniteSets, SequencesExt

CONSTANTS
  Items,         \* source items: paths in the folder
  MaxRevision,   \* revisions of a file (bound)
  MaxEdits,      \* edits of the folder (bound)
  BatchIds,      \* batches that may be saved at once (bound)
  Imports,       \* bulk imports the client may prepare (bound)
  Unacceptable,  \* pairs of item and revision whose entry the server rejects
  None

ASSUME BoundsAssumption ==
  /\ IsFiniteSet(Items) /\ IsFiniteSet(BatchIds) /\ \A S \in SUBSET Items : S # None
  /\ MaxRevision \in Nat \ {0} /\ MaxEdits \in Nat
  /\ Unacceptable \subseteq Items \X (1..MaxRevision)

VARIABLES
  disk,      \* item -> revision of the file, 0 when there is none
  edits,     \* edits made
  catalog,   \* item -> revision of the active occurrence on the server, 0 when none
  answers,   \* batch -> items it was answered to reject, None before it is
             \* served and when the client will not repeat it
  status,    \* import -> see ImportPromise
  merges,    \* import -> see ImportPromise
  manifest,  \* import -> revisions in its manifest
  rejected,  \* import -> items its merge rejected
  late,      \* imports whose completion is still under way, its client gone
  strays,    \* imports completed after the client had given them up (history)
  known,     \* KnownOccurrence: item -> revision, 0 when there is no row
  outbox,    \* ManifestOutbox, oldest first: the batches Pending or Failed
  bulk,      \* the active row of BulkManifestOutbox, or None
  pc,        \* what the running client does next, "Idle" without a run
  batchOnly, \* --transport batch
  scanned,   \* this run has scanned the folder
  givenUp    \* items of failed batches the user discarded, until they are delivered (history)

folder == <<disk, edits>>
server == <<catalog, answers, status, merges, manifest, rejected, late, strays>>
local  == <<known, outbox, bulk>>
run    == <<pc, batchOnly, scanned>>
vars   == <<folder, server, local, run, givenUp>>

-----------------------------------------------------------------------------
Revisions == 1..MaxRevision
Change    == [rev: Revisions, gone: BOOLEAN]
Changes   == UNION {[S -> Change] : S \in SUBSET Items}

Batch == [id: BatchIds, changes: Changes, large: BOOLEAN,
          state: {"Pending", "Failed"}, failures: SUBSET Items]

\* bound: ServerImportId is set; result: ResultPath is set; ready: State is
\* ResultReady or ApplyingResult; applied: the rows up to ResultAppliedThrough.
BulkItem == [import: Imports, captured: SUBSET BatchIds, bound: BOOLEAN,
             result: BOOLEAN, ready: BOOLEAN, applied: SUBSET Items]

\* None stands for no import.
ASSUME NoneAssumption == None \notin BulkItem

Steps == {"Idle", "Deliver", "Flush", "Scan", "Create", "Watch", "Upload", "Fetch", "Apply"}

TypeOK ==
  /\ disk \in [Items -> 0..MaxRevision] /\ edits \in 0..MaxEdits
  /\ catalog \in [Items -> 0..MaxRevision]
  /\ answers \in [BatchIds -> (SUBSET Items) \cup {None}]
  /\ manifest \in [Imports -> Changes]
  /\ rejected \in [Imports -> SUBSET Items]
  /\ late \subseteq Imports /\ strays \subseteq Imports
  /\ known \in [Items -> 0..MaxRevision]
  /\ \A n \in DOMAIN outbox : outbox[n] \in Batch
  /\ bulk \in BulkItem \cup {None}
  /\ pc \in Steps /\ batchOnly \in BOOLEAN /\ scanned \in BOOLEAN
  /\ givenUp \subseteq Items

Service == INSTANCE ImportPromise

Init ==
  /\ disk = [x \in Items |-> 1] /\ edits = 0
  /\ catalog = [x \in Items |-> 0] /\ answers = [b \in BatchIds |-> None]
  /\ Service!Init
  /\ manifest = [i \in Imports |-> <<>>] /\ rejected = [i \in Imports |-> {}]
  /\ late = {} /\ strays = {}
  /\ known = [x \in Items |-> 0] /\ outbox = <<>> /\ bulk = None
  /\ pc = "Idle" /\ batchOnly = FALSE /\ scanned = FALSE /\ givenUp = {}

\* Places in the outbox; their batches and the files these are about.
Pending         == {n \in DOMAIN outbox : outbox[n].state = "Pending"}
FailedOnes      == {n \in DOMAIN outbox : outbox[n].state = "Failed"}
Ids(places)     == {outbox[n].id : n \in places}
Covered(places) == UNION {DOMAIN outbox[n].changes : n \in places}

\* The entries the server rejects one by one, and what the others do.
Refused(changes) ==
  {x \in DOMAIN changes : ~changes[x].gone /\ <<x, changes[x].rev>> \in Unacceptable}

Applied(changes) ==
  [x \in Items |-> IF x \in DOMAIN changes \ Refused(changes)
                   THEN IF changes[x].gone THEN 0 ELSE changes[x].rev
                   ELSE catalog[x]]

-----------------------------------------------------------------------------
(* A run of the client (LocalSyncService.sync).                            *)

Edit(x) ==
  /\ edits < MaxEdits
  /\ \E r \in 0..MaxRevision \ {disk[x]} : disk' = [disk EXCEPT ![x] = r]
  /\ edits' = edits + 1
  /\ UNCHANGED <<server, local, run, givenUp>>

\* QueueSound: a run scans before it delivers what waits.
FirstStepBug == "Scan"

FirstStep == IF Pending = {} THEN "Scan" ELSE "Deliver"

\* One run at a time holds the lock of the source.
StartRun(only) ==
  /\ pc = "Idle"
  /\ batchOnly' = only /\ scanned' = FALSE
  /\ pc' = FirstStep
  /\ UNCHANGED <<folder, server, local, givenUp>>

Goto(step) ==
  /\ pc' = step
  /\ batchOnly' = (batchOnly /\ step # "Idle") /\ scanned' = (scanned /\ step # "Idle")

\* What a run ends with, once everything was delivered.
Delivered == Goto(IF scanned THEN "Idle" ELSE "Scan")

\* The run ends: it pauses at a transient error, or dies.
Stop ==
  /\ pc # "Idle" /\ Goto("Idle")
  /\ UNCHANGED <<folder, server, local, givenUp>>

\* quarantined_revisions: of the Failed batches the last one counts.
Quarantined(x) ==
  LET about == {n \in FailedOnes : x \in outbox[n].failures}
  IN IF about = {} THEN 0 ELSE outbox[Max(about)].changes[x].rev

NewBatch(id, changes, large) ==
  [id |-> id, changes |-> changes, large |-> large, state |-> "Pending", failures |-> {}]

FreshIds == BatchIds \ Ids(DOMAIN outbox)

\* The changes are saved as one batch or as one for each of them; a batch
\* queued by an older client may be large.
Save(changes) ==
  \/ \E id \in FreshIds, large \in BOOLEAN :
       /\ large => Cardinality(DOMAIN changes) > 1 /\ Cardinality(FreshIds) > Cardinality(DOMAIN changes)
       /\ outbox' = outbox \o <<NewBatch(id, changes, large)>>
  \/ \E ids \in SUBSET FreshIds :
       /\ Cardinality(ids) = Cardinality(DOMAIN changes) /\ Cardinality(ids) > 1
       /\ LET id == SetToSeq(ids)
              x  == SetToSeq(DOMAIN changes)
          IN outbox' = outbox \o [n \in DOMAIN x |->
                         NewBatch(id[n], [y \in {x[n]} |-> changes[y]], FALSE)]

Present == {x \in Items : disk[x] # 0}

\* The walk of the folder is complete when no directory failed; a file it
\* lists that cannot be examined or read is seen but has no entry.
Listings == [listed: SUBSET Present, complete: BOOLEAN]
WholeFolder(listing) == listing.complete => listing.listed = Present
Readable(listing) == SUBSET listing.listed

Changed(read) == {x \in read : disk[x] \notin {known[x], Quarantined(x)}}

\* What the walk missed is taken for gone only if it was complete.
Gone(listing) ==
  IF listing.complete THEN {x \in Items \ listing.listed : known[x] \notin {0, Quarantined(x)}}
                      ELSE {}

Scan(listing, read) ==
  /\ pc = "Scan" /\ WholeFolder(listing) /\ read \in Readable(listing)
  /\ LET changed == Changed(read)
         deleted == Gone(listing)
     IN IF changed \cup deleted = {}
        THEN Goto("Idle") /\ UNCHANGED outbox
        ELSE /\ Save([x \in changed \cup deleted |->
                        IF x \in deleted THEN [rev |-> known[x], gone |-> TRUE]
                                         ELSE [rev |-> disk[x], gone |-> FALSE]])
             /\ pc' = "Deliver" /\ scanned' = TRUE /\ UNCHANGED batchOnly
  /\ UNCHANGED <<folder, server, known, bulk, givenUp>>

-----------------------------------------------------------------------------
(* The route of a delivery (_deliver_pending).                             *)

\* KnownIsServed: a submitted import that still works is given up for batches.
StillWorkingBug(s) == FALSE

StillWorking(s) == s = "Working"

\* Delivers: an import that failed is watched for ever.
HopelessBug(s) == s = "Expired"

Hopeless(s) == s \in {"Failed", "Expired"}

\* Transactions on the row of the active import; it is given up by bulk' = None.
\* update_bulk_manifest_status puts the status of the server where ResultReady
\* or ApplyingResult was.
Tracked  == [bulk EXCEPT !.ready = FALSE]
Bound    == [bulk EXCEPT !.bound = TRUE]
Recorded == [bulk EXCEPT !.result = TRUE, !.ready = TRUE]
GiveUp   == bulk' = None

\* An active import is resumed, unless the user asks for batches and it was
\* not submitted yet.
ResumeOrEscape ==
  /\ pc = "Deliver" /\ bulk # None
  /\ IF ~batchOnly
     THEN Goto(IF bulk.bound THEN "Watch" ELSE "Create") /\ UNCHANGED bulk
     ELSE IF bulk.bound /\ StillWorking(status[bulk.import])
     THEN Goto("Idle") /\ bulk' = Tracked
     ELSE IF bulk.bound /\ status[bulk.import] \notin Service!Open
     THEN Goto("Watch") /\ bulk' = Tracked
     ELSE Goto("Flush") /\ GiveUp
  /\ UNCHANGED <<folder, server, known, outbox, givenUp>>

TakeBatches ==
  /\ pc = "Deliver" /\ bulk = None
  /\ Goto("Flush")
  /\ UNCHANGED <<folder, server, local, givenUp>>

\* Only additions with a hash go into a manifest.
Eligible(chosen) ==
  \A n \in chosen : \A x \in DOMAIN outbox[n].changes : ~outbox[n].changes[x].gone

ManifestOf(chosen) ==
  [x \in Covered(chosen) |->
     outbox[CHOOSE n \in chosen : x \in DOMAIN outbox[n].changes].changes[x]]

\* --bulk-max-rows: some of the oldest batches.
Segments ==
  {chosen \in SUBSET Pending : chosen # {} /\ \A n \in chosen, m \in Pending : m < n => m \in chosen}

\* A segment becomes one manifest.
PrepareBulk(i) ==
  /\ pc = "Deliver" /\ bulk = None /\ ~batchOnly
  /\ status[i] = "None" /\ manifest[i] = <<>>
  /\ \E chosen \in Segments :
       /\ Eligible(chosen)
       /\ bulk' = [import |-> i, captured |-> Ids(chosen), bound |-> FALSE,
                   result |-> FALSE, ready |-> FALSE, applied |-> {}]
       /\ manifest' = [manifest EXCEPT ![i] = ManifestOf(chosen)]
  /\ Goto("Create")
  /\ UNCHANGED <<folder, catalog, answers, status, merges, rejected, late, strays, known, outbox, givenUp>>

-----------------------------------------------------------------------------
(* Batches (_flush_pending, acknowledge_batch, quarantine_request_error).  *)

\* split_oversized_pending_batches
Split ==
  /\ pc = "Flush"
  /\ \E n \in Pending :
       /\ outbox[n].large
       /\ \E ids \in SUBSET FreshIds :
            /\ Cardinality(ids) = Cardinality(DOMAIN outbox[n].changes)
            /\ LET id == SetToSeq(ids)
                   x  == SetToSeq(DOMAIN outbox[n].changes)
               IN outbox' = RemoveAt(outbox, n) \o [m \in DOMAIN x |->
                     NewBatch(id[m], [y \in {x[m]} |-> outbox[n].changes[y]], FALSE)]
            /\ answers' = [answers EXCEPT ![outbox[n].id] = None]
  /\ UNCHANGED <<folder, catalog, status, merges, manifest, rejected, late, strays, known, bulk, run, givenUp>>

NothingLarge == \A n \in Pending : ~outbox[n].large

\* The place in the outbox of the batch whose turn it is.
Turn == Min(Pending)

Sending == pc = "Flush" /\ NothingLarge /\ Pending # {}

\* The server applies a batch once, and answers a repeated request as before.
Served(b) == IF answers[b.id] = None THEN Applied(b.changes) ELSE catalog
Answer(b) == IF answers[b.id] = None THEN Refused(b.changes) ELSE answers[b.id]

Acknowledge(n, refused) ==
  LET b == outbox[n]
      accepted == DOMAIN b.changes \ refused
  IN /\ known' = [x \in Items |-> IF x \notin accepted THEN known[x]
                                  ELSE IF b.changes[x].gone THEN 0 ELSE b.changes[x].rev]
     /\ outbox' = IF refused = {} THEN RemoveAt(outbox, n)
                  ELSE [outbox EXCEPT ![n].state = "Failed", ![n].failures = refused]
     /\ givenUp' = givenUp \ accepted

SubmitBatch ==
  /\ Sending
  /\ catalog' = Served(outbox[Turn])
  /\ Acknowledge(Turn, Answer(outbox[Turn]))
  /\ answers' = [answers EXCEPT ![outbox[Turn].id] = None]
  /\ UNCHANGED <<folder, status, merges, manifest, rejected, late, strays, bulk, run>>

\* The answer is lost, or the client dies before it acknowledges.
AnswerLost ==
  /\ Sending
  /\ catalog' = Served(outbox[Turn])
  /\ answers' = [answers EXCEPT ![outbox[Turn].id] = Answer(outbox[Turn])]
  /\ Goto("Idle")
  /\ UNCHANGED <<folder, status, merges, manifest, rejected, late, strays, local, givenUp>>

\* The server refuses the request as a whole, for good, because of an entry.
RefuseBatch ==
  /\ Sending /\ answers[outbox[Turn].id] = None /\ Refused(outbox[Turn].changes) # {}
  /\ outbox' = [outbox EXCEPT ![Turn].state = "Failed",
                              ![Turn].failures = DOMAIN outbox[Turn].changes]
  /\ UNCHANGED <<folder, server, known, bulk, run, givenUp>>

Flushed ==
  /\ pc = "Flush" /\ Pending = {}
  /\ Delivered
  /\ UNCHANGED <<folder, server, local, givenUp>>

\* discard_outbox: the user gives a failed batch up.
DiscardFailed(n) ==
  /\ n \in FailedOnes
  /\ outbox' = RemoveAt(outbox, n)
  /\ givenUp' = givenUp \cup outbox[n].failures
  /\ UNCHANGED <<folder, server, known, bulk, run>>

-----------------------------------------------------------------------------
(* The bulk import (_resume_bulk_manifest, _apply_bulk_result).            *)

ImportUnchanged == UNCHANGED <<folder, catalog, answers, manifest, rejected, late, strays, known, outbox, givenUp>>

\* The server has another import of the source open: this one is given up.
\* Its answer may be lost.
CreateImport ==
  /\ pc = "Create"
  /\ LET i == bulk.import
         conflict == \E j \in Imports \ {i} : status[j] \in Service!Open
     IN \/ /\ conflict /\ Goto("Flush") /\ GiveUp /\ UNCHANGED <<status, merges>>
        \/ /\ \/ Service!Create(i)
              \/ status[i] # "None" /\ UNCHANGED <<status, merges>>
           /\ \/ Goto("Watch") /\ bulk' = Bound
              \/ Goto("Idle") /\ UNCHANGED bulk
  /\ ImportUnchanged

\* The status of the server replaces the State of the local row.
Watch ==
  /\ pc = "Watch"
  /\ LET s == status[bulk.import]
     IN \/ /\ s = "AwaitingUpload" /\ Goto("Upload") /\ bulk' = Tracked
        \/ /\ s = "Working" /\ UNCHANGED run /\ bulk' = Tracked
        \/ /\ s = "Succeeded" /\ rejected[bulk.import] = {}
           /\ Goto("Fetch") /\ bulk' = Tracked
        \/ /\ Hopeless(s) \/ (s = "Succeeded" /\ rejected[bulk.import] # {})
           /\ Goto("Flush") /\ GiveUp
  /\ UNCHANGED <<status, merges>> /\ ImportUnchanged

\* The artifact cannot be read or is refused: back to batches.
AbandonUpload ==
  /\ pc = "Upload" /\ status[bulk.import] = "AwaitingUpload"
  /\ Goto("Flush") /\ GiveUp
  /\ UNCHANGED <<status, merges>> /\ ImportUnchanged

\* The manifest is put and the completion requested; its answer may be lost.
CompleteImport ==
  /\ pc = "Upload"
  /\ \/ Service!Submit(bulk.import)
     \/ status[bulk.import] # "AwaitingUpload" /\ UNCHANGED <<status, merges>>
  /\ Goto("Watch") \/ Goto("Idle")
  /\ UNCHANGED bulk /\ ImportUnchanged

DownloadResult ==
  /\ pc = "Fetch" /\ ~bulk.result
  /\ Goto("Apply") /\ bulk' = Recorded
  /\ UNCHANGED <<status, merges>> /\ ImportUnchanged

\* A result that was saved before is not recorded again, which leaves the
\* State as Watch set it.
UseSavedResult ==
  /\ pc = "Fetch" /\ bulk.result
  /\ Goto("Apply") /\ UNCHANGED <<bulk, status, merges>> /\ ImportUnchanged

\* The plan is refused, or the file is not as the plan or its header says.
RejectResult ==
  /\ pc = "Fetch"
  /\ Goto("Flush") /\ GiveUp
  /\ UNCHANGED <<status, merges>> /\ ImportUnchanged

Fetch == DownloadResult \/ UseSavedResult \/ RejectResult

\* The result has one row for every row of the manifest, in their order; those
\* after the cursor are read.
ResultRows == DOMAIN manifest[bulk.import] \ bulk.applied

\* One page of the result with its cursor.
ApplyRow ==
  /\ pc = "Apply"
  /\ \E x \in ResultRows :
       IF bulk.ready
       THEN /\ known' = [known EXCEPT ![x] = manifest[bulk.import][x].rev]
            /\ bulk' = [bulk EXCEPT !.applied = @ \cup {x}]
            /\ givenUp' = givenUp \ {x}
            /\ UNCHANGED run
       ELSE Goto("Flush") /\ GiveUp /\ UNCHANGED <<known, givenUp>>
  /\ UNCHANGED <<folder, server, outbox>>

\* The outbox without the batches of a segment.
Without(ids) ==
  FoldLeft(LAMBDA kept, b : IF b.state = "Pending" /\ b.id \in ids THEN kept ELSE Append(kept, b), <<>>, outbox)

SegmentsLeft == Pending' # {}

FinishBulk ==
  /\ pc = "Apply" /\ ResultRows = {}
  /\ outbox' = Without(bulk.captured)
  /\ answers' = [b \in BatchIds |-> IF b \in bulk.captured THEN None ELSE answers[b]]
  /\ bulk' = None
  /\ IF SegmentsLeft THEN Goto("Idle") ELSE Delivered
  /\ UNCHANGED <<folder, catalog, status, merges, manifest, rejected, late, strays, known, givenUp>>

-----------------------------------------------------------------------------
(* The server's own steps, and a completion served late.                   *)

MergeImport(i) ==
  /\ Service!Merge(i)
  /\ catalog' = Applied(manifest[i])
  /\ rejected' = [rejected EXCEPT ![i] = Refused(manifest[i])]
  /\ UNCHANGED <<folder, answers, manifest, late, strays, local, run, givenUp>>

EndImport(i) ==
  /\ Service!Succeed(i) \/ Service!Fail(i)
  /\ UNCHANGED <<folder, catalog, answers, manifest, rejected, late, strays, local, run, givenUp>>

\* The client dies with the completion under way ...
LeaveCompletion ==
  /\ pc = "Upload" /\ Goto("Idle")
  /\ late' = late \cup {bulk.import}
  /\ UNCHANGED <<folder, catalog, answers, status, merges, manifest, rejected, strays, local, givenUp>>

\* ... and the server gets round to it.
LateCompletion(i) ==
  /\ i \in late /\ late' = late \ {i}
  /\ IF status[i] = "AwaitingUpload"
     THEN /\ Service!Submit(i)
          /\ strays' = IF bulk # None /\ bulk.import = i THEN strays ELSE strays \cup {i}
     ELSE UNCHANGED <<status, merges, strays>>
  /\ UNCHANGED <<folder, catalog, answers, manifest, rejected, local, run, givenUp>>

-----------------------------------------------------------------------------
ClientStep ==
  \/ ResumeOrEscape \/ TakeBatches \/ (\E i \in Imports : PrepareBulk(i))
  \/ Split \/ SubmitBatch \/ RefuseBatch \/ Flushed \/ (\E listing \in Listings : \E read \in Readable(listing) : Scan(listing, read))
  \/ CreateImport \/ Watch \/ AbandonUpload \/ CompleteImport \/ Fetch \/ ApplyRow \/ FinishBulk

Next ==
  \/ \E x \in Items : Edit(x)
  \/ \E only \in BOOLEAN : StartRun(only)
  \/ ClientStep \/ Stop \/ AnswerLost
  \/ \E n \in DOMAIN outbox : DiscardFailed(n)
  \/ \E i \in Imports : MergeImport(i) \/ EndImport(i) \/ LateCompletion(i)
  \/ LeaveCompletion

Spec == Init /\ [][Next]_vars

\* The user keeps running the client; a step it attempts in one run after the
\* other succeeds at times; the service ends every import submitted to it.
Lasting ==
  \/ Split \/ SubmitBatch \/ RefuseBatch \/ ApplyRow \/ FinishBulk
  \/ (CreateImport \/ CompleteImport) /\ pc' # "Idle"

Fairness ==
  /\ WF_vars(\E only \in BOOLEAN : StartRun(only))
  /\ \A i \in Imports : WF_vars(EndImport(i))
  /\ SF_vars(Scan([listed |-> Present, complete |-> TRUE], Present)) /\ SF_vars(ResumeOrEscape \/ TakeBatches \/ Flushed)
  /\ SF_vars(Watch) /\ SF_vars(Fetch) /\ SF_vars(Lasting)

FairSpec == Spec /\ Fairness

-----------------------------------------------------------------------------
(* Properties.                                                             *)

Waits(x) == x \in Covered(Pending)
InQuarantine(x) == \E n \in FailedOnes : x \in outbox[n].failures

\* The user has been told of trouble with the file, or an import the client
\* had given up has it.
Excused(x) == InQuarantine(x) \/ x \in givenUp \/ \E i \in strays : x \in DOMAIN manifest[i]

\* What the client believes of a file that does not wait for delivery is
\* what the catalogue has (acknowledge_batch, apply_bulk_result_rows,
\* complete_bulk_manifest, _escape_active_bulk_to_batch).
KnownIsServed == \A x \in Items : ~Waits(x) /\ ~Excused(x) => known[x] = catalog[x]

\* The batches an active import captured are still pending, and no file
\* waits in two batches (queue_bulk_manifest, _captured_bulk_batches).
CapturedPending ==
  /\ bulk # None => bulk.captured \subseteq Ids(Pending)
  /\ \A m, n \in Pending : m # n => DOMAIN outbox[m].changes \cap DOMAIN outbox[n].changes = {}

\* What a run finds saved by an earlier one can be resumed (_resume_bulk_manifest).
QueueSound == TypeOK /\ CapturedPending

\* A file that stays as it is reaches the catalogue, or the user is told of it
\* (the saved outbox, resumed by the next run).
Delivers == \A x \in Items : []<>(catalog[x] = disk[x] \/ Excused(x))

\* No batch changes the catalogue while an import of the source works: "batch transport
\* will not race it", says _escape_active_bulk_to_batch.
NoRace ==
  [][catalog' # catalog /\ merges' = merges => \A i \in Imports : status[i] # "Working"]_vars

\* A result that was downloaded and verified is applied to the end: the README
\* "applies the checksum-bound result to local state in resumable pages".
ResultApplied ==
  [][bulk # None /\ bulk.result /\ bulk' = None => DOMAIN manifest[bulk.import] = bulk.applied]_vars
==============================================================================
