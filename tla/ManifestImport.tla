---------------------------- MODULE ManifestImport ----------------------------
(***************************************************************************)
(* The life of a bulk manifest import.  A client creates an import, puts   *)
(* the manifest into the object store and completes the upload; a worker   *)
(* then claims the import, stages its rows, merges them into the catalogue *)
(* in one transaction, writes a result object and closes the import.       *)
(*                                                                         *)
(* One user with one Local source.  Actions are database transactions of   *)
(* the API, of the worker and of the recovery schedule, transfers to the   *)
(* object store, deliveries of the queue, and steps of the clock.          *)
(***************************************************************************)
EXTENDS Naturals, FiniteSets

CONSTANTS
  Imports,      \* imports, one for each idempotency key (bound)
  Workers,      \* concurrent executions of the worker Lambda
  MessageIds,   \* identities of the messages outstanding for one import (bound)
  MaxAttempts,  \* ManifestImport.MaxAttempts
  None          \* no lease, no message

ASSUME AttemptsAssumption == MaxAttempts \in Nat \ {0}
ASSUME NoneAssumption == None \notin MessageIds \cup (Imports \X MessageIds)

Messages == Imports \X MessageIds

VARIABLES
  source,      \* "Active", or which of the source and its owner is not
  row,         \* import -> ManifestImport row
  manifests,   \* imports whose manifest is in the object store
  results,     \* imports whose result is in the object store
  completing,  \* imports whose completion looked at the object and not yet committed
  queue,       \* messages the queue may deliver
  pc,          \* worker -> its next step
  task,        \* worker -> the message it was invoked with
  permanent,   \* worker -> the failure it is about to report is final
  merges       \* import -> merges committed (history)

stores  == <<manifests, results>>
process == <<pc, task, permanent>>
vars == <<source, row, stores, completing, queue, process, merges>>

-----------------------------------------------------------------------------
\* The columns of a row.  live: LeaseExpiresAtUtc is ahead; due:
\* NextAttemptAtUtc has passed; late: UploadExpiresAtUtc has passed; staged:
\* ManifestImportEntry has its rows.  ActiveMarker is 1 exactly while the
\* status is one of Active.  "Succeeded" stands for CompletedWithErrors too.
Active   == {"AwaitingUpload", "Queued", "Running", "RetryDue"}
Terminal == {"Succeeded", "FailedPermanent", "Expired"}
Resumable == {"Staged", "Merging", "Merged", "WritingResult"}

ImportRow == [status: Active \cup Terminal \cup {"None"},
              phase: Resumable \cup {"WaitingForUpload", "Queued", "Downloading", "Complete"},
              attempts: 0..MaxAttempts, lease: MessageIds \cup {None},
              live: BOOLEAN, due: BOOLEAN, late: BOOLEAN, staged: BOOLEAN]

NoRow == [status |-> "None", phase |-> "WaitingForUpload", attempts |-> 0,
          lease |-> None, live |-> FALSE, due |-> FALSE, late |-> FALSE, staged |-> FALSE]

Steps == {"Idle", "Claim", "Load", "Start", "Merge", "Write", "Upload", "Complete",
          "Fail", "Ack"}

TypeOK ==
  /\ source \in {"Active", "NoSource", "NoOwner"}
  /\ row \in [Imports -> ImportRow]
  /\ manifests \subseteq Imports /\ results \subseteq Imports /\ completing \subseteq Imports
  /\ queue \subseteq Messages
  /\ pc \in [Workers -> Steps]
  /\ task \in [Workers -> Messages \cup {None}]
  /\ permanent \in [Workers -> BOOLEAN]
  /\ merges \in [Imports -> Nat]

Init ==
  /\ source = "Active"
  /\ row = [i \in Imports |-> NoRow]
  /\ manifests = {} /\ results = {} /\ completing = {}
  /\ queue = {}
  /\ pc = [w \in Workers |-> "Idle"]
  /\ task = [w \in Workers |-> None]
  /\ permanent = [w \in Workers |-> FALSE]
  /\ merges = [i \in Imports |-> 0]

-----------------------------------------------------------------------------
(* The API (services/api/manifest_import_service.py).                      *)

\* Operators named after a definition with a suffix in "Bug" are faulty
\* variants of it, for the property named beside each.

\* Promise: an upload that lapsed is closed even after it was completed.
LapsedBug(j) == row[j].status \in Active /\ row[j].late

Lapsed(j) == row[j].status = "AwaitingUpload" /\ row[j].late

\* A key seen before answers with its import, and gives an upload that is
\* still awaited a new expiry.  Otherwise the source must be active and have
\* no active import, except one that lapsed: that one expires.
Create(i) ==
  /\ IF row[i].status # "None"
     THEN /\ row[i].status = "AwaitingUpload"
          /\ row' = [row EXCEPT ![i].late = FALSE]
     ELSE /\ source = "Active"
          /\ \A j \in Imports : row[j].status \in Active => Lapsed(j)
          /\ row' = [j \in Imports |->
                       IF j = i THEN [NoRow EXCEPT !.status = "AwaitingUpload"]
                       ELSE IF Lapsed(j) THEN [row[j] EXCEPT !.status = "Expired", !.phase = "Complete"]
                       ELSE row[j]]
  /\ UNCHANGED <<source, stores, completing, queue, process, merges>>

RefreshUpload(i) ==
  /\ row[i].status = "AwaitingUpload"
  /\ row' = [row EXCEPT ![i].late = FALSE]
  /\ UNCHANGED <<source, stores, completing, queue, process, merges>>

\* The client puts the manifest, its checksum being part of the signed URL.
PutManifest(i) ==
  /\ row[i].status # "None" /\ ~row[i].late
  /\ manifests' = manifests \cup {i}
  /\ UNCHANGED <<source, row, results, completing, queue, process, merges>>

\* The completion checks the object outside any transaction ...
CompleteHead(i) ==
  /\ row[i].status = "AwaitingUpload" /\ i \in manifests
  /\ completing' = completing \cup {i}
  /\ UNCHANGED <<source, row, stores, queue, process, merges>>

\* ... and queues the import if it is still awaited.  The message may be lost.
CompleteCommit(i) ==
  /\ i \in completing
  /\ completing' = completing \ {i}
  /\ IF row[i].status = "AwaitingUpload"
     THEN /\ row' = [row EXCEPT ![i].status = "Queued", ![i].phase = "Queued", ![i].due = TRUE]
          /\ \/ \E id \in MessageIds : queue' = queue \cup {<<i, id>>}
             \/ UNCHANGED queue
     ELSE UNCHANGED <<row, queue>>
  /\ UNCHANGED <<source, stores, process, merges>>

\* The request dies between the two.
CompleteAbort(i) ==
  /\ i \in completing
  /\ completing' = completing \ {i}
  /\ UNCHANGED <<source, row, stores, queue, process, merges>>

-----------------------------------------------------------------------------
(* The worker (services/bulk/processor.py, services/bulk/repository.py).   *)

Import(w)  == task[w][1]
Message(w) == task[w][2]

\* A message may be delivered again while an execution still has it.
Deliver(w, m) ==
  /\ pc[w] = "Idle" /\ m \in queue
  /\ pc' = [pc EXCEPT ![w] = "Claim"] /\ task' = [task EXCEPT ![w] = m]
  /\ UNCHANGED <<source, row, stores, completing, queue, permanent, merges>>

Goto(w, step) == pc' = [pc EXCEPT ![w] = step] /\ UNCHANGED <<task, permanent>>

Failed(r) == [r EXCEPT !.status = "FailedPermanent", !.lease = None, !.live = FALSE,
                       !.due = FALSE, !.staged = FALSE]

\* TypeOK: one attempt too many.
ExhaustedBug(r) == r.attempts > MaxAttempts

Exhausted(r) == r.attempts >= MaxAttempts

\* StagedKept: the rows are dropped although the phase is kept.
WaitingBug(r) == [r EXCEPT !.status = "RetryDue", !.due = FALSE, !.lease = None,
                           !.live = FALSE, !.staged = FALSE]

Waiting(r) == [r EXCEPT !.status = "RetryDue", !.due = FALSE, !.lease = None, !.live = FALSE]

Claimable(r) ==
  \/ r.status = "Queued"
  \/ r.status = "RetryDue" /\ r.due
  \/ r.status = "Running"

\* MergedOnce: a claim always starts from the download.
ResumeAtBug(phase) == "Downloading"

ResumeAt(phase) == IF phase \in Resumable THEN phase ELSE "Downloading"

\* ResultBacked: an attempt that was writing the result is taken to have written it.
FirstStepBug(phase) == CASE phase = "Downloading" -> "Load"
                         [] phase \in {"Staged", "Merging"} -> "Start"
                         [] phase = "Merged" -> "Write"
                         [] phase = "WritingResult" -> "Complete"

FirstStep(phase) == CASE phase = "Downloading" -> "Load"
                      [] phase \in {"Staged", "Merging"} -> "Start"
                      [] phase \in {"Merged", "WritingResult"} -> "Write"

\* Whoever owns the source is looked at before the lease: an import whose
\* source is gone fails even while an execution has its lease.
Claim(w) ==
  LET i == Import(w)
      r == row[i]
      p == ResumeAt(r.phase)
  IN /\ pc[w] = "Claim"
     /\ CASE ~Claimable(r) -> Goto(w, "Ack") /\ UNCHANGED row
          [] Claimable(r) /\ source # "Active" ->
               Goto(w, "Ack") /\ row' = [row EXCEPT ![i] = Failed(r)]
          [] Claimable(r) /\ source = "Active" /\ r.live -> Goto(w, "Ack") /\ UNCHANGED row
          [] Claimable(r) /\ source = "Active" /\ ~r.live /\ Exhausted(r) ->
               Goto(w, "Ack") /\ row' = [row EXCEPT ![i] = Failed(r)]
          [] OTHER ->
               /\ Goto(w, FirstStep(p))
               /\ row' = [row EXCEPT ![i] = [r EXCEPT !.status = "Running", !.phase = p,
                            !.attempts = r.attempts + 1, !.lease = Message(w), !.live = TRUE]]
     /\ UNCHANGED <<source, stores, completing, queue, merges>>

HoldsLease(w) ==
  LET r == row[Import(w)] IN r.status = "Running" /\ r.lease = Message(w) /\ r.live

\* A transaction of the lease's holder that takes the import from one of
\* some phases to another: it changes the row, and the execution goes on.
\* Without the lease the message is dropped; in another phase the attempt fails.
Advance(w, step, phases, change, next) ==
  /\ pc[w] = step
  /\ CASE ~HoldsLease(w) -> Goto(w, "Ack") /\ UNCHANGED row
       [] HoldsLease(w) /\ row[Import(w)].phase \notin phases ->
            /\ pc' = [pc EXCEPT ![w] = "Fail"] /\ permanent' = [permanent EXCEPT ![w] = FALSE]
            /\ UNCHANGED <<task, row>>
       [] OTHER -> Goto(w, next) /\ row' = [row EXCEPT ![Import(w)] = change]
  /\ UNCHANGED <<source, completing, queue>>

AnyPhase == {row[i].phase : i \in Imports}

\* The manifest is read and its rows replace those staged before.
Load(w) ==
  /\ Advance(w, "Load", AnyPhase,
             [row[Import(w)] EXCEPT !.phase = "Staged", !.staged = TRUE], "Start")
  /\ UNCHANGED <<stores, merges>>

Start(w) ==
  /\ Advance(w, "Start", {"Staged", "Merging"}, [row[Import(w)] EXCEPT !.phase = "Merging"], "Merge")
  /\ UNCHANGED <<stores, merges>>

\* The catalogue and the phase change in one transaction, if the source is
\* still there.
Merge(w) ==
  /\ IF pc[w] = "Merge" /\ source # "Active"
     THEN /\ pc' = [pc EXCEPT ![w] = "Fail"]
          /\ permanent' = [permanent EXCEPT ![w] = (source = "NoSource")]
          /\ UNCHANGED <<source, row, completing, queue, task, merges>>
     ELSE /\ Advance(w, "Merge", {"Staged", "Merging"},
                     [row[Import(w)] EXCEPT !.phase = "Merged"], "Write")
          /\ IF pc'[w] = "Write"
             THEN merges' = [merges EXCEPT ![Import(w)] = merges[Import(w)] + 1]
             ELSE UNCHANGED merges
  /\ UNCHANGED stores

Write(w) ==
  /\ Advance(w, "Write", {"Merged", "WritingResult"},
             [row[Import(w)] EXCEPT !.phase = "WritingResult"], "Upload")
  /\ UNCHANGED <<stores, merges>>

\* The result is written from the staged rows and must have all of them.
Upload(w) ==
  /\ pc[w] = "Upload"
  /\ IF row[Import(w)].staged
     THEN results' = results \cup {Import(w)} /\ Goto(w, "Complete")
     ELSE /\ pc' = [pc EXCEPT ![w] = "Fail"] /\ permanent' = [permanent EXCEPT ![w] = TRUE]
          /\ UNCHANGED <<results, task>>
  /\ UNCHANGED <<source, row, manifests, completing, queue, merges>>

Complete(w) ==
  /\ Advance(w, "Complete", {"Merged", "WritingResult"},
             [row[Import(w)] EXCEPT !.status = "Succeeded", !.phase = "Complete",
                !.lease = None, !.live = FALSE, !.due = FALSE, !.staged = FALSE], "Ack")
  /\ UNCHANGED <<stores, merges>>

\* Something a step calls fails, before its transaction commits: finally if
\* the manifest, a row or the result is unacceptable.
Err(w) ==
  /\ pc[w] \in {"Load", "Start", "Merge", "Write", "Upload", "Complete"}
  /\ pc' = [pc EXCEPT ![w] = "Fail"]
  /\ \/ permanent' = [permanent EXCEPT ![w] = FALSE]
     \/ /\ pc[w] \in {"Load", "Merge", "Upload"}
        /\ permanent' = [permanent EXCEPT ![w] = TRUE]
  /\ UNCHANGED <<source, row, stores, completing, queue, task, merges>>

\* Reported by the holder of the lease, expired or not.  With attempts left
\* the import waits and the message stays; otherwise its rows are dropped.
Fail(w) ==
  LET r == row[Import(w)] IN
  /\ pc[w] = "Fail"
  /\ CASE r.lease # Message(w) -> Goto(w, "Ack") /\ UNCHANGED row
       [] r.lease = Message(w) /\ ~permanent[w] /\ ~Exhausted(r) ->
            /\ row' = [row EXCEPT ![Import(w)] = Waiting(r)]
            /\ pc' = [pc EXCEPT ![w] = "Idle"] /\ task' = [task EXCEPT ![w] = None]
            /\ UNCHANGED permanent
       [] OTHER -> Goto(w, "Ack") /\ row' = [row EXCEPT ![Import(w)] = Failed(r)]
  /\ UNCHANGED <<source, stores, completing, queue, merges>>

End(w) == /\ pc' = [pc EXCEPT ![w] = "Idle"] /\ task' = [task EXCEPT ![w] = None]
          /\ permanent' = [permanent EXCEPT ![w] = FALSE]

Ack(w) ==
  /\ pc[w] = "Ack" /\ End(w)
  /\ queue' = queue \ {task[w]}
  /\ UNCHANGED <<source, row, stores, completing, merges>>

\* The execution ends without a word: it is killed, runs out of time, or an
\* error outside the handlers above makes it ask for the message again.
Stop(w) ==
  /\ pc[w] # "Idle" /\ End(w)
  /\ UNCHANGED <<source, row, stores, completing, queue, merges>>

-----------------------------------------------------------------------------
(* The queue, the recovery schedule, the clock and the owner.              *)

\* After five receptions, or with age, a message leaves the queue.
Lose(m) ==
  /\ m \in queue /\ queue' = queue \ {m}
  /\ UNCHANGED <<source, row, stores, completing, process, merges>>

\* ImportsEnd: executions that died are not looked for.
DueImportBug(r) == r.status \in {"Queued", "RetryDue"} /\ r.due

DueImport(r) ==
  \/ r.status \in {"Queued", "RetryDue"} /\ r.due
  \/ r.status = "Running" /\ ~r.live

Recover(i, id) ==
  /\ DueImport(row[i])
  /\ <<i, id>> \notin queue /\ id # row[i].lease
  /\ \A w \in Workers : task[w] # <<i, id>>
  /\ queue' = queue \cup {<<i, id>>}
  /\ UNCHANGED <<source, row, stores, completing, process, merges>>

\* An execution is killed 900 seconds after it began; a lease lasts 1200.
Outlived(i) == \A w \in Workers : task[w] = <<i, row[i].lease>> => pc[w] \in {"Claim", "Ack"}

LeaseExpires(i) ==
  /\ row[i].status = "Running" /\ row[i].live /\ Outlived(i)
  /\ row' = [row EXCEPT ![i].live = FALSE]
  /\ UNCHANGED <<source, stores, completing, queue, process, merges>>

RetryComesDue(i) ==
  /\ row[i].status = "RetryDue" /\ ~row[i].due
  /\ row' = [row EXCEPT ![i].due = TRUE]
  /\ UNCHANGED <<source, stores, completing, queue, process, merges>>

UploadLapses(i) ==
  /\ row[i].status = "AwaitingUpload" /\ ~row[i].late
  /\ row' = [row EXCEPT ![i].late = TRUE]
  /\ UNCHANGED <<source, stores, completing, queue, process, merges>>

\* The source is removed or its owner leaves.
LoseSource ==
  /\ source = "Active"
  /\ source' \in {"NoSource", "NoOwner"}
  /\ UNCHANGED <<row, stores, completing, queue, process, merges>>

-----------------------------------------------------------------------------
Handle(w) == Claim(w) \/ Load(w) \/ Start(w) \/ Merge(w) \/ Write(w) \/ Upload(w)
             \/ Complete(w) \/ Fail(w) \/ Ack(w)

Next ==
  \/ \E i \in Imports : \/ Create(i) \/ RefreshUpload(i) \/ PutManifest(i)
                        \/ CompleteHead(i) \/ CompleteCommit(i) \/ CompleteAbort(i)
                        \/ LeaseExpires(i) \/ RetryComesDue(i) \/ UploadLapses(i)
                        \/ \E id \in MessageIds : Recover(i, id)
  \/ \E w \in Workers : \/ Handle(w) \/ Err(w) \/ Stop(w)
                        \/ \E m \in Messages : Deliver(w, m)
  \/ \E m \in Messages : Lose(m)
  \/ LoseSource

Spec == Init /\ [][Next]_vars

\* The schedule runs every five minutes, the queue delivers, time passes, an
\* execution goes on or is stopped, and the claim of an import is not stopped
\* for ever.
Fairness ==
  /\ \A i \in Imports :
       /\ WF_vars(\E id \in MessageIds : Recover(i, id))
       /\ WF_vars(LeaseExpires(i)) /\ WF_vars(RetryComesDue(i))
       /\ SF_vars(\E w \in Workers, id \in MessageIds : Deliver(w, <<i, id>>))
       /\ SF_vars(\E w \in Workers : Claim(w) /\ Import(w) = i)
  /\ \A w \in Workers : WF_vars(Handle(w) \/ Stop(w))

FairSpec == Spec /\ Fairness

-----------------------------------------------------------------------------
(* Properties.                                                             *)

\* A manifest is merged into the catalogue at most once, whatever is
\* delivered twice, crashes or times out (_require_lease, the phase and the
\* lease of merge and load_stage).
MergedOnce == \A i \in Imports : merges[i] <= 1

\* An import that may resume behind the download finds the rows it staged, an
\* import that ended has none left (claim keeps the phase across attempts,
\* fail and complete_result delete the entries).
StagedKept ==
  \A i \in Imports :
    /\ row[i].status \in Active /\ row[i].phase \in Resumable => row[i].staged
    /\ row[i].status \in Terminal => ~row[i].staged

\* A client told of success finds the result, which is of the merge
\* (complete_result after upload_result; current_result after a crash).
ResultBacked ==
  \A i \in Imports : row[i].status = "Succeeded" => i \in results /\ merges[i] > 0

Told(s) == CASE s \in {"Queued", "Running", "RetryDue"} -> "Working"
             [] s = "FailedPermanent" -> "Failed"
             [] OTHER -> s

\* The service keeps its promise to the client.
Promise == INSTANCE ImportPromise WITH status <- [i \in Imports |-> Told(row[i].status)]
PromiseKept == Promise!Spec

\* A submitted import ends, although its message or its execution may be lost
\* (due_import_ids and the RetryManifestImports schedule; MaxAttempts).
ImportsEnd == \A i \in Imports : row[i].status = "Queued" ~> row[i].status \in Terminal
==============================================================================
