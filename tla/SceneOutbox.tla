------------------------------ MODULE SceneOutbox ------------------------------
(***************************************************************************)
(* The scene-preview outbox of the command-line client: `enrich` asks the  *)
(* server which photos want a description, saves a task for each, and      *)
(* stages a preview of the photo through a temporary upload session.  The  *)
(* server is the part of DescriptionJobs that answers this client.         *)
(*                                                                         *)
(* Actions are SQLite transactions of the client, requests together with   *)
(* what the server does about them, and steps of the server, the user and  *)
(* the clock.  A run of the client may end after any of them.              *)
(***************************************************************************)
EXTENDS Naturals, FiniteSets

CONSTANTS
  Jobs,       \* description jobs, one per photo
  Sessions,   \* temporary upload sessions a job may have at once (bound)
  Formats,    \* formats of the photos: "Plain", or "Modern" for this release's successor
  MaxFaults,  \* killed runs and lost requests or answers (bound)
  None

ASSUME BoundsAssumption == MaxFaults \in Nat /\ Formats \subseteq {"Plain", "Modern"}

VARIABLES
  job,       \* ProcessingJob.Status
  session,   \* job -> session -> UploadSession and the object under its key
  skipped,   \* <<job, reason>> whose cancellation is on record under its key
  revived,   \* jobs whose retry for the present decoder is on record
  task,      \* DescriptionOutbox: state, and when it is due or checked
  kept,      \* job -> the plans on record under the keys of the task's present attempt
  prepared,  \* the preparation on record under the saved key, or None
  photo,     \* the file of a task
  decoder,   \* the preview formats this client reads
  recorded,  \* the setting that this decoder's recovery is done
  pc,        \* what the running client does next, "Idle" without a run
  todo,      \* tasks of the present loop still to do
  cur,       \* [job, up, tries, why] the client is at, or None
  deferred,  \* a recovery of this run has to be tried again
  faults,    \* faults so far
  staged     \* jobs that had a preview completed (history)

server == <<job, session, skipped, revived>>
local  == <<task, kept, prepared, recorded>>
run    == <<pc, todo, cur, deferred>>
vars   == <<server, local, photo, decoder, run, faults, staged>>

-----------------------------------------------------------------------------
Statuses == {"None", "Preparing", "Queued", "Succeeded", "Failed", "Cancelled",
             "Skipped", "DeferredQuota", "QuotaDue"}
Session == [status: {"None", "Uploading", "Completed", "Cancelled", "Expired"},
            late: BOOLEAN, put: BOOLEAN, done: BOOLEAN]
NoSession == [status |-> "None", late |-> FALSE, put |-> FALSE, done |-> FALSE]

Reasons == {"UnsupportedPhoto", "SourceChanged"}
Plan    == [kind: {"UploadRequired", "LeaseHeld"}, up: Sessions] \cup {[kind |-> "Deferred", up |-> None]}
Task    == [state: {"None", "Pending", "Deferred", "Sent", "Failed", "UnsupportedPhoto", "SourceChanged"},
            due: {"now", "later", "never"}]
Hand    == [job: Jobs, up: Sessions \cup {None}, tries: 0..1, why: Reasons \cup {None}]

Init ==
  /\ job = [j \in Jobs |-> "None"]
  /\ session = [j \in Jobs |-> [u \in Sessions |-> NoSession]]
  /\ skipped = {} /\ revived = {}
  /\ task = [j \in Jobs |-> [state |-> "None", due |-> "never"]]
  /\ kept = [j \in Jobs |-> [n \in 0..1 |-> None]]
  /\ prepared = None /\ recorded = FALSE /\ decoder = 1
  /\ photo \in [Jobs -> Formats]
  /\ pc = "Idle" /\ todo = {} /\ cur = None /\ deferred = FALSE
  /\ faults = 0 /\ staged = {}

\* The rows of the table; a task skipped for a reason has it as its state.
Row(state, due) == [state |-> state, due |-> due]
Set(j, state, due) == task' = [task EXCEPT ![j] = Row(state, due)]
Waiting(j) == task[j].state \in {"Pending", "Deferred"}

\* AttemptCount + 1: the plans of the attempt before are never asked for again.
NextAttempt(j) == kept' = [kept EXCEPT ![j] = [n \in 0..1 |-> None]]

\* The client is done with the task at hand and takes the next.
Done(j) == pc' = "Flush" /\ todo' = todo \ {j} /\ cur' = None
Stop    == pc' = "Idle" /\ todo' = {} /\ cur' = None /\ deferred' = FALSE
Goto(label, hand) == pc' = label /\ cur' = hand /\ UNCHANGED <<todo, deferred>>

\* Attended: a task put off without a time is never due.
DeferBug(j)   == Set(j, "Pending", "never") /\ NextAttempt(j)

Defer(j)      == Set(j, "Pending", "later") /\ NextAttempt(j)
Quarantine(j) == Set(j, "Failed", "never") /\ NextAttempt(j)
MarkSent(j)   == Set(j, "Sent", "later") /\ NextAttempt(j)

Fault == faults < MaxFaults /\ faults' = faults + 1

-----------------------------------------------------------------------------
(* The server.                                                             *)

Uploading(s) == s.status = "Uploading"
Live(j)      == {u \in Sessions : Uploading(session[j][u]) /\ ~session[j][u].late}

\* Sessions no answer names any more make room for new ones.
Named(j) == {kept[j][n].up : n \in {m \in 0..1 : kept[j][m] # None}}
            \cup (IF cur # None /\ cur.job = j THEN {cur.up} ELSE {})
Free(j)  == {u \in Sessions \ Named(j) : ~Uploading(session[j][u])}

Ended(s, status) == [s EXCEPT !.status = status, !.late = FALSE, !.put = FALSE]

\* OneOpenSession: a plan does not end the session that ran out.
ExpiredBug(j) == session[j]

Expired(j) == [u \in Sessions |-> IF Uploading(session[j][u]) /\ session[j][u].late
                                  THEN Ended(session[j][u], "Expired") ELSE session[j][u]]
Withdrawn(j) == [u \in Sessions |-> IF session[j][u].status \in {"Uploading", "Completed"}
                                    THEN Ended(session[j][u], "Cancelled") ELSE session[j][u]]

\* The session a plan may open; without room for one, no plan opens one (bound).
Room(j) == IF Free(j) = {} THEN {} ELSE {CHOOSE u \in Free(j) : TRUE}

\* What create_upload_plan answers for a job it may plan for.
Plans(j) ==
  IF Live(j) # {} THEN {[kind |-> "LeaseHeld", up |-> u] : u \in Live(j)}
  ELSE {[kind |-> "UploadRequired", up |-> u] : u \in Room(j)} \cup {[kind |-> "Deferred", up |-> None]}

CreatePlan(j, plan) ==
  /\ session' = [session EXCEPT ![j] =
       IF plan.kind = "UploadRequired"
       THEN [Expired(j) EXCEPT ![plan.up] = [NoSession EXCEPT !.status = "Uploading"]]
       ELSE Expired(j)]
  /\ job' = [job EXCEPT ![j] = IF plan.kind = "Deferred" THEN "DeferredQuota" ELSE "Preparing"]
  /\ UNCHANGED <<skipped, revived>>

\* complete_upload: answered from the record, carried out, or refused.  The
\* job of an open session is in preparation.
Completes(j, s) ==
  IF s.done THEN "Completed"
  ELSE IF ~Uploading(s) \/ s.late THEN "Refused"
  ELSE IF ~s.put THEN "Missing" ELSE "Completed"

CompleteUpload(j, u) ==
  IF session[j][u].done THEN UNCHANGED <<server, staged>>
  ELSE /\ session' = [session EXCEPT ![j][u].status = "Completed", ![j][u].done = TRUE]
       /\ job' = [job EXCEPT ![j] = "Queued"]
       /\ staged' = staged \cup {j}
       /\ UNCHANGED <<skipped, revived>>

-----------------------------------------------------------------------------
(* A run of enrich: the preparation.                                       *)

StartRun ==
  /\ pc = "Idle" /\ pc' = "Prepare"
  /\ UNCHANGED <<server, local, photo, decoder, todo, cur, deferred, faults, staged>>

\* _prepare_enrichment: the answer on record under the saved key, or a new one.
\* An answer that does not arrive ends the run.
Prepare ==
  LET wanted == {j \in Jobs : job[j] \in {"None", "Preparing"}}
  IN  /\ pc = "Prepare"
      /\ IF prepared # None THEN UNCHANGED <<job, prepared>>
         ELSE /\ prepared' = wanted
              /\ job' = [j \in Jobs |-> IF j \in wanted THEN "Preparing" ELSE job[j]]
      /\ \/ pc' = "Queue" /\ UNCHANGED faults
         \/ pc' = "Idle" /\ Fault
      /\ UNCHANGED <<session, skipped, revived, task, kept, recorded, photo, decoder,
                     todo, cur, deferred, staged>>

\* queue_scene_description_tasks, and then a new key in a transaction of its own.
Queue ==
  /\ pc = "Queue" /\ pc' = "NewKey"
  /\ task' = [j \in Jobs |->
       IF j \in prepared /\ task[j].state \notin {"Pending", "Sent"} THEN Row("Pending", "now")
       ELSE task[j]]
  /\ UNCHANGED <<server, kept, prepared, recorded, photo, decoder, todo, cur, deferred, faults, staged>>

NewKey ==
  /\ pc = "NewKey" /\ pc' = "Check" /\ prepared' = None
  /\ todo' = {j \in Jobs : task[j] = Row("Sent", "now")}
  /\ UNCHANGED <<server, task, kept, recorded, photo, decoder, cur, deferred, faults, staged>>

\* SentWatched: a job that is to be staged again is looked at later, forever.
CheckedBug(j) == IF job[j] \in {"Failed", "Cancelled", "Skipped"} THEN Row("Failed", "never")
                 ELSE IF job[j] = "Succeeded" THEN Row("Sent", "never") ELSE Row("Sent", "later")

\* TasksSound: a job that is to be staged again counts as done.
CheckedDoneBug(j) == IF job[j] \in {"Succeeded", "Preparing"} THEN Row("Sent", "never")
                     ELSE IF job[j] \in {"Failed", "Cancelled", "Skipped"} THEN Row("Failed", "never")
                     ELSE Row("Sent", "later")

Checked(j) == IF job[j] = "Preparing" THEN Row("Pending", "now")
              ELSE IF job[j] \in {"Failed", "Cancelled", "Skipped"} THEN Row("Failed", "never")
              ELSE IF job[j] = "Succeeded" THEN Row("Sent", "never") ELSE Row("Sent", "later")

\* _reconcile_sent_descriptions, one task.
Check(j) ==
  /\ pc = "Check" /\ j \in todo /\ todo' = todo \ {j}
  /\ \/ task' = [task EXCEPT ![j] = Checked(j)] /\ UNCHANGED faults
     \/ Set(j, "Sent", "later") /\ Fault
  /\ UNCHANGED <<server, kept, prepared, recorded, photo, decoder, pc, cur, deferred, staged>>

Due(j) == Waiting(j) /\ task[j].due = "now"

EndCheck ==
  /\ pc = "Check" /\ todo = {}
  /\ IF recorded THEN pc' = "Flush" /\ todo' = {j \in Jobs : Due(j)}
     ELSE pc' = "Recover" /\ todo' = {j \in Jobs : task[j].state = "UnsupportedPhoto"}
  /\ UNCHANGED <<server, local, photo, decoder, cur, deferred, faults, staged>>

Readable(j) == photo[j] = "Plain" \/ (photo[j] = "Modern" /\ decoder = 2)

\* _recover_supported_description_skips, one task: retry_job with a key of this
\* decoder, and the task is due again if the job is in preparation.
Recover(j) ==
  LET retried == j \in revived \/ job[j] \in {"Skipped", "Failed", "DeferredQuota", "QuotaDue"}
  IN  /\ pc = "Recover" /\ j \in todo /\ todo' = todo \ {j}
      /\ IF Readable(j) /\ retried
         THEN \/ /\ job' = [job EXCEPT ![j] = IF j \in revived THEN @ ELSE "Preparing"]
                 /\ revived' = revived \cup {j}
                 /\ \/ Set(j, "Pending", "now") /\ UNCHANGED <<deferred, faults>>
                    \/ deferred' = TRUE /\ Fault /\ UNCHANGED task
              \/ deferred' = TRUE /\ Fault /\ UNCHANGED <<job, revived, task>>
         ELSE deferred' = (deferred \/ Readable(j)) /\ UNCHANGED <<job, revived, task, faults>>
      /\ UNCHANGED <<session, skipped, kept, prepared, recorded, photo, decoder, pc, cur, staged>>

EndRecover ==
  /\ pc = "Recover" /\ todo = {}
  /\ recorded' = ~deferred /\ deferred' = FALSE
  /\ pc' = "Flush" /\ todo' = {j \in Jobs : Due(j)}
  /\ UNCHANGED <<server, task, kept, prepared, photo, decoder, cur, faults, staged>>

-----------------------------------------------------------------------------
(* A run of enrich: staging the tasks that are due.                        *)

Begin(j, label, why) ==
  Goto(label, [job |-> j, up |-> None, tries |-> 0, why |-> why]) /\ UNCHANGED <<task, kept>>

\* _flush_description_outbox takes a task and reads its photo.  A photo that
\* is there but whose read fails is taken for one of an unknown format.
Take(j) ==
  /\ pc = "Flush" /\ j \in todo
  /\ \/ photo[j] = "Gone" /\ Defer(j) /\ Done(j) /\ UNCHANGED <<deferred, faults>>
     \/ photo[j] = "Changed" /\ Begin(j, "Skip", "SourceChanged") /\ UNCHANGED faults
     \/ photo[j] = "Modern" /\ decoder = 1 /\ Begin(j, "Skip", "UnsupportedPhoto") /\ UNCHANGED faults
     \/ Readable(j) /\ Begin(j, "Plan", None) /\ UNCHANGED faults
     \/ Readable(j) /\ Begin(j, "Skip", "UnsupportedPhoto") /\ Fault
  /\ UNCHANGED <<server, prepared, recorded, photo, decoder, staged>>

EndFlush ==
  /\ pc = "Flush" /\ todo = {} /\ pc' = "Idle"
  /\ UNCHANGED <<server, local, photo, decoder, todo, cur, deferred, faults, staged>>

At(label, j) == pc = label /\ cur.job = j

\* A request or its answer is lost: the task waits, and the run with it.
Unreachable(j) == Fault /\ Defer(j) /\ Stop

\* _skip_description: the job is cancelled, and then the task skipped.
Skip(j) ==
  LET asked   == <<j, cur.why>> \in skipped
      refused == ~asked /\ job[j] = "Succeeded"
      stops   == ~asked /\ job[j] \notin {"Succeeded", "Cancelled", "Skipped"}
  IN  /\ At("Skip", j)
      /\ \/ /\ skipped' = IF refused THEN skipped ELSE skipped \cup {<<j, cur.why>>}
            /\ job' = [job EXCEPT ![j] = IF stops THEN "Skipped" ELSE @]
            /\ session' = [session EXCEPT ![j] = IF stops THEN Withdrawn(j) ELSE @]
            /\ \/ ~refused /\ Set(j, cur.why, "never") /\ UNCHANGED <<kept, faults>>
               \/ refused /\ Defer(j) /\ UNCHANGED faults
               \/ Fault /\ Defer(j)
         \/ UNCHANGED <<skipped, job, session>> /\ Fault /\ Defer(j)
      /\ Done(j)
      /\ UNCHANGED <<revived, prepared, recorded, photo, decoder, deferred, staged>>

\* create_upload_plan with the key of the attempt and of the replacement.
RequestPlan(j) ==
  LET n == cur.tries
  IN  /\ At("Plan", j)
      /\ \/ /\ kept[j][n] # None
            /\ UNCHANGED <<server, kept>>
            /\ Goto("Planned", cur)
            /\ UNCHANGED <<task, faults>>
         \/ /\ kept[j][n] = None /\ job[j] \in {"Preparing", "QuotaDue"}
            /\ \E plan \in Plans(j) :
                 /\ CreatePlan(j, plan)
                 /\ \/ kept' = [kept EXCEPT ![j][n] = plan] /\ Goto("Planned", cur) /\ UNCHANGED <<task, faults>>
                    \/ Unreachable(j)
         \/ /\ kept[j][n] = None /\ job[j] \notin {"Preparing", "QuotaDue"}
            /\ Goto("Status", cur)
            /\ UNCHANGED <<server, task, kept, faults>>
         \/ Unreachable(j) /\ UNCHANGED server
      /\ UNCHANGED <<prepared, recorded, photo, decoder, staged>>

\* defer_all_descriptions_for_quota: one answer for every task that is due.
QuotaDeferred(j) ==
  /\ task' = [k \in Jobs |-> IF Due(k) THEN Row("Deferred", "later") ELSE task[k]]
  /\ NextAttempt(j) /\ Stop

\* What the client does about the plan.
Planned(j) ==
  LET plan == kept[j][cur.tries]
  IN  /\ At("Planned", j)
      /\ \/ plan.kind = "Deferred" /\ QuotaDeferred(j) /\ UNCHANGED faults
         \/ plan.kind = "LeaseHeld" /\ Goto("Session", [cur EXCEPT !.up = plan.up])
            /\ UNCHANGED <<task, kept, faults>>
         \/ plan.kind = "UploadRequired" /\ Goto("Put", [cur EXCEPT !.up = plan.up])
            /\ UNCHANGED <<task, kept, faults>>
         \/ plan.kind = "UploadRequired" /\ Defer(j) /\ Done(j) /\ UNCHANGED deferred
            /\ Fault  \* its URL has run out
      /\ UNCHANGED <<server, prepared, recorded, photo, decoder, staged>>

\* A second plan once the lease is gone, and no third.
Replan(j) ==
  IF cur.tries = 0
  THEN Goto("Plan", [cur EXCEPT !.tries = 1, !.up = None]) /\ UNCHANGED <<task, kept>>
  ELSE Defer(j) /\ Done(j) /\ UNCHANGED deferred

\* get_upload_session, which expires a session that has run out.
GetSession(j) ==
  LET s == IF Uploading(session[j][cur.up]) /\ session[j][cur.up].late
           THEN Ended(session[j][cur.up], "Expired") ELSE session[j][cur.up]
  IN  /\ At("Session", j)
      /\ session' = [session EXCEPT ![j][cur.up] = s]
      /\ \/ s.status = "Completed" /\ MarkSent(j) /\ Done(j) /\ UNCHANGED <<deferred, faults>>
         \/ s.status = "Uploading" /\ Goto("CompleteHeld", cur) /\ UNCHANGED <<task, kept, faults>>
         \/ s.status \in {"Cancelled", "Expired"} /\ Replan(j) /\ UNCHANGED faults
         \/ Unreachable(j)
      /\ UNCHANGED <<job, skipped, revived, prepared, recorded, photo, decoder, staged>>

\* put_signed_upload; the store keeps what arrives while the session is open.
Put(j) ==
  LET up == cur.up
  IN  /\ At("Put", j)
      /\ \/ /\ session' = [session EXCEPT ![j][up].put = @ \/ Uploading(session[j][up])]
            /\ \/ Goto("Complete", cur) /\ UNCHANGED faults
               \/ Goto("CancelPut", cur) /\ Fault
         \/ UNCHANGED session /\ Goto("CancelPut", cur) /\ Fault
      /\ UNCHANGED <<job, skipped, revived, local, photo, decoder, staged>>

\* complete_upload of the preview just put, or of the one an earlier run put.
Complete(j) ==
  LET up == cur.up
      outcome == Completes(j, session[j][up])
  IN  /\ At("Complete", j) \/ At("CompleteHeld", j)
      /\ \/ /\ outcome = "Completed" /\ CompleteUpload(j, up)
            /\ \/ Goto("Mark", cur) /\ UNCHANGED <<task, kept, faults>>
               \/ Unreachable(j)
         \/ /\ outcome # "Completed" /\ UNCHANGED <<server, staged>>
            /\ \/ /\ outcome = "Missing" /\ pc = "CompleteHeld"
                  /\ Goto("CancelHeld", cur) /\ UNCHANGED <<task, kept, faults>>
               \/ /\ outcome = "Refused" \/ (outcome = "Missing" /\ pc = "Complete")
                  /\ Quarantine(j) /\ Done(j) /\ UNCHANGED <<deferred, faults>>
         \/ Unreachable(j) /\ UNCHANGED <<server, staged>>
      /\ UNCHANGED <<prepared, recorded, photo, decoder>>

Mark(j) ==
  /\ At("Mark", j)
  /\ MarkSent(j) /\ Done(j)
  /\ UNCHANGED <<server, prepared, recorded, photo, decoder, deferred, faults, staged>>

\* cancel_upload of a session without its object, or after a put that failed.
CancelUpload(j) ==
  LET s       == session[j][cur.up]
      refused == s.status = "Completed" \/ (s.status # "Cancelled" /\ job[j] # "Preparing")
      cancels == ~refused /\ s.status # "Cancelled"
      gone    == IF cancels THEN [session EXCEPT ![j][cur.up] = Ended(s, "Cancelled")] ELSE session
  IN  /\ At("CancelHeld", j) \/ At("CancelPut", j)
      /\ \/ /\ session' = gone
            /\ \/ ~refused /\ pc = "CancelHeld" /\ Replan(j) /\ UNCHANGED faults
               \/ ~refused /\ pc = "CancelPut" /\ Defer(j) /\ Done(j) /\ UNCHANGED <<deferred, faults>>
               \/ refused /\ pc = "CancelHeld" /\ MarkSent(j) /\ Done(j) /\ UNCHANGED <<deferred, faults>>
               \/ refused /\ pc = "CancelPut" /\ Defer(j) /\ Stop /\ UNCHANGED faults
               \/ Unreachable(j)
         \/ UNCHANGED session /\ Unreachable(j)
      /\ UNCHANGED <<job, skipped, revived, prepared, recorded, photo, decoder, staged>>

\* SentWasStaged: what the quota puts off counts as sent.
UnderWayBug(j) == job[j] \in {"Queued", "Succeeded", "DeferredQuota"}

UnderWay(j) == job[j] \in {"Queued", "Succeeded"}

\* _reconcile_not_preparing.
Status(j) ==
  /\ At("Status", j)
  /\ \/ UnderWay(j) /\ MarkSent(j) /\ UNCHANGED faults
     \/ job[j] \in {"Failed", "Cancelled", "Skipped"} /\ Quarantine(j) /\ UNCHANGED faults
     \/ job[j] \in {"DeferredQuota", "QuotaDue", "Preparing"} /\ Defer(j) /\ UNCHANGED faults
     \/ Fault /\ Defer(j)
  /\ Done(j)
  /\ UNCHANGED <<server, prepared, recorded, photo, decoder, deferred, staged>>

-----------------------------------------------------------------------------
(* The user, the clock, the other clients and the server's worker.         *)

\* The run is killed.
Kill ==
  /\ pc # "Idle" /\ Fault /\ Stop
  /\ UNCHANGED <<server, local, photo, decoder, staged>>

\* outbox retry-description, and the retry of what waits for the quota.
RetryTask(j) ==
  /\ task[j].state \notin {"None", "Sent"} /\ task[j] # Row("Pending", "now")
  /\ Set(j, "Pending", "now")
  /\ UNCHANGED <<server, kept, prepared, recorded, photo, decoder, run, faults, staged>>

\* The next attempt or check of a task is due.
TimePasses(j) ==
  /\ task[j].due = "later" /\ task' = [task EXCEPT ![j].due = "now"]
  /\ UNCHANGED <<server, kept, prepared, recorded, photo, decoder, run, faults, staged>>

\* The user edits or removes the photo.
EditPhoto(j) ==
  /\ photo[j] \in {"Plain", "Modern"}
  /\ \E p \in {"Changed", "Gone"} : photo' = [photo EXCEPT ![j] = p]
  /\ UNCHANGED <<server, local, decoder, run, faults, staged>>

\* A release of the client that reads more formats.
Upgrade ==
  /\ pc = "Idle" /\ decoder = 1 /\ decoder' = 2
  /\ recorded' = FALSE /\ revived' = {}
  /\ UNCHANGED <<job, session, skipped, task, kept, prepared, photo, run, faults, staged>>

\* process_job of the description worker, in one step.
Work(j) ==
  /\ job[j] = "Queued"
  /\ \E status \in {"Succeeded", "Failed", "DeferredQuota"} : job' = [job EXCEPT ![j] = status]
  /\ UNCHANGED <<session, skipped, revived, local, photo, decoder, run, faults, staged>>

\* retry_job by the user, also on another device, or after the circuit closed.
RetryJob(j) ==
  /\ job[j] \in {"Failed", "Skipped", "DeferredQuota", "QuotaDue"}
  /\ job' = [job EXCEPT ![j] = "Preparing"]
  /\ UNCHANGED <<session, skipped, revived, local, photo, decoder, run, faults, staged>>

\* The photo leaves the catalogue.
Withdraw(j) ==
  /\ job[j] \notin {"None", "Succeeded", "Cancelled", "Skipped"}
  /\ job' = [job EXCEPT ![j] = "Cancelled"]
  /\ session' = [session EXCEPT ![j] = Withdrawn(j)]
  /\ UNCHANGED <<skipped, revived, local, photo, decoder, run, faults, staged>>

\* A client on another device that has the same photo and so the same job.
OtherClient(j) ==
  /\ Fault
  /\ \/ /\ job[j] \in {"Preparing", "QuotaDue"} /\ Live(j) = {}
        /\ \E plan \in Plans(j) : CreatePlan(j, plan)
        /\ UNCHANGED staged
     \/ \E u \in Live(j) : CompleteUpload(j, u)
     \/ /\ \E u \in Live(j) : session' = [session EXCEPT ![j][u] = Ended(@, "Cancelled")]
        /\ UNCHANGED <<job, skipped, revived, staged>>
  /\ UNCHANGED <<local, photo, decoder, run>>

\* A session runs out; the month ends.
SessionLate(j, u) ==
  /\ Uploading(session[j][u]) /\ ~session[j][u].late
  /\ session' = [session EXCEPT ![j][u].late = TRUE]
  /\ UNCHANGED <<job, skipped, revived, local, photo, decoder, run, faults, staged>>

QuotaReturns(j) ==
  /\ job[j] = "DeferredQuota" /\ job' = [job EXCEPT ![j] = "QuotaDue"]
  /\ UNCHANGED <<session, skipped, revived, local, photo, decoder, run, faults, staged>>

-----------------------------------------------------------------------------
Local(j) == \/ Check(j) \/ Recover(j) \/ Take(j) \/ Skip(j) \/ RequestPlan(j) \/ Planned(j)
            \/ GetSession(j) \/ Put(j) \/ Complete(j) \/ Mark(j) \/ CancelUpload(j) \/ Status(j)
Client == \/ StartRun \/ Prepare \/ Queue \/ NewKey \/ EndCheck \/ EndRecover \/ EndFlush
          \/ \E j \in Jobs : Local(j)

Next ==
  \/ Client \/ Kill \/ Upgrade
  \/ \E j \in Jobs : \/ RetryTask(j) \/ TimePasses(j) \/ EditPhoto(j) \/ Work(j) \/ RetryJob(j)
                     \/ Withdraw(j) \/ OtherClient(j) \/ QuotaReturns(j)
                     \/ \E u \in Sessions : SessionLate(j, u)

Spec == Init /\ [][Next]_vars

\* The client is run again, a run goes on until it ends or is killed, and
\* what is put off comes due.
FairSpec == /\ Spec /\ WF_vars(Client)
            /\ \A j \in Jobs : WF_vars(TimePasses(j)) /\ WF_vars(QuotaReturns(j))

-----------------------------------------------------------------------------
TypeOK ==
  /\ job \in [Jobs -> Statuses]
  /\ session \in [Jobs -> [Sessions -> Session]]
  /\ skipped \subseteq Jobs \X Reasons /\ revived \subseteq Jobs
  /\ task \in [Jobs -> Task]
  /\ kept \in [Jobs -> [0..1 -> Plan \cup {None}]]
  /\ prepared \in (SUBSET Jobs) \cup {None}
  /\ photo \in [Jobs -> {"Plain", "Modern", "Changed", "Gone"}] /\ decoder \in 1..2
  /\ recorded \in BOOLEAN /\ deferred \in BOOLEAN
  /\ pc \in {"Idle", "Prepare", "Queue", "NewKey", "Check", "Recover", "Flush", "Skip", "Plan", "Planned",
             "Session", "Put", "Complete", "CompleteHeld", "Mark", "CancelHeld", "CancelPut", "Status"}
  /\ todo \subseteq Jobs /\ cur \in Hand \cup {None}
  /\ faults \in 0..MaxFaults /\ staged \subseteq Jobs

\* A task becomes sent only when the server has taken a preview of it,
\* whatever requests were lost, repeated or refused on the way, and whatever
\* another device does about the same photo.  The exception is a lease that
\* ran out while the client held it: cancel_upload answers that the job is
\* queued when it was withdrawn or put off by the quota meanwhile.
SentWasStaged == [][\A j \in Jobs :
  task'[j].state = "Sent" /\ task[j].state # "Sent" =>
    j \in staged \/ (pc = "CancelHeld" /\ session[j][cur.up].status = "Expired")]_vars

\* The client stops asking after a sent task only when the photo has its
\* description.
ConfirmedIsDone == \A j \in Jobs : task[j] = Row("Sent", "never") => job[j] = "Succeeded"

\* Tasks are well formed, and those that ended are done (confirm_description_complete).
TasksSound == TypeOK /\ ConfirmedIsDone

\* A job has one open upload session at a time, in spite of plans asked for
\* twice and of sessions whose run has died.
OneOpenSession == \A j \in Jobs : \A u, v \in Sessions :
  Uploading(session[j][u]) /\ Uploading(session[j][v]) => u = v

\* A pending task whose photo the client can read does not wait for ever: it
\* is sent, put in front of the user or left to the quota.
Attended == \A j \in Jobs : task[j].state = "Pending" ~> task[j].state # "Pending" \/ ~Readable(j)

\* The outbox does not go on showing as sent what the server wants staged
\* again or has given up.
Unwell(j) == task[j].state = "Sent" /\ job[j] \in {"Preparing", "Failed", "Cancelled"}
SentWatched == \A j \in Jobs : Unwell(j) ~> ~Unwell(j)

\* Does not hold: when the job has succeeded, from a preview this client or
\* another device staged, cancel_job refuses the skip of a photo that was
\* edited or cannot be read, and the task is tried again for ever.
AllAttended == \A j \in Jobs : task[j].state = "Pending" ~> task[j].state # "Pending" \/ photo[j] = "Gone"

\* Does not hold: a skip of a job retried since is answered from the record
\* of the first one, and the task is skipped while the job waits for it.
SkippedIsStopped == [][\A j \in Jobs :
  task'[j].state \in Reasons /\ task[j].state \notin Reasons => job'[j] \in {"Skipped", "Cancelled"}]_vars
=============================================================================
