--------------------------- MODULE SceneOutboxProofs ---------------------------
(***************************************************************************)
(* Safety of SceneOutbox, for any number of jobs, sessions and faults:     *)
(* tasks are sound, a job has one open session, and a task becomes sent    *)
(* only when the server has taken a preview of its photo.                  *)
(*                                                                         *)
(* The server's half of the invariant is kept by every request, whichever  *)
(* client makes it; the client's half relates what a run holds in its hand *)
(* to the server, and needs of a step of the server only that it does not  *)
(* undo what the client has seen (Onwards).                                *)
(***************************************************************************)
EXTENDS SceneOutbox, TLAPS

-----------------------------------------------------------------------------
(* The inductive invariant.                                                *)

HandLabels == {"Skip", "Plan", "Planned", "Session", "Put", "Complete", "CompleteHeld", "Mark",
               "CancelHeld", "CancelPut", "Status"}
UpLabels   == {"Session", "Put", "Complete", "CompleteHeld", "Mark", "CancelHeld", "CancelPut"}
Labels     == {"Idle", "Prepare", "Queue", "NewKey", "Check", "Recover", "Flush"} \cup HandLabels

ServerOK == /\ job \in [Jobs -> Statuses]
            /\ session \in [Jobs -> [Sessions -> Session]]
            /\ staged \subseteq Jobs

\* Open sessions belong to jobs in preparation.
OpenIsPreparing == \A j \in Jobs : \A u \in Sessions :
  session[j][u].status = "Uploading" => job[j] = "Preparing"

OneOpen == \A j \in Jobs : \A u, v \in Sessions :
  session[j][u].status = "Uploading" /\ session[j][v].status = "Uploading" => u = v

\* What the server treats as staged was staged.
StagedKnown == \A j \in Jobs :
  /\ job[j] \in {"Queued", "Succeeded"} => j \in staged
  /\ \A u \in Sessions : session[j][u].status = "Completed" \/ session[j][u].done => j \in staged

ServerInv == ServerOK /\ OpenIsPreparing /\ OneOpen /\ StagedKnown

\* What a step of the server leaves true.
Onwards ==
  /\ staged \subseteq staged'
  /\ \A j \in Jobs : job[j] = "Succeeded" => job'[j] = "Succeeded"
  /\ \A j \in Jobs : \A u \in Sessions : session[j][u].status # "None" => session'[j][u].status # "None"

LocalOK == /\ skipped \subseteq Jobs \X Reasons /\ revived \subseteq Jobs
           /\ task \in [Jobs -> Task]
           /\ kept \in [Jobs -> [0..1 -> Plan \cup {None}]]
           /\ prepared \in (SUBSET Jobs) \cup {None}
           /\ photo \in [Jobs -> {"Plain", "Modern", "Changed", "Gone"}] /\ decoder \in 1..2
           /\ recorded \in BOOLEAN /\ deferred \in BOOLEAN
           /\ faults \in 0..MaxFaults

RunOK == pc \in Labels /\ todo \subseteq Jobs /\ cur \in Hand \cup {None}

Known(j, u) == u \in Sessions /\ session[j][u].status # "None"
StillKnown(j, u) == u \in Sessions /\ session'[j][u].status # "None"

\* What the client has in hand where it is about to use it.
HandSound ==
  /\ pc \in HandLabels => cur \in Hand
  /\ pc = "Skip" => cur.why \in Reasons
  /\ pc = "Planned" =>
       LET plan == kept[cur.job][cur.tries]
       IN  plan \in Plan /\ (plan.kind # "Deferred" => Known(cur.job, plan.up))
  /\ pc \in UpLabels => Known(cur.job, cur.up)
  /\ pc = "Mark" => cur.job \in staged

\* A plan on record names a session the server opened.
PlansNamed == \A j \in Jobs : \A n \in 0..1 :
  kept[j][n] # None /\ kept[j][n].kind # "Deferred" => Known(j, kept[j][n].up)

CheckSent == pc = "Check" => \A j \in todo : task[j].state = "Sent"

ClientInv == LocalOK /\ RunOK /\ HandSound /\ PlansNamed /\ CheckSent /\ ConfirmedIsDone

Inv == ServerInv /\ ClientInv

\* What SentWasStaged says of one step.
SentStep == \A j \in Jobs :
  task'[j].state = "Sent" /\ task[j].state # "Sent" =>
    j \in staged \/ (pc = "CancelHeld" /\ session[j][cur.up].status = "Expired")

-----------------------------------------------------------------------------
(* The records.                                                            *)

SessionStatuses == {"None", "Uploading", "Completed", "Cancelled", "Expired"}

LEMMA SessionIs ==
  ASSUME NEW s \in Session
  PROVE  /\ s.status \in SessionStatuses /\ s.late \in BOOLEAN /\ s.put \in BOOLEAN /\ s.done \in BOOLEAN
BY DEF Session, SessionStatuses

LEMMA EndedIs ==
  ASSUME NEW s \in Session, NEW st \in {"Cancelled", "Expired"}
  PROVE  Ended(s, st) \in Session /\ Ended(s, st).status = st /\ Ended(s, st).done = s.done
BY DEF Session, Ended

LEMMA OpenedIs ==
  LET s == [NoSession EXCEPT !.status = "Uploading"]
  IN  s \in Session /\ s.status = "Uploading" /\ s.done = FALSE
BY DEF Session, NoSession

LEMMA LateIs ==
  ASSUME NEW s \in Session
  PROVE  LET l == [s EXCEPT !.late = TRUE] IN l \in Session /\ l.status = s.status /\ l.done = s.done
BY DEF Session

LEMMA RowIs ==
  ASSUME NEW st \in {"None", "Pending", "Deferred", "Sent", "Failed", "UnsupportedPhoto", "SourceChanged"},
         NEW due \in {"now", "later", "never"}
  PROVE  Row(st, due) \in Task /\ Row(st, due).state = st /\ Row(st, due).due = due
BY DEF Row, Task

LEMMA HandIs ==
  ASSUME NEW c \in Hand
  PROVE  c.job \in Jobs /\ c.tries \in 0..1 /\ c.up \in Sessions \cup {None} /\ c.why \in Reasons \cup {None}
BY DEF Hand

LEMMA PlanIs ==
  ASSUME NEW p \in Plan
  PROVE  /\ p.kind \in {"UploadRequired", "LeaseHeld", "Deferred"}
         /\ p.kind # "Deferred" => p.up \in Sessions
BY DEF Plan

-----------------------------------------------------------------------------
(* Steps of the server.                                                    *)

\* One session changes.
LEMMA OneSession ==
  ASSUME ServerInv, NEW j \in Jobs, NEW u \in Sessions, NEW s \in Session,
         session' = [session EXCEPT ![j] = [@ EXCEPT ![u] = s]],
         job' \in [Jobs -> Statuses], staged' \subseteq Jobs, staged \subseteq staged',
         \A k \in Jobs : k # j => job'[k] = job[k],
         session[j][u].status # "None" => s.status # "None",
         s.status = "Uploading" => session[j][u].status = "Uploading" /\ job'[j] = "Preparing",
         job'[j] = "Preparing" \/ \A v \in Sessions : v # u => session[j][v].status # "Uploading",
         job'[j] \in {"Queued", "Succeeded"} => j \in staged',
         s.status = "Completed" \/ s.done => j \in staged',
         job[j] = "Succeeded" => job'[j] = "Succeeded"
  PROVE  ServerInv' /\ Onwards
<1>1. session' \in [Jobs -> [Sessions -> Session]]
  BY DEF ServerInv, ServerOK
<1>2. \A k \in Jobs : \A v \in Sessions :
        session'[k][v] = IF k = j /\ v = u THEN s ELSE session[k][v]
  BY DEF ServerInv, ServerOK
<1>3. OpenIsPreparing'
  BY <1>2 DEF ServerInv, ServerOK, OpenIsPreparing
<1>4. OneOpen'
  BY <1>2 DEF ServerInv, OneOpen
<1>5. StagedKnown'
  BY <1>2 DEF ServerInv, ServerOK, StagedKnown
<1>6. Onwards
  BY <1>2 DEF ServerInv, ServerOK, Onwards
<1> QED BY <1>1, <1>3, <1>4, <1>5, <1>6 DEF ServerInv, ServerOK

\* Only jobs change.
LEMMA OnlyJobs ==
  ASSUME ServerInv, job' \in [Jobs -> Statuses], UNCHANGED <<session, staged>>,
         \A j \in Jobs : job[j] = "Preparing" => job'[j] = "Preparing",
         \A j \in Jobs : job[j] = "Succeeded" => job'[j] = "Succeeded",
         \A j \in Jobs : job'[j] \in {"Queued", "Succeeded"} => job[j] \in {"Queued", "Succeeded"}
  PROVE  ServerInv' /\ Onwards
<1>1. OpenIsPreparing' /\ OneOpen'
  BY DEF ServerInv, OpenIsPreparing, OneOpen
<1>2. StagedKnown'
  BY DEF ServerInv, StagedKnown
<1> QED BY <1>1, <1>2 DEF ServerInv, ServerOK, Onwards

\* The whole preparation of a job is withdrawn.
LEMMA WithdrawnStep ==
  ASSUME ServerInv, NEW j \in Jobs, NEW status \in {"Skipped", "Cancelled"}, job[j] # "Succeeded",
         job' = [job EXCEPT ![j] = status], session' = [session EXCEPT ![j] = Withdrawn(j)],
         UNCHANGED staged
  PROVE  ServerInv' /\ Onwards
<1>1. \A u \in Sessions :
        /\ Withdrawn(j)[u] \in Session
        /\ Withdrawn(j)[u].status \notin {"Uploading", "Completed"}
        /\ Withdrawn(j)[u].done = session[j][u].done
        /\ session[j][u].status # "None" => Withdrawn(j)[u].status # "None"
  BY EndedIs DEF Withdrawn, ServerInv, ServerOK
<1>2. Withdrawn(j) \in [Sessions -> Session]
  BY <1>1 DEF Withdrawn
<1>3. ServerOK'
  BY <1>2 DEF ServerInv, ServerOK, Statuses
<1>4. /\ \A k \in Jobs : job'[k] = IF k = j THEN status ELSE job[k]
      /\ \A k \in Jobs : session'[k] = IF k = j THEN Withdrawn(j) ELSE session[k]
  BY DEF ServerInv, ServerOK
<1>5. OpenIsPreparing' /\ OneOpen'
  BY <1>1, <1>4 DEF ServerInv, OpenIsPreparing, OneOpen
<1>6. StagedKnown'
  BY <1>1, <1>4 DEF ServerInv, StagedKnown
<1>7. Onwards
  BY <1>1, <1>4 DEF Onwards
<1> QED BY <1>3, <1>5, <1>6, <1>7 DEF ServerInv

LEMMA RoomIs == ASSUME NEW j PROVE Room(j) \subseteq Sessions
BY DEF Room, Free

\* create_upload_plan.
LEMMA PlanStep ==
  ASSUME ServerInv, NEW j \in Jobs, job[j] \in {"Preparing", "QuotaDue"}, NEW plan \in Plans(j),
         CreatePlan(j, plan), UNCHANGED staged
  PROVE  /\ ServerInv' /\ Onwards
         /\ plan \in Plan /\ (plan.kind # "Deferred" => StillKnown(j, plan.up))
         /\ UNCHANGED <<skipped, revived>>
PROOF
<1> DEFINE opened == [NoSession EXCEPT !.status = "Uploading"]
<1>0. session[j] \in [Sessions -> Session]
  BY DEF ServerInv, ServerOK
<1>1. \A u \in Sessions :
        /\ Expired(j)[u] \in Session
        /\ Expired(j)[u].status = "Uploading" => u \in Live(j) /\ session[j][u].status = "Uploading"
        /\ Expired(j)[u].status = "Completed" => session[j][u].status = "Completed"
        /\ Expired(j)[u].done = session[j][u].done
        /\ session[j][u].status # "None" => Expired(j)[u].status # "None"
        /\ u \in Live(j) => Expired(j)[u] = session[j][u]
  BY <1>0, EndedIs DEF Expired, Live, Uploading
<1>2. Expired(j) \in [Sessions -> Session]
  BY <1>1 DEF Expired
<1>3. plan \in Plan
  BY RoomIs DEF Plans, Live, Plan
<1>4. /\ plan.kind = "UploadRequired" => plan.up \in Sessions /\ Live(j) = {}
      /\ plan.kind = "LeaseHeld" => plan.up \in Live(j)
      /\ plan.kind = "Deferred" => Live(j) = {}
  BY RoomIs DEF Plans
<1>5. opened \in Session /\ opened.status = "Uploading" /\ opened.done = FALSE
  BY OpenedIs
<1> DEFINE new == IF plan.kind = "UploadRequired" THEN [Expired(j) EXCEPT ![plan.up] = opened] ELSE Expired(j)
           status == IF plan.kind = "Deferred" THEN "DeferredQuota" ELSE "Preparing"
<1>6. new \in [Sessions -> Session]
  BY <1>2, <1>4, <1>5
<1>7. \A u \in Sessions : new[u] = IF plan.kind = "UploadRequired" /\ u = plan.up THEN opened ELSE Expired(j)[u]
  BY <1>2, <1>4
<1>8. session' = [session EXCEPT ![j] = new] /\ job' = [job EXCEPT ![j] = status] /\ UNCHANGED <<skipped, revived>>
  BY DEF CreatePlan
<1>9. status \in Statuses /\ (plan.kind # "Deferred" => status = "Preparing") /\ status \notin {"Queued", "Succeeded"}
  BY DEF Statuses
<1> HIDE DEF opened, new, status
<1>10. /\ \A k \in Jobs : job'[k] = IF k = j THEN status ELSE job[k]
       /\ \A k \in Jobs : session'[k] = IF k = j THEN new ELSE session[k]
  BY <1>8 DEF ServerInv, ServerOK
<1>11. ServerOK'
  BY <1>6, <1>8, <1>9 DEF ServerInv, ServerOK
<1>12. \A u \in Sessions :
         /\ new[u].status = "Uploading" => plan.kind # "Deferred"
         /\ new[u].status = "Completed" \/ new[u].done => session[j][u].status = "Completed" \/ session[j][u].done
         /\ session[j][u].status # "None" => new[u].status # "None"
  BY <1>1, <1>3, <1>4, <1>5, <1>7, PlanIs
<1>13. \A u, v \in Sessions : new[u].status = "Uploading" /\ new[v].status = "Uploading" => u = v
  <2>1. CASE plan.kind = "UploadRequired"
    BY <1>1, <1>4, <1>7, <2>1
  <2>2. CASE plan.kind # "UploadRequired"
    <3>1. \A u \in Sessions : new[u] = Expired(j)[u]
      BY <1>7, <2>2
    <3> QED BY <1>1, <3>1 DEF ServerInv, OneOpen
  <2> QED BY <2>1, <2>2
<1>14. OpenIsPreparing'
  BY <1>9, <1>10, <1>12 DEF ServerInv, OpenIsPreparing
<1>15. OneOpen'
  BY <1>10, <1>13 DEF ServerInv, OneOpen
<1>16. StagedKnown'
  BY <1>9, <1>10, <1>12 DEF ServerInv, StagedKnown
<1>17. Onwards
  BY <1>10, <1>12 DEF Onwards
<1>18. plan.kind # "Deferred" => StillKnown(j, plan.up)
  <2>1. plan.kind = "LeaseHeld" => plan.up \in Sessions /\ new[plan.up].status = "Uploading"
    BY <1>1, <1>4, <1>7 DEF Live, Uploading
  <2> QED BY <1>3, <1>4, <1>5, <1>7, <1>10, <2>1, PlanIs DEF Known, StillKnown
<1> QED BY <1>3, <1>8, <1>11, <1>14, <1>15, <1>16, <1>17, <1>18 DEF ServerInv

\* complete_upload.
LEMMA CompleteStep ==
  ASSUME ServerInv, NEW j \in Jobs, NEW u \in Sessions,
         session[j][u].done \/ Uploading(session[j][u]), CompleteUpload(j, u)
  PROVE  ServerInv' /\ Onwards /\ j \in staged' /\ UNCHANGED <<skipped, revived>>
<1>1. CASE session[j][u].done
  BY <1>1 DEF CompleteUpload, server, ServerInv, ServerOK, OpenIsPreparing, OneOpen, StagedKnown, Onwards
<1>2. CASE ~session[j][u].done
  <2> DEFINE s == [session[j][u] EXCEPT !.status = "Completed", !.done = TRUE]
  <2>1. session[j][u] \in Session /\ session[j][u].status = "Uploading"
    BY <1>2 DEF Uploading, ServerInv, ServerOK
  <2>2. s \in Session /\ s.status = "Completed"
    BY <2>1 DEF Session
  <2>3. /\ session' = [session EXCEPT ![j] = [@ EXCEPT ![u] = s]]
        /\ job' = [job EXCEPT ![j] = "Queued"] /\ staged' = staged \cup {j} /\ UNCHANGED <<skipped, revived>>
    BY <1>2 DEF CompleteUpload, ServerInv, ServerOK
  <2>4. \A v \in Sessions : v # u => session[j][v].status # "Uploading"
    BY <2>1 DEF ServerInv, OneOpen
  <2>5. job[j] = "Preparing"
    BY <2>1 DEF ServerInv, OpenIsPreparing
  <2>6. job' \in [Jobs -> Statuses] /\ job'[j] = "Queued" /\ \A k \in Jobs : k # j => job'[k] = job[k]
    BY <2>3 DEF ServerInv, ServerOK, Statuses
  <2>7. staged' \subseteq Jobs
    BY <2>3 DEF ServerInv, ServerOK
  <2> HIDE DEF s
  <2> QED BY <2>2, <2>3, <2>4, <2>5, <2>6, <2>7, OneSession
<1> QED BY <1>1, <1>2

-----------------------------------------------------------------------------
(* What a step of the client does to its tables and to the run.            *)

Sets(j, st, due) ==
  /\ Set(j, st, due)
  /\ st \in {"None", "Pending", "Deferred", "Sent", "Failed", "UnsupportedPhoto", "SourceChanged"}
  /\ due \in {"now", "later", "never"}

LEMMA FaultIs == ASSUME faults \in 0..MaxFaults, Fault \/ UNCHANGED faults
                 PROVE  faults' \in 0..MaxFaults
BY BoundsAssumption DEF Fault

\* A task takes a new row.
LEMMA TaskSet ==
  ASSUME LocalOK, ConfirmedIsDone, Onwards, NEW j \in Jobs, NEW st, NEW due, Sets(j, st, due),
         st = "Sent" => due # "never"
  PROVE  /\ task' \in [Jobs -> Task] /\ ConfirmedIsDone'
         /\ \A k \in Jobs : k # j => task'[k] = task[k]
         /\ task'[j].state = st
<1>1. Row(st, due) \in Task /\ Row(st, due).state = st /\ Row(st, due).due = due
  BY RowIs DEF Sets
<1>2. Row("Sent", "never").state = "Sent" /\ Row("Sent", "never").due = "never"
  BY RowIs
<1>3. task' = [task EXCEPT ![j] = Row(st, due)]
  BY DEF Sets, Set
<1>4. \A k \in Jobs : task'[k] = IF k = j THEN Row(st, due) ELSE task[k]
  BY <1>3 DEF LocalOK
<1>5. task' \in [Jobs -> Task]
  BY <1>1, <1>3 DEF LocalOK
<1>6. ConfirmedIsDone'
  BY <1>1, <1>2, <1>4 DEF ConfirmedIsDone, Onwards
<1> QED BY <1>1, <1>4, <1>5, <1>6

LEMMA TaskKept ==
  ASSUME LocalOK, ConfirmedIsDone, Onwards, UNCHANGED task
  PROVE  task' \in [Jobs -> Task] /\ ConfirmedIsDone'
BY DEF LocalOK, ConfirmedIsDone, Onwards

LEMMA PlansKept ==
  ASSUME LocalOK, PlansNamed, Onwards, UNCHANGED kept
  PROVE  kept' \in [Jobs -> [0..1 -> Plan \cup {None}]] /\ PlansNamed'
BY DEF LocalOK, PlansNamed, Onwards, Known, StillKnown

LEMMA PlansDropped ==
  ASSUME LocalOK, PlansNamed, Onwards, NEW j \in Jobs, NextAttempt(j)
  PROVE  kept' \in [Jobs -> [0..1 -> Plan \cup {None}]] /\ PlansNamed'
<1>1. \A k \in Jobs : kept'[k] = IF k = j THEN [n \in 0..1 |-> None] ELSE kept[k]
  BY DEF NextAttempt, LocalOK
<1>2. PlansNamed'
  BY <1>1 DEF PlansNamed, Onwards, Known, StillKnown
<1> QED BY <1>2 DEF NextAttempt, LocalOK

\* The client is done with the attempt at a task.
Settled(j) == \/ Defer(j) \/ Quarantine(j) \/ MarkSent(j)

LEMMA SettledStep ==
  ASSUME LocalOK, ConfirmedIsDone, PlansNamed, Onwards, NEW j \in Jobs, Settled(j)
  PROVE  /\ task' \in [Jobs -> Task] /\ ConfirmedIsDone'
         /\ kept' \in [Jobs -> [0..1 -> Plan \cup {None}]] /\ PlansNamed'
         /\ \A k \in Jobs : task'[k].state = "Sent" /\ task[k].state # "Sent" => k = j /\ MarkSent(j)
<1>1. NextAttempt(j)
  BY DEF Settled, Defer, Quarantine, MarkSent
<1>2. /\ Defer(j) => Sets(j, "Pending", "later")
      /\ Quarantine(j) => Sets(j, "Failed", "never")
      /\ MarkSent(j) => Sets(j, "Sent", "later")
  BY DEF Defer, Quarantine, MarkSent, Sets
<1>3. CASE Defer(j)
  BY <1>1, <1>2, <1>3, TaskSet, PlansDropped
<1>4. CASE Quarantine(j)
  BY <1>1, <1>2, <1>4, TaskSet, PlansDropped
<1>5. CASE MarkSent(j)
  BY <1>1, <1>2, <1>5, TaskSet, PlansDropped
<1> QED BY <1>3, <1>4, <1>5 DEF Settled

\* The client is done with its task, or the run ends.
LEMMA HandEmptied ==
  ASSUME RunOK, NEW j, Done(j) \/ Stop
  PROVE  RunOK' /\ HandSound' /\ CheckSent'
BY DEF RunOK, Done, Stop, HandSound, CheckSent, Labels, HandLabels, UpLabels

LEMMA HandPassed ==
  ASSUME RunOK, NEW label \in HandLabels \ {"Skip", "Planned"}, NEW hand \in Hand, Goto(label, hand),
         label \in UpLabels => StillKnown(hand.job, hand.up),
         label = "Mark" => hand.job \in staged'
  PROVE  RunOK' /\ HandSound' /\ CheckSent' /\ deferred' = deferred
BY DEF RunOK, Goto, HandSound, CheckSent, Labels, HandLabels, UpLabels, Known, StillKnown

LEMMA HandKept ==
  ASSUME RunOK, HandSound, Onwards, UNCHANGED <<pc, todo, cur, kept>>
  PROVE  RunOK' /\ HandSound'
<1>1. RunOK'
  BY DEF RunOK
<1>2. \A j \in Jobs : \A u : Known(j, u) => StillKnown(j, u)
  BY DEF Known, StillKnown, Onwards
<1>3. pc \in HandLabels => cur \in Hand /\ cur.job \in Jobs
  BY HandIs DEF HandSound
<1>4. pc \in UpLabels \cup {"Planned", "Mark"} => pc \in HandLabels
  BY DEF UpLabels, HandLabels
<1>5. pc \in UpLabels => StillKnown(cur.job, cur.up)
  BY <1>2, <1>3, <1>4 DEF HandSound
<1>6. ASSUME pc = "Planned", kept[cur.job][cur.tries].kind # "Deferred"
      PROVE  StillKnown(cur.job, kept[cur.job][cur.tries].up)
  BY <1>2, <1>3, <1>4, <1>6 DEF HandSound
<1>7. pc = "Mark" => cur.job \in staged'
  BY DEF HandSound, Onwards
<1> QED BY <1>1, <1>5, <1>6, <1>7 DEF HandSound, Known, StillKnown

-----------------------------------------------------------------------------
(* One lemma per action: the preparation.                                  *)

\* Steps of the server, the user and the clock: the client keeps what it has.
LEMMA Beside ==
  ASSUME Inv, ServerInv', Onwards, UNCHANGED <<kept, prepared, recorded, task, pc, todo, cur, deferred>>,
         skipped' \subseteq Jobs \X Reasons, revived' \subseteq Jobs,
         photo' \in [Jobs -> {"Plain", "Modern", "Changed", "Gone"}], decoder' \in 1..2,
         faults' \in 0..MaxFaults
  PROVE  Inv' /\ SentStep
<1>1. RunOK' /\ HandSound'
  BY HandKept DEF Inv, ClientInv
<1>2. PlansNamed' /\ ConfirmedIsDone'
  BY PlansKept, TaskKept DEF Inv, ClientInv
<1>3. LocalOK' /\ CheckSent'
  BY DEF Inv, ClientInv, LocalOK, CheckSent
<1> QED BY <1>1, <1>2, <1>3 DEF Inv, ClientInv, SentStep

LEMMA Still == ASSUME ServerInv, UNCHANGED <<job, session, staged>> PROVE ServerInv' /\ Onwards
BY OnlyJobs DEF ServerInv, ServerOK

LEMMA StartRunStep ==
  ASSUME Inv, StartRun PROVE Inv' /\ SentStep
<1>1. ServerInv' /\ Onwards
  BY Still DEF StartRun, Inv, server
<1>2. PlansNamed' /\ ConfirmedIsDone'
  BY <1>1, PlansKept, TaskKept DEF StartRun, Inv, ClientInv, local
<1>3. RunOK' /\ HandSound' /\ CheckSent' /\ LocalOK'
  BY DEF StartRun, Inv, ClientInv, server, local, RunOK, HandSound, CheckSent, LocalOK, Labels, HandLabels, UpLabels
<1> QED BY <1>1, <1>2, <1>3 DEF Inv, ClientInv, SentStep, StartRun, local

LEMMA PrepareStep ==
  ASSUME Inv, Prepare PROVE Inv' /\ SentStep
<1>1. /\ job' \in [Jobs -> Statuses] /\ prepared' \in (SUBSET Jobs) \cup {None}
      /\ \A j \in Jobs : job'[j] = job[j] \/ (job[j] \in {"None", "Preparing"} /\ job'[j] = "Preparing")
  <2>1. CASE prepared # None
    BY <2>1 DEF Prepare, Inv, ServerInv, ServerOK, ClientInv, LocalOK
  <2>2. CASE prepared = None
    BY <2>2 DEF Prepare, Inv, ServerInv, ServerOK, Statuses
  <2> QED BY <2>1, <2>2
<1>2. ServerInv' /\ Onwards
  BY <1>1, OnlyJobs DEF Prepare, Inv
<1>3. PlansNamed' /\ ConfirmedIsDone'
  BY <1>2, PlansKept, TaskKept DEF Prepare, Inv, ClientInv
<1>4. faults' \in 0..MaxFaults
  BY FaultIs DEF Prepare, Inv, ClientInv, LocalOK
<1>5. pc' \in {"Queue", "Idle"} /\ UNCHANGED <<skipped, revived, task, kept, recorded, photo, decoder, todo, cur, deferred>>
  BY DEF Prepare
<1>6. LocalOK'
  BY <1>1, <1>4, <1>5 DEF Inv, ClientInv, LocalOK
<1>7. RunOK' /\ HandSound' /\ CheckSent'
  BY <1>5 DEF Inv, ClientInv, RunOK, HandSound, CheckSent, Labels, HandLabels, UpLabels
<1> QED BY <1>2, <1>3, <1>5, <1>6, <1>7 DEF Inv, ClientInv, SentStep

LEMMA QueueStep ==
  ASSUME Inv, Queue PROVE Inv' /\ SentStep
<1>1. ServerInv' /\ Onwards
  BY Still DEF Queue, Inv, server
<1>2. Row("Pending", "now") \in Task /\ Row("Pending", "now").state = "Pending" /\ Row("Sent", "never").state = "Sent"
  BY RowIs
<1>3. \A j \in Jobs : task'[j] = task[j] \/ task'[j] = Row("Pending", "now")
  BY DEF Queue
<1>4. task' \in [Jobs -> Task]
  BY <1>2 DEF Queue, Inv, ClientInv, LocalOK
<1>5. ConfirmedIsDone'
  BY <1>1, <1>2, <1>3 DEF Inv, ClientInv, ConfirmedIsDone, Onwards
<1>6. PlansNamed'
  BY <1>1, PlansKept DEF Queue, Inv, ClientInv
<1>7. LocalOK'
  BY <1>4 DEF Queue, Inv, ClientInv, LocalOK, server
<1>8. RunOK' /\ HandSound' /\ CheckSent'
  BY DEF Queue, Inv, ClientInv, RunOK, HandSound, CheckSent, Labels, HandLabels, UpLabels
<1> QED BY <1>1, <1>2, <1>3, <1>5, <1>6, <1>7, <1>8 DEF Inv, ClientInv, SentStep

LEMMA NewKeyStep ==
  ASSUME Inv, NewKey PROVE Inv' /\ SentStep
<1>1. ServerInv' /\ Onwards
  BY Still DEF NewKey, Inv, server
<1>2. PlansNamed' /\ ConfirmedIsDone'
  BY <1>1, PlansKept, TaskKept DEF NewKey, Inv, ClientInv
<1>3. LocalOK'
  <2>1. prepared' = None /\ UNCHANGED <<skipped, revived, task, kept, recorded, photo, decoder, deferred, faults>>
    BY DEF NewKey, server
  <2> QED BY <2>1 DEF Inv, ClientInv, LocalOK
<1>4. CheckSent'
  BY RowIs DEF NewKey, CheckSent
<1>5. RunOK' /\ HandSound'
  BY DEF NewKey, Inv, ClientInv, RunOK, HandSound, Labels, HandLabels, UpLabels
<1> QED BY <1>1, <1>2, <1>3, <1>4, <1>5 DEF Inv, ClientInv, SentStep, NewKey

LEMMA CheckStep ==
  ASSUME Inv, NEW j \in Jobs, Check(j) PROVE Inv' /\ SentStep
<1>1. ServerInv' /\ Onwards
  BY Still DEF Check, Inv, server
<1>2. task[j].state = "Sent"
  BY DEF Check, Inv, ClientInv, CheckSent
<1>3. faults' \in 0..MaxFaults
  BY FaultIs DEF Check, Inv, ClientInv, LocalOK
<1>4. /\ task' \in [Jobs -> Task] /\ ConfirmedIsDone'
      /\ \A k \in Jobs : k # j => task'[k] = task[k]
  <2>1. CASE Sets(j, "Sent", "later")
    BY <1>1, <2>1, TaskSet DEF Inv, ClientInv
  <2>2. CASE task' = [task EXCEPT ![j] = Checked(j)]
    <3>1. /\ Row("Pending", "now") \in Task /\ Row("Pending", "now").due = "now"
          /\ Row("Failed", "never") \in Task /\ Row("Failed", "never").state = "Failed"
          /\ Row("Sent", "later") \in Task /\ Row("Sent", "later").due = "later"
          /\ Row("Sent", "never") \in Task /\ Row("Sent", "never").due = "never" /\ Row("Sent", "never").state = "Sent"
      BY RowIs
    <3>2. Checked(j) \in Task /\ (Checked(j) = Row("Sent", "never") => job[j] = "Succeeded")
      BY <3>1 DEF Checked
    <3>3. \A k \in Jobs : task'[k] = IF k = j THEN Checked(j) ELSE task[k]
      BY <2>2 DEF Inv, ClientInv, LocalOK
    <3>4. task' \in [Jobs -> Task]
      BY <2>2, <3>2 DEF Inv, ClientInv, LocalOK
    <3>5. ConfirmedIsDone'
      BY <1>1, <3>2, <3>3 DEF Inv, ClientInv, ConfirmedIsDone, Onwards
    <3> QED BY <3>3, <3>4, <3>5
  <2> QED BY <2>1, <2>2 DEF Check, Sets
<1>5. PlansNamed'
  BY <1>1, PlansKept DEF Check, Inv, ClientInv
<1>6. LocalOK'
  BY <1>3, <1>4 DEF Check, Inv, ClientInv, LocalOK, server
<1>7. RunOK' /\ HandSound'
  BY DEF Check, Inv, ClientInv, RunOK, HandSound, HandLabels, UpLabels
<1>8. CheckSent'
  BY <1>4 DEF Check, Inv, ClientInv, RunOK, CheckSent
<1> QED BY <1>1, <1>2, <1>4, <1>5, <1>6, <1>7, <1>8 DEF Inv, ClientInv, SentStep

LEMMA EndCheckStep ==
  ASSUME Inv, EndCheck PROVE Inv' /\ SentStep
<1>1. ServerInv' /\ Onwards
  BY Still DEF EndCheck, Inv, server
<1>2. PlansNamed' /\ ConfirmedIsDone'
  BY <1>1, PlansKept, TaskKept DEF EndCheck, Inv, ClientInv, local
<1>3. LocalOK'
  BY DEF EndCheck, Inv, ClientInv, LocalOK, server, local
<1>4. pc' \in {"Flush", "Recover"} /\ todo' \subseteq Jobs /\ cur' = cur
  BY DEF EndCheck
<1>5. RunOK' /\ HandSound' /\ CheckSent'
  BY <1>4 DEF Inv, ClientInv, RunOK, HandSound, CheckSent, Labels, HandLabels, UpLabels
<1> QED BY <1>1, <1>2, <1>3, <1>5 DEF Inv, ClientInv, SentStep, EndCheck, local

LEMMA RecoverStep ==
  ASSUME Inv, NEW j \in Jobs, Recover(j) PROVE Inv' /\ SentStep
<1>1. /\ UNCHANGED <<session, skipped, kept, prepared, recorded, photo, decoder, pc, cur, staged>>
      /\ pc = "Recover" /\ todo' \subseteq todo
      /\ Fault \/ UNCHANGED faults
  BY DEF Recover
<1>2. /\ revived' \subseteq Jobs /\ deferred' \in BOOLEAN
      /\ \/ UNCHANGED job
         \/ /\ job' = [job EXCEPT ![j] = "Preparing"]
            /\ job[j] \in {"Skipped", "Failed", "DeferredQuota", "QuotaDue"}
      /\ UNCHANGED task \/ Sets(j, "Pending", "now")
  <2>1. CASE job' = [job EXCEPT ![j] = IF j \in revived THEN @ ELSE "Preparing"]
    BY <2>1 DEF Recover, Inv, ServerInv, ServerOK, ClientInv, LocalOK, Sets
  <2>2. CASE UNCHANGED job
    BY <2>2 DEF Recover, Inv, ClientInv, LocalOK, Sets
  <2> QED BY <2>1, <2>2 DEF Recover
<1>3. ServerInv' /\ Onwards
  <2>1. CASE UNCHANGED job
    BY <1>1, <2>1, Still DEF Inv
  <2>2. CASE job' = [job EXCEPT ![j] = "Preparing"] /\ job[j] \in {"Skipped", "Failed", "DeferredQuota", "QuotaDue"}
    <3>1. job' \in [Jobs -> Statuses] /\ \A k \in Jobs : job'[k] = IF k = j THEN "Preparing" ELSE job[k]
      BY <2>2 DEF Inv, ServerInv, ServerOK, Statuses
    <3> QED BY <1>1, <2>2, <3>1, OnlyJobs DEF Inv
  <2> QED BY <1>2, <2>1, <2>2
<1>4. task' \in [Jobs -> Task] /\ ConfirmedIsDone' /\ \A k \in Jobs : task'[k] = task[k] \/ task'[k].state = "Pending"
  <2>1. CASE UNCHANGED task
    BY <1>3, <2>1, TaskKept DEF Inv, ClientInv
  <2>2. CASE Sets(j, "Pending", "now")
    BY <1>3, <2>2, TaskSet DEF Inv, ClientInv
  <2> QED BY <1>2, <2>1, <2>2
<1>5. faults' \in 0..MaxFaults
  BY <1>1, FaultIs DEF Inv, ClientInv, LocalOK
<1>6. PlansNamed'
  BY <1>1, <1>3, PlansKept DEF Inv, ClientInv
<1>7. LocalOK'
  BY <1>1, <1>2, <1>4, <1>5 DEF Inv, ClientInv, LocalOK
<1>8. RunOK' /\ HandSound' /\ CheckSent'
  BY <1>1 DEF Inv, ClientInv, RunOK, HandSound, CheckSent, HandLabels, UpLabels
<1> QED BY <1>3, <1>4, <1>6, <1>7, <1>8 DEF Inv, ClientInv, SentStep

LEMMA EndRecoverStep ==
  ASSUME Inv, EndRecover PROVE Inv' /\ SentStep
<1>1. ServerInv' /\ Onwards
  BY Still DEF EndRecover, Inv, server
<1>2. PlansNamed' /\ ConfirmedIsDone'
  BY <1>1, PlansKept, TaskKept DEF EndRecover, Inv, ClientInv
<1>3. LocalOK'
  BY DEF EndRecover, Inv, ClientInv, LocalOK, server
<1>4. pc' = "Flush" /\ todo' \subseteq Jobs /\ cur' = cur
  BY DEF EndRecover
<1>5. RunOK' /\ HandSound' /\ CheckSent'
  BY <1>4 DEF Inv, ClientInv, RunOK, HandSound, CheckSent, Labels, HandLabels, UpLabels
<1> QED BY <1>1, <1>2, <1>3, <1>5 DEF Inv, ClientInv, SentStep, EndRecover

-----------------------------------------------------------------------------
(* The parts of a step that stages a task.                                 *)

TaskPart == /\ task' \in [Jobs -> Task] /\ ConfirmedIsDone'
            /\ kept' \in [Jobs -> [0..1 -> Plan \cup {None}]] /\ PlansNamed'
RunPart  == RunOK' /\ HandSound' /\ CheckSent' /\ deferred' \in BOOLEAN

LEMMA Together ==
  ASSUME Inv, ServerInv', TaskPart, RunPart, UNCHANGED <<prepared, recorded, photo, decoder>>,
         skipped' \subseteq Jobs \X Reasons, revived' \subseteq Jobs, Fault \/ UNCHANGED faults
  PROVE  Inv'
<1>1. faults' \in 0..MaxFaults
  BY FaultIs DEF Inv, ClientInv, LocalOK
<1> QED BY <1>1 DEF Inv, ClientInv, LocalOK, TaskPart, RunPart

LEMMA TasksUntouched ==
  ASSUME Inv, Onwards, UNCHANGED <<task, kept>> PROVE TaskPart /\ SentStep
BY TaskKept, PlansKept DEF Inv, ClientInv, TaskPart, SentStep

LEMMA PutOff ==
  ASSUME Inv, Onwards, NEW j \in Jobs, Defer(j) \/ Quarantine(j) PROVE TaskPart /\ SentStep
<1>1. /\ Settled(j) /\ NextAttempt(j)
      /\ \/ Sets(j, "Pending", "later")
         \/ Sets(j, "Failed", "never")
  BY DEF Settled, Defer, Quarantine, Sets
<1>2. task'[j].state # "Sent" /\ \A k \in Jobs : k # j => task'[k] = task[k]
  BY <1>1, TaskSet DEF Inv, ClientInv
<1> QED BY <1>1, <1>2, SettledStep DEF Inv, ClientInv, TaskPart, SentStep

LEMMA Marked ==
  ASSUME Inv, Onwards, NEW j \in Jobs, MarkSent(j),
         j \in staged \/ (pc = "CancelHeld" /\ session[j][cur.up].status = "Expired")
  PROVE  TaskPart /\ SentStep
BY SettledStep DEF Settled, Inv, ClientInv, TaskPart, SentStep

LEMMA RunEnds ==
  ASSUME Inv, NEW j, (Done(j) /\ UNCHANGED deferred) \/ Stop PROVE RunPart
BY HandEmptied DEF Inv, ClientInv, LocalOK, RunPart, Stop

LEMMA RunGoesOn ==
  ASSUME Inv, NEW label \in HandLabels \ {"Skip", "Planned"}, NEW hand \in Hand, Goto(label, hand),
         label \in UpLabels => StillKnown(hand.job, hand.up),
         label = "Mark" => hand.job \in staged'
  PROVE  RunPart
BY HandPassed DEF Inv, ClientInv, LocalOK, RunPart

LEMMA Lost ==
  ASSUME Inv, Onwards, NEW j \in Jobs, Unreachable(j)
  PROVE  TaskPart /\ RunPart /\ SentStep /\ (Fault \/ UNCHANGED faults)
BY PutOff, RunEnds DEF Unreachable

\* What the client holds at a label.
LEMMA InHand ==
  ASSUME Inv, NEW label \in HandLabels, NEW j, At(label, j)
  PROVE  /\ j \in Jobs /\ cur \in Hand /\ cur.job = j /\ cur.tries \in 0..1
         /\ label \in UpLabels => Known(j, cur.up)
BY HandIs DEF At, Inv, ClientInv, HandSound

-----------------------------------------------------------------------------
(* One lemma per action: staging.                                          *)

LEMMA TakeStep ==
  ASSUME Inv, NEW j \in Jobs, Take(j) PROVE Inv' /\ SentStep
<1>1. ServerInv' /\ Onwards /\ UNCHANGED <<skipped, revived, prepared, recorded, photo, decoder, staged>>
  BY Still DEF Take, Inv, server
<1>2. Fault \/ UNCHANGED faults
  BY DEF Take
<1>3. TaskPart /\ SentStep
  <2>1. Defer(j) \/ UNCHANGED <<task, kept>>
    BY DEF Take, Begin
  <2> QED BY <1>1, <2>1, PutOff, TasksUntouched
<1>4. RunPart
  <2>1. CASE Done(j) /\ UNCHANGED deferred
    BY <2>1, RunEnds
  <2>2. ASSUME NEW label \in {"Skip", "Plan"}, NEW why \in Reasons \cup {None}, label = "Skip" => why \in Reasons,
               Begin(j, label, why)
        PROVE  RunPart
    <3> DEFINE hand == [job |-> j, up |-> None, tries |-> 0, why |-> why]
    <3>1. hand \in Hand /\ hand.why = why
      BY DEF Hand
    <3>2. pc' = label /\ cur' = hand /\ UNCHANGED <<todo, deferred>>
      BY <2>2 DEF Begin, Goto
    <3> HIDE DEF hand
    <3> QED BY <2>2, <3>1, <3>2
         DEF Inv, ClientInv, LocalOK, RunOK, RunPart, HandSound, CheckSent, Labels, HandLabels, UpLabels
  <2>3. \/ Done(j) /\ UNCHANGED deferred
        \/ Begin(j, "Skip", "SourceChanged") \/ Begin(j, "Skip", "UnsupportedPhoto") \/ Begin(j, "Plan", None)
    BY DEF Take
  <2> QED BY <2>1, <2>2, <2>3 DEF Reasons
<1> QED BY <1>1, <1>2, <1>3, <1>4, Together DEF Inv, ClientInv, LocalOK

LEMMA EndFlushStep ==
  ASSUME Inv, EndFlush PROVE Inv' /\ SentStep
<1>1. ServerInv' /\ Onwards
  BY Still DEF EndFlush, Inv, server
<1>2. TaskPart /\ SentStep
  BY <1>1, TasksUntouched DEF EndFlush, local
<1>3. RunPart
  BY DEF EndFlush, RunPart, Inv, ClientInv, LocalOK, RunOK, HandSound, CheckSent, Labels, HandLabels, UpLabels
<1> QED BY <1>1, <1>2, <1>3, Together DEF EndFlush, server, local, Inv, ClientInv, LocalOK

LEMMA SkipStep ==
  ASSUME Inv, NEW j \in Jobs, Skip(j) PROVE Inv' /\ SentStep
<1>0. /\ cur.why \in Reasons
      /\ UNCHANGED <<revived, prepared, recorded, photo, decoder, deferred, staged>>
      /\ Done(j)
  BY DEF Skip, At, Inv, ClientInv, HandSound
<1>1. /\ skipped' = skipped \/ skipped' = skipped \cup {<<j, cur.why>>}
      /\ Fault \/ UNCHANGED faults
      /\ \/ Set(j, cur.why, "never") /\ UNCHANGED kept
         \/ Defer(j)
  BY DEF Skip
<1>2. ServerInv' /\ Onwards
  <2> DEFINE stops == ~(<<j, cur.why>> \in skipped) /\ job[j] \notin {"Succeeded", "Cancelled", "Skipped"}
  <2>1. \/ UNCHANGED <<job, session>>
        \/ /\ job' = [job EXCEPT ![j] = IF stops THEN "Skipped" ELSE @]
           /\ session' = [session EXCEPT ![j] = IF stops THEN Withdrawn(j) ELSE @]
    BY DEF Skip
  <2> HIDE DEF stops
  <2>2. CASE UNCHANGED <<job, session>>
    BY <1>0, <2>2, Still DEF Inv
  <2>3. CASE stops /\ job' = [job EXCEPT ![j] = "Skipped"] /\ session' = [session EXCEPT ![j] = Withdrawn(j)]
    BY <1>0, <2>3, WithdrawnStep DEF Inv, stops
  <2>4. \/ UNCHANGED <<job, session>>
        \/ stops /\ job' = [job EXCEPT ![j] = "Skipped"] /\ session' = [session EXCEPT ![j] = Withdrawn(j)]
    BY <2>1 DEF Inv, ServerInv, ServerOK
  <2> QED BY <2>2, <2>3, <2>4
<1>3. TaskPart /\ SentStep
  <2>1. CASE Sets(j, cur.why, "never") /\ UNCHANGED kept
    <3>1. task'[j].state # "Sent" /\ cur.why # "Sent"
      BY <1>0, <1>2, <2>1, TaskSet DEF Reasons, Inv, ClientInv
    <3> QED BY <1>0, <1>2, <2>1, <3>1, TaskSet, PlansKept DEF Reasons, Inv, ClientInv, TaskPart, SentStep
  <2>2. CASE Defer(j)
    BY <1>2, <2>2, PutOff
  <2> QED BY <1>0, <1>1, <2>1, <2>2 DEF Sets, Reasons
<1>4. RunPart
  BY <1>0, RunEnds
<1>5. skipped' \subseteq Jobs \X Reasons /\ revived' \subseteq Jobs
  BY <1>0, <1>1 DEF Inv, ClientInv, LocalOK
<1> QED BY <1>0, <1>1, <1>2, <1>3, <1>4, <1>5, Together

LEMMA RequestPlanStep ==
  ASSUME Inv, NEW j \in Jobs, RequestPlan(j) PROVE Inv' /\ SentStep
<1> DEFINE n == cur.tries
           Asked == \E plan \in Plans(j) :
                      /\ CreatePlan(j, plan)
                      /\ \/ kept' = [kept EXCEPT ![j][n] = plan] /\ Goto("Planned", cur) /\ UNCHANGED <<task, faults>>
                         \/ Unreachable(j)
<1>0. At("Plan", j) /\ UNCHANGED <<prepared, recorded, photo, decoder, staged>>
  BY DEF RequestPlan
<1>1. /\ cur \in Hand /\ cur.job = j /\ n \in 0..1
  BY <1>0, InHand DEF HandLabels
<1>2. CASE kept[j][n] # None /\ UNCHANGED <<server, kept>> /\ Goto("Planned", cur) /\ UNCHANGED <<task, faults>>
  <2>1. ServerInv' /\ Onwards
    BY <1>0, <1>2, Still DEF Inv, server
  <2>2. TaskPart /\ SentStep
    BY <1>2, <2>1, TasksUntouched
  <2>3. RunPart
    <3>1. kept[j][n] \in Plan /\ (kept[j][n].kind # "Deferred" => StillKnown(j, kept[j][n].up))
      BY <1>1, <1>2, <2>1 DEF Inv, ClientInv, LocalOK, PlansNamed, Onwards, Known, StillKnown
    <3>2. pc' = "Planned" /\ UNCHANGED <<cur, todo, deferred, kept>>
      BY <1>2 DEF Goto
    <3> QED BY <1>1, <3>1, <3>2
         DEF Inv, ClientInv, LocalOK, RunOK, RunPart, HandSound, CheckSent, Labels, HandLabels, UpLabels, Known, StillKnown
  <2> QED BY <1>0, <1>2, <2>1, <2>2, <2>3, Together DEF server, Inv, ClientInv, LocalOK
<1>3. CASE job[j] \in {"Preparing", "QuotaDue"} /\ Asked
  <2>1. PICK plan \in Plans(j) :
          /\ CreatePlan(j, plan)
          /\ \/ kept' = [kept EXCEPT ![j][n] = plan] /\ Goto("Planned", cur) /\ UNCHANGED <<task, faults>>
             \/ Unreachable(j)
    BY <1>3
  <2>2. /\ ServerInv' /\ Onwards /\ UNCHANGED <<skipped, revived>>
        /\ plan \in Plan /\ (plan.kind # "Deferred" => StillKnown(j, plan.up))
    BY <1>0, <1>3, <2>1, PlanStep DEF Inv
  <2>3. CASE Unreachable(j)
    BY <1>0, <2>2, <2>3, Lost, Together DEF Inv, ClientInv, LocalOK
  <2>4. CASE kept' = [kept EXCEPT ![j][n] = plan] /\ Goto("Planned", cur) /\ UNCHANGED <<task, faults>>
    <3>1. \A k \in Jobs : \A m \in 0..1 : kept'[k][m] = IF k = j /\ m = n THEN plan ELSE kept[k][m]
      BY <1>1, <2>4 DEF Inv, ClientInv, LocalOK
    <3>2. kept' \in [Jobs -> [0..1 -> Plan \cup {None}]]
      BY <1>1, <2>2, <2>4 DEF Inv, ClientInv, LocalOK
    <3>3. \A k \in Jobs : \A u : Known(k, u) => StillKnown(k, u)
      BY <2>2 DEF Known, StillKnown, Onwards
    <3>4. PlansNamed'
      <4>1. SUFFICES ASSUME NEW k \in Jobs, NEW m \in 0..1, kept'[k][m] # None, kept'[k][m].kind # "Deferred"
                     PROVE  StillKnown(k, kept'[k][m].up)
        BY DEF PlansNamed, Known, StillKnown
      <4>2. CASE k = j /\ m = n
        BY <2>2, <3>1, <4>1, <4>2 DEF Known, StillKnown
      <4>3. CASE ~(k = j /\ m = n)
        <5>1. kept'[k][m] = kept[k][m]
          BY <3>1, <4>3
        <5>2. Known(k, kept[k][m].up)
          BY <4>1, <5>1 DEF Inv, ClientInv, PlansNamed
        <5> QED BY <3>3, <5>1, <5>2 DEF Known, StillKnown
      <4> QED BY <4>2, <4>3
    <3>5. TaskPart /\ SentStep
      BY <2>2, <2>4, <3>2, <3>4, TaskKept DEF Inv, ClientInv, TaskPart, SentStep
    <3>6. pc' = "Planned" /\ UNCHANGED <<cur, todo, deferred>> /\ kept'[cur.job][cur.tries] = plan
      BY <1>1, <2>4, <3>1 DEF Goto
    <3>7. RunPart
      BY <1>1, <2>2, <3>6
         DEF Inv, ClientInv, LocalOK, RunOK, RunPart, HandSound, CheckSent, Labels, HandLabels, UpLabels, Known, StillKnown
    <3> QED BY <1>0, <2>2, <2>4, <3>5, <3>7, Together DEF Inv, ClientInv, LocalOK
  <2> QED BY <2>1, <2>3, <2>4
<1>4. CASE Goto("Status", cur) /\ UNCHANGED <<server, task, kept, faults>>
  <2>1. ServerInv' /\ Onwards
    BY <1>0, <1>4, Still DEF Inv, server
  <2>2. TaskPart /\ SentStep
    BY <1>4, <2>1, TasksUntouched
  <2>3. RunPart
    BY <1>1, <1>4, RunGoesOn DEF HandLabels, UpLabels
  <2> QED BY <1>0, <1>4, <2>1, <2>2, <2>3, Together DEF server, Inv, ClientInv, LocalOK
<1>5. CASE Unreachable(j) /\ UNCHANGED server
  <2>1. ServerInv' /\ Onwards
    BY <1>0, <1>5, Still DEF Inv, server
  <2> QED BY <1>0, <1>5, <2>1, Lost, Together DEF server, Inv, ClientInv, LocalOK
<1> QED BY <1>2, <1>3, <1>4, <1>5 DEF RequestPlan

LEMMA PlannedStep ==
  ASSUME Inv, NEW j \in Jobs, Planned(j) PROVE Inv' /\ SentStep
<1> DEFINE plan == kept[j][cur.tries]
<1>0. At("Planned", j) /\ UNCHANGED <<server, prepared, recorded, photo, decoder, staged>>
  BY DEF Planned
<1>1. cur \in Hand /\ cur.job = j
  BY <1>0, InHand DEF HandLabels
<1>2. plan \in Plan /\ (plan.kind # "Deferred" => Known(j, plan.up))
  BY <1>0, <1>1 DEF At, Inv, ClientInv, HandSound
<1>3. ServerInv' /\ Onwards
  BY <1>0, Still DEF Inv, server
<1>4. ASSUME TaskPart, RunPart, SentStep, Fault \/ UNCHANGED faults PROVE Inv' /\ SentStep
  BY <1>0, <1>3, <1>4, Together DEF server, Inv, ClientInv, LocalOK
<1>5. ASSUME NEW label \in {"Session", "Put"}, plan.kind # "Deferred", Goto(label, [cur EXCEPT !.up = plan.up]),
             UNCHANGED <<task, kept, faults>>
      PROVE  Inv' /\ SentStep
  <2> DEFINE hand == [cur EXCEPT !.up = plan.up]
  <2>1. hand \in Hand /\ hand.job = j /\ hand.up = plan.up
    BY <1>1, <1>2, <1>5 DEF Hand, Known, StillKnown
  <2>2. StillKnown(j, plan.up)
    BY <1>2, <1>3, <1>5 DEF Onwards, Known, StillKnown
  <2>3. Goto(label, hand)
    BY <1>5
  <2> HIDE DEF hand, plan
  <2>4. RunPart
    BY <2>1, <2>2, <2>3, RunGoesOn DEF HandLabels, UpLabels, Known, StillKnown
  <2> QED BY <1>3, <1>4, <1>5, <2>4, TasksUntouched
<1>6. CASE QuotaDeferred(j) /\ UNCHANGED faults
  <2>1. Row("Deferred", "later") \in Task /\ Row("Deferred", "later").state = "Deferred" /\ Row("Sent", "never").state = "Sent"
    BY RowIs
  <2>2. /\ NextAttempt(j) /\ Stop
        /\ task' \in [Jobs -> Task]
        /\ \A k \in Jobs : task'[k] = task[k] \/ task'[k] = Row("Deferred", "later")
    BY <1>6, <2>1 DEF QuotaDeferred, Inv, ClientInv, LocalOK
  <2>3. ConfirmedIsDone'
    BY <1>3, <2>1, <2>2 DEF Inv, ClientInv, ConfirmedIsDone, Onwards
  <2>4. TaskPart /\ SentStep
    BY <1>3, <2>1, <2>2, <2>3, PlansDropped DEF Inv, ClientInv, TaskPart, SentStep
  <2> QED BY <1>4, <1>6, <2>2, <2>4, RunEnds
<1>7. CASE Defer(j) /\ Done(j) /\ UNCHANGED deferred /\ Fault
  BY <1>3, <1>4, <1>7, PutOff, RunEnds
<1> QED BY <1>2, <1>5, <1>6, <1>7 DEF Planned

\* The session in hand changes, or its job with it.
LEMMA EndSession ==
  ASSUME ServerInv, NEW j \in Jobs, NEW u \in Sessions, NEW st \in {"Cancelled", "Expired"}, NEW s,
         s = Ended(session[j][u], st), UNCHANGED <<job, staged>>,
         session' = [session EXCEPT ![j] = [@ EXCEPT ![u] = s]]
  PROVE  ServerInv' /\ Onwards
<1>1. session[j][u] \in Session /\ s \in Session /\ s.status = st /\ s.done = session[j][u].done
  BY EndedIs DEF ServerInv, ServerOK
<1>2. \A v \in Sessions : session[j][v].status = "Uploading" => job[j] = "Preparing"
  BY DEF ServerInv, OpenIsPreparing
<1>3. job[j] \in {"Queued", "Succeeded"} \/ session[j][u].done => j \in staged
  BY DEF ServerInv, StagedKnown
<1> QED BY <1>1, <1>2, <1>3, OneSession DEF ServerInv, ServerOK

LEMMA ReplanPart ==
  ASSUME Inv, Onwards, NEW j \in Jobs, cur \in Hand, Replan(j)
  PROVE  TaskPart /\ RunPart /\ SentStep
<1>1. CASE Goto("Plan", [cur EXCEPT !.tries = 1, !.up = None]) /\ UNCHANGED <<task, kept>>
  <2> DEFINE hand == [cur EXCEPT !.tries = 1, !.up = None]
             tries == 0..1
  <2>1. 1 \in tries
    OBVIOUS
  <2> HIDE DEF tries
  <2>2. hand \in [job: Jobs, up: Sessions \cup {None}, tries: tries, why: Reasons \cup {None}]
    BY <2>1, Zenon DEF Hand, tries
  <2>3. hand \in Hand
    BY <2>2 DEF Hand, tries
  <2>4. Goto("Plan", hand)
    BY <1>1
  <2> HIDE DEF hand
  <2>5. RunPart
    BY <2>3, <2>4, RunGoesOn DEF HandLabels, UpLabels
  <2> QED BY <1>1, <2>5, TasksUntouched
<1>2. CASE Defer(j) /\ Done(j) /\ UNCHANGED deferred
  BY <1>2, PutOff, RunEnds
<1> QED BY <1>1, <1>2 DEF Replan

LEMMA GetSessionStep ==
  ASSUME Inv, NEW j \in Jobs, GetSession(j) PROVE Inv' /\ SentStep
<1> DEFINE old  == session[j][cur.up]
           runsOut == Uploading(old) /\ old.late
           s    == IF runsOut THEN Ended(old, "Expired") ELSE old
<1>0. /\ At("Session", j) /\ UNCHANGED <<job, skipped, revived, prepared, recorded, photo, decoder, staged>>
      /\ session' = [session EXCEPT ![j][cur.up] = s]
  BY DEF GetSession
<1>1. cur \in Hand /\ cur.job = j /\ Known(j, cur.up)
  BY <1>0, InHand DEF HandLabels, UpLabels
<1>2. old \in Session /\ cur.up \in Sessions
  BY <1>1 DEF Known, Inv, ServerInv, ServerOK
<1>3. ServerInv' /\ Onwards
  <2>1. CASE runsOut
    <3>1. s = Ended(old, "Expired") /\ session' = [session EXCEPT ![j] = [@ EXCEPT ![cur.up] = s]]
      BY <1>0, <2>1
    <3> QED BY <1>0, <1>2, <3>1, EndSession DEF Inv
  <2>2. CASE ~runsOut
    <3>1. session' = session
      BY <1>0, <1>2, <2>2 DEF Inv, ServerInv, ServerOK
    <3> QED BY <1>0, <3>1, Still DEF Inv
  <2> QED BY <2>1, <2>2
<1>4. ASSUME TaskPart, RunPart, SentStep, Fault \/ UNCHANGED faults PROVE Inv' /\ SentStep
  BY <1>0, <1>3, <1>4, Together DEF Inv, ClientInv, LocalOK
<1>5. s.status = "Completed" => j \in staged
  <2>1. CASE runsOut
    BY <1>2, <2>1, EndedIs
  <2>2. CASE ~runsOut
    BY <1>2, <2>2 DEF Inv, ServerInv, StagedKnown
  <2> QED BY <2>1, <2>2
<1>6. CASE MarkSent(j) /\ Done(j) /\ UNCHANGED <<deferred, faults>> /\ s.status = "Completed"
  BY <1>3, <1>4, <1>5, <1>6, Marked, RunEnds
<1>7. CASE Goto("CompleteHeld", cur) /\ UNCHANGED <<task, kept, faults>>
  <2>1. StillKnown(j, cur.up)
    BY <1>1, <1>3 DEF Known, StillKnown, Onwards
  <2> QED BY <1>1, <1>3, <1>4, <1>7, <2>1, TasksUntouched, RunGoesOn DEF HandLabels, UpLabels
<1>8. CASE Replan(j) /\ UNCHANGED faults
  BY <1>1, <1>3, <1>4, <1>8, ReplanPart
<1>9. CASE Unreachable(j)
  BY <1>3, <1>4, <1>9, Lost
<1> HIDE DEF s
<1> QED BY <1>6, <1>7, <1>8, <1>9 DEF GetSession, s

LEMMA PutStep ==
  ASSUME Inv, NEW j \in Jobs, Put(j) PROVE Inv' /\ SentStep
<1> DEFINE up  == cur.up
           old == session[j][up]
           s   == [old EXCEPT !.put = @ \/ Uploading(old)]
<1>0. /\ At("Put", j) /\ UNCHANGED <<job, skipped, revived, local, photo, decoder, staged>>
      /\ Goto("Complete", cur) \/ Goto("CancelPut", cur)
      /\ Fault \/ UNCHANGED faults
  BY DEF Put
<1>1. cur \in Hand /\ cur.job = j /\ Known(j, up)
  BY <1>0, InHand DEF HandLabels, UpLabels
<1>2. old \in Session /\ up \in Sessions
  BY <1>1 DEF Known, Inv, ServerInv, ServerOK
<1>3. ServerInv' /\ Onwards
  <2>1. CASE UNCHANGED session
    BY <1>0, <2>1, Still DEF Inv
  <2>2. CASE session' = [session EXCEPT ![j][up].put = @ \/ Uploading(session[j][up])]
    <3>1. session' = [session EXCEPT ![j] = [@ EXCEPT ![up] = s]]
      BY <2>2
    <3>2. s \in Session /\ s.status = old.status /\ s.done = old.done
      BY <1>2 DEF Session, Uploading
    <3>3. \A v \in Sessions : session[j][v].status = "Uploading" => job[j] = "Preparing"
      BY DEF Inv, ServerInv, OpenIsPreparing
    <3>4. job[j] \in {"Queued", "Succeeded"} \/ old.done \/ old.status = "Completed" => j \in staged
      BY <1>2 DEF Inv, ServerInv, StagedKnown
    <3>5. /\ job' \in [Jobs -> Statuses] /\ staged' \subseteq Jobs /\ staged \subseteq staged'
          /\ job' = job /\ staged' = staged
      BY <1>0 DEF Inv, ServerInv, ServerOK
    <3> HIDE DEF s
    <3> QED BY <1>2, <3>1, <3>2, <3>3, <3>4, <3>5, OneSession DEF Inv
  <2> QED BY <2>1, <2>2 DEF Put
<1>4. TaskPart /\ SentStep
  BY <1>0, <1>3, TasksUntouched DEF local
<1>5. StillKnown(j, up)
  BY <1>1, <1>3 DEF Known, StillKnown, Onwards
<1>6. RunPart
  BY <1>0, <1>1, <1>5, RunGoesOn DEF HandLabels, UpLabels
<1> QED BY <1>0, <1>3, <1>4, <1>6, Together DEF local, Inv, ClientInv, LocalOK

LEMMA CompleteActionStep ==
  ASSUME Inv, NEW j \in Jobs, Complete(j) PROVE Inv' /\ SentStep
<1> DEFINE outcome == Completes(j, session[j][cur.up])
<1>0. (At("Complete", j) \/ At("CompleteHeld", j)) /\ UNCHANGED <<prepared, recorded, photo, decoder>>
  BY DEF Complete
<1>1. cur \in Hand /\ cur.job = j /\ Known(j, cur.up)
  BY <1>0, InHand DEF HandLabels, UpLabels
<1>2. CASE outcome = "Completed" /\ CompleteUpload(j, cur.up)
           /\ ((Goto("Mark", cur) /\ UNCHANGED <<task, kept, faults>>) \/ Unreachable(j))
  <2>1. ServerInv' /\ Onwards /\ j \in staged' /\ UNCHANGED <<skipped, revived>>
    BY <1>1, <1>2, CompleteStep DEF Inv, Known, Completes
  <2>2. CASE Goto("Mark", cur) /\ UNCHANGED <<task, kept, faults>>
    <3>1. StillKnown(j, cur.up)
      BY <1>1, <2>1 DEF Known, StillKnown, Onwards
    <3>2. RunPart
      BY <1>1, <2>1, <2>2, <3>1, RunGoesOn DEF HandLabels, UpLabels
    <3> QED BY <1>0, <2>1, <2>2, <3>2, TasksUntouched, Together DEF Inv, ClientInv, LocalOK
  <2>3. CASE Unreachable(j)
    BY <1>0, <2>1, <2>3, Lost, Together DEF Inv, ClientInv, LocalOK
  <2> QED BY <1>2, <2>2, <2>3
<1>3. CASE UNCHANGED <<server, staged>>
  <2>1. ServerInv' /\ Onwards
    BY <1>3, Still DEF Inv, server
  <2>2. ASSUME TaskPart, RunPart, SentStep, Fault \/ UNCHANGED faults PROVE Inv' /\ SentStep
    BY <1>0, <1>3, <2>1, <2>2, Together DEF server, Inv, ClientInv, LocalOK
  <2>3. CASE Goto("CancelHeld", cur) /\ UNCHANGED <<task, kept, faults>>
    <3>1. StillKnown(j, cur.up)
      BY <1>1, <2>1 DEF Known, StillKnown, Onwards
    <3>2. RunPart
      BY <1>1, <2>1, <2>3, <3>1, RunGoesOn DEF HandLabels, UpLabels
    <3> QED BY <2>1, <2>2, <2>3, <3>2, TasksUntouched
  <2>4. CASE Quarantine(j) /\ Done(j) /\ UNCHANGED <<deferred, faults>>
    BY <2>1, <2>2, <2>4, PutOff, RunEnds
  <2>5. CASE Unreachable(j)
    BY <2>1, <2>2, <2>5, Lost
  <2>6. CASE outcome = "Completed" /\ CompleteUpload(j, cur.up) /\ Goto("Mark", cur) /\ UNCHANGED <<task, kept, faults>>
    BY <1>2, <2>6
  <2> QED BY <2>3, <2>4, <2>5, <2>6 DEF Complete
<1> QED BY <1>2, <1>3 DEF Complete

LEMMA MarkStep ==
  ASSUME Inv, NEW j \in Jobs, Mark(j) PROVE Inv' /\ SentStep
<1>1. ServerInv' /\ Onwards
  BY Still DEF Mark, Inv, server
<1>2. j \in staged
  BY DEF Mark, At, Inv, ClientInv, HandSound
<1> QED BY <1>1, <1>2, Marked, RunEnds, Together DEF Mark, server, Inv, ClientInv, LocalOK

LEMMA CancelUploadStep ==
  ASSUME Inv, NEW j \in Jobs, CancelUpload(j) PROVE Inv' /\ SentStep
<1> DEFINE old     == session[j][cur.up]
           refused == old.status = "Completed" \/ (old.status # "Cancelled" /\ job[j] # "Preparing")
           s       == Ended(old, "Cancelled")
<1>0. /\ At("CancelHeld", j) \/ At("CancelPut", j)
      /\ UNCHANGED <<job, skipped, revived, prepared, recorded, photo, decoder, staged>>
      /\ UNCHANGED session \/ session' = [session EXCEPT ![j][cur.up] = s]
      /\ \/ ~refused /\ pc = "CancelHeld" /\ Replan(j) /\ UNCHANGED faults
         \/ ~refused /\ pc = "CancelPut" /\ Defer(j) /\ Done(j) /\ UNCHANGED <<deferred, faults>>
         \/ refused /\ pc = "CancelHeld" /\ MarkSent(j) /\ Done(j) /\ UNCHANGED <<deferred, faults>>
         \/ refused /\ pc = "CancelPut" /\ Defer(j) /\ Stop /\ UNCHANGED faults
         \/ Unreachable(j)
  BY DEF CancelUpload
<1>1. cur \in Hand /\ cur.job = j /\ Known(j, cur.up)
  BY <1>0, InHand DEF HandLabels, UpLabels
<1>2. old \in Session /\ cur.up \in Sessions /\ old.status # "None"
  BY <1>1 DEF Known, Inv, ServerInv, ServerOK
<1>3. ServerInv' /\ Onwards
  <2>1. CASE session' = [session EXCEPT ![j] = [@ EXCEPT ![cur.up] = s]]
    BY <1>0, <1>2, <2>1, EndSession DEF Inv
  <2>2. CASE UNCHANGED session
    BY <1>0, <2>2, Still DEF Inv
  <2> QED BY <1>0, <2>1, <2>2
<1>4. ASSUME TaskPart, RunPart, SentStep, Fault \/ UNCHANGED faults PROVE Inv' /\ SentStep
  BY <1>0, <1>3, <1>4, Together DEF Inv, ClientInv, LocalOK
<1>5. refused => j \in staged \/ old.status = "Expired"
  <2>1. old.status = "Uploading" => job[j] = "Preparing"
    BY <1>2 DEF Inv, ServerInv, OpenIsPreparing
  <2>2. old.status = "Completed" => j \in staged
    BY <1>2 DEF Inv, ServerInv, StagedKnown
  <2> QED BY <1>2, <2>1, <2>2, SessionIs DEF SessionStatuses
<1> HIDE DEF refused
<1>6. CASE Replan(j) /\ UNCHANGED faults
  BY <1>1, <1>3, <1>4, <1>6, ReplanPart
<1>7. CASE Defer(j) /\ ((Done(j) /\ UNCHANGED deferred) \/ Stop) /\ UNCHANGED faults
  BY <1>3, <1>4, <1>7, PutOff, RunEnds
<1>8. CASE refused /\ pc = "CancelHeld" /\ MarkSent(j) /\ Done(j) /\ UNCHANGED <<deferred, faults>>
  BY <1>3, <1>4, <1>5, <1>8, Marked, RunEnds
<1>9. CASE Unreachable(j)
  BY <1>3, <1>4, <1>9, Lost
<1> QED BY <1>0, <1>6, <1>7, <1>8, <1>9

LEMMA StatusStep ==
  ASSUME Inv, NEW j \in Jobs, Status(j) PROVE Inv' /\ SentStep
<1>1. ServerInv' /\ Onwards
  BY Still DEF Status, Inv, server
<1>2. (UnderWay(j) /\ MarkSent(j)) \/ Defer(j) \/ Quarantine(j)
  BY DEF Status
<1>3. UnderWay(j) => j \in staged
  BY DEF UnderWay, Inv, ServerInv, StagedKnown
<1>4. TaskPart /\ SentStep
  BY <1>1, <1>2, <1>3, Marked, PutOff
<1>5. RunPart /\ (Fault \/ UNCHANGED faults)
  BY RunEnds DEF Status
<1> QED BY <1>1, <1>4, <1>5, Together DEF Status, server, Inv, ClientInv, LocalOK

-----------------------------------------------------------------------------
(* The user, the clock, the other clients and the server's worker.         *)

LEMMA KillStep ==
  ASSUME Inv, Kill PROVE Inv' /\ SentStep
<1>1. ServerInv' /\ Onwards
  BY Still DEF Kill, Inv, server
<1> QED BY <1>1, TasksUntouched, RunEnds, Together DEF Kill, server, local, Inv, ClientInv, LocalOK

LEMMA RetryTaskStep ==
  ASSUME Inv, NEW j \in Jobs, RetryTask(j) PROVE Inv' /\ SentStep
<1>1. ServerInv' /\ Onwards
  BY Still DEF RetryTask, Inv, server
<1>2. task' \in [Jobs -> Task] /\ ConfirmedIsDone' /\ task[j].state # "Sent" /\ task'[j].state # "Sent"
      /\ \A k \in Jobs : k # j => task'[k] = task[k]
  BY <1>1, TaskSet DEF RetryTask, Sets, Inv, ClientInv
<1>3. RunOK' /\ HandSound' /\ PlansNamed'
  BY <1>1, HandKept, PlansKept DEF RetryTask, run, Inv, ClientInv
<1>4. CheckSent'
  BY <1>2 DEF RetryTask, run, Inv, ClientInv, RunOK, CheckSent
<1>5. LocalOK'
  BY <1>2 DEF RetryTask, server, run, Inv, ClientInv, LocalOK
<1> QED BY <1>1, <1>2, <1>3, <1>4, <1>5 DEF Inv, ClientInv, SentStep

LEMMA TimePassesStep ==
  ASSUME Inv, NEW j \in Jobs, TimePasses(j) PROVE Inv' /\ SentStep
<1>1. ServerInv' /\ Onwards
  BY Still DEF TimePasses, Inv, server
<1> DEFINE row == [task[j] EXCEPT !.due = "now"]
<1>2. task[j] \in Task /\ row \in Task /\ row.state = task[j].state /\ row.due = "now"
  BY DEF Inv, ClientInv, LocalOK, Task
<1>3. task' = [task EXCEPT ![j] = row]
  BY DEF TimePasses
<1> HIDE DEF row
<1>4. task' \in [Jobs -> Task] /\ \A k \in Jobs : task'[k] = IF k = j THEN row ELSE task[k]
  BY <1>2, <1>3 DEF Inv, ClientInv, LocalOK
<1>5. Row("Sent", "never").due = "never"
  BY RowIs
<1>6. ConfirmedIsDone'
  BY <1>1, <1>2, <1>4, <1>5 DEF Inv, ClientInv, ConfirmedIsDone, Onwards
<1>7. RunOK' /\ HandSound' /\ PlansNamed'
  BY <1>1, HandKept, PlansKept DEF TimePasses, run, Inv, ClientInv
<1>8. CheckSent'
  BY <1>2, <1>4 DEF TimePasses, run, Inv, ClientInv, RunOK, CheckSent
<1>9. LocalOK'
  BY <1>4 DEF TimePasses, server, run, Inv, ClientInv, LocalOK
<1> QED BY <1>1, <1>2, <1>4, <1>6, <1>7, <1>8, <1>9 DEF Inv, ClientInv, SentStep

LEMMA EditPhotoStep ==
  ASSUME Inv, NEW j \in Jobs, EditPhoto(j) PROVE Inv' /\ SentStep
<1>1. ServerInv' /\ Onwards
  BY Still DEF EditPhoto, Inv, server
<1>2. photo' \in [Jobs -> {"Plain", "Modern", "Changed", "Gone"}]
  BY DEF EditPhoto, Inv, ClientInv, LocalOK
<1> QED BY <1>1, <1>2, Beside DEF EditPhoto, server, local, run, Inv, ClientInv, LocalOK

LEMMA UpgradeStep ==
  ASSUME Inv, Upgrade PROVE Inv' /\ SentStep
<1>1. ServerInv' /\ Onwards
  BY Still DEF Upgrade, Inv
<1>2. RunOK' /\ HandSound' /\ PlansNamed' /\ ConfirmedIsDone'
  BY <1>1, HandKept, PlansKept, TaskKept DEF Upgrade, run, Inv, ClientInv
<1>3. decoder' \in 1..2 /\ recorded' \in BOOLEAN /\ revived' \subseteq Jobs
  <2>1. decoder' = 2 /\ ~recorded' /\ revived' = {}
    BY DEF Upgrade
  <2>2. recorded' \in BOOLEAN
    BY DEF Upgrade
  <2> QED BY <2>1, <2>2
<1>4. LocalOK'
  BY <1>3 DEF Upgrade, run, Inv, ClientInv, LocalOK
<1>5. CheckSent'
  BY DEF Upgrade, run, Inv, ClientInv, CheckSent
<1> QED BY <1>1, <1>2, <1>4, <1>5 DEF Inv, ClientInv, SentStep, Upgrade

\* A step beside the client that touches the jobs of the server only.
LEMMA JobStep ==
  ASSUME Inv, NEW j \in Jobs, NEW status \in Statuses, job' = [job EXCEPT ![j] = status],
         job[j] \notin {"Preparing", "Succeeded"},
         status \in {"Queued", "Succeeded"} => job[j] = "Queued",
         UNCHANGED <<session, skipped, revived, local, photo, decoder, run, faults, staged>>
  PROVE  Inv' /\ SentStep
<1>1. job' \in [Jobs -> Statuses] /\ \A k \in Jobs : job'[k] = IF k = j THEN status ELSE job[k]
  BY DEF Inv, ServerInv, ServerOK
<1>2. ServerInv' /\ Onwards
  BY <1>1, OnlyJobs DEF Inv
<1> QED BY <1>2, Beside DEF local, run, Inv, ClientInv, LocalOK

LEMMA WorkStep ==
  ASSUME Inv, NEW j \in Jobs, Work(j) PROVE Inv' /\ SentStep
<1>1. PICK status \in {"Succeeded", "Failed", "DeferredQuota"} : job' = [job EXCEPT ![j] = status]
  BY DEF Work
<1> QED BY <1>1, JobStep DEF Work, Statuses

LEMMA RetryJobStep ==
  ASSUME Inv, NEW j \in Jobs, RetryJob(j) PROVE Inv' /\ SentStep
BY JobStep DEF RetryJob, Statuses

LEMMA QuotaReturnsStep ==
  ASSUME Inv, NEW j \in Jobs, QuotaReturns(j) PROVE Inv' /\ SentStep
BY JobStep DEF QuotaReturns, Statuses

LEMMA WithdrawStep ==
  ASSUME Inv, NEW j \in Jobs, Withdraw(j) PROVE Inv' /\ SentStep
<1>1. ServerInv' /\ Onwards
  BY WithdrawnStep DEF Withdraw, Inv
<1> QED BY <1>1, Beside DEF Withdraw, local, run, Inv, ClientInv, LocalOK

LEMMA OtherClientStep ==
  ASSUME Inv, NEW j \in Jobs, OtherClient(j) PROVE Inv' /\ SentStep
<1>0. Fault /\ UNCHANGED <<local, photo, decoder, run>> /\ faults' \in 0..MaxFaults
  BY FaultIs DEF OtherClient, Inv, ClientInv, LocalOK
<1>1. ASSUME ServerInv', Onwards, UNCHANGED <<skipped, revived>> PROVE Inv' /\ SentStep
  BY <1>0, <1>1, Beside DEF local, run, Inv, ClientInv, LocalOK
<1>2. ASSUME NEW plan \in Plans(j), job[j] \in {"Preparing", "QuotaDue"}, CreatePlan(j, plan), UNCHANGED staged
      PROVE  Inv' /\ SentStep
  BY <1>1, <1>2, PlanStep DEF Inv
<1>3. ASSUME NEW u \in Live(j), CompleteUpload(j, u)
      PROVE  Inv' /\ SentStep
  BY <1>1, <1>3, CompleteStep DEF Inv, Live
<1>4. ASSUME NEW u \in Live(j), session' = [session EXCEPT ![j][u] = Ended(@, "Cancelled")],
             UNCHANGED <<job, skipped, revived, staged>>
      PROVE  Inv' /\ SentStep
  <2>1. session' = [session EXCEPT ![j] = [@ EXCEPT ![u] = Ended(session[j][u], "Cancelled")]]
    BY <1>4 DEF Inv, ServerInv, ServerOK
  <2> QED BY <1>1, <1>4, <2>1, EndSession DEF Inv, Live
<1> QED BY <1>2, <1>3, <1>4 DEF OtherClient

LEMMA SessionLateStep ==
  ASSUME Inv, NEW j \in Jobs, NEW u \in Sessions, SessionLate(j, u) PROVE Inv' /\ SentStep
<1> DEFINE old == session[j][u]
           s   == [old EXCEPT !.late = TRUE]
<1>1. old \in Session /\ s \in Session /\ s.status = old.status /\ s.done = old.done
  BY LateIs DEF Inv, ServerInv, ServerOK
<1>2. session' = [session EXCEPT ![j] = [@ EXCEPT ![u] = s]]
  BY DEF SessionLate
<1>3. old.status = "Uploading" /\ job[j] = "Preparing"
  BY DEF SessionLate, Uploading, Inv, ServerInv, OpenIsPreparing
<1>4. old.done => j \in staged
  BY DEF Inv, ServerInv, StagedKnown
<1>5. UNCHANGED <<job, skipped, revived, local, photo, decoder, run, faults, staged>>
  BY DEF SessionLate
<1> HIDE DEF s
<1>6. ServerInv' /\ Onwards
  BY <1>1, <1>2, <1>3, <1>4, <1>5, OneSession DEF Inv, ServerInv, ServerOK
<1> QED BY <1>5, <1>6, Beside DEF local, run, Inv, ClientInv, LocalOK

-----------------------------------------------------------------------------
(* The theorems.                                                           *)

LEMMA InitInv == Init => Inv
<1> SUFFICES ASSUME Init PROVE Inv
  OBVIOUS
<1>1. NoSession \in Session /\ NoSession.status = "None" /\ NoSession.done = FALSE
  BY DEF NoSession, Session
<1>2. ServerInv
  BY <1>1 DEF Init, ServerInv, ServerOK, Statuses, OpenIsPreparing, OneOpen, StagedKnown
<1>3. [state |-> "None", due |-> "never"] \in Task /\ Row("Sent", "never").state = "Sent"
  BY RowIs DEF Task
<1>4. task \in [Jobs -> Task] /\ ConfirmedIsDone
  BY <1>3 DEF Init, ConfirmedIsDone
<1>5. kept \in [Jobs -> [0..1 -> Plan \cup {None}]] /\ PlansNamed
  BY DEF Init, PlansNamed
<1>6. photo \in [Jobs -> {"Plain", "Modern", "Changed", "Gone"}] /\ faults \in 0..MaxFaults
  <2>1. photo \in [Jobs -> Formats] /\ faults = 0
    BY DEF Init
  <2>2. Formats \subseteq {"Plain", "Modern", "Changed", "Gone"}
    BY BoundsAssumption
  <2>3. photo \in [Jobs -> {"Plain", "Modern", "Changed", "Gone"}]
    BY <2>1, <2>2
  <2>4. faults \in 0..MaxFaults
    BY <2>1, BoundsAssumption
  <2> QED BY <2>3, <2>4
<1>7. LocalOK
  <2>1. /\ skipped = {} /\ revived = {} /\ prepared = None /\ decoder = 1
        /\ recorded \in BOOLEAN /\ deferred \in BOOLEAN
    BY DEF Init
  <2> QED BY <1>4, <1>5, <1>6, <2>1 DEF LocalOK
<1>8. RunOK /\ HandSound /\ CheckSent
  BY DEF Init, RunOK, HandSound, CheckSent, Labels, HandLabels, UpLabels
<1> QED BY <1>2, <1>4, <1>5, <1>7, <1>8 DEF Inv, ClientInv

LEMMA StutterInv == ASSUME Inv, UNCHANGED vars PROVE Inv' /\ SentStep
<1>1. ServerInv' /\ Onwards
  BY Still DEF vars, server, Inv
<1> QED BY <1>1, Beside DEF vars, server, local, run, Inv, ClientInv, LocalOK

LEMMA NextInv == ASSUME Inv, [Next]_vars PROVE Inv' /\ SentStep
<1>1. CASE Client
  <2>1. ASSUME NEW j \in Jobs, Local(j) PROVE Inv' /\ SentStep
    BY <2>1, CheckStep, RecoverStep, TakeStep, SkipStep, RequestPlanStep, PlannedStep, GetSessionStep,
       PutStep, CompleteActionStep, MarkStep, CancelUploadStep, StatusStep DEF Local
  <2> QED BY <1>1, <2>1, StartRunStep, PrepareStep, QueueStep, NewKeyStep, EndCheckStep, EndRecoverStep,
             EndFlushStep DEF Client
<1>2. ASSUME NEW j \in Jobs,
             \/ RetryTask(j) \/ TimePasses(j) \/ EditPhoto(j) \/ Work(j) \/ RetryJob(j)
             \/ Withdraw(j) \/ OtherClient(j) \/ QuotaReturns(j)
             \/ \E u \in Sessions : SessionLate(j, u)
      PROVE  Inv' /\ SentStep
  BY <1>2, RetryTaskStep, TimePassesStep, EditPhotoStep, WorkStep, RetryJobStep, WithdrawStep,
     OtherClientStep, QuotaReturnsStep, SessionLateStep
<1> QED BY <1>1, <1>2, KillStep, UpgradeStep, StutterInv DEF Next

LEMMA Invariance == Spec => []Inv
<1>1. Inv /\ [Next]_vars => Inv'
  BY NextInv
<1> QED BY <1>1, InitInv, PTL DEF Spec

\* Whatever the number of photos, killed runs, lost answers and other clients:
\* the client's tables are well formed, and a task the client stopped asking
\* about (confirm_description_complete) has a job that has succeeded.
THEOREM TasksAreSound == Spec => []TasksSound
<1>1. Inv => TasksSound
  BY DEF Inv, ServerInv, ServerOK, ClientInv, LocalOK, RunOK, Labels, HandLabels, TypeOK, TasksSound
<1> QED BY <1>1, Invariance, PTL

\* A job never has two open upload sessions, although plans are asked for
\* again under other keys, sessions run out before the server notices, and
\* several clients plan for the same job (create_upload_plan).
THEOREM OneSessionIsOpen == Spec => []OneOpenSession
<1>1. Inv => OneOpenSession
  BY DEF Inv, ServerInv, OneOpen, OneOpenSession, Uploading
<1> QED BY <1>1, Invariance, PTL

\* A step that marks a task as sent finds its preview among those the server
\* took, or has been answered by cancel_upload about a lease that ran out.
THEOREM SentTasksWereStaged == Spec => SentWasStaged
<1>1. Inv /\ [Next]_vars => SentStep
  BY NextInv
<1>2. Inv /\ [Next]_vars =>
        [\A j \in Jobs : task'[j].state = "Sent" /\ task[j].state # "Sent" =>
           j \in staged \/ (pc = "CancelHeld" /\ session[j][cur.up].status = "Expired")]_vars
  BY <1>1 DEF SentStep
<1> QED BY <1>2, Invariance, PTL DEF Spec, SentWasStaged
=============================================================================
