--------------------------- MODULE DescriptionJobs ---------------------------
(***************************************************************************)
(* The life of scene-description jobs.  A client asks for an upload plan,  *)
(* puts a preview into the object store and completes the upload; the job  *)
(* is then queued, leased by a worker, charged, described by the provider  *)
(* and cleaned up after.  Planning an upload reserves one request and a    *)
(* price in dollars; what follows settles, returns or renews both.         *)
(*                                                                         *)
(* An asset has one description job.  One user, one cloud provider; a job  *)
(* may instead be claimed by a device that calls the provider with the     *)
(* user's own key (services/domain/byok.py).  Actions are database         *)
(* transactions, steps of the client, of the worker or of the clock.       *)
(***************************************************************************)
EXTENDS Naturals, FiniteSets, ProviderLedger

CONSTANTS
  Assets,       \* photos of the user
  Uploads,      \* upload sessions (bound)
  Claims,       \* BYOK claims of devices (bound; may be empty)
  Workers,      \* concurrent executions of the worker Lambda
  MessageIds,   \* identities of the messages outstanding for one job (bound)
  Limit,        \* monthly request limit
  UsdLimit,     \* monthly spend limit
  Price,        \* what a request reserves of it
  MaxAttempts,  \* ProcessingJob.max_attempts
  MaxMonth,     \* last calendar month of the model (bound)
  None          \* no upload, claim, lease, message, asset

ASSUME LimitAssumption ==
  /\ Limit \in Nat /\ UsdLimit \in Nat
  /\ Price \in Nat \ {0} /\ MaxAttempts \in Nat \ {0} /\ MaxMonth \in Nat \ {0}

ASSUME SetAssumption ==
  /\ IsFiniteSet(Assets)
  /\ None \notin Assets \cup Uploads \cup Claims \cup MessageIds \cup (Assets \X MessageIds)

Messages == Assets \X MessageIds
Months   == 1..MaxMonth
Never    == 0

VARIABLES
  active,     \* asset -> MediaAsset.lifecycle_state is "Active"
  described,  \* asset -> it has a current description
  byok,       \* asset -> the BYOK claim on its job
  job,        \* asset -> ProcessingJob row
  upload,     \* upload -> UploadSession row
  objects,    \* uploads whose preview is in the object store
  reqs,       \* month -> ledger row counting requests, with the circuit
  usd,        \* month -> ledger row counting dollars
  month,      \* the current calendar month
  queue,      \* messages the queue may deliver
  pc,         \* worker -> its next step
  task,       \* worker -> the message it was invoked with
  claim,      \* worker -> the upload named by the job it claimed
  fault,      \* worker -> the failure it is about to report
  charge,     \* worker -> month the call it may make is charged to (history)
  calls       \* month -> provider calls made against that month (history)

photo   == <<active, described, byok>>
ledgers == <<reqs, usd>>
process == <<pc, task, claim, fault, charge>>
vars == <<photo, job, upload, objects, ledgers, month, queue, process, calls>>

-----------------------------------------------------------------------------
\* The columns of a job row.  code tells the failure codes apart that later
\* decisions read; req and cost are the months of the request and the dollar
\* reservation while their state is "Reserved"; consumed is the month of
\* providerRequestConsumption while its state is "Consumed"; staged is the
\* uploadSessionId of the staging fields.
JobRow == [status: {"None", "Preparing", "Queued", "Running", "DeferredQuota",
                    "Succeeded", "Failed", "Cancelled"},
           code: {"None", "ProviderCircuitOpen", "Skipped", "Other"},
           attempts: 0..MaxAttempts, due: 0..(MaxMonth + 1),
           lease: MessageIds \cup {None}, live: BOOLEAN,
           req: Months \cup {Never}, cost: Months \cup {Never},
           consumed: Months \cup {Never}, staged: Uploads \cup {None},
           blocked: BOOLEAN]

NoJob == [status |-> "None", code |-> "None", attempts |-> 0, due |-> Never,
          lease |-> None, live |-> FALSE, req |-> Never, cost |-> Never,
          consumed |-> Never, staged |-> None, blocked |-> FALSE]

\* late: expires_at_utc has passed.  The active lease marker of the row is set
\* exactly while its status is "Uploading".
UploadRow == [asset: Assets \cup {None}, late: BOOLEAN,
              status: {"None", "Uploading", "Completed", "Expired", "Cancelled"}]

\* Failures by what the worker does with them, and whether the provider may
\* have accepted the request.
Kinds  == {"Transient", "Auth", "Internal", "Quota"}
Faults == [kind: Kinds, called: BOOLEAN]
NoFault == [kind |-> "Internal", called |-> FALSE]

Steps == {"Idle", "Presign", "Reserve", "Defer", "Consume", "Call", "Complete",
          "Fail", "Clean", "Ack"}

TypeOK ==
  /\ active \in [Assets -> BOOLEAN] /\ described \in [Assets -> BOOLEAN]
  /\ byok    \in [Assets -> Claims \cup {None}]
  /\ job     \in [Assets -> JobRow]
  /\ upload  \in [Uploads -> UploadRow]
  /\ objects \subseteq Uploads
  /\ reqs    \in [Months -> LedgerRow] /\ usd \in [Months -> LedgerRow]
  /\ month   \in Months
  /\ queue   \subseteq Messages
  /\ pc      \in [Workers -> Steps]
  /\ task    \in [Workers -> Messages \cup {None}]
  /\ claim   \in [Workers -> Uploads \cup {None}]
  /\ fault   \in [Workers -> Faults]
  /\ charge  \in [Workers -> Months \cup {Never}]
  /\ calls   \in [Months -> Nat]

Init ==
  /\ active  = [a \in Assets |-> TRUE]
  /\ described = [a \in Assets |-> FALSE]
  /\ byok    = [a \in Assets |-> None]
  /\ job     = [a \in Assets |-> NoJob]
  /\ upload  = [u \in Uploads |-> [asset |-> None, late |-> FALSE, status |-> "None"]]
  /\ objects = {}
  /\ reqs    = [m \in Months |-> NewRow]
  /\ usd     = [m \in Months |-> NewRow]
  /\ month   = 1
  /\ queue   = {}
  /\ pc      = [w \in Workers |-> "Idle"]
  /\ task    = [w \in Workers |-> None]
  /\ claim   = [w \in Workers |-> None]
  /\ fault   = [w \in Workers |-> NoFault]
  /\ charge  = [w \in Workers |-> Never]
  /\ calls   = [m \in Months |-> 0]

-----------------------------------------------------------------------------
(* Rows and ledgers.                                                       *)

\* Operators named after a definition with a suffix in "Bug" are faulty
\* variants of it, for the property named beside each.

Expired(a) == job[a].status = "Running" /\ ~job[a].live

\* OneClaimant: a lease that any delivery of the job may use.
HasLeaseBug(a, id) == job[a].status = "Running" /\ job[a].live

HasLease(a, id) == job[a].status = "Running" /\ job[a].live /\ job[a].lease = id

Exhausted(a) == job[a].attempts >= MaxAttempts

\* The request was consumed and the dollars were not: a worker is, or was,
\* about to call the provider.
CallStarted(row) == row.cost # Never /\ row.req = Never

HoldReq(S, m)  == Cardinality({a \in S : job[a].req = m})
HoldCost(S, m) == Cardinality({a \in S : job[a].cost = m})

\* The dollar row after units reserved are taken back and paid are charged.
Pay(row, units, paid) ==
  [row EXCEPT !.reserved = @ - Lesser(@, units), !.processed = @ + paid]

\* The request row after n consumed requests turn out not to have been made.
Uncharge(row, n) == [row EXCEPT !.processed = @ - Lesser(@, n)]

\* _settle_provider_reservation and _settle_description_cost_reservation of the
\* jobs in C, whose provider was called, and in R, whose provider was not.  A
\* cost given back also gives back the request last consumed.
SettleReqs(C, R) ==
  [m \in Months |->
     Uncharge(Settle(reqs[m], HoldReq(C, m), HoldReq(R, m)),
              Cardinality({a \in R : job[a].cost # Never /\ job[a].consumed = m}))]

SettleUsd(C, R) ==
  [m \in Months |-> Pay(usd[m], Price * HoldCost(C \cup R, m), Price * HoldCost(C, m))]

SettledRow(row, called) ==
  [row EXCEPT !.req = Never, !.cost = Never,
              !.consumed = IF ~called /\ row.cost # Never THEN Never ELSE @]

\* _release_description_provider_request of the jobs in S.
ReturnReqs(S) == [m \in Months |-> Settle(reqs[m], 0, HoldReq(S, m))]
ReturnUsd(S)  == [m \in Months |-> Settle(usd[m], 0, Price * HoldCost(S, m))]
ReturnedRow(row) == [row EXCEPT !.req = Never, !.cost = Never]

Moved(row, status, code, due) ==
  [row EXCEPT !.status = status, !.code = code, !.due = due,
              !.lease = None, !.live = FALSE]
Unstaged(row) == [row EXCEPT !.staged = None]
Circuit(ledger, row) == [ledger EXCEPT ![month] = row]

\* _reserve_description_usage for a job row on the ledgers q and d: whether it
\* was granted, and what it left behind.
ReserveBoth(row, q, d) ==
  LET both == row.req = month /\ row.cost = month
      one  == ~both /\ (row.req = month \/ row.cost = month)
      back(ledger, held, units) ==
        [m \in Months |-> Settle(ledger[m], 0, IF one /\ held = m THEN units ELSE 0)]
      q1   == [back(q, row.req, 1) EXCEPT ![month].exists = TRUE]
      d1   == [back(d, row.cost, Price) EXCEPT ![month].exists = TRUE]
      row1 == IF one THEN ReturnedRow(row) ELSE row
      fits == Fits(q1[month], 1, Limit) /\ Fits(d1[month], Price, UsdLimit)
  IN  IF q1[month].open
      THEN [granted |-> FALSE, row |-> [row1 EXCEPT !.blocked = TRUE], reqs |-> q1, usd |-> d1]
      ELSE IF both
      THEN [granted |-> TRUE, row |-> [row1 EXCEPT !.blocked = FALSE], reqs |-> q, usd |-> d]
      ELSE IF ~fits
      THEN [granted |-> FALSE, row |-> row1, reqs |-> q1, usd |-> d1]
      ELSE [granted |-> TRUE,
            row  |-> [row1 EXCEPT !.req = month, !.cost = month, !.blocked = FALSE],
            reqs |-> Circuit(q1, Reserve(q1[month], 1)),
            usd  |-> Circuit(d1, Reserve(d1[month], Price))]

\* SQS gives every message it accepts a new identity; a dispatch follows the
\* commit and may fail for some or all of its jobs.
FreshIds(a) ==
  {id \in MessageIds : /\ <<a, id>> \notin queue
                       /\ \A w \in Workers : task[w] # <<a, id>>
                       /\ ~HasLease(a, id)}

Sent(S, batch) ==
  /\ batch \subseteq Messages
  /\ \A msg \in batch : msg[1] \in S /\ msg[2] \in FreshIds(msg[1])
  /\ \A m1, m2 \in batch : m1[1] = m2[1] => m1 = m2
  /\ queue' = queue \cup batch

Dispatch(S) == \E batch \in SUBSET {msg \in Messages : msg[1] \in S} : Sent(S, batch)

-----------------------------------------------------------------------------
(* The client and the API: requests, upload sessions and BYOK claims.      *)

Uploading(u) == upload[u].status = "Uploading"
ActiveUpload(a) == \E u \in Uploads : Uploading(u) /\ upload[u].asset = a

\* prepare_enrichment: a new job, or the request of a job still in preparation
\* built anew from the configuration.
PrepareEnrichment(a) ==
  /\ active[a] /\ ~described[a] /\ byok[a] = None
  /\ job[a].status \in {"None", "Preparing"}
  /\ job' = [job EXCEPT ![a] =
       [NoJob EXCEPT !.status = "Preparing", !.attempts = job[a].attempts]]
  /\ UNCHANGED <<photo, upload, objects, ledgers, month, queue, process, calls>>

\* create_upload_plan with u as the session it may open.  Sessions of the user
\* that ran out are expired first.
CreateUploadPlan(a, u) ==
  LET due   == job[a].status = "DeferredQuota" /\ job[a].due \in 1..month
      stale == {v \in Uploads : Uploading(v) /\ upload[v].late}
      held  == \E v \in Uploads \ stale : Uploading(v) /\ upload[v].asset = a
      back  == {b \in Assets : \/ b = a /\ due
                               \/ /\ job[b].status = "Preparing" \/ b = a
                                  /\ \E v \in stale : upload[v].asset = b}
      base  == [b \in Assets |-> IF b \in back THEN ReturnedRow(job[b]) ELSE job[b]]
      start == IF due THEN [base[a] EXCEPT !.status = "Preparing", !.code = "None",
                                           !.attempts = 0, !.due = Never]
                      ELSE base[a]
      plan  == ReserveBoth(start, ReturnReqs(back), ReturnUsd(back))
      gone  == [v \in Uploads |-> IF v \in stale
                                  THEN [upload[v] EXCEPT !.status = "Expired"]
                                  ELSE upload[v]]
  IN  /\ active[a] /\ ~described[a] /\ byok[a] = None
      /\ due \/ job[a].status = "Preparing"
      /\ upload[u].status = "None"
      /\ objects' = objects \ stale
      /\ \/ /\ held
            /\ job' = [base EXCEPT ![a] = start]
            /\ reqs' = ReturnReqs(back) /\ usd' = ReturnUsd(back)
            /\ upload' = gone
         \/ /\ ~held
            /\ reqs' = plan.reqs /\ usd' = plan.usd
            /\ \/ /\ plan.granted
                  /\ job' = [base EXCEPT ![a] = plan.row]
                  /\ upload' = [gone EXCEPT ![u] =
                       [asset |-> a, late |-> FALSE, status |-> "Uploading"]]
               \/ /\ ~plan.granted
                  /\ job' = [base EXCEPT ![a] = Moved(plan.row, "DeferredQuota",
                       IF plan.row.blocked THEN "ProviderCircuitOpen" ELSE "Other", month + 1)]
                  /\ upload' = gone
      /\ UNCHANGED <<photo, month, queue, process, calls>>

\* The client puts the preview.  One put when the session is already over is
\* left to the bucket's lifecycle rule, and no handler looks at it.
PutObject(u) ==
  /\ Uploading(u) /\ ~upload[u].late
  /\ objects' = objects \cup {u}
  /\ UNCHANGED <<photo, job, upload, ledgers, month, queue, process, calls>>

\* ReservationsInUse: an expiry that keeps the reservations.
GetUploadSessionBug(u) ==
  /\ Uploading(u) /\ upload[u].late
  /\ upload' = [upload EXCEPT ![u].status = "Expired"]
  /\ objects' = objects \ {u}
  /\ UNCHANGED <<photo, job, ledgers, month, queue, process, calls>>

\* get_upload_session finds that the session has run out.
GetUploadSession(u) ==
  LET a == upload[u].asset
      S == {b \in {a} : job[b].status = "Preparing"}
  IN  /\ Uploading(u) /\ upload[u].late
      /\ upload' = [upload EXCEPT ![u].status = "Expired"]
      /\ objects' = objects \ {u}
      /\ job' = [b \in Assets |-> IF b \in S THEN ReturnedRow(job[b]) ELSE job[b]]
      /\ reqs' = ReturnReqs(S) /\ usd' = ReturnUsd(S)
      /\ UNCHANGED <<photo, month, queue, process, calls>>

\* StagedPreviewKept: the store is not asked whether the preview arrived.
CompleteUploadBug(u) ==
  LET a == upload[u].asset
  IN  /\ Uploading(u) /\ ~upload[u].late
      /\ job[a].status = "Preparing" /\ byok[a] = None
      /\ upload' = [upload EXCEPT ![u].status = "Completed"]
      /\ job' = [job EXCEPT ![a] =
                   [Moved(@, "Queued", "None", month) EXCEPT !.staged = u]]
      /\ Dispatch({a})
      /\ UNCHANGED <<photo, objects, ledgers, month, process, calls>>

CompleteUpload(u) ==
  LET a == upload[u].asset
  IN  /\ Uploading(u) /\ ~upload[u].late /\ u \in objects
      /\ job[a].status = "Preparing" /\ byok[a] = None
      /\ upload' = [upload EXCEPT ![u].status = "Completed"]
      /\ job' = [job EXCEPT ![a] =
                   [Moved(@, "Queued", "None", month) EXCEPT !.staged = u]]
      /\ Dispatch({a})
      /\ UNCHANGED <<photo, objects, ledgers, month, process, calls>>

CancelUpload(u) ==
  LET a == upload[u].asset
  IN  /\ upload[u].status \in {"Uploading", "Expired"}
      /\ job[a].status = "Preparing"
      /\ upload' = [upload EXCEPT ![u].status = "Cancelled"]
      /\ objects' = objects \ {u}
      /\ job' = [job EXCEPT ![a] = [Unstaged(ReturnedRow(@)) EXCEPT !.due = Never]]
      /\ reqs' = ReturnReqs({a}) /\ usd' = ReturnUsd({a})
      /\ UNCHANGED <<photo, month, queue, process, calls>>

\* retry_job: the preview must be staged again.  If the circuit is open it is
\* closed and the jobs it had deferred go back to preparation with this one.
RetryJob(a) ==
  LET open == byok[a] = None /\ reqs[month].open
      recovered == {b \in Assets \ {a} : /\ open
                                         /\ job[b].status = "DeferredQuota"
                                         /\ job[b].code = "ProviderCircuitOpen"}
      returned == [ReturnReqs({a}) EXCEPT ![month].open = IF open THEN FALSE ELSE @]
  IN  /\ \/ job[a].status = "Failed" /\ ~Exhausted(a)
         \/ job[a].status = "DeferredQuota"
         \/ job[a].status = "Cancelled" /\ job[a].code = "Skipped"
      /\ reqs' = returned /\ usd' = ReturnUsd({a})
      /\ job' = [b \in Assets |->
           IF b = a
           THEN [Moved(Unstaged(ReturnedRow(job[b])), "Preparing", "None", Never) EXCEPT
                   !.attempts = IF job[b].status = "DeferredQuota" THEN 0 ELSE @]
           ELSE IF b \in recovered
           THEN [Moved(Unstaged(job[b]), "Preparing", "None", Never) EXCEPT
                   !.attempts = 0, !.blocked = FALSE]
           ELSE job[b]]
      /\ UNCHANGED <<photo, upload, objects, month, queue, process, calls>>

\* ReservationsBacked: the ledgers are settled and the rows are not.
StopJobsBug(S, code) ==
  LET called == {a \in S : CallStarted(job[a])}
  IN  /\ reqs' = SettleReqs(called, S \ called) /\ usd' = SettleUsd(called, S \ called)
      /\ job' = [a \in Assets |-> IF a \in S THEN Moved(job[a], "Cancelled", code, Never)
                                              ELSE job[a]]

\* LeasesSound: only the request is settled.
StopJobsUsdBug(S, code) ==
  /\ reqs' = ReturnReqs(S) /\ usd' = usd
  /\ job' = [a \in Assets |-> IF a \in S
                             THEN Moved([job[a] EXCEPT !.req = Never], "Cancelled", code, Never)
                             ELSE job[a]]

\* The jobs in S stop, whether or not their provider was called.
StopJobs(S, code) ==
  LET called == {a \in S : CallStarted(job[a])}
  IN  /\ reqs' = SettleReqs(called, S \ called) /\ usd' = SettleUsd(called, S \ called)
      /\ job' = [a \in Assets |->
           IF a \in S
           THEN Moved(SettledRow(job[a], a \in called), "Cancelled", code, Never)
           ELSE job[a]]

\* So do the uploads of an asset, whose previews are deleted.
StopUploads(a) ==
  LET S == {u \in Uploads : /\ upload[u].asset = a
                            /\ upload[u].status \in {"Uploading", "Completed"}}
  IN  /\ upload' = [u \in Uploads |-> IF u \in S THEN [upload[u] EXCEPT !.status = "Cancelled"]
                                                ELSE upload[u]]
      /\ objects' = objects \ S

CancelJob(a) ==
  /\ job[a].status \notin {"None", "Succeeded", "Cancelled"}
  /\ StopJobs({a}, "Skipped")
  /\ StopUploads(a)
  /\ UNCHANGED <<photo, month, queue, process, calls>>

\* The last occurrence of the asset is gone.
TrashAsset(a) ==
  /\ active[a]
  /\ active' = [active EXCEPT ![a] = FALSE]
  /\ StopJobs({b \in {a} : job[b].status \in
                 {"Preparing", "Queued", "Running", "DeferredQuota"}}, "Other")
  /\ StopUploads(a)
  /\ UNCHANGED <<described, byok, month, queue, process, calls>>

RestoreAsset(a) ==
  /\ ~active[a]
  /\ active' = [active EXCEPT ![a] = TRUE]
  /\ UNCHANGED <<described, byok, job, upload, objects, ledgers, month, queue, process, calls>>

\* AnalysedOnce: a device takes a job over whose preview is on its way.
ClaimByokBug(a, c) ==
  /\ active[a] /\ byok[a] = None
  /\ job[a].status = "Preparing"
  /\ byok' = [byok EXCEPT ![a] = c]
  /\ UNCHANGED <<active, described, job, upload, objects, ledgers, month, queue, process, calls>>

\* save_byok_result without a description: a device takes the job over, unless
\* an upload of the cloud path is open.
ClaimByok(a, c) ==
  /\ active[a] /\ byok[a] = None
  /\ job[a].status = "Preparing"
  /\ ~ActiveUpload(a)
  /\ byok' = [byok EXCEPT ![a] = c]
  /\ UNCHANGED <<active, described, job, upload, objects, ledgers, month, queue, process, calls>>

\* save_byok_result with one.
SaveByok(a, c) ==
  /\ active[a] /\ byok[a] = c
  /\ job[a].status = "Preparing"
  /\ described' = [described EXCEPT ![a] = TRUE]
  /\ job' = [job EXCEPT ![a] = [@ EXCEPT !.status = "Succeeded", !.due = Never]]
  /\ UNCHANGED <<active, byok, upload, objects, ledgers, month, queue, process, calls>>

-----------------------------------------------------------------------------
(* The recovery sweep and the passage of time.                             *)

\* Which due queued jobs have not been touched for five minutes is left open.
DueQueued   == {a \in Assets : job[a].status = "Queued" /\ job[a].due \in 1..month}
DueDeferred == {a \in Assets : job[a].status = "DeferredQuota" /\ job[a].due \in 1..month}

\* JobsSettle: a sweep that only looks at queued and deferred jobs.
AllExpiredBug == {a \in Assets : Expired(a) /\ job[a].due > month}

AllExpired  == {a \in Assets : Expired(a)}

\* redispatch_due_jobs.  A queued job out of attempts fails as it is; a
\* deferred one goes back to preparation.
Sweep(old, batch) ==
  LET called    == {a \in AllExpired : CallStarted(job[a])}
      uncalled  == AllExpired \ called
      exhausted == {a \in old \cup AllExpired : Exhausted(a)}
      requeued  == (old \cup AllExpired) \ exhausted
      row(a)    == IF a \in AllExpired THEN SettledRow(job[a], a \in called) ELSE job[a]
      returned(settled, units) == [m \in Months |-> Settle(settled[m], 0, units[m])]
  IN  /\ old \cup AllExpired \cup DueDeferred # {}
      /\ reqs' = returned(SettleReqs(called, uncalled),
                          [m \in Months |-> HoldReq(DueDeferred, m)])
      /\ usd'  = returned(SettleUsd(called, uncalled),
                          [m \in Months |-> Price * HoldCost(DueDeferred, m)])
      /\ job' = [a \in Assets |->
           IF a \in exhausted THEN Moved(row(a), "Failed", "Other", Never)
           ELSE IF a \in requeued THEN Moved(row(a), "Queued", "None", month)
           ELSE IF a \in DueDeferred
           THEN [Moved(Unstaged(ReturnedRow(job[a])), "Preparing", "None", Never) EXCEPT
                   !.attempts = 0]
           ELSE job[a]]
      /\ Sent(requeued, batch)
      /\ UNCHANGED <<photo, upload, objects, month, process, calls>>

RedispatchDueJobs ==
  \E old \in SUBSET DueQueued :
    \E batch \in SUBSET {msg \in Messages : msg[1] \in old \cup AllExpired} : Sweep(old, batch)

ExpireLease(a) ==
  /\ job[a].status = "Running" /\ job[a].live
  /\ job' = [job EXCEPT ![a].live = FALSE]
  /\ UNCHANGED <<photo, upload, objects, ledgers, month, queue, process, calls>>

ExpireUpload(u) ==
  /\ Uploading(u) /\ ~upload[u].late
  /\ upload' = [upload EXCEPT ![u].late = TRUE]
  /\ UNCHANGED <<photo, job, objects, ledgers, month, queue, process, calls>>

AdvanceMonth ==
  /\ month < MaxMonth
  /\ month' = month + 1
  /\ UNCHANGED <<photo, job, upload, objects, ledgers, queue, process, calls>>

-----------------------------------------------------------------------------
(* The worker.  w is about to run the step pc[w] names.                    *)

Goto(w, step) == pc' = [pc EXCEPT ![w] = step]

\* A failure to report: to defer the job if it is about quota, else to fail it.
Report(w, kind, called) ==
  /\ fault' = [fault EXCEPT ![w] = [kind |-> kind, called |-> called]]
  /\ Goto(w, IF kind = "Quota" THEN "Defer" ELSE "Fail")

\* _claimed_description_job
Claimed(w) ==
  LET a == task[w][1]
  IN  /\ HasLease(a, task[w][2])
      /\ job[a].staged = claim[w]
      /\ active[a]
      /\ upload[claim[w]].status = "Completed"

NoMoreFault(w) == fault' = [fault EXCEPT ![w] = NoFault]

\* A transaction that finds the claim gone changes nothing, and the message is
\* acknowledged.
NotClaimed(w) ==
  /\ ~Claimed(w)
  /\ Goto(w, "Ack")
  /\ NoMoreFault(w)
  /\ UNCHANGED <<photo, job, upload, objects, ledgers, month, queue, task, claim,
                 charge, calls>>

\* claim_description_job, the first transaction of a delivery.  Whatever the
\* job's status, one whose preview is gone or stale is ended.
Claim(w, msg) ==
  LET a   == msg[1]
      row == job[a]
      unstaged == row.staged = None
      stale    == ~unstaged /\ (~active[a] \/ upload[row.staged].status # "Completed")
      ready    == ~unstaged /\ ~stale
      charged  == Expired(a) /\ CallStarted(row)
      settled  == IF charged THEN SettledRow(row, TRUE) ELSE row
      claimable == (row.status = "Queued" \/ Expired(a)) /\ row.due <= month
      End(next) == /\ job' = [job EXCEPT ![a] = ReturnedRow(next)]
                   /\ reqs' = ReturnReqs({a}) /\ usd' = ReturnUsd({a})
                   /\ Goto(w, "Ack")
                   /\ UNCHANGED claim
      SettleCharged == /\ reqs' = reqs
                       /\ usd' = IF charged THEN SettleUsd({a}, {}) ELSE usd
      other == ready /\ ~described[a] /\ ~HasLease(a, msg[2])
  IN  /\ pc[w] = "Idle"
      /\ msg \in queue
      /\ queue' = queue \ {msg}
      /\ task'  = [task EXCEPT ![w] = msg]
      /\ \/ unstaged /\ End(Moved(row, "Failed", "Other", Never))
         \/ stale /\ End(Moved(row, "Cancelled", "Other", Never))
         \/ ready /\ described[a] /\ End(Moved(row, "Succeeded", "None", Never))
         \/ /\ ready /\ ~described[a] /\ HasLease(a, msg[2])
            /\ claim' = [claim EXCEPT ![w] = row.staged]
            /\ Goto(w, "Presign")
            /\ UNCHANGED <<job, ledgers>>
         \/ /\ other /\ ~claimable
            /\ job' = [job EXCEPT ![a] = settled]
            /\ SettleCharged
            /\ Goto(w, "Ack")
            /\ UNCHANGED claim
         \/ /\ other /\ claimable /\ Exhausted(a)
            /\ job' = [job EXCEPT ![a] =
                         [ReturnedRow(row) EXCEPT !.status = "Failed", !.code = "Other"]]
            /\ IF charged THEN SettleCharged
                          ELSE reqs' = ReturnReqs({a}) /\ usd' = ReturnUsd({a})
            /\ Goto(w, "Ack")
            /\ UNCHANGED claim
         \/ /\ other /\ claimable /\ ~Exhausted(a)
            /\ job' = [job EXCEPT ![a] = [settled EXCEPT !.status = "Running",
                         !.code = "None", !.attempts = row.attempts + 1,
                         !.lease = msg[2], !.live = TRUE]]
            /\ SettleCharged
            /\ claim' = [claim EXCEPT ![w] = row.staged]
            /\ Goto(w, "Presign")
      /\ UNCHANGED <<photo, upload, objects, month, fault, charge, calls>>

\* The configuration is compared and the preview's URL signed; either may fail.
Presign(w) ==
  /\ pc[w] = "Presign"
  /\ \/ Goto(w, "Reserve") /\ UNCHANGED fault
     \/ \E kind \in {"Transient", "Auth", "Internal"} : Report(w, kind, FALSE)
  /\ UNCHANGED <<photo, job, upload, objects, ledgers, month, queue, task, claim, charge, calls>>

\* reserve_description_provider_call renews what the upload plan reserved.
ReserveCall(w) ==
  LET a    == task[w][1]
      plan == ReserveBoth(job[a], reqs, usd)
  IN  /\ pc[w] = "Reserve"
      /\ \/ /\ ~Claimed(w)
            /\ Report(w, "Quota", FALSE)
            /\ UNCHANGED <<job, ledgers>>
         \/ /\ Claimed(w)
            /\ job' = [job EXCEPT ![a] = plan.row]
            /\ reqs' = plan.reqs /\ usd' = plan.usd
            /\ IF plan.granted THEN Goto(w, "Consume") /\ UNCHANGED fault
                               ELSE Report(w, "Quota", FALSE)
      /\ UNCHANGED <<photo, upload, objects, month, queue, task, claim, charge, calls>>

\* consume_description_provider_call charges the request before it is made.
ConsumeCall(w) ==
  LET a == task[w][1]
      m == job[a].req
  IN  /\ pc[w] = "Consume"
      /\ \/ NotClaimed(w)
         \/ /\ Claimed(w)
            /\ Goto(w, IF m = Never THEN "Ack" ELSE "Call")
            /\ reqs' = [k \in Months |-> Settle(reqs[k], IF k = m THEN 1 ELSE 0, 0)]
            /\ job' = [job EXCEPT ![a] = [@ EXCEPT !.req = Never,
                         !.consumed = IF m = Never THEN job[a].consumed ELSE m]]
            /\ charge' = [charge EXCEPT ![w] = m]
            /\ UNCHANGED <<photo, upload, objects, usd, month, queue, task, claim, fault, calls>>

\* The provider is called, or found to be without a credential before that.
CallProvider(w) ==
  /\ pc[w] = "Call"
  /\ charge' = [charge EXCEPT ![w] = Never]
  /\ \/ /\ calls' = [calls EXCEPT ![charge[w]] = @ + 1]
        /\ \/ Goto(w, "Complete") /\ UNCHANGED fault
           \/ \E kind \in Kinds : Report(w, kind, TRUE)
     \/ Report(w, "Auth", FALSE) /\ UNCHANGED calls
  /\ UNCHANGED <<photo, job, upload, objects, ledgers, month, queue, task, claim>>

\* complete_description: a valid description is stored and its cost paid from
\* its usage, or in full; an invalid one fails the job and is paid in full.
Complete(w) ==
  LET a == task[w][1]
      m == job[a].cost
  IN  /\ pc[w] = "Complete"
      /\ \/ NotClaimed(w)
         \/ /\ Claimed(w)
            /\ reqs' = SettleReqs({a}, {})
            /\ \/ /\ described' = [described EXCEPT ![a] = TRUE]
                  /\ job' = [job EXCEPT ![a] =
                               Moved(SettledRow(@, TRUE), "Succeeded", "None", Never)]
                  /\ \E paid \in 1..Price :
                       usd' = [k \in Months |->
                                 IF k = m THEN Pay(usd[k], Price, paid) ELSE usd[k]]
               \/ /\ job' = [job EXCEPT ![a] =
                               Moved(SettledRow(@, TRUE), "Failed", "Other", Never)]
                  /\ usd' = SettleUsd({a}, {})
                  /\ UNCHANGED described
            /\ Goto(w, "Clean")
            /\ UNCHANGED <<active, byok, upload, objects, month, queue, task, claim,
                           fault, charge, calls>>

\* fail_description settles by whether the provider was called.  A credential
\* failure of the provider opens the circuit; a transient failure is retried
\* while attempts remain, and then leaves the preview in place.
Fail(w) ==
  LET a      == task[w][1]
      called == fault[w].called
      kind   == fault[w].kind
      retry  == kind = "Transient" /\ ~Exhausted(a)
      C      == {b \in {a} : called}
      led    == SettleReqs(C, {a} \ C)
  IN  /\ pc[w] = "Fail"
      /\ \/ NotClaimed(w)
         \/ /\ Claimed(w)
            /\ reqs' = IF called /\ kind = "Auth" THEN Circuit(led, OpenCircuit(led[month]))
                                                  ELSE led
            /\ usd' = SettleUsd(C, {a} \ C)
            /\ job' = [job EXCEPT ![a] =
                         IF retry THEN Moved(SettledRow(@, called), "Queued", "Other", month)
                                  ELSE Moved(SettledRow(@, called), "Failed", "Other", Never)]
            /\ NoMoreFault(w)
            /\ UNCHANGED <<photo, upload, objects, month, charge, calls>>
            /\ IF retry
               THEN /\ Goto(w, "Idle")
                    /\ task'  = [task EXCEPT ![w] = None]
                    /\ claim' = [claim EXCEPT ![w] = None]
                    /\ queue' \in {queue, queue \cup {task[w]}}
               ELSE /\ Goto(w, IF kind = "Transient" THEN "Ack" ELSE "Clean")
                    /\ UNCHANGED <<task, claim, queue>>

\* defer_description_quota, before a call or after the provider refused one.
Defer(w) ==
  LET a      == task[w][1]
      called == fault[w].called
      C      == {b \in {a} : called}
      led    == SettleReqs(C, {a} \ C)
  IN  /\ pc[w] = "Defer"
      /\ \/ NotClaimed(w)
         \/ /\ Claimed(w)
            /\ reqs' = IF called THEN Circuit(led, OpenCircuit(led[month])) ELSE led
            /\ usd' = SettleUsd(C, {a} \ C)
            /\ job' = [job EXCEPT ![a] = Moved(SettledRow(@, called), "DeferredQuota",
                         IF ~called /\ @.blocked THEN "ProviderCircuitOpen" ELSE "Other",
                         month + 1)]
            /\ Goto(w, "Clean")
            /\ NoMoreFault(w)
            /\ UNCHANGED <<photo, upload, objects, month, queue, task, claim, charge, calls>>

\* _cleanup_if_safe after the transaction that ended the job.
Clean(w) ==
  /\ pc[w] = "Clean"
  /\ objects' = objects \ {claim[w]}
  /\ Goto(w, "Ack")
  /\ UNCHANGED <<photo, job, upload, ledgers, month, queue, task, claim, fault, charge, calls>>

\* The invocation ends.  An acknowledged message is deleted; the message of one
\* that died is delivered again, or has been received too often and set aside.
Release(w) ==
  /\ Goto(w, "Idle")
  /\ task'   = [task EXCEPT ![w] = None]
  /\ claim'  = [claim EXCEPT ![w] = None]
  /\ fault'  = [fault EXCEPT ![w] = NoFault]
  /\ charge' = [charge EXCEPT ![w] = Never]
  /\ UNCHANGED <<photo, job, upload, objects, ledgers, month, calls>>

Acknowledge(w) == pc[w] = "Ack" /\ Release(w) /\ UNCHANGED queue

Crash(w) ==
  /\ pc[w] # "Idle"
  /\ Release(w)
  /\ queue' \in {queue, queue \cup {task[w]}}

-----------------------------------------------------------------------------
WorkerStep(w) ==
  \/ Presign(w) \/ ReserveCall(w) \/ ConsumeCall(w) \/ CallProvider(w)
  \/ Complete(w) \/ Fail(w) \/ Defer(w) \/ Clean(w) \/ Acknowledge(w)

Next ==
  \/ \E a \in Assets : \/ PrepareEnrichment(a) \/ RetryJob(a) \/ CancelJob(a)
                       \/ TrashAsset(a) \/ RestoreAsset(a) \/ ExpireLease(a)
                       \/ \E u \in Uploads : CreateUploadPlan(a, u)
                       \/ \E c \in Claims : ClaimByok(a, c) \/ SaveByok(a, c)
  \/ \E u \in Uploads : \/ PutObject(u) \/ GetUploadSession(u) \/ CompleteUpload(u)
                        \/ CancelUpload(u) \/ ExpireUpload(u)
  \/ RedispatchDueJobs
  \/ AdvanceMonth
  \/ \E w \in Workers : \/ \E msg \in Messages : Claim(w, msg)
                        \/ WorkerStep(w)
                        \/ Crash(w)

Spec == Init /\ [][Next]_vars

\* As for geocode jobs: the schedule keeps running and a send eventually
\* succeeds, messages are not starved, workers that are not killed go on and
\* leases run out.  Clients and users need not do anything.
Fairness ==
  /\ \A a \in Assets :
       /\ WF_vars(ExpireLease(a))
       /\ SF_vars(\E old \in SUBSET DueQueued, id \in MessageIds :
                    a \in old \cup AllExpired /\ Sweep(old, {<<a, id>>}))
       /\ WF_vars(a \in AllExpired /\ RedispatchDueJobs)
       /\ WF_vars(\E old \in SUBSET DueQueued : a \in old /\ Exhausted(a) /\ Sweep(old, {}))
  /\ \A msg \in Messages : SF_vars(\E w \in Workers : Claim(w, msg))
  /\ \A w \in Workers : WF_vars(WorkerStep(w))

FairSpec == Spec /\ Fairness

-----------------------------------------------------------------------------
(* Properties that hold.                                                   *)

\* No handler gives a reservation back twice: what a month has reserved always
\* covers the requests and the dollars that job rows still hold of it.
ReservationsBacked ==
  \A m \in Months : /\ reqs[m].reserved >= HoldReq(Assets, m)
                    /\ usd[m].reserved >= Price * HoldCost(Assets, m)

\* Neither ledger passes its monthly limit, whatever is renewed, paid at its
\* actual cost or settled in a later month.
CeilingsRespected ==
  \A m \in Months : /\ reqs[m].processed + reqs[m].reserved <= Limit
                    /\ usd[m].processed + usd[m].reserved <= UsdLimit

\* A reservation is held by a job in preparation only while its upload is open;
\* what cancels, completes, defers or trashes a job, or expires or cancels an
\* upload, returns it.  A failed job is left out: see FailedHoldNothing.
ReservationsInUse ==
  \A a \in Assets : job[a].req # Never \/ job[a].cost # Never =>
    \/ job[a].status \in {"Queued", "Running", "Failed"}
    \/ job[a].status = "Preparing" /\ ActiveUpload(a)

\* Only a leased job can have a call in flight or unsettled behind it.
CallsBelongToLeases ==
  \A a \in Assets : CallStarted(job[a]) => job[a].status = "Running"

\* Rows are well formed, and no unleased one has a call behind it.
LeasesSound == TypeOK /\ CallsBelongToLeases

\* The preview of a queued or leased job is a completed upload of its asset,
\* and no cleanup, cancellation or expiry has deleted it.
StagedPreviewKept ==
  \A a \in Assets : job[a].status \in {"Queued", "Running"} =>
    /\ job[a].staged \in objects
    /\ upload[job[a].staged].asset = a
    /\ upload[job[a].staged].status = "Completed"

\* Two executions never both hold the claim on a job.
OneClaimant ==
  \A v, w \in Workers :
    /\ v # w /\ task[v] # None /\ task[w] # None /\ claim[v] # None /\ claim[w] # None
    /\ task[v][1] = task[w][1]
    => ~(Claimed(v) /\ Claimed(w))

\* A photo claimed for a device's own key is not also analysed in the cloud.
AnalysedOnce ==
  \A a \in Assets : byok[a] # None =>
    job[a].status \notin {"Queued", "Running", "DeferredQuota"} /\ ~ActiveUpload(a)

\* A queued or leased job does not stay so for ever.
JobsSettle ==
  \A a \in Assets : job[a].status \in {"Queued", "Running"} ~>
                     job[a].status \notin {"Queued", "Running"}

-----------------------------------------------------------------------------
(* Properties the documentation states and the code does not have.         *)

\* Every call made or about to be made stays charged as a request.
CallsCharged ==
  \A m \in Months :
    calls[m] + Cardinality({w \in Workers : charge[w] = m}) <= reqs[m].processed

\* Every call made is paid for, or its dollars are still reserved.
CallsPaid == \A m \in Months : calls[m] <= usd[m].processed + usd[m].reserved

\* When no upload is open and no job is queued or leased, nothing is reserved
\* in the current month.
NothingReservedWhenIdle ==
  (\A a \in Assets : ~ActiveUpload(a) /\ job[a].status \notin {"Queued", "Running"})
    => reqs[month].reserved = 0

\* A failed job has given back what it reserved.
FailedHoldNothing ==
  \A a \in Assets : job[a].status = "Failed" => job[a].req = Never /\ job[a].cost = Never

\* A job its user skipped stays one that can be retried, until it is.
SkippedStaysRetryable ==
  [][\A a \in Assets : job[a].status = "Cancelled" /\ job[a].code = "Skipped" =>
       job'[a].code = "Skipped" \/ job'[a].status = "Preparing"]_vars
=============================================================================
