----------------------------- MODULE GeocodeJobs -----------------------------
(***************************************************************************)
(* The life of reverse-geocode jobs: the rows the API and the five-minute  *)
(* recovery sweep write, the worker Lambda that leases a job, reserves and *)
(* charges a provider call, makes it and stores the address, and the       *)
(* at-least-once queue between them.  Every action but the worker's        *)
(* network call and its acknowledgement is one database transaction of     *)
(* services/domain/service.py; a worker can stop between any two of them.  *)
(*                                                                         *)
(* One user and one provider.  A job is identified by the asset and the    *)
(* coordinates it was created for, as its idempotency key is.              *)
(***************************************************************************)
EXTENDS Naturals, FiniteSets, ProviderLedger

CONSTANTS
  Assets,       \* media assets of the user
  Coordinates,  \* coordinate revisions an asset's GPS position can take
  Near,         \* pairs of coordinates within the reuse radius of each other
  Workers,      \* concurrent executions of the worker Lambda
  MessageIds,   \* identities of the messages outstanding for one job (bound)
  Limit,        \* monthly provider call limit
  MaxAttempts,  \* ProcessingJob.max_attempts
  MaxMonth,     \* last calendar month of the model (bound)
  NoLease,      \* no lease token
  NoMessage,    \* a worker that handles no message
  NoAddress     \* a location no provider result was applied to

ASSUME NearAssumption ==
  /\ Near \subseteq Coordinates \X Coordinates
  /\ \A c \in Coordinates : <<c, c>> \in Near

ASSUME BoundAssumption ==
  /\ Limit \in Nat
  /\ MaxAttempts \in Nat \ {0}
  /\ MaxMonth \in Nat \ {0}

ASSUME FiniteAssumption ==
  IsFiniteSet(Assets) /\ IsFiniteSet(Coordinates) /\ IsFiniteSet(Workers)

ASSUME NullAssumption ==
  /\ NoLease \notin MessageIds
  /\ NoMessage \notin (Assets \X Coordinates) \X MessageIds
  /\ NoAddress \notin Coordinates

Jobs     == Assets \X Coordinates
Messages == Jobs \X MessageIds
Months   == 1..MaxMonth
Never    == 0              \* no time, no month

VARIABLES
  active,   \* asset -> MediaAsset.lifecycle_state is "Active"
  coord,    \* asset -> coordinate revision of its MediaLocation
  address,  \* asset -> coordinates its stored address was computed for
  job,      \* job -> ProcessingJob row
  usage,    \* month -> ledger row of the provider
  month,    \* the current calendar month
  queue,    \* messages the queue may deliver
  pc,       \* worker -> its next step
  task,     \* worker -> the message it was invoked with
  answer,   \* worker -> the address it holds, between two transactions
  charge,   \* worker -> month the call it may make is charged to (history)
  calls     \* month -> provider calls made against that month (history)

catalog == <<active, coord, address>>
process == <<pc, task, answer, charge>>
vars == <<catalog, job, usage, month, queue, process, calls>>

-----------------------------------------------------------------------------
Statuses == {"None", "Queued", "Running", "DeferredQuota",
             "Succeeded", "Failed", "Cancelled"}

\* The columns of a job row: its status and failure_code, attempt_count,
\* next_attempt_at_utc as the month it falls due in, the lease token with
\* whether it is unexpired, the month its providerUsageReservation counts in
\* and whether quotaBlockReason says the circuit was open.
JobRow == [status: Statuses,
           code: {"None", "ProviderCircuitOpen", "Other"},
           attempts: 0..MaxAttempts,
           due: 0..(MaxMonth + 1),
           lease: MessageIds \cup {NoLease},
           live: BOOLEAN,
           held: Months \cup {Never},
           blocked: BOOLEAN]

NoJob == [status |-> "None", code |-> "None", attempts |-> 0, due |-> Never,
          lease |-> NoLease, live |-> FALSE, held |-> Never, blocked |-> FALSE]

Steps == {"Idle", "Lookup", "Reuse", "Reserve", "Defer", "Consume", "Call",
          "Complete", "FailTransient", "FailPermanent", "FailAuth",
          "DeferCalled", "Ack"}

TypeOK ==
  /\ active  \in [Assets -> BOOLEAN]
  /\ coord   \in [Assets -> Coordinates]
  /\ address \in [Assets -> Coordinates \cup {NoAddress}]
  /\ job     \in [Jobs -> JobRow]
  /\ usage   \in [Months -> LedgerRow]
  /\ month   \in Months
  /\ queue   \subseteq Messages
  /\ pc      \in [Workers -> Steps]
  /\ task    \in [Workers -> Messages \cup {NoMessage}]
  /\ answer  \in [Workers -> Coordinates \cup {NoAddress}]
  /\ charge  \in [Workers -> Months \cup {Never}]
  /\ calls   \in [Months -> Nat]

Init ==
  /\ active  = [a \in Assets |-> TRUE]
  /\ coord   \in [Assets -> Coordinates]
  /\ address = [a \in Assets |-> NoAddress]
  /\ job     = [j \in Jobs |-> NoJob]
  /\ usage   = [m \in Months |-> NewRow]
  /\ month   = 1
  /\ queue   = {}
  /\ pc      = [w \in Workers |-> "Idle"]
  /\ task    = [w \in Workers |-> NoMessage]
  /\ answer  = [w \in Workers |-> NoAddress]
  /\ charge  = [w \in Workers |-> Never]
  /\ calls   = [m \in Months |-> 0]

-----------------------------------------------------------------------------
(* What the handlers test and write.                                       *)

\* Operators named after a definition with a suffix in "Bug" are faulty
\* variants of it: each is what the property named beside it is there to catch.

\* AddressNearby: a handler that checks the asset but not the coordinates.
CurrentBug(j) == active[j[1]]

\* The job still describes an active asset at its present coordinates.
Current(j) == active[j[1]] /\ coord[j[1]] = j[2]

Expired(j)   == job[j].status = "Running" /\ ~job[j].live

\* OneClaimant: a lease that any delivery of the job may use.
HasLeaseBug(j, id) == job[j].status = "Running" /\ job[j].live

HasLease(j, id) == job[j].status = "Running" /\ job[j].live /\ job[j].lease = id
Claimed(w)   == HasLease(task[w][1], task[w][2])

\* Jobs of a set whose reservation counts in month m.
Held(S, m) == {j \in S : job[j].held = m}

\* The ledger after the reservations of the jobs in C are charged and those
\* of the jobs in R are given back unused.
Settled(C, R) ==
  [m \in Months |-> Settle(usage[m], Cardinality(Held(C, m)),
                                     Cardinality(Held(R, m)))]

Circuit(ledger, row) == [ledger EXCEPT ![month] = row]

\* A row whose lease is cleared, and one whose reservation is dropped.
Moved(row, status, code, due) ==
  [row EXCEPT !.status = status, !.code = code, !.due = due,
              !.lease = NoLease, !.live = FALSE]
Unheld(row) == [row EXCEPT !.held = Never]

\* TypeOK: one attempt too many.
ExhaustedBug(j) == job[j].attempts > MaxAttempts

Exhausted(j) == job[j].attempts >= MaxAttempts

\* LedgerMatchesHolders: a stale job is cancelled and its reservation dropped
\* from the row but not from the ledger.  HeldOnlyWhileRunning: nor the row.
CancelStaleLedgerBug(j) ==
  job' = [job EXCEPT ![j] = Unheld(Moved(@, "Cancelled", "Other", Never))] /\ usage' = usage
CancelStaleRowBug(j) ==
  job' = [job EXCEPT ![j] = Moved(@, "Cancelled", "Other", Never)] /\ usage' = usage

CancelStale(j) ==
  /\ job'   = [job EXCEPT ![j] = Unheld(Moved(@, "Cancelled", "Other", Never))]
  /\ usage' = Settled({j}, {})

\* Addresses that could be applied at coordinates c: those stored for a
\* location within the reuse radius.
Reusable(S, c) ==
  {address[b] : b \in {b \in S : address[b] # NoAddress /\ <<coord[b], c>> \in Near}}

\* SQS gives every message it accepts a new identity.
FreshIds(j) ==
  {id \in MessageIds : /\ <<j, id>> \notin queue
                       /\ \A w \in Workers : task[w] # <<j, id>>
                       /\ ~HasLease(j, id)}

\* The messages of a dispatch that reached the queue, one per job of S.
Sent(S, batch) ==
  /\ batch \subseteq Messages
  /\ \A msg \in batch : msg[1] \in S /\ msg[2] \in FreshIds(msg[1])
  /\ \A m1, m2 \in batch : m1[1] = m2[1] => m1 = m2
  /\ queue' = queue \cup batch

\* Dispatch happens after the commit and may fail, wholly or in part.
Dispatch(S) == \E batch \in SUBSET {msg \in Messages : msg[1] \in S} : Sent(S, batch)

-----------------------------------------------------------------------------
(* The API: manifests, trash, enrichment requests and retries.             *)

\* A manifest entry gives asset a the coordinates c.  An address stored
\* nearby, the asset's own included, is taken over unless the normalization
\* rule that shaped it is gone; otherwise the address is cleared.
UpsertLocation(a, c) ==
  /\ coord' = [coord EXCEPT ![a] = c]
  /\ active' = [active EXCEPT ![a] = TRUE]
  /\ \E found \in Reusable(Assets, c) \cup {NoAddress} :
       address' = [address EXCEPT ![a] = found]
  /\ UNCHANGED <<job, usage, month, queue, process, calls>>

\* The last occurrence of the asset is gone: it is trashed and its open jobs
\* are cancelled, charging those a worker may already have called for.
TrashAsset(a) ==
  LET open == {j \in Jobs : /\ j[1] = a
                            /\ job[j].status \in {"Queued", "Running", "DeferredQuota"}}
      running == {j \in open : job[j].status = "Running"}
  IN  /\ active[a]
      /\ active' = [active EXCEPT ![a] = FALSE]
      /\ usage' = Settled(running, open \ running)
      /\ job' = [j \in Jobs |-> IF j \in open
                                   THEN Unheld(Moved(job[j], "Cancelled", "Other", Never))
                                   ELSE job[j]]
      /\ UNCHANGED <<coord, address, month, queue, process, calls>>

\* An occurrence without GPS reappears.
RestoreAsset(a) ==
  /\ ~active[a]
  /\ active' = [active EXCEPT ![a] = TRUE]
  /\ UNCHANGED <<coord, address, job, usage, month, queue, process, calls>>

\* Enrichment is requested for an asset that has coordinates and no address.
PrepareEnrichment(a) ==
  LET j == <<a, coord[a]>>
  IN  /\ active[a]
      /\ address[a] = NoAddress
      /\ job[j].status \in {"None", "Succeeded"}
      /\ job' = [job EXCEPT ![j] = [NoJob EXCEPT !.status = "Queued", !.due = month]]
      /\ Dispatch({j})
      /\ UNCHANGED <<catalog, usage, month, process, calls>>

\* A user retries a job.  If the circuit is open this closes it and promotes
\* the jobs it had deferred.
RetryJob(j) ==
  LET recovered == {k \in Jobs \ {j} : /\ job[k].status = "DeferredQuota"
                                       /\ job[k].code = "ProviderCircuitOpen"
                                       /\ usage[month].open}
  IN  /\ \/ job[j].status = "Failed" /\ ~Exhausted(j)
         \/ job[j].status = "DeferredQuota"
      /\ usage' = Circuit(usage, CloseCircuit(usage[month]))
      /\ job' = [k \in Jobs |->
           IF k = j
           THEN [Moved(job[k], "Queued", "None", month) EXCEPT
                   !.attempts = IF job[k].status = "DeferredQuota" THEN 0 ELSE @]
           ELSE IF k \in recovered
           THEN [Moved(job[k], "Queued", "None", month) EXCEPT
                   !.attempts = 0, !.blocked = FALSE]
           ELSE job[k]]
      /\ Dispatch({j} \cup recovered)
      /\ UNCHANGED <<catalog, month, process, calls>>

-----------------------------------------------------------------------------
(* The recovery sweep and the passage of time.                             *)

\* Jobs the sweep may pick: due queued jobs (which of them have not been
\* touched for five minutes is left open), expired leases, due deferrals.
DueQueued   == {j \in Jobs : job[j].status = "Queued" /\ job[j].due \in 1..month}
DueDeferred == {j \in Jobs : job[j].status = "DeferredQuota" /\ job[j].due \in 1..month}

\* JobsSettle: a sweep that only looks at queued and deferred jobs.
AllExpiredBug == {j \in Jobs : Expired(j) /\ job[j].due > month}

AllExpired  == {j \in Jobs : Expired(j)}

\* redispatch_due_jobs with the untouched queued jobs old; batch is what
\* reaches the queue.
Sweep(old, batch) ==
  LET exhausted == {j \in old \cup AllExpired : Exhausted(j)}
      requeued  == (old \cup AllExpired \cup DueDeferred) \ exhausted
      settled   == AllExpired \cup DueDeferred
      row(j)    == IF j \in settled THEN Unheld(job[j]) ELSE job[j]
  IN  /\ requeued \cup exhausted # {}
      /\ usage' = Settled(AllExpired, DueDeferred)
      /\ job' = [j \in Jobs |->
           IF j \in exhausted
           THEN Moved(row(j), "Failed", "Other", Never)
           ELSE IF j \in requeued
           THEN [Moved(row(j), "Queued", "None", month) EXCEPT
                   !.attempts = IF j \in DueDeferred THEN 0 ELSE @]
           ELSE job[j]]
      /\ Sent(requeued, batch)
      /\ UNCHANGED <<catalog, month, process, calls>>

RedispatchDueJobs ==
  \E old \in SUBSET DueQueued :
    \E batch \in SUBSET {msg \in Messages : msg[1] \in old \cup AllExpired \cup DueDeferred} :
      Sweep(old, batch)

ExpireLease(j) ==
  /\ job[j].status = "Running" /\ job[j].live
  /\ job' = [job EXCEPT ![j].live = FALSE]
  /\ UNCHANGED <<catalog, usage, month, queue, process, calls>>

AdvanceMonth ==
  /\ month < MaxMonth
  /\ month' = month + 1
  /\ UNCHANGED <<catalog, job, usage, queue, process, calls>>

-----------------------------------------------------------------------------
(* The worker.  w is about to run the transaction pc[w] names.             *)

Goto(w, step) == pc' = [pc EXCEPT ![w] = step]

\* The transaction finds the worker's lease lost, or its job stale: it does
\* nothing, or cancels the job, and the worker goes on to step otherwise.
NotClaimed(w, otherwise) ==
  LET j == task[w][1]
  IN  /\ \/ ~Claimed(w) /\ UNCHANGED <<job, usage>>
         \/ Claimed(w) /\ ~Current(j) /\ CancelStale(j)
      /\ Goto(w, otherwise)
      /\ UNCHANGED <<catalog, month, queue, task, answer, charge, calls>>

Holds(w) == Claimed(w) /\ Current(task[w][1])

\* claim_geocode_job, the first transaction of a delivery.
Claim(w, msg) ==
  LET j   == msg[1]
      row == job[j]
      claimable == (row.status = "Queued" \/ Expired(j)) /\ row.due <= month
  IN  /\ pc[w] = "Idle"
      /\ msg \in queue
      /\ queue' = queue \ {msg}
      /\ task'  = [task EXCEPT ![w] = msg]
      /\ \/ /\ ~Current(j)
            /\ CancelStale(j)
            /\ Goto(w, "Ack")
         \/ /\ Current(j) /\ HasLease(j, msg[2])
            /\ Goto(w, "Lookup")
            /\ UNCHANGED <<job, usage>>
         \/ /\ Current(j) /\ ~HasLease(j, msg[2]) /\ ~claimable
            /\ Goto(w, "Ack")
            /\ UNCHANGED <<job, usage>>
         \/ /\ Current(j) /\ ~HasLease(j, msg[2]) /\ claimable
            /\ Exhausted(j)
            /\ usage' = Settled({j}, {})
            /\ job' = [job EXCEPT ![j] =
                         Unheld([@ EXCEPT !.status = "Failed", !.code = "Other"])]
            /\ Goto(w, "Ack")
         \/ /\ Current(j) /\ ~HasLease(j, msg[2]) /\ claimable
            /\ ~Exhausted(j)
            /\ job' = [job EXCEPT ![j] = [@ EXCEPT !.status = "Running",
                         !.code = "None", !.attempts = row.attempts + 1,
                         !.lease = msg[2], !.live = TRUE]]
            /\ Goto(w, "Lookup")
            /\ UNCHANGED usage
      /\ UNCHANGED <<catalog, month, answer, charge, calls>>

\* find_reusable_location: an address of another asset within the radius.
Lookup(w) ==
  /\ pc[w] = "Lookup"
  /\ \/ NotClaimed(w, "Reserve")
     \/ /\ Holds(w)
        /\ \/ /\ \E found \in Reusable(Assets \ {task[w][1][1]}, task[w][1][2]) :
                   answer' = [answer EXCEPT ![w] = found]
              /\ Goto(w, "Reuse")
           \/ Goto(w, "Reserve") /\ UNCHANGED answer
        /\ UNCHANGED <<catalog, job, usage, month, queue, task, charge, calls>>

\* reserve_provider_call.  An unused reservation of the present month is
\* kept, one of an earlier month is given back before a new one is taken.  A
\* refusal by the limit leaves an older quotaBlockReason in the row.
ReserveCall(w) ==
  LET j    == task[w][1]
      kept == job[j].held = month
      led  == IF kept THEN usage ELSE Settled({}, {j})
      row  == [led[month] EXCEPT !.exists = TRUE]
      granted == ~row.open /\ (kept \/ Fits(row, 1, Limit))
  IN  /\ pc[w] = "Reserve"
      /\ \/ NotClaimed(w, "Defer")
         \/ /\ Holds(w)
            /\ usage' = [led EXCEPT ![month] = IF granted /\ ~kept THEN Reserve(row, 1) ELSE row]
            /\ job' = [job EXCEPT ![j] = [@ EXCEPT
                         !.blocked = row.open \/ (job[j].blocked /\ ~granted),
                         !.held = IF granted \/ kept THEN month ELSE Never]]
            /\ Goto(w, IF granted THEN "Consume" ELSE "Defer")
            /\ UNCHANGED <<catalog, month, queue, task, answer, charge, calls>>

\* defer_geocode_quota, before a call the quota or the circuit forbids.
Defer(w) ==
  LET j == task[w][1]
  IN  /\ pc[w] = "Defer"
      /\ \/ NotClaimed(w, "Ack")
         \/ /\ Holds(w)
            /\ usage' = Settled({}, {j})
            /\ job' = [job EXCEPT ![j] = Unheld(Moved(@, "DeferredQuota",
                         IF @.blocked THEN "ProviderCircuitOpen" ELSE "Other", month + 1))]
            /\ Goto(w, "Ack")
            /\ UNCHANGED <<catalog, month, queue, task, answer, charge, calls>>

\* consume_provider_call: the call is charged before it is made.
ConsumeCall(w) ==
  LET j == task[w][1]
  IN  /\ pc[w] = "Consume"
      /\ \/ NotClaimed(w, "Ack")
         \/ /\ Holds(w)
            /\ usage' = Settled({j}, {})
            /\ job' = [job EXCEPT ![j] = Unheld(@)]
            /\ charge' = [charge EXCEPT ![w] = job[j].held]
            /\ Goto(w, IF job[j].held = Never THEN "Ack" ELSE "Call")
            /\ UNCHANGED <<catalog, month, queue, task, answer, calls>>

\* The provider is called, outside any transaction, and answers or fails.
CallProvider(w) ==
  /\ pc[w] = "Call"
  /\ calls' = [calls EXCEPT ![charge[w]] = @ + 1]
  /\ charge' = [charge EXCEPT ![w] = Never]
  /\ \/ /\ Goto(w, "Complete")
        /\ answer' = [answer EXCEPT ![w] = task[w][1][2]]
     \/ /\ \E failure \in {"FailTransient", "FailPermanent", "FailAuth", "DeferCalled"} :
             Goto(w, failure)
        /\ UNCHANGED answer
  /\ UNCHANGED <<catalog, job, usage, month, queue, task>>

\* complete_geocode: an address that was reused gives an unspent reservation
\* back, one the provider computed is charged.
Complete(w) ==
  LET j == task[w][1]
      reused == pc[w] = "Reuse"
  IN  /\ pc[w] \in {"Reuse", "Complete"}
      /\ \/ NotClaimed(w, "Ack")
         \/ /\ Holds(w)
            /\ address' = [address EXCEPT ![j[1]] = answer[w]]
            /\ usage' = IF reused THEN Settled({}, {j}) ELSE Settled({j}, {})
            /\ job' = [job EXCEPT ![j] = Unheld(Moved(@, "Succeeded", "None", Never))]
            /\ Goto(w, "Ack")
            /\ UNCHANGED <<active, coord, month, queue, task, answer, charge, calls>>

\* fail_geocode.  A credential failure opens the circuit; a transient one is
\* retried while attempts remain.
Fail(w) ==
  LET j     == task[w][1]
      retry == pc[w] = "FailTransient" /\ ~Exhausted(j)
      led   == Settled({j}, {})
  IN  /\ pc[w] \in {"FailTransient", "FailPermanent", "FailAuth"}
      /\ \/ NotClaimed(w, "Ack")
         \/ /\ Holds(w)
            /\ usage' = IF pc[w] = "FailAuth" THEN Circuit(led, OpenCircuit(led[month])) ELSE led
            /\ job' = [job EXCEPT ![j] = Unheld(
                         IF retry THEN Moved(@, "Queued", "Other", month)
                                  ELSE Moved(@, "Failed", "Other", Never))]
            /\ UNCHANGED <<catalog, month, charge, calls, answer>>
            /\ IF retry
               THEN /\ Goto(w, "Idle")
                    /\ task' = [task EXCEPT ![w] = NoMessage]
                    /\ queue' \in {queue, queue \cup {task[w]}}
               ELSE Goto(w, "Ack") /\ UNCHANGED <<task, queue>>

\* defer_geocode_quota after the provider itself reported its quota spent.
DeferCalled(w) ==
  LET j   == task[w][1]
      led == Settled({j}, {})
  IN  /\ pc[w] = "DeferCalled"
      /\ \/ NotClaimed(w, "Ack")
         \/ /\ Holds(w)
            /\ usage' = Circuit(led, OpenCircuit(led[month]))
            /\ job' = [job EXCEPT ![j] = Unheld(Moved(@, "DeferredQuota", "Other", month + 1))]
            /\ Goto(w, "Ack")
            /\ UNCHANGED <<catalog, month, queue, task, answer, charge, calls>>

\* The invocation ends.  An acknowledged message is deleted.
Release(w) ==
  /\ Goto(w, "Idle")
  /\ task'   = [task EXCEPT ![w] = NoMessage]
  /\ answer' = [answer EXCEPT ![w] = NoAddress]
  /\ charge' = [charge EXCEPT ![w] = Never]
  /\ UNCHANGED <<catalog, job, usage, month, calls>>

Acknowledge(w) == pc[w] = "Ack" /\ Release(w) /\ UNCHANGED queue

\* The invocation dies or times out before its acknowledgement.  The message
\* becomes visible again, or has been received too often and is set aside.
Crash(w) ==
  /\ pc[w] # "Idle"
  /\ Release(w)
  /\ queue' \in {queue, queue \cup {task[w]}}

-----------------------------------------------------------------------------
WorkerStep(w) ==
  \/ Lookup(w) \/ ReserveCall(w) \/ Defer(w) \/ ConsumeCall(w) \/ CallProvider(w)
  \/ Complete(w) \/ Fail(w) \/ DeferCalled(w) \/ Acknowledge(w)

Next ==
  \/ \E a \in Assets : \/ \E c \in Coordinates : UpsertLocation(a, c)
                       \/ TrashAsset(a)
                       \/ RestoreAsset(a)
                       \/ PrepareEnrichment(a)
  \/ \E j \in Jobs : RetryJob(j) \/ ExpireLease(j)
  \/ RedispatchDueJobs
  \/ AdvanceMonth
  \/ \E w \in Workers : \/ \E msg \in Messages : Claim(w, msg)
                        \/ WorkerStep(w)
                        \/ Crash(w)

Spec == Init /\ [][Next]_vars

\* The five-minute schedule keeps running and a send eventually succeeds, the
\* queue does not starve a message, a worker that is not killed goes on, and
\* leases run out.  Nobody is obliged to retry, restore or request anything.
Fairness ==
  /\ \A j \in Jobs :
       /\ WF_vars(ExpireLease(j))
       /\ SF_vars(\E old \in SUBSET DueQueued, id \in MessageIds :
                    j \in old \cup AllExpired \cup DueDeferred /\ Sweep(old, {<<j, id>>}))
       /\ WF_vars(j \in AllExpired /\ RedispatchDueJobs)
  /\ \A msg \in Messages : SF_vars(\E w \in Workers : Claim(w, msg))
  /\ \A w \in Workers : WF_vars(WorkerStep(w))

FairSpec == Spec /\ Fairness

-----------------------------------------------------------------------------
(* Properties.                                                             *)

\* The reserved column of a month counts exactly the jobs whose row says they
\* hold a reservation of that month: no handler, interleaving, crash or
\* redelivery leaks a unit of the ceiling or gives one back twice.
LedgerMatchesHolders ==
  \A m \in Months : usage[m].reserved = Cardinality(Held(Jobs, m))

\* The charged and the reserved calls of a month never exceed the ceiling.
CeilingRespected ==
  \A m \in Months : usage[m].processed + usage[m].reserved <= Limit

\* Seen through its ledger, the module is a monthly budget the jobs draw on.
Budget == INSTANCE MonthlyBudget WITH
            Clients <- Jobs,
            spent <- [m \in Months |-> usage[m].processed],
            holds <- [j \in Jobs |-> job[j].held]

\* Whatever the API, the sweep and the workers do, they move units only as the
\* budget allows: taken within the ceiling, then spent or returned, once.
ImplementsBudget == Budget!Spec

\* Every call made, or about to be made by a worker that passed
\* consume_provider_call, has been charged to its month, even when the worker
\* dies, its lease runs out or its job is cancelled or deferred meanwhile.
CallsCharged ==
  \A m \in Months :
    calls[m] + Cardinality({w \in Workers : charge[w] = m}) <= usage[m].processed

\* A reservation is only ever held by a running job: whatever ends, defers or
\* requeues a job settles it first.
HeldOnlyWhileRunning == \A j \in Jobs : job[j].held # Never => job[j].status = "Running"

\* Two executions never both hold the unexpired lease of a job, whatever was
\* redelivered, so that they cannot both pay for and write its address.
OneClaimant ==
  \A v, w \in Workers :
    /\ v # w /\ task[v] # NoMessage /\ task[w] # NoMessage
    /\ task[v][1] = task[w][1]
    => ~(Claimed(v) /\ Claimed(w))

\* A stored address was computed for a point within the reuse radius of the
\* asset's present coordinates: no late worker writes the address of
\* coordinates that have since been replaced.
AddressNearby ==
  \A a \in Assets : address[a] # NoAddress => <<address[a], coord[a]>> \in Near

\* A queued or leased job does not stay so for ever, whatever messages are lost
\* and whichever workers die.
JobsSettle ==
  \A j \in Jobs : job[j].status \in {"Queued", "Running"} ~>
                   job[j].status \notin {"Queued", "Running"}
=============================================================================
