------------------------------ MODULE ByokJournal ------------------------------
(***************************************************************************)
(* Photos described from the user's machine with the user's own key: the   *)
(* journal of their calls, the threads of a run, the explicit retry of     *)
(* failed photos, and the server's side of each job.                       *)
(*                                                                         *)
(* A run holds the lock of its source, so that one runs at a time; its     *)
(* threads share the journal (SQLite, one statement or transaction a step) *)
(* and the backend.  The process may be killed anywhere; an exception of a *)
(* thread ends the run after the other threads have finished.              *)
(***************************************************************************)
EXTENDS Integers, FiniteSets, FiniteSetsExt

CONSTANTS
  Jobs,       \* photos: their numbers give the order of their rows
  Cap,        \* dollars a month (monthly_cap)
  Price,      \* dollars reserved for a call (the fourth of SCENE_MODEL_RATES)
  Costs,      \* what a call may cost
  MaxMonth,   \* months (bound)
  MaxRetries  \* retries the user orders (bound)

ASSUME ByokAssumption ==
  /\ Jobs \subseteq Nat /\ IsFiniteSet(Jobs) /\ Price \in Nat /\ Cap \in Nat /\ Costs \subseteq 0..Price
  /\ MaxMonth \in Nat \ {0} /\ MaxRetries \in Nat

VARIABLES
  row,      \* ByokAnalysis: job -> state, month and cost of its call, result
  past,     \* ByokPastAttempt: month -> cost of the attempts given up
  run,      \* what the process does
  retries,  \* retries ordered (bound)
  selected, \* failed photos a retry has still to take up
  stop,     \* ByokRunner.stop
  down,     \* ByokRunner.backend_failed
  pc,       \* job -> where its thread is
  server,   \* job -> ProcessingJob: status and claim
  month,
  charge,   \* job -> what the provider took for the call in progress
  billed,   \* month -> dollars the provider took for calls reserved in it (history)
  orders    \* job -> calls the user ordered and the provider has not billed (history)

journal == <<row, past>>
process == <<run, retries, selected, stop, down>>
outside == <<server, month>>
ledger  == <<charge, billed, orders>>
vars    == <<row, past, run, retries, selected, stop, down, pc, server, month, charge, billed, orders>>

Failed == {"NeedsAttention", "Uncertain"}
Steps  == {"Idle", "Claim", "Retry", "Preview", "Reserve", "Call", "Rejected", "NotCalled", "Ambiguous", "Described", "Sync"}
Months == 1..MaxMonth

States == {"None", "Ready", "Calling", "ResultReady", "Synced", "Skipped"} \cup Failed
Row    == [state: States, month: 0..MaxMonth, cost: 0..Price, result: BOOLEAN]

TypeOK ==
  /\ row \in [Jobs -> Row]
  /\ past \in [Months -> Nat] /\ month \in Months
  /\ run \in {"Off", "Flushing", "Running", "Retrying"} /\ selected \subseteq Jobs
  /\ retries \in 0..MaxRetries
  /\ stop \in BOOLEAN /\ down \in BOOLEAN /\ pc \in [Jobs -> Steps]
  /\ server \in [Jobs -> [status: {"Preparing", "Cloud", "Cancelled", "Succeeded"}, claimed: BOOLEAN]]
  /\ charge \in [Jobs -> Costs \cup {0}] /\ billed \in [Months -> Nat] /\ orders \in [Jobs -> Int]

Init ==
  /\ row = [j \in Jobs |-> [state |-> "None", month |-> 0, cost |-> 0, result |-> FALSE]]
  /\ past = [m \in Months |-> 0] /\ month = 1
  /\ run = "Off" /\ retries = 0 /\ selected = {} /\ stop = FALSE /\ down = FALSE /\ pc = [j \in Jobs |-> "Idle"]
  /\ server = [j \in Jobs |-> [status |-> "Preparing", claimed |-> FALSE]]
  /\ charge = [j \in Jobs |-> 0] /\ billed = [m \in Months |-> 0] /\ orders = [j \in Jobs |-> 1]

-----------------------------------------------------------------------------
(* The journal.                                                            *)

In(states) == {j \in Jobs : row[j].state \in states}
Go(j, step) == pc' = [pc EXCEPT ![j] = step]
Put(j, r) == row' = [row EXCEPT ![j] = r]

\* What the statements of the journal do to a row: its state is set; a failed
\* attempt is cleared; a photo cannot be read; a call is reserved; it is answered.
Moved(r, state)    == [r EXCEPT !.state = state]
Cleared(r)         == [r EXCEPT !.state = "Ready", !.month = 0, !.cost = 0]
Unread(r)          == [r EXCEPT !.state = "NeedsAttention", !.cost = 0]
Reserved(r)        == [r EXCEPT !.state = "Calling", !.month = month, !.cost = Price]
Described(r, cost) == [r EXCEPT !.state = "ResultReady", !.result = TRUE, !.cost = cost]

\* What the journal has spent or reserved in a month.
Spent(m) == past[m] + FoldSet(LAMBDA j, sum : IF row[j].month = m THEN sum + row[j].cost ELSE sum, 0, Jobs)

\* JournalSound: what is reserved now is forgotten in the check.
FitsBug == Spent(month) <= Cap

Fits == Spent(month) + Price <= Cap

\* PaidOnRequest: an interrupted call is taken up again.
RecoveredBug(r) == IF r.state = "Calling" THEN Moved(r, "Ready") ELSE r

\* NoRepeatInference: results not yet sent are taken for interrupted calls too.
RecoveredAllBug(r) ==
  IF r.state \in {"Calling", "ResultReady"} THEN Moved(r, "Uncertain") ELSE r

Recovered(r) == IF r.state = "Calling" THEN Moved(r, "Uncertain") ELSE r

\* The cost of a call that was refused, or never made, is taken back; that of a
\* call whose outcome is not known stays reserved.
Settled(r, outcome) == IF outcome = "Ambiguous" THEN r ELSE [r EXCEPT !.cost = 0]

\* A call that was refused may be made again, one never made needs the user.
After(outcome) ==
  CASE outcome = "Rejected"  -> "Ready"
    [] outcome = "NotCalled" -> "NeedsAttention"
    [] outcome = "Ambiguous" -> "Uncertain"

-----------------------------------------------------------------------------
(* The backend: save_byok_result, with and without a description.          *)

Grants(j)  == server[j].status = "Preparing"
Knows(j)   == server[j].claimed /\ server[j].status \in {"Preparing", "Succeeded"}
Claimed(j) == server' = [server EXCEPT ![j].claimed = TRUE]
Saved(j)   == server' = [server EXCEPT ![j].status = "Succeeded"]

\* The media or the job is withdrawn.
Withdraw(j) ==
  /\ server[j].status = "Preparing"
  /\ server' = [server EXCEPT ![j].status = "Cancelled"]
  /\ UNCHANGED <<journal, process, pc, month, ledger>>

\* The cloud path opens an upload for a job no device has claimed.
Upload(j) ==
  /\ server[j] = [status |-> "Preparing", claimed |-> FALSE]
  /\ server' = [server EXCEPT ![j].status = "Cloud"]
  /\ UNCHANGED <<journal, process, pc, month, ledger>>

NextMonth ==
  /\ month < MaxMonth /\ month' = month + 1
  /\ UNCHANGED <<journal, process, pc, server, ledger>>

-----------------------------------------------------------------------------
(* A run.                                                                  *)

\* The process ends, and its flags with it.
Quit == run' = "Off" /\ selected' = {} /\ stop' = FALSE /\ down' = FALSE

\* The lock of the source is taken; calls found in progress were interrupted.
StartRun ==
  /\ run = "Off" /\ run' = "Flushing"
  /\ row' = [j \in Jobs |-> Recovered(row[j])]
  /\ UNCHANGED <<past, retries, selected, stop, down, pc, outside, ledger>>

\* ResultsReach: a run starts with new photos, not with what is saved.
UnsentBug == {}

Unsent == In({"ResultReady"})

\* Saved results are sent one after the other; the first that fails ends the run.
Flush(j) == run = "Flushing" /\ j \in Unsent /\ \A k \in Unsent : j <= k

FlushAccepted(j) ==
  /\ Flush(j) /\ Knows(j) /\ Saved(j) /\ Put(j, Moved(row[j], "Synced"))
  /\ UNCHANGED <<past, process, pc, month, ledger>>

FlushFails(j) ==
  /\ Flush(j) /\ run' = "Off"
  /\ UNCHANGED server \/ (Knows(j) /\ Saved(j))
  /\ UNCHANGED <<journal, retries, selected, stop, down, pc, month, ledger>>

EndFlush ==
  /\ run = "Flushing" /\ Unsent = {} /\ run' = "Running"
  /\ UNCHANGED <<journal, retries, selected, stop, down, pc, outside, ledger>>

\* A page of photos the server has for this device; a photo in the journal stays
\* as it is, and the new ones come after it.
Prepare(page) ==
  /\ run = "Running" /\ ~stop /\ page # {} /\ \A j \in In({"Ready"}) : pc[j] # "Idle"
  /\ \A j \in page, k \in Jobs \ In({"None"}) : k < j
  /\ page \subseteq {j \in In({"None"}) : server[j] = [status |-> "Preparing", claimed |-> FALSE]}
  /\ row' = [j \in Jobs |-> IF j \in page THEN Moved(row[j], "Ready") ELSE row[j]]
  /\ UNCHANGED <<past, process, pc, outside, ledger>>

Submit(j) ==
  /\ ~stop /\ pc[j] = "Idle" /\ Go(j, "Claim")
  /\ \/ run = "Running" /\ row[j].state = "Ready" /\ UNCHANGED selected
     \/ run = "Retrying" /\ j \in selected /\ selected' = selected \ {j}
  /\ UNCHANGED <<journal, run, retries, stop, down, outside, ledger>>

\* The user interrupts the run, or its preparation fails.
Stop ==
  /\ run \in {"Running", "Retrying"} /\ ~stop /\ stop' = TRUE /\ down' \in BOOLEAN
  /\ UNCHANGED <<journal, run, retries, selected, pc, outside, ledger>>

\* All is done, the limit of a run is reached, or it stops; the threads have ended.
EndRun ==
  /\ run = "Running" \/ (run = "Retrying" /\ (stop \/ selected = {}))
  /\ \A j \in Jobs : pc[j] = "Idle"
  /\ Quit
  /\ UNCHANGED <<journal, retries, pc, outside, ledger>>

Kill ==
  /\ run # "Off" /\ Quit /\ pc' = [j \in Jobs |-> "Idle"]
  /\ charge' = [j \in Jobs |-> 0]
  /\ UNCHANGED <<journal, retries, outside, billed, orders>>

\* retry-photos, perhaps with those whose outcome is not known.
StartRetry(states) ==
  /\ run = "Off" /\ retries < MaxRetries /\ In(states) # {}
  /\ run' = "Retrying" /\ retries' = retries + 1
  /\ selected' = In(states)
  /\ UNCHANGED <<journal, stop, down, pc, outside, ledger>>

-----------------------------------------------------------------------------
(* The thread of a photo.                                                  *)

Leave(j) == Go(j, "Idle")

\* It finds stop set before its next step, if that step looks.
Cancelled(j) ==
  /\ stop /\ pc[j] \in {"Claim", "Preview"} /\ Leave(j)
  /\ UNCHANGED <<journal, process, outside, ledger>>

\* The backend fails, perhaps after it has done what was asked.
Break(j) ==
  /\ pc[j] \in {"Claim", "Sync"} /\ Leave(j) /\ stop' = TRUE /\ down' = TRUE
  /\ \/ UNCHANGED server
     \/ ~down /\ pc[j] = "Claim" /\ Grants(j) /\ Claimed(j)
     \/ ~down /\ pc[j] = "Sync" /\ Knows(j) /\ Saved(j)
  /\ UNCHANGED <<journal, run, retries, selected, month, ledger>>

Claim(j) ==
  /\ pc[j] = "Claim" /\ ~down
  /\ \/ /\ Grants(j) /\ Claimed(j) /\ Go(j, IF run = "Retrying" THEN "Retry" ELSE "Preview")
        /\ UNCHANGED row
     \/ /\ ~Grants(j) /\ Leave(j) /\ UNCHANGED server
        /\ Put(j, Moved(row[j], IF Knows(j) THEN "Synced" ELSE "Skipped"))
  /\ UNCHANGED <<past, process, month, ledger>>

\* requeue_failure: what the attempt may have cost is kept.
Requeue(j) ==
  /\ pc[j] = "Retry" /\ Go(j, "Preview")
  /\ past' = [m \in Months |-> IF m = row[j].month THEN past[m] + row[j].cost ELSE past[m]]
  /\ Put(j, Cleared(row[j]))
  /\ orders' = [orders EXCEPT ![j] = @ + 1]
  /\ UNCHANGED <<process, outside, charge, billed>>

\* The photo is read; it may be gone, or another one.  A run that stops
\* meanwhile makes no call for it.
Preview(j) ==
  /\ pc[j] = "Preview"
  /\ \/ ~stop /\ Go(j, "Reserve") /\ UNCHANGED row
     \/ Leave(j) /\ Put(j, Unread(row[j]))
  /\ UNCHANGED <<past, process, outside, ledger>>

Reserve(j) ==
  /\ pc[j] = "Reserve"
  /\ \/ Fits /\ Go(j, "Call") /\ Put(j, Reserved(row[j])) /\ UNCHANGED stop
     \/ ~Fits /\ Leave(j) /\ stop' = TRUE /\ UNCHANGED row
  /\ UNCHANGED <<past, run, retries, selected, down, outside, ledger>>

\* The provider refuses, is never reached, answers in a way that tells nothing,
\* or describes the photo.  It bills the last two.
Call(j, outcome, cost) ==
  /\ pc[j] = "Call" /\ Go(j, outcome) /\ (outcome = "Described" => cost \in Costs)
  /\ IF outcome \in {"Rejected", "NotCalled"}
     THEN cost = 0 /\ UNCHANGED <<charge, billed, orders>>
     ELSE /\ charge' = [charge EXCEPT ![j] = cost]
          /\ billed' = [billed EXCEPT ![row[j].month] = @ + cost]
          /\ orders' = [orders EXCEPT ![j] = @ - 1]
  /\ UNCHANGED <<journal, process, outside>>

\* A failure that is the photo's own does not stop the others.
Fail(j) ==
  /\ pc[j] \in {"Rejected", "NotCalled", "Ambiguous"} /\ Leave(j)
  /\ Put(j, Moved(Settled(row[j], pc[j]), After(pc[j])))
  /\ stop' = TRUE \/ (pc[j] # "Rejected" /\ stop' = stop)
  /\ charge' = [charge EXCEPT ![j] = 0]
  /\ UNCHANGED <<past, run, retries, selected, down, outside, billed, orders>>

\* The result is saved with its cost, or that of the reservation if the answer tells none.
Save(j) ==
  /\ pc[j] = "Described" /\ Go(j, "Sync")
  /\ \E cost \in {charge[j], Price} : Put(j, Described(row[j], cost))
  /\ charge' = [charge EXCEPT ![j] = 0]
  /\ UNCHANGED <<past, process, outside, billed, orders>>

Sync(j) ==
  /\ pc[j] = "Sync" /\ ~down /\ Leave(j)
  /\ \/ Knows(j) /\ Saved(j) /\ Put(j, Moved(row[j], "Synced")) /\ UNCHANGED stop
     \/ ~Knows(j) /\ stop' = TRUE /\ UNCHANGED <<row, server>>
  /\ UNCHANGED <<past, run, retries, selected, down, month, ledger>>

-----------------------------------------------------------------------------
Thread(j) ==
  \/ Claim(j) \/ Requeue(j) \/ Preview(j) \/ Reserve(j) \/ Fail(j) \/ Save(j) \/ Sync(j)
  \/ \E outcome \in {"Rejected", "NotCalled", "Ambiguous", "Described"}, cost \in Costs \cup {0} :
       Call(j, outcome, cost)

Next ==
  \/ StartRun \/ EndFlush \/ EndRun \/ Stop \/ Kill \/ NextMonth
  \/ \E states \in {{"NeedsAttention"}, Failed} : StartRetry(states)
  \/ \E page \in SUBSET Jobs : Prepare(page)
  \/ \E j \in Jobs : \/ FlushAccepted(j) \/ FlushFails(j) \/ Submit(j) \/ Cancelled(j) \/ Break(j) \/ Thread(j)
                     \/ Withdraw(j) \/ Upload(j)

Spec == Init /\ [][Next]_vars

\* The user runs it again and again, a run goes on or ends, threads do not hang, and the backend, asked
\* often enough, takes a result it has no reason to refuse.
FairSpec ==
  /\ Spec
  /\ SF_vars(StartRun) /\ WF_vars(EndRun \/ \E j \in Jobs : Submit(j))
  /\ WF_vars(EndFlush \/ \E j \in Jobs : FlushAccepted(j) \/ FlushFails(j))
  /\ \A j \in Jobs : WF_vars(Cancelled(j) \/ Break(j) \/ Thread(j)) /\ SF_vars(FlushAccepted(j))

-----------------------------------------------------------------------------
(* Properties.                                                             *)

\* The calls of a month, those of workers that run at once, those whose outcome
\* is not known and those tried again included, stay within monthly_cap (reserve).
CapRespected == \A m \in Months : billed[m] <= Cap

\* The journal is well formed and within the budget (reserve).
JournalSound == TypeOK /\ CapRespected

\* A photo is paid for once for each time the user ordered it, wherever the
\* process is killed (recover, requeue_failure).
PaidOnRequest == \A j \in Jobs : orders[j] >= 0

\* A saved result is kept until the backend has it, and its photo is not
\* reserved again ("A failed sync never causes repeat inference").
NoRepeatInference ==
  [][\A j \in Jobs : row[j].result =>
       /\ row'[j].result /\ row'[j].state \in {"ResultReady", "Synced"}
       /\ row'[j].cost = row[j].cost /\ row'[j].month = row[j].month]_vars

\* A saved result whose job the backend has given up.
Refused(j) == row[j].state = "ResultReady" /\ server[j].status = "Cancelled"

\* A saved result reaches the backend, unless some saved result is refused by it.
ResultsReach ==
  \A j \in Jobs : (row[j].state = "ResultReady") ~> (row[j].state = "Synced" \/ \E k \in Jobs : Refused(k))

\* ... unless it is itself refused: "Isolated photo failures are durable review
\* items, not a failed source/run", says the sync command.
OwnRefusal ==
  \A j \in Jobs : (row[j].state = "ResultReady") ~> (row[j].state = "Synced" \/ Refused(j))
==============================================================================
