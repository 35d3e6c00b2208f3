-------------------------- MODULE GeocodeJobsProofs --------------------------
(***************************************************************************)
(* Theorems about GeocodeJobs, for every set of assets, coordinates,       *)
(* workers and messages, every limit and every number of months:           *)
(*   - every reachable state is well typed;                                *)
(*   - the provider ledger counts exactly the reservations the job rows    *)
(*     hold, never exceeds the monthly ceiling, and implements             *)
(*     MonthlyBudget;                                                      *)
(*   - no two workers ever hold the lease of one job, no call is made that *)
(*     the ledger was not charged for, and where reuse is transitive they  *)
(*     write only addresses of nearby coordinates.                         *)
(***************************************************************************)
EXTENDS GeocodeJobs, FiniteSetTheorems, TLAPS

-----------------------------------------------------------------------------
(* Rows.                                                                   *)

Codes == {"None", "ProviderCircuitOpen", "Other"}

LEMMA MovedType ==
  ASSUME NEW row \in JobRow, NEW status \in Statuses, NEW code \in Codes,
         NEW due \in 0..(MaxMonth + 1)
  PROVE  /\ Moved(row, status, code, due) \in JobRow
         /\ Moved(row, status, code, due).status = status
         /\ Moved(row, status, code, due).held = row.held
         /\ Moved(row, status, code, due).attempts = row.attempts
  BY DEF Moved, JobRow, Codes

LEMMA UnheldType ==
  ASSUME NEW row \in JobRow
  PROVE  /\ Unheld(row) \in JobRow
         /\ Unheld(row).held = Never
         /\ Unheld(row).status = row.status
         /\ Unheld(row).attempts = row.attempts
  BY DEF Unheld, JobRow

LEMMA JobsFinite == IsFiniteSet(Jobs)
  BY FiniteAssumption, FS_Product DEF Jobs

\* Taking a part of a finite set away subtracts its cardinality, and the
\* cardinalities of disjoint sets add up.
LEMMA SplitCount ==
  ASSUME NEW A, IsFiniteSet(A), NEW B \in SUBSET A
  PROVE  /\ IsFiniteSet(B)
         /\ Cardinality(A) \in Nat /\ Cardinality(B) \in Nat
         /\ Cardinality(A \ B) \in Nat
         /\ Cardinality(A) = Cardinality(B) + Cardinality(A \ B)
  <1>1. IsFiniteSet(B)
    BY FS_Subset
  <1>2. /\ IsFiniteSet(A \ B)
        /\ Cardinality(A \ B) = Cardinality(A) - Cardinality(A \cap B)
    BY FS_Difference
  <1>3. A \cap B = B
    OBVIOUS
  <1>4. Cardinality(A \ B) = Cardinality(A) - Cardinality(B)
    BY <1>2, <1>3
  <1>5. Cardinality(A) \in Nat /\ Cardinality(B) \in Nat /\ Cardinality(A \ B) \in Nat
    BY <1>1, <1>2, FS_CardinalityType
  <1> DEFINE a == Cardinality(A)
             b == Cardinality(B)
             d == Cardinality(A \ B)
  <1>6. a \in Nat /\ b \in Nat /\ d \in Nat /\ d = a - b
    BY <1>4, <1>5
  <1> HIDE DEF a, b, d
  <1>7. a = b + d
    BY <1>6
  <1>8. QED
    BY <1>1, <1>5, <1>7 DEF a, b, d

\* How many jobs of a set, and of its complement, hold a unit of a month.
LEMMA HeldCount ==
  ASSUME NEW m, NEW S \in SUBSET Jobs
  PROVE  /\ IsFiniteSet(Held(S, m))
         /\ Cardinality(Held(Jobs, m)) \in Nat
         /\ Cardinality(Held(S, m)) \in Nat
         /\ Cardinality(Held(Jobs \ S, m)) \in Nat
         /\ Cardinality(Held(Jobs, m)) =
              Cardinality(Held(S, m)) + Cardinality(Held(Jobs \ S, m))
  <1>1. /\ Held(Jobs, m) \subseteq Jobs
        /\ Held(S, m) \in SUBSET Held(Jobs, m)
        /\ Held(Jobs \ S, m) = Held(Jobs, m) \ Held(S, m)
    BY DEF Held
  <1>2. IsFiniteSet(Held(Jobs, m))
    BY <1>1, JobsFinite, FS_Subset
  <1>3. QED
    BY <1>1, <1>2, SplitCount

-----------------------------------------------------------------------------
(* Type correctness.                                                       *)

LEMMA SettledType ==
  ASSUME TypeOK, NEW C \in SUBSET Jobs, NEW R \in SUBSET Jobs
  PROVE  Settled(C, R) \in [Months -> LedgerRow]
  <1> SUFFICES ASSUME NEW m \in Months
               PROVE  Settle(usage[m], Cardinality(Held(C, m)), Cardinality(Held(R, m)))
                        \in LedgerRow
    BY DEF Settled
  <1> DEFINE c == Cardinality(Held(C, m))
             r == Cardinality(Held(R, m))
  <1>1. c \in Nat /\ r \in Nat
    BY HeldCount
  <1>2. usage[m] \in LedgerRow
    BY DEF TypeOK
  <1> HIDE DEF c, r
  <1> DEFINE out  == Lesser(usage[m].reserved, c + r)
             paid == Lesser(usage[m].reserved, c)
             left == usage[m].reserved - out
             sum  == usage[m].processed + paid
  <1>3. left \in Nat /\ sum \in Nat
    BY <1>1, <1>2 DEF Lesser, LedgerRow
  <1>4. Settle(usage[m], c, r) = [usage[m] EXCEPT !.reserved = left, !.processed = sum]
    BY DEF Settle
  <1> HIDE DEF left, sum
  <1>5. Settle(usage[m], c, r) \in LedgerRow
    BY <1>2, <1>3, <1>4 DEF LedgerRow
  <1>6. QED
    BY <1>5 DEF c, r

\* The due dates the handlers write.
LEMMA DueType ==
  ASSUME TypeOK
  PROVE  /\ Never \in 0..(MaxMonth + 1)
         /\ month \in 0..(MaxMonth + 1)
         /\ month + 1 \in 0..(MaxMonth + 1)
         /\ 1 \in Months /\ month \in Months
  BY BoundAssumption DEF TypeOK, Months, Never

LEMMA FreshRowType ==
  /\ NoJob \in JobRow
  /\ \A due \in 0..(MaxMonth + 1) : [NoJob EXCEPT !.status = "Queued", !.due = due] \in JobRow
  <1>1. 0 \in 0..MaxAttempts /\ Never \in 0..(MaxMonth + 1)
    BY BoundAssumption DEF Never
  <1>2. NoJob \in JobRow
    BY <1>1 DEF NoJob, JobRow, Statuses
  <1>3. QED
    BY <1>2 DEF JobRow, Statuses

LEMMA CancelStaleType ==
  ASSUME TypeOK, NEW j \in Jobs, CancelStale(j)
  PROVE  job' \in [Jobs -> JobRow] /\ usage' \in [Months -> LedgerRow]
  <1>1. job[j] \in JobRow
    BY DEF TypeOK
  <1>2. Unheld(Moved(job[j], "Cancelled", "Other", Never)) \in JobRow
    BY <1>1, DueType, MovedType, UnheldType DEF Statuses, Codes
  <1>3. QED
    BY <1>2, SettledType DEF CancelStale, TypeOK

\* An execution that is under way has a message; what it needs beside TypeOK.
Busy == \A w \in Workers : pc[w] # "Idle" => task[w] \in Messages

TypeInv == TypeOK /\ Busy

LEMMA NotClaimedType ==
  ASSUME TypeInv, NEW w \in Workers, pc[w] # "Idle",
         NEW step \in Steps, NotClaimed(w, step)
  PROVE  TypeInv'
  <1>1. task[w] \in Messages /\ task[w][1] \in Jobs
    BY DEF TypeInv, Busy, Messages
  <1>2. job' \in [Jobs -> JobRow] /\ usage' \in [Months -> LedgerRow]
    BY <1>1, CancelStaleType DEF NotClaimed, TypeInv, TypeOK
  <1>3. TypeOK'
    BY <1>2 DEF NotClaimed, Goto, TypeInv, TypeOK, catalog
  <1>4. Busy'
    BY <1>1 DEF NotClaimed, Goto, TypeInv, TypeOK, Busy
  <1>5. QED
    BY <1>3, <1>4 DEF TypeInv

\* The transactions of the API and of the sweep, and the passage of time.
LEMMA TypeApi ==
  ASSUME TypeInv, NEW a \in Assets, NEW c \in Coordinates,
         UpsertLocation(a, c) \/ TrashAsset(a) \/ RestoreAsset(a) \/ PrepareEnrichment(a)
  PROVE  TypeInv'
  <1> USE DEF TypeInv, TypeOK, Busy, process, catalog
  <1>1. CASE UpsertLocation(a, c)
    <2>1. Reusable(Assets, c) \subseteq Coordinates \cup {NoAddress}
      BY DEF Reusable
    <2>2. QED
      BY <1>1, <2>1 DEF UpsertLocation
  <1>2. CASE TrashAsset(a)
    <2>1. \A j \in Jobs : Unheld(Moved(job[j], "Cancelled", "Other", Never)) \in JobRow
      BY DueType, MovedType, UnheldType DEF Statuses, Codes
    <2>2. job' \in [Jobs -> JobRow]
      BY <1>2, <2>1 DEF TrashAsset
    <2>3. usage' \in [Months -> LedgerRow]
      BY <1>2, SettledType DEF TrashAsset
    <2>4. QED
      BY <1>2, <2>2, <2>3 DEF TrashAsset
  <1>3. CASE RestoreAsset(a)
    BY <1>3 DEF RestoreAsset
  <1>4. CASE PrepareEnrichment(a)
    <2>1. [NoJob EXCEPT !.status = "Queued", !.due = month] \in JobRow
      BY DueType, FreshRowType
    <2>2. queue' \subseteq Messages
      BY <1>4 DEF PrepareEnrichment, Dispatch, Sent
    <2>3. QED
      BY <1>4, <2>1, <2>2 DEF PrepareEnrichment
  <1>5. QED
    BY <1>1, <1>2, <1>3, <1>4

LEMMA EditType ==
  ASSUME NEW row \in JobRow, NEW n \in 0..MaxAttempts, NEW b \in BOOLEAN
  PROVE  /\ [row EXCEPT !.attempts = n] \in JobRow
         /\ [row EXCEPT !.attempts = n].held = row.held
         /\ [row EXCEPT !.attempts = n, !.blocked = b] \in JobRow
         /\ [row EXCEPT !.attempts = n, !.blocked = b].held = row.held
  BY DEF JobRow

LEMMA CircuitType ==
  ASSUME NEW ledger \in [Months -> LedgerRow], NEW row \in LedgerRow
  PROVE  /\ Circuit(ledger, OpenCircuit(row)) \in [Months -> LedgerRow]
         /\ Circuit(ledger, CloseCircuit(row)) \in [Months -> LedgerRow]
  BY DEF Circuit, OpenCircuit, CloseCircuit, LedgerRow

\* What RetryJob and the sweep make of a row they queue again.
LEMMA QueuedType ==
  ASSUME TypeInv, NEW row \in JobRow
  PROVE  /\ Moved(row, "Queued", "None", month) \in JobRow
         /\ Moved(row, "Queued", "None", month).held = row.held
         /\ \A n \in {0, row.attempts} :
              [Moved(row, "Queued", "None", month) EXCEPT !.attempts = n] \in JobRow
         /\ [Moved(row, "Queued", "None", month) EXCEPT
               !.attempts = 0, !.blocked = FALSE] \in JobRow
  <1>1. /\ Moved(row, "Queued", "None", month) \in JobRow
        /\ Moved(row, "Queued", "None", month).held = row.held
    <2>1. "Queued" \in Statuses /\ "None" \in Codes
      BY DEF Statuses, Codes
    <2>2. month \in 0..(MaxMonth + 1)
      BY DueType DEF TypeInv
    <2>3. QED
      BY <2>1, <2>2, MovedType
  <1>2. 0 \in 0..MaxAttempts /\ row.attempts \in 0..MaxAttempts
    BY BoundAssumption DEF JobRow
  <1>3. QED
    BY <1>1, <1>2, EditType

LEMMA TypeRetry ==
  ASSUME TypeInv, NEW j \in Jobs, RetryJob(j)
  PROVE  TypeInv'
  <1> USE DEF TypeInv, TypeOK, Busy, process, catalog
  <1>1. \A k \in Jobs : job'[k] \in JobRow
    <2> TAKE k \in Jobs
    <2>1. job[k] \in JobRow
      OBVIOUS
    <2>2. \A n \in {0, job[k].attempts} :
            [Moved(job[k], "Queued", "None", month) EXCEPT !.attempts = n] \in JobRow
      BY <2>1, QueuedType
    <2>3. Moved(job[k], "Queued", "None", month).attempts = job[k].attempts
      BY DEF Moved, JobRow
    <2>4. [Moved(job[k], "Queued", "None", month) EXCEPT
             !.attempts = 0, !.blocked = FALSE] \in JobRow
      BY <2>1, QueuedType
    <2>5. \/ \E n \in {0, job[k].attempts} :
               job'[k] = [Moved(job[k], "Queued", "None", month) EXCEPT !.attempts = n]
          \/ job'[k] = [Moved(job[k], "Queued", "None", month) EXCEPT
                          !.attempts = 0, !.blocked = FALSE]
          \/ job'[k] = job[k]
      BY <2>3 DEF RetryJob
    <2>6. QED
      BY <2>1, <2>2, <2>4, <2>5
  <1>2. job' \in [Jobs -> JobRow]
    BY <1>1 DEF RetryJob
  <1>3. usage' \in [Months -> LedgerRow]
    BY DueType, CircuitType DEF RetryJob
  <1>4. queue' \subseteq Messages
    BY DEF RetryJob, Dispatch, Sent
  <1>5. QED
    BY <1>2, <1>3, <1>4 DEF RetryJob

LEMMA TypeSweep ==
  ASSUME TypeInv, NEW old \in SUBSET DueQueued, NEW batch, Sweep(old, batch)
  PROVE  TypeInv'
  <1> USE DEF TypeInv, TypeOK, Busy, process, catalog
  <1>1. AllExpired \in SUBSET Jobs /\ DueDeferred \in SUBSET Jobs
    BY DEF AllExpired, DueDeferred
  <1>2. \A j \in Jobs : job'[j] \in JobRow
    <2> TAKE j \in Jobs
    <2> DEFINE row == IF j \in AllExpired \cup DueDeferred THEN Unheld(job[j]) ELSE job[j]
    <2>1. row \in JobRow /\ row.attempts = job[j].attempts
      BY UnheldType
    <2>2. \A status \in {"Queued", "Failed"}, code \in {"None", "Other"}, due \in {month, Never} :
            /\ Moved(row, status, code, due) \in JobRow
            /\ Moved(row, status, code, due).attempts = row.attempts
      <3> TAKE status \in {"Queued", "Failed"}, code \in {"None", "Other"}, due \in {month, Never}
      <3>1. status \in Statuses /\ code \in Codes /\ due \in 0..(MaxMonth + 1)
        BY DueType DEF Statuses, Codes
      <3>2. QED
        BY <2>1, <3>1, MovedType
    <2>3. \/ job'[j] = Moved(row, "Failed", "Other", Never)
          \/ \E n \in {0, row.attempts} :
               job'[j] = [Moved(row, "Queued", "None", month) EXCEPT !.attempts = n]
          \/ job'[j] = job[j]
      <3>1. Moved(row, "Queued", "None", month).attempts = row.attempts
        BY <2>2
      <3>2. QED
        BY <3>1 DEF Sweep
    <2> HIDE DEF row
    <2>4. Moved(row, "Failed", "Other", Never) \in JobRow
      BY <2>2
    <2>5. \A n \in {0, row.attempts} :
            [Moved(row, "Queued", "None", month) EXCEPT !.attempts = n] \in JobRow
      BY <2>1, QueuedType
    <2>6. job[j] \in JobRow
      OBVIOUS
    <2>7. QED
      BY <2>3, <2>4, <2>5, <2>6
  <1>3. job' \in [Jobs -> JobRow]
    BY <1>2 DEF Sweep
  <1>4. usage' \in [Months -> LedgerRow]
    BY <1>1, SettledType DEF Sweep
  <1>5. queue' \subseteq Messages
    BY DEF Sweep, Sent
  <1>6. QED
    BY <1>3, <1>4, <1>5 DEF Sweep

LEMMA TypeTime ==
  ASSUME TypeInv, AdvanceMonth \/ \E j \in Jobs : ExpireLease(j)
  PROVE  TypeInv'
  <1> USE DEF TypeInv, TypeOK, Busy, process, catalog
  <1>1. CASE AdvanceMonth
    BY <1>1, BoundAssumption DEF AdvanceMonth, Months
  <1>2. ASSUME NEW j \in Jobs, ExpireLease(j)
        PROVE  TypeInv'
    <2>1. [job[j] EXCEPT !.live = FALSE] \in JobRow
      BY DEF JobRow
    <2>2. QED
      BY <1>2, <2>1 DEF ExpireLease
  <1>3. QED
    BY <1>1, <1>2

LEMMA ReserveType ==
  ASSUME NEW row \in LedgerRow
  PROVE  /\ Reserve(row, 1) \in LedgerRow
         /\ Reserve(row, 1).reserved = row.reserved + 1
         /\ Reserve(row, 1).processed = row.processed
  <1> DEFINE sum == row.reserved + 1
  <1>1. sum \in Nat
    BY DEF LedgerRow
  <1>2. Reserve(row, 1) = [row EXCEPT !.reserved = sum]
    BY DEF Reserve
  <1> HIDE DEF sum
  <1>3. Reserve(row, 1) \in LedgerRow /\ Reserve(row, 1).reserved = sum
    BY <1>1, <1>2 DEF LedgerRow
  <1>4. QED
    BY <1>2, <1>3 DEF sum, LedgerRow

\* The worker's transactions.  Each either loses its claim or does its work.
LEMMA TypeClaim ==
  ASSUME TypeInv, NEW w \in Workers, NEW msg \in Messages, Claim(w, msg)
  PROVE  TypeInv'
  <1> USE DEF TypeInv, TypeOK, Busy, process, catalog
  <1>1. msg[1] \in Jobs /\ msg[2] \in MessageIds
    BY DEF Messages
  <1>2. job[msg[1]] \in JobRow
    BY <1>1
  <1>3. job' \in [Jobs -> JobRow] /\ usage' \in [Months -> LedgerRow]
    <2>1. CASE CancelStale(msg[1])
      BY <2>1, <1>1, CancelStaleType
    <2>2. CASE job' = job /\ usage' = usage
      BY <2>2
    <2>3. CASE /\ usage' = Settled({msg[1]}, {})
               /\ job' = [job EXCEPT ![msg[1]] =
                            Unheld([@ EXCEPT !.status = "Failed", !.code = "Other"])]
      <3>1. [job[msg[1]] EXCEPT !.status = "Failed", !.code = "Other"] \in JobRow
        BY <1>2 DEF JobRow, Statuses
      <3>2. Unheld([job[msg[1]] EXCEPT !.status = "Failed", !.code = "Other"]) \in JobRow
        BY <3>1, UnheldType
      <3>3. QED
        BY <1>1, <2>3, <3>2, SettledType
    <2>4. CASE /\ usage' = usage
               /\ ~Exhausted(msg[1])
               /\ job' = [job EXCEPT ![msg[1]] = [@ EXCEPT !.status = "Running",
                            !.code = "None", !.attempts = job[msg[1]].attempts + 1,
                            !.lease = msg[2], !.live = TRUE]]
      <3>1. job[msg[1]].attempts + 1 \in 0..MaxAttempts
        BY <1>2, <2>4, BoundAssumption DEF Exhausted, JobRow
      <3> DEFINE row == [job[msg[1]] EXCEPT !.status = "Running", !.code = "None",
                           !.attempts = job[msg[1]].attempts + 1,
                           !.lease = msg[2], !.live = TRUE]
      <3>2. row \in JobRow
        BY <1>1, <1>2, <3>1 DEF JobRow, Statuses
      <3>3. job' = [job EXCEPT ![msg[1]] = row]
        BY <2>4
      <3> HIDE DEF row
      <3>4. QED
        BY <1>1, <2>4, <3>2, <3>3
    <2>5. QED
      BY <2>1, <2>2, <2>3, <2>4 DEF Claim
  <1>4. pc' \in [Workers -> Steps]
    BY DEF Claim, Goto, Steps
  <1>5. QED
    BY <1>3, <1>4 DEF Claim, Goto

LEMMA TypeLookup ==
  ASSUME TypeInv, NEW w \in Workers, Lookup(w)
  PROVE  TypeInv'
  <1> USE DEF TypeInv, TypeOK, Busy, process, catalog
  <1>1. CASE NotClaimed(w, "Reserve")
    BY <1>1, NotClaimedType DEF Lookup, Steps
  <1>2. CASE ~NotClaimed(w, "Reserve")
    <2>1. Reusable(Assets \ {task[w][1][1]}, task[w][1][2]) \subseteq Coordinates \cup {NoAddress}
      BY DEF Reusable
    <2>2. pc' \in [Workers -> Steps]
      BY <1>2 DEF Lookup, Goto, Steps
    <2>3. answer' \in [Workers -> Coordinates \cup {NoAddress}]
      BY <1>2, <2>1 DEF Lookup
    <2>4. QED
      BY <1>2, <2>2, <2>3 DEF Lookup, Goto
  <1>3. QED
    BY <1>1, <1>2

LEMMA TypeReserve ==
  ASSUME TypeInv, NEW w \in Workers, ReserveCall(w)
  PROVE  TypeInv'
  <1> USE DEF TypeInv, TypeOK, Busy, process, catalog
  <1>1. CASE NotClaimed(w, "Defer")
    BY <1>1, NotClaimedType DEF ReserveCall, Steps
  <1>2. CASE ~NotClaimed(w, "Defer")
    <2> DEFINE j    == task[w][1]
               kept == job[j].held = month
               led  == IF kept THEN usage ELSE Settled({}, {j})
               row  == [led[month] EXCEPT !.exists = TRUE]
               granted == ~row.open /\ (kept \/ Fits(row, 1, Limit))
    <2>1. j \in Jobs /\ job[j] \in JobRow /\ month \in Months
      BY DEF ReserveCall, Messages
    <2>2. led \in [Months -> LedgerRow]
      BY <2>1, SettledType
    <2>3. row \in LedgerRow /\ Reserve(row, 1) \in LedgerRow
      <3>1. led[month] \in LedgerRow
        BY <2>1, <2>2
      <3> HIDE DEF led
      <3>2. row \in LedgerRow
        BY <3>1 DEF LedgerRow
      <3> HIDE DEF row
      <3>3. Reserve(row, 1) \in LedgerRow
        BY <3>2, ReserveType
      <3>4. QED
        BY <3>2, <3>3
    <2>4. /\ usage' = [led EXCEPT ![month] =
                         IF granted /\ ~kept THEN Reserve(row, 1) ELSE row]
          /\ job' = [job EXCEPT ![j] = [@ EXCEPT
                       !.blocked = row.open \/ (job[j].blocked /\ ~granted),
                       !.held = IF granted \/ kept THEN month ELSE Never]]
          /\ Goto(w, IF granted THEN "Consume" ELSE "Defer")
          /\ UNCHANGED <<catalog, month, queue, task, answer, charge, calls>>
      BY <1>2 DEF ReserveCall
    <2>5. /\ (row.open \/ (job[j].blocked /\ ~granted)) \in BOOLEAN
          /\ (IF granted \/ kept THEN month ELSE Never) \in Months \cup {Never}
      BY <2>1
    <2> HIDE DEF granted, row, led, kept, j
    <2>6. usage' \in [Months -> LedgerRow]
      BY <2>2, <2>3, <2>4
    <2>7. \A b \in BOOLEAN, h \in Months \cup {Never} :
            [job[j] EXCEPT !.blocked = b, !.held = h] \in JobRow
      BY <2>1 DEF JobRow
    <2>8. job' \in [Jobs -> JobRow]
      BY <2>1, <2>4, <2>5, <2>7
    <2>9. QED
      BY <2>4, <2>6, <2>8 DEF Goto, Steps, ReserveCall
  <1>3. QED
    BY <1>1, <1>2

LEMMA SettledCircuitType ==
  ASSUME TypeInv, NEW C \in SUBSET Jobs, NEW R \in SUBSET Jobs
  PROVE  /\ Settled(C, R) \in [Months -> LedgerRow]
         /\ Circuit(Settled(C, R), OpenCircuit(Settled(C, R)[month])) \in [Months -> LedgerRow]
  <1>1. Settled(C, R) \in [Months -> LedgerRow] /\ month \in Months
    BY SettledType, DueType DEF TypeInv
  <1>2. Settled(C, R)[month] \in LedgerRow
    BY <1>1
  <1>3. QED
    BY <1>1, <1>2, CircuitType

\* The row of a job that a handler ends, defers or queues again, settled.
LEMMA EndedType ==
  ASSUME TypeInv, NEW j \in Jobs,
         NEW status \in {"Queued", "DeferredQuota", "Succeeded", "Failed", "Cancelled"},
         NEW code \in Codes, NEW due \in {Never, month, month + 1}
  PROVE  /\ Unheld(Moved(job[j], status, code, due)) \in JobRow
         /\ Unheld(Moved(job[j], status, code, due)).held = Never
         /\ Unheld(Moved(job[j], status, code, due)).status = status
  <1>1. job[j] \in JobRow
    BY DEF TypeInv, TypeOK
  <1>2. status \in Statuses /\ due \in 0..(MaxMonth + 1)
    BY DueType DEF TypeInv, Statuses
  <1>3. QED
    BY <1>1, <1>2, MovedType, UnheldType

LEMMA TypeDefer ==
  ASSUME TypeInv, NEW w \in Workers, Defer(w) \/ DeferCalled(w)
  PROVE  TypeInv'
  <1> USE DEF TypeInv, TypeOK, Busy, process, catalog
  <1>1. task[w][1] \in Jobs /\ pc[w] # "Idle"
    BY DEF Defer, DeferCalled, Messages
  <1>2. CASE NotClaimed(w, "Ack")
    BY <1>1, <1>2, NotClaimedType DEF Steps
  <1>3. CASE ~NotClaimed(w, "Ack")
    <2> DEFINE j == task[w][1]
    <2>1. \E code \in Codes :
            job' = [job EXCEPT ![j] = Unheld(Moved(@, "DeferredQuota", code, month + 1))]
      BY <1>3 DEF Defer, DeferCalled, Codes
    <2>2. job' \in [Jobs -> JobRow]
      BY <1>1, <2>1, EndedType
    <2>3. /\ Settled({j}, {}) \in [Months -> LedgerRow]
          /\ Circuit(Settled({j}, {}), OpenCircuit(Settled({j}, {})[month]))
               \in [Months -> LedgerRow]
          /\ Settled({}, {j}) \in [Months -> LedgerRow]
      <3>1. {} \in SUBSET Jobs /\ {j} \in SUBSET Jobs
        BY <1>1
      <3>2. QED
        BY <3>1, SettledCircuitType
    <2>4. usage' \in [Months -> LedgerRow]
      BY <1>3, <2>3 DEF Defer, DeferCalled
    <2>5. QED
      BY <1>3, <2>2, <2>4 DEF Defer, DeferCalled, Goto, Steps
  <1>4. QED
    BY <1>2, <1>3

LEMMA TypeConsume ==
  ASSUME TypeInv, NEW w \in Workers, ConsumeCall(w)
  PROVE  TypeInv'
  <1> USE DEF TypeInv, TypeOK, Busy, process, catalog
  <1>1. task[w][1] \in Jobs /\ pc[w] # "Idle"
    BY DEF ConsumeCall, Messages
  <1>2. CASE NotClaimed(w, "Ack")
    BY <1>1, <1>2, NotClaimedType DEF Steps
  <1>3. CASE ~NotClaimed(w, "Ack")
    <2> DEFINE j == task[w][1]
    <2>1. job[j] \in JobRow /\ Unheld(job[j]) \in JobRow /\ job[j].held \in Months \cup {Never}
      BY <1>1, UnheldType DEF JobRow
    <2>2. Settled({j}, {}) \in [Months -> LedgerRow]
      BY <1>1, SettledType
    <2>3. /\ usage' = Settled({j}, {})
          /\ job' = [job EXCEPT ![j] = Unheld(job[j])]
          /\ charge' = [charge EXCEPT ![w] = job[j].held]
          /\ pc' = [pc EXCEPT ![w] = IF job[j].held = Never THEN "Ack" ELSE "Call"]
          /\ UNCHANGED <<catalog, month, queue, task, answer, calls>>
      BY <1>3 DEF ConsumeCall, Goto
    <2>4. job' \in [Jobs -> JobRow] /\ usage' \in [Months -> LedgerRow]
      BY <1>1, <2>1, <2>2, <2>3
    <2>5. charge' \in [Workers -> Months \cup {Never}] /\ pc' \in [Workers -> Steps]
      BY <2>1, <2>3 DEF Steps
    <2>6. QED
      BY <1>1, <2>3, <2>4, <2>5
  <1>4. QED
    BY <1>2, <1>3

LEMMA TypeCall ==
  ASSUME TypeInv, NEW w \in Workers, CallProvider(w)
  PROVE  TypeInv'
  <1> USE DEF TypeInv, TypeOK, Busy, process, catalog
  <1>1. task[w] \in Messages /\ task[w][1][2] \in Coordinates
    BY DEF CallProvider, Messages, Jobs
  <1>2. calls' \in [Months -> Nat]
    <2>1. \A m \in Months : calls[m] \in Nat /\ calls[m] + 1 \in Nat
      OBVIOUS
    <2>2. calls' = [m \in Months |-> IF m = charge[w] THEN calls[m] + 1 ELSE calls[m]]
      BY DEF CallProvider
    <2>3. QED
      BY <2>1, <2>2
  <1>3. pc' \in [Workers -> Steps] /\ answer' \in [Workers -> Coordinates \cup {NoAddress}]
    BY <1>1 DEF CallProvider, Goto, Steps
  <1>4. QED
    BY <1>1, <1>2, <1>3 DEF CallProvider, Goto

LEMMA TypeComplete ==
  ASSUME TypeInv, NEW w \in Workers, Complete(w)
  PROVE  TypeInv'
  <1> USE DEF TypeInv, TypeOK, Busy, process, catalog
  <1>1. task[w][1] \in Jobs /\ pc[w] # "Idle"
    BY DEF Complete, Messages
  <1>2. CASE NotClaimed(w, "Ack")
    BY <1>1, <1>2, NotClaimedType DEF Steps
  <1>3. CASE ~NotClaimed(w, "Ack")
    <2> DEFINE j == task[w][1]
    <2>1. job' = [job EXCEPT ![j] = Unheld(Moved(@, "Succeeded", "None", Never))]
      BY <1>3 DEF Complete
    <2>2. job' \in [Jobs -> JobRow]
      BY <1>1, <2>1, EndedType DEF Codes
    <2>3. /\ Settled({j}, {}) \in [Months -> LedgerRow]
          /\ Settled({}, {j}) \in [Months -> LedgerRow]
      <3>1. {} \in SUBSET Jobs /\ {j} \in SUBSET Jobs
        BY <1>1
      <3>2. QED
        BY <3>1, SettledType
    <2>4. usage' \in [Months -> LedgerRow]
      BY <1>3, <2>3 DEF Complete
    <2>5. address' \in [Assets -> Coordinates \cup {NoAddress}]
      BY <1>3 DEF Complete
    <2>6. QED
      BY <1>1, <1>3, <2>2, <2>4, <2>5 DEF Complete, Goto, Steps
  <1>4. QED
    BY <1>2, <1>3

LEMMA TypeFail ==
  ASSUME TypeInv, NEW w \in Workers, Fail(w)
  PROVE  TypeInv'
  <1> USE DEF TypeInv, TypeOK, Busy, process, catalog
  <1>1. task[w][1] \in Jobs /\ task[w] \in Messages /\ pc[w] # "Idle"
    BY DEF Fail, Messages
  <1>2. CASE NotClaimed(w, "Ack")
    BY <1>1, <1>2, NotClaimedType DEF Steps
  <1>3. CASE ~NotClaimed(w, "Ack")
    <2> DEFINE j == task[w][1]
    <2>1. \/ job' = [job EXCEPT ![j] = Unheld(Moved(@, "Queued", "Other", month))]
          \/ job' = [job EXCEPT ![j] = Unheld(Moved(@, "Failed", "Other", Never))]
      BY <1>3 DEF Fail
    <2>2. /\ Unheld(Moved(job[j], "Queued", "Other", month)) \in JobRow
          /\ Unheld(Moved(job[j], "Failed", "Other", Never)) \in JobRow
      BY <1>1, EndedType DEF Codes
    <2>3. job' \in [Jobs -> JobRow]
      BY <2>1, <2>2
    <2>4. /\ Settled({j}, {}) \in [Months -> LedgerRow]
          /\ Circuit(Settled({j}, {}), OpenCircuit(Settled({j}, {})[month]))
               \in [Months -> LedgerRow]
      <3>1. {} \in SUBSET Jobs /\ {j} \in SUBSET Jobs
        BY <1>1
      <3>2. QED
        BY <3>1, SettledCircuitType
    <2>5. usage' \in [Months -> LedgerRow]
      BY <1>3, <2>4 DEF Fail
    <2>6. /\ pc' \in [Workers -> Steps]
          /\ task' \in [Workers -> Messages \cup {NoMessage}]
          /\ queue' \subseteq Messages
          /\ UNCHANGED <<catalog, month, charge, calls, answer>>
      BY <1>1, <1>3 DEF Fail, Goto, Steps
    <2>7. Busy'
      BY <1>1, <1>3 DEF Fail, Goto, Steps
    <2>8. QED
      BY <2>3, <2>5, <2>6, <2>7
  <1>4. QED
    BY <1>2, <1>3

LEMMA TypeRelease ==
  ASSUME TypeInv, NEW w \in Workers, Acknowledge(w) \/ Crash(w)
  PROVE  TypeInv'
  <1> USE DEF TypeInv, TypeOK, Busy, process, catalog
  <1>1. queue' \subseteq Messages
    BY DEF Acknowledge, Crash
  <1>2. QED
    BY <1>1 DEF Acknowledge, Crash, Release, Goto, Steps

LEMMA TypeStep == TypeInv /\ [Next]_vars => TypeInv'
  <1> SUFFICES ASSUME TypeInv, [Next]_vars
               PROVE  TypeInv'
    OBVIOUS
  <1>1. CASE UNCHANGED vars
    BY <1>1 DEF vars, catalog, process, TypeInv, TypeOK, Busy
  <1>2. ASSUME NEW a \in Assets,
               \/ \E c \in Coordinates : UpsertLocation(a, c)
               \/ TrashAsset(a) \/ RestoreAsset(a) \/ PrepareEnrichment(a)
        PROVE  TypeInv'
    <2>1. coord[a] \in Coordinates
      BY DEF TypeInv, TypeOK
    <2>2. QED
      BY <1>2, <2>1, TypeApi
  <1>3. ASSUME NEW j \in Jobs, RetryJob(j) \/ ExpireLease(j)
        PROVE  TypeInv'
    BY <1>3, TypeRetry, TypeTime
  <1>4. CASE RedispatchDueJobs
    BY <1>4, TypeSweep DEF RedispatchDueJobs
  <1>5. CASE AdvanceMonth
    BY <1>5, TypeTime
  <1>6. ASSUME NEW w \in Workers,
               (\E msg \in Messages : Claim(w, msg)) \/ WorkerStep(w) \/ Crash(w)
        PROVE  TypeInv'
    BY <1>6, TypeClaim, TypeLookup, TypeReserve, TypeDefer, TypeConsume, TypeCall,
       TypeComplete, TypeFail, TypeRelease DEF WorkerStep
  <1>7. QED
    BY <1>1, <1>2, <1>3, <1>4, <1>5, <1>6 DEF Next

LEMMA TypeInit == Init => TypeInv
  <1> SUFFICES ASSUME Init PROVE TypeInv
    OBVIOUS
  <1>1. NewRow \in LedgerRow
    BY DEF NewRow, LedgerRow
  <1>2. NoJob \in JobRow
    BY FreshRowType
  <1>3. 1 \in Months
    BY BoundAssumption DEF Months
  <1>4. QED
    BY <1>1, <1>2, <1>3 DEF Init, TypeInv, TypeOK, Busy, Steps, Months

\* Every reachable state is well typed, whatever assets, coordinates, workers
\* and messages there are: no handler writes a status, a due month, an attempt
\* count above max_attempts or a lease that the row cannot hold.
THEOREM TypeCorrect == Spec => []TypeOK
  <1>1. TypeInv => TypeOK
    BY DEF TypeInv
  <1>2. QED
    BY TypeInit, TypeStep, <1>1, PTL DEF Spec

-----------------------------------------------------------------------------
(* Counting the holders of a month.                                        *)

LEMMA DisjointCount ==
  ASSUME NEW A, NEW B, IsFiniteSet(A), IsFiniteSet(B), A \cap B = {}
  PROVE  Cardinality(A \cup B) = Cardinality(A) + Cardinality(B)
  <1>1. Cardinality(A \cup B) = Cardinality(A) + Cardinality(B) - Cardinality(A \cap B)
    BY FS_Union
  <1>2. Cardinality(A \cap B) = 0
    BY FS_EmptySet
  <1>3. Cardinality(A) \in Nat /\ Cardinality(B) \in Nat
    BY FS_CardinalityType
  <1>4. QED
    BY <1>1, <1>2, <1>3

LEMMA DisjointHeld ==
  ASSUME NEW m, NEW C \in SUBSET Jobs, NEW R \in SUBSET Jobs, C \cap R = {}
  PROVE  Cardinality(Held(C \cup R, m)) =
           Cardinality(Held(C, m)) + Cardinality(Held(R, m))
  <1>1. /\ Held(C \cup R, m) = Held(C, m) \cup Held(R, m)
        /\ Held(C, m) \cap Held(R, m) = {}
    BY DEF Held
  <1>2. IsFiniteSet(Held(C, m)) /\ IsFiniteSet(Held(R, m))
    BY HeldCount
  <1>3. QED
    BY <1>1, <1>2, DisjointCount

-----------------------------------------------------------------------------
(* Settling reservations.                                                  *)

LedgerInv == TypeOK /\ LedgerMatchesHolders /\ CeilingRespected

LEMMA SettleRow ==
  ASSUME NEW row \in LedgerRow, NEW c \in Nat, NEW r \in Nat, NEW rest \in Nat,
         row.reserved = c + r + rest
  PROVE  /\ Settle(row, c, r) \in LedgerRow
         /\ Settle(row, c, r).reserved = rest
         /\ Settle(row, c, r).processed = row.processed + c
         /\ Settle(row, c, r).open = row.open
         /\ Settle(row, c, r).exists = row.exists
  <1>1. Lesser(row.reserved, c + r) = c + r /\ Lesser(row.reserved, c) = c
    BY DEF Lesser
  <1>2. row.processed \in Nat /\ row.reserved \in Nat
    BY DEF LedgerRow
  <1>3. Settle(row, c, r) = [row EXCEPT !.reserved = rest, !.processed = row.processed + c]
    <2>1. row.reserved - (c + r) = rest
      OBVIOUS
    <2>2. QED
      BY <1>1, <2>1 DEF Settle
  <1> DEFINE sum == row.processed + c
  <1>4. sum \in Nat
    BY <1>2
  <1> HIDE DEF sum
  <1>5. Settle(row, c, r) = [row EXCEPT !.reserved = rest, !.processed = sum]
    BY <1>3 DEF sum
  <1>6. /\ [row EXCEPT !.reserved = rest, !.processed = sum] \in LedgerRow
        /\ [row EXCEPT !.reserved = rest, !.processed = sum].reserved = rest
        /\ [row EXCEPT !.reserved = rest, !.processed = sum].processed = sum
        /\ [row EXCEPT !.reserved = rest, !.processed = sum].open = row.open
        /\ [row EXCEPT !.reserved = rest, !.processed = sum].exists = row.exists
    BY <1>4 DEF LedgerRow
  <1>7. QED
    BY <1>5, <1>6 DEF sum

\* What the ledger looks like after the reservations of two disjoint sets of
\* jobs are charged and released: it counts the remaining holders, and what
\* it charged was reserved before.
LEMMA SettledFacts ==
  ASSUME LedgerInv, NEW C \in SUBSET Jobs, NEW R \in SUBSET Jobs, C \cap R = {},
         NEW m \in Months
  PROVE  /\ Settled(C, R)[m] \in LedgerRow
         /\ Settled(C, R)[m].reserved = Cardinality(Held(Jobs \ (C \cup R), m))
         /\ Settled(C, R)[m].processed = usage[m].processed + Cardinality(Held(C, m))
         /\ Settled(C, R)[m].processed + Settled(C, R)[m].reserved <= Limit
         /\ Settled(C, R)[m].open = usage[m].open
         /\ Settled(C, R)[m].exists = usage[m].exists
  <1> DEFINE c == Cardinality(Held(C, m))
             r == Cardinality(Held(R, m))
             rest == Cardinality(Held(Jobs \ (C \cup R), m))
  <1>1. c \in Nat /\ r \in Nat /\ rest \in Nat
    BY HeldCount
  <1>2. usage[m].reserved = c + r + rest
    <2>1. usage[m].reserved = Cardinality(Held(Jobs, m))
      BY DEF LedgerInv, LedgerMatchesHolders
    <2>2. Cardinality(Held(Jobs, m)) = Cardinality(Held(C \cup R, m)) + rest
      BY HeldCount
    <2>3. Cardinality(Held(C \cup R, m)) = c + r
      BY DisjointHeld
    <2>4. QED BY <2>1, <2>2, <2>3
  <1>3. usage[m] \in LedgerRow /\ usage[m].processed + usage[m].reserved <= Limit
    BY DEF LedgerInv, TypeOK, CeilingRespected
  <1>4. Settled(C, R)[m] = Settle(usage[m], c, r)
    BY DEF Settled
  <1> HIDE DEF c, r, rest
  <1>5. /\ Settled(C, R)[m] \in LedgerRow
        /\ Settled(C, R)[m].reserved = rest
        /\ Settled(C, R)[m].processed = usage[m].processed + c
        /\ Settled(C, R)[m].open = usage[m].open
        /\ Settled(C, R)[m].exists = usage[m].exists
    <2>1. /\ Settle(usage[m], c, r) \in LedgerRow
          /\ Settle(usage[m], c, r).reserved = rest
          /\ Settle(usage[m], c, r).processed = usage[m].processed + c
          /\ Settle(usage[m], c, r).open = usage[m].open
          /\ Settle(usage[m], c, r).exists = usage[m].exists
      <3> DEFINE row == usage[m]
      <3>1. row \in LedgerRow /\ row.reserved = c + r + rest
        BY <1>2, <1>3
      <3> HIDE DEF row
      <3>2. /\ Settle(row, c, r) \in LedgerRow
            /\ Settle(row, c, r).reserved = rest
            /\ Settle(row, c, r).processed = row.processed + c
            /\ Settle(row, c, r).open = row.open
            /\ Settle(row, c, r).exists = row.exists
        BY <1>1, <3>1, SettleRow
      <3>3. QED
        BY <3>2 DEF row
    <2>2. QED
      BY <1>4, <2>1
  <1>6. usage[m].processed \in Nat
    BY <1>3 DEF LedgerRow
  <1>7. usage[m].processed + c + rest <= Limit
    BY <1>1, <1>2, <1>3, <1>6, BoundAssumption
  <1>8. QED
    BY <1>5, <1>7 DEF c, rest

-----------------------------------------------------------------------------
(* What a transaction may do to the ledger.                                *)

\* The transaction charges the reservations of the jobs in C, gives those of
\* the jobs in R back, and touches no other.
Effect(C, R) ==
  /\ C \in SUBSET Jobs /\ R \in SUBSET Jobs /\ C \cap R = {}
  /\ \A m \in Months : /\ usage'[m].processed = Settled(C, R)[m].processed
                       /\ usage'[m].reserved = Settled(C, R)[m].reserved
  /\ \A j \in Jobs : job'[j].held = IF j \in C \cup R THEN Never ELSE job[j].held

LEMMA NoCount ==
  ASSUME NEW m
  PROVE  Held({}, m) = {} /\ Cardinality(Held({}, m)) = 0
  BY FS_EmptySet DEF Held

LEMMA NoEffect ==
  ASSUME LedgerInv,
         \A m \in Months : /\ usage'[m].processed = usage[m].processed
                           /\ usage'[m].reserved = usage[m].reserved,
         \A j \in Jobs : job'[j].held = job[j].held
  PROVE  Effect({}, {})
  <1>1. ASSUME NEW m \in Months
        PROVE  /\ Settled({}, {})[m].processed = usage[m].processed
               /\ Settled({}, {})[m].reserved = usage[m].reserved
    <2>1. /\ Settled({}, {})[m].reserved = Cardinality(Held(Jobs \ ({} \cup {}), m))
          /\ Settled({}, {})[m].processed = usage[m].processed + Cardinality(Held({}, m))
      <3>1. {} \in SUBSET Jobs /\ {} \cap {} = {}
        OBVIOUS
      <3>2. QED
        BY <1>1, <3>1, SettledFacts
    <2>2. Jobs \ ({} \cup {}) = Jobs
      OBVIOUS
    <2>3. usage[m].processed \in Nat /\ usage[m].reserved = Cardinality(Held(Jobs, m))
      BY DEF LedgerInv, LedgerMatchesHolders, TypeOK, LedgerRow
    <2>4. QED
      BY <2>1, <2>2, <2>3, NoCount
  <1>2. QED
    BY <1>1 DEF Effect

LEMMA BudgetCardinality == \A S : Budget!Cardinality(S) = Cardinality(S)
  BY DEF Budget!Cardinality, Cardinality

LEMMA EffectStep ==
  ASSUME LedgerInv, NEW C, NEW R, Effect(C, R)
  PROVE  LedgerMatchesHolders' /\ CeilingRespected' /\ Budget!Next
  <1>1. C \in SUBSET Jobs /\ R \in SUBSET Jobs /\ C \cap R = {}
    BY DEF Effect
  <1>2. ASSUME NEW m \in Months
        PROVE  /\ usage'[m].reserved = Cardinality(Held(Jobs, m)')
               /\ usage'[m].processed + usage'[m].reserved <= Limit
               /\ usage'[m].processed = usage[m].processed + Cardinality(Held(C, m))
    <2>1. /\ usage'[m].processed = Settled(C, R)[m].processed
          /\ usage'[m].reserved = Settled(C, R)[m].reserved
      BY <1>2 DEF Effect
    <2>2. Held(Jobs, m)' = Held(Jobs \ (C \cup R), m)
      BY <1>1 DEF Held, Effect, Months, Never
    <2>3. /\ Settled(C, R)[m].reserved = Cardinality(Held(Jobs \ (C \cup R), m))
          /\ Settled(C, R)[m].processed = usage[m].processed + Cardinality(Held(C, m))
          /\ Settled(C, R)[m].processed + Settled(C, R)[m].reserved <= Limit
      BY <1>1, <1>2, SettledFacts
    <2>4. QED
      BY <2>1, <2>2, <2>3
  <1>3. Budget!Settle(C, R)
    <2>1. \A m \in Months : Budget!Holders(C, m) = Held(C, m)
      BY <1>1 DEF Budget!Holders, Held
    <2>2. \A S : Budget!Cardinality(S) = Cardinality(S)
      BY BudgetCardinality
    <2>3. [m \in Months |-> usage'[m].processed] =
            [m \in Months |-> [n \in Months |-> usage[n].processed][m]
                                + Budget!Cardinality(Budget!Holders(C, m))]
      BY <1>2, <2>1, <2>2
    <2>4. [j \in Jobs |-> job'[j].held] =
            [j \in Jobs |-> IF j \in C \cup R THEN Never ELSE [k \in Jobs |-> job[k].held][j]]
      BY DEF Effect
    <2>5. QED
      BY <2>3, <2>4 DEF Budget!Settle
  <1>4. QED
    BY <1>1, <1>2, <1>3 DEF LedgerMatchesHolders, CeilingRespected, Budget!Next

-----------------------------------------------------------------------------
(* The inductive invariant.                                                *)

\* HeldOnlyWhileRunning is what makes the rest inductive: PrepareEnrichment
\* rewrites a finished job's row and would lose a reservation it still held.
IInv == TypeInv /\ LedgerInv /\ HeldOnlyWhileRunning

\* Every transaction but ReserveCall only settles reservations.
Accounted == \E C, R : Effect(C, R)

LEMMA SingletonEffect ==
  ASSUME NEW j \in Jobs, NEW C \in {{}, {j}}, NEW R \in {{}, {j}}, C # R,
         \A m \in Months : /\ usage'[m].processed = Settled(C, R)[m].processed
                           /\ usage'[m].reserved = Settled(C, R)[m].reserved,
         \A k \in Jobs : job'[k].held = IF k = j THEN Never ELSE job[k].held
  PROVE  Effect(C, R)
  <1>1. C \in SUBSET Jobs /\ R \in SUBSET Jobs /\ C \cap R = {} /\ C \cup R = {j}
    OBVIOUS
  <1>2. QED
    BY <1>1 DEF Effect

\* The job of a row that is ended, deferred or queued again holds nothing.
LEMMA EndedHeld ==
  ASSUME IInv, NEW j \in Jobs,
         NEW status \in {"Queued", "DeferredQuota", "Succeeded", "Failed", "Cancelled"},
         NEW code \in Codes, NEW due \in {Never, month, month + 1},
         job' = [job EXCEPT ![j] = Unheld(Moved(@, status, code, due))]
  PROVE  /\ \A k \in Jobs : job'[k].held = IF k = j THEN Never ELSE job[k].held
         /\ HeldOnlyWhileRunning'
  <1>1. Unheld(Moved(job[j], status, code, due)).held = Never
    BY EndedType DEF IInv
  <1>2. \A k \in Jobs : job'[k] = IF k = j THEN Unheld(Moved(job[k], status, code, due))
                                           ELSE job[k]
    BY DEF IInv, TypeInv, TypeOK
  <1>3. QED
    BY <1>1, <1>2 DEF IInv, HeldOnlyWhileRunning

LEMMA CancelStaleEffect ==
  ASSUME IInv, NEW j \in Jobs, CancelStale(j)
  PROVE  Accounted /\ HeldOnlyWhileRunning'
  <1>1. job' = [job EXCEPT ![j] = Unheld(Moved(@, "Cancelled", "Other", Never))]
    BY DEF CancelStale
  <1>2. /\ \A k \in Jobs : job'[k].held = IF k = j THEN Never ELSE job[k].held
        /\ HeldOnlyWhileRunning'
    BY <1>1, EndedHeld DEF Codes
  <1>3. Effect({j}, {})
    BY <1>2, SingletonEffect DEF CancelStale
  <1>4. QED
    BY <1>2, <1>3 DEF Accounted

LEMMA SameEffect ==
  ASSUME IInv, UNCHANGED <<job, usage>>
  PROVE  Accounted /\ HeldOnlyWhileRunning'
  <1>1. Effect({}, {})
    BY NoEffect DEF IInv
  <1>2. QED
    BY <1>1 DEF Accounted, IInv, HeldOnlyWhileRunning

LEMMA NotClaimedEffect ==
  ASSUME IInv, NEW w \in Workers, pc[w] # "Idle", NEW step, NotClaimed(w, step)
  PROVE  Accounted /\ HeldOnlyWhileRunning'
  <1>1. task[w][1] \in Jobs
    BY DEF IInv, TypeInv, Busy, Messages
  <1>2. QED
    BY <1>1, CancelStaleEffect, SameEffect DEF NotClaimed

\* The API.
LEMMA TrashEffect ==
  ASSUME IInv, NEW a \in Assets, TrashAsset(a)
  PROVE  Accounted /\ HeldOnlyWhileRunning'
  <1> DEFINE open == {j \in Jobs : /\ j[1] = a
                                   /\ job[j].status \in {"Queued", "Running", "DeferredQuota"}}
             running == {j \in open : job[j].status = "Running"}
  <1>1. \A j \in open : Unheld(Moved(job[j], "Cancelled", "Other", Never)).held = Never
    BY EndedType DEF IInv, Codes
  <1>2. /\ usage' = Settled(running, open \ running)
        /\ \A j \in Jobs : job'[j] = IF j \in open
                                        THEN Unheld(Moved(job[j], "Cancelled", "Other", Never))
                                        ELSE job[j]
    BY DEF TrashAsset
  <1>3. /\ running \in SUBSET Jobs /\ open \ running \in SUBSET Jobs
        /\ running \cap (open \ running) = {}
        /\ running \cup (open \ running) = open
    OBVIOUS
  <1> HIDE DEF open, running
  <1>4. Effect(running, open \ running)
    BY <1>1, <1>2, <1>3 DEF Effect
  <1>5. HeldOnlyWhileRunning'
    BY <1>1, <1>2 DEF IInv, HeldOnlyWhileRunning
  <1>6. QED
    BY <1>4, <1>5 DEF Accounted

LEMMA PrepareEffect ==
  ASSUME IInv, NEW a \in Assets, PrepareEnrichment(a)
  PROVE  Accounted /\ HeldOnlyWhileRunning'
  <1> DEFINE j == <<a, coord[a]>>
  <1>1. j \in Jobs
    BY DEF IInv, TypeInv, TypeOK, Jobs
  <1>2. job[j].held = Never
    BY <1>1 DEF PrepareEnrichment, IInv, HeldOnlyWhileRunning
  <1>3. \A k \in Jobs : job'[k] = IF k = j THEN [NoJob EXCEPT !.status = "Queued", !.due = month]
                                           ELSE job[k]
    BY DEF PrepareEnrichment, IInv, TypeInv, TypeOK
  <1>4. [NoJob EXCEPT !.status = "Queued", !.due = month].held = Never
    BY DEF NoJob
  <1> HIDE DEF j
  <1>5. \A k \in Jobs : job'[k].held = job[k].held
    BY <1>2, <1>3, <1>4
  <1>6. usage' = usage
    BY DEF PrepareEnrichment
  <1>7. Effect({}, {})
    BY <1>5, <1>6, NoEffect DEF IInv
  <1>8. HeldOnlyWhileRunning'
    BY <1>3, <1>4 DEF IInv, HeldOnlyWhileRunning
  <1>9. QED
    BY <1>7, <1>8 DEF Accounted

LEMMA RetryEffect ==
  ASSUME IInv, NEW j \in Jobs, RetryJob(j)
  PROVE  Accounted /\ HeldOnlyWhileRunning'
  <1>1. \A m \in Months : /\ usage'[m].processed = usage[m].processed
                          /\ usage'[m].reserved = usage[m].reserved
    BY DEF RetryJob, Circuit, CloseCircuit, IInv, TypeInv, TypeOK, LedgerRow
  <1>2. ASSUME NEW k \in Jobs
        PROVE  /\ job'[k].held = job[k].held
               /\ job'[k] # job[k] => job[k].status \in {"Failed", "DeferredQuota"}
    <2>1. job[k] \in JobRow
      BY <1>2 DEF IInv, TypeInv, TypeOK
    <2>2. /\ Moved(job[k], "Queued", "None", month) \in JobRow
          /\ Moved(job[k], "Queued", "None", month).held = job[k].held
      BY <2>1, QueuedType DEF IInv
    <2> DEFINE moved == Moved(job[k], "Queued", "None", month)
    <2>3. \/ job'[k] = job[k]
          \/ /\ job[k].status \in {"Failed", "DeferredQuota"}
             /\ \/ \E n : job'[k] = [moved EXCEPT !.attempts = n]
                \/ job'[k] = [moved EXCEPT !.attempts = 0, !.blocked = FALSE]
      BY <1>2 DEF RetryJob
    <2> HIDE DEF moved
    <2>4. moved \in JobRow /\ moved.held = job[k].held
      BY <2>2 DEF moved
    <2>5. /\ \A n : [moved EXCEPT !.attempts = n].held = moved.held
          /\ [moved EXCEPT !.attempts = 0, !.blocked = FALSE].held = moved.held
      BY <2>4 DEF JobRow
    <2>6. QED
      BY <2>3, <2>4, <2>5
  <1>3. Effect({}, {})
    BY <1>1, <1>2, NoEffect DEF IInv
  <1>4. HeldOnlyWhileRunning'
    BY <1>2 DEF IInv, HeldOnlyWhileRunning
  <1>5. QED
    BY <1>3, <1>4 DEF Accounted

LEMMA ExpireEffect ==
  ASSUME IInv, NEW j \in Jobs, ExpireLease(j)
  PROVE  Accounted /\ HeldOnlyWhileRunning'
  <1>1. \A k \in Jobs : job'[k].held = job[k].held /\ job'[k].status = job[k].status
    BY DEF ExpireLease, IInv, TypeInv, TypeOK, JobRow
  <1>2. Effect({}, {})
    BY <1>1, NoEffect DEF IInv, ExpireLease
  <1>3. QED
    BY <1>1, <1>2 DEF Accounted, IInv, HeldOnlyWhileRunning

LEMMA SweepEffect ==
  ASSUME IInv, NEW old \in SUBSET DueQueued, NEW batch, Sweep(old, batch)
  PROVE  Accounted /\ HeldOnlyWhileRunning'
  <1>1. /\ AllExpired \in SUBSET Jobs /\ DueDeferred \in SUBSET Jobs
        /\ AllExpired \cap DueDeferred = {}
        /\ \A j \in AllExpired : job[j].status = "Running"
        /\ \A j \in old : job[j].status = "Queued"
    BY DEF AllExpired, DueDeferred, Expired, DueQueued
  <1>2. ASSUME NEW j \in Jobs
        PROVE  /\ job'[j].held = IF j \in AllExpired \cup DueDeferred THEN Never ELSE job[j].held
               /\ \/ j \in old \cup AllExpired \cup DueDeferred
                  \/ job'[j] = job[j]
    <2> DEFINE row == IF j \in AllExpired \cup DueDeferred THEN Unheld(job[j]) ELSE job[j]
    <2>1. job[j] \in JobRow
      BY DEF IInv, TypeInv, TypeOK
    <2>2. /\ row \in JobRow
          /\ row.held = IF j \in AllExpired \cup DueDeferred THEN Never ELSE job[j].held
      BY <2>1, UnheldType
    <2>3. \/ job'[j] = Moved(row, "Failed", "Other", Never)
          \/ \E n : job'[j] = [Moved(row, "Queued", "None", month) EXCEPT !.attempts = n]
          \/ job'[j] = job[j] /\ j \notin AllExpired \cup DueDeferred
      BY DEF Sweep
    <2>4. \/ j \in old \cup AllExpired \cup DueDeferred
          \/ job'[j] = job[j]
      BY DEF Sweep
    <2> HIDE DEF row
    <2>5. /\ Moved(row, "Failed", "Other", Never).held = row.held
          /\ Moved(row, "Queued", "None", month).held = row.held
          /\ Moved(row, "Queued", "None", month) \in JobRow
      <3>1. Moved(row, "Failed", "Other", Never).held = row.held
        BY <2>2 DEF Moved, JobRow
      <3>2. QED
        BY <2>2, <3>1, QueuedType DEF IInv
    <2>6. \A n : [Moved(row, "Queued", "None", month) EXCEPT !.attempts = n].held = row.held
      BY <2>5 DEF JobRow
    <2>7. QED
      BY <2>2, <2>3, <2>4, <2>5, <2>6
  <1>3. usage' = Settled(AllExpired, DueDeferred)
    BY DEF Sweep
  <1>4. Effect(AllExpired, DueDeferred)
    BY <1>1, <1>2, <1>3 DEF Effect
  <1>5. HeldOnlyWhileRunning'
    BY <1>1, <1>2 DEF IInv, HeldOnlyWhileRunning
  <1>6. QED
    BY <1>4, <1>5 DEF Accounted

\* The worker.
LEMMA ClaimEffect ==
  ASSUME IInv, NEW w \in Workers, NEW msg \in Messages, Claim(w, msg)
  PROVE  Accounted /\ HeldOnlyWhileRunning'
  <1> DEFINE j == msg[1]
  <1>1. j \in Jobs /\ job[j] \in JobRow
    BY DEF Messages, IInv, TypeInv, TypeOK
  <1>2. CASE CancelStale(j)
    BY <1>1, <1>2, CancelStaleEffect
  <1>3. CASE UNCHANGED <<job, usage>>
    BY <1>3, SameEffect
  <1>4. CASE /\ usage' = Settled({j}, {})
             /\ job' = [job EXCEPT ![j] =
                          Unheld([@ EXCEPT !.status = "Failed", !.code = "Other"])]
    <2>1. [job[j] EXCEPT !.status = "Failed", !.code = "Other"] \in JobRow
      BY <1>1 DEF JobRow, Statuses
    <2>2. Unheld([job[j] EXCEPT !.status = "Failed", !.code = "Other"]).held = Never
      BY <2>1, UnheldType
    <2>3. \A k \in Jobs : job'[k] = IF k = j
                                      THEN Unheld([job[j] EXCEPT !.status = "Failed", !.code = "Other"])
                                      ELSE job[k]
      BY <1>4 DEF IInv, TypeInv, TypeOK
    <2> HIDE DEF j
    <2>4. \A k \in Jobs : job'[k].held = IF k = j THEN Never ELSE job[k].held
      BY <2>2, <2>3
    <2>5. Effect({j}, {})
      BY <1>1, <1>4, <2>4, SingletonEffect
    <2>6. HeldOnlyWhileRunning'
      BY <2>2, <2>3 DEF IInv, HeldOnlyWhileRunning
    <2>7. QED
      BY <2>5, <2>6 DEF Accounted
  <1>5. CASE /\ usage' = usage
             /\ job' = [job EXCEPT ![j] = [@ EXCEPT !.status = "Running",
                          !.code = "None", !.attempts = job[j].attempts + 1,
                          !.lease = msg[2], !.live = TRUE]]
    <2> DEFINE row == [job[j] EXCEPT !.status = "Running", !.code = "None",
                         !.attempts = job[j].attempts + 1, !.lease = msg[2], !.live = TRUE]
    <2>1. row.held = job[j].held /\ row.status = "Running"
      BY <1>1 DEF JobRow
    <2>2. \A k \in Jobs : job'[k] = IF k = j THEN row ELSE job[k]
      BY <1>5 DEF IInv, TypeInv, TypeOK
    <2> HIDE DEF row, j
    <2>3. \A k \in Jobs : job'[k].held = job[k].held
      BY <2>1, <2>2
    <2>4. Effect({}, {})
      BY <1>5, <2>3, NoEffect DEF IInv
    <2>5. HeldOnlyWhileRunning'
      BY <2>1, <2>2 DEF IInv, HeldOnlyWhileRunning
    <2>6. QED
      BY <2>4, <2>5 DEF Accounted
  <1>6. QED
    BY <1>2, <1>3, <1>4, <1>5 DEF Claim

\* A handler that ends its job settles what the job holds, and nothing else.
LEMMA EndedEffect ==
  ASSUME IInv, NEW j \in Jobs, NEW C \in {{}, {j}}, NEW R \in {{}, {j}}, C # R,
         NEW status \in {"Queued", "DeferredQuota", "Succeeded", "Failed", "Cancelled"},
         NEW code \in Codes, NEW due \in {Never, month, month + 1},
         job' = [job EXCEPT ![j] = Unheld(Moved(@, status, code, due))],
         \/ usage' = Settled(C, R)
         \/ usage' = Circuit(Settled(C, R), OpenCircuit(Settled(C, R)[month]))
  PROVE  Accounted /\ HeldOnlyWhileRunning'
  <1>1. /\ \A k \in Jobs : job'[k].held = IF k = j THEN Never ELSE job[k].held
        /\ HeldOnlyWhileRunning'
    BY EndedHeld
  <1>2. C \in SUBSET Jobs /\ R \in SUBSET Jobs
    OBVIOUS
  <1>3. Settled(C, R) \in [Months -> LedgerRow]
    BY <1>2, SettledType DEF IInv, TypeInv
  <1>4. \A m \in Months : /\ usage'[m].processed = Settled(C, R)[m].processed
                          /\ usage'[m].reserved = Settled(C, R)[m].reserved
    BY <1>3 DEF Circuit, OpenCircuit, LedgerRow
  <1>5. Effect(C, R)
    BY <1>1, <1>4, SingletonEffect
  <1>6. QED
    BY <1>1, <1>5 DEF Accounted

LEMMA EndEffect ==
  ASSUME IInv, NEW w \in Workers,
         Defer(w) \/ DeferCalled(w) \/ Complete(w) \/ Fail(w)
  PROVE  Accounted /\ HeldOnlyWhileRunning'
  <1>1. pc[w] # "Idle"
    BY DEF Defer, DeferCalled, Complete, Fail
  <1>2. CASE NotClaimed(w, "Ack")
    BY <1>1, <1>2, NotClaimedEffect
  <1>3. CASE ~NotClaimed(w, "Ack")
    <2> DEFINE j == task[w][1]
    <2>1. j \in Jobs
      BY <1>1 DEF IInv, TypeInv, Busy, Messages
    <2>2. CASE Defer(w)
      <3>1. /\ \E code \in Codes :
                 job' = [job EXCEPT ![j] = Unheld(Moved(@, "DeferredQuota", code, month + 1))]
            /\ usage' = Settled({}, {j})
        BY <1>3, <2>2 DEF Defer, Codes
      <3>2. QED
        BY <2>1, <3>1, EndedEffect
    <2>3. CASE DeferCalled(w)
      <3>1. /\ job' = [job EXCEPT ![j] = Unheld(Moved(@, "DeferredQuota", "Other", month + 1))]
            /\ usage' = Circuit(Settled({j}, {}), OpenCircuit(Settled({j}, {})[month]))
            /\ "Other" \in Codes
        BY <1>3, <2>3 DEF DeferCalled, Codes
      <3>2. QED
        BY <2>1, <3>1, EndedEffect
    <2>4. CASE Complete(w)
      <3>1. /\ job' = [job EXCEPT ![j] = Unheld(Moved(@, "Succeeded", "None", Never))]
            /\ usage' = Settled({j}, {}) \/ usage' = Settled({}, {j})
            /\ "None" \in Codes
        BY <1>3, <2>4 DEF Complete, Codes
      <3>2. QED
        BY <2>1, <3>1, EndedEffect
    <2>5. CASE Fail(w)
      <3>1. /\ \/ job' = [job EXCEPT ![j] = Unheld(Moved(@, "Queued", "Other", month))]
               \/ job' = [job EXCEPT ![j] = Unheld(Moved(@, "Failed", "Other", Never))]
            /\ \/ usage' = Settled({j}, {})
               \/ usage' = Circuit(Settled({j}, {}), OpenCircuit(Settled({j}, {})[month]))
            /\ "Other" \in Codes
        BY <1>3, <2>5 DEF Fail, Codes
      <3>2. QED
        BY <2>1, <3>1, EndedEffect
    <2>6. QED
      BY <2>2, <2>3, <2>4, <2>5
  <1>4. QED
    BY <1>2, <1>3

LEMMA ConsumeEffect ==
  ASSUME IInv, NEW w \in Workers, ConsumeCall(w)
  PROVE  Accounted /\ HeldOnlyWhileRunning'
  <1>1. pc[w] # "Idle"
    BY DEF ConsumeCall
  <1>2. CASE NotClaimed(w, "Ack")
    BY <1>1, <1>2, NotClaimedEffect
  <1>3. CASE ~NotClaimed(w, "Ack")
    <2> DEFINE j == task[w][1]
    <2>1. j \in Jobs /\ job[j] \in JobRow
      BY <1>1 DEF IInv, TypeInv, TypeOK, Busy, Messages
    <2>2. job' = [job EXCEPT ![j] = Unheld(@)] /\ usage' = Settled({j}, {})
      BY <1>3 DEF ConsumeCall
    <2>3. Unheld(job[j]).held = Never
      BY <2>1, UnheldType
    <2>4. \A k \in Jobs : job'[k] = IF k = j THEN Unheld(job[j]) ELSE job[k]
      BY <2>2 DEF IInv, TypeInv, TypeOK
    <2> HIDE DEF j
    <2>5. \A k \in Jobs : job'[k].held = IF k = j THEN Never ELSE job[k].held
      BY <2>3, <2>4
    <2>6. Effect({j}, {})
      BY <2>1, <2>2, <2>5, SingletonEffect
    <2>7. HeldOnlyWhileRunning'
      BY <2>3, <2>4 DEF IInv, HeldOnlyWhileRunning
    <2>8. QED
      BY <2>6, <2>7 DEF Accounted
  <1>4. QED
    BY <1>2, <1>3

\* A reservation is taken for job j in month: one unit more is reserved, and
\* the unit of another month that j may still hold is given back.
LEMMA TakeStep ==
  ASSUME IInv, NEW j \in Jobs, job[j].held # month,
         Fits(Settled({}, {j})[month], 1, Limit),
         \A m \in Months :
           /\ usage'[m].processed = Settled({}, {j})[m].processed
           /\ usage'[m].reserved = IF m = month THEN Settled({}, {j})[m].reserved + 1
                                                ELSE Settled({}, {j})[m].reserved,
         \A k \in Jobs : job'[k].held = IF k = j THEN month ELSE job[k].held
  PROVE  LedgerMatchesHolders' /\ CeilingRespected' /\ Budget!Next
  <1>1. month \in Months /\ LedgerInv
    BY DEF IInv, TypeInv, TypeOK
  <1>2. {} \in SUBSET Jobs /\ {j} \in SUBSET Jobs /\ {} \cap {j} = {} /\ {} \cup {j} = {j}
    OBVIOUS
  <1>3. ASSUME NEW m \in Months
        PROVE  /\ Settled({}, {j})[m].reserved = Cardinality(Held(Jobs \ {j}, m))
               /\ Settled({}, {j})[m].processed = usage[m].processed
               /\ Settled({}, {j})[m].processed + Settled({}, {j})[m].reserved <= Limit
               /\ Settled({}, {j})[m] \in LedgerRow
    <2>1. /\ Settled({}, {j})[m].reserved = Cardinality(Held(Jobs \ ({} \cup {j}), m))
          /\ Settled({}, {j})[m].processed = usage[m].processed + Cardinality(Held({}, m))
          /\ Settled({}, {j})[m].processed + Settled({}, {j})[m].reserved <= Limit
          /\ Settled({}, {j})[m] \in LedgerRow
      BY <1>1, <1>2, <1>3, SettledFacts
    <2>2. usage[m].processed \in Nat
      BY <1>1 DEF LedgerInv, TypeOK, LedgerRow
    <2>3. QED
      BY <1>2, <2>1, <2>2, NoCount
  <1>4. \A m \in Months :
          Held(Jobs, m)' = IF m = month THEN Held(Jobs \ {j}, m) \cup {j} ELSE Held(Jobs \ {j}, m)
    BY DEF Held
  <1>5. ASSUME NEW m \in Months
        PROVE  Cardinality(Held(Jobs, m)') =
                 IF m = month THEN Cardinality(Held(Jobs \ {j}, m)) + 1
                              ELSE Cardinality(Held(Jobs \ {j}, m))
    <2>1. IsFiniteSet(Held(Jobs \ {j}, m)) /\ j \notin Held(Jobs \ {j}, m)
      BY HeldCount DEF Held
    <2>2. Cardinality(Held(Jobs \ {j}, m) \cup {j}) = Cardinality(Held(Jobs \ {j}, m)) + 1
      BY <2>1, FS_AddElement
    <2>3. QED
      BY <1>4, <1>5, <2>2
  <1>6. LedgerMatchesHolders'
    BY <1>3, <1>5 DEF LedgerMatchesHolders
  <1>7. CeilingRespected'
    <2>1. ASSUME NEW m \in Months
          PROVE  usage'[m].processed + usage'[m].reserved <= Limit
      <3> DEFINE p == Settled({}, {j})[m].processed
                 r == Settled({}, {j})[m].reserved
      <3>1. p \in Nat /\ r \in Nat /\ p + r <= Limit
        BY <1>3, <2>1 DEF LedgerRow
      <3>2. m = month => p + r + 1 <= Limit
        BY DEF Fits
      <3>3. usage'[m].processed = p /\ usage'[m].reserved = IF m = month THEN r + 1 ELSE r
        BY <2>1
      <3> HIDE DEF p, r
      <3>4. QED
        BY <3>1, <3>2, <3>3, BoundAssumption
    <2>2. QED
      BY <2>1 DEF CeilingRespected
  <1>8. PICK n \in Months : n = month
    BY <1>1
  <1>9. Budget!Take(j, n)
    <2>1. [k \in Jobs |-> job'[k].held] =
            [[k \in Jobs |-> job[k].held] EXCEPT ![j] = n]
      BY <1>8
    <2>2. [m \in Months |-> usage'[m].processed] = [m \in Months |-> usage[m].processed]
      BY <1>3
    <2>3. Budget!Room(n)
      <3>1. Budget!Holders(Jobs, n) = Held(Jobs \ {j}, n)
        BY <1>8 DEF Budget!Holders, Held
      <3>2. Budget!Cardinality(Budget!Holders(Jobs, n)) =
              Cardinality(Held(Jobs \ {j}, n))
        BY <3>1, BudgetCardinality
      <3> DEFINE p == usage[n].processed
                 r == Cardinality(Held(Jobs \ {j}, n))
      <3>3. p \in Nat /\ r \in Nat
        BY <1>1, HeldCount DEF LedgerInv, TypeOK, LedgerRow
      <3>4. p + r + 1 <= Limit
        BY <1>3, <1>8 DEF Fits
      <3>5. p + Budget!Cardinality(Budget!Holders(Jobs, n)) = p + r
        BY <3>2
      <3>6. p + r < Limit
        <4> HIDE DEF p, r
        <4>1. QED
          BY <3>3, <3>4, BoundAssumption
      <3>7. [m \in Months |-> usage[m].processed][n] = p
        OBVIOUS
      <3>8. QED
        BY <3>5, <3>6, <3>7 DEF Budget!Room
    <2>4. [k \in Jobs |-> job[k].held][j] # n
      BY <1>8
    <2>5. QED
      BY <2>1, <2>2, <2>3, <2>4 DEF Budget!Take
  <1>10. \E c \in Jobs, m \in Months : Budget!Take(c, m)
    BY <1>9
  <1>11. QED
    BY <1>6, <1>7, <1>10 DEF Budget!Next

LEMMA ReserveStep ==
  ASSUME IInv, NEW w \in Workers, ReserveCall(w)
  PROVE  LedgerMatchesHolders' /\ CeilingRespected' /\ HeldOnlyWhileRunning' /\ Budget!Next
  <1>1. pc[w] # "Idle" /\ LedgerInv
    BY DEF ReserveCall, IInv
  <1>2. CASE NotClaimed(w, "Defer")
    BY <1>1, <1>2, NotClaimedEffect, EffectStep DEF Accounted
  <1>3. CASE ~NotClaimed(w, "Defer")
    <2> DEFINE j    == task[w][1]
               kept == job[j].held = month
               led  == IF kept THEN usage ELSE Settled({}, {j})
               row  == [led[month] EXCEPT !.exists = TRUE]
               granted == ~row.open /\ (kept \/ Fits(row, 1, Limit))
               blocked == row.open \/ (job[j].blocked /\ ~granted)
               held == IF granted \/ kept THEN month ELSE Never
    <2>1. j \in Jobs /\ job[j] \in JobRow /\ month \in Months
      BY <1>1 DEF IInv, TypeInv, TypeOK, Busy, Messages
    <2>2. /\ usage' = [led EXCEPT ![month] =
                         IF granted /\ ~kept THEN Reserve(row, 1) ELSE row]
          /\ job' = [job EXCEPT ![j] = [@ EXCEPT !.blocked = blocked, !.held = held]]
          /\ job[j].status = "Running"
      BY <1>3 DEF ReserveCall, Holds, Claimed, HasLease
    <2>3. {} \in SUBSET Jobs /\ {j} \in SUBSET Jobs
      BY <2>1
    <2>4. led \in [Months -> LedgerRow]
      BY <2>3, SettledType DEF IInv, TypeInv, TypeOK
    <2> HIDE DEF led
    <2>5. led[month] \in LedgerRow
      BY <2>1, <2>4
    <2>6. /\ row \in LedgerRow
          /\ row.reserved = led[month].reserved /\ row.processed = led[month].processed
      BY <2>5 DEF LedgerRow
    <2> HIDE DEF row
    <2>7. /\ Reserve(row, 1) \in LedgerRow
          /\ Reserve(row, 1).reserved = row.reserved + 1
          /\ Reserve(row, 1).processed = row.processed
      BY <2>6, ReserveType
    <2>8. \A m \in Months :
            /\ usage'[m].processed = led[m].processed
            /\ usage'[m].reserved = IF m = month /\ granted /\ ~kept
                                      THEN led[m].reserved + 1 ELSE led[m].reserved
      <3> HIDE DEF granted, kept
      <3>1. QED
        BY <2>2, <2>4, <2>6, <2>7
    <2>9. \A k \in Jobs : /\ job'[k].held = IF k = j THEN held ELSE job[k].held
                          /\ job'[k].status = job[k].status
      <3> HIDE DEF blocked, held, j
      <3>1. \A k \in Jobs : job'[k] = IF k = j THEN [job[j] EXCEPT !.blocked = blocked, !.held = held]
                                               ELSE job[k]
        BY <2>2 DEF IInv, TypeInv, TypeOK
      <3>2. /\ [job[j] EXCEPT !.blocked = blocked, !.held = held].held = held
            /\ [job[j] EXCEPT !.blocked = blocked, !.held = held].status = job[j].status
        BY <2>1 DEF JobRow
      <3>3. QED
        BY <3>1, <3>2
    <2>10. HeldOnlyWhileRunning'
      BY <2>2, <2>9 DEF IInv, HeldOnlyWhileRunning
    <2>11. CASE kept
      <3>1. Effect({}, {})
        BY <1>1, <2>8, <2>9, <2>11, NoEffect DEF led
      <3>2. QED
        BY <1>1, <2>10, <3>1, EffectStep
    <2>12. CASE ~kept /\ ~granted
      <3>1. Effect({}, {j})
        BY <2>1, <2>8, <2>9, <2>12, SingletonEffect DEF led
      <3>2. QED
        BY <1>1, <2>10, <3>1, EffectStep
    <2>13. CASE ~kept /\ granted
      <3>1. Fits(led[month], 1, Limit)
        BY <2>6, <2>13 DEF Fits
      <3>2. led = Settled({}, {j})
        BY <2>13 DEF led
      <3>3. QED
        BY <2>1, <2>8, <2>9, <2>10, <2>13, <3>1, <3>2, TakeStep
    <2>14. QED
      BY <2>11, <2>12, <2>13
  <1>4. QED
    BY <1>2, <1>3

-----------------------------------------------------------------------------
(* Every step.                                                             *)

\* The steps that touch neither a job row nor the ledger.
LEMMA QuietStep ==
  ASSUME IInv, UNCHANGED <<job, usage>>
  PROVE  LedgerMatchesHolders' /\ CeilingRespected' /\ HeldOnlyWhileRunning' /\ Budget!Next
  BY SameEffect, EffectStep DEF Accounted, IInv

LEMMA WorkerLedgerStep ==
  ASSUME IInv, NEW w \in Workers,
         (\E msg \in Messages : Claim(w, msg)) \/ WorkerStep(w) \/ Crash(w)
  PROVE  LedgerMatchesHolders' /\ CeilingRespected' /\ HeldOnlyWhileRunning' /\ Budget!Next
  <1>1. LedgerInv
    BY DEF IInv
  <1>2. CASE \E msg \in Messages : Claim(w, msg)
    BY <1>1, <1>2, ClaimEffect, EffectStep DEF Accounted
  <1>3. CASE Lookup(w)
    <2>1. CASE NotClaimed(w, "Reserve")
      BY <1>1, <1>3, <2>1, NotClaimedEffect, EffectStep DEF Accounted, Lookup
    <2>2. CASE ~NotClaimed(w, "Reserve")
      BY <1>3, <2>2, QuietStep DEF Lookup
    <2>3. QED
      BY <2>1, <2>2
  <1>4. CASE ReserveCall(w)
    BY <1>4, ReserveStep
  <1>5. CASE Defer(w) \/ DeferCalled(w) \/ Complete(w) \/ Fail(w)
    BY <1>1, <1>5, EndEffect, EffectStep DEF Accounted
  <1>6. CASE ConsumeCall(w)
    BY <1>1, <1>6, ConsumeEffect, EffectStep DEF Accounted
  <1>7. CASE CallProvider(w) \/ Acknowledge(w) \/ Crash(w)
    BY <1>7, QuietStep DEF CallProvider, Acknowledge, Crash, Release
  <1>8. QED
    BY <1>2, <1>3, <1>4, <1>5, <1>6, <1>7 DEF WorkerStep

LEMMA LedgerStep ==
  ASSUME IInv, Next
  PROVE  LedgerMatchesHolders' /\ CeilingRespected' /\ HeldOnlyWhileRunning' /\ Budget!Next
  <1>1. LedgerInv
    BY DEF IInv
  <1>2. ASSUME NEW a \in Assets, NEW c \in Coordinates, UpsertLocation(a, c)
        PROVE  LedgerMatchesHolders' /\ CeilingRespected' /\ HeldOnlyWhileRunning' /\ Budget!Next
    BY <1>2, QuietStep DEF UpsertLocation
  <1>3. ASSUME NEW a \in Assets, TrashAsset(a) \/ PrepareEnrichment(a)
        PROVE  LedgerMatchesHolders' /\ CeilingRespected' /\ HeldOnlyWhileRunning' /\ Budget!Next
    BY <1>1, <1>3, TrashEffect, PrepareEffect, EffectStep DEF Accounted
  <1>4. ASSUME NEW a \in Assets, RestoreAsset(a)
        PROVE  LedgerMatchesHolders' /\ CeilingRespected' /\ HeldOnlyWhileRunning' /\ Budget!Next
    BY <1>4, QuietStep DEF RestoreAsset
  <1>5. ASSUME NEW j \in Jobs, RetryJob(j) \/ ExpireLease(j)
        PROVE  LedgerMatchesHolders' /\ CeilingRespected' /\ HeldOnlyWhileRunning' /\ Budget!Next
    BY <1>1, <1>5, RetryEffect, ExpireEffect, EffectStep DEF Accounted
  <1>6. CASE RedispatchDueJobs
    BY <1>1, <1>6, SweepEffect, EffectStep DEF Accounted, RedispatchDueJobs
  <1>7. CASE AdvanceMonth
    BY <1>7, QuietStep DEF AdvanceMonth
  <1>8. QED
    BY <1>2, <1>3, <1>4, <1>5, <1>6, <1>7, WorkerLedgerStep DEF Next

LEMMA InitIInv == Init => IInv
  <1> SUFFICES ASSUME Init PROVE IInv
    OBVIOUS
  <1>1. TypeInv
    BY TypeInit
  <1>2. \A j \in Jobs : job[j].held = Never
    BY DEF Init, NoJob
  <1>3. \A m \in Months : Held(Jobs, m) = {}
    BY <1>2 DEF Held, Months, Never
  <1>4. LedgerMatchesHolders /\ CeilingRespected
    <2>1. ASSUME NEW m \in Months
          PROVE  usage[m].processed = 0 /\ usage[m].reserved = 0 /\ Cardinality(Held(Jobs, m)) = 0
      BY <1>3, FS_EmptySet DEF Init, NewRow
    <2>2. QED
      BY <2>1, BoundAssumption DEF LedgerMatchesHolders, CeilingRespected
  <1>5. QED
    BY <1>1, <1>2, <1>4 DEF IInv, LedgerInv, TypeInv, HeldOnlyWhileRunning

LEMMA NextIInv == IInv /\ [Next]_vars => IInv'
  <1> SUFFICES ASSUME IInv, [Next]_vars PROVE IInv'
    OBVIOUS
  <1>1. TypeInv'
    BY TypeStep DEF IInv
  <1>2. CASE Next
    BY <1>1, <1>2, LedgerStep DEF IInv, LedgerInv, TypeInv
  <1>3. CASE UNCHANGED vars
    BY <1>1, <1>3, QuietStep DEF IInv, LedgerInv, TypeInv, vars
  <1>4. QED
    BY <1>2, <1>3

\* The invariant holds throughout.
LEMMA Invariance == Spec => []IInv
  BY InitIInv, NextIInv, PTL DEF Spec

-----------------------------------------------------------------------------
(* The theorems.                                                           *)

\* For any number of jobs, workers, messages and months: the reserved calls
\* of a month are exactly those the job rows say they hold.  No claim, crash,
\* redelivery, sweep, cancellation or rollover leaks one or returns it twice.
THEOREM LedgerNeverDrifts == Spec => []LedgerMatchesHolders
  BY Invariance, PTL DEF IInv, LedgerInv

\* The charged and reserved calls of a month never pass the monthly limit,
\* whatever it is.
THEOREM CeilingNeverPassed == Spec => []CeilingRespected
  BY Invariance, PTL DEF IInv, LedgerInv

\* A job that is not leased holds no reservation.
THEOREM OnlyRunningJobsHold == Spec => []HeldOnlyWhileRunning
  BY Invariance, PTL DEF IInv

\* The handlers implement the abstract budget: every transaction takes a unit
\* within the ceiling, or spends or returns units that are held, or does not
\* touch the budget at all.
THEOREM LedgerImplementsBudget == Spec => ImplementsBudget
  <1>1. Init => Budget!Init
    BY DEF Init, Budget!Init, NewRow, NoJob
  <1>2. IInv /\ [Next]_vars => [Budget!Next]_(Budget!vars)
    <2> SUFFICES ASSUME IInv, [Next]_vars
                 PROVE  Budget!Next \/ UNCHANGED Budget!vars
      OBVIOUS
    <2>1. CASE Next
      BY <2>1, LedgerStep
    <2>2. CASE UNCHANGED vars
      BY <2>2 DEF vars, Budget!vars
    <2>3. QED
      BY <2>1, <2>2
  <1>3. QED
    BY <1>1, <1>2, Invariance, PTL DEF Spec, Budget!Spec, ImplementsBudget

-----------------------------------------------------------------------------
(* Who has which message.                                                  *)

\* A message is with one worker or in the queue, never twice.
SoleHolder ==
  \A w \in Workers : task[w] # NoMessage =>
    /\ task[w] \in Messages /\ task[w] \notin queue
    /\ \A v \in Workers : v # w => task[v] # task[w]

\* Messages are added to the queue that no worker has.
Adds == task' = task /\ \E new \in SUBSET Messages : /\ queue' = queue \cup new
                                                     /\ \A w \in Workers : task[w] \notin new

\* Worker w is done with its message, which may return to the queue.
Drops(w) == task' = [task EXCEPT ![w] = NoMessage] /\ queue' \in {queue, queue \cup {task[w]}}

LEMMA SentAdds ==
  ASSUME NEW S, NEW batch, Sent(S, batch), UNCHANGED task
  PROVE  Adds
  <1>1. ASSUME NEW w \in Workers PROVE task[w] \notin batch
    <2> SUFFICES ASSUME task[w] \in batch PROVE FALSE
      OBVIOUS
    <2>1. task[w] \in Messages /\ task[w][2] \in FreshIds(task[w][1])
      BY DEF Sent
    <2>2. task[w] = <<task[w][1], task[w][2]>>
      BY <2>1 DEF Messages
    <2>3. QED
      BY <1>1, <2>1, <2>2 DEF FreshIds
  <1>2. QED
    BY <1>1 DEF Sent, Adds

LEMMA SameAdds ==
  ASSUME UNCHANGED <<task, queue>>
  PROVE  Adds
  <1>1. queue' = queue \cup {} /\ {} \in SUBSET Messages
    OBVIOUS
  <1>2. QED
    BY <1>1 DEF Adds

LEMMA SoleStep ==
  ASSUME IInv, SoleHolder, [Next]_vars
  PROVE  SoleHolder'
  <1>0. task \in [Workers -> Messages \cup {NoMessage}] /\ queue \subseteq Messages
    BY DEF IInv, TypeInv, TypeOK
  <1>1. CASE Adds
    BY <1>0, <1>1 DEF Adds, SoleHolder
  <1>2. ASSUME NEW w \in Workers, Drops(w) PROVE SoleHolder'
    BY <1>0, <1>2 DEF Drops, SoleHolder
  <1>3. ASSUME NEW w \in Workers, NEW msg \in Messages, Claim(w, msg) PROVE SoleHolder'
    <2>1. msg \in queue /\ queue' = queue \ {msg} /\ task' = [task EXCEPT ![w] = msg]
      BY <1>3 DEF Claim
    <2>2. QED
      BY <1>0, <2>1 DEF SoleHolder
  <1>4. ASSUME NEW w \in Workers, WorkerStep(w) PROVE SoleHolder'
    <2>1. CASE Lookup(w) \/ ReserveCall(w) \/ Defer(w) \/ ConsumeCall(w) \/ CallProvider(w) \/ Complete(w)
               \/ DeferCalled(w)
      BY <1>1, <2>1, SameAdds
      DEF Lookup, ReserveCall, Defer, ConsumeCall, CallProvider, Complete, DeferCalled, NotClaimed
    <2>2. CASE Fail(w)
      BY <1>1, <1>2, <2>2, SameAdds DEF Fail, NotClaimed, Drops
    <2>3. CASE Acknowledge(w)
      BY <1>2, <2>3 DEF Acknowledge, Release, Drops
    <2>4. QED
      BY <1>4, <2>1, <2>2, <2>3 DEF WorkerStep
  <1>5. ASSUME NEW w \in Workers, Crash(w) PROVE SoleHolder'
    BY <1>2, <1>5 DEF Crash, Release, Drops
  <1>6. ASSUME NEW a \in Assets, PrepareEnrichment(a) PROVE SoleHolder'
    BY <1>1, <1>6, SentAdds DEF PrepareEnrichment, Dispatch, process
  <1>7. ASSUME NEW j \in Jobs, RetryJob(j) PROVE SoleHolder'
    BY <1>1, <1>7, SentAdds DEF RetryJob, Dispatch, process
  <1>8. CASE RedispatchDueJobs
    BY <1>1, <1>8, SentAdds DEF RedispatchDueJobs, Sweep, process
  <1>9. CASE UNCHANGED <<task, queue>>
    BY <1>1, <1>9, SameAdds
  <1>10. QED
    BY <1>3, <1>4, <1>5, <1>6, <1>7, <1>8, <1>9
    DEF Next, vars, process, UpsertLocation, TrashAsset, RestoreAsset, ExpireLease, AdvanceMonth

\* Two workers never both hold the unexpired lease of a job
\* (claim_geocode_job compares the lease with the message's identity).
THEOREM OneWorkerPerLease == Spec => []OneClaimant
  <1>1. Init => SoleHolder
    BY DEF Init, SoleHolder
  <1>2. IInv /\ SoleHolder /\ [Next]_vars => SoleHolder'
    BY SoleStep
  <1>3. SoleHolder => OneClaimant
    <2> SUFFICES ASSUME SoleHolder, NEW v \in Workers, NEW w \in Workers, v # w, task[v] # NoMessage,
                        task[w] # NoMessage, task[v][1] = task[w][1], Claimed(v), Claimed(w)
                 PROVE  FALSE
      BY DEF OneClaimant
    <2>1. task[v][2] = task[w][2]
      BY DEF Claimed, HasLease
    <2>2. task[v] = task[w]
      BY <2>1 DEF SoleHolder, Messages
    <2>3. QED
      BY <2>2 DEF SoleHolder
  <1>4. QED
    BY <1>1, <1>2, <1>3, Invariance, PTL DEF Spec

-----------------------------------------------------------------------------
(* Calls and charges.                                                      *)

\* Workers about to make a call charged to month m.
Callers(m) == {w \in Workers : charge[w] = m}

LEMMA CallersFinite ==
  ASSUME NEW m
  PROVE  IsFiniteSet(Callers(m)) /\ Cardinality(Callers(m)) \in Nat
         /\ IsFiniteSet(Callers(m))' /\ (Cardinality(Callers(m)) \in Nat)'
  <1>1. Callers(m) \subseteq Workers /\ Callers(m)' \subseteq Workers
    BY DEF Callers
  <1>2. QED
    BY <1>1, FiniteAssumption, FS_Subset, FS_CardinalityType

\* What is charged is never taken back.
LEMMA ChargesStay ==
  ASSUME IInv, [Next]_vars, NEW m \in Months
  PROVE  usage[m].processed \in Nat /\ usage'[m].processed \in Nat /\ usage'[m].processed >= usage[m].processed
  <1>1. usage[m] \in LedgerRow /\ usage'[m] \in LedgerRow
    <2>1. TypeInv'
      BY TypeStep DEF IInv
    <2>2. QED
      BY <2>1 DEF IInv, TypeInv, TypeOK
  <1>2. usage[m].processed \in Nat /\ usage'[m].processed \in Nat
    BY <1>1 DEF LedgerRow
  <1>3. CASE Next
    <2>1. Budget!Next
      BY <1>3, LedgerStep
    <2>2. CASE \E c \in Jobs, n \in Months : Budget!Take(c, n)
      <3>1. [n \in Months |-> usage'[n].processed] = [n \in Months |-> usage[n].processed]
        BY <2>2 DEF Budget!Take
      <3>2. usage'[m].processed = usage[m].processed
        BY <3>1
      <3>3. QED
        BY <1>2, <3>2
    <2>3. ASSUME NEW C \in SUBSET Jobs, NEW R \in SUBSET Jobs, Budget!Settle(C, R)
          PROVE  usage'[m].processed >= usage[m].processed
      <3> DEFINE n == Cardinality(Held(C, m))
      <3>1. Budget!Holders(C, m) = Held(C, m)
        BY DEF Budget!Holders, Held
      <3>2. usage'[m].processed = usage[m].processed + n
        BY <2>3, <3>1, BudgetCardinality DEF Budget!Settle
      <3>3. n \in Nat
        BY HeldCount
      <3> HIDE DEF n
      <3>4. QED
        BY <1>2, <3>2, <3>3
    <2>4. QED
      BY <1>2, <2>1, <2>2, <2>3 DEF Budget!Next
  <1>4. CASE UNCHANGED vars
    BY <1>2, <1>4 DEF vars
  <1>5. QED
    BY <1>2, <1>3, <1>4

\* Fewer workers are about to call.
LEMMA FewerCallers ==
  ASSUME NEW m, Callers(m)' \subseteq Callers(m)
  PROVE  Cardinality(Callers(m)') <= Cardinality(Callers(m))
  BY CallersFinite, FS_Subset

Covered(m) == calls[m] + Cardinality(Callers(m)) <= usage[m].processed

LEMMA CoveredStep ==
  ASSUME IInv, NEW m \in Months, Covered(m), [Next]_vars
  PROVE  Covered(m)'
  <1>0. /\ usage[m].processed \in Nat /\ usage'[m].processed \in Nat /\ usage'[m].processed >= usage[m].processed
        /\ calls[m] \in Nat /\ calls \in [Months -> Nat] /\ charge \in [Workers -> Months \cup {Never}]
    BY ChargesStay DEF IInv, TypeInv, TypeOK
  <1>1. Cardinality(Callers(m)) \in Nat /\ Cardinality(Callers(m)') \in Nat
    BY CallersFinite
  <1>2. ASSUME calls'[m] = calls[m], Callers(m)' \subseteq Callers(m) PROVE Covered(m)'
    <2>1. Cardinality(Callers(m)') <= Cardinality(Callers(m))
      BY <1>2, FewerCallers
    <2>2. QED
      BY <1>0, <1>1, <1>2, <2>1 DEF Covered
  <1>3. ASSUME NEW w \in Workers, CallProvider(w) PROVE Covered(m)'
    <2>1. calls' = [calls EXCEPT ![charge[w]] = @ + 1] /\ charge' = [charge EXCEPT ![w] = Never]
      BY <1>3 DEF CallProvider
    <2>2. CASE charge[w] # m
      <3>1. calls'[m] = calls[m]
        BY <1>0, <2>1, <2>2
      <3>2. Callers(m)' \subseteq Callers(m)
        BY <1>0, <2>1 DEF Callers, Months, Never
      <3>3. QED
        BY <1>2, <3>1, <3>2
    <2>3. CASE charge[w] = m
      <3>1. calls'[m] = calls[m] + 1
        BY <1>0, <2>1, <2>3
      <3>2. Callers(m)' = Callers(m) \ {w} /\ w \in Callers(m)
        BY <1>0, <2>1, <2>3 DEF Callers, Months, Never
      <3>3. Cardinality(Callers(m)') = Cardinality(Callers(m)) - 1
        BY <3>2, CallersFinite, FS_RemoveElement
      <3>4. QED
        BY <1>0, <1>1, <3>1, <3>3 DEF Covered
    <2>4. QED
      BY <2>2, <2>3
  <1>4. ASSUME NEW w \in Workers, ConsumeCall(w), ~NotClaimed(w, "Ack") PROVE Covered(m)'
    <2> DEFINE j == task[w][1]
               charged == Cardinality(Held({j}, m))
    <2>1. /\ usage' = Settled({j}, {}) /\ charge' = [charge EXCEPT ![w] = job[j].held] /\ calls' = calls
      BY <1>4 DEF ConsumeCall
    <2>2. j \in Jobs
      BY <1>4 DEF ConsumeCall, IInv, TypeInv, Busy, Messages
    <2>3. usage'[m].processed = usage[m].processed + charged
      <3>1. {j} \in SUBSET Jobs /\ {} \in SUBSET Jobs /\ {j} \cap {} = {}
        BY <2>2
      <3>2. Settled({j}, {})[m].processed = usage[m].processed + Cardinality(Held({j}, m))
        BY <3>1, SettledFacts DEF IInv
      <3>3. QED
        BY <2>1, <3>2
    <2>4. CASE job[j].held = m
      <3>1. charged = 1
        <4>1. Held({j}, m) = {j}
          BY <2>4 DEF Held
        <4>2. QED
          BY <4>1, FS_Singleton
      <3>2. Callers(m)' = Callers(m) \cup {w}
        BY <1>0, <2>1, <2>4 DEF Callers
      <3>3. Cardinality(Callers(m)') <= Cardinality(Callers(m)) + 1
        <4>1. \/ Cardinality(Callers(m)') = Cardinality(Callers(m))
              \/ Cardinality(Callers(m)') = Cardinality(Callers(m)) + 1
          BY <3>2, CallersFinite, FS_AddElement
        <4>2. QED
          BY <1>1, <4>1
      <3> HIDE DEF charged, j
      <3>4. QED
        BY <1>0, <1>1, <2>1, <2>3, <3>1, <3>3 DEF Covered
    <2>5. CASE job[j].held # m
      <3>1. Callers(m)' \subseteq Callers(m)
        BY <1>0, <2>1, <2>5 DEF Callers
      <3>2. QED
        BY <1>2, <2>1, <3>1
    <2>6. QED
      BY <2>4, <2>5
  <1>5. CASE UNCHANGED <<charge, calls>>
    BY <1>2, <1>5 DEF Callers
  <1>6. ASSUME NEW w \in Workers, Release(w) PROVE Covered(m)'
    BY <1>0, <1>2, <1>6 DEF Release, Callers, Months, Never
  <1>7. ASSUME NEW w \in Workers, WorkerStep(w) \/ Crash(w) PROVE Covered(m)'
    <2>1. CASE Lookup(w) \/ ReserveCall(w) \/ Defer(w) \/ Complete(w) \/ Fail(w) \/ DeferCalled(w)
      BY <1>5, <2>1 DEF Lookup, ReserveCall, Defer, Complete, Fail, DeferCalled, NotClaimed
    <2>2. CASE ConsumeCall(w)
      BY <1>4, <1>5, <2>2 DEF NotClaimed
    <2>3. QED
      BY <1>3, <1>6, <1>7, <2>1, <2>2 DEF WorkerStep, Acknowledge, Crash
  <1>8. QED
    BY <1>5, <1>7
    DEF Next, vars, process, UpsertLocation, TrashAsset, RestoreAsset, PrepareEnrichment, RetryJob, ExpireLease,
        RedispatchDueJobs, Sweep, AdvanceMonth, Claim

\* Every call made, or about to be made, has been charged to its month,
\* whatever happens to the worker or its job meanwhile (consume_provider_call).
THEOREM CallsArePaid == Spec => []CallsCharged
  <1>1. Init => \A m \in Months : Covered(m)
    <2> SUFFICES ASSUME Init, NEW m \in Months PROVE Covered(m)
      OBVIOUS
    <2>1. Callers(m) = {}
      BY DEF Init, Callers, Months, Never
    <2>2. QED
      BY <2>1, FS_EmptySet DEF Init, NewRow, Covered
  <1>2. IInv /\ (\A m \in Months : Covered(m)) /\ [Next]_vars => (\A m \in Months : Covered(m))'
    <2> SUFFICES ASSUME IInv, \A m \in Months : Covered(m), [Next]_vars, NEW m \in Months PROVE Covered(m)'
      BY DEF Months
    <2>1. QED
      BY CoveredStep
  <1>3. (\A m \in Months : Covered(m)) => CallsCharged
    BY DEF Covered, Callers, CallsCharged
  <1>4. QED
    BY <1>1, <1>2, <1>3, Invariance, PTL DEF Spec

-----------------------------------------------------------------------------
(* Addresses.                                                              *)

\* Points within the radius of a third are within it of each other: so it is
\* when only equal coordinates are reused.
NearIsTransitive ==
  \A b, c, d \in Coordinates : <<b, c>> \in Near /\ <<c, d>> \in Near => <<b, d>> \in Near

\* The address a worker is about to write is of a point near its job's.
AnswerNear(w) ==
  pc[w] \in {"Reuse", "Complete"} =>
    task[w] \in Messages /\ answer[w] # NoAddress /\ <<answer[w], task[w][1][2]>> \in Near

AddressInv == AddressNearby /\ \A w \in Workers : AnswerNear(w)

LEMMA ReusedNear ==
  ASSUME NearIsTransitive, IInv, AddressNearby, NEW S \in SUBSET Assets, NEW c \in Coordinates, NEW found \in Reusable(S, c)
  PROVE  found # NoAddress /\ <<found, c>> \in Near
  <1>1. PICK b \in S : found = address[b] /\ address[b] # NoAddress /\ <<coord[b], c>> \in Near
    BY DEF Reusable
  <1>2. b \in Assets /\ coord[b] \in Coordinates /\ address[b] \in Coordinates
    BY <1>1 DEF IInv, TypeInv, TypeOK
  <1>3. <<address[b], coord[b]>> \in Near
    BY <1>1, <1>2 DEF AddressNearby
  <1>4. QED
    BY <1>1, <1>2, <1>3 DEF NearIsTransitive

\* A step that writes no address and answers nothing.
LEMMA SameAnswers ==
  ASSUME AddressInv, UNCHANGED <<coord, address>>,
         \A w \in Workers : \/ pc'[w] \notin {"Reuse", "Complete"}
                            \/ pc'[w] = pc[w] /\ task'[w] = task[w] /\ answer'[w] = answer[w]
  PROVE  AddressInv'
  BY DEF AddressInv, AddressNearby, AnswerNear

LEMMA AddressStep ==
  ASSUME NearIsTransitive, IInv, AddressInv, [Next]_vars
  PROVE  AddressInv'
  <1>0. /\ coord \in [Assets -> Coordinates] /\ address \in [Assets -> Coordinates \cup {NoAddress}]
        /\ pc \in [Workers -> Steps] /\ task \in [Workers -> Messages \cup {NoMessage}]
        /\ answer \in [Workers -> Coordinates \cup {NoAddress}]
    BY DEF IInv, TypeInv, TypeOK
  <1>1. ASSUME NEW w \in Workers, pc[w] # "Idle"
        PROVE  task[w] \in Messages /\ task[w][1][1] \in Assets /\ task[w][1][2] \in Coordinates
    BY <1>1 DEF IInv, TypeInv, Busy, Messages, Jobs
  <1>2. CASE UNCHANGED <<coord, address, pc, task, answer>>
    BY <1>2, SameAnswers
  <1>3. ASSUME NEW w \in Workers, NEW step, NotClaimed(w, step), step \notin {"Reuse", "Complete"} PROVE AddressInv'
    BY <1>0, <1>3, SameAnswers DEF NotClaimed, Goto, catalog
  <1>4. ASSUME NEW a \in Assets, NEW c \in Coordinates, UpsertLocation(a, c) PROVE AddressInv'
    <2>1. PICK found \in Reusable(Assets, c) \cup {NoAddress} : address' = [address EXCEPT ![a] = found]
      BY <1>4 DEF UpsertLocation
    <2>2. found = NoAddress \/ <<found, c>> \in Near
      BY ReusedNear DEF AddressInv
    <2>3. coord' = [coord EXCEPT ![a] = c] /\ UNCHANGED process
      BY <1>4 DEF UpsertLocation
    <2>4. AddressNearby'
      BY <1>0, <2>1, <2>2, <2>3 DEF AddressInv, AddressNearby
    <2>5. QED
      BY <2>3, <2>4 DEF AddressInv, AnswerNear, process
  <1>5. ASSUME NEW w \in Workers, NEW msg \in Messages, Claim(w, msg) PROVE AddressInv'
    <2>1. UNCHANGED <<coord, address, answer>> /\ task' = [task EXCEPT ![w] = msg]
          /\ \E step \in {"Ack", "Lookup"} : pc' = [pc EXCEPT ![w] = step]
      BY <1>5 DEF Claim, Goto, catalog
    <2>2. QED
      BY <1>0, <2>1, SameAnswers
  <1>6. ASSUME NEW w \in Workers, Lookup(w) PROVE AddressInv'
    <2>1. CASE NotClaimed(w, "Reserve")
      BY <1>3, <2>1
    <2>2. CASE Goto(w, "Reserve") /\ UNCHANGED <<catalog, task, answer>>
      BY <1>0, <2>2, SameAnswers DEF Goto, catalog
    <2>3. ASSUME NEW found \in Reusable(Assets \ {task[w][1][1]}, task[w][1][2]),
                 answer' = [answer EXCEPT ![w] = found], Goto(w, "Reuse"), UNCHANGED <<catalog, task>>
          PROVE  AddressInv'
      <3>1. task[w] \in Messages /\ task[w][1][2] \in Coordinates
        BY <1>1, <1>6 DEF Lookup
      <3>2. found # NoAddress /\ <<found, task[w][1][2]>> \in Near
        BY <2>3, <3>1, ReusedNear DEF AddressInv
      <3>3. QED
        BY <1>0, <2>3, <3>1, <3>2 DEF AddressInv, AddressNearby, AnswerNear, Goto, catalog
    <2>4. QED
      BY <1>6, <2>1, <2>2, <2>3 DEF Lookup
  <1>7. ASSUME NEW w \in Workers, CallProvider(w) PROVE AddressInv'
    <2>1. UNCHANGED <<coord, address, task>> /\ task[w] \in Messages /\ task[w][1][2] \in Coordinates
      BY <1>1, <1>7 DEF CallProvider, catalog
    <2>2. CASE Goto(w, "Complete") /\ answer' = [answer EXCEPT ![w] = task[w][1][2]]
      BY <1>0, <2>1, <2>2, NearAssumption, NullAssumption DEF AddressInv, AddressNearby, AnswerNear, Goto
    <2>3. CASE \E failure \in {"FailTransient", "FailPermanent", "FailAuth", "DeferCalled"} :
                 Goto(w, failure) /\ UNCHANGED answer
      BY <1>0, <2>1, <2>3, SameAnswers DEF Goto
    <2>4. QED
      BY <1>7, <2>2, <2>3 DEF CallProvider
  <1>8. ASSUME NEW w \in Workers, Complete(w) PROVE AddressInv'
    <2>1. CASE NotClaimed(w, "Ack")
      BY <1>3, <2>1
    <2>2. CASE ~NotClaimed(w, "Ack")
      <3> DEFINE j == task[w][1]
      <3>1. /\ coord[j[1]] = j[2] /\ address' = [address EXCEPT ![j[1]] = answer[w]]
            /\ Goto(w, "Ack") /\ UNCHANGED <<coord, task, answer>> /\ pc[w] \in {"Reuse", "Complete"}
        BY <1>8, <2>2 DEF Complete, Holds, Current
      <3>2. j[1] \in Assets /\ <<answer[w], j[2]>> \in Near
        BY <1>1, <3>1 DEF AddressInv, AnswerNear
      <3> HIDE DEF j
      <3>3. AddressNearby'
        BY <1>0, <3>1, <3>2 DEF AddressInv, AddressNearby
      <3>4. \A v \in Workers : AnswerNear(v)'
        BY <1>0, <3>1 DEF AddressInv, AnswerNear, Goto
      <3>5. QED
        BY <3>3, <3>4 DEF AddressInv
    <2>3. QED
      BY <2>1, <2>2
  <1>9. ASSUME NEW w \in Workers, ReserveCall(w) \/ Defer(w) \/ ConsumeCall(w) \/ DeferCalled(w) PROVE AddressInv'
    <2>1. CASE \E step \in {"Defer", "Ack"} : NotClaimed(w, step)
      BY <1>3, <2>1
    <2>2. CASE UNCHANGED <<catalog, task, answer>> /\ \E step \in {"Consume", "Defer", "Ack", "Call"} : Goto(w, step)
      BY <1>0, <2>2, SameAnswers DEF Goto, catalog
    <2>3. QED
      BY <1>9, <2>1, <2>2 DEF ReserveCall, Defer, ConsumeCall, DeferCalled
  <1>10. ASSUME NEW w \in Workers, Fail(w) PROVE AddressInv'
    <2>1. CASE NotClaimed(w, "Ack")
      BY <1>3, <2>1
    <2>2. CASE ~NotClaimed(w, "Ack")
      <3>1. /\ UNCHANGED <<catalog, answer>>
            /\ \/ Goto(w, "Idle") /\ task' = [task EXCEPT ![w] = NoMessage]
               \/ Goto(w, "Ack") /\ UNCHANGED task
        <4> DEFINE retry == pc[w] = "FailTransient" /\ ~Exhausted(task[w][1])
        <4>1. /\ UNCHANGED <<catalog, answer>>
              /\ IF retry THEN Goto(w, "Idle") /\ task' = [task EXCEPT ![w] = NoMessage]
                          ELSE Goto(w, "Ack") /\ UNCHANGED task
          BY <1>10, <2>2, Zenon DEF Fail
        <4> HIDE DEF retry
        <4>2. QED
          BY <4>1
      <3>2. QED
        BY <1>0, <3>1, SameAnswers DEF Goto, catalog
    <2>3. QED
      BY <2>1, <2>2
  <1>11. ASSUME NEW w \in Workers, Release(w) PROVE AddressInv'
    BY <1>0, <1>11, SameAnswers DEF Release, Goto, catalog
  <1>12. QED
    BY <1>2, <1>4, <1>5, <1>6, <1>7, <1>8, <1>9, <1>10, <1>11
    DEF Next, vars, process, catalog, TrashAsset, RestoreAsset, PrepareEnrichment, RetryJob, ExpireLease,
        RedispatchDueJobs, Sweep, AdvanceMonth, WorkerStep, Acknowledge, Crash

\* Where reuse is transitive, a stored address is of a point near the asset's
\* present coordinates, whatever late workers write (complete_geocode).
THEOREM AddressesStayNear == ASSUME NearIsTransitive PROVE Spec => []AddressNearby
  <1>1. Init => AddressInv
    BY DEF Init, AddressInv, AddressNearby, AnswerNear
  <1>2. IInv /\ AddressInv /\ [Next]_vars => AddressInv'
    BY AddressStep
  <1>3. AddressInv => AddressNearby
    BY DEF AddressInv
  <1>4. QED
    BY <1>1, <1>2, <1>3, Invariance, PTL DEF Spec
==============================================================================
