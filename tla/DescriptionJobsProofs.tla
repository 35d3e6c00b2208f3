------------------------ MODULE DescriptionJobsProofs ------------------------
(***************************************************************************)
(* Theorems about DescriptionJobs: its rows are well formed, only a leased *)
(* job has a call behind it, no two workers have one lease, what jobs hold *)
(* is in reserve and neither ledger passes its limit.  Of its uploads: no  *)
(* preview goes while a job needs it, and no reservation is left over.     *)
(***************************************************************************)
EXTENDS DescriptionJobs, FiniteSetTheorems, TLAPS

-----------------------------------------------------------------------------
(* Rows.                                                                   *)

JobStatuses == {"None", "Preparing", "Queued", "Running", "DeferredQuota",
                "Succeeded", "Failed", "Cancelled"}
JobCodes    == {"None", "ProviderCircuitOpen", "Skipped", "Other"}
Dues        == 0..(MaxMonth + 1)
Spans       == Months \cup {Never}

LEMMA Bounds ==
  /\ Never = 0 /\ Never \notin Months /\ 0 \in 0..MaxAttempts /\ Never \in Dues /\ 1 \in Months
  /\ \A m \in Months : m \in Dues /\ m + 1 \in Dues
  BY LimitAssumption DEF Never, Months, Dues

LEMMA JobRowIs ==
  JobRow = [status: JobStatuses, code: JobCodes, attempts: 0..MaxAttempts, due: Dues,
            lease: MessageIds \cup {None}, live: BOOLEAN, req: Spans, cost: Spans,
            consumed: Spans, staged: Uploads \cup {None}, blocked: BOOLEAN]
  BY DEF JobRow, JobStatuses, JobCodes, Dues, Spans

LEMMA MovedRow ==
  ASSUME NEW r \in JobRow, NEW s \in JobStatuses, NEW c \in JobCodes, NEW d \in Dues
  PROVE  /\ Moved(r, s, c, d) \in JobRow
         /\ Moved(r, s, c, d).status = s /\ Moved(r, s, c, d).req = r.req /\ Moved(r, s, c, d).cost = r.cost
         /\ Moved(r, s, c, d).staged = r.staged /\ Moved(r, s, c, d).attempts = r.attempts
  BY JobRowIs DEF Moved

LEMMA SettledOne ==
  ASSUME NEW r \in JobRow, NEW called \in BOOLEAN
  PROVE  /\ SettledRow(r, called) \in JobRow
         /\ SettledRow(r, called).req = Never /\ SettledRow(r, called).cost = Never
         /\ SettledRow(r, called).status = r.status /\ SettledRow(r, called).staged = r.staged
         /\ SettledRow(r, called).attempts = r.attempts /\ SettledRow(r, called).due = r.due
         /\ SettledRow(r, called).blocked = r.blocked
  BY JobRowIs DEF SettledRow, Spans

LEMMA ReturnedOne ==
  ASSUME NEW r \in JobRow
  PROVE  /\ ReturnedRow(r) \in JobRow
         /\ ReturnedRow(r).req = Never /\ ReturnedRow(r).cost = Never
         /\ ReturnedRow(r).status = r.status /\ ReturnedRow(r).staged = r.staged
         /\ ReturnedRow(r).attempts = r.attempts
  BY JobRowIs DEF ReturnedRow, Spans

LEMMA UnstagedOne ==
  ASSUME NEW r \in JobRow
  PROVE  /\ Unstaged(r) \in JobRow /\ Unstaged(r).status = r.status
         /\ Unstaged(r).req = r.req /\ Unstaged(r).cost = r.cost /\ Unstaged(r).attempts = r.attempts
  BY JobRowIs DEF Unstaged

LEMMA EmptyRow == NoJob \in JobRow /\ NoJob.req = Never /\ NoJob.cost = Never /\ NoJob.status = "None"
  BY Bounds, JobRowIs DEF NoJob, JobStatuses, JobCodes, Spans

\* Other changes of a row.
LEMMA EditedRow ==
  ASSUME NEW r \in JobRow
  PROVE  /\ \A b \in BOOLEAN : LET n == [r EXCEPT !.blocked = b] IN
              /\ n \in JobRow /\ n.req = r.req /\ n.cost = r.cost /\ n.status = r.status
              /\ n.staged = r.staged /\ n.attempts = r.attempts
         /\ \A b \in BOOLEAN : LET n == [r EXCEPT !.live = b] IN
              /\ n \in JobRow /\ n.req = r.req /\ n.cost = r.cost /\ n.status = r.status
              /\ n.staged = r.staged /\ n.attempts = r.attempts
         /\ \A d \in Dues : LET n == [r EXCEPT !.due = d] IN
              /\ n \in JobRow /\ n.req = r.req /\ n.cost = r.cost /\ n.status = r.status
              /\ n.staged = r.staged /\ n.attempts = r.attempts
         /\ \A k \in 0..MaxAttempts : LET n == [r EXCEPT !.attempts = k] IN
              /\ n \in JobRow /\ n.req = r.req /\ n.cost = r.cost /\ n.status = r.status
              /\ n.staged = r.staged /\ n.attempts = k
         /\ \A u \in Uploads : LET n == [r EXCEPT !.staged = u] IN
              /\ n \in JobRow /\ n.req = r.req /\ n.cost = r.cost /\ n.status = r.status
              /\ n.staged = u /\ n.attempts = r.attempts
  BY JobRowIs

\* A reservation is taken for both ledgers or for neither.
LEMMA ReservedOne ==
  ASSUME NEW r \in JobRow, NEW q, NEW d, month \in Months
  PROVE  LET plan == ReserveBoth(r, q, d)
         IN  /\ plan.row \in JobRow /\ plan.granted \in BOOLEAN
             /\ plan.row.status = r.status /\ plan.row.staged = r.staged /\ plan.row.attempts = r.attempts
             /\ \/ plan.row.req = month /\ plan.row.cost = month
                \/ plan.row.req = Never /\ plan.row.cost = Never
                \/ plan.row.req = r.req /\ plan.row.cost = r.cost
  <1> DEFINE both == r.req = month /\ r.cost = month
             one == ~both /\ (r.req = month \/ r.cost = month)
             row1 == IF one THEN ReturnedRow(r) ELSE r
             row2 == [row1 EXCEPT !.blocked = TRUE]
             row3 == [row1 EXCEPT !.blocked = FALSE]
             row4 == [row1 EXCEPT !.req = month, !.cost = month, !.blocked = FALSE]
             plan == ReserveBoth(r, q, d)
  <1>1. /\ row1 \in JobRow /\ row1.status = r.status /\ row1.staged = r.staged /\ row1.attempts = r.attempts
        /\ \/ row1.req = Never /\ row1.cost = Never
           \/ row1.req = r.req /\ row1.cost = r.cost
    BY ReturnedOne
  <1>2. plan.row \in {row1, row2, row3, row4} /\ plan.granted \in BOOLEAN
    BY DEF ReserveBoth
  <1> HIDE DEF row1, plan
  <1>3. /\ row2 \in JobRow /\ row2.req = row1.req /\ row2.cost = row1.cost /\ row2.status = row1.status
        /\ row2.staged = row1.staged /\ row2.attempts = row1.attempts
    BY <1>1, EditedRow
  <1>4. /\ row3 \in JobRow /\ row3.req = row1.req /\ row3.cost = row1.cost /\ row3.status = row1.status
        /\ row3.staged = row1.staged /\ row3.attempts = row1.attempts
    BY <1>1, EditedRow
  <1>5. /\ row4 \in JobRow /\ row4.req = month /\ row4.cost = month /\ row4.status = row1.status
        /\ row4.staged = row1.staged /\ row4.attempts = row1.attempts
    BY <1>1, JobRowIs DEF Spans
  <1> HIDE DEF row2, row3, row4
  <1>6. /\ plan.row \in JobRow /\ plan.granted \in BOOLEAN
        /\ plan.row.status = r.status /\ plan.row.staged = r.staged /\ plan.row.attempts = r.attempts
        /\ \/ plan.row.req = month /\ plan.row.cost = month
           \/ plan.row.req = Never /\ plan.row.cost = Never
           \/ plan.row.req = r.req /\ plan.row.cost = r.cost
    BY <1>1, <1>2, <1>3, <1>4, <1>5
  <1>7. QED
    BY <1>6 DEF plan

\* Rows that only have a call behind them while they are leased.
SoundRows == {r \in JobRow : CallStarted(r) => r.status = "Running"}
IdleRows  == {r \in JobRow : ~CallStarted(r)}

LEMMA IdleSound == IdleRows \subseteq SoundRows /\ SoundRows \subseteq JobRow
  BY DEF IdleRows, SoundRows

LEMMA SoundRow ==
  ASSUME NEW r \in SoundRows, r.status # "Running"
  PROVE  r \in IdleRows
  BY DEF SoundRows, IdleRows

\* The rows the handlers write.
LEMMA IdleEdits ==
  /\ \A r \in IdleRows, s \in JobStatuses, c \in JobCodes, d \in Dues : Moved(r, s, c, d) \in IdleRows
  /\ \A r \in IdleRows : Unstaged(r) \in IdleRows
  /\ \A r \in JobRow : ReturnedRow(r) \in IdleRows
  /\ \A r \in JobRow, called \in BOOLEAN : SettledRow(r, called) \in IdleRows
  <1>1. ASSUME NEW r \in IdleRows, NEW s \in JobStatuses, NEW c \in JobCodes, NEW d \in Dues
        PROVE  Moved(r, s, c, d) \in IdleRows
    BY MovedRow DEF IdleRows, CallStarted
  <1>2. ASSUME NEW r \in IdleRows PROVE Unstaged(r) \in IdleRows
    BY UnstagedOne DEF IdleRows, CallStarted
  <1>3. ASSUME NEW r \in JobRow PROVE ReturnedRow(r) \in IdleRows
    BY ReturnedOne DEF IdleRows, CallStarted
  <1>4. ASSUME NEW r \in JobRow, NEW called \in BOOLEAN PROVE SettledRow(r, called) \in IdleRows
    BY SettledOne DEF IdleRows, CallStarted
  <1>5. QED
    BY <1>1, <1>2, <1>3, <1>4

LEMMA IdleFields ==
  ASSUME NEW r \in IdleRows
  PROVE  /\ \A b \in BOOLEAN : [r EXCEPT !.blocked = b] \in IdleRows
         /\ \A d \in Dues : [r EXCEPT !.due = d] \in IdleRows
         /\ \A k \in 0..MaxAttempts : [r EXCEPT !.attempts = k] \in IdleRows
         /\ \A u \in Uploads : [r EXCEPT !.staged = u] \in IdleRows
  BY EditedRow DEF IdleRows, CallStarted

-----------------------------------------------------------------------------
(* Ledgers.                                                                *)

LEMMA SettleType ==
  ASSUME NEW row \in LedgerRow, NEW c \in Nat, NEW r \in Nat
  PROVE  Settle(row, c, r) \in LedgerRow
  <1> DEFINE left == row.reserved - Lesser(row.reserved, c + r)
             sum  == row.processed + Lesser(row.reserved, c)
  <1>1. left \in Nat /\ sum \in Nat
    BY DEF Lesser, LedgerRow
  <1>2. Settle(row, c, r) = [row EXCEPT !.reserved = left, !.processed = sum]
    BY DEF Settle
  <1> HIDE DEF left, sum
  <1>3. QED
    BY <1>1, <1>2 DEF LedgerRow

LEMMA PayType ==
  ASSUME NEW row \in LedgerRow, NEW units \in Nat, NEW paid \in Nat
  PROVE  Pay(row, units, paid) \in LedgerRow
  <1> DEFINE left == row.reserved - Lesser(row.reserved, units)
             sum  == row.processed + paid
  <1>1. left \in Nat /\ sum \in Nat
    BY DEF Lesser, LedgerRow
  <1>2. Pay(row, units, paid) = [row EXCEPT !.reserved = left, !.processed = sum]
    BY DEF Pay
  <1> HIDE DEF left, sum
  <1>3. QED
    BY <1>1, <1>2 DEF LedgerRow

LEMMA UnchargeType ==
  ASSUME NEW row \in LedgerRow, NEW n \in Nat
  PROVE  Uncharge(row, n) \in LedgerRow
  <1> DEFINE left == row.processed - Lesser(row.processed, n)
  <1>1. left \in Nat
    BY DEF Lesser, LedgerRow
  <1>2. Uncharge(row, n) = [row EXCEPT !.processed = left]
    BY DEF Uncharge
  <1> HIDE DEF left
  <1>3. QED
    BY <1>1, <1>2 DEF LedgerRow

LEMMA ReserveType ==
  ASSUME NEW row \in LedgerRow, NEW units \in Nat
  PROVE  Reserve(row, units) \in LedgerRow
  <1> DEFINE sum == row.reserved + units
  <1>1. sum \in Nat
    BY DEF LedgerRow
  <1>2. Reserve(row, units) = [row EXCEPT !.reserved = sum]
    BY DEF Reserve
  <1> HIDE DEF sum
  <1>3. QED
    BY <1>1, <1>2 DEF LedgerRow

Ledger == [Months -> LedgerRow]

LEMMA CircuitType ==
  ASSUME NEW led \in Ledger
  PROVE  /\ \A row \in LedgerRow : Circuit(led, row) \in Ledger
         /\ \A m \in Months : OpenCircuit(led[m]) \in LedgerRow
         /\ \A b \in BOOLEAN : [led EXCEPT ![month].open = b] \in Ledger
         /\ [led EXCEPT ![month].exists = TRUE] \in Ledger
  BY DEF Circuit, OpenCircuit, Ledger, LedgerRow

LEMMA Counts ==
  ASSUME NEW S \in SUBSET Assets, NEW m
  PROVE  /\ HoldReq(S, m) \in Nat /\ HoldCost(S, m) \in Nat /\ Price * HoldCost(S, m) \in Nat
         /\ Cardinality({a \in S : job[a].cost # Never /\ job[a].consumed = m}) \in Nat
  <1>1. \A T \in SUBSET Assets : Cardinality(T) \in Nat
    BY SetAssumption, FS_Subset, FS_CardinalityType
  <1>2. HoldReq(S, m) \in Nat /\ HoldCost(S, m) \in Nat
        /\ Cardinality({a \in S : job[a].cost # Never /\ job[a].consumed = m}) \in Nat
    BY <1>1 DEF HoldReq, HoldCost
  <1>3. Price * HoldCost(S, m) \in Nat
    <2> DEFINE n == HoldCost(S, m)
    <2>1. n \in Nat /\ Price \in Nat
      BY <1>2, LimitAssumption
    <2> HIDE DEF n
    <2>2. Price * n \in Nat
      BY <2>1
    <2>3. QED
      BY <2>2 DEF n
  <1>4. QED
    BY <1>2, <1>3

LedgersOK == reqs \in Ledger /\ usd \in Ledger

LEMMA ReturnedLedgers ==
  ASSUME LedgersOK, NEW S \in SUBSET Assets
  PROVE  ReturnReqs(S) \in Ledger /\ ReturnUsd(S) \in Ledger
  <1>1. ASSUME NEW m \in Months
        PROVE  /\ Settle(reqs[m], 0, HoldReq(S, m)) \in LedgerRow
               /\ Settle(usd[m], 0, Price * HoldCost(S, m)) \in LedgerRow
    <2>1. reqs[m] \in LedgerRow /\ usd[m] \in LedgerRow /\ 0 \in Nat
      BY DEF LedgersOK, Ledger
    <2>2. HoldReq(S, m) \in Nat /\ Price * HoldCost(S, m) \in Nat
      BY Counts
    <2>3. QED
      BY <2>1, <2>2, SettleType
  <1>2. QED
    BY <1>1 DEF ReturnReqs, ReturnUsd, Ledger

LEMMA SettledLedgers ==
  ASSUME LedgersOK, NEW C \in SUBSET Assets, NEW R \in SUBSET Assets
  PROVE  SettleReqs(C, R) \in Ledger /\ SettleUsd(C, R) \in Ledger
  <1>1. ASSUME NEW m \in Months
        PROVE  /\ Uncharge(Settle(reqs[m], HoldReq(C, m), HoldReq(R, m)),
                     Cardinality({a \in R : job[a].cost # Never /\ job[a].consumed = m})) \in LedgerRow
               /\ Pay(usd[m], Price * HoldCost(C \cup R, m), Price * HoldCost(C, m)) \in LedgerRow
    <2>1. reqs[m] \in LedgerRow /\ usd[m] \in LedgerRow /\ C \cup R \in SUBSET Assets
      BY <1>1 DEF LedgersOK, Ledger
    <2>2. /\ HoldReq(C, m) \in Nat /\ HoldReq(R, m) \in Nat
          /\ Price * HoldCost(C \cup R, m) \in Nat /\ Price * HoldCost(C, m) \in Nat
          /\ Cardinality({a \in R : job[a].cost # Never /\ job[a].consumed = m}) \in Nat
      BY <2>1, Counts
    <2>3. Settle(reqs[m], HoldReq(C, m), HoldReq(R, m)) \in LedgerRow
      BY <2>1, <2>2, SettleType
    <2>4. QED
      BY <2>1, <2>2, <2>3, UnchargeType, PayType
  <1>2. QED
    BY <1>1 DEF SettleReqs, SettleUsd, Ledger

LEMMA ReservedLedgers ==
  ASSUME NEW r, NEW q \in Ledger, NEW d \in Ledger, month \in Months
  PROVE  ReserveBoth(r, q, d).reqs \in Ledger /\ ReserveBoth(r, q, d).usd \in Ledger
  <1> DEFINE both == r.req = month /\ r.cost = month
             one  == ~both /\ (r.req = month \/ r.cost = month)
             back(ledger, held, units) ==
               [m \in Months |-> Settle(ledger[m], 0, IF one /\ held = m THEN units ELSE 0)]
             bq   == back(q, r.req, 1)
             bd   == back(d, r.cost, Price)
             q1   == [bq EXCEPT ![month].exists = TRUE]
             d1   == [bd EXCEPT ![month].exists = TRUE]
             q2   == Circuit(q1, Reserve(q1[month], 1))
             d2   == Circuit(d1, Reserve(d1[month], Price))
             plan == ReserveBoth(r, q, d)
  <1>1. bq \in Ledger /\ bd \in Ledger
    <2>1. ASSUME NEW led \in Ledger, NEW held, NEW units \in Nat PROVE back(led, held, units) \in Ledger
      <3>1. ASSUME NEW m \in Months PROVE Settle(led[m], 0, IF one /\ held = m THEN units ELSE 0) \in LedgerRow
        <4> DEFINE n == IF one /\ held = m THEN units ELSE 0
        <4>1. led[m] \in LedgerRow /\ n \in Nat /\ 0 \in Nat
          BY DEF Ledger
        <4> HIDE DEF n
        <4>2. Settle(led[m], 0, n) \in LedgerRow
          BY <4>1, SettleType
        <4>3. QED
          BY <4>2 DEF n
      <3>2. QED
        BY <3>1 DEF Ledger
    <2>2. QED
      BY <2>1, LimitAssumption
  <1>2. plan.reqs \in {q, q1, q2} /\ plan.usd \in {d, d1, d2}
    BY DEF ReserveBoth
  <1> HIDE DEF bq, bd, plan
  <1>3. q1 \in Ledger /\ d1 \in Ledger
    BY <1>1, CircuitType
  <1> HIDE DEF q1, d1
  <1>4. q2 \in Ledger /\ d2 \in Ledger
    <2>1. q1[month] \in LedgerRow /\ d1[month] \in LedgerRow /\ 1 \in Nat /\ Price \in Nat
      BY <1>3, LimitAssumption DEF Ledger
    <2>2. Reserve(q1[month], 1) \in LedgerRow /\ Reserve(d1[month], Price) \in LedgerRow
      BY <2>1, ReserveType
    <2>3. QED
      BY <1>3, <2>2, CircuitType
  <1>5. plan.reqs \in Ledger /\ plan.usd \in Ledger
    BY <1>2, <1>3, <1>4
  <1>6. QED
    BY <1>5 DEF plan

-----------------------------------------------------------------------------
(* Type correctness.                                                       *)

PhotosOK == /\ active \in [Assets -> BOOLEAN] /\ described \in [Assets -> BOOLEAN]
            /\ byok \in [Assets -> Claims \cup {None}]

JobsOK == job \in [Assets -> SoundRows]

UploadsOK ==
  /\ upload \in [Uploads -> UploadRow] /\ objects \subseteq Uploads
  /\ \A u \in Uploads : upload[u].status # "None" => upload[u].asset \in Assets

\* A worker at a step has a message, and a month to charge a call to.
Busy(w) ==
  /\ pc[w] # "Idle" => task[w] \in Messages
  /\ pc[w] = "Call" => charge[w] \in Months

WorkOK ==
  /\ month \in Months /\ queue \subseteq Messages
  /\ pc \in [Workers -> Steps] /\ task \in [Workers -> Messages \cup {None}]
  /\ claim \in [Workers -> Uploads \cup {None}] /\ fault \in [Workers -> Faults]
  /\ charge \in [Workers -> Spans] /\ calls \in [Months -> Nat]
  /\ \A w \in Workers : Busy(w)

TypeInv == PhotosOK /\ JobsOK /\ UploadsOK /\ LedgersOK /\ WorkOK

LEMMA TypeInvSound == TypeInv => LeasesSound
  BY DEF TypeInv, PhotosOK, JobsOK, UploadsOK, LedgersOK, WorkOK, Ledger, SoundRows, Spans, LeasesSound, TypeOK,
         CallsBelongToLeases

LEMMA Same ==
  /\ PhotosOK /\ UNCHANGED photo => PhotosOK'
  /\ JobsOK /\ UNCHANGED job => JobsOK'
  /\ UploadsOK /\ UNCHANGED <<upload, objects>> => UploadsOK'
  /\ LedgersOK /\ UNCHANGED ledgers => LedgersOK'
  /\ WorkOK /\ UNCHANGED <<month, queue, process, calls>> => WorkOK'
  BY DEF photo, ledgers, process, PhotosOK, JobsOK, UploadsOK, LedgersOK, WorkOK, Busy

LEMMA Names ==
  /\ {"None", "Preparing", "Queued", "Running", "DeferredQuota", "Succeeded", "Failed", "Cancelled"} \subseteq JobStatuses
  /\ {"None", "ProviderCircuitOpen", "Skipped", "Other"} \subseteq JobCodes
  BY DEF JobStatuses, JobCodes

LEMMA OneJob ==
  ASSUME JobsOK, NEW a \in Assets, NEW r \in SoundRows, job' = [job EXCEPT ![a] = r]
  PROVE  JobsOK'
  BY DEF JobsOK

LEMMA SentQueue ==
  ASSUME WorkOK, NEW S, Dispatch(S), UNCHANGED <<month, process, calls>>
  PROVE  WorkOK'
  <1>1. queue' \subseteq Messages
    BY DEF Dispatch, Sent, WorkOK
  <1>2. QED
    BY <1>1 DEF WorkOK, Busy, process

LEMMA StopType ==
  ASSUME JobsOK, LedgersOK, NEW S \in SUBSET Assets, NEW code \in JobCodes, StopJobs(S, code)
  PROVE  JobsOK' /\ LedgersOK'
  <1> DEFINE called == {a \in S : CallStarted(job[a])}
  <1>1. ASSUME NEW a \in Assets
        PROVE  Moved(SettledRow(job[a], a \in called), "Cancelled", code, Never) \in SoundRows
    <2>1. job[a] \in JobRow /\ (a \in called) \in BOOLEAN
      BY IdleSound DEF JobsOK
    <2>2. SettledRow(job[a], a \in called) \in IdleRows
      BY <2>1, IdleEdits
    <2>3. QED
      BY <2>2, IdleEdits, IdleSound, Names, Bounds
  <1>2. JobsOK'
    BY <1>1 DEF StopJobs, JobsOK
  <1>3. LedgersOK'
    <2>1. called \in SUBSET Assets /\ S \ called \in SUBSET Assets
      OBVIOUS
    <2>2. QED
      BY <2>1, SettledLedgers DEF StopJobs, LedgersOK
  <1>4. QED
    BY <1>2, <1>3

LEMMA StopUploadsType ==
  ASSUME UploadsOK, NEW a, StopUploads(a)
  PROVE  UploadsOK'
  BY DEF UploadsOK, StopUploads, UploadRow

LEMMA TypePhotos ==
  ASSUME TypeInv, NEW a \in Assets,
         \/ PrepareEnrichment(a) \/ CancelJob(a) \/ TrashAsset(a) \/ RestoreAsset(a) \/ ExpireLease(a)
         \/ \E c \in Claims : ClaimByok(a, c) \/ SaveByok(a, c)
  PROVE  TypeInv'
  <1>0. job[a] \in SoundRows /\ job[a] \in JobRow
    BY IdleSound DEF TypeInv, JobsOK
  <1>1. CASE PrepareEnrichment(a)
    <2> DEFINE r == [NoJob EXCEPT !.status = "Preparing", !.attempts = job[a].attempts]
    <2>1. r \in SoundRows
      BY <1>0, EmptyRow, JobRowIs, Names DEF SoundRows, CallStarted
    <2> HIDE DEF r
    <2>2. job' = [job EXCEPT ![a] = r]
      BY <1>1 DEF PrepareEnrichment, r
    <2>3. QED
      BY <1>1, <2>1, <2>2, OneJob, Same DEF PrepareEnrichment, TypeInv
  <1>2. CASE CancelJob(a)
    <2>1. JobsOK' /\ LedgersOK' /\ UploadsOK'
      BY <1>2, StopType, StopUploadsType, Names DEF CancelJob, TypeInv
    <2>2. QED
      BY <1>2, <2>1, Same DEF CancelJob, TypeInv
  <1>3. CASE TrashAsset(a)
    <2>1. {b \in {a} : job[b].status \in {"Preparing", "Queued", "Running", "DeferredQuota"}} \in SUBSET Assets
      OBVIOUS
    <2>2. JobsOK' /\ LedgersOK' /\ UploadsOK'
      BY <1>3, <2>1, StopType, StopUploadsType, Names DEF TrashAsset, TypeInv
    <2>3. PhotosOK'
      BY <1>3 DEF TrashAsset, TypeInv, PhotosOK
    <2>4. QED
      BY <1>3, <2>2, <2>3, Same DEF TrashAsset, TypeInv
  <1>4. CASE RestoreAsset(a)
    <2>1. PhotosOK'
      BY <1>4 DEF RestoreAsset, TypeInv, PhotosOK
    <2>2. QED
      BY <1>4, <2>1, Same DEF RestoreAsset, TypeInv
  <1>5. CASE ExpireLease(a)
    <2> DEFINE r == [job[a] EXCEPT !.live = FALSE]
    <2>1. r \in SoundRows
      BY <1>0, EditedRow DEF SoundRows, CallStarted
    <2> HIDE DEF r
    <2>2. job' = [job EXCEPT ![a] = r]
      BY <1>5 DEF ExpireLease, r
    <2>3. QED
      BY <1>5, <2>1, <2>2, OneJob, Same DEF ExpireLease, TypeInv
  <1>6. ASSUME NEW c \in Claims, ClaimByok(a, c) PROVE TypeInv'
    <2>1. PhotosOK'
      BY <1>6 DEF ClaimByok, TypeInv, PhotosOK
    <2>2. QED
      BY <1>6, <2>1, Same DEF ClaimByok, TypeInv
  <1>7. ASSUME NEW c \in Claims, SaveByok(a, c) PROVE TypeInv'
    <2> DEFINE r == [job[a] EXCEPT !.status = "Succeeded", !.due = Never]
    <2>1. ~CallStarted(job[a])
      BY <1>0, <1>7 DEF SaveByok, SoundRows
    <2>2. r \in SoundRows
      BY <1>0, <2>1, JobRowIs, Names, Bounds DEF SoundRows, CallStarted
    <2>3. PhotosOK'
      BY <1>7 DEF SaveByok, TypeInv, PhotosOK
    <2> HIDE DEF r
    <2>4. job' = [job EXCEPT ![a] = r]
      BY <1>7 DEF SaveByok, r
    <2>5. QED
      BY <1>7, <2>2, <2>3, <2>4, OneJob, Same DEF SaveByok, TypeInv
  <1>8. QED
    BY <1>1, <1>2, <1>3, <1>4, <1>5, <1>6, <1>7

LEMMA TypePlan ==
  ASSUME TypeInv, NEW a \in Assets, NEW u \in Uploads, CreateUploadPlan(a, u)
  PROVE  TypeInv'
  <1> DEFINE due   == job[a].status = "DeferredQuota" /\ job[a].due \in 1..month
             stale == {v \in Uploads : Uploading(v) /\ upload[v].late}
             held  == \E v \in Uploads \ stale : Uploading(v) /\ upload[v].asset = a
             back  == {b \in Assets : \/ b = a /\ due
                                      \/ /\ job[b].status = "Preparing" \/ b = a
                                         /\ \E v \in stale : upload[v].asset = b}
             base  == [b \in Assets |-> IF b \in back THEN ReturnedRow(job[b]) ELSE job[b]]
             start == IF due THEN [base[a] EXCEPT !.status = "Preparing", !.code = "None",
                                                  !.attempts = 0, !.due = Never]
                             ELSE base[a]
             plan  == ReserveBoth(start, ReturnReqs(back), ReturnUsd(back))
             gone  == [v \in Uploads |-> IF v \in stale
                                         THEN [upload[v] EXCEPT !.status = "Expired"]
                                         ELSE upload[v]]
             deferred == Moved(plan.row, "DeferredQuota",
                           IF plan.row.blocked THEN "ProviderCircuitOpen" ELSE "Other", month + 1)
  <1>1. /\ due \/ job[a].status = "Preparing"
        /\ objects' = objects \ stale
        /\ \/ /\ job' = [base EXCEPT ![a] = start]
              /\ reqs' = ReturnReqs(back) /\ usd' = ReturnUsd(back)
              /\ upload' = gone
           \/ /\ reqs' = plan.reqs /\ usd' = plan.usd
              /\ job' = [base EXCEPT ![a] = plan.row]
              /\ upload' = [gone EXCEPT ![u] = [asset |-> a, late |-> FALSE, status |-> "Uploading"]]
           \/ /\ reqs' = plan.reqs /\ usd' = plan.usd
              /\ job' = [base EXCEPT ![a] = deferred]
              /\ upload' = gone
        /\ UNCHANGED <<photo, month, queue, process, calls>>
    BY DEF CreateUploadPlan
  <1>2. back \in SUBSET Assets /\ LedgersOK /\ month \in Months
    BY DEF TypeInv, WorkOK
  <1>3. ReturnReqs(back) \in Ledger /\ ReturnUsd(back) \in Ledger
    BY <1>2, ReturnedLedgers
  <1>4. base \in [Assets -> SoundRows] /\ base[a].status = job[a].status
    <2>1. ASSUME NEW b \in Assets
          PROVE  ReturnedRow(job[b]) \in SoundRows /\ job[b] \in SoundRows /\ ReturnedRow(job[b]).status = job[b].status
      BY IdleEdits, IdleSound, ReturnedOne DEF TypeInv, JobsOK
    <2>2. QED
      BY <2>1
  <1>5. start \in IdleRows
    <2>1. base[a] \in JobRow /\ base[a] \in IdleRows
      BY <1>1, <1>4, SoundRow, IdleSound
    <2> DEFINE r == base[a]
    <2> HIDE DEF r
    <2>2. r \in IdleRows => [r EXCEPT !.status = "Preparing", !.code = "None", !.attempts = 0, !.due = Never] \in IdleRows
      BY JobRowIs, Names, Bounds DEF IdleRows, CallStarted
    <2>3. QED
      BY <2>1, <2>2 DEF r
  <1> HIDE DEF due, base, start, back
  <1>6. plan.row \in IdleRows /\ plan.reqs \in Ledger /\ plan.usd \in Ledger
    <2>1. start \in JobRow
      BY <1>5, IdleSound
    <2>2. /\ plan.row \in JobRow
          /\ \/ plan.row.req = month /\ plan.row.cost = month
             \/ plan.row.req = Never /\ plan.row.cost = Never
             \/ plan.row.req = start.req /\ plan.row.cost = start.cost
      BY <1>2, <2>1, ReservedOne
    <2>3. plan.reqs \in Ledger /\ plan.usd \in Ledger
      BY <1>2, <1>3, ReservedLedgers
    <2> HIDE DEF plan
    <2>4. QED
      BY <1>2, <1>5, <2>2, <2>3, Bounds DEF IdleRows, CallStarted
  <1> HIDE DEF plan
  <1>7. deferred \in IdleRows
    BY <1>2, <1>6, IdleEdits, Names, Bounds
  <1> HIDE DEF deferred
  <1>8. JobsOK'
    BY <1>1, <1>4, <1>5, <1>6, <1>7, IdleSound DEF JobsOK
  <1>9. LedgersOK'
    BY <1>1, <1>3, <1>6 DEF LedgersOK
  <1>10. UploadsOK'
    <2>1. gone \in [Uploads -> UploadRow] /\ \A v \in Uploads : gone[v].status # "None" => gone[v].asset \in Assets
      BY DEF TypeInv, UploadsOK, UploadRow, Uploading
    <2> HIDE DEF gone
    <2>2. upload' = gone \/ upload' = [gone EXCEPT ![u] = [asset |-> a, late |-> FALSE, status |-> "Uploading"]]
      BY <1>1
    <2>3. [asset |-> a, late |-> FALSE, status |-> "Uploading"] \in UploadRow
      BY DEF UploadRow
    <2> DEFINE row == [asset |-> a, late |-> FALSE, status |-> "Uploading"]
    <2>4. row.asset = a
      OBVIOUS
    <2>5. row \in UploadRow /\ (upload' = gone \/ upload' = [gone EXCEPT ![u] = row])
      BY <2>2, <2>3
    <2> HIDE DEF row
    <2>6. objects' \subseteq Uploads
      BY <1>1 DEF UploadsOK, TypeInv
    <2>7. upload' \in [Uploads -> UploadRow] /\ \A v \in Uploads : upload'[v].status # "None" => upload'[v].asset \in Assets
      BY <2>1, <2>4, <2>5
    <2>8. QED
      BY <2>6, <2>7 DEF UploadsOK
  <1>11. QED
    BY <1>1, <1>8, <1>9, <1>10, Same DEF TypeInv

LEMMA TypeUploads ==
  ASSUME TypeInv, NEW u \in Uploads,
         \/ PutObject(u) \/ GetUploadSession(u) \/ CompleteUpload(u) \/ CancelUpload(u) \/ ExpireUpload(u)
  PROVE  TypeInv'
  <1> DEFINE a == upload[u].asset
  <1>0. /\ upload[u] \in UploadRow /\ (upload[u].status # "None" => a \in Assets)
        /\ \A b \in Assets : job[b] \in SoundRows /\ job[b] \in JobRow
    BY IdleSound DEF TypeInv, UploadsOK, JobsOK
  <1>1. ASSUME NEW s \in {"None", "Uploading", "Completed", "Expired", "Cancelled"},
               upload[u].status # "None", upload' = [upload EXCEPT ![u].status = s],
               objects' \in SUBSET Uploads
        PROVE  UploadsOK'
    BY <1>1 DEF TypeInv, UploadsOK, UploadRow
  <1>2. CASE PutObject(u)
    <2>1. UploadsOK'
      BY <1>2 DEF PutObject, TypeInv, UploadsOK
    <2>2. QED
      BY <1>2, <2>1, Same DEF PutObject, TypeInv
  <1>3. CASE GetUploadSession(u)
    <2> DEFINE S == {b \in {a} : job[b].status = "Preparing"}
    <2>1. /\ upload' = [upload EXCEPT ![u].status = "Expired"] /\ objects' = objects \ {u}
          /\ job' = [b \in Assets |-> IF b \in S THEN ReturnedRow(job[b]) ELSE job[b]]
          /\ reqs' = ReturnReqs(S) /\ usd' = ReturnUsd(S)
          /\ UNCHANGED <<photo, month, queue, process, calls>> /\ upload[u].status # "None"
      BY <1>3 DEF GetUploadSession, Uploading
    <2>2. S \in SUBSET Assets
      BY <1>0, <2>1
    <2> HIDE DEF S
    <2>3. LedgersOK'
      BY <2>1, <2>2, ReturnedLedgers DEF TypeInv, LedgersOK
    <2>4. JobsOK'
      BY <1>0, <2>1, IdleEdits, IdleSound DEF JobsOK
    <2>5. UploadsOK'
      BY <1>1, <2>1 DEF TypeInv, UploadsOK
    <2>6. QED
      BY <2>1, <2>3, <2>4, <2>5, Same DEF TypeInv
  <1>4. CASE CompleteUpload(u)
    <2> DEFINE r == [Moved(job[a], "Queued", "None", month) EXCEPT !.staged = u]
    <2>1. /\ upload' = [upload EXCEPT ![u].status = "Completed"] /\ job[a].status = "Preparing"
          /\ job' = [job EXCEPT ![a] = r] /\ Dispatch({a})
          /\ UNCHANGED <<photo, objects, ledgers, month, process, calls>> /\ upload[u].status # "None"
      BY <1>4 DEF CompleteUpload, Uploading
    <2>2. a \in Assets /\ job[a] \in IdleRows /\ month \in Dues
      BY <1>0, <2>1, SoundRow, Bounds DEF TypeInv, WorkOK
    <2>3. Moved(job[a], "Queued", "None", month) \in IdleRows
      BY <2>2, IdleEdits, Names
    <2>4. r \in SoundRows
      BY <2>3, IdleFields, IdleSound
    <2> HIDE DEF r
    <2>5. JobsOK'
      BY <2>1, <2>2, <2>4, OneJob DEF TypeInv
    <2>6. UploadsOK'
      BY <1>1, <2>1 DEF TypeInv, UploadsOK
    <2>7. WorkOK'
      BY <2>1, SentQueue DEF TypeInv
    <2>8. QED
      BY <2>1, <2>5, <2>6, <2>7, Same DEF TypeInv
  <1>5. CASE CancelUpload(u)
    <2> DEFINE r == [Unstaged(ReturnedRow(job[a])) EXCEPT !.due = Never]
    <2>1. /\ upload' = [upload EXCEPT ![u].status = "Cancelled"] /\ objects' = objects \ {u}
          /\ job' = [job EXCEPT ![a] = r] /\ reqs' = ReturnReqs({a}) /\ usd' = ReturnUsd({a})
          /\ UNCHANGED <<photo, month, queue, process, calls>> /\ upload[u].status # "None"
      BY <1>5 DEF CancelUpload
    <2>2. a \in Assets /\ {a} \in SUBSET Assets
      BY <1>0, <2>1
    <2>3. Unstaged(ReturnedRow(job[a])) \in IdleRows
      BY <1>0, <2>2, IdleEdits
    <2>4. r \in SoundRows
      BY <2>3, IdleFields, IdleSound, Bounds
    <2> HIDE DEF r
    <2>5. JobsOK'
      BY <2>1, <2>2, <2>4, OneJob DEF TypeInv
    <2>6. LedgersOK'
      BY <2>1, <2>2, ReturnedLedgers DEF TypeInv, LedgersOK
    <2>7. UploadsOK'
      BY <1>1, <2>1 DEF TypeInv, UploadsOK
    <2>8. QED
      BY <2>1, <2>5, <2>6, <2>7, Same DEF TypeInv
  <1>6. CASE ExpireUpload(u)
    <2>1. UploadsOK'
      BY <1>6 DEF ExpireUpload, TypeInv, UploadsOK, UploadRow
    <2>2. QED
      BY <1>6, <2>1, Same DEF ExpireUpload, TypeInv
  <1>7. QED
    BY <1>2, <1>3, <1>4, <1>5, <1>6

LEMMA TypeRetry ==
  ASSUME TypeInv, NEW a \in Assets, RetryJob(a)
  PROVE  TypeInv'
  <1> DEFINE open == byok[a] = None /\ reqs[month].open
             recovered == {b \in Assets \ {a} : /\ open
                                                /\ job[b].status = "DeferredQuota"
                                                /\ job[b].code = "ProviderCircuitOpen"}
             mine(b) == [Moved(Unstaged(ReturnedRow(job[b])), "Preparing", "None", Never) EXCEPT
                           !.attempts = IF job[b].status = "DeferredQuota" THEN 0 ELSE @]
             other(b) == [Moved(Unstaged(job[b]), "Preparing", "None", Never) EXCEPT
                            !.attempts = 0, !.blocked = FALSE]
             closed == IF open THEN FALSE ELSE ReturnReqs({a})[month].open
  <1>0. \A b \in Assets : job[b] \in SoundRows /\ job[b] \in JobRow
    BY IdleSound DEF TypeInv, JobsOK
  <1>1. /\ reqs' = [ReturnReqs({a}) EXCEPT ![month].open = closed] /\ usd' = ReturnUsd({a})
        /\ job' = [b \in Assets |-> IF b = a THEN mine(b) ELSE IF b \in recovered THEN other(b) ELSE job[b]]
        /\ UNCHANGED <<photo, upload, objects, month, queue, process, calls>>
    BY DEF RetryJob
  <1>2. ReturnReqs({a}) \in Ledger /\ ReturnUsd({a}) \in Ledger
    BY ReturnedLedgers DEF TypeInv
  <1>3. closed \in BOOLEAN
    BY <1>2 DEF Ledger, LedgerRow, TypeInv, LedgersOK, WorkOK
  <1> HIDE DEF closed
  <1>4. LedgersOK'
    BY <1>1, <1>2, <1>3, CircuitType DEF LedgersOK
  <1>5. ASSUME NEW b \in Assets PROVE mine(b) \in SoundRows
    <2> DEFINE r == Moved(Unstaged(ReturnedRow(job[b])), "Preparing", "None", Never)
               n == IF job[b].status = "DeferredQuota" THEN 0 ELSE r.attempts
    <2>1. r \in IdleRows
      BY <1>0, IdleEdits, Names, Bounds
    <2>2. mine(b) = [r EXCEPT !.attempts = n]
      OBVIOUS
    <2>3. n \in 0..MaxAttempts
      <3> HIDE DEF r
      <3>1. r.attempts \in 0..MaxAttempts
        BY <2>1, JobRowIs DEF IdleRows
      <3>2. QED
        BY <3>1, Bounds
    <2> HIDE DEF r, n
    <2>4. [r EXCEPT !.attempts = n] \in SoundRows
      BY <2>1, <2>3, IdleFields, IdleSound
    <2>5. QED
      BY <2>2, <2>4
  <1>6. ASSUME NEW b \in recovered PROVE other(b) \in SoundRows
    <2> DEFINE r == Moved(Unstaged(job[b]), "Preparing", "None", Never)
    <2>1. job[b] \in IdleRows
      BY <1>0, SoundRow
    <2>2. r \in IdleRows
      BY <2>1, IdleEdits, Names, Bounds
    <2> HIDE DEF r
    <2>3. [r EXCEPT !.attempts = 0, !.blocked = FALSE] \in IdleRows
      BY <2>2, JobRowIs, Bounds DEF IdleRows, CallStarted
    <2>4. QED
      BY <2>3, IdleSound DEF r
  <1> HIDE DEF mine, other, recovered
  <1>7. JobsOK'
    BY <1>0, <1>1, <1>5, <1>6 DEF JobsOK
  <1>8. QED
    BY <1>1, <1>4, <1>7, Same DEF TypeInv

LEMMA TypeSweep ==
  ASSUME TypeInv, NEW old \in SUBSET DueQueued, NEW batch, Sweep(old, batch)
  PROVE  TypeInv'
  <1> DEFINE called    == {a \in AllExpired : CallStarted(job[a])}
             uncalled  == AllExpired \ called
             exhausted == {a \in old \cup AllExpired : Exhausted(a)}
             requeued  == (old \cup AllExpired) \ exhausted
             row(a)    == IF a \in AllExpired THEN SettledRow(job[a], a \in called) ELSE job[a]
             back(a)   == [Moved(Unstaged(ReturnedRow(job[a])), "Preparing", "None", Never) EXCEPT !.attempts = 0]
             returned(settled, units) == [m \in Months |-> Settle(settled[m], 0, units[m])]
  <1>0. /\ \A a \in Assets : job[a] \in SoundRows /\ job[a] \in JobRow
        /\ AllExpired \in SUBSET Assets /\ DueDeferred \in SUBSET Assets /\ old \in SUBSET Assets
        /\ month \in Dues /\ LedgersOK
    BY IdleSound, Bounds DEF TypeInv, JobsOK, WorkOK, AllExpired, DueDeferred, DueQueued
  <1>1. /\ reqs' = returned(SettleReqs(called, uncalled), [m \in Months |-> HoldReq(DueDeferred, m)])
        /\ usd' = returned(SettleUsd(called, uncalled), [m \in Months |-> Price * HoldCost(DueDeferred, m)])
        /\ job' = [a \in Assets |->
             IF a \in exhausted THEN Moved(row(a), "Failed", "Other", Never)
             ELSE IF a \in requeued THEN Moved(row(a), "Queued", "None", month)
             ELSE IF a \in DueDeferred THEN back(a)
             ELSE job[a]]
        /\ Sent(requeued, batch)
        /\ UNCHANGED <<photo, upload, objects, month, process, calls>>
    BY DEF Sweep
  <1>2. LedgersOK'
    <2>1. ASSUME NEW led \in Ledger, NEW units \in [Months -> Nat] PROVE returned(led, units) \in Ledger
      <3>1. ASSUME NEW m \in Months PROVE Settle(led[m], 0, units[m]) \in LedgerRow
        BY <2>1, <3>1, SettleType DEF Ledger
      <3>2. QED
        BY <3>1 DEF Ledger
    <2>2. SettleReqs(called, uncalled) \in Ledger /\ SettleUsd(called, uncalled) \in Ledger
      BY <1>0, SettledLedgers
    <2>3. /\ [m \in Months |-> HoldReq(DueDeferred, m)] \in [Months -> Nat]
          /\ [m \in Months |-> Price * HoldCost(DueDeferred, m)] \in [Months -> Nat]
      BY <1>0, Counts
    <2> HIDE DEF returned, called, uncalled
    <2>4. QED
      BY <1>1, <2>1, <2>2, <2>3 DEF LedgersOK
  <1>3. ASSUME NEW a \in old \cup AllExpired PROVE row(a) \in IdleRows
    <2>1. CASE a \in AllExpired
      <3>1. job[a] \in JobRow /\ (a \in called) \in BOOLEAN
        BY <1>0, <2>1
      <3> HIDE DEF called
      <3>2. SettledRow(job[a], a \in called) \in IdleRows
        BY <3>1, IdleEdits
      <3>3. QED
        BY <2>1, <3>2
    <2>2. CASE a \notin AllExpired
      BY <1>0, <2>2, SoundRow DEF DueQueued
    <2>3. QED
      BY <2>1, <2>2
  <1>4. ASSUME NEW a \in Assets PROVE back(a) \in SoundRows
    <2> DEFINE r == Moved(Unstaged(ReturnedRow(job[a])), "Preparing", "None", Never)
    <2>1. r \in IdleRows
      BY <1>0, IdleEdits, Names, Bounds
    <2> HIDE DEF r
    <2>2. [r EXCEPT !.attempts = 0] \in SoundRows
      BY <2>1, IdleFields, IdleSound, Bounds
    <2>3. QED
      BY <2>2 DEF r
  <1> HIDE DEF row, back
  <1>5. JobsOK'
    <2>1. ASSUME NEW a \in old \cup AllExpired
          PROVE  Moved(row(a), "Failed", "Other", Never) \in SoundRows /\ Moved(row(a), "Queued", "None", month) \in SoundRows
      BY <1>0, <1>3, IdleEdits, IdleSound, Names, Bounds
    <2>2. QED
      BY <1>0, <1>1, <1>4, <2>1 DEF JobsOK
  <1>6. WorkOK'
    <2>1. queue' \subseteq Messages
      BY <1>1 DEF Sent, TypeInv, WorkOK
    <2>2. QED
      BY <1>1, <2>1 DEF TypeInv, WorkOK, Busy, process
  <1>7. QED
    BY <1>1, <1>2, <1>5, <1>6, Same DEF TypeInv

LEMMA TypeTime ==
  ASSUME TypeInv, AdvanceMonth
  PROVE  TypeInv'
  <1>1. month' \in Months
    BY LimitAssumption DEF TypeInv, WorkOK, AdvanceMonth, Months
  <1>2. WorkOK'
    BY <1>1 DEF TypeInv, WorkOK, AdvanceMonth, process, Busy
  <1>3. QED
    BY <1>2, Same DEF TypeInv, AdvanceMonth

\* The worker's own variables after a step that keeps its message.
LEMMA Stepped ==
  ASSUME WorkOK, NEW w \in Workers, pc[w] # "Idle", NEW step \in Steps, Goto(w, step),
         fault' \in [Workers -> Faults], calls' \in [Months -> Nat], charge' \in [Workers -> Spans],
         \A v \in Workers : v # w => charge'[v] = charge[v],
         step = "Call" => charge'[w] \in Months,
         UNCHANGED <<month, queue, task, claim>>
  PROVE  WorkOK'
  BY DEF WorkOK, Goto, Busy

LEMMA ReportType ==
  ASSUME WorkOK, NEW w \in Workers, NEW kind \in Kinds, NEW called \in BOOLEAN, Report(w, kind, called)
  PROVE  fault' \in [Workers -> Faults] /\ \E step \in {"Defer", "Fail"} : Goto(w, step)
  BY DEF WorkOK, Report, Faults

LEMMA NoFaultType ==
  ASSUME WorkOK, NEW w \in Workers, NoMoreFault(w)
  PROVE  fault' \in [Workers -> Faults]
  BY DEF WorkOK, NoMoreFault, NoFault, Faults, Kinds

LEMMA NotClaimedType ==
  ASSUME TypeInv, NEW w \in Workers, pc[w] # "Idle", NotClaimed(w)
  PROVE  TypeInv'
  <1>1. WorkOK'
    BY NoFaultType, Stepped DEF TypeInv, NotClaimed, WorkOK, Steps
  <1>2. QED
    BY <1>1, Same DEF TypeInv, NotClaimed

\* What a worker that holds the lease knows.
LEMMA ClaimedJob ==
  ASSUME TypeInv, NEW w \in Workers, pc[w] # "Idle"
  PROVE  LET a == task[w][1] IN
         /\ task[w] \in Messages /\ a \in Assets /\ {a} \in SUBSET Assets /\ {} \in SUBSET Assets
         /\ job[a] \in SoundRows /\ job[a] \in JobRow
         /\ Claimed(w) => job[a].status = "Running"
  BY IdleSound DEF TypeInv, WorkOK, Busy, JobsOK, Messages, Claimed, HasLease

LEMMA TypeClaim ==
  ASSUME TypeInv, NEW w \in Workers, NEW msg \in Messages, Claim(w, msg)
  PROVE  TypeInv'
  <1> DEFINE a == msg[1]
             row == job[a]
             charged == Expired(a) /\ CallStarted(row)
             settled == IF charged THEN SettledRow(row, TRUE) ELSE row
             failed == [ReturnedRow(row) EXCEPT !.status = "Failed", !.code = "Other"]
             running == [settled EXCEPT !.status = "Running", !.code = "None", !.attempts = row.attempts + 1,
                                        !.lease = msg[2], !.live = TRUE]
  <1>0. /\ a \in Assets /\ {a} \in SUBSET Assets /\ {} \in SUBSET Assets /\ msg[2] \in MessageIds
        /\ row \in SoundRows /\ row \in JobRow /\ LedgersOK
    BY IdleSound DEF Messages, TypeInv, JobsOK
  <1>1. ReturnReqs({a}) \in Ledger /\ ReturnUsd({a}) \in Ledger /\ SettleUsd({a}, {}) \in Ledger
    BY <1>0, ReturnedLedgers, SettledLedgers
  <1>2. settled \in SoundRows /\ settled \in JobRow
    BY <1>0, IdleEdits, IdleSound
  <1>3. failed \in SoundRows
    <2> DEFINE r == ReturnedRow(row)
    <2>1. r \in IdleRows
      BY <1>0, IdleEdits
    <2> HIDE DEF r
    <2>2. [r EXCEPT !.status = "Failed", !.code = "Other"] \in IdleRows
      BY <2>1, JobRowIs, Names DEF IdleRows, CallStarted
    <2>3. QED
      BY <2>2, IdleSound DEF r
  <1>4. ASSUME ~Exhausted(a) PROVE running \in SoundRows
    <2>1. row.attempts + 1 \in 0..MaxAttempts
      BY <1>0, <1>4, LimitAssumption, JobRowIs DEF Exhausted
    <2> DEFINE k == row.attempts + 1
               id == msg[2]
    <2> HIDE DEF k, id, settled
    <2>2. [settled EXCEPT !.status = "Running", !.code = "None", !.attempts = k, !.lease = id, !.live = TRUE] \in SoundRows
      BY <1>0, <1>2, <2>1, JobRowIs, Names DEF SoundRows, k, id
    <2>3. QED
      BY <2>2 DEF k, id
  <1>5. ASSUME NEW s \in JobStatuses, NEW c \in JobCodes
        PROVE  ReturnedRow(Moved(row, s, c, Never)) \in SoundRows
    BY <1>0, MovedRow, IdleEdits, IdleSound, Bounds
  <1>6. /\ pc[w] = "Idle" /\ queue' = queue \ {msg} /\ task' = [task EXCEPT ![w] = msg]
        /\ UNCHANGED <<photo, upload, objects, month, fault, charge, calls>>
        /\ \/ /\ \E s \in {"Failed", "Cancelled", "Succeeded"}, c \in {"Other", "None"} :
                   job' = [job EXCEPT ![a] = ReturnedRow(Moved(row, s, c, Never))]
              /\ reqs' = ReturnReqs({a}) /\ usd' = ReturnUsd({a})
              /\ Goto(w, "Ack") /\ UNCHANGED claim
           \/ /\ claim' = [claim EXCEPT ![w] = row.staged] /\ Goto(w, "Presign")
              /\ UNCHANGED <<job, ledgers>>
           \/ /\ job' = [job EXCEPT ![a] = settled] /\ reqs' = reqs /\ usd' \in {usd, SettleUsd({a}, {})}
              /\ Goto(w, "Ack") /\ UNCHANGED claim
           \/ /\ job' = [job EXCEPT ![a] = failed]
              /\ reqs' \in {reqs, ReturnReqs({a})} /\ usd' \in {usd, SettleUsd({a}, {}), ReturnUsd({a})}
              /\ Goto(w, "Ack") /\ UNCHANGED claim
           \/ /\ ~Exhausted(a) /\ job' = [job EXCEPT ![a] = running]
              /\ reqs' = reqs /\ usd' \in {usd, SettleUsd({a}, {})}
              /\ claim' = [claim EXCEPT ![w] = row.staged] /\ Goto(w, "Presign")
    BY DEF Claim, ledgers
  <1> HIDE DEF settled, failed, running
  <1>7. JobsOK'
    <2>1. CASE UNCHANGED job
      BY <2>1, Same DEF TypeInv
    <2>2. ASSUME NEW r \in SoundRows, job' = [job EXCEPT ![a] = r] PROVE JobsOK'
      BY <1>0, <2>2, OneJob DEF TypeInv
    <2>3. \/ UNCHANGED job
          \/ \E r \in SoundRows : job' = [job EXCEPT ![a] = r]
      BY <1>2, <1>3, <1>4, <1>5, <1>6, Names
    <2>4. QED
      BY <2>1, <2>2, <2>3
  <1>8. LedgersOK'
    BY <1>0, <1>1, <1>6 DEF LedgersOK, ledgers
  <1>9. WorkOK'
    <2>1. row.staged \in Uploads \cup {None}
      BY <1>0, JobRowIs
    <2>2. /\ \E step \in {"Ack", "Presign"} : pc' = [pc EXCEPT ![w] = step]
          /\ \E u \in Uploads \cup {None} : claim' \in {claim, [claim EXCEPT ![w] = u]}
          /\ queue' = queue \ {msg} /\ task' = [task EXCEPT ![w] = msg] /\ UNCHANGED <<month, fault, charge, calls>>
      <3>1. \E step \in {"Ack", "Presign"} : pc' = [pc EXCEPT ![w] = step]
        BY <1>6 DEF Goto
      <3>2. claim' \in {claim, [claim EXCEPT ![w] = row.staged]}
        BY <1>6
      <3>3. QED
        BY <1>6, <2>1, <3>1, <3>2
    <2>3. WorkOK
      BY DEF TypeInv
    <2> HIDE DEF row, a
    <2>4. QED
      BY <2>2, <2>3 DEF WorkOK, Busy, Steps
  <1>10. QED
    BY <1>6, <1>7, <1>8, <1>9, Same DEF TypeInv

LEMMA TypeQuiet ==
  ASSUME TypeInv, NEW w \in Workers, Presign(w) \/ CallProvider(w) \/ Clean(w)
  PROVE  TypeInv'
  <1>0. WorkOK
    BY DEF TypeInv
  <1>1. CASE Presign(w)
    <2>1. fault' \in [Workers -> Faults] /\ \E step \in {"Reserve", "Defer", "Fail"} : Goto(w, step)
      <3>1. CASE Goto(w, "Reserve") /\ UNCHANGED fault
        BY <1>0, <3>1 DEF WorkOK
      <3>2. CASE \E kind \in {"Transient", "Auth", "Internal"} : Report(w, kind, FALSE)
        BY <1>0, <3>2, ReportType DEF Kinds
      <3>3. QED
        BY <1>1, <3>1, <3>2 DEF Presign
    <2>2. WorkOK'
      BY <1>0, <1>1, <2>1, Stepped DEF Presign, Steps, WorkOK
    <2>3. QED
      BY <1>1, <2>2, Same DEF Presign, TypeInv
  <1>2. CASE CallProvider(w)
    <2>1. charge[w] \in Months /\ pc[w] = "Call"
      BY <1>0, <1>2 DEF CallProvider, WorkOK, Busy
    <2>2. fault' \in [Workers -> Faults] /\ \E step \in {"Complete", "Defer", "Fail"} : Goto(w, step)
      <3>1. CASE Goto(w, "Complete") /\ UNCHANGED fault
        BY <1>0, <3>1 DEF WorkOK
      <3>2. CASE \E kind \in Kinds, called \in BOOLEAN : Report(w, kind, called)
        BY <1>0, <3>2, ReportType
      <3>3. QED
        BY <1>2, <3>1, <3>2 DEF CallProvider, Kinds
    <2>3. calls' \in [Months -> Nat] /\ charge' \in [Workers -> Spans]
      <3>1. charge' \in [Workers -> Spans]
        BY <1>0, <1>2 DEF CallProvider, WorkOK, Spans
      <3>2. calls' = [calls EXCEPT ![charge[w]] = @ + 1] \/ UNCHANGED calls
        BY <1>2 DEF CallProvider
      <3>3. calls' \in [Months -> Nat]
        BY <1>0, <2>1, <3>2 DEF WorkOK
      <3>4. QED
        BY <3>1, <3>3
    <2>4. \A v \in Workers : v # w => charge'[v] = charge[v]
      BY <1>0, <1>2 DEF CallProvider, WorkOK
    <2>5. WorkOK'
      BY <1>0, <1>2, <2>1, <2>2, <2>3, <2>4, Stepped DEF CallProvider, Steps
    <2>6. QED
      BY <1>2, <2>5, Same DEF CallProvider, TypeInv
  <1>3. CASE Clean(w)
    <2>1. WorkOK'
      BY <1>0, <1>3, Stepped DEF Clean, Steps, WorkOK
    <2>2. UploadsOK'
      BY <1>3 DEF Clean, TypeInv, UploadsOK
    <2>3. QED
      BY <1>3, <2>1, <2>2, Same DEF Clean, TypeInv
  <1>4. QED
    BY <1>1, <1>2, <1>3

LEMMA TypeReserve ==
  ASSUME TypeInv, NEW w \in Workers, ReserveCall(w)
  PROVE  TypeInv'
  <1> DEFINE a == task[w][1]
             plan == ReserveBoth(job[a], reqs, usd)
  <1>0. WorkOK /\ LedgersOK /\ month \in Months /\ pc[w] # "Idle"
    BY DEF TypeInv, WorkOK, ReserveCall
  <1>1. /\ a \in Assets /\ job[a] \in JobRow /\ (Claimed(w) => job[a].status = "Running")
    BY <1>0, ClaimedJob
  <1>2. /\ \/ Report(w, "Quota", FALSE)
           \/ Goto(w, "Consume") /\ UNCHANGED fault
        /\ \/ UNCHANGED <<job, ledgers>>
           \/ Claimed(w) /\ job' = [job EXCEPT ![a] = plan.row] /\ reqs' = plan.reqs /\ usd' = plan.usd
        /\ UNCHANGED <<photo, upload, objects, month, queue, task, claim, charge, calls>>
    <2> DEFINE granted == plan.granted
    <2>1. /\ \/ /\ Report(w, "Quota", FALSE)
                /\ UNCHANGED <<job, ledgers>>
             \/ /\ Claimed(w) /\ job' = [job EXCEPT ![a] = plan.row] /\ reqs' = plan.reqs /\ usd' = plan.usd
                /\ IF granted THEN Goto(w, "Consume") /\ UNCHANGED fault ELSE Report(w, "Quota", FALSE)
          /\ UNCHANGED <<photo, upload, objects, month, queue, task, claim, charge, calls>>
      BY Zenon DEF ReserveCall
    <2> HIDE DEF granted, plan, a
    <2>2. QED
      BY <2>1
  <1>3. plan.row \in JobRow /\ plan.row.status = job[a].status /\ plan.reqs \in Ledger /\ plan.usd \in Ledger
    BY <1>0, <1>1, ReservedOne, ReservedLedgers DEF LedgersOK
  <1> HIDE DEF plan
  <1>4. JobsOK'
    <2>1. CASE UNCHANGED job
      BY <2>1, Same DEF TypeInv
    <2>2. CASE Claimed(w) /\ job' = [job EXCEPT ![a] = plan.row]
      <3>1. plan.row \in SoundRows
        BY <1>1, <1>3, <2>2 DEF SoundRows
      <3>2. QED
        BY <1>1, <2>2, <3>1, OneJob DEF TypeInv
    <2>3. QED
      BY <1>2, <2>1, <2>2
  <1>5. LedgersOK'
    BY <1>0, <1>2, <1>3 DEF LedgersOK, ledgers
  <1>6. WorkOK'
    <2>1. fault' \in [Workers -> Faults] /\ \E step \in {"Consume", "Defer", "Fail"} : Goto(w, step)
      BY <1>0, <1>2, ReportType DEF Kinds, WorkOK
    <2>2. QED
      BY <1>0, <1>2, <2>1, Stepped DEF WorkOK, Steps
  <1>7. QED
    BY <1>2, <1>4, <1>5, <1>6, Same DEF TypeInv

LEMMA TypeConsume ==
  ASSUME TypeInv, NEW w \in Workers, ConsumeCall(w)
  PROVE  TypeInv'
  <1> DEFINE a == task[w][1]
             m == job[a].req
             used == IF m = Never THEN job[a].consumed ELSE m
             step == IF m = Never THEN "Ack" ELSE "Call"
             row == [job[a] EXCEPT !.req = Never, !.consumed = used]
  <1>0. WorkOK /\ LedgersOK /\ pc[w] # "Idle"
    BY DEF TypeInv, WorkOK, ConsumeCall
  <1>1. /\ a \in Assets /\ job[a] \in JobRow /\ (Claimed(w) => job[a].status = "Running")
    BY <1>0, ClaimedJob
  <1>2. CASE NotClaimed(w)
    BY <1>0, <1>2, NotClaimedType
  <1>3. CASE ~NotClaimed(w)
    <2>1. /\ Claimed(w) /\ Goto(w, step) /\ job' = [job EXCEPT ![a] = row]
          /\ reqs' = [k \in Months |-> Settle(reqs[k], IF k = m THEN 1 ELSE 0, 0)]
          /\ charge' = [charge EXCEPT ![w] = m]
          /\ UNCHANGED <<photo, upload, objects, usd, month, queue, task, claim, fault, calls>>
      BY <1>3 DEF ConsumeCall
    <2>2. m \in Spans /\ used \in Spans
      BY <1>1, JobRowIs
    <2> HIDE DEF used
    <2>3. row \in SoundRows
      <3>1. row \in JobRow /\ row.status = job[a].status
        BY <1>1, <2>2, JobRowIs DEF Spans
      <3>2. QED
        BY <1>1, <2>1, <3>1 DEF SoundRows
    <2> HIDE DEF row
    <2>4. JobsOK'
      BY <1>1, <2>1, <2>3, OneJob DEF TypeInv
    <2>5. LedgersOK'
      <3>1. ASSUME NEW k \in Months PROVE Settle(reqs[k], IF k = m THEN 1 ELSE 0, 0) \in LedgerRow
        <4>1. reqs[k] \in LedgerRow /\ (IF k = m THEN 1 ELSE 0) \in Nat /\ 0 \in Nat
          BY <1>0 DEF LedgersOK, Ledger
        <4>2. QED
          BY <4>1, SettleType
      <3>2. QED
        BY <1>0, <2>1, <3>1 DEF LedgersOK, Ledger
    <2>6. WorkOK'
      <3>1. step \in Steps /\ (step = "Call" => m \in Months)
        BY <2>2 DEF Steps, Spans
      <3>2. charge' \in [Workers -> Spans] /\ charge'[w] = m /\ \A v \in Workers : v # w => charge'[v] = charge[v]
        BY <1>0, <2>1, <2>2 DEF WorkOK
      <3> HIDE DEF step, m
      <3>3. QED
        BY <1>0, <2>1, <3>1, <3>2, Stepped DEF WorkOK
    <2>7. QED
      BY <2>1, <2>4, <2>5, <2>6, Same DEF TypeInv
  <1>4. QED
    BY <1>2, <1>3

LEMMA TypeComplete ==
  ASSUME TypeInv, NEW w \in Workers, Complete(w)
  PROVE  TypeInv'
  <1> DEFINE a == task[w][1]
             m == job[a].cost
             row(s, c) == Moved(SettledRow(job[a], TRUE), s, c, Never)
  <1>0. WorkOK /\ LedgersOK /\ pc[w] # "Idle" /\ described \in [Assets -> BOOLEAN] /\ PhotosOK
    BY DEF TypeInv, WorkOK, Complete, PhotosOK
  <1>1. a \in Assets /\ job[a] \in JobRow /\ {a} \in SUBSET Assets /\ {} \in SUBSET Assets
    BY <1>0, ClaimedJob
  <1>2. CASE NotClaimed(w)
    BY <1>0, <1>2, NotClaimedType
  <1>3. CASE ~NotClaimed(w)
    <2>1. /\ reqs' = SettleReqs({a}, {})
          /\ \/ /\ described' = [described EXCEPT ![a] = TRUE]
                /\ job' = [job EXCEPT ![a] = row("Succeeded", "None")]
                /\ \E paid \in 1..Price :
                     usd' = [k \in Months |-> IF k = m THEN Pay(usd[k], Price, paid) ELSE usd[k]]
             \/ /\ job' = [job EXCEPT ![a] = row("Failed", "Other")]
                /\ usd' = SettleUsd({a}, {})
                /\ UNCHANGED described
          /\ Goto(w, "Clean")
          /\ UNCHANGED <<active, byok, upload, objects, month, queue, task, claim, fault, charge, calls>>
      BY <1>3 DEF Complete
    <2>2. row("Succeeded", "None") \in SoundRows /\ row("Failed", "Other") \in SoundRows
      <3>1. SettledRow(job[a], TRUE) \in IdleRows
        BY <1>1, IdleEdits
      <3>2. QED
        BY <3>1, IdleEdits, IdleSound, Names, Bounds
    <2> HIDE DEF row
    <2>3. JobsOK'
      BY <1>1, <2>1, <2>2, OneJob DEF TypeInv
    <2>4. SettleReqs({a}, {}) \in Ledger /\ SettleUsd({a}, {}) \in Ledger
      BY <1>0, <1>1, SettledLedgers
    <2>5. ASSUME NEW paid \in 1..Price,
                 usd' = [k \in Months |-> IF k = m THEN Pay(usd[k], Price, paid) ELSE usd[k]]
          PROVE  usd' \in Ledger
      <3>1. ASSUME NEW k \in Months PROVE Pay(usd[k], Price, paid) \in LedgerRow /\ usd[k] \in LedgerRow
        <4>1. usd[k] \in LedgerRow /\ Price \in Nat /\ paid \in Nat
          BY <1>0, LimitAssumption DEF LedgersOK, Ledger
        <4>2. QED
          BY <4>1, PayType
      <3>2. QED
        BY <2>5, <3>1 DEF Ledger
    <2>6. LedgersOK'
      BY <2>1, <2>4, <2>5 DEF LedgersOK
    <2>7. PhotosOK'
      BY <1>0, <2>1 DEF PhotosOK
    <2>8. WorkOK'
      BY <1>0, <2>1, Stepped DEF WorkOK, Steps
    <2>9. QED
      BY <2>1, <2>3, <2>6, <2>7, <2>8, Same DEF TypeInv
  <1>4. QED
    BY <1>2, <1>3

\* The ledgers and the row after a failure or a deferral.
LEMMA EndedType ==
  ASSUME TypeInv, NEW a \in Assets, NEW called \in BOOLEAN, NEW C, C = {b \in {a} : called},
         NEW s \in JobStatuses, NEW c \in JobCodes, NEW d \in Dues,
         reqs' \in {SettleReqs(C, {a} \ C), Circuit(SettleReqs(C, {a} \ C), OpenCircuit(SettleReqs(C, {a} \ C)[month]))},
         usd' = SettleUsd(C, {a} \ C),
         job' = [job EXCEPT ![a] = Moved(SettledRow(job[a], called), s, c, d)]
  PROVE  JobsOK' /\ LedgersOK'
  <1> DEFINE led == SettleReqs(C, {a} \ C)
  <1>1. month \in Months /\ LedgersOK /\ C \in SUBSET Assets /\ {a} \ C \in SUBSET Assets /\ job[a] \in JobRow
    BY IdleSound DEF TypeInv, WorkOK, JobsOK
  <1>2. led \in Ledger /\ SettleUsd(C, {a} \ C) \in Ledger
    BY <1>1, SettledLedgers
  <1> HIDE DEF led
  <1>3. Circuit(led, OpenCircuit(led[month])) \in Ledger
    <2>1. OpenCircuit(led[month]) \in LedgerRow
      BY <1>1, <1>2, CircuitType
    <2>2. QED
      BY <1>2, <2>1, CircuitType
  <1>4. reqs' \in {led, Circuit(led, OpenCircuit(led[month]))}
    BY DEF led
  <1>5. Moved(SettledRow(job[a], called), s, c, d) \in SoundRows
    BY <1>1, IdleEdits, IdleSound
  <1>6. JobsOK'
    BY <1>5, OneJob DEF TypeInv
  <1>7. QED
    BY <1>2, <1>3, <1>4, <1>6 DEF LedgersOK

LEMMA TypeFail ==
  ASSUME TypeInv, NEW w \in Workers, Fail(w)
  PROVE  TypeInv'
  <1> DEFINE a == task[w][1]
             called == fault[w].called
             kind == fault[w].kind
             retry == kind = "Transient" /\ ~Exhausted(a)
             opens == called /\ kind = "Auth"
             C == {b \in {a} : called}
             led == SettleReqs(C, {a} \ C)
             open == Circuit(led, OpenCircuit(led[month]))
             end == IF kind = "Transient" THEN "Ack" ELSE "Clean"
  <1>0. WorkOK /\ pc[w] # "Idle" /\ called \in BOOLEAN /\ month \in Dues
    BY Bounds DEF TypeInv, WorkOK, Fail, Faults
  <1>1. task[w] \in Messages /\ a \in Assets
    BY <1>0, ClaimedJob
  <1>2. CASE NotClaimed(w)
    BY <1>0, <1>2, NotClaimedType
  <1>3. CASE ~NotClaimed(w)
    <2>1. /\ reqs' = IF opens THEN open ELSE led
          /\ usd' = SettleUsd(C, {a} \ C)
          /\ job' = [job EXCEPT ![a] = IF retry THEN Moved(SettledRow(job[a], called), "Queued", "Other", month)
                                                ELSE Moved(SettledRow(job[a], called), "Failed", "Other", Never)]
          /\ NoMoreFault(w)
          /\ UNCHANGED <<photo, upload, objects, month, charge, calls>>
          /\ IF retry
             THEN /\ Goto(w, "Idle") /\ task' = [task EXCEPT ![w] = None] /\ claim' = [claim EXCEPT ![w] = None]
                  /\ queue' \in {queue, queue \cup {task[w]}}
             ELSE Goto(w, end) /\ UNCHANGED <<task, claim, queue>>
      BY <1>3 DEF Fail
    <2> HIDE DEF retry, opens, open, end
    <2>2. /\ \/ job' = [job EXCEPT ![a] = Moved(SettledRow(job[a], called), "Queued", "Other", month)]
             \/ job' = [job EXCEPT ![a] = Moved(SettledRow(job[a], called), "Failed", "Other", Never)]
          /\ reqs' \in {led, open}
      BY <2>1
    <2>3. \/ /\ Goto(w, "Idle") /\ task' = [task EXCEPT ![w] = None] /\ claim' = [claim EXCEPT ![w] = None]
             /\ queue' \in {queue, queue \cup {task[w]}}
          \/ Goto(w, end) /\ UNCHANGED <<task, claim, queue>>
      BY <2>1
    <2>4. JobsOK' /\ LedgersOK'
      <3>1. ASSUME NEW s \in JobStatuses, NEW c \in JobCodes, NEW d \in Dues,
                   job' = [job EXCEPT ![a] = Moved(SettledRow(job[a], called), s, c, d)]
            PROVE  JobsOK' /\ LedgersOK'
        <4>1. usd' = SettleUsd(C, {a} \ C) /\ reqs' \in {led, Circuit(led, OpenCircuit(led[month]))}
          BY <2>1, <2>2 DEF open
        <4>2. called \in BOOLEAN /\ C = {b \in {a} : called}
          BY <1>0
        <4> HIDE DEF a, called, C
        <4>3. QED
          BY <1>1, <3>1, <4>1, <4>2, EndedType
      <3>2. QED
        BY <1>0, <2>2, <3>1, Names, Bounds
    <2>5. WorkOK'
      <3>1. fault' \in [Workers -> Faults]
        BY <1>0, <2>1, NoFaultType
      <3>2. CASE Goto(w, end) /\ UNCHANGED <<task, claim, queue>>
        BY <1>0, <2>1, <3>1, <3>2, Stepped DEF WorkOK, Steps, end
      <3>3. CASE /\ Goto(w, "Idle") /\ task' = [task EXCEPT ![w] = None] /\ claim' = [claim EXCEPT ![w] = None]
                 /\ queue' \in {queue, queue \cup {task[w]}}
        <4>1. queue' \subseteq Messages
          BY <1>0, <1>1, <3>3 DEF WorkOK
        <4>2. QED
          BY <1>0, <2>1, <3>1, <3>3, <4>1 DEF WorkOK, Busy, Goto, Steps
      <3>4. QED
        BY <2>3, <3>2, <3>3
    <2>6. QED
      BY <2>1, <2>4, <2>5, Same DEF TypeInv
  <1>4. QED
    BY <1>2, <1>3

LEMMA TypeDefer ==
  ASSUME TypeInv, NEW w \in Workers, Defer(w)
  PROVE  TypeInv'
  <1> DEFINE a == task[w][1]
             called == fault[w].called
             C == {b \in {a} : called}
             led == SettleReqs(C, {a} \ C)
             open == Circuit(led, OpenCircuit(led[month]))
             code == IF ~called /\ SettledRow(job[a], called).blocked THEN "ProviderCircuitOpen" ELSE "Other"
             code0 == IF ~called /\ job[a].blocked THEN "ProviderCircuitOpen" ELSE "Other"
  <1>0. WorkOK /\ pc[w] # "Idle" /\ called \in BOOLEAN /\ month + 1 \in Dues
    BY Bounds DEF TypeInv, WorkOK, Defer, Faults
  <1>1. a \in Assets
    BY <1>0, ClaimedJob
  <1>2. CASE NotClaimed(w)
    BY <1>0, <1>2, NotClaimedType
  <1>3. CASE ~NotClaimed(w)
    <2>1. /\ reqs' = IF called THEN open ELSE led
          /\ usd' = SettleUsd(C, {a} \ C)
          /\ job' = [job EXCEPT ![a] = Moved(SettledRow(job[a], called), "DeferredQuota", code0, month + 1)]
          /\ Goto(w, "Clean") /\ NoMoreFault(w)
          /\ UNCHANGED <<photo, upload, objects, month, queue, task, claim, charge, calls>>
      BY <1>3 DEF Defer
    <2>2. reqs' \in {led, open} /\ code0 \in JobCodes
      BY <2>1, Names
    <2> HIDE DEF code0
    <2>3. JobsOK' /\ LedgersOK'
      BY <1>0, <1>1, <2>1, <2>2, EndedType, Names
    <2>4. WorkOK'
      BY <1>0, <2>1, NoFaultType, Stepped DEF WorkOK, Steps
    <2>5. QED
      BY <2>1, <2>3, <2>4, Same DEF TypeInv
  <1>4. QED
    BY <1>2, <1>3

LEMMA TypeRelease ==
  ASSUME TypeInv, NEW w \in Workers, pc[w] # "Idle", Release(w), queue' \in {queue, queue \cup {task[w]}}
  PROVE  TypeInv'
  <1>1. task[w] \in Messages
    BY DEF TypeInv, WorkOK, Busy
  <1>2. WorkOK'
    BY <1>1 DEF TypeInv, WorkOK, Release, Goto, Busy, Steps, NoFault, Faults, Kinds, Spans
  <1>3. QED
    BY <1>2, Same DEF Release, TypeInv

LEMMA TypeStep == TypeInv /\ [Next]_vars => TypeInv'
  <1> SUFFICES ASSUME TypeInv, [Next]_vars PROVE TypeInv'
    OBVIOUS
  <1>1. ASSUME NEW w \in Workers, WorkerStep(w) PROVE TypeInv'
    <2>1. CASE Acknowledge(w)
      BY <2>1, TypeRelease DEF Acknowledge
    <2>2. QED
      BY <1>1, <2>1, TypeQuiet, TypeReserve, TypeConsume, TypeComplete, TypeFail, TypeDefer DEF WorkerStep
  <1>2. ASSUME NEW w \in Workers, Crash(w) PROVE TypeInv'
    BY <1>2, TypeRelease DEF Crash
  <1>3. CASE RedispatchDueJobs
    BY <1>3, TypeSweep DEF RedispatchDueJobs
  <1>4. CASE UNCHANGED vars
    BY <1>4, Same DEF vars, TypeInv
  <1>5. QED
    BY <1>1, <1>2, <1>3, <1>4, TypePhotos, TypePlan, TypeUploads, TypeRetry, TypeTime, TypeClaim DEF Next

LEMMA TypeInit == Init => TypeInv
  <1> SUFFICES ASSUME Init PROVE TypeInv
    OBVIOUS
  <1>1. NoJob \in SoundRows
    BY EmptyRow DEF SoundRows, CallStarted
  <1>2. JobsOK
    BY <1>1 DEF Init, JobsOK
  <1>3. NewRow \in LedgerRow
    BY DEF NewRow, LedgerRow
  <1>4. LedgersOK
    BY <1>3 DEF Init, LedgersOK, Ledger
  <1>5. PhotosOK /\ UploadsOK
    BY DEF Init, PhotosOK, UploadsOK, UploadRow
  <1>6. WorkOK
    BY Bounds DEF Init, WorkOK, Busy, Steps, NoFault, Faults, Kinds, Spans
  <1>7. QED
    BY <1>2, <1>4, <1>5, <1>6 DEF TypeInv

LEMMA TypesHold == Spec => []TypeInv
  BY TypeInit, TypeStep, PTL DEF Spec

\* Every reachable state is well typed, and only a leased job has a call in
\* flight or unsettled behind it (claim_description_job and every handler that
\* ends, requeues or defers a job settle what its last attempt left).
THEOREM LeasesCorrect == Spec => []LeasesSound
  BY TypesHold, TypeInvSound, PTL

-----------------------------------------------------------------------------
(* Who has which message.                                                  *)

\* A message is with one worker or in the queue, never twice.
SoleHolder ==
  \A w \in Workers : task[w] # None =>
    /\ task[w] \in Messages /\ task[w] \notin queue
    /\ \A v \in Workers : v # w => task[v] # task[w]

\* Messages are added to the queue that no worker has.
Adds == task' = task /\ \E new \in SUBSET Messages : /\ queue' = queue \cup new
                                                     /\ \A w \in Workers : task[w] \notin new

\* Worker w is done with its message, which may return to the queue.
Drops(w) == task' = [task EXCEPT ![w] = None] /\ queue' \in {queue, queue \cup {task[w]}}

LEMMA SentAdds ==
  ASSUME NEW S, NEW batch, Sent(S, batch), UNCHANGED task
  PROVE  Adds
  <1>1. ASSUME NEW w \in Workers PROVE task[w] \notin batch
    <2> SUFFICES ASSUME task[w] \in batch PROVE FALSE
      OBVIOUS
    <2>1. task[w] \in Messages /\ task[w][2] \in FreshIds(task[w][1])
      BY DEF Sent
    <2>2. task[w] = <<task[w][1], task[w][2]>>
      BY <2>1 DEF Messages
    <2>3. QED
      BY <1>1, <2>1, <2>2 DEF FreshIds
  <1>2. QED
    BY <1>1 DEF Sent, Adds

LEMMA SameAdds ==
  ASSUME UNCHANGED <<task, queue>>
  PROVE  Adds
  <1>1. queue' = queue \cup {} /\ {} \in SUBSET Messages
    OBVIOUS
  <1>2. QED
    BY <1>1 DEF Adds

LEMMA SoleStep ==
  ASSUME TypeInv, SoleHolder, [Next]_vars
  PROVE  SoleHolder'
  <1>0. task \in [Workers -> Messages \cup {None}] /\ queue \subseteq Messages
    BY DEF TypeInv, WorkOK
  <1>1. CASE Adds
    BY <1>0, <1>1 DEF Adds, SoleHolder
  <1>2. ASSUME NEW w \in Workers, Drops(w) PROVE SoleHolder'
    BY <1>0, <1>2 DEF Drops, SoleHolder
  <1>3. ASSUME NEW w \in Workers, NEW msg \in Messages, Claim(w, msg) PROVE SoleHolder'
    <2>1. msg \in queue /\ queue' = queue \ {msg} /\ task' = [task EXCEPT ![w] = msg]
      BY <1>3 DEF Claim
    <2>2. QED
      BY <1>0, <2>1 DEF SoleHolder
  <1>4. ASSUME NEW w \in Workers, WorkerStep(w) PROVE SoleHolder'
    <2>1. CASE Presign(w) \/ ReserveCall(w) \/ ConsumeCall(w) \/ CallProvider(w) \/ Complete(w) \/ Defer(w) \/ Clean(w)
      BY <1>1, <2>1, SameAdds
      DEF Presign, ReserveCall, ConsumeCall, CallProvider, Complete, Defer, Clean, NotClaimed
    <2>2. CASE Fail(w)
      <3>1. UNCHANGED <<task, queue>> \/ Drops(w)
        BY <2>2 DEF Fail, NotClaimed, Drops
      <3>2. QED
        BY <1>1, <1>2, <3>1, SameAdds
    <2>3. CASE Acknowledge(w)
      BY <1>2, <2>3 DEF Acknowledge, Release, Drops
    <2>4. QED
      BY <1>4, <2>1, <2>2, <2>3 DEF WorkerStep
  <1>5. ASSUME NEW w \in Workers, Crash(w) PROVE SoleHolder'
    BY <1>2, <1>5 DEF Crash, Release, Drops
  <1>6. ASSUME NEW u \in Uploads, CompleteUpload(u) PROVE SoleHolder'
    BY <1>1, <1>6, SentAdds DEF CompleteUpload, Dispatch, process
  <1>7. CASE RedispatchDueJobs
    BY <1>1, <1>7, SentAdds DEF RedispatchDueJobs, Sweep, process
  <1>8. CASE UNCHANGED <<task, queue>>
    BY <1>1, <1>8, SameAdds
  <1>9. ASSUME NEW a \in Assets, \/ PrepareEnrichment(a) \/ RetryJob(a) \/ CancelJob(a) \/ TrashAsset(a)
                                 \/ RestoreAsset(a) \/ ExpireLease(a) \/ \E u \in Uploads : CreateUploadPlan(a, u)
                                 \/ \E c \in Claims : ClaimByok(a, c) \/ SaveByok(a, c)
        PROVE  UNCHANGED <<task, queue>>
    BY <1>9 DEF PrepareEnrichment, RetryJob, CancelJob, TrashAsset, RestoreAsset, ExpireLease, CreateUploadPlan,
                ClaimByok, SaveByok, process
  <1>10. ASSUME NEW u \in Uploads, PutObject(u) \/ GetUploadSession(u) \/ CancelUpload(u) \/ ExpireUpload(u)
         PROVE  UNCHANGED <<task, queue>>
    BY <1>10 DEF PutObject, GetUploadSession, CancelUpload, ExpireUpload, process
  <1>11. QED
    BY <1>3, <1>4, <1>5, <1>6, <1>7, <1>8, <1>9, <1>10 DEF Next, vars, process, AdvanceMonth

\* Two executions never both hold the claim on a job
\* (_claimed_description_job compares the lease with the message's identity).
THEOREM OneWorkerPerLease == Spec => []OneClaimant
  <1>1. Init => SoleHolder
    BY DEF Init, SoleHolder
  <1>2. TypeInv /\ SoleHolder /\ [Next]_vars => SoleHolder'
    BY SoleStep
  <1>3. SoleHolder => OneClaimant
    <2> SUFFICES ASSUME SoleHolder, NEW v \in Workers, NEW w \in Workers, v # w, task[v] # None,
                        task[w] # None, task[v][1] = task[w][1], Claimed(v), Claimed(w)
                 PROVE  FALSE
      BY DEF OneClaimant
    <2>1. task[v][2] = task[w][2]
      BY DEF Claimed, HasLease
    <2>2. task[v] = task[w]
      BY <2>1 DEF SoleHolder, Messages
    <2>3. QED
      BY <2>2 DEF SoleHolder
  <1>4. QED
    BY <1>1, <1>2, <1>3, TypesHold, PTL DEF Spec

-----------------------------------------------------------------------------
(* The ledgers against the rows that hold of them.                         *)

\* How many assets f sends to m.
Count(f, S, m) == Cardinality({a \in S : f[a] = m})

Reqs(J)  == [a \in Assets |-> J[a].req]
Costs(J) == [a \in Assets |-> J[a].cost]

\* The ledger covers what the assets hold of it at u units each, under lim.
Backed(led, f, u, lim) ==
  \A m \in Months : /\ led[m].reserved >= u * Count(f, Assets, m)
                    /\ led[m].processed + led[m].reserved <= lim

BothBacked(q, d, J) == Backed(q, Reqs(J), 1, Limit) /\ Backed(d, Costs(J), Price, UsdLimit)

LedgersSound == BothBacked(reqs, usd, job)

\* Row row2 has at most n units less in reserve than row, and no more in all.
Gives(row, row2, n) == /\ row2.reserved + n >= row.reserved
                       /\ row2.processed + row2.reserved <= row.processed + row.reserved

\* From f to g assets only lose what they hold, those in S certainly.
Loses(f, g, S) == \A a \in Assets : g[a] \in {f[a], Never} /\ (a \in S => g[a] = Never)

LEMMA RowGives ==
  ASSUME NEW row \in LedgerRow, NEW c \in Nat, NEW r \in Nat
  PROVE  /\ Gives(row, Settle(row, c, r), c + r)
         /\ Gives(row, Uncharge(row, c), 0)
         /\ (r <= c /\ c <= row.reserved) => Gives(row, Pay(row, c, r), c)
         /\ Gives(row, OpenCircuit(row), 0)
         /\ \A b \in BOOLEAN : Gives(row, [row EXCEPT !.open = b], 0) /\ Gives(row, [row EXCEPT !.exists = b], 0)
  <1>0. row.reserved \in Nat /\ row.processed \in Nat
    BY DEF LedgerRow
  <1>1. Gives(row, Settle(row, c, r), c + r)
    <2> DEFINE left == row.reserved - Lesser(row.reserved, c + r)
               sum  == row.processed + Lesser(row.reserved, c)
    <2>1. left + (c + r) >= row.reserved /\ sum + left <= row.processed + row.reserved
      BY <1>0 DEF Lesser
    <2>2. Settle(row, c, r) = [row EXCEPT !.reserved = left, !.processed = sum]
      BY DEF Settle
    <2> HIDE DEF left, sum
    <2>3. QED
      BY <2>1, <2>2 DEF LedgerRow, Gives
  <1>2. Gives(row, Uncharge(row, c), 0)
    <2> DEFINE left == row.processed - Lesser(row.processed, c)
    <2>1. left \in Nat /\ left <= row.processed
      BY <1>0 DEF Lesser
    <2>2. Uncharge(row, c) = [row EXCEPT !.processed = left]
      BY DEF Uncharge
    <2> HIDE DEF left
    <2>3. QED
      BY <1>0, <2>1, <2>2 DEF LedgerRow, Gives
  <1>3. ASSUME r <= c, c <= row.reserved PROVE Gives(row, Pay(row, c, r), c)
    <2> DEFINE left == row.reserved - Lesser(row.reserved, c)
               sum  == row.processed + r
    <2>1. left + c >= row.reserved /\ sum + left <= row.processed + row.reserved
      BY <1>0, <1>3 DEF Lesser
    <2>2. Pay(row, c, r) = [row EXCEPT !.reserved = left, !.processed = sum]
      BY DEF Pay
    <2> HIDE DEF left, sum
    <2>3. QED
      BY <2>1, <2>2 DEF LedgerRow, Gives
  <1>4. /\ Gives(row, OpenCircuit(row), 0)
        /\ \A b \in BOOLEAN : Gives(row, [row EXCEPT !.open = b], 0) /\ Gives(row, [row EXCEPT !.exists = b], 0)
    BY <1>0 DEF OpenCircuit, LedgerRow, Gives
  <1>5. QED
    BY <1>1, <1>2, <1>3, <1>4

LEMMA GivesTwice ==
  ASSUME NEW row \in LedgerRow, NEW row2 \in LedgerRow, NEW row3 \in LedgerRow, NEW n \in Nat, NEW k \in Nat,
         Gives(row, row2, n), Gives(row2, row3, k)
  PROVE  Gives(row, row3, n + k)
  BY DEF Gives, LedgerRow

LEMMA GivesNone ==
  ASSUME NEW row \in LedgerRow
  PROVE  Gives(row, row, 0)
  BY DEF Gives, LedgerRow

LEMMA Times ==
  ASSUME NEW u \in Nat, NEW n \in Nat, NEW k \in Nat
  PROVE  /\ u * n \in Nat /\ u * (n + k) = u * n + u * k /\ (n <= k => u * n <= u * k)
         /\ 1 * n = n /\ u * 0 = 0 /\ u * 1 = u
  <1>1. u * n \in Nat /\ u * k \in Nat /\ u * (n + k) = u * n + u * k
    OBVIOUS
  <1>2. ASSUME n <= k PROVE u * n <= u * k
    <2>1. PICK e \in Nat : k = n + e
      BY <1>2
    <2>2. u * (n + e) = u * n + u * e /\ u * e \in Nat /\ u * n \in Nat
      OBVIOUS
    <2>3. QED
      BY <2>1, <2>2
  <1>3. 1 * n = n /\ u * 0 = 0 /\ u * 1 = u
    OBVIOUS
  <1>4. QED
    BY <1>1, <1>2, <1>3

LEMMA CountType ==
  ASSUME NEW f, NEW S \in SUBSET Assets, NEW m
  PROVE  /\ IsFiniteSet({a \in S : f[a] = m}) /\ Count(f, S, m) \in Nat
         /\ Count(f, S, m) <= Count(f, Assets, m)
  <1> DEFINE T == {a \in S : f[a] = m}
             A == {a \in Assets : f[a] = m}
  <1>1. A \in SUBSET Assets /\ T \in SUBSET A
    OBVIOUS
  <1>2. IsFiniteSet(A)
    BY <1>1, SetAssumption, FS_Subset
  <1>3. IsFiniteSet(T) /\ Cardinality(T) <= Cardinality(A)
    BY <1>1, <1>2, FS_Subset
  <1>4. Cardinality(T) \in Nat
    BY <1>3, FS_CardinalityType
  <1>5. QED
    BY <1>3, <1>4 DEF Count

LEMMA CountLoses ==
  ASSUME NEW f, NEW g, NEW S \in SUBSET Assets, Loses(f, g, S), NEW m \in Months
  PROVE  Count(g, Assets, m) + Count(f, S, m) <= Count(f, Assets, m)
  <1> DEFINE G == {a \in Assets : g[a] = m}
             F == {a \in S : f[a] = m}
             A == {a \in Assets : f[a] = m}
  <1>1. G \cup F \in SUBSET A /\ G \cap F = {}
    BY Bounds DEF Loses
  <1>2. IsFiniteSet(G) /\ IsFiniteSet(F) /\ IsFiniteSet(A)
    BY CountType
  <1> HIDE DEF G, F, A
  <1>3. Cardinality(G \cup F) = Cardinality(G) + Cardinality(F) - Cardinality(G \cap F)
    BY <1>2, FS_Union
  <1>4. Cardinality(G \cap F) = 0
    BY <1>1, FS_EmptySet
  <1>5. Cardinality(G \cup F) <= Cardinality(A)
    BY <1>1, <1>2, FS_Subset
  <1>6. Cardinality(G) \in Nat /\ Cardinality(F) \in Nat
    BY <1>2, FS_CardinalityType
  <1>7. Cardinality(G) + Cardinality(F) <= Cardinality(A)
    BY <1>3, <1>4, <1>5, <1>6
  <1>8. QED
    BY <1>7 DEF Count, G, F, A

\* What a holder of h holds of m, at u units.
Share(h, m, u) == IF h = m THEN u ELSE 0

LEMMA CountSwap ==
  ASSUME NEW f, NEW g, NEW a \in Assets, \A b \in Assets : b # a => g[b] = f[b], NEW m
  PROVE  Count(g, Assets, m) + Share(f[a], m, 1) = Count(f, Assets, m) + Share(g[a], m, 1)
  <1> DEFINE R == {b \in Assets \ {a} : f[b] = m}
  <1>1. ASSUME NEW h, \A b \in Assets : b # a => h[b] = f[b]
        PROVE  Count(h, Assets, m) = Cardinality(R) + Share(h[a], m, 1)
    <2>1. R \in SUBSET Assets /\ a \notin R
      OBVIOUS
    <2>2. IsFiniteSet(R) /\ Cardinality(R) \in Nat
      BY <2>1, SetAssumption, FS_Subset, FS_CardinalityType
    <2>3. CASE h[a] = m
      <3>1. {b \in Assets : h[b] = m} = R \cup {a}
        BY <1>1, <2>3
      <3> HIDE DEF R
      <3>2. Cardinality(R \cup {a}) = Cardinality(R) + 1
        BY <2>1, <2>2, FS_AddElement
      <3>3. QED
        BY <2>3, <3>1, <3>2 DEF Count, Share
    <2>4. CASE h[a] # m
      <3>1. {b \in Assets : h[b] = m} = R
        BY <1>1, <2>4
      <3>2. QED
        BY <2>2, <2>4, <3>1 DEF Count, Share
    <2>5. QED
      BY <2>3, <2>4
  <1>2. Cardinality(R) \in Nat /\ Share(f[a], m, 1) \in Nat /\ Share(g[a], m, 1) \in Nat
    <2>1. R \in SUBSET Assets
      OBVIOUS
    <2>2. QED
      BY <2>1, SetAssumption, FS_Subset, FS_CardinalityType DEF Share
  <1> HIDE DEF R
  <1>3. /\ Count(f, Assets, m) = Cardinality(R) + Share(f[a], m, 1)
        /\ Count(g, Assets, m) = Cardinality(R) + Share(g[a], m, 1)
    BY <1>1
  <1>4. QED
    BY <1>2, <1>3

LEMMA LoseBacked ==
  ASSUME NEW led \in Ledger, NEW led2 \in Ledger, NEW u \in Nat, NEW lim \in Nat, NEW f, NEW g, NEW S \in SUBSET Assets,
         Backed(led, f, u, lim), Loses(f, g, S),
         \A m \in Months : Gives(led[m], led2[m], u * Count(f, S, m))
  PROVE  Backed(led2, g, u, lim)
  <1> SUFFICES ASSUME NEW m \in Months
               PROVE  /\ led2[m].reserved >= u * Count(g, Assets, m)
                      /\ led2[m].processed + led2[m].reserved <= lim
    BY DEF Backed
  <1> DEFINE n == Count(f, Assets, m)
             k == Count(f, S, m)
             l == Count(g, Assets, m)
  <1>1. n \in Nat /\ k \in Nat /\ l \in Nat /\ l + k <= n
    BY CountType, CountLoses
  <1>2. led[m] \in LedgerRow /\ led2[m] \in LedgerRow
    BY DEF Ledger
  <1>3. led[m].reserved >= u * n /\ led[m].processed + led[m].reserved <= lim /\ Gives(led[m], led2[m], u * k)
    BY DEF Backed
  <1> HIDE DEF n, k, l
  <1>4. l + k \in Nat
    BY <1>1
  <1>5. u * (l + k) <= u * n
    BY <1>1, <1>4, Times
  <1>6. u * (l + k) = u * l + u * k /\ u * l \in Nat /\ u * k \in Nat /\ u * n \in Nat
    BY <1>1, Times
  <1> DEFINE un == u * n
             uk == u * k
             ul == u * l
  <1>7. ul + uk <= un /\ ul \in Nat /\ uk \in Nat /\ un \in Nat
    BY <1>5, <1>6
  <1>8. led[m].reserved >= un /\ led[m].processed + led[m].reserved <= lim /\ Gives(led[m], led2[m], uk)
    BY <1>3
  <1> HIDE DEF un, uk, ul
  <1>9. led2[m].reserved >= ul /\ led2[m].processed + led2[m].reserved <= lim
    BY <1>2, <1>7, <1>8 DEF Gives, LedgerRow
  <1>10. QED
    BY <1>9 DEF ul, l

\* One asset exchanges what it holds.
Exchanges(row, row2, n, k, lim) ==
  /\ row2.reserved + n >= row.reserved + k
  /\ \/ row2.processed + row2.reserved <= row.processed + row.reserved
     \/ row2.processed + row2.reserved <= lim

LEMMA SwapBacked ==
  ASSUME NEW led \in Ledger, NEW led2 \in Ledger, NEW u \in Nat, NEW lim \in Nat, NEW f, NEW g, NEW a \in Assets,
         Backed(led, f, u, lim), \A b \in Assets : b # a => g[b] = f[b],
         \A m \in Months : Exchanges(led[m], led2[m], Share(f[a], m, u), Share(g[a], m, u), lim)
  PROVE  Backed(led2, g, u, lim)
  <1> SUFFICES ASSUME NEW m \in Months
               PROVE  /\ led2[m].reserved >= u * Count(g, Assets, m)
                      /\ led2[m].processed + led2[m].reserved <= lim
    BY DEF Backed
  <1> DEFINE n == Count(f, Assets, m)
             l == Count(g, Assets, m)
             i == Share(f[a], m, 1)
             j == Share(g[a], m, 1)
             ui == Share(f[a], m, u)
             uj == Share(g[a], m, u)
  <1>0. l + i = n + j
    BY CountSwap
  <1>1. n \in Nat /\ l \in Nat /\ i \in Nat /\ j \in Nat /\ l + i = n + j
    BY <1>0, CountType DEF Share
  <1>2. led[m] \in LedgerRow /\ led2[m] \in LedgerRow
    BY DEF Ledger
  <1>3. led[m].reserved >= u * n /\ led[m].processed + led[m].reserved <= lim /\ Exchanges(led[m], led2[m], ui, uj, lim)
    BY DEF Backed
  <1>4. ui = u * i /\ uj = u * j
    BY Times DEF Share
  <1> HIDE DEF n, l, i, j, ui, uj
  <1>5. u * (l + i) = u * l + u * i /\ u * (n + j) = u * n + u * j /\ u * l \in Nat /\ u * i \in Nat /\ u * n \in Nat /\ u * j \in Nat
    BY <1>1, Times
  <1>6. u * l + u * i = u * n + u * j
    BY <1>1, <1>5
  <1> DEFINE un == u * n
             ul == u * l
  <1>7. ul + ui = un + uj /\ ul \in Nat /\ un \in Nat /\ ui \in Nat /\ uj \in Nat
    BY <1>4, <1>5, <1>6
  <1>8. led[m].reserved >= un
    BY <1>3
  <1> HIDE DEF un, ul
  <1>9. led2[m].reserved >= ul /\ led2[m].processed + led2[m].reserved <= lim
    BY <1>2, <1>3, <1>7, <1>8 DEF Exchanges, LedgerRow
  <1>10. QED
    BY <1>9 DEF ul, l

LEMMA HoldIs ==
  ASSUME NEW S \in SUBSET Assets, NEW m
  PROVE  HoldReq(S, m) = Count(Reqs(job), S, m) /\ HoldCost(S, m) = Count(Costs(job), S, m)
  <1>1. /\ {a \in S : job[a].req = m} = {a \in S : Reqs(job)[a] = m}
        /\ {a \in S : job[a].cost = m} = {a \in S : Costs(job)[a] = m}
    BY DEF Reqs, Costs
  <1>2. QED
    BY <1>1 DEF HoldReq, HoldCost, Count

LEMMA CountUnion ==
  ASSUME NEW f, NEW S \in SUBSET Assets, NEW T \in SUBSET Assets, S \cap T = {}, NEW m
  PROVE  Count(f, S \cup T, m) = Count(f, S, m) + Count(f, T, m)
  <1> DEFINE F == {a \in S : f[a] = m}
             G == {a \in T : f[a] = m}
  <1>1. {a \in S \cup T : f[a] = m} = F \cup G /\ F \cap G = {}
    OBVIOUS
  <1>2. IsFiniteSet(F) /\ IsFiniteSet(G)
    BY CountType
  <1> HIDE DEF F, G
  <1>3. Cardinality(F \cup G) = Cardinality(F) + Cardinality(G) - Cardinality(F \cap G)
    BY <1>2, FS_Union
  <1>4. Cardinality(F) \in Nat /\ Cardinality(G) \in Nat /\ Cardinality(F \cap G) = 0
    BY <1>1, <1>2, FS_CardinalityType, FS_EmptySet
  <1>5. Cardinality(F \cup G) = Cardinality(F) + Cardinality(G)
    BY <1>3, <1>4
  <1>6. QED
    BY <1>1, <1>5 DEF Count, F, G

\* The ledgers q and d have given back what the jobs in S held of reqs, and those in T of usd.
GiveBack(q, d, S, T) ==
  \A m \in Months : /\ Gives(reqs[m], q[m], 1 * Count(Reqs(job), S, m))
                    /\ Gives(usd[m], d[m], Price * Count(Costs(job), T, m))

LEMMA ReturnGives ==
  ASSUME LedgersOK, NEW S \in SUBSET Assets
  PROVE  GiveBack(ReturnReqs(S), ReturnUsd(S), S, S)
  <1> SUFFICES ASSUME NEW m \in Months
               PROVE  /\ Gives(reqs[m], ReturnReqs(S)[m], 1 * Count(Reqs(job), S, m))
                      /\ Gives(usd[m], ReturnUsd(S)[m], Price * Count(Costs(job), S, m))
    BY DEF GiveBack
  <1> DEFINE n == HoldReq(S, m)
             k == Price * HoldCost(S, m)
  <1>1. n \in Nat /\ k \in Nat /\ 0 \in Nat /\ reqs[m] \in LedgerRow /\ usd[m] \in LedgerRow
    BY Counts DEF LedgersOK, Ledger
  <1>2. ReturnReqs(S)[m] = Settle(reqs[m], 0, n) /\ ReturnUsd(S)[m] = Settle(usd[m], 0, k)
    BY DEF ReturnReqs, ReturnUsd
  <1>3. 1 * Count(Reqs(job), S, m) = n /\ Price * Count(Costs(job), S, m) = k
    BY <1>1, HoldIs, Times
  <1> HIDE DEF n, k
  <1>4. Gives(reqs[m], Settle(reqs[m], 0, n), 0 + n) /\ Gives(usd[m], Settle(usd[m], 0, k), 0 + k)
    BY <1>1, RowGives
  <1>5. 0 + n = n /\ 0 + k = k
    BY <1>1
  <1>6. QED
    BY <1>2, <1>3, <1>4, <1>5

\* What jobs hold is in reserve.
LEMMA HeldCovered ==
  ASSUME LedgersOK, LedgersSound, NEW S \in SUBSET Assets, NEW m \in Months
  PROVE  HoldReq(S, m) <= reqs[m].reserved /\ Price * HoldCost(S, m) <= usd[m].reserved
  <1> DEFINE n == Count(Reqs(job), S, m)
             k == Count(Costs(job), S, m)
             N == Count(Reqs(job), Assets, m)
             K == Count(Costs(job), Assets, m)
  <1>1. n \in Nat /\ k \in Nat /\ N \in Nat /\ K \in Nat /\ n <= N /\ k <= K
    BY CountType
  <1>2. reqs[m].reserved >= 1 * N /\ usd[m].reserved >= Price * K
    BY DEF LedgersSound, BothBacked, Backed
  <1>3. HoldReq(S, m) = n /\ HoldCost(S, m) = k
    BY HoldIs
  <1>4. reqs[m].reserved \in Nat /\ usd[m].reserved \in Nat
    BY DEF LedgersOK, Ledger, LedgerRow
  <1> HIDE DEF n, k, N, K
  <1>5. 1 * N = N /\ Price * k <= Price * K /\ Price * k \in Nat /\ Price * K \in Nat
    BY <1>1, Times, LimitAssumption
  <1> DEFINE pk == Price * k
             pK == Price * K
  <1>6. usd[m].reserved >= pK /\ pk <= pK /\ pk \in Nat /\ pK \in Nat
    BY <1>2, <1>5
  <1> HIDE DEF pk, pK
  <1>7. pk <= usd[m].reserved /\ n <= reqs[m].reserved
    BY <1>1, <1>2, <1>4, <1>5, <1>6
  <1>8. QED
    BY <1>3, <1>7 DEF pk

LEMMA SettleGives ==
  ASSUME LedgersOK, LedgersSound, NEW C \in SUBSET Assets, NEW R \in SUBSET Assets, C \cap R = {}
  PROVE  GiveBack(SettleReqs(C, R), SettleUsd(C, R), C \cup R, C \cup R)
  <1> SUFFICES ASSUME NEW m \in Months
               PROVE  /\ Gives(reqs[m], SettleReqs(C, R)[m], 1 * Count(Reqs(job), C \cup R, m))
                      /\ Gives(usd[m], SettleUsd(C, R)[m], Price * Count(Costs(job), C \cup R, m))
    BY DEF GiveBack
  <1> DEFINE c == HoldReq(C, m)
             r == HoldReq(R, m)
             x == Cardinality({a \in R : job[a].cost # Never /\ job[a].consumed = m})
             n == HoldReq(C \cup R, m)
             k == Price * HoldCost(C \cup R, m)
             p == Price * HoldCost(C, m)
  <1>0. C \cup R \in SUBSET Assets
    OBVIOUS
  <1>1. /\ c \in Nat /\ r \in Nat /\ x \in Nat /\ n \in Nat /\ k \in Nat /\ p \in Nat
        /\ reqs[m] \in LedgerRow /\ usd[m] \in LedgerRow
    BY <1>0, Counts DEF LedgersOK, Ledger
  <1>2. /\ SettleReqs(C, R)[m] = Uncharge(Settle(reqs[m], c, r), x)
        /\ SettleUsd(C, R)[m] = Pay(usd[m], k, p)
    BY DEF SettleReqs, SettleUsd
  <1>3. 1 * Count(Reqs(job), C \cup R, m) = n /\ Price * Count(Costs(job), C \cup R, m) = k
    BY <1>0, <1>1, HoldIs, Times
  <1>4. n = c + r
    BY <1>0, HoldIs, CountUnion
  <1>5. k <= usd[m].reserved
    BY <1>0, HeldCovered
  <1>6. p <= k
    <2> DEFINE A == Count(Costs(job), C, m)
               B == Count(Costs(job), R, m)
    <2>1. HoldCost(C, m) = A /\ HoldCost(C \cup R, m) = A + B
      BY <1>0, HoldIs, CountUnion
    <2>2. A \in Nat /\ B \in Nat
      BY CountType
    <2> HIDE DEF A, B
    <2>3. A + B \in Nat /\ A <= A + B
      BY <2>2
    <2>4. Price * A <= Price * (A + B)
      BY <2>2, <2>3, Times, LimitAssumption
    <2>5. QED
      BY <2>1, <2>4
  <1> HIDE DEF c, r, x, n, k, p
  <1>7. Gives(usd[m], Pay(usd[m], k, p), k)
    BY <1>1, <1>5, <1>6, RowGives
  <1> DEFINE row == Settle(reqs[m], c, r)
             row2 == Uncharge(row, x)
  <1>8. row \in LedgerRow /\ Gives(reqs[m], row, c + r)
    BY <1>1, SettleType, RowGives
  <1> HIDE DEF row
  <1>9. row2 \in LedgerRow /\ Gives(row, row2, 0)
    BY <1>1, <1>8, UnchargeType, RowGives
  <1> HIDE DEF row2
  <1>10. Gives(reqs[m], row2, n)
    <2>1. n \in Nat /\ 0 \in Nat /\ n + 0 = n
      BY <1>1
    <2>2. Gives(reqs[m], row2, n + 0)
      BY <1>1, <1>4, <1>8, <1>9, <2>1, GivesTwice
    <2>3. QED
      BY <2>1, <2>2
  <1>11. QED
    BY <1>2, <1>3, <1>7, <1>10 DEF row, row2

LEMMA KeepGives ==
  ASSUME LedgersOK
  PROVE  GiveBack(reqs, usd, {}, {})
  <1> SUFFICES ASSUME NEW m \in Months
               PROVE  /\ Gives(reqs[m], reqs[m], 1 * Count(Reqs(job), {}, m))
                      /\ Gives(usd[m], usd[m], Price * Count(Costs(job), {}, m))
    BY DEF GiveBack
  <1>1. \A f : Count(f, {}, m) = 0
    BY FS_EmptySet DEF Count
  <1>2. 1 * 0 = 0 /\ Price * 0 = 0
    BY LimitAssumption
  <1>3. Gives(reqs[m], reqs[m], 0) /\ Gives(usd[m], usd[m], 0)
    BY GivesNone DEF LedgersOK, Ledger
  <1>4. QED
    BY <1>1, <1>2, <1>3

\* Jobs that lose what the ledgers give back leave them sound.
LEMMA LoseLedgers ==
  ASSUME LedgersOK, LedgersSound, NEW q \in Ledger, NEW d \in Ledger, NEW J,
         NEW S \in SUBSET Assets, NEW T \in SUBSET Assets, GiveBack(q, d, S, T),
         \A a \in Assets : /\ J[a].req \in {job[a].req, Never} /\ (a \in S => J[a].req = Never)
                           /\ J[a].cost \in {job[a].cost, Never} /\ (a \in T => J[a].cost = Never)
  PROVE  BothBacked(q, d, J)
  <1>1. Loses(Reqs(job), Reqs(J), S) /\ Loses(Costs(job), Costs(J), T)
    BY DEF Loses, Reqs, Costs
  <1>2. reqs \in Ledger /\ usd \in Ledger /\ 1 \in Nat /\ Price \in Nat /\ Limit \in Nat /\ UsdLimit \in Nat
    BY LimitAssumption DEF LedgersOK
  <1>3. Backed(q, Reqs(J), 1, Limit)
    BY <1>1, <1>2, LoseBacked DEF LedgersSound, BothBacked, GiveBack
  <1>4. Backed(d, Costs(J), Price, UsdLimit)
    BY <1>1, <1>2, LoseBacked DEF LedgersSound, BothBacked, GiveBack
  <1>5. QED
    BY <1>3, <1>4 DEF BothBacked

-----------------------------------------------------------------------------
(* Renewing a reservation.                                                 *)

\* A ledger after the old share of a row is taken back, if give holds, and
\* after another is taken in the current month.
Taken(led, give, held, units) ==
  [[m \in Months |-> Settle(led[m], 0, IF give /\ held = m THEN units ELSE 0)] EXCEPT ![month].exists = TRUE]

Renewed(led, units) == Circuit(led, Reserve(led[month], units))

\* Every row of led and led2 is one before and after an exchange.
Exchanged(led, led2, held, held2, units, lim) ==
  \A m \in Months : Exchanges(led[m], led2[m], Share(held, m, units), Share(held2, m, units), lim)

LEMMA TakenExchange ==
  ASSUME NEW led \in Ledger, NEW give \in BOOLEAN, NEW held, NEW held2, NEW units \in Nat, NEW lim \in Nat,
         month \in Months, held2 = IF give THEN Never ELSE held
  PROVE  /\ Taken(led, give, held, units) \in Ledger
         /\ Exchanged(led, Taken(led, give, held, units), held, held2, units, lim)
  <1> DEFINE n(m) == IF give /\ held = m THEN units ELSE 0
             back == [m \in Months |-> Settle(led[m], 0, n(m))]
             T == Taken(led, give, held, units)
  <1>1. ASSUME NEW m \in Months
        PROVE  led[m] \in LedgerRow /\ n(m) \in Nat /\ back[m] \in LedgerRow /\ Gives(led[m], back[m], n(m))
    <2>1. led[m] \in LedgerRow /\ n(m) \in Nat /\ 0 \in Nat
      BY DEF Ledger
    <2> DEFINE k == n(m)
    <2>2. k \in Nat /\ 0 + k = k
      BY <2>1
    <2> HIDE DEF n
    <2>3. Settle(led[m], 0, k) \in LedgerRow /\ Gives(led[m], Settle(led[m], 0, k), 0 + k)
      BY <2>1, <2>2, SettleType, RowGives
    <2>4. QED
      BY <2>1, <2>2, <2>3
  <1>2. T = [back EXCEPT ![month].exists = TRUE]
    BY DEF Taken
  <1>3. back \in Ledger
    <2> HIDE DEF n
    <2>1. QED
      BY <1>1 DEF Ledger
  <1> HIDE DEF back, T, n
  <1>4. T \in Ledger
    BY <1>2, <1>3, CircuitType
  <1>5. ASSUME NEW m \in Months
        PROVE  T[m].reserved = back[m].reserved /\ T[m].processed = back[m].processed
    BY <1>2, <1>3 DEF Ledger, LedgerRow
  <1>6. ASSUME NEW m \in Months
        PROVE  Exchanges(led[m], T[m], Share(held, m, units), Share(held2, m, units), lim)
    <2>1. Share(held2, m, units) + n(m) = Share(held, m, units)
      BY Bounds DEF Share, n
    <2>2. Share(held, m, units) \in Nat /\ Share(held2, m, units) \in Nat
      BY DEF Share
    <2>3. led[m].reserved \in Nat /\ back[m].reserved \in Nat /\ n(m) \in Nat
      BY <1>1 DEF LedgerRow
    <2> DEFINE h == Share(held, m, units)
               h2 == Share(held2, m, units)
               k == n(m)
    <2>4. h2 + k = h /\ h \in Nat /\ h2 \in Nat /\ k \in Nat /\ Gives(led[m], back[m], k)
      BY <1>1, <2>1, <2>2, <2>3
    <2> HIDE DEF h, h2, k
    <2>5. Exchanges(led[m], T[m], h, h2, lim)
      BY <1>5, <2>3, <2>4 DEF Exchanges, Gives
    <2>6. QED
      BY <2>5 DEF h, h2
  <1>7. QED
    BY <1>4, <1>6 DEF T, Exchanged

LEMMA RenewedExchange ==
  ASSUME NEW led \in Ledger, NEW led2 \in Ledger, NEW held, NEW held2, NEW units \in Nat, NEW lim \in Nat,
         month \in Months, held2 # month, Exchanged(led, led2, held, held2, units, lim), Fits(led2[month], units, lim)
  PROVE  /\ Renewed(led2, units) \in Ledger
         /\ Exchanged(led, Renewed(led2, units), held, month, units, lim)
  <1> DEFINE row == Reserve(led2[month], units)
             R == Renewed(led2, units)
  <1>1. /\ row \in LedgerRow
        /\ row.reserved = led2[month].reserved + units /\ row.processed = led2[month].processed
    <2> DEFINE sum == led2[month].reserved + units
    <2>1. led2[month] \in LedgerRow /\ row = [led2[month] EXCEPT !.reserved = sum]
      BY DEF Reserve, Ledger
    <2>2. sum \in Nat
      BY <2>1 DEF LedgerRow
    <2> HIDE DEF sum, row
    <2>3. row \in LedgerRow /\ row.reserved = sum /\ row.processed = led2[month].processed
      BY <2>1, <2>2 DEF LedgerRow
    <2>4. QED
      BY <2>3 DEF sum
  <1> HIDE DEF row
  <1>2. R \in Ledger /\ R = [led2 EXCEPT ![month] = row]
    BY <1>1, CircuitType DEF Renewed, Circuit, row
  <1> HIDE DEF R
  <1>3. ASSUME NEW m \in Months
        PROVE  Exchanges(led[m], R[m], Share(held, m, units), Share(month, m, units), lim)
    <2>1. /\ led[m].reserved \in Nat /\ led2[m].reserved \in Nat /\ Share(held, m, units) \in Nat
          /\ led[m].processed \in Nat /\ led2[m].processed \in Nat
      BY DEF Ledger, LedgerRow, Share
    <2>2. Exchanges(led[m], led2[m], Share(held, m, units), Share(held2, m, units), lim)
      BY DEF Exchanged
    <2>3. CASE m = month
      <3>1. Share(held2, m, units) = 0 /\ Share(month, m, units) = units
        BY <2>3 DEF Share
      <3>2. R[m] = row /\ led2[m].processed + led2[m].reserved + units <= lim
        BY <1>2, <2>3 DEF Fits, Ledger
      <3>3. QED
        BY <1>1, <2>1, <2>2, <2>3, <3>1, <3>2 DEF Exchanges
    <2>4. CASE m # month
      <3>1. Share(month, m, units) = 0 /\ Share(held2, m, units) \in Nat
        BY <2>4 DEF Share
      <3>2. R[m] = led2[m]
        BY <1>2, <2>4 DEF Ledger
      <3>3. QED
        BY <2>1, <2>2, <3>1, <3>2 DEF Exchanges
    <2>5. QED
      BY <2>3, <2>4
  <1>4. QED
    BY <1>2, <1>3 DEF R, Exchanged

LEMMA SameExchange ==
  ASSUME NEW led \in Ledger, NEW held, NEW units \in Nat, NEW lim \in Nat
  PROVE  Exchanged(led, led, held, held, units, lim)
  <1>1. ASSUME NEW m \in Months
        PROVE  led[m].reserved \in Nat /\ led[m].processed \in Nat /\ Share(held, m, units) \in Nat
    BY DEF Ledger, LedgerRow, Share
  <1>2. QED
    BY <1>1 DEF Exchanged, Exchanges

\* _reserve_description_usage exchanges what the row holds in both ledgers.
LEMMA ReserveExchange ==
  ASSUME NEW r \in JobRow, NEW q \in Ledger, NEW d \in Ledger, month \in Months
  PROVE  LET plan == ReserveBoth(r, q, d)
         IN  /\ Exchanged(q, plan.reqs, r.req, plan.row.req, 1, Limit)
             /\ Exchanged(d, plan.usd, r.cost, plan.row.cost, Price, UsdLimit)
  <1> DEFINE both == r.req = month /\ r.cost = month
             one == ~both /\ (r.req = month \/ r.cost = month)
             row1 == IF one THEN ReturnedRow(r) ELSE r
             row2 == [row1 EXCEPT !.blocked = TRUE]
             row3 == [row1 EXCEPT !.blocked = FALSE]
             row4 == [row1 EXCEPT !.req = month, !.cost = month, !.blocked = FALSE]
             q1 == Taken(q, one, r.req, 1)
             d1 == Taken(d, one, r.cost, Price)
             q2 == Renewed(q1, 1)
             d2 == Renewed(d1, Price)
             fits == Fits(q1[month], 1, Limit) /\ Fits(d1[month], Price, UsdLimit)
             plan == ReserveBoth(r, q, d)
  <1>1. /\ row1 \in JobRow
        /\ row1.req = IF one THEN Never ELSE r.req
        /\ row1.cost = IF one THEN Never ELSE r.cost
    BY ReturnedOne
  <1>2. ~both => row1.req # month /\ row1.cost # month
    BY <1>1, Bounds
  <1>3. one \in BOOLEAN /\ 1 \in Nat /\ Price \in Nat /\ Limit \in Nat /\ UsdLimit \in Nat
    BY LimitAssumption
  <1>4. plan = IF q1[month].open
               THEN [granted |-> FALSE, row |-> row2, reqs |-> q1, usd |-> d1]
               ELSE IF both
               THEN [granted |-> TRUE, row |-> row3, reqs |-> q, usd |-> d]
               ELSE IF ~fits
               THEN [granted |-> FALSE, row |-> row1, reqs |-> q1, usd |-> d1]
               ELSE [granted |-> TRUE, row |-> row4, reqs |-> q2, usd |-> d2]
    BY Zenon DEF ReserveBoth, Taken, Renewed
  <1>5. both => ~one
    OBVIOUS
  <1> HIDE DEF both, row1, q1, d1, q2, d2, fits, plan
  <1>6. row2.req = row1.req /\ row2.cost = row1.cost /\ row3.req = row1.req /\ row3.cost = row1.cost
    BY <1>1, EditedRow
  <1>7. row4.req = month /\ row4.cost = month
    BY <1>1, JobRowIs
  <1> HIDE DEF row2, row3, row4
  <1>8. \/ plan.row \in {row1, row2} /\ plan.reqs = q1 /\ plan.usd = d1
        \/ both /\ plan.row = row3 /\ plan.reqs = q /\ plan.usd = d
        \/ ~both /\ fits /\ plan.row = row4 /\ plan.reqs = q2 /\ plan.usd = d2
    BY <1>4
  <1> HIDE DEF one
  <1>9. /\ q1 \in Ledger /\ Exchanged(q, q1, r.req, row1.req, 1, Limit)
        /\ d1 \in Ledger /\ Exchanged(d, d1, r.cost, row1.cost, Price, UsdLimit)
    BY <1>1, <1>3, TakenExchange DEF q1, d1
  <1>10. CASE plan.row \in {row1, row2} /\ plan.reqs = q1 /\ plan.usd = d1
    BY <1>6, <1>9, <1>10 DEF plan
  <1>11. CASE both /\ plan.row = row3 /\ plan.reqs = q /\ plan.usd = d
    <2>1. plan.row.req = r.req /\ plan.row.cost = r.cost
      BY <1>1, <1>5, <1>6, <1>11
    <2>2. QED
      BY <1>3, <1>11, <2>1, SameExchange DEF plan
  <1>12. CASE ~both /\ fits /\ plan.row = row4 /\ plan.reqs = q2 /\ plan.usd = d2
    <2>1. Exchanged(q, q2, r.req, month, 1, Limit)
      BY <1>2, <1>3, <1>9, <1>12, RenewedExchange DEF fits, q2
    <2>2. Exchanged(d, d2, r.cost, month, Price, UsdLimit)
      BY <1>2, <1>3, <1>9, <1>12, RenewedExchange DEF fits, d2
    <2>3. QED
      BY <1>7, <1>12, <2>1, <2>2 DEF plan
  <1>13. QED
    BY <1>8, <1>10, <1>11, <1>12

\* The ledgers stay sound when the row of one job is renewed.
LEMMA ReserveLedgers ==
  ASSUME NEW q \in Ledger, NEW d \in Ledger, NEW J, NEW J2, NEW a \in Assets, J[a] \in JobRow, month \in Months,
         BothBacked(q, d, J), \A b \in Assets : b # a => J2[b] = J[b],
         J2[a].req = ReserveBoth(J[a], q, d).row.req, J2[a].cost = ReserveBoth(J[a], q, d).row.cost
  PROVE  BothBacked(ReserveBoth(J[a], q, d).reqs, ReserveBoth(J[a], q, d).usd, J2)
  <1> DEFINE plan == ReserveBoth(J[a], q, d)
             r == J[a]
  <1>1. /\ Exchanged(q, plan.reqs, r.req, plan.row.req, 1, Limit)
        /\ Exchanged(d, plan.usd, r.cost, plan.row.cost, Price, UsdLimit)
    BY ReserveExchange
  <1>2. plan.reqs \in Ledger /\ plan.usd \in Ledger
    BY ReservedLedgers
  <1>3. J2[a].req = plan.row.req /\ J2[a].cost = plan.row.cost
    OBVIOUS
  <1> HIDE DEF plan
  <1>4. 1 \in Nat /\ Price \in Nat /\ Limit \in Nat /\ UsdLimit \in Nat
    BY LimitAssumption
  <1>5. /\ Reqs(J)[a] = r.req /\ Reqs(J2)[a] = plan.row.req /\ Costs(J)[a] = r.cost /\ Costs(J2)[a] = plan.row.cost
        /\ \A b \in Assets : b # a => Reqs(J2)[b] = Reqs(J)[b] /\ Costs(J2)[b] = Costs(J)[b]
    BY <1>3 DEF Reqs, Costs
  <1>6. Backed(q, Reqs(J), 1, Limit) /\ Backed(d, Costs(J), Price, UsdLimit)
    BY DEF BothBacked
  <1> DEFINE f == Reqs(J)
             f2 == Reqs(J2)
             g == Costs(J)
             g2 == Costs(J2)
  <1>10. /\ \A m \in Months : Exchanges(q[m], plan.reqs[m], Share(f[a], m, 1), Share(f2[a], m, 1), Limit)
         /\ \A m \in Months : Exchanges(d[m], plan.usd[m], Share(g[a], m, Price), Share(g2[a], m, Price), UsdLimit)
    BY <1>1, <1>5 DEF Exchanged
  <1>11. \A b \in Assets : b # a => f2[b] = f[b] /\ g2[b] = g[b]
    BY <1>5
  <1>12. Backed(q, f, 1, Limit) /\ Backed(d, g, Price, UsdLimit)
    BY <1>6
  <1> HIDE DEF f, f2, g, g2
  <1>7. Backed(plan.reqs, f2, 1, Limit)
    <2> DEFINE u == 1
    <2>1. /\ u \in Nat /\ Backed(q, f, u, Limit)
          /\ \A m \in Months : Exchanges(q[m], plan.reqs[m], Share(f[a], m, u), Share(f2[a], m, u), Limit)
      BY <1>10, <1>12
    <2>3. \A b \in Assets : b # a => f2[b] = f[b]
      BY <1>11
    <2> HIDE DEF u
    <2>2. Backed(plan.reqs, f2, u, Limit)
      BY <1>2, <1>4, <2>1, <2>3, SwapBacked
    <2>4. QED
      BY <2>2 DEF u
  <1>8. Backed(plan.usd, g2, Price, UsdLimit)
    BY <1>2, <1>4, <1>10, <1>11, <1>12, SwapBacked
  <1>9. QED
    BY <1>7, <1>8 DEF BothBacked, plan, f2, g2

-----------------------------------------------------------------------------
(* The handlers.                                                           *)

LEMMA SoundAfter == LedgersSound' <=> BothBacked(reqs', usd', job')
  BY DEF LedgersSound, BothBacked, Backed, Count, Reqs, Costs

\* A step in which jobs lose what the ledgers give back.
LEMMA LoseStep ==
  ASSUME TypeInv, TypeInv', LedgersSound, NEW S \in SUBSET Assets, NEW T \in SUBSET Assets,
         GiveBack(reqs', usd', S, T),
         \A a \in Assets : /\ job'[a].req \in {job[a].req, Never} /\ (a \in S => job'[a].req = Never)
                           /\ job'[a].cost \in {job[a].cost, Never} /\ (a \in T => job'[a].cost = Never)
  PROVE  LedgersSound'
  <1>1. reqs' \in Ledger /\ usd' \in Ledger /\ LedgersOK
    BY DEF TypeInv, LedgersOK
  <1>2. BothBacked(reqs', usd', job')
    BY <1>1, LoseLedgers
  <1>3. QED
    BY <1>2, SoundAfter

LEMMA LoseOne ==
  ASSUME TypeInv, TypeInv', LedgersSound, NEW a \in Assets, NEW S \in SUBSET {a}, NEW T \in SUBSET {a}, NEW r,
         GiveBack(reqs', usd', S, T), job' = [job EXCEPT ![a] = r],
         r.req \in {job[a].req, Never}, a \in S => r.req = Never,
         r.cost \in {job[a].cost, Never}, a \in T => r.cost = Never
  PROVE  LedgersSound'
  <1>1. S \in SUBSET Assets /\ T \in SUBSET Assets /\ job \in [Assets -> SoundRows]
    BY DEF TypeInv, JobsOK
  <1>2. \A b \in Assets : /\ job'[b].req \in {job[b].req, Never} /\ (b \in S => job'[b].req = Never)
                          /\ job'[b].cost \in {job[b].cost, Never} /\ (b \in T => job'[b].cost = Never)
    BY <1>1
  <1>3. QED
    BY <1>1, <1>2, LoseStep

\* A step that leaves the ledgers and what jobs hold alone.
LEMMA KeepStep ==
  ASSUME TypeInv, TypeInv', LedgersSound, UNCHANGED ledgers,
         \A a \in Assets : job'[a].req \in {job[a].req, Never} /\ job'[a].cost \in {job[a].cost, Never}
  PROVE  LedgersSound'
  <1>1. reqs' = reqs /\ usd' = usd
    BY DEF ledgers
  <1>2. GiveBack(reqs', usd', {}, {})
    BY <1>1, KeepGives DEF TypeInv
  <1>3. {} \in SUBSET Assets
    OBVIOUS
  <1>4. QED
    BY <1>2, <1>3, LoseStep

\* The circuit is no part of what a ledger holds.
LEMMA CircuitGives ==
  ASSUME NEW q \in Ledger, NEW d, NEW S, NEW T, GiveBack(q, d, S, T), NEW b \in BOOLEAN
  PROVE  /\ GiveBack([q EXCEPT ![month].open = b], d, S, T)
         /\ GiveBack(Circuit(q, OpenCircuit(q[month])), d, S, T)
  <1>1. ASSUME NEW q2, \A m \in Months : q2[m].reserved = q[m].reserved /\ q2[m].processed = q[m].processed
        PROVE  GiveBack(q2, d, S, T)
    BY <1>1 DEF GiveBack, Gives
  <1>2. \A m \in Months : LET n == [q EXCEPT ![month].open = b][m] IN n.reserved = q[m].reserved /\ n.processed = q[m].processed
    BY DEF Ledger, LedgerRow
  <1>3. \A m \in Months : LET n == Circuit(q, OpenCircuit(q[month]))[m] IN
                           n.reserved = q[m].reserved /\ n.processed = q[m].processed
    BY DEF Circuit, OpenCircuit, Ledger, LedgerRow
  <1>4. QED
    BY <1>1, <1>2, <1>3

LEMMA StopLedgers ==
  ASSUME TypeInv, TypeInv', LedgersSound, NEW S \in SUBSET Assets, NEW code \in JobCodes, StopJobs(S, code)
  PROVE  LedgersSound'
  <1> DEFINE called == {a \in S : CallStarted(job[a])}
             row(a) == Moved(SettledRow(job[a], a \in called), "Cancelled", code, Never)
  <1>1. /\ reqs' = SettleReqs(called, S \ called) /\ usd' = SettleUsd(called, S \ called)
        /\ job' = [a \in Assets |-> IF a \in S THEN row(a) ELSE job[a]]
    BY DEF StopJobs
  <1>2. called \in SUBSET Assets /\ S \ called \in SUBSET Assets /\ called \cap (S \ called) = {}
        /\ called \cup (S \ called) = S
    OBVIOUS
  <1>3. ASSUME NEW a \in Assets PROVE row(a).req = Never /\ row(a).cost = Never
    <2>1. job[a] \in JobRow /\ (a \in called) \in BOOLEAN
      BY IdleSound DEF TypeInv, JobsOK
    <2> HIDE DEF called
    <2>2. /\ SettledRow(job[a], a \in called) \in JobRow
          /\ SettledRow(job[a], a \in called).req = Never /\ SettledRow(job[a], a \in called).cost = Never
      BY <2>1, SettledOne
    <2> DEFINE n == SettledRow(job[a], a \in called)
    <2>3. n \in JobRow /\ n.req = Never /\ n.cost = Never /\ "Cancelled" \in JobStatuses /\ Never \in Dues
      BY <2>2, Names, Bounds
    <2> HIDE DEF n
    <2>4. Moved(n, "Cancelled", code, Never).req = n.req /\ Moved(n, "Cancelled", code, Never).cost = n.cost
      BY <2>3, MovedRow
    <2>5. QED
      BY <2>3, <2>4 DEF n
  <1> HIDE DEF called, row
  <1>4. GiveBack(reqs', usd', S, S)
    <2>1. GiveBack(SettleReqs(called, S \ called), SettleUsd(called, S \ called),
                   called \cup (S \ called), called \cup (S \ called))
      BY <1>2, SettleGives DEF TypeInv
    <2>2. QED
      BY <1>1, <1>2, <2>1
  <1>5. QED
    BY <1>1, <1>3, <1>4, LoseStep

LEMMA PhotoLedgers ==
  ASSUME TypeInv, TypeInv', LedgersSound, NEW a \in Assets,
         \/ PrepareEnrichment(a) \/ CancelJob(a) \/ TrashAsset(a) \/ RestoreAsset(a) \/ ExpireLease(a)
         \/ \E c \in Claims : ClaimByok(a, c) \/ SaveByok(a, c)
  PROVE  LedgersSound'
  <1>0. job \in [Assets -> SoundRows] /\ job[a] \in JobRow
    BY IdleSound DEF TypeInv, JobsOK
  <1>1. CASE PrepareEnrichment(a)
    <2> DEFINE r == [NoJob EXCEPT !.status = "Preparing", !.attempts = job[a].attempts]
    <2>1. r.req = Never /\ r.cost = Never
      BY DEF NoJob
    <2> HIDE DEF r
    <2>2. job' = [job EXCEPT ![a] = r] /\ UNCHANGED ledgers
      BY <1>1 DEF PrepareEnrichment, r
    <2>3. QED
      BY <1>0, <2>1, <2>2, KeepStep
  <1>2. CASE CancelJob(a)
    BY <1>2, StopLedgers, Names DEF CancelJob
  <1>3. CASE TrashAsset(a)
    <2>1. {b \in {a} : job[b].status \in {"Preparing", "Queued", "Running", "DeferredQuota"}} \in SUBSET Assets
      OBVIOUS
    <2>2. QED
      BY <1>3, <2>1, StopLedgers, Names DEF TrashAsset
  <1>4. CASE RestoreAsset(a)
    BY <1>4, KeepStep DEF RestoreAsset
  <1>5. CASE ExpireLease(a)
    <2> DEFINE r == [job[a] EXCEPT !.live = FALSE]
    <2>1. r.req = job[a].req /\ r.cost = job[a].cost
      BY <1>0, EditedRow
    <2> HIDE DEF r
    <2>2. job' = [job EXCEPT ![a] = r] /\ UNCHANGED ledgers
      BY <1>5 DEF ExpireLease, r
    <2>3. QED
      BY <1>0, <2>1, <2>2, KeepStep
  <1>6. ASSUME NEW c \in Claims, ClaimByok(a, c) PROVE LedgersSound'
    BY <1>6, KeepStep DEF ClaimByok
  <1>7. ASSUME NEW c \in Claims, SaveByok(a, c) PROVE LedgersSound'
    <2> DEFINE r == [job[a] EXCEPT !.status = "Succeeded", !.due = Never]
    <2>1. r.req = job[a].req /\ r.cost = job[a].cost
      BY <1>0, JobRowIs
    <2> HIDE DEF r
    <2>2. job' = [job EXCEPT ![a] = r] /\ UNCHANGED ledgers
      BY <1>7 DEF SaveByok, r
    <2>3. QED
      BY <1>0, <2>1, <2>2, KeepStep
  <1>8. QED
    BY <1>1, <1>2, <1>3, <1>4, <1>5, <1>6, <1>7

LEMMA UploadLedgers ==
  ASSUME TypeInv, TypeInv', LedgersSound, NEW u \in Uploads,
         \/ PutObject(u) \/ GetUploadSession(u) \/ CompleteUpload(u) \/ CancelUpload(u) \/ ExpireUpload(u)
  PROVE  LedgersSound'
  <1> DEFINE a == upload[u].asset
  <1>0. /\ (upload[u].status # "None" => a \in Assets)
        /\ job \in [Assets -> SoundRows] /\ \A b \in Assets : job[b] \in JobRow
    BY IdleSound DEF TypeInv, UploadsOK, JobsOK
  <1>1. CASE PutObject(u) \/ ExpireUpload(u)
    BY <1>1, KeepStep DEF PutObject, ExpireUpload
  <1>2. CASE GetUploadSession(u)
    <2> DEFINE S == {b \in {a} : job[b].status = "Preparing"}
    <2>1. /\ job' = [b \in Assets |-> IF b \in S THEN ReturnedRow(job[b]) ELSE job[b]]
          /\ reqs' = ReturnReqs(S) /\ usd' = ReturnUsd(S) /\ upload[u].status # "None"
      BY <1>2 DEF GetUploadSession, Uploading
    <2>2. S \in SUBSET Assets
      BY <1>0, <2>1
    <2> HIDE DEF S
    <2>3. GiveBack(reqs', usd', S, S)
      BY <2>1, <2>2, ReturnGives DEF TypeInv
    <2>4. QED
      BY <1>0, <2>1, <2>2, <2>3, ReturnedOne, LoseStep
  <1>3. CASE CompleteUpload(u)
    <2> DEFINE n == Moved(job[a], "Queued", "None", month)
               r == [n EXCEPT !.staged = u]
    <2>1. job' = [job EXCEPT ![a] = r] /\ a \in Assets /\ UNCHANGED ledgers
      BY <1>0, <1>3 DEF CompleteUpload, Uploading
    <2>5. job[a] \in JobRow /\ "Queued" \in JobStatuses /\ "None" \in JobCodes /\ month \in Dues
      BY <1>0, <2>1, Names, Bounds DEF TypeInv, WorkOK
    <2>2. n \in JobRow /\ n.req = job[a].req /\ n.cost = job[a].cost
      BY <2>5, MovedRow
    <2> HIDE DEF n
    <2>3. r.req = job[a].req /\ r.cost = job[a].cost
      BY <2>2, EditedRow
    <2> HIDE DEF r
    <2>4. QED
      BY <1>0, <2>1, <2>3, KeepStep
  <1>4. CASE CancelUpload(u)
    <2> DEFINE n == Unstaged(ReturnedRow(job[a]))
               r == [n EXCEPT !.due = Never]
    <2>1. /\ job' = [job EXCEPT ![a] = r] /\ reqs' = ReturnReqs({a}) /\ usd' = ReturnUsd({a})
          /\ upload[u].status # "None"
      BY <1>4 DEF CancelUpload
    <2>2. a \in Assets /\ {a} \in SUBSET Assets /\ job[a] \in JobRow
      BY <1>0, <2>1
    <2>3. n \in JobRow /\ n.req = Never /\ n.cost = Never
      BY <2>2, ReturnedOne, UnstagedOne
    <2> HIDE DEF n
    <2>4. r.req = Never /\ r.cost = Never
      BY <2>3, EditedRow, Bounds
    <2>5. GiveBack(reqs', usd', {a}, {a})
      BY <2>1, <2>2, ReturnGives DEF TypeInv
    <2> HIDE DEF r, a
    <2>6. QED
      BY <2>1, <2>2, <2>4, <2>5, LoseOne
  <1>5. QED
    BY <1>1, <1>2, <1>3, <1>4

LEMMA RetryLedgers ==
  ASSUME TypeInv, TypeInv', LedgersSound, NEW a \in Assets, RetryJob(a)
  PROVE  LedgersSound'
  <1> DEFINE open == byok[a] = None /\ reqs[month].open
             recovered == {b \in Assets \ {a} : /\ open
                                                /\ job[b].status = "DeferredQuota"
                                                /\ job[b].code = "ProviderCircuitOpen"}
             mine(b) == [Moved(Unstaged(ReturnedRow(job[b])), "Preparing", "None", Never) EXCEPT
                           !.attempts = IF job[b].status = "DeferredQuota" THEN 0 ELSE @]
             other(b) == [Moved(Unstaged(job[b]), "Preparing", "None", Never) EXCEPT
                            !.attempts = 0, !.blocked = FALSE]
             closed == IF open THEN FALSE ELSE ReturnReqs({a})[month].open
  <1>1. /\ reqs' = [ReturnReqs({a}) EXCEPT ![month].open = closed] /\ usd' = ReturnUsd({a})
        /\ job' = [b \in Assets |-> IF b = a THEN mine(b) ELSE IF b \in recovered THEN other(b) ELSE job[b]]
    BY DEF RetryJob
  <1>2. ReturnReqs({a}) \in Ledger /\ LedgersOK /\ {a} \in SUBSET Assets
    BY ReturnedLedgers DEF TypeInv
  <1>3. closed \in BOOLEAN
    BY <1>2 DEF Ledger, LedgerRow, TypeInv, WorkOK
  <1> HIDE DEF closed
  <1>4. GiveBack(reqs', usd', {a}, {a})
    <2>1. GiveBack(ReturnReqs({a}), ReturnUsd({a}), {a}, {a})
      BY <1>2, ReturnGives
    <2>2. QED
      BY <1>1, <1>2, <1>3, <2>1, CircuitGives
  <1>5. ASSUME NEW b \in Assets
        PROVE  /\ mine(b).req = Never /\ mine(b).cost = Never
               /\ other(b).req = job[b].req /\ other(b).cost = job[b].cost
    <2> DEFINE r == Unstaged(ReturnedRow(job[b]))
               o == Unstaged(job[b])
    <2>1. job[b] \in JobRow
      BY IdleSound DEF TypeInv, JobsOK
    <2>2. ReturnedRow(job[b]) \in JobRow /\ ReturnedRow(job[b]).req = Never /\ ReturnedRow(job[b]).cost = Never
      BY <2>1, ReturnedOne
    <2>3. /\ r \in JobRow /\ r.req = Never /\ r.cost = Never
          /\ o \in JobRow /\ o.req = job[b].req /\ o.cost = job[b].cost
      BY <2>1, <2>2, UnstagedOne
    <2>4. "Preparing" \in JobStatuses /\ "None" \in JobCodes /\ Never \in Dues
      BY Names, Bounds
    <2> DEFINE rm == Moved(r, "Preparing", "None", Never)
               om == Moved(o, "Preparing", "None", Never)
    <2> HIDE DEF r, o
    <2>5. /\ rm \in JobRow /\ rm.req = r.req /\ rm.cost = r.cost
          /\ om \in JobRow /\ om.req = o.req /\ om.cost = o.cost
      BY <2>3, <2>4, MovedRow
    <2> HIDE DEF rm, om
    <2>6. \A k : [rm EXCEPT !.attempts = k].req = rm.req /\ [rm EXCEPT !.attempts = k].cost = rm.cost
      BY <2>5, JobRowIs
    <2>7. [om EXCEPT !.attempts = 0, !.blocked = FALSE].req = om.req /\ [om EXCEPT !.attempts = 0, !.blocked = FALSE].cost = om.cost
      BY <2>5, JobRowIs
    <2>8. mine(b).req = Never /\ mine(b).cost = Never
      BY <2>3, <2>5, <2>6 DEF rm, r
    <2>9. other(b).req = job[b].req /\ other(b).cost = job[b].cost
      BY <2>3, <2>5, <2>7 DEF om, o
    <2>10. QED
      BY <2>8, <2>9
  <1> HIDE DEF mine, other, recovered
  <1>6. QED
    BY <1>1, <1>2, <1>4, <1>5, LoseStep

\* Giving back more, when that is held by other jobs.
LEMMA GiveBackMore ==
  ASSUME LedgersOK, NEW q \in Ledger, NEW d \in Ledger, NEW q2 \in Ledger, NEW d2 \in Ledger,
         NEW S \in SUBSET Assets, NEW T \in SUBSET Assets, S \cap T = {}, GiveBack(q, d, S, S),
         \A m \in Months : Gives(q[m], q2[m], HoldReq(T, m)) /\ Gives(d[m], d2[m], Price * HoldCost(T, m))
  PROVE  GiveBack(q2, d2, S \cup T, S \cup T)
  <1> SUFFICES ASSUME NEW m \in Months
               PROVE  /\ Gives(reqs[m], q2[m], 1 * Count(Reqs(job), S \cup T, m))
                      /\ Gives(usd[m], d2[m], Price * Count(Costs(job), S \cup T, m))
    BY DEF GiveBack
  <1> DEFINE n == Count(Reqs(job), S, m)
             k == Count(Reqs(job), T, m)
             x == Count(Costs(job), S, m)
             y == Count(Costs(job), T, m)
  <1>1. n \in Nat /\ k \in Nat /\ x \in Nat /\ y \in Nat
    BY CountType
  <1>2. Count(Reqs(job), S \cup T, m) = n + k /\ Count(Costs(job), S \cup T, m) = x + y
    BY CountUnion
  <1>3. HoldReq(T, m) = k /\ HoldCost(T, m) = y
    BY HoldIs
  <1>4. Gives(reqs[m], q[m], 1 * n) /\ Gives(usd[m], d[m], Price * x)
    BY DEF GiveBack
  <1>5. Gives(q[m], q2[m], k) /\ Gives(d[m], d2[m], Price * y)
    BY <1>3
  <1>6. q[m] \in LedgerRow /\ q2[m] \in LedgerRow /\ d[m] \in LedgerRow /\ d2[m] \in LedgerRow
        /\ reqs[m] \in LedgerRow /\ usd[m] \in LedgerRow
    BY DEF Ledger, LedgersOK
  <1> HIDE DEF n, k, x, y
  <1>7. /\ 1 * n = n /\ n + k \in Nat /\ 1 * (n + k) = n + k
        /\ Price * x \in Nat /\ Price * y \in Nat /\ Price * (x + y) = Price * x + Price * y
    BY <1>1, Times, LimitAssumption
  <1> DEFINE px == Price * x
             py == Price * y
  <1>8. px \in Nat /\ py \in Nat /\ Price * (x + y) = px + py /\ Gives(usd[m], d[m], px) /\ Gives(d[m], d2[m], py)
    BY <1>4, <1>5, <1>7
  <1>9. Gives(reqs[m], q[m], n)
    BY <1>4, <1>7
  <1> HIDE DEF px, py
  <1>10. Gives(reqs[m], q2[m], n + k) /\ Gives(usd[m], d2[m], px + py)
    BY <1>1, <1>5, <1>6, <1>8, <1>9, GivesTwice
  <1>11. QED
    BY <1>2, <1>7, <1>8, <1>10

LEMMA SweepLedgers ==
  ASSUME TypeInv, TypeInv', LedgersSound, NEW old \in SUBSET DueQueued, NEW batch, Sweep(old, batch)
  PROVE  LedgersSound'
  <1> DEFINE called    == {a \in AllExpired : CallStarted(job[a])}
             uncalled  == AllExpired \ called
             exhausted == {a \in old \cup AllExpired : Exhausted(a)}
             requeued  == (old \cup AllExpired) \ exhausted
             row(a)    == IF a \in AllExpired THEN SettledRow(job[a], a \in called) ELSE job[a]
             back(a)   == [Moved(Unstaged(ReturnedRow(job[a])), "Preparing", "None", Never) EXCEPT !.attempts = 0]
             q == SettleReqs(called, uncalled)
             d == SettleUsd(called, uncalled)
             n(m) == HoldReq(DueDeferred, m)
             k(m) == Price * HoldCost(DueDeferred, m)
  <1>0. /\ \A a \in Assets : job[a] \in JobRow
        /\ AllExpired \in SUBSET Assets /\ DueDeferred \in SUBSET Assets
        /\ month \in Dues /\ LedgersOK /\ reqs' \in Ledger /\ usd' \in Ledger
        /\ AllExpired \cap DueDeferred = {} /\ old \cap DueDeferred = {}
    BY IdleSound, Bounds DEF TypeInv, JobsOK, WorkOK, AllExpired, DueDeferred, DueQueued, LedgersOK, Expired
  <1>1. /\ reqs' = [m \in Months |-> Settle(q[m], 0, n(m))]
        /\ usd' = [m \in Months |-> Settle(d[m], 0, k(m))]
        /\ job' = [a \in Assets |->
             IF a \in exhausted THEN Moved(row(a), "Failed", "Other", Never)
             ELSE IF a \in requeued THEN Moved(row(a), "Queued", "None", month)
             ELSE IF a \in DueDeferred THEN back(a)
             ELSE job[a]]
    BY DEF Sweep
  <1>2. called \in SUBSET Assets /\ uncalled \in SUBSET Assets /\ called \cap uncalled = {} /\ called \cup uncalled = AllExpired
    BY <1>0
  <1>3. GiveBack(q, d, AllExpired, AllExpired) /\ q \in Ledger /\ d \in Ledger
    <2>1. GiveBack(q, d, called \cup uncalled, called \cup uncalled)
      BY <1>0, <1>2, SettleGives
    <2>2. q \in Ledger /\ d \in Ledger
      BY <1>0, <1>2, SettledLedgers
    <2>3. QED
      BY <1>2, <2>1, <2>2
  <1>4. ASSUME NEW a \in old \cup AllExpired
        PROVE  /\ row(a) \in JobRow /\ row(a).req \in {job[a].req, Never} /\ row(a).cost \in {job[a].cost, Never}
               /\ (a \in AllExpired => row(a).req = Never /\ row(a).cost = Never)
    <2>1. CASE a \in AllExpired
      <3>1. job[a] \in JobRow /\ (a \in called) \in BOOLEAN
        BY <1>0, <2>1
      <3> HIDE DEF called
      <3>2. /\ SettledRow(job[a], a \in called) \in JobRow
            /\ SettledRow(job[a], a \in called).req = Never /\ SettledRow(job[a], a \in called).cost = Never
        BY <3>1, SettledOne
      <3>3. QED
        BY <2>1, <3>2
    <2>2. CASE a \notin AllExpired
      BY <1>0, <2>2 DEF DueQueued
    <2>3. QED
      BY <2>1, <2>2
  <1>5. ASSUME NEW a \in Assets PROVE back(a).req = Never /\ back(a).cost = Never
    <2> DEFINE r == Unstaged(ReturnedRow(job[a]))
    <2>1. ReturnedRow(job[a]) \in JobRow /\ ReturnedRow(job[a]).req = Never /\ ReturnedRow(job[a]).cost = Never
      BY <1>0, ReturnedOne
    <2>2. r \in JobRow /\ r.req = Never /\ r.cost = Never /\ "Preparing" \in JobStatuses /\ "None" \in JobCodes /\ Never \in Dues
      BY <2>1, UnstagedOne, Names, Bounds
    <2> DEFINE rm == Moved(r, "Preparing", "None", Never)
    <2> HIDE DEF r
    <2>3. rm \in JobRow /\ rm.req = r.req /\ rm.cost = r.cost
      BY <2>2, MovedRow
    <2> HIDE DEF rm
    <2>4. [rm EXCEPT !.attempts = 0].req = rm.req /\ [rm EXCEPT !.attempts = 0].cost = rm.cost
      BY <2>3, JobRowIs
    <2>5. QED
      BY <2>2, <2>3, <2>4 DEF rm, r
  <1>6. GiveBack(reqs', usd', AllExpired \cup DueDeferred, AllExpired \cup DueDeferred)
    <2>1. ASSUME NEW m \in Months PROVE Gives(q[m], reqs'[m], n(m)) /\ Gives(d[m], usd'[m], k(m))
      <3> DEFINE nm == n(m)
                 km == k(m)
      <3>1. q[m] \in LedgerRow /\ d[m] \in LedgerRow /\ nm \in Nat /\ km \in Nat /\ 0 \in Nat
        BY <1>0, <1>3, Counts DEF Ledger
      <3>2. reqs'[m] = Settle(q[m], 0, nm) /\ usd'[m] = Settle(d[m], 0, km) /\ 0 + nm = nm /\ 0 + km = km
        BY <1>1, <3>1
      <3> HIDE DEF n, k, q, d, nm, km
      <3>3. Gives(q[m], Settle(q[m], 0, nm), 0 + nm) /\ Gives(d[m], Settle(d[m], 0, km), 0 + km)
        BY <3>1, RowGives
      <3>4. QED
        BY <3>2, <3>3 DEF nm, km
    <2>2. \A m \in Months : Gives(q[m], reqs'[m], HoldReq(DueDeferred, m)) /\ Gives(d[m], usd'[m], Price * HoldCost(DueDeferred, m))
      BY <2>1
    <2> HIDE DEF q, d
    <2>3. QED
      BY <1>0, <1>3, <2>2, GiveBackMore
  <1> HIDE DEF row, back
  <1>7. ASSUME NEW a \in old \cup AllExpired
        PROVE  /\ Moved(row(a), "Failed", "Other", Never).req = row(a).req
               /\ Moved(row(a), "Failed", "Other", Never).cost = row(a).cost
               /\ Moved(row(a), "Queued", "None", month).req = row(a).req
               /\ Moved(row(a), "Queued", "None", month).cost = row(a).cost
    <2>1. /\ "Failed" \in JobStatuses /\ "Other" \in JobCodes /\ Never \in Dues
          /\ "Queued" \in JobStatuses /\ "None" \in JobCodes /\ month \in Dues
      BY <1>0, Names, Bounds
    <2>2. row(a) \in JobRow
      BY <1>4
    <2>3. QED
      BY <2>1, <2>2, MovedRow
  <1>8. exhausted \cup requeued = old \cup AllExpired
    OBVIOUS
  <1> HIDE DEF exhausted, requeued
  <1>9. ASSUME NEW a \in Assets
        PROVE  /\ job'[a].req \in {job[a].req, Never} /\ (a \in AllExpired \cup DueDeferred => job'[a].req = Never)
               /\ job'[a].cost \in {job[a].cost, Never} /\ (a \in AllExpired \cup DueDeferred => job'[a].cost = Never)
    <2>1. CASE a \in old \cup AllExpired
      <3>1. a \notin DueDeferred
        BY <1>0, <2>1
      <3>2. job'[a].req = row(a).req /\ job'[a].cost = row(a).cost
        BY <1>1, <1>7, <1>8, <2>1
      <3>3. QED
        BY <1>4, <2>1, <3>1, <3>2
    <2>2. CASE a \notin old \cup AllExpired
      BY <1>1, <1>5, <1>8, <2>2
    <2>3. QED
      BY <2>1, <2>2
  <1>10. AllExpired \cup DueDeferred \in SUBSET Assets
    BY <1>0
  <1>11. QED
    BY <1>6, <1>9, <1>10, LoseStep

LEMMA PlanLedgers ==
  ASSUME TypeInv, TypeInv', LedgersSound, NEW a \in Assets, NEW u \in Uploads, CreateUploadPlan(a, u)
  PROVE  LedgersSound'
  <1> DEFINE due   == job[a].status = "DeferredQuota" /\ job[a].due \in 1..month
             stale == {v \in Uploads : Uploading(v) /\ upload[v].late}
             back  == {b \in Assets : \/ b = a /\ due
                                      \/ /\ job[b].status = "Preparing" \/ b = a
                                         /\ \E v \in stale : upload[v].asset = b}
             base  == [b \in Assets |-> IF b \in back THEN ReturnedRow(job[b]) ELSE job[b]]
             start == IF due THEN [base[a] EXCEPT !.status = "Preparing", !.code = "None",
                                                  !.attempts = 0, !.due = Never]
                             ELSE base[a]
             q == ReturnReqs(back)
             d == ReturnUsd(back)
             plan  == ReserveBoth(start, q, d)
             mid   == [base EXCEPT ![a] = start]
             deferred == Moved(plan.row, "DeferredQuota",
                           IF plan.row.blocked THEN "ProviderCircuitOpen" ELSE "Other", month + 1)
  <1>1. \/ job' = mid /\ reqs' = q /\ usd' = d
        \/ reqs' = plan.reqs /\ usd' = plan.usd /\ job' = [base EXCEPT ![a] = plan.row]
        \/ reqs' = plan.reqs /\ usd' = plan.usd /\ job' = [base EXCEPT ![a] = deferred]
    BY DEF CreateUploadPlan
  <1>2. back \in SUBSET Assets /\ LedgersOK /\ month \in Months /\ month + 1 \in Dues
    BY Bounds DEF TypeInv, WorkOK
  <1>3. q \in Ledger /\ d \in Ledger
    BY <1>2, ReturnedLedgers
  <1>4. base \in [Assets -> JobRow]
    BY IdleSound, ReturnedOne DEF TypeInv, JobsOK
  <1>5. start \in JobRow /\ start.req = base[a].req /\ start.cost = base[a].cost
    <2> DEFINE r == base[a]
    <2>1. r \in JobRow
      BY <1>4
    <2> HIDE DEF r
    <2>2. LET n == [r EXCEPT !.status = "Preparing", !.code = "None", !.attempts = 0, !.due = Never]
          IN  n \in JobRow /\ n.req = r.req /\ n.cost = r.cost
      BY <2>1, JobRowIs, Names, Bounds
    <2>3. QED
      BY <2>1, <2>2 DEF r
  <1>6. \A b \in Assets : /\ base[b].req \in {job[b].req, Never} /\ (b \in back => base[b].req = Never)
                          /\ base[b].cost \in {job[b].cost, Never} /\ (b \in back => base[b].cost = Never)
    BY IdleSound, ReturnedOne DEF TypeInv, JobsOK
  <1> HIDE DEF due, base, start, back
  <1>7. GiveBack(q, d, back, back)
    BY <1>2, ReturnGives
  <1> HIDE DEF q, d
  <1>8. BothBacked(q, d, mid)
    <2>1. \A b \in Assets : mid[b].req = base[b].req /\ mid[b].cost = base[b].cost
      BY <1>4, <1>5
    <2> HIDE DEF mid
    <2>2. QED
      BY <1>2, <1>3, <1>6, <1>7, <2>1, LoseLedgers
  <1>9. mid[a] = start
    BY <1>4
  <1>10. CASE job' = mid /\ reqs' = q /\ usd' = d
    BY <1>8, <1>10, SoundAfter
  <1>11. ASSUME NEW r, r.req = plan.row.req, r.cost = plan.row.cost,
                reqs' = plan.reqs, usd' = plan.usd, job' = [base EXCEPT ![a] = r]
         PROVE  LedgersSound'
    <2>1. /\ job'[a].req = ReserveBoth(mid[a], q, d).row.req /\ job'[a].cost = ReserveBoth(mid[a], q, d).row.cost
          /\ reqs' = ReserveBoth(mid[a], q, d).reqs /\ usd' = ReserveBoth(mid[a], q, d).usd
      BY <1>4, <1>9, <1>11
    <2>2. \A b \in Assets : b # a => job'[b] = mid[b]
      BY <1>4, <1>11
    <2>3. mid[a] \in JobRow
      BY <1>5, <1>9
    <2> HIDE DEF mid, plan
    <2>4. BothBacked(reqs', usd', job')
      BY <1>2, <1>3, <1>8, <2>1, <2>2, <2>3, ReserveLedgers
    <2>5. QED
      BY <2>4, SoundAfter
  <1>12. deferred.req = plan.row.req /\ deferred.cost = plan.row.cost
    <2>1. plan.row \in JobRow
      BY <1>2, <1>5, ReservedOne
    <2> DEFINE code == IF plan.row.blocked THEN "ProviderCircuitOpen" ELSE "Other"
    <2>2. code \in JobCodes /\ "DeferredQuota" \in JobStatuses
      BY Names
    <2> HIDE DEF code, plan
    <2>3. LET n == Moved(plan.row, "DeferredQuota", code, month + 1) IN n.req = plan.row.req /\ n.cost = plan.row.cost
      BY <1>2, <2>1, <2>2, MovedRow
    <2>4. QED
      BY <2>3 DEF code
  <1> HIDE DEF plan, deferred, mid
  <1>13. QED
    BY <1>1, <1>10, <1>11, <1>12

LEMMA NotClaimedLedgers ==
  ASSUME TypeInv, TypeInv', LedgersSound, NEW w \in Workers, NotClaimed(w)
  PROVE  LedgersSound'
  BY KeepStep DEF NotClaimed

\* The reservations of one job, settled whether it was called or not.
LEMMA SettleOneGives ==
  ASSUME LedgersOK, LedgersSound, NEW a \in Assets, NEW C \in SUBSET {a}
  PROVE  GiveBack(SettleReqs(C, {a} \ C), SettleUsd(C, {a} \ C), {a}, {a})
  <1>1. C \in SUBSET Assets /\ {a} \ C \in SUBSET Assets /\ C \cap ({a} \ C) = {} /\ C \cup ({a} \ C) = {a}
    OBVIOUS
  <1>2. GiveBack(SettleReqs(C, {a} \ C), SettleUsd(C, {a} \ C), C \cup ({a} \ C), C \cup ({a} \ C))
    BY <1>1, SettleGives
  <1>3. QED
    BY <1>1, <1>2

LEMMA ClaimLedgers ==
  ASSUME TypeInv, TypeInv', LedgersSound, NEW w \in Workers, NEW msg \in Messages, Claim(w, msg)
  PROVE  LedgersSound'
  <1> DEFINE a == msg[1]
             row == job[a]
             charged == Expired(a) /\ CallStarted(row)
             settled == IF charged THEN SettledRow(row, TRUE) ELSE row
             failed == [ReturnedRow(row) EXCEPT !.status = "Failed", !.code = "Other"]
             running == [settled EXCEPT !.status = "Running", !.code = "None", !.attempts = row.attempts + 1,
                                        !.lease = msg[2], !.live = TRUE]
  <1>0. /\ a \in Assets /\ {a} \in SUBSET Assets /\ {} \in SUBSET {a} /\ {a} \in SUBSET {a} /\ msg[2] \in MessageIds
        /\ row \in JobRow /\ LedgersOK
    BY IdleSound DEF Messages, TypeInv, JobsOK
  <1>1. GiveBack(ReturnReqs({a}), ReturnUsd({a}), {a}, {a}) /\ GiveBack(reqs, usd, {}, {})
    BY <1>0, ReturnGives, KeepGives
  <1>2. GiveBack(reqs, SettleUsd({a}, {}), {}, {a})
    <2>1. GiveBack(SettleReqs({a}, {a} \ {a}), SettleUsd({a}, {a} \ {a}), {a}, {a})
      BY <1>0, SettleOneGives
    <2>2. {a} \ {a} = {}
      OBVIOUS
    <2>3. QED
      BY <1>1, <2>1, <2>2 DEF GiveBack
  <1>3. /\ settled \in JobRow /\ settled.req \in {row.req, Never} /\ settled.cost \in {row.cost, Never}
        /\ (charged => settled.cost = Never) /\ (~charged => settled = row)
    BY <1>0, SettledOne
  <1>4. failed.req = Never /\ failed.cost = Never
    <2> DEFINE r == ReturnedRow(row)
    <2>1. r \in JobRow /\ r.req = Never /\ r.cost = Never
      BY <1>0, ReturnedOne
    <2> HIDE DEF r
    <2>2. [r EXCEPT !.status = "Failed", !.code = "Other"].req = r.req /\ [r EXCEPT !.status = "Failed", !.code = "Other"].cost = r.cost
      BY <2>1, JobRowIs
    <2>3. QED
      BY <2>1, <2>2 DEF r
  <1>5. running.req = settled.req /\ running.cost = settled.cost
    <2> DEFINE k == row.attempts + 1
               id == msg[2]
    <2> HIDE DEF k, id, settled
    <2>1. LET n == [settled EXCEPT !.status = "Running", !.code = "None", !.attempts = k, !.lease = id, !.live = TRUE]
          IN  n.req = settled.req /\ n.cost = settled.cost
      BY <1>3, JobRowIs
    <2>2. QED
      BY <2>1 DEF k, id
  <1>6. ASSUME NEW s \in JobStatuses, NEW c \in JobCodes
        PROVE  ReturnedRow(Moved(row, s, c, Never)).req = Never /\ ReturnedRow(Moved(row, s, c, Never)).cost = Never
    BY <1>0, MovedRow, ReturnedOne, Bounds
  <1>7. \/ /\ \E s \in {"Failed", "Cancelled", "Succeeded"}, c \in {"Other", "None"} :
                job' = [job EXCEPT ![a] = ReturnedRow(Moved(row, s, c, Never))]
           /\ reqs' = ReturnReqs({a}) /\ usd' = ReturnUsd({a})
        \/ UNCHANGED <<job, ledgers>>
        \/ /\ job' = [job EXCEPT ![a] = settled] \/ job' = [job EXCEPT ![a] = running]
           /\ reqs' = reqs /\ usd' = IF charged THEN SettleUsd({a}, {}) ELSE usd
        \/ /\ job' = [job EXCEPT ![a] = failed]
           /\ \/ charged /\ reqs' = reqs /\ usd' = SettleUsd({a}, {})
              \/ reqs' = ReturnReqs({a}) /\ usd' = ReturnUsd({a})
    BY DEF Claim
  <1> HIDE DEF settled, failed, running, charged
  <1>8. ASSUME NEW r, r.req = Never, r.cost = Never, job' = [job EXCEPT ![a] = r],
               reqs' = ReturnReqs({a}), usd' = ReturnUsd({a})
        PROVE  LedgersSound'
    <2>1. GiveBack(reqs', usd', {a}, {a})
      BY <1>1, <1>8
    <2> HIDE DEF a
    <2>2. QED
      BY <1>0, <1>8, <2>1, LoseOne
  <1>9. ASSUME NEW r, r.req \in {row.req, Never}, r.cost = Never, job' = [job EXCEPT ![a] = r],
               reqs' = reqs, usd' = SettleUsd({a}, {})
        PROVE  LedgersSound'
    <2>1. GiveBack(reqs', usd', {}, {a})
      BY <1>2, <1>9
    <2>2. r.req \in {job[a].req, Never}
      BY <1>9
    <2> HIDE DEF a
    <2>3. QED
      BY <1>0, <1>9, <2>1, <2>2, LoseOne
  <1>10. ASSUME NEW r, r.req \in {row.req, Never}, r.cost \in {row.cost, Never}, job' = [job EXCEPT ![a] = r],
                reqs' = reqs, usd' = usd
         PROVE  LedgersSound'
    <2>1. GiveBack(reqs', usd', {}, {})
      BY <1>1, <1>10
    <2>2. r.req \in {job[a].req, Never} /\ r.cost \in {job[a].cost, Never}
      BY <1>10
    <2> HIDE DEF a
    <2>3. QED
      BY <1>0, <1>10, <2>1, <2>2, LoseOne
  <1>11. CASE \E s \in {"Failed", "Cancelled", "Succeeded"}, c \in {"Other", "None"} :
                 /\ job' = [job EXCEPT ![a] = ReturnedRow(Moved(row, s, c, Never))]
                 /\ reqs' = ReturnReqs({a}) /\ usd' = ReturnUsd({a})
    <2>1. PICK s \in {"Failed", "Cancelled", "Succeeded"}, c \in {"Other", "None"} :
            job' = [job EXCEPT ![a] = ReturnedRow(Moved(row, s, c, Never))]
      BY <1>11
    <2> DEFINE r == ReturnedRow(Moved(row, s, c, Never))
    <2>2. r.req = Never /\ r.cost = Never
      BY <1>6, Names
    <2>3. job' = [job EXCEPT ![a] = r]
      BY <2>1
    <2> HIDE DEF r
    <2>4. QED
      BY <1>8, <1>11, <2>2, <2>3
  <1>12. CASE UNCHANGED <<job, ledgers>>
    BY <1>12, KeepStep
  <1>13. CASE /\ job' = [job EXCEPT ![a] = settled] \/ job' = [job EXCEPT ![a] = running]
              /\ reqs' = reqs /\ usd' = IF charged THEN SettleUsd({a}, {}) ELSE usd
    <2>1. CASE charged
      BY <1>3, <1>5, <1>9, <1>13, <2>1
    <2>2. CASE ~charged
      BY <1>3, <1>5, <1>10, <1>13, <2>2
    <2>3. QED
      BY <2>1, <2>2
  <1>14. CASE /\ job' = [job EXCEPT ![a] = failed]
              /\ \/ charged /\ reqs' = reqs /\ usd' = SettleUsd({a}, {})
                 \/ reqs' = ReturnReqs({a}) /\ usd' = ReturnUsd({a})
    <2>1. failed.req \in {row.req, Never}
      BY <1>4
    <2>2. CASE reqs' = ReturnReqs({a}) /\ usd' = ReturnUsd({a})
      BY <1>4, <1>8, <1>14, <2>2
    <2>3. CASE reqs' = reqs /\ usd' = SettleUsd({a}, {})
      <3>1. failed.req \in {row.req, Never} /\ failed.cost = Never /\ job' = [job EXCEPT ![a] = failed]
        BY <1>4, <1>14, <2>1
      <3>2. GiveBack(reqs', usd', {}, {a}) /\ failed.req \in {job[a].req, Never}
        BY <1>2, <2>3, <3>1
      <3> HIDE DEF row, a
      <3>3. QED
        BY <1>0, <3>1, <3>2, LoseOne
    <2>4. QED
      BY <1>14, <2>2, <2>3
  <1>15. QED
    BY <1>7, <1>11, <1>12, <1>13, <1>14

LEMMA RenewLedgers ==
  ASSUME TypeInv, TypeInv', LedgersSound, NEW w \in Workers, ReserveCall(w)
  PROVE  LedgersSound'
  <1> DEFINE a == task[w][1]
             plan == ReserveBoth(job[a], reqs, usd)
  <1>0. LedgersOK /\ month \in Months /\ pc[w] # "Idle" /\ job \in [Assets -> SoundRows]
    BY DEF TypeInv, WorkOK, ReserveCall, JobsOK
  <1>1. a \in Assets /\ job[a] \in JobRow
    BY <1>0, ClaimedJob
  <1>2. \/ UNCHANGED <<job, ledgers>>
        \/ job' = [job EXCEPT ![a] = plan.row] /\ reqs' = plan.reqs /\ usd' = plan.usd
    BY Zenon DEF ReserveCall
  <1>3. CASE UNCHANGED <<job, ledgers>>
    BY <1>3, KeepStep
  <1>4. CASE job' = [job EXCEPT ![a] = plan.row] /\ reqs' = plan.reqs /\ usd' = plan.usd
    <2>1. /\ job'[a].req = ReserveBoth(job[a], reqs, usd).row.req /\ job'[a].cost = ReserveBoth(job[a], reqs, usd).row.cost
          /\ reqs' = ReserveBoth(job[a], reqs, usd).reqs /\ usd' = ReserveBoth(job[a], reqs, usd).usd
          /\ \A b \in Assets : b # a => job'[b] = job[b]
      BY <1>0, <1>1, <1>4
    <2>2. reqs \in Ledger /\ usd \in Ledger /\ BothBacked(reqs, usd, job)
      BY <1>0 DEF LedgersOK, LedgersSound
    <2> HIDE DEF a, plan
    <2>3. BothBacked(reqs', usd', job')
      BY <1>0, <1>1, <2>1, <2>2, ReserveLedgers
    <2>4. QED
      BY <2>3, SoundAfter
  <1>5. QED
    BY <1>2, <1>3, <1>4

LEMMA ConsumeLedgers ==
  ASSUME TypeInv, TypeInv', LedgersSound, NEW w \in Workers, ConsumeCall(w)
  PROVE  LedgersSound'
  <1> DEFINE a == task[w][1]
             m == job[a].req
             used == IF m = Never THEN job[a].consumed ELSE m
             row == [job[a] EXCEPT !.req = Never, !.consumed = used]
             one(k) == IF k = m THEN 1 ELSE 0
  <1>0. LedgersOK /\ pc[w] # "Idle" /\ job \in [Assets -> SoundRows]
    BY DEF TypeInv, WorkOK, ConsumeCall, JobsOK
  <1>1. a \in Assets /\ job[a] \in JobRow /\ {a} \in SUBSET Assets /\ {a} \in SUBSET {a} /\ {} \in SUBSET {a}
    BY <1>0, ClaimedJob
  <1>2. CASE NotClaimed(w)
    BY <1>2, NotClaimedLedgers
  <1>3. CASE ~NotClaimed(w)
    <2>1. /\ job' = [job EXCEPT ![a] = row]
          /\ reqs' = [k \in Months |-> Settle(reqs[k], one(k), 0)] /\ usd' = usd
      BY <1>3 DEF ConsumeCall
    <2>2. row.req = Never /\ row.cost = job[a].cost
      <3> HIDE DEF used
      <3>1. QED
        BY <1>1, JobRowIs
    <2>3. GiveBack(reqs', usd', {a}, {})
      <3>1. ASSUME NEW k \in Months
            PROVE  Gives(reqs[k], reqs'[k], 1 * Count(Reqs(job), {a}, k))
        <4>1. Count(Reqs(job), {a}, k) = one(k)
          <5>1. Reqs(job)[a] = m
            BY <1>1 DEF Reqs
          <5> HIDE DEF a
          <5>2. {b \in {a} : Reqs(job)[b] = k} = IF k = m THEN {a} ELSE {}
            BY <5>1
          <5>3. Cardinality({a}) = 1 /\ Cardinality({}) = 0
            BY FS_Singleton, FS_EmptySet
          <5>4. QED
            BY <5>2, <5>3 DEF Count
        <4> DEFINE n == one(k)
        <4>2. n \in Nat /\ 0 \in Nat /\ reqs[k] \in LedgerRow /\ n + 0 = n /\ 1 * n = n
          BY <1>0 DEF LedgersOK, Ledger
        <4>3. reqs'[k] = Settle(reqs[k], n, 0) /\ 1 * Count(Reqs(job), {a}, k) = n
          BY <2>1, <4>1, <4>2
        <4> HIDE DEF n
        <4>4. Gives(reqs[k], Settle(reqs[k], n, 0), n + 0)
          BY <4>2, RowGives
        <4>5. QED
          BY <4>2, <4>3, <4>4
      <3>2. GiveBack(reqs, usd, {}, {})
        BY <1>0, KeepGives
      <3>3. QED
        BY <2>1, <3>1, <3>2 DEF GiveBack
    <2> HIDE DEF row, a
    <2>4. QED
      BY <1>1, <2>1, <2>2, <2>3, LoseOne
  <1>4. QED
    BY <1>2, <1>3

LEMMA EndedLedgers ==
  ASSUME TypeInv, TypeInv', LedgersSound, NEW a \in Assets, NEW called \in BOOLEAN, NEW C \in SUBSET {a},
         NEW s \in JobStatuses, NEW c \in JobCodes, NEW d \in Dues,
         reqs' \in {SettleReqs(C, {a} \ C), Circuit(SettleReqs(C, {a} \ C), OpenCircuit(SettleReqs(C, {a} \ C)[month]))},
         usd' = SettleUsd(C, {a} \ C),
         job' = [job EXCEPT ![a] = Moved(SettledRow(job[a], called), s, c, d)]
  PROVE  LedgersSound'
  <1> DEFINE led == SettleReqs(C, {a} \ C)
             n == SettledRow(job[a], called)
             r == Moved(n, s, c, d)
  <1>1. LedgersOK /\ C \in SUBSET Assets /\ {a} \ C \in SUBSET Assets /\ job[a] \in JobRow /\ {a} \in SUBSET {a}
    BY IdleSound DEF TypeInv, JobsOK
  <1>2. n \in JobRow /\ n.req = Never /\ n.cost = Never
    BY <1>1, SettledOne
  <1> HIDE DEF n
  <1>3. r.req = Never /\ r.cost = Never
    BY <1>2, MovedRow
  <1>4. job' = [job EXCEPT ![a] = r]
    BY DEF n
  <1> HIDE DEF r
  <1>5. led \in Ledger /\ GiveBack(led, usd', {a}, {a})
    BY <1>1, SettledLedgers, SettleOneGives
  <1>6. reqs' \in {led, Circuit(led, OpenCircuit(led[month]))}
    OBVIOUS
  <1> HIDE DEF led
  <1>7. GiveBack(reqs', usd', {a}, {a})
    <2>1. GiveBack(Circuit(led, OpenCircuit(led[month])), usd', {a}, {a})
      BY <1>5, CircuitGives
    <2>2. QED
      BY <1>5, <1>6, <2>1
  <1>8. QED
    BY <1>1, <1>3, <1>4, <1>7, LoseOne

LEMMA CompleteLedgers ==
  ASSUME TypeInv, TypeInv', LedgersSound, NEW w \in Workers, Complete(w)
  PROVE  LedgersSound'
  <1> DEFINE a == task[w][1]
             m == job[a].cost
             row(s, c) == Moved(SettledRow(job[a], TRUE), s, c, Never)
  <1>0. LedgersOK /\ pc[w] # "Idle" /\ job \in [Assets -> SoundRows]
    BY DEF TypeInv, WorkOK, Complete, JobsOK
  <1>1. a \in Assets /\ job[a] \in JobRow /\ {a} \in SUBSET Assets /\ {a} \in SUBSET {a} /\ {a} \ {a} = {}
    BY <1>0, ClaimedJob
  <1>2. CASE NotClaimed(w)
    BY <1>2, NotClaimedLedgers
  <1>3. CASE ~NotClaimed(w)
    <2>1. /\ reqs' = SettleReqs({a}, {})
          /\ \/ /\ job' = [job EXCEPT ![a] = row("Succeeded", "None")]
                /\ \E paid \in 1..Price :
                     usd' = [k \in Months |-> IF k = m THEN Pay(usd[k], Price, paid) ELSE usd[k]]
             \/ /\ job' = [job EXCEPT ![a] = row("Failed", "Other")]
                /\ usd' = SettleUsd({a}, {})
      BY <1>3 DEF Complete
    <2>2. GiveBack(SettleReqs({a}, {}), SettleUsd({a}, {}), {a}, {a})
      BY <1>0, <1>1, SettleOneGives
    <2>3. ASSUME NEW s \in JobStatuses, NEW c \in JobCodes PROVE row(s, c).req = Never /\ row(s, c).cost = Never
      <3> DEFINE n == SettledRow(job[a], TRUE)
      <3>1. n \in JobRow /\ n.req = Never /\ n.cost = Never /\ Never \in Dues
        BY <1>1, SettledOne, Bounds
      <3> HIDE DEF n
      <3>2. Moved(n, s, c, Never).req = n.req /\ Moved(n, s, c, Never).cost = n.cost
        BY <3>1, MovedRow
      <3>3. QED
        BY <3>1, <3>2 DEF n
    <2>4. \E s \in JobStatuses, c \in JobCodes : job' = [job EXCEPT ![a] = row(s, c)]
      BY <2>1, Names
    <2>5. GiveBack(reqs', usd', {a}, {a})
      <3>1. CASE usd' = SettleUsd({a}, {})
        BY <2>1, <2>2, <3>1
      <3>2. ASSUME NEW paid \in 1..Price,
                   usd' = [k \in Months |-> IF k = m THEN Pay(usd[k], Price, paid) ELSE usd[k]]
            PROVE  GiveBack(reqs', usd', {a}, {a})
        <4>1. ASSUME NEW k \in Months
              PROVE  Gives(usd[k], usd'[k], Price * Count(Costs(job), {a}, k))
          <5>0. Costs(job)[a] = m /\ usd[k] \in LedgerRow /\ Price \in Nat /\ paid \in Nat /\ paid <= Price
            BY <1>0, <1>1, LimitAssumption DEF Costs, LedgersOK, Ledger
          <5> HIDE DEF a
          <5>1. CASE k = m
            <6>1. {b \in {a} : Costs(job)[b] = k} = {a}
              BY <5>0, <5>1
            <6>2. Count(Costs(job), {a}, k) = 1
              BY <6>1, FS_Singleton DEF Count
            <6>3. Price * Count(Costs(job), {a}, k) = Price /\ HoldCost({a}, k) = 1
              BY <1>1, <5>0, <6>2, HoldIs
            <6>4. Price <= usd[k].reserved
              <7>1. Price * HoldCost({a}, k) <= usd[k].reserved
                BY <1>0, <1>1, HeldCovered
              <7>2. QED
                BY <5>0, <6>3, <7>1
            <6>5. Gives(usd[k], Pay(usd[k], Price, paid), Price)
              BY <5>0, <6>4, RowGives
            <6>6. QED
              BY <3>2, <5>1, <6>3, <6>5
          <5>2. CASE k # m
            <6>1. {b \in {a} : Costs(job)[b] = k} = {}
              BY <5>0, <5>2
            <6>2. Price * Count(Costs(job), {a}, k) = 0
              BY <5>0, <6>1, FS_EmptySet DEF Count
            <6>3. Gives(usd[k], usd[k], 0)
              BY <5>0, GivesNone
            <6>4. QED
              BY <3>2, <5>2, <6>2, <6>3
          <5>3. QED
            BY <5>1, <5>2
        <4>2. QED
          BY <2>1, <2>2, <4>1 DEF GiveBack
      <3>3. QED
        BY <2>1, <3>1, <3>2
    <2>6. PICK s \in JobStatuses, c \in JobCodes : job' = [job EXCEPT ![a] = row(s, c)]
      BY <2>4
    <2> DEFINE r == row(s, c)
    <2>7. r.req = Never /\ r.cost = Never /\ job' = [job EXCEPT ![a] = r]
      BY <2>3, <2>6
    <2> HIDE DEF r, a
    <2>8. QED
      BY <1>1, <2>5, <2>7, LoseOne
  <1>4. QED
    BY <1>2, <1>3

LEMMA FailLedgers ==
  ASSUME TypeInv, TypeInv', LedgersSound, NEW w \in Workers, Fail(w) \/ Defer(w)
  PROVE  LedgersSound'
  <1> DEFINE a == task[w][1]
             called == fault[w].called
             kind == fault[w].kind
             retry == kind = "Transient" /\ ~Exhausted(a)
             opens == called /\ kind = "Auth"
             C == {b \in {a} : called}
             led == SettleReqs(C, {a} \ C)
             open == Circuit(led, OpenCircuit(led[month]))
             n == SettledRow(job[a], called)
             code == IF ~called /\ job[a].blocked THEN "ProviderCircuitOpen" ELSE "Other"
  <1>0. pc[w] # "Idle" /\ called \in BOOLEAN /\ month \in Dues /\ month + 1 \in Dues /\ Never \in Dues /\ C \in SUBSET {a}
    BY Bounds DEF TypeInv, WorkOK, Fail, Defer, Faults
  <1>1. a \in Assets
    BY <1>0, ClaimedJob
  <1>2. CASE NotClaimed(w)
    BY <1>2, NotClaimedLedgers
  <1>3. CASE ~NotClaimed(w)
    <2>1. /\ reqs' \in {led, open} /\ usd' = SettleUsd(C, {a} \ C)
          /\ \/ job' = [job EXCEPT ![a] = Moved(n, "Queued", "Other", month)]
             \/ job' = [job EXCEPT ![a] = Moved(n, "Failed", "Other", Never)]
             \/ job' = [job EXCEPT ![a] = Moved(n, "DeferredQuota", code, month + 1)]
      <3>1. CASE Fail(w)
        <4>1. /\ reqs' = IF opens THEN open ELSE led
              /\ usd' = SettleUsd(C, {a} \ C)
              /\ job' = [job EXCEPT ![a] = IF retry THEN Moved(n, "Queued", "Other", month)
                                                    ELSE Moved(n, "Failed", "Other", Never)]
          BY <1>3, <3>1 DEF Fail
        <4> HIDE DEF retry, opens, open, led, C, n
        <4>2. QED
          BY <4>1
      <3>2. CASE Defer(w)
        <4>1. /\ reqs' = IF called THEN open ELSE led
              /\ usd' = SettleUsd(C, {a} \ C)
              /\ job' = [job EXCEPT ![a] = Moved(n, "DeferredQuota", code, month + 1)]
          BY <1>3, <3>2 DEF Defer
        <4> HIDE DEF code, open, led, n
        <4>2. QED
          BY <4>1
      <3>3. QED
        BY <3>1, <3>2
    <2>2. code \in JobCodes
      BY Names
    <2> HIDE DEF code
    <2>3. \E s \in JobStatuses, c \in JobCodes, d \in Dues : job' = [job EXCEPT ![a] = Moved(SettledRow(job[a], called), s, c, d)]
      BY <1>0, <2>1, <2>2, Names
    <2>4. reqs' \in {SettleReqs(C, {a} \ C), Circuit(SettleReqs(C, {a} \ C), OpenCircuit(SettleReqs(C, {a} \ C)[month]))}
      BY <2>1
    <2>5. PICK s \in JobStatuses, c \in JobCodes, d \in Dues :
            job' = [job EXCEPT ![a] = Moved(SettledRow(job[a], called), s, c, d)]
      BY <2>3
    <2>6. usd' = SettleUsd(C, {a} \ C)
      BY <2>1
    <2> HIDE DEF a, called, C
    <2>7. QED
      BY <1>0, <1>1, <2>4, <2>5, <2>6, EndedLedgers
  <1>4. QED
    BY <1>2, <1>3

LEMMA LedgersStep == TypeInv /\ TypeInv' /\ LedgersSound /\ [Next]_vars => LedgersSound'
  <1> SUFFICES ASSUME TypeInv, TypeInv', LedgersSound, [Next]_vars PROVE LedgersSound'
    OBVIOUS
  <1>1. ASSUME NEW w \in Workers, WorkerStep(w) PROVE LedgersSound'
    <2>1. CASE Presign(w) \/ CallProvider(w) \/ Clean(w) \/ Acknowledge(w)
      BY <2>1, KeepStep DEF Presign, CallProvider, Clean, Acknowledge, Release
    <2>2. QED
      BY <1>1, <2>1, RenewLedgers, ConsumeLedgers, CompleteLedgers, FailLedgers DEF WorkerStep
  <1>2. ASSUME NEW w \in Workers, Crash(w) PROVE LedgersSound'
    BY <1>2, KeepStep DEF Crash, Release
  <1>3. CASE RedispatchDueJobs
    BY <1>3, SweepLedgers DEF RedispatchDueJobs
  <1>4. CASE AdvanceMonth
    BY <1>4, KeepStep DEF AdvanceMonth
  <1>5. CASE UNCHANGED vars
    BY <1>5, KeepStep DEF vars
  <1>6. QED
    BY <1>1, <1>2, <1>3, <1>4, <1>5, PhotoLedgers, PlanLedgers, UploadLedgers, RetryLedgers, ClaimLedgers DEF Next

LEMMA LedgersInit == Init => LedgersSound
  <1> SUFFICES ASSUME Init PROVE LedgersSound
    OBVIOUS
  <1>1. ASSUME NEW m \in Months PROVE Count(Reqs(job), Assets, m) = 0 /\ Count(Costs(job), Assets, m) = 0
    <2>1. {a \in Assets : Reqs(job)[a] = m} = {} /\ {a \in Assets : Costs(job)[a] = m} = {}
      BY EmptyRow, Bounds DEF Init, Reqs, Costs
    <2>2. QED
      BY <2>1, FS_EmptySet DEF Count
  <1>2. \A m \in Months : /\ reqs[m].reserved = 0 /\ reqs[m].processed = 0
                          /\ usd[m].reserved = 0 /\ usd[m].processed = 0
    BY DEF Init, NewRow
  <1>3. Price * 0 = 0 /\ 1 * 0 = 0 /\ Limit \in Nat /\ UsdLimit \in Nat
    BY LimitAssumption
  <1>4. QED
    BY <1>1, <1>2, <1>3 DEF LedgersSound, BothBacked, Backed

LEMMA LedgersHold == Spec => []LedgersSound
  <1>1. TypeInv /\ TypeInv' /\ LedgersSound /\ [Next]_vars => LedgersSound'
    BY LedgersStep
  <1>2. Init => LedgersSound
    BY LedgersInit
  <1>3. QED
    BY <1>1, <1>2, TypesHold, PTL DEF Spec

\* What a month has reserved always covers what job rows still hold of it: no
\* handler gives a reservation back twice
\* (_settle_provider_reservation, _release_description_provider_request).
THEOREM NothingGivenBackTwice == Spec => []ReservationsBacked
  <1>1. LedgersSound => ReservationsBacked
    <2> SUFFICES ASSUME LedgersSound, NEW m \in Months
                 PROVE  reqs[m].reserved >= HoldReq(Assets, m) /\ usd[m].reserved >= Price * HoldCost(Assets, m)
      BY DEF ReservationsBacked
    <2>1. Count(Reqs(job), Assets, m) \in Nat
      BY CountType
    <2>2. 1 * Count(Reqs(job), Assets, m) = Count(Reqs(job), Assets, m)
      BY <2>1, Times
    <2>3. HoldReq(Assets, m) = Count(Reqs(job), Assets, m) /\ HoldCost(Assets, m) = Count(Costs(job), Assets, m)
      BY HoldIs
    <2>4. QED
      BY <2>2, <2>3 DEF LedgersSound, BothBacked, Backed
  <1>2. QED
    BY <1>1, LedgersHold, PTL

\* Neither ledger passes its monthly limit (_reserve_description_usage checks
\* both; nothing that settles, renews or pays adds to what they hold in all).
THEOREM CeilingsHold == Spec => []CeilingsRespected
  <1>1. LedgersSound => CeilingsRespected
    BY DEF LedgersSound, BothBacked, Backed, CeilingsRespected
  <1>2. QED
    BY <1>1, LedgersHold, PTL

-----------------------------------------------------------------------------
(* Uploads: a queued or leased job has its preview, a reservation has a    *)
(* use, and a photo of the user's own key is not analysed twice.           *)

Live    == {"Queued", "Running"}
Free(r) == r.req = Never /\ r.cost = Never

\* A photo of the user's own key; a reservation; a staged preview.
OwnKey(a) == byok[a] # None => job[a].status \notin Live \cup {"DeferredQuota"} /\ ~ActiveUpload(a)
InUse(a)  == ~Free(job[a]) => \/ job[a].status \in Live \cup {"Failed"}
                              \/ job[a].status = "Preparing" /\ ActiveUpload(a)
Staged(a) == job[a].status \in Live => /\ job[a].staged \in objects
                                       /\ upload[job[a].staged].asset = a
                                       /\ upload[job[a].staged].status = "Completed"

\* The preview a worker is about to delete is of no job, and of no later one.
Cleaning(w) ==
  pc[w] = "Clean" =>
    /\ claim[w] \in Uploads /\ upload[claim[w]].status \notin {"None", "Uploading"}
    /\ \A a \in Assets : job[a].status \in Live => job[a].staged # claim[w]

UploadInv ==
  /\ \A a \in Assets : OwnKey(a) /\ InUse(a) /\ Staged(a)
  /\ \A w \in Workers : Cleaning(w)

LEMMA InvMeaning == UploadInv => AnalysedOnce /\ ReservationsInUse /\ StagedPreviewKept
  BY DEF UploadInv, OwnKey, InUse, Staged, Live, Free, AnalysedOnce, ReservationsInUse, StagedPreviewKept

LEMMA LiveNames == Live = {"Queued", "Running"} /\ "Preparing" \notin Live /\ "Failed" \notin Live
  BY DEF Live

LEMMA MovedFree ==
  \A r \in JobRow, s \in JobStatuses, c \in JobCodes, d \in Dues :
    /\ Moved(r, s, c, d) \in JobRow /\ Moved(r, s, c, d).status = s /\ Moved(r, s, c, d).staged = r.staged
    /\ Free(r) => Free(Moved(r, s, c, d))
  BY MovedRow DEF Free

LEMMA NeverDue == /\ Never \in Dues
                  /\ "Preparing" \in JobStatuses /\ "Cancelled" \in JobStatuses /\ "Failed" \in JobStatuses
                  /\ "Succeeded" \in JobStatuses /\ "Queued" \in JobStatuses /\ "DeferredQuota" \in JobStatuses
                  /\ "None" \in JobCodes /\ "Other" \in JobCodes
  BY Bounds, Names

-----------------------------------------------------------------------------
(* Steps that leave the uploads alone.                                     *)

\* What such a step may do to the row of a job.
Ends(a)  == Free(job'[a]) /\ job'[a].status \notin Live \cup {"DeferredQuota"}
Stays(a) == /\ job[a].status \in Live /\ job'[a].staged = job[a].staged
            /\ \/ job'[a].status \in Live \cup {"Failed"}
               \/ job'[a].status = "DeferredQuota" /\ Free(job'[a])
Moves(a) == job'[a] = job[a] \/ Ends(a) \/ Stays(a)

\* No worker turns to its cleanup.
NoNewClean == \A w \in Workers : pc'[w] = "Clean" => pc[w] = "Clean" /\ claim'[w] = claim[w]

LEMMA SameSets ==
  ASSUME UNCHANGED upload, NEW a
  PROVE  ActiveUpload(a)' <=> ActiveUpload(a)
  BY DEF ActiveUpload, Uploading

LEMMA RowsStep ==
  ASSUME TypeInv, UploadInv, UNCHANGED <<byok, upload, objects>>, \A a \in Assets : Moves(a),
         \A w \in Workers : pc'[w] = "Clean" => (pc[w] = "Clean" /\ claim'[w] = claim[w]) \/ Cleaning(w)'
  PROVE  UploadInv'
  <1>1. ASSUME NEW a \in Assets PROVE OwnKey(a)' /\ InUse(a)' /\ Staged(a)'
    <2>0. Moves(a) /\ OwnKey(a) /\ InUse(a) /\ Staged(a)
      BY DEF UploadInv
    <2>1. CASE job'[a] = job[a]
      BY <2>0, <2>1, SameSets DEF OwnKey, InUse, Staged
    <2>2. CASE Ends(a)
      BY <2>0, <2>2, SameSets, LiveNames DEF OwnKey, InUse, Staged, Ends
    <2>3. CASE Stays(a)
      BY <2>0, <2>3, SameSets, LiveNames DEF OwnKey, InUse, Staged, Stays
    <2>4. QED
      BY <2>0, <2>1, <2>2, <2>3 DEF Moves
  <1>2. ASSUME NEW w \in Workers PROVE Cleaning(w)'
    <2>1. CASE pc[w] = "Clean" /\ claim'[w] = claim[w]
      <3>1. ASSUME NEW a \in Assets, job'[a].status \in Live PROVE job[a].status \in Live /\ job'[a].staged = job[a].staged
        BY <3>1, LiveNames DEF Moves, Ends, Stays
      <3>2. Cleaning(w)
        BY DEF UploadInv
      <3>3. QED
        BY <2>1, <3>1, <3>2 DEF Cleaning
    <2>2. CASE pc'[w] # "Clean"
      BY <2>2 DEF Cleaning
    <2>3. QED
      BY <2>1, <2>2
  <1>3. QED
    BY <1>1, <1>2 DEF UploadInv

\* The worker ends the job it had claimed and turns to the preview.
LEMMA CleanStep ==
  ASSUME TypeInv, UploadInv, UNCHANGED <<byok, upload, objects, claim>>, NEW w \in Workers, pc[w] # "Idle",
         Claimed(w), NEW step \in Steps, Goto(w, step), NEW r \in JobRow,
         job' = [job EXCEPT ![task[w][1]] = r], r.staged = job[task[w][1]].staged, Free(r),
         r.status \in {"Failed", "Succeeded", "DeferredQuota"}
  PROVE  UploadInv'
  <1> DEFINE a == task[w][1]
  <1>0. a \in Assets /\ job[a].status = "Running" /\ job \in [Assets -> SoundRows] /\ pc \in [Workers -> Steps]
    BY ClaimedJob DEF TypeInv, JobsOK, WorkOK
  <1>1. job[a].staged = claim[w] /\ upload[claim[w]].status = "Completed"
    BY DEF Claimed
  <1>2. \A b \in Assets : Moves(b)
    BY <1>0, LiveNames DEF Moves, Ends, Stays
  <1>3. Cleaning(w)'
    <2>1. claim[w] \in Uploads /\ upload[claim[w]].asset = a
      BY <1>0, <1>1, LiveNames DEF UploadInv, Staged, TypeInv, UploadsOK
    <2>2. ASSUME NEW b \in Assets, job'[b].status \in Live PROVE job'[b].staged # claim[w]
      <3>1. b # a
        BY <1>0, <2>2, LiveNames
      <3>2. job'[b] = job[b] /\ Staged(b)
        BY <1>0, <3>1 DEF UploadInv
      <3>3. QED
        BY <2>1, <2>2, <3>1, <3>2 DEF Staged
    <2>3. QED
      BY <1>1, <2>1, <2>2 DEF Cleaning
  <1>4. \A v \in Workers : v # w => pc'[v] = pc[v]
    BY <1>0 DEF Goto
  <1>5. QED
    BY <1>2, <1>3, <1>4, RowsStep

-----------------------------------------------------------------------------
(* The steps of the client and the API.                                    *)

\* A step of no worker that changes uploads and jobs.
LEMMA ApiStep ==
  ASSUME TypeInv, UploadInv, UNCHANGED <<pc, claim>>,
         \A a \in Assets : OwnKey(a)' /\ InUse(a)' /\ Staged(a)',
         \A u \in Uploads : upload[u].status \notin {"None", "Uploading"} => upload'[u].status \notin {"None", "Uploading"},
         \A a \in Assets : job'[a].status \in Live =>
           \/ job[a].status \in Live /\ job'[a].staged = job[a].staged
           \/ upload[job'[a].staged].status = "Uploading"
  PROVE  UploadInv'
  BY DEF UploadInv, Cleaning

LEMMA InitUploads == Init => UploadInv
  BY Bounds, LiveNames DEF Init, UploadInv, OwnKey, InUse, Staged, Cleaning, ActiveUpload, Uploading, NoJob, Free

LEMMA JobsTyped ==
  ASSUME TypeInv
  PROVE  /\ job \in [Assets -> SoundRows] /\ upload \in [Uploads -> UploadRow] /\ objects \subseteq Uploads
         /\ \A a \in Assets : job[a] \in JobRow
  BY IdleSound DEF TypeInv, JobsOK, UploadsOK

LEMMA PrepareUploads ==
  ASSUME TypeInv, UploadInv, NEW a \in Assets,
         \/ PrepareEnrichment(a) \/ RetryJob(a) \/ RestoreAsset(a) \/ ExpireLease(a)
         \/ \E c \in Claims : SaveByok(a, c)
  PROVE  UploadInv'
  <1>0. job \in [Assets -> SoundRows] /\ \A b \in Assets : job[b] \in JobRow
    BY JobsTyped
  <1>1. CASE PrepareEnrichment(a)
    <2> DEFINE r == [NoJob EXCEPT !.status = "Preparing", !.attempts = job[a].attempts]
    <2>1. Free(r) /\ r.status = "Preparing"
      BY EmptyRow DEF Free, NoJob
    <2> HIDE DEF r
    <2>2. job' = [job EXCEPT ![a] = r] /\ UNCHANGED <<photo, upload, objects, process>>
      BY <1>1 DEF PrepareEnrichment, r
    <2>3. \A b \in Assets : Moves(b)
      BY <1>0, <2>1, <2>2, LiveNames DEF Moves, Ends
    <2>4. QED
      BY <2>2, <2>3, RowsStep DEF photo, process
  <1>2. CASE RetryJob(a)
    <2> DEFINE open == byok[a] = None /\ reqs[month].open
               recovered == {b \in Assets \ {a} : /\ open
                                                  /\ job[b].status = "DeferredQuota"
                                                  /\ job[b].code = "ProviderCircuitOpen"}
               mine(b) == [Moved(Unstaged(ReturnedRow(job[b])), "Preparing", "None", Never) EXCEPT
                             !.attempts = IF job[b].status = "DeferredQuota" THEN 0 ELSE @]
               other(b) == [Moved(Unstaged(job[b]), "Preparing", "None", Never) EXCEPT
                              !.attempts = 0, !.blocked = FALSE]
    <2>1. /\ job' = [b \in Assets |-> IF b = a THEN mine(b) ELSE IF b \in recovered THEN other(b) ELSE job[b]]
          /\ UNCHANGED <<photo, upload, objects, process>>
      BY <1>2 DEF RetryJob
    <2>2. ASSUME NEW b \in Assets PROVE Free(mine(b)) /\ mine(b).status = "Preparing"
      <3> DEFINE r1 == Unstaged(ReturnedRow(job[b]))
                 r2 == Moved(r1, "Preparing", "None", Never)
                 n == IF job[b].status = "DeferredQuota" THEN 0 ELSE r2.attempts
      <3>1. r1 \in JobRow /\ Free(r1)
        BY <1>0, ReturnedOne, UnstagedOne DEF Free
      <3> HIDE DEF r1
      <3>2. r2 \in JobRow /\ Free(r2) /\ r2.status = "Preparing"
        BY <3>1, MovedFree, NeverDue
      <3>3. mine(b) = [r2 EXCEPT !.attempts = n]
        BY DEF r1
      <3>4. n \in 0..MaxAttempts
        <4> HIDE DEF r2
        <4>1. QED
          BY <3>2, JobRowIs, Bounds
      <3> HIDE DEF r2, n
      <3>5. Free([r2 EXCEPT !.attempts = n]) /\ [r2 EXCEPT !.attempts = n].status = "Preparing"
        BY <3>2, <3>4, EditedRow DEF Free
      <3>6. QED
        BY <3>3, <3>5
    <2>3. ASSUME NEW b \in recovered PROVE Free(other(b)) /\ other(b).status = "Preparing"
      <3> DEFINE r1 == Unstaged(job[b])
                 r2 == Moved(r1, "Preparing", "None", Never)
      <3>1. b \in Assets /\ Free(job[b])
        BY LiveNames DEF UploadInv, InUse
      <3>2. r1 \in JobRow /\ Free(r1)
        BY <1>0, <3>1, UnstagedOne DEF Free
      <3> HIDE DEF r1
      <3>3. r2 \in JobRow /\ Free(r2) /\ r2.status = "Preparing"
        BY <3>2, MovedFree, NeverDue
      <3> HIDE DEF r2
      <3>4. Free([r2 EXCEPT !.attempts = 0, !.blocked = FALSE]) /\ [r2 EXCEPT !.attempts = 0, !.blocked = FALSE].status = "Preparing"
        BY <3>3, JobRowIs DEF Free
      <3>5. QED
        BY <3>4 DEF r1, r2
    <2> HIDE DEF mine, other, recovered
    <2>4. \A b \in Assets : Moves(b)
      BY <2>1, <2>2, <2>3, LiveNames DEF Moves, Ends
    <2>5. QED
      BY <2>1, <2>4, RowsStep DEF photo, process
  <1>3. CASE RestoreAsset(a)
    BY <1>3, RowsStep DEF RestoreAsset, Moves, process
  <1>4. CASE ExpireLease(a)
    <2> DEFINE r == [job[a] EXCEPT !.live = FALSE]
    <2>1. r.status = job[a].status /\ r.staged = job[a].staged /\ job[a].status = "Running"
      BY <1>0, <1>4, EditedRow DEF ExpireLease
    <2> HIDE DEF r
    <2>2. job' = [job EXCEPT ![a] = r] /\ UNCHANGED <<photo, upload, objects, process>>
      BY <1>4 DEF ExpireLease, r
    <2>3. \A b \in Assets : Moves(b)
      BY <1>0, <2>1, <2>2, LiveNames DEF Moves, Stays
    <2>4. QED
      BY <2>2, <2>3, RowsStep DEF photo, process
  <1>5. ASSUME NEW c \in Claims, SaveByok(a, c) PROVE UploadInv'
    <2> DEFINE r == [job[a] EXCEPT !.status = "Succeeded", !.due = Never]
    <2>1. byok[a] # None /\ job[a].status = "Preparing"
      BY <1>5, SetAssumption DEF SaveByok
    <2>2. Free(job[a])
      BY <2>1, LiveNames DEF UploadInv, InUse, OwnKey
    <2>3. Free(r) /\ r.status = "Succeeded"
      BY <1>0, <2>2, JobRowIs DEF Free
    <2> HIDE DEF r
    <2>4. job' = [job EXCEPT ![a] = r] /\ UNCHANGED <<byok, upload, objects, process>>
      BY <1>5 DEF SaveByok, r
    <2>5. \A b \in Assets : Moves(b)
      BY <1>0, <2>3, <2>4, LiveNames DEF Moves, Ends
    <2>6. QED
      BY <2>4, <2>5, RowsStep DEF process
  <1>6. QED
    BY <1>1, <1>2, <1>3, <1>4, <1>5

\* Jobs of one photo stop, and its uploads with them.
LEMMA StopBoth ==
  ASSUME TypeInv, UploadInv, NEW a \in Assets, NEW S \in SUBSET {a}, NEW code \in JobCodes,
         StopJobs(S, code), StopUploads(a), UNCHANGED <<byok, pc, claim>>,
         a \notin S => job[a].status \notin {"Preparing", "Queued", "Running", "DeferredQuota"}
  PROVE  UploadInv'
  <1> DEFINE called == {b \in S : CallStarted(job[b])}
             row(b) == Moved(SettledRow(job[b], b \in called), "Cancelled", code, Never)
  <1>0. /\ job \in [Assets -> SoundRows] /\ upload \in [Uploads -> UploadRow] /\ objects \subseteq Uploads
        /\ \A b \in Assets : job[b] \in JobRow
    BY JobsTyped
  <1>1. job' = [b \in Assets |-> IF b \in S THEN row(b) ELSE job[b]]
    BY DEF StopJobs
  <1>2. ASSUME NEW b \in Assets PROVE Free(row(b)) /\ row(b).status = "Cancelled"
    <2>1. job[b] \in JobRow /\ (b \in called) \in BOOLEAN
      BY <1>0
    <2> HIDE DEF called
    <2>2. SettledRow(job[b], b \in called) \in JobRow /\ Free(SettledRow(job[b], b \in called))
      BY <2>1, SettledOne DEF Free
    <2>3. QED
      BY <2>2, MovedFree, NeverDue
  <1> HIDE DEF row
  <1>3. \A u \in Uploads : /\ upload'[u].asset = upload[u].asset
                           /\ \/ upload'[u] = upload[u] /\ (u \in objects => u \in objects')
                              \/ upload[u].asset = a /\ upload'[u].status = "Cancelled"
                           /\ upload[u].asset = a => upload'[u].status \notin {"Uploading", "Completed"}
    BY <1>0 DEF StopUploads, UploadRow
  <1>4. ASSUME NEW b \in Assets PROVE OwnKey(b)' /\ InUse(b)' /\ Staged(b)'
    <2>0. OwnKey(b) /\ InUse(b) /\ Staged(b)
      BY DEF UploadInv
    <2>1. CASE b = a
      <3>1. ~ActiveUpload(b)'
        BY <1>3, <2>1 DEF ActiveUpload, Uploading
      <3>2. job'[b].status \notin Live \cup {"DeferredQuota"}
        BY <1>1, <1>2, <2>1, LiveNames
      <3>3. InUse(b)'
        BY <1>1, <1>2, <2>0, <2>1, LiveNames DEF InUse
      <3>4. QED
        BY <3>1, <3>2, <3>3 DEF OwnKey, Staged
    <2>2. CASE b # a
      <3>1. job'[b] = job[b]
        BY <1>1, <2>2
      <3>2. ActiveUpload(b)' <=> ActiveUpload(b)
        BY <1>3, <2>2 DEF ActiveUpload, Uploading
      <3>3. Staged(b)'
        BY <1>0, <1>3, <2>0, <2>2, <3>1 DEF Staged
      <3>4. QED
        BY <2>0, <3>1, <3>2, <3>3 DEF OwnKey, InUse
    <2>3. QED
      BY <2>1, <2>2
  <1>5. \A b \in Assets : job'[b].status \in Live => job[b].status \in Live /\ job'[b].staged = job[b].staged
    BY <1>1, <1>2, LiveNames
  <1>6. QED
    BY <1>3, <1>4, <1>5, ApiStep

LEMMA StopUploading ==
  ASSUME TypeInv, UploadInv, NEW a \in Assets, CancelJob(a) \/ TrashAsset(a)
  PROVE  UploadInv'
  <1>1. CASE CancelJob(a)
    BY <1>1, StopBoth, Names DEF CancelJob, photo, process
  <1>2. CASE TrashAsset(a)
    <2> DEFINE S == {b \in {a} : job[b].status \in {"Preparing", "Queued", "Running", "DeferredQuota"}}
    <2>1. /\ StopJobs(S, "Other") /\ StopUploads(a) /\ UNCHANGED <<byok, pc, claim>>
          /\ a \notin S => job[a].status \notin {"Preparing", "Queued", "Running", "DeferredQuota"}
          /\ S \in SUBSET {a}
      BY <1>2 DEF TrashAsset, process
    <2> HIDE DEF S
    <2>2. QED
      BY <2>1, StopBoth, Names
  <1>3. QED
    BY <1>1, <1>2

LEMMA ClaimOwnKey ==
  ASSUME TypeInv, UploadInv, NEW a \in Assets, NEW c \in Claims, ClaimByok(a, c)
  PROVE  UploadInv'
  <1>1. byok' = [byok EXCEPT ![a] = c] /\ job[a].status = "Preparing" /\ ~ActiveUpload(a)
        /\ UNCHANGED <<job, upload, objects, pc, claim>> /\ byok \in [Assets -> Claims \cup {None}]
    BY DEF ClaimByok, process, TypeInv, PhotosOK
  <1>2. ASSUME NEW b \in Assets PROVE OwnKey(b)' /\ InUse(b)' /\ Staged(b)'
    <2>1. OwnKey(b) /\ InUse(b) /\ Staged(b) /\ (ActiveUpload(b)' <=> ActiveUpload(b))
      BY <1>1, SameSets DEF UploadInv
    <2>2. QED
      BY <1>1, <2>1, LiveNames DEF OwnKey, InUse, Staged
  <1>3. QED
    BY <1>1, <1>2, ApiStep

LEMMA PlanUploads ==
  ASSUME TypeInv, UploadInv, NEW a \in Assets, NEW u \in Uploads, CreateUploadPlan(a, u)
  PROVE  UploadInv'
  <1> DEFINE due   == job[a].status = "DeferredQuota" /\ job[a].due \in 1..month
             stale == {v \in Uploads : Uploading(v) /\ upload[v].late}
             held  == \E v \in Uploads \ stale : Uploading(v) /\ upload[v].asset = a
             back  == {b \in Assets : \/ b = a /\ due
                                      \/ /\ job[b].status = "Preparing" \/ b = a
                                         /\ \E v \in stale : upload[v].asset = b}
             base  == [b \in Assets |-> IF b \in back THEN ReturnedRow(job[b]) ELSE job[b]]
             start == IF due THEN [base[a] EXCEPT !.status = "Preparing", !.code = "None",
                                                  !.attempts = 0, !.due = Never]
                             ELSE base[a]
             plan  == ReserveBoth(start, ReturnReqs(back), ReturnUsd(back))
             gone  == [v \in Uploads |-> IF v \in stale
                                         THEN [upload[v] EXCEPT !.status = "Expired"]
                                         ELSE upload[v]]
             new   == [asset |-> a, late |-> FALSE, status |-> "Uploading"]
             deferred == Moved(plan.row, "DeferredQuota",
                           IF plan.row.blocked THEN "ProviderCircuitOpen" ELSE "Other", month + 1)
  <1>1. /\ byok[a] = None /\ (due \/ job[a].status = "Preparing") /\ upload[u].status = "None"
        /\ objects' = objects \ stale
        /\ \/ /\ held /\ job' = [base EXCEPT ![a] = start] /\ upload' = gone
           \/ /\ ~held /\ job' = [base EXCEPT ![a] = plan.row] /\ upload' = [gone EXCEPT ![u] = new]
           \/ /\ ~held /\ ~plan.granted /\ job' = [base EXCEPT ![a] = deferred] /\ upload' = gone
        /\ UNCHANGED <<byok, pc, claim>>
    BY DEF CreateUploadPlan, photo, process
  <1>2. /\ job \in [Assets -> SoundRows] /\ upload \in [Uploads -> UploadRow] /\ objects \subseteq Uploads
        /\ (\A b \in Assets : job[b] \in JobRow) /\ month \in Months
    BY JobsTyped DEF TypeInv, WorkOK
  <1>3. ASSUME NEW b \in Assets
        PROVE  /\ base[b] \in JobRow /\ base[b].status = job[b].status /\ base[b].staged = job[b].staged
               /\ Free(job[b]) => Free(base[b])
               /\ b \in back => Free(base[b])
    BY <1>2, ReturnedOne DEF Free
  <1>4. /\ start \in JobRow /\ start.status = "Preparing"
        /\ Free(base[a]) => Free(start)
    <2> DEFINE r == base[a]
    <2>1. r \in JobRow /\ (r.status = "Preparing" \/ due)
      BY <1>1, <1>3
    <2> HIDE DEF r, due
    <2>2. LET n == [r EXCEPT !.status = "Preparing", !.code = "None", !.attempts = 0, !.due = Never]
          IN  n \in JobRow /\ n.status = "Preparing" /\ (Free(r) => Free(n))
      BY <2>1, JobRowIs, Names, Bounds DEF Free
    <2>3. QED
      BY <2>1, <2>2 DEF r
  <1>5. ~held => Free(start)
    <2>1. ASSUME ~held PROVE Free(base[a])
      <3>1. CASE a \in back
        BY <1>3, <3>1
      <3>2. CASE a \notin back
        <4>1. job[a].status = "Preparing" /\ ~\E v \in stale : upload[v].asset = a
          BY <1>1, <3>2
        <4>2. ~ActiveUpload(a)
          BY <2>1, <4>1 DEF ActiveUpload
        <4>3. Free(job[a])
          BY <4>1, <4>2, LiveNames DEF UploadInv, InUse
        <4>4. QED
          BY <1>3, <4>3
      <3>3. QED
        BY <3>1, <3>2
    <2>2. QED
      BY <1>4, <2>1
  <1>6. /\ plan.row \in JobRow /\ plan.row.status = "Preparing"
        /\ ~held /\ ~plan.granted => Free(plan.row)
    <2>1. /\ plan.row \in JobRow /\ plan.row.status = start.status
      <3> DEFINE r == start
                 d == ReturnUsd(back)
                 q == ReturnReqs(back)
      <3>1. r \in JobRow
        BY <1>4
      <3> HIDE DEF r, d, q
      <3>2. ReserveBoth(r, q, d).row \in JobRow /\ ReserveBoth(r, q, d).row.status = r.status
        BY <1>2, <3>1, ReservedOne
      <3>3. QED
        BY <3>2 DEF r, d, q
    <2>2. ASSUME Free(start), ~plan.granted PROVE Free(plan.row)
      <3> DEFINE r == start
                 d == ReturnUsd(back)
                 q == ReturnReqs(back)
      <3>1. r \in JobRow /\ r.req # month /\ r.cost # month /\ Free(r)
        BY <1>2, <1>4, <2>2, Bounds DEF Free
      <3>2. ~ReserveBoth(r, q, d).granted
        BY <2>2
      <3> HIDE DEF r, d, q
      <3>3. ReserveBoth(r, q, d).row \in {[r EXCEPT !.blocked = TRUE], r}
        BY <3>1, <3>2 DEF ReserveBoth
      <3>4. Free(ReserveBoth(r, q, d).row)
        BY <3>1, <3>3, EditedRow DEF Free
      <3>5. QED
        BY <3>4 DEF r, d, q
    <2>3. QED
      BY <1>4, <1>5, <2>1, <2>2
  <1>7. ~held /\ ~plan.granted => Free(deferred) /\ deferred.status = "DeferredQuota"
    <2> DEFINE r == plan.row
               code == IF plan.row.blocked THEN "ProviderCircuitOpen" ELSE "Other"
               next == month + 1
    <2>1. next \in Dues /\ code \in JobCodes /\ r \in JobRow
      BY <1>2, <1>6, Bounds, Names
    <2>2. deferred = Moved(r, "DeferredQuota", code, next)
      OBVIOUS
    <2> HIDE DEF plan, r, code, next, deferred
    <2>3. deferred.status = "DeferredQuota" /\ (Free(r) => Free(deferred))
      <3>1. "DeferredQuota" \in JobStatuses
        BY NeverDue
      <3>2. /\ Moved(r, "DeferredQuota", code, next).status = "DeferredQuota"
            /\ Free(r) => Free(Moved(r, "DeferredQuota", code, next))
        BY <2>1, <3>1, MovedFree
      <3>3. QED
        BY <2>2, <3>2
    <2>4. QED
      BY <1>6, <2>3 DEF r
  <1> HIDE DEF plan, start, deferred, due
  <1>8. \A b \in Assets : b # a => job'[b] = base[b]
    BY <1>1
  <1>9. \A v \in Uploads : /\ v \in stale => upload'[v].status = "Expired" /\ upload'[v].asset = upload[v].asset
                           /\ v \notin stale => upload'[v] = upload[v] \/ (v = u /\ upload'[v] = new)
    <2>1. u \notin stale
      BY <1>1 DEF Uploading
    <2>2. \A v \in Uploads : /\ v \in stale => gone[v].status = "Expired" /\ gone[v].asset = upload[v].asset
                             /\ v \notin stale => gone[v] = upload[v]
      BY <1>2 DEF UploadRow
    <2>3. DOMAIN gone = Uploads
      OBVIOUS
    <2> HIDE DEF gone, stale, new
    <2>4. QED
      BY <1>1, <2>1, <2>2, <2>3
  <1> DEFINE fresh == ~held /\ job' = [base EXCEPT ![a] = plan.row] /\ upload' = [gone EXCEPT ![u] = new]
  <1>10. fresh => upload'[u] = new
    OBVIOUS
  <1>11. ASSUME NEW b \in Assets, b # a PROVE OwnKey(b)' /\ InUse(b)' /\ Staged(b)'
    <2>0. OwnKey(b) /\ InUse(b) /\ Staged(b) /\ job'[b] = base[b] /\ byok' = byok
      BY <1>1, <1>8, <1>11 DEF UploadInv
    <2>1. ActiveUpload(b)' => ActiveUpload(b)
      BY <1>9, <1>11 DEF ActiveUpload, Uploading
    <2>2. OwnKey(b)'
      BY <1>3, <2>0, <2>1 DEF OwnKey
    <2>3. InUse(b)'
      <3>1. CASE b \in back
        BY <1>3, <2>0, <3>1 DEF InUse
      <3>2. CASE b \notin back /\ job[b].status = "Preparing"
        <4>1. ~\E v \in stale : upload[v].asset = b
          BY <3>2
        <4>2. ActiveUpload(b) => ActiveUpload(b)'
          BY <1>1, <1>9, <4>1 DEF ActiveUpload, Uploading
        <4>3. QED
          BY <2>0, <3>2, <4>2 DEF InUse
      <3>3. CASE b \notin back /\ job[b].status # "Preparing"
        BY <2>0, <3>3 DEF InUse
      <3>4. QED
        BY <3>1, <3>2, <3>3
    <2>4. Staged(b)'
      <3>1. ASSUME NEW v \in Uploads, upload[v].status = "Completed" PROVE v \notin stale /\ upload'[v] = upload[v]
        BY <1>1, <1>9, <3>1 DEF Uploading
      <3>2. ASSUME job'[b].status \in Live PROVE job'[b].staged = job[b].staged /\ job[b].status \in Live
        BY <1>3, <2>0, <3>2
      <3>3. QED
        BY <1>1, <1>2, <2>0, <3>1, <3>2 DEF Staged
    <2>5. QED
      BY <2>2, <2>3, <2>4
  <1>12. OwnKey(a)' /\ InUse(a)' /\ Staged(a)' /\ job'[a].status \notin Live
    <2>0. byok'[a] = None
      BY <1>1
    <2>1. CASE held /\ job' = [base EXCEPT ![a] = start] /\ upload' = gone
      <3>1. job'[a] = start
        BY <2>1
      <3>2. ActiveUpload(a)'
        BY <1>1, <1>9, <2>1 DEF ActiveUpload, Uploading
      <3>3. QED
        BY <1>4, <2>0, <3>1, <3>2, LiveNames DEF OwnKey, InUse, Staged
    <2>2. CASE fresh
      <3>1. job'[a] = plan.row
        BY <2>2
      <3>2. ActiveUpload(a)'
        BY <1>10, <2>2 DEF ActiveUpload, Uploading
      <3>3. QED
        BY <1>6, <2>0, <3>1, <3>2, LiveNames DEF OwnKey, InUse, Staged
    <2>3. CASE ~held /\ ~plan.granted /\ job' = [base EXCEPT ![a] = deferred] /\ upload' = gone
      <3>1. job'[a] = deferred
        BY <2>3
      <3>2. QED
        BY <1>7, <2>0, <2>3, <3>1, LiveNames DEF OwnKey, InUse, Staged
    <2>4. QED
      BY <1>1, <2>1, <2>2, <2>3
  <1>13. \A v \in Uploads : upload[v].status \notin {"None", "Uploading"} => upload'[v].status \notin {"None", "Uploading"}
    BY <1>1, <1>9 DEF Uploading
  <1>14. \A b \in Assets : job'[b].status \in Live => job[b].status \in Live /\ job'[b].staged = job[b].staged
    BY <1>3, <1>8, <1>12
  <1>15. QED
    BY <1>1, <1>11, <1>12, <1>13, <1>14, ApiStep

\* Steps of one upload session.
LEMMA SessionUploads ==
  ASSUME TypeInv, UploadInv, NEW u \in Uploads,
         \/ PutObject(u) \/ GetUploadSession(u) \/ CompleteUpload(u) \/ CancelUpload(u) \/ ExpireUpload(u)
  PROVE  UploadInv'
  <1> DEFINE a == upload[u].asset
  <1>0. /\ job \in [Assets -> SoundRows] /\ upload \in [Uploads -> UploadRow] /\ objects \subseteq Uploads
        /\ (\A b \in Assets : job[b] \in JobRow) /\ month \in Months
        /\ \A v \in Uploads : upload[v].status # "None" => upload[v].asset \in Assets
    BY JobsTyped DEF TypeInv, WorkOK, UploadsOK
  <1>1. CASE PutObject(u)
    <2>1. UNCHANGED <<byok, job, upload, pc, claim>> /\ objects' = objects \cup {u}
      BY <1>1 DEF PutObject, photo, process
    <2>2. ASSUME NEW b \in Assets PROVE OwnKey(b)' /\ InUse(b)' /\ Staged(b)'
      <3>1. OwnKey(b) /\ InUse(b) /\ Staged(b) /\ (ActiveUpload(b)' <=> ActiveUpload(b))
        BY <2>1, SameSets DEF UploadInv
      <3>2. QED
        BY <2>1, <3>1 DEF OwnKey, InUse, Staged
    <2>3. QED
      BY <2>1, <2>2, ApiStep
  <1>2. CASE ExpireUpload(u)
    <2>1. UNCHANGED <<byok, job, objects, pc, claim>> /\ upload' = [upload EXCEPT ![u].late = TRUE]
      BY <1>2 DEF ExpireUpload, photo, process
    <2>2. \A v \in Uploads : upload'[v].status = upload[v].status /\ upload'[v].asset = upload[v].asset
      BY <1>0, <2>1 DEF UploadRow
    <2>3. ASSUME NEW b \in Assets PROVE OwnKey(b)' /\ InUse(b)' /\ Staged(b)'
      <3>1. OwnKey(b) /\ InUse(b) /\ Staged(b) /\ (ActiveUpload(b)' <=> ActiveUpload(b))
        BY <2>2 DEF UploadInv, ActiveUpload, Uploading
      <3>2. QED
        BY <1>0, <2>1, <2>2, <3>1 DEF OwnKey, InUse, Staged
    <2>4. QED
      BY <2>1, <2>2, <2>3, ApiStep
  <1>3. ASSUME NEW s \in {"Expired", "Cancelled"}, upload[u].status \in {"Uploading", "Expired"},
               upload' = [upload EXCEPT ![u].status = s], objects' = objects \ {u}, UNCHANGED <<byok, pc, claim>>,
               \A b \in Assets : b # a => job'[b] = job[b],
               \/ Free(job'[a]) /\ job'[a].status = "Preparing" /\ job[a].status = "Preparing"
               \/ job'[a] = job[a] /\ job[a].status # "Preparing"
        PROVE  UploadInv'
    <2>1. \A v \in Uploads : v # u => upload'[v] = upload[v]
      BY <1>0, <1>3
    <2>2. upload'[u].status = s /\ upload'[u].asset = a
      BY <1>0, <1>3 DEF UploadRow
    <2>3. ASSUME NEW b \in Assets PROVE OwnKey(b)' /\ InUse(b)' /\ Staged(b)'
      <3>0. OwnKey(b) /\ InUse(b) /\ Staged(b) /\ byok' = byok
        BY <1>3 DEF UploadInv
      <3>1. ActiveUpload(b)' => ActiveUpload(b)
        BY <1>3, <2>1, <2>2 DEF ActiveUpload, Uploading
      <3>2. b # a /\ ActiveUpload(b) => ActiveUpload(b)'
        BY <1>3, <2>1, <2>2 DEF ActiveUpload, Uploading
      <3>3. OwnKey(b)'
        BY <1>3, <3>0, <3>1, LiveNames DEF OwnKey
      <3>4. InUse(b)'
        BY <1>3, <3>0, <3>2, LiveNames DEF InUse
      <3>5. job[b].status \in Live => job[b].staged # u
        BY <1>3, <3>0 DEF Staged
      <3>6. Staged(b)'
        <4>1. job'[b].status \in Live => job'[b] = job[b]
          BY <1>3, LiveNames
        <4>2. QED
          BY <1>0, <1>3, <2>1, <3>0, <3>5, <4>1 DEF Staged
      <3>7. QED
        BY <3>3, <3>4, <3>6
    <2>4. \A b \in Assets : job'[b].status \in Live => job[b].status \in Live /\ job'[b].staged = job[b].staged
      BY <1>3, LiveNames
    <2>5. \A v \in Uploads : upload[v].status \notin {"None", "Uploading"} => upload'[v].status \notin {"None", "Uploading"}
      BY <2>1, <2>2
    <2>6. QED
      BY <1>3, <2>3, <2>4, <2>5, ApiStep
  <1>4. CASE GetUploadSession(u)
    <2> DEFINE S == {b \in {a} : job[b].status = "Preparing"}
    <2>1. /\ upload' = [upload EXCEPT ![u].status = "Expired"] /\ objects' = objects \ {u}
          /\ job' = [b \in Assets |-> IF b \in S THEN ReturnedRow(job[b]) ELSE job[b]]
          /\ UNCHANGED <<byok, pc, claim>> /\ upload[u].status = "Uploading"
      BY <1>4 DEF GetUploadSession, Uploading, photo, process
    <2>2. a \in Assets
      BY <1>0, <2>1
    <2>3. \A b \in Assets : b # a => job'[b] = job[b]
      BY <2>1
    <2>4. Free(ReturnedRow(job[a])) /\ ReturnedRow(job[a]).status = job[a].status
      BY <1>0, <2>2, ReturnedOne DEF Free
    <2>5. \/ Free(job'[a]) /\ job'[a].status = "Preparing" /\ job[a].status = "Preparing"
          \/ job'[a] = job[a] /\ job[a].status # "Preparing"
      BY <2>1, <2>2, <2>4
    <2> HIDE DEF a
    <2>6. QED
      BY <1>3, <2>1, <2>3, <2>5
  <1>5. CASE CancelUpload(u)
    <2> DEFINE r1 == Unstaged(ReturnedRow(job[a]))
               r == [r1 EXCEPT !.due = Never]
    <2>1. /\ upload' = [upload EXCEPT ![u].status = "Cancelled"] /\ objects' = objects \ {u}
          /\ job' = [job EXCEPT ![a] = r] /\ job[a].status = "Preparing"
          /\ UNCHANGED <<byok, pc, claim>> /\ upload[u].status \in {"Uploading", "Expired"}
      BY <1>5 DEF CancelUpload, photo, process
    <2>2. a \in Assets
      BY <1>0, <2>1
    <2>3. r1 \in JobRow /\ Free(r1) /\ r1.status = "Preparing"
      BY <1>0, <2>1, <2>2, ReturnedOne, UnstagedOne DEF Free
    <2> HIDE DEF r1
    <2>4. Free(r) /\ r.status = "Preparing"
      BY <2>3, EditedRow, Bounds DEF Free
    <2> HIDE DEF r
    <2>5. job'[a] = r /\ \A b \in Assets : b # a => job'[b] = job[b]
      BY <1>0, <2>1, <2>2
    <2> HIDE DEF a
    <2>6. QED
      BY <1>3, <2>1, <2>4, <2>5
  <1>6. CASE CompleteUpload(u)
    <2> DEFINE r1 == Moved(job[a], "Queued", "None", month)
               r == [r1 EXCEPT !.staged = u]
    <2>1. /\ upload' = [upload EXCEPT ![u].status = "Completed"] /\ u \in objects /\ byok[a] = None
          /\ job' = [job EXCEPT ![a] = r] /\ job[a].status = "Preparing"
          /\ UNCHANGED <<byok, objects, pc, claim>> /\ upload[u].status = "Uploading"
      BY <1>6 DEF CompleteUpload, Uploading, photo, process
    <2>2. a \in Assets
      BY <1>0, <2>1
    <2>3. r1 \in JobRow /\ r1.status = "Queued"
      <3>1. month \in Dues /\ job[a] \in JobRow
        BY <1>0, <2>2, Bounds
      <3> DEFINE old == job[a]
                 now == month
      <3>2. old \in JobRow /\ now \in Dues /\ r1 = Moved(old, "Queued", "None", now)
        BY <3>1
      <3> HIDE DEF old, now, r1, a
      <3>3. "Queued" \in JobStatuses /\ "None" \in JobCodes
        BY NeverDue
      <3>4. Moved(old, "Queued", "None", now) \in JobRow /\ Moved(old, "Queued", "None", now).status = "Queued"
        BY <3>2, <3>3, MovedFree
      <3>5. QED
        BY <3>2, <3>4
    <2> HIDE DEF r1
    <2>4. r.status = "Queued" /\ r.staged = u
      BY <2>3, EditedRow
    <2> HIDE DEF r
    <2>5. job'[a] = r /\ \A b \in Assets : b # a => job'[b] = job[b]
      BY <1>0, <2>1, <2>2
    <2>6. \A v \in Uploads : v # u => upload'[v] = upload[v]
      BY <1>0, <2>1
    <2>7. upload'[u].status = "Completed" /\ upload'[u].asset = a
      BY <1>0, <2>1 DEF UploadRow
    <2>8. ASSUME NEW b \in Assets PROVE OwnKey(b)' /\ InUse(b)' /\ Staged(b)'
      <3>0. OwnKey(b) /\ InUse(b) /\ Staged(b) /\ byok' = byok
        BY <2>1 DEF UploadInv
      <3>1. CASE b = a
        BY <2>1, <2>4, <2>5, <2>7, <3>1, LiveNames DEF OwnKey, InUse, Staged
      <3>2. CASE b # a
        <4>1. ActiveUpload(b)' <=> ActiveUpload(b)
          BY <2>6, <2>7, <3>2 DEF ActiveUpload, Uploading
        <4>2. Staged(b)'
          BY <1>0, <2>1, <2>5, <2>6, <2>7, <3>0, <3>2 DEF Staged
        <4>3. QED
          BY <2>5, <3>0, <3>2, <4>1, <4>2 DEF OwnKey, InUse
      <3>3. QED
        BY <3>1, <3>2
    <2>9. \A b \in Assets : job'[b].status \in Live =>
            \/ job[b].status \in Live /\ job'[b].staged = job[b].staged
            \/ upload[job'[b].staged].status = "Uploading"
      BY <2>1, <2>4, <2>5
    <2>10. \A v \in Uploads : upload[v].status \notin {"None", "Uploading"} => upload'[v].status \notin {"None", "Uploading"}
      BY <2>6, <2>7
    <2>11. QED
      BY <2>1, <2>8, <2>9, <2>10, ApiStep
  <1>7. QED
    BY <1>1, <1>2, <1>4, <1>5, <1>6

-----------------------------------------------------------------------------
(* The steps of the sweep and the workers.                                 *)

LEMMA SweepUploads ==
  ASSUME TypeInv, UploadInv, NEW old \in SUBSET DueQueued, NEW batch, Sweep(old, batch)
  PROVE  UploadInv'
  <1> DEFINE called    == {a \in AllExpired : CallStarted(job[a])}
             exhausted == {a \in old \cup AllExpired : Exhausted(a)}
             requeued  == (old \cup AllExpired) \ exhausted
             row(a)    == IF a \in AllExpired THEN SettledRow(job[a], a \in called) ELSE job[a]
             back(a)   == [Moved(Unstaged(ReturnedRow(job[a])), "Preparing", "None", Never) EXCEPT !.attempts = 0]
  <1>0. /\ \A a \in Assets : job[a] \in JobRow
        /\ AllExpired \in SUBSET Assets /\ old \in SUBSET Assets /\ month \in Dues
        /\ \A a \in old \cup AllExpired : job[a].status \in Live
    BY JobsTyped, LiveNames, Bounds DEF TypeInv, WorkOK, AllExpired, DueQueued, Expired
  <1>1. /\ job' = [a \in Assets |->
             IF a \in exhausted THEN Moved(row(a), "Failed", "Other", Never)
             ELSE IF a \in requeued THEN Moved(row(a), "Queued", "None", month)
             ELSE IF a \in DueDeferred THEN back(a)
             ELSE job[a]]
        /\ UNCHANGED <<photo, upload, objects, process>>
    BY DEF Sweep
  <1>2. ASSUME NEW a \in old \cup AllExpired PROVE row(a) \in JobRow /\ row(a).staged = job[a].staged
    <2>1. a \in Assets /\ job[a] \in JobRow /\ (a \in called) \in BOOLEAN
      BY <1>0
    <2> HIDE DEF called
    <2>2. SettledRow(job[a], a \in called) \in JobRow /\ SettledRow(job[a], a \in called).staged = job[a].staged
      BY <2>1, SettledOne
    <2>3. QED
      BY <2>1, <2>2
  <1>3. ASSUME NEW a \in Assets PROVE Free(back(a)) /\ back(a).status = "Preparing"
    <2> DEFINE r1 == Unstaged(ReturnedRow(job[a]))
               r2 == Moved(r1, "Preparing", "None", Never)
    <2>1. r1 \in JobRow /\ Free(r1)
      BY <1>0, ReturnedOne, UnstagedOne DEF Free
    <2> HIDE DEF r1
    <2>2. r2 \in JobRow /\ Free(r2) /\ r2.status = "Preparing"
      BY <2>1, MovedFree, NeverDue
    <2> HIDE DEF r2
    <2>3. Free([r2 EXCEPT !.attempts = 0]) /\ [r2 EXCEPT !.attempts = 0].status = "Preparing"
      BY <2>2, EditedRow, Bounds DEF Free
    <2>4. QED
      BY <2>3 DEF r1, r2
  <1> HIDE DEF row, back
  <1>4. ASSUME NEW a \in old \cup AllExpired
        PROVE  /\ Moved(row(a), "Failed", "Other", Never).status = "Failed"
               /\ Moved(row(a), "Failed", "Other", Never).staged = job[a].staged
               /\ Moved(row(a), "Queued", "None", month).status = "Queued"
               /\ Moved(row(a), "Queued", "None", month).staged = job[a].staged
    BY <1>0, <1>2, MovedFree, NeverDue
  <1>5. \A a \in Assets : Moves(a)
    BY <1>0, <1>1, <1>3, <1>4, LiveNames DEF Moves, Ends, Stays
  <1>6. QED
    BY <1>1, <1>5, RowsStep DEF photo, process

LEMMA ClaimUploads ==
  ASSUME TypeInv, UploadInv, NEW w \in Workers, NEW msg \in Messages, Claim(w, msg)
  PROVE  UploadInv'
  <1> DEFINE a == msg[1]
             row == job[a]
             charged == Expired(a) /\ CallStarted(row)
             settled == IF charged THEN SettledRow(row, TRUE) ELSE row
             failed == [ReturnedRow(row) EXCEPT !.status = "Failed", !.code = "Other"]
             k == row.attempts + 1
             id == msg[2]
             running == [settled EXCEPT !.status = "Running", !.code = "None", !.attempts = k,
                                        !.lease = id, !.live = TRUE]
  <1>0. /\ a \in Assets /\ job \in [Assets -> SoundRows] /\ row \in JobRow /\ id \in MessageIds
        /\ pc \in [Workers -> Steps] /\ claim \in [Workers -> Uploads \cup {None}]
    BY JobsTyped DEF Messages, TypeInv, WorkOK
  <1>1. /\ pc[w] = "Idle" /\ UNCHANGED <<byok, upload, objects>>
        /\ \/ \E s \in {"Failed", "Cancelled", "Succeeded"}, c \in {"Other", "None"} :
                job' = [job EXCEPT ![a] = ReturnedRow(Moved(row, s, c, Never))]
           \/ UNCHANGED job
           \/ job' = [job EXCEPT ![a] = settled]
           \/ job' = [job EXCEPT ![a] = failed]
           \/ /\ ~Exhausted(a) /\ (row.status = "Queued" \/ Expired(a))
              /\ job' = [job EXCEPT ![a] = running]
        /\ \E step \in {"Ack", "Presign"} : Goto(w, step)
        /\ \E u : claim' \in {claim, [claim EXCEPT ![w] = u]}
    BY DEF Claim, photo
  <1>2. settled \in JobRow /\ settled.status = row.status /\ settled.staged = row.staged
        /\ (settled = row \/ row.status = "Running")
    BY <1>0, SettledOne DEF Expired
  <1>3. Free(failed) /\ failed.status = "Failed"
    <2> DEFINE r == ReturnedRow(row)
    <2>1. r \in JobRow /\ Free(r)
      BY <1>0, ReturnedOne DEF Free
    <2> HIDE DEF r
    <2>2. Free([r EXCEPT !.status = "Failed", !.code = "Other"]) /\ [r EXCEPT !.status = "Failed", !.code = "Other"].status = "Failed"
      BY <2>1, JobRowIs DEF Free
    <2>3. QED
      BY <2>2 DEF r
  <1> HIDE DEF settled, k, id
  <1>4. running.status = "Running" /\ running.staged = row.staged
    BY <1>2, JobRowIs
  <1>5. ASSUME NEW s \in {"Failed", "Cancelled", "Succeeded"}, NEW c \in {"Other", "None"}
        PROVE  Free(ReturnedRow(Moved(row, s, c, Never))) /\ ReturnedRow(Moved(row, s, c, Never)).status = s
    <2>1. s \in JobStatuses /\ c \in JobCodes /\ Never \in Dues
      BY NeverDue
    <2>2. Moved(row, s, c, Never) \in JobRow /\ Moved(row, s, c, Never).status = s
      BY <1>0, <2>1, MovedFree
    <2>3. QED
      BY <2>2, ReturnedOne DEF Free
  <1>6. row.status = "Queued" \/ Expired(a) => row.status \in Live
    BY LiveNames DEF Expired
  <1> HIDE DEF failed, running
  <1>7. Moves(a)
    <2> SUFFICES ASSUME ~(job'[a] = row), ~Ends(a) PROVE Stays(a)
      BY DEF Moves
    <2>1. CASE \E s \in {"Failed", "Cancelled", "Succeeded"}, c \in {"Other", "None"} :
                 job' = [job EXCEPT ![a] = ReturnedRow(Moved(row, s, c, Never))]
      BY <1>0, <1>5, <2>1, LiveNames DEF Ends
    <2>2. CASE job' = [job EXCEPT ![a] = settled]
      BY <1>0, <1>2, <2>2, LiveNames DEF Stays
    <2>3. CASE job' = [job EXCEPT ![a] = failed]
      BY <1>0, <1>3, <2>3, LiveNames DEF Ends
    <2>4. CASE (row.status = "Queued" \/ Expired(a)) /\ job' = [job EXCEPT ![a] = running]
      BY <1>0, <1>4, <1>6, <2>4, LiveNames DEF Stays
    <2>5. QED
      BY <1>1, <2>1, <2>2, <2>3, <2>4
  <1>8. \A b \in Assets : b # a => job'[b] = job[b]
    BY <1>0, <1>1
  <1>9. \A b \in Assets : Moves(b)
    BY <1>7, <1>8 DEF Moves
  <1>10. NoNewClean
    BY <1>0, <1>1 DEF NoNewClean, Goto
  <1>11. QED
    BY <1>1, <1>9, <1>10, RowsStep DEF NoNewClean

\* Steps of a worker that do not end its job.
LEMMA QuietWorker ==
  ASSUME TypeInv, UploadInv, UNCHANGED <<byok, upload, objects>>, \A a \in Assets : Moves(a),
         NEW w \in Workers, NEW step \in Steps \ {"Clean"}, Goto(w, step),
         \A v \in Workers : v # w => claim'[v] = claim[v]
  PROVE  UploadInv'
  <1>1. pc \in [Workers -> Steps]
    BY DEF TypeInv, WorkOK
  <1>2. NoNewClean
    BY <1>1 DEF NoNewClean, Goto
  <1>3. QED
    BY <1>2, RowsStep DEF NoNewClean

LEMMA NotClaimedUploads ==
  ASSUME TypeInv, UploadInv, NEW w \in Workers, NotClaimed(w)
  PROVE  UploadInv'
  BY QuietWorker DEF NotClaimed, Moves, photo, Steps

LEMMA RunUploads ==
  ASSUME TypeInv, UploadInv, NEW w \in Workers, Presign(w) \/ ReserveCall(w) \/ ConsumeCall(w) \/ CallProvider(w)
  PROVE  UploadInv'
  <1> DEFINE a == task[w][1]
  <1>0. pc[w] # "Idle" /\ job \in [Assets -> SoundRows]
    BY JobsTyped DEF Presign, ReserveCall, ConsumeCall, CallProvider
  <1>1. a \in Assets /\ job[a] \in JobRow /\ (Claimed(w) => job[a].status = "Running")
    BY <1>0, ClaimedJob
  <1>2. ASSUME NEW r, r.staged = job[a].staged, r.status = job[a].status, Claimed(w), job' = [job EXCEPT ![a] = r]
        PROVE  \A b \in Assets : Moves(b)
    BY <1>0, <1>1, <1>2, LiveNames DEF Moves, Stays
  <1>3. CASE Presign(w)
    <2>1. UNCHANGED <<byok, job, upload, objects, claim>> /\ \E step \in {"Reserve", "Defer", "Fail"} : Goto(w, step)
      BY <1>3 DEF Presign, Report, photo
    <2>2. QED
      BY <2>1, QuietWorker DEF Moves, Steps
  <1>4. CASE CallProvider(w)
    <2>1. UNCHANGED <<byok, job, upload, objects, claim>> /\ \E step \in {"Complete", "Defer", "Fail"} : Goto(w, step)
      BY <1>4 DEF CallProvider, Report, photo
    <2>2. QED
      BY <2>1, QuietWorker DEF Moves, Steps
  <1>5. CASE ReserveCall(w)
    <2> DEFINE plan == ReserveBoth(job[a], reqs, usd)
               granted == plan.granted
    <2>1. /\ \/ Report(w, "Quota", FALSE) /\ UNCHANGED job
             \/ /\ Claimed(w) /\ job' = [job EXCEPT ![a] = plan.row]
                /\ IF granted THEN Goto(w, "Consume") /\ UNCHANGED fault ELSE Report(w, "Quota", FALSE)
          /\ UNCHANGED <<photo, upload, objects, claim>>
      BY <1>5, Zenon DEF ReserveCall
    <2>2. plan.row.status = job[a].status /\ plan.row.staged = job[a].staged
      BY <1>1, ReservedOne DEF TypeInv, WorkOK
    <2> HIDE DEF plan, granted, a
    <2>3. \E step \in {"Consume", "Defer", "Fail"} : Goto(w, step)
      BY <2>1 DEF Report
    <2>4. \A b \in Assets : Moves(b)
      BY <1>2, <2>1, <2>2 DEF Moves
    <2>5. QED
      BY <2>1, <2>3, <2>4, QuietWorker DEF photo, Steps
  <1>6. CASE ConsumeCall(w)
    <2>1. CASE NotClaimed(w)
      BY <2>1, NotClaimedUploads
    <2>2. CASE ~NotClaimed(w)
      <3> DEFINE m == job[a].req
                 used == IF m = Never THEN job[a].consumed ELSE m
                 step == IF m = Never THEN "Ack" ELSE "Call"
                 r == [job[a] EXCEPT !.req = Never, !.consumed = used]
      <3>1. Claimed(w) /\ Goto(w, step) /\ job' = [job EXCEPT ![a] = r] /\ UNCHANGED <<photo, upload, objects, claim>>
        BY <1>6, <2>2 DEF ConsumeCall
      <3>2. step \in Steps \ {"Clean"}
        BY DEF Steps
      <3>3. r.status = job[a].status /\ r.staged = job[a].staged
        BY <1>1, JobRowIs
      <3> HIDE DEF r, step, a
      <3>4. \A b \in Assets : Moves(b)
        BY <1>2, <3>1, <3>3
      <3>5. QED
        BY <3>1, <3>2, <3>4, QuietWorker DEF photo
    <2>3. QED
      BY <2>1, <2>2
  <1>7. QED
    BY <1>3, <1>4, <1>5, <1>6

\* What the handlers that end a job write.
LEMMA EndedFree ==
  ASSUME NEW r \in JobRow, NEW called \in BOOLEAN, NEW s \in JobStatuses, NEW c \in JobCodes, NEW d \in Dues
  PROVE  LET n == Moved(SettledRow(r, called), s, c, d)
         IN  n \in JobRow /\ n.status = s /\ n.staged = r.staged /\ Free(n)
  <1> DEFINE n == SettledRow(r, called)
  <1>1. n \in JobRow /\ n.staged = r.staged /\ Free(n)
    BY SettledOne DEF Free
  <1> HIDE DEF n
  <1>2. /\ Moved(n, s, c, d) \in JobRow /\ Moved(n, s, c, d).status = s /\ Moved(n, s, c, d).staged = r.staged
        /\ Free(Moved(n, s, c, d))
    BY <1>1, MovedFree
  <1>3. QED
    BY <1>2 DEF n

LEMMA EndUploads ==
  ASSUME TypeInv, UploadInv, NEW w \in Workers, Complete(w) \/ Defer(w)
  PROVE  UploadInv'
  <1> DEFINE a == task[w][1]
             called == fault[w].called
             code0 == IF ~called /\ job[a].blocked THEN "ProviderCircuitOpen" ELSE "Other"
  <1>0. pc[w] # "Idle" /\ called \in BOOLEAN /\ month + 1 \in Dues
    BY Bounds DEF TypeInv, WorkOK, Complete, Defer, Faults
  <1>1. a \in Assets /\ job[a] \in JobRow
    BY <1>0, ClaimedJob, JobsTyped
  <1>2. CASE NotClaimed(w)
    BY <1>2, NotClaimedUploads
  <1>3. CASE ~NotClaimed(w)
    <2>1. /\ Claimed(w) /\ Goto(w, "Clean") /\ UNCHANGED <<byok, upload, objects, claim>>
          /\ \/ job' = [job EXCEPT ![a] = Moved(SettledRow(job[a], TRUE), "Succeeded", "None", Never)]
             \/ job' = [job EXCEPT ![a] = Moved(SettledRow(job[a], TRUE), "Failed", "Other", Never)]
             \/ job' = [job EXCEPT ![a] = Moved(SettledRow(job[a], called), "DeferredQuota", code0, month + 1)]
      BY <1>3 DEF Complete, Defer, photo
    <2>2. code0 \in JobCodes /\ "Clean" \in Steps
      BY NeverDue, Names DEF Steps
    <2> HIDE DEF code0
    <2>3. ASSUME NEW r \in JobRow, r.status \in {"Failed", "Succeeded", "DeferredQuota"}, r.staged = job[a].staged,
                 Free(r), job' = [job EXCEPT ![a] = r]
          PROVE  UploadInv'
      BY <1>0, <2>1, <2>2, <2>3, CleanStep
    <2> DEFINE row(c, s, code, d) == Moved(SettledRow(job[a], c), s, code, d)
               next == month + 1
    <2>4. ASSUME NEW c \in BOOLEAN, NEW s \in {"Failed", "Succeeded", "DeferredQuota"}, NEW code \in JobCodes, NEW d \in Dues
          PROVE  /\ row(c, s, code, d) \in JobRow /\ row(c, s, code, d).status = s
                 /\ row(c, s, code, d).staged = job[a].staged /\ Free(row(c, s, code, d))
      <3> HIDE DEF a
      <3>1. s \in JobStatuses
        BY NeverDue
      <3>2. QED
        BY <1>1, <3>1, EndedFree
    <2>5. \E c \in BOOLEAN, s \in {"Failed", "Succeeded", "DeferredQuota"}, code \in JobCodes, d \in Dues :
            job' = [job EXCEPT ![a] = row(c, s, code, d)]
      <3>1. next \in Dues /\ called \in BOOLEAN /\ Never \in Dues /\ "None" \in JobCodes /\ "Other" \in JobCodes
        BY <1>0, NeverDue
      <3>2. \/ job' = [job EXCEPT ![a] = row(TRUE, "Succeeded", "None", Never)]
            \/ job' = [job EXCEPT ![a] = row(TRUE, "Failed", "Other", Never)]
            \/ job' = [job EXCEPT ![a] = row(called, "DeferredQuota", code0, next)]
        BY <2>1
      <3> HIDE DEF row, next, called, a
      <3>3. QED
        BY <2>2, <3>1, <3>2
    <2>6. PICK c \in BOOLEAN, s \in {"Failed", "Succeeded", "DeferredQuota"}, code \in JobCodes, d \in Dues :
            job' = [job EXCEPT ![a] = row(c, s, code, d)]
      BY <2>5
    <2> DEFINE r == row(c, s, code, d)
    <2>7. r \in JobRow /\ r.status = s /\ r.staged = job[a].staged /\ Free(r)
      BY <2>4
    <2> HIDE DEF row, a
    <2>8. job' = [job EXCEPT ![a] = r]
      BY <2>6
    <2> HIDE DEF r
    <2>9. QED
      BY <2>3, <2>7, <2>8
  <1>4. QED
    BY <1>2, <1>3

LEMMA FailUploads ==
  ASSUME TypeInv, UploadInv, NEW w \in Workers, Fail(w)
  PROVE  UploadInv'
  <1> DEFINE a == task[w][1]
             called == fault[w].called
             again == fault[w].kind = "Transient" /\ ~Exhausted(a)
             kept  == fault[w].kind = "Transient"
             end   == IF kept THEN "Ack" ELSE "Clean"
             queued == Moved(SettledRow(job[a], called), "Queued", "Other", month)
             failed == Moved(SettledRow(job[a], called), "Failed", "Other", Never)
  <1>0. pc[w] # "Idle" /\ called \in BOOLEAN /\ month \in Dues /\ claim \in [Workers -> Uploads \cup {None}]
    BY Bounds DEF TypeInv, WorkOK, Fail, Faults
  <1>1. a \in Assets /\ job[a] \in JobRow /\ job \in [Assets -> SoundRows] /\ (Claimed(w) => job[a].status = "Running")
    BY <1>0, ClaimedJob, JobsTyped
  <1>2. CASE NotClaimed(w)
    BY <1>2, NotClaimedUploads
  <1>3. CASE ~NotClaimed(w)
    <2>1. /\ Claimed(w) /\ UNCHANGED <<byok, upload, objects>>
          /\ job' = [job EXCEPT ![a] = IF again THEN queued ELSE failed]
          /\ IF again THEN Goto(w, "Idle") /\ claim' = [claim EXCEPT ![w] = None]
                      ELSE Goto(w, end) /\ UNCHANGED claim
      BY <1>3 DEF Fail, photo
    <2>2. /\ queued.status = "Queued" /\ queued.staged = job[a].staged
          /\ failed \in JobRow /\ failed.status = "Failed" /\ failed.staged = job[a].staged /\ Free(failed)
      <3> HIDE DEF a, called
      <3>1. QED
        BY <1>0, <1>1, EndedFree, NeverDue
    <2> HIDE DEF queued, failed, again, kept
    <2>3. CASE again
      <3>1. job' = [job EXCEPT ![a] = queued] /\ Goto(w, "Idle") /\ claim' = [claim EXCEPT ![w] = None]
        BY <2>1, <2>3
      <3>2. \A b \in Assets : Moves(b)
        BY <1>1, <2>1, <2>2, <3>1, LiveNames DEF Moves, Stays
      <3>3. \A v \in Workers : v # w => claim'[v] = claim[v]
        BY <1>0, <3>1
      <3>4. QED
        BY <2>1, <3>1, <3>2, <3>3, QuietWorker DEF Steps
    <2>4. CASE ~again
      <3>1. job' = [job EXCEPT ![a] = failed] /\ Goto(w, end) /\ UNCHANGED claim
        BY <2>1, <2>4
      <3>2. CASE kept
        <4>1. \A b \in Assets : Moves(b)
          BY <1>1, <2>1, <2>2, <3>1, LiveNames DEF Moves, Stays
        <4>2. QED
          BY <2>1, <3>1, <3>2, <4>1, QuietWorker DEF Steps
      <3>3. CASE ~kept
        <4>1. Goto(w, "Clean") /\ "Clean" \in Steps
          BY <3>1, <3>3 DEF Steps
        <4>2. QED
          BY <1>0, <2>1, <2>2, <3>1, <4>1, CleanStep
      <3>4. QED
        BY <3>2, <3>3
    <2>5. QED
      BY <2>3, <2>4
  <1>4. QED
    BY <1>2, <1>3

\* The preview a worker deletes is of no job that needs one.
LEMMA CleanUploads ==
  ASSUME TypeInv, UploadInv, NEW w \in Workers, Clean(w)
  PROVE  UploadInv'
  <1>0. /\ pc[w] = "Clean" /\ objects' = objects \ {claim[w]} /\ pc' = [pc EXCEPT ![w] = "Ack"]
        /\ UNCHANGED <<byok, job, upload, claim>> /\ pc \in [Workers -> Steps]
    BY DEF Clean, Goto, photo, TypeInv, WorkOK
  <1>1. ASSUME NEW a \in Assets PROVE OwnKey(a)' /\ InUse(a)' /\ Staged(a)'
    <2>1. OwnKey(a) /\ InUse(a) /\ Staged(a) /\ Cleaning(w) /\ (ActiveUpload(a)' <=> ActiveUpload(a))
      BY <1>0, SameSets DEF UploadInv
    <2>2. job[a].status \in Live => job[a].staged # claim[w]
      BY <1>0, <2>1 DEF Cleaning
    <2>3. QED
      BY <1>0, <2>1, <2>2 DEF OwnKey, InUse, Staged
  <1>2. ASSUME NEW v \in Workers PROVE Cleaning(v)'
    <2>1. Cleaning(v) /\ (pc'[v] = "Clean" => pc[v] = "Clean")
      BY <1>0 DEF UploadInv
    <2>2. QED
      BY <1>0, <2>1 DEF Cleaning
  <1>3. QED
    BY <1>1, <1>2 DEF UploadInv

LEMMA ReleaseUploads ==
  ASSUME TypeInv, UploadInv, NEW w \in Workers, Release(w)
  PROVE  UploadInv'
  <1>1. /\ UNCHANGED <<byok, job, upload, objects>> /\ Goto(w, "Idle") /\ "Idle" \in Steps \ {"Clean"}
        /\ claim' = [claim EXCEPT ![w] = None] /\ claim \in [Workers -> Uploads \cup {None}]
    BY DEF Release, photo, Steps, TypeInv, WorkOK
  <1>2. (\A a \in Assets : Moves(a)) /\ \A v \in Workers : v # w => claim'[v] = claim[v]
    BY <1>1 DEF Moves
  <1>3. QED
    BY <1>1, <1>2, QuietWorker

LEMMA StillUploads ==
  ASSUME TypeInv, UploadInv, UNCHANGED <<byok, job, upload, objects, pc, claim>>
  PROVE  UploadInv'
  BY RowsStep DEF Moves

LEMMA UploadStep ==
  ASSUME TypeInv, UploadInv, [Next]_vars
  PROVE  UploadInv'
  <1>1. ASSUME NEW a \in Assets,
               \/ PrepareEnrichment(a) \/ RetryJob(a) \/ CancelJob(a) \/ TrashAsset(a) \/ RestoreAsset(a)
               \/ ExpireLease(a) \/ \E u \in Uploads : CreateUploadPlan(a, u)
               \/ \E c \in Claims : ClaimByok(a, c) \/ SaveByok(a, c)
        PROVE  UploadInv'
    BY <1>1, PrepareUploads, StopUploading, ClaimOwnKey, PlanUploads
  <1>2. ASSUME NEW u \in Uploads,
               \/ PutObject(u) \/ GetUploadSession(u) \/ CompleteUpload(u) \/ CancelUpload(u) \/ ExpireUpload(u)
        PROVE  UploadInv'
    BY <1>2, SessionUploads
  <1>3. CASE RedispatchDueJobs
    BY <1>3, SweepUploads DEF RedispatchDueJobs
  <1>4. CASE AdvanceMonth
    BY <1>4, StillUploads DEF AdvanceMonth, photo, process
  <1>5. ASSUME NEW w \in Workers, (\E msg \in Messages : Claim(w, msg)) \/ WorkerStep(w) \/ Crash(w)
        PROVE  UploadInv'
    BY <1>5, ClaimUploads, RunUploads, EndUploads, FailUploads, CleanUploads, ReleaseUploads
    DEF WorkerStep, Acknowledge, Crash
  <1>6. CASE UNCHANGED vars
    BY <1>6, StillUploads DEF vars, photo, process
  <1>7. QED
    BY <1>1, <1>2, <1>3, <1>4, <1>5, <1>6 DEF Next

LEMMA UploadsHold == Spec => []UploadInv
  <1>1. Init => UploadInv
    BY InitUploads
  <1>2. TypeInv /\ UploadInv /\ [Next]_vars => UploadInv'
    BY UploadStep
  <1>3. QED
    BY <1>1, <1>2, TypesHold, PTL DEF Spec

-----------------------------------------------------------------------------
(* The theorems.                                                           *)

\* A photo claimed for a device's own key is not also analysed in the cloud
\* (claim_byok stops its job and its upload; later handlers refuse it).
THEOREM AnalysedAtMostOnce == Spec => []AnalysedOnce
  BY UploadsHold, InvMeaning, PTL

\* What ends, defers or trashes a job, or expires or cancels its upload,
\* returns its reservation; only a failed job may keep one.
THEOREM ReservationsHaveUse == Spec => []ReservationsInUse
  BY UploadsHold, InvMeaning, PTL

\* No cleanup, cancellation, expiry or sweep deletes the preview a queued or
\* leased job still needs (_cleanup_if_safe, cancel_upload, expired sessions).
THEOREM PreviewsKept == Spec => []StagedPreviewKept
  BY UploadsHold, InvMeaning, PTL
=============================================================================
