--------------------------- MODULE ByokJournalProofs ---------------------------
(***************************************************************************)
(* Theorems about ByokJournal, for every finite set of photos, every price *)
(* and cap, and every number of months and retries.                        *)
(***************************************************************************)
EXTENDS ByokJournal, Folding

-----------------------------------------------------------------------------
(* Types.                                                                  *)

LEMMA Ranges ==
  /\ 0 \in 0..Price /\ Price \in 0..Price /\ 0 \in 0..MaxMonth
  /\ Months \subseteq 0..MaxMonth /\ Costs \subseteq 0..Price
  BY ByokAssumption DEF Months

\* What each change of a row keeps.
LEMMA MovedRow ==
  ASSUME NEW r \in Row, NEW state \in States
  PROVE  /\ Moved(r, state) \in Row /\ Moved(r, state).state = state
         /\ Moved(r, state).result = r.result /\ Moved(r, state).cost = r.cost /\ Moved(r, state).month = r.month
  BY DEF Moved, Row

LEMMA RecoveredRow ==
  ASSUME NEW r \in Row
  PROVE  /\ Recovered(r) \in Row
         /\ Recovered(r).state = IF r.state = "Calling" THEN "Uncertain" ELSE r.state
         /\ Recovered(r).result = r.result /\ Recovered(r).cost = r.cost /\ Recovered(r).month = r.month
  BY MovedRow DEF Recovered, States, Failed

LEMMA ClearedRow ==
  ASSUME NEW r \in Row
  PROVE  Cleared(r) \in Row /\ Cleared(r).state = "Ready" /\ Cleared(r).result = r.result
  BY Ranges DEF Cleared, Row, States

LEMMA UnreadRow ==
  ASSUME NEW r \in Row
  PROVE  Unread(r) \in Row /\ Unread(r).state = "NeedsAttention" /\ Unread(r).result = r.result
  BY Ranges DEF Unread, Row, States, Failed

LEMMA ReservedRow ==
  ASSUME NEW r \in Row, month \in Months
  PROVE  Reserved(r) \in Row /\ Reserved(r).state = "Calling" /\ Reserved(r).result = r.result
  BY Ranges DEF Reserved, Row, States

LEMMA DescribedRow ==
  ASSUME NEW r \in Row, NEW cost \in 0..Price
  PROVE  Described(r, cost) \in Row /\ Described(r, cost).state = "ResultReady"
  BY DEF Described, Row, States

LEMMA SettledRow ==
  ASSUME NEW r \in Row, NEW outcome
  PROVE  Settled(r, outcome) \in Row /\ Settled(r, outcome).result = r.result
  BY Ranges DEF Settled, Row

LEMMA PutType ==
  ASSUME row \in [Jobs -> Row], NEW j \in Jobs, NEW r \in Row, Put(j, r)
  PROVE  row' \in [Jobs -> Row] /\ row'[j] = r /\ \A k \in Jobs \ {j} : row'[k] = row[k]
  BY DEF Put

LEMMA InitTypes == Init => TypeOK
  <1> SUFFICES ASSUME Init PROVE TypeOK
    OBVIOUS
  <1> USE ByokAssumption DEF Init
  <1>1. row \in [Jobs -> Row]
    BY DEF Row, States
  <1>2. past \in [Months -> Nat] /\ month \in Months /\ billed \in [Months -> Nat]
    BY DEF Months
  <1>3. /\ run \in {"Off", "Flushing", "Running", "Retrying"} /\ selected \subseteq Jobs
        /\ stop \in BOOLEAN /\ down \in BOOLEAN /\ pc \in [Jobs -> Steps]
    BY DEF Steps
  <1>6. retries \in 0..MaxRetries
    OBVIOUS
  <1>4. /\ server \in [Jobs -> [status: {"Preparing", "Cloud", "Cancelled", "Succeeded"}, claimed: BOOLEAN]]
        /\ charge \in [Jobs -> Costs \cup {0}] /\ orders \in [Jobs -> Int]
    OBVIOUS
  <1>5. QED
    BY <1>1, <1>2, <1>3, <1>4, <1>6 DEF TypeOK

\* The journal, the process and the rest, each with its types.
JournalType == row \in [Jobs -> Row] /\ past \in [Months -> Nat]
ProcessType ==
  /\ run \in {"Off", "Flushing", "Running", "Retrying"} /\ selected \subseteq Jobs
  /\ retries \in 0..MaxRetries /\ stop \in BOOLEAN /\ down \in BOOLEAN
ServerType ==
  /\ month \in Months
  /\ server \in [Jobs -> [status: {"Preparing", "Cloud", "Cancelled", "Succeeded"}, claimed: BOOLEAN]]
LedgerType ==
  charge \in [Jobs -> Costs \cup {0}] /\ billed \in [Months -> Nat] /\ orders \in [Jobs -> Int]

LEMMA Types == TypeOK <=> JournalType /\ ProcessType /\ ServerType /\ pc \in [Jobs -> Steps] /\ LedgerType
  BY DEF TypeOK, JournalType, ProcessType, ServerType, LedgerType

LEMMA TypesNext ==
  TypeOK' <=> JournalType' /\ ProcessType' /\ ServerType' /\ pc' \in [Jobs -> Steps] /\ LedgerType'
  BY DEF TypeOK, JournalType, ProcessType, ServerType, LedgerType

LEMMA GoType ==
  ASSUME pc \in [Jobs -> Steps], NEW j \in Jobs, NEW step \in Steps, Go(j, step)
  PROVE  pc' \in [Jobs -> Steps]
  BY DEF Go

LEMMA ServerTypes ==
  ASSUME ServerType, NEW j \in Jobs, UNCHANGED month, Claimed(j) \/ Saved(j) \/ UNCHANGED server
  PROVE  ServerType'
  BY DEF ServerType, Claimed, Saved

\* The steps of a photo's thread keep the types.
LEMMA ThreadTypes ==
  ASSUME TypeOK, NEW j \in Jobs, Thread(j)
  PROVE  TypeOK'
  <1>0. JournalType /\ ProcessType /\ ServerType /\ pc \in [Jobs -> Steps] /\ LedgerType
    BY Types
  <1>1. {"Ready", "Synced", "Skipped", "Uncertain", "NeedsAttention"} \subseteq States
    BY DEF States, Failed
  <1>2. CASE Claim(j)
    <2>1. JournalType'
      BY <1>0, <1>1, <1>2, MovedRow, PutType DEF Claim, JournalType
    <2>2. ServerType'
      BY <1>0, <1>2, ServerTypes DEF Claim
    <2>3. pc' \in [Jobs -> Steps]
      BY <1>0, <1>2, GoType DEF Claim, Leave, Steps
    <2>4. QED
      BY <1>0, <1>2, <2>1, <2>2, <2>3, TypesNext DEF Claim, process, ledger, ProcessType, LedgerType
  <1>3. CASE Requeue(j)
    <2>1. row' \in [Jobs -> Row] /\ row[j].cost \in Nat
      <3>1. row[j] \in Row
        BY <1>0 DEF JournalType
      <3>2. row' \in [Jobs -> Row]
        BY <1>0, <1>3, <3>1, ClearedRow, PutType DEF Requeue, JournalType
      <3>3. row[j].cost \in Nat
        BY <3>1, ByokAssumption DEF Row
      <3>4. QED
        BY <3>2, <3>3
    <2>2. past' \in [Months -> Nat]
      BY <1>0, <1>3, <2>1 DEF Requeue, JournalType
    <2>3. pc' \in [Jobs -> Steps]
      BY <1>0, <1>3, GoType DEF Requeue, Steps
    <2>4. LedgerType'
      BY <1>0, <1>3 DEF Requeue, LedgerType
    <2>5. QED
      BY <1>0, <1>3, <2>1, <2>2, <2>3, <2>4, TypesNext
      DEF Requeue, process, outside, JournalType, ProcessType, ServerType
  <1>4. CASE Preview(j)
    <2>1. JournalType'
      BY <1>0, <1>4, UnreadRow, PutType DEF Preview, JournalType
    <2>2. pc' \in [Jobs -> Steps]
      BY <1>0, <1>4, GoType DEF Preview, Leave, Steps
    <2>3. QED
      BY <1>0, <1>4, <2>1, <2>2, TypesNext
      DEF Preview, process, outside, ledger, ProcessType, ServerType, LedgerType
  <1>5. CASE Reserve(j)
    <2>1. JournalType'
      BY <1>0, <1>5, ReservedRow, PutType DEF Reserve, JournalType, ServerType
    <2>2. pc' \in [Jobs -> Steps]
      BY <1>0, <1>5, GoType DEF Reserve, Leave, Steps
    <2>3. ProcessType'
      BY <1>0, <1>5 DEF Reserve, ProcessType
    <2>4. QED
      BY <1>0, <1>5, <2>1, <2>2, <2>3, TypesNext DEF Reserve, outside, ledger, ServerType, LedgerType
  <1>6. CASE Fail(j)
    <2>1. JournalType'
      <3>1. row[j] \in Row /\ After(pc[j]) \in States
        BY <1>0, <1>1, <1>6 DEF JournalType, Fail, After
      <3>2. Moved(Settled(row[j], pc[j]), After(pc[j])) \in Row
        BY <3>1, SettledRow, MovedRow
      <3>3. QED
        BY <1>0, <1>6, <3>2, PutType DEF Fail, JournalType
    <2>2. pc' \in [Jobs -> Steps]
      BY <1>0, <1>6, GoType DEF Fail, Leave, Steps
    <2>3. ProcessType' /\ LedgerType'
      BY <1>0, <1>6 DEF Fail, ProcessType, LedgerType
    <2>4. QED
      BY <1>0, <1>6, <2>1, <2>2, <2>3, TypesNext DEF Fail, outside, ServerType
  <1>7. CASE Save(j)
    <2>1. JournalType'
      <3>1. row[j] \in Row /\ charge[j] \in 0..Price /\ Price \in 0..Price
        BY <1>0, Ranges DEF JournalType, LedgerType
      <3>2. QED
        BY <1>0, <1>7, <3>1, DescribedRow, PutType DEF Save, JournalType
    <2>2. pc' \in [Jobs -> Steps]
      BY <1>0, <1>7, GoType DEF Save, Steps
    <2>3. LedgerType'
      BY <1>0, <1>7 DEF Save, LedgerType
    <2>4. QED
      BY <1>0, <1>7, <2>1, <2>2, <2>3, TypesNext DEF Save, process, outside, ProcessType, ServerType
  <1>8. CASE Sync(j)
    <2>1. JournalType'
      BY <1>0, <1>1, <1>8, MovedRow, PutType DEF Sync, JournalType
    <2>2. ServerType'
      BY <1>0, <1>8, ServerTypes DEF Sync
    <2>3. pc' \in [Jobs -> Steps]
      BY <1>0, <1>8, GoType DEF Sync, Leave, Steps
    <2>4. ProcessType'
      BY <1>0, <1>8 DEF Sync, ProcessType
    <2>5. QED
      BY <1>0, <1>8, <2>1, <2>2, <2>3, <2>4, TypesNext DEF Sync, ledger, LedgerType
  <1>9. ASSUME NEW outcome \in {"Rejected", "NotCalled", "Ambiguous", "Described"},
               NEW cost \in Costs \cup {0}, Call(j, outcome, cost)
        PROVE  TypeOK'
    <2>1. cost \in Nat
      BY ByokAssumption
    <2>2. LedgerType'
      BY <1>0, <1>9, <2>1 DEF Call, LedgerType
    <2>3. pc' \in [Jobs -> Steps]
      BY <1>0, <1>9, GoType DEF Call, Steps
    <2>4. QED
      BY <1>0, <1>9, <2>2, <2>3, TypesNext
      DEF Call, journal, process, outside, JournalType, ProcessType, ServerType
  <1>10. QED
    BY <1>2, <1>3, <1>4, <1>5, <1>6, <1>7, <1>8, <1>9 DEF Thread

\* The steps of the run, of the user, of the server and of the calendar keep
\* the types.
Outer ==
  \/ StartRun \/ EndFlush \/ EndRun \/ Stop \/ Kill \/ NextMonth
  \/ \E states \in {{"NeedsAttention"}, Failed} : StartRetry(states)
  \/ \E page \in SUBSET Jobs : Prepare(page)
  \/ \E j \in Jobs : \/ FlushAccepted(j) \/ FlushFails(j) \/ Submit(j) \/ Cancelled(j) \/ Break(j)
                     \/ Withdraw(j) \/ Upload(j)

LEMMA OuterTypes ==
  ASSUME TypeOK, Outer
  PROVE  TypeOK'
  <1>0. JournalType /\ ProcessType /\ ServerType /\ pc \in [Jobs -> Steps] /\ LedgerType
    BY Types
  <1>1. "Ready" \in States /\ "Synced" \in States /\ "Idle" \in Steps /\ "Claim" \in Steps
    BY DEF States, Steps
  <1> USE DEF journal, process, outside, ledger
  <1>2. CASE StartRun
    <2>1. JournalType'
      BY <1>0, <1>2, RecoveredRow DEF StartRun, JournalType
    <2>2. QED
      BY <1>0, <1>2, <2>1, TypesNext DEF StartRun, ProcessType, ServerType, LedgerType
  <1>3. CASE EndFlush
    BY <1>0, <1>3, TypesNext DEF EndFlush, JournalType, ProcessType, ServerType, LedgerType
  <1>4. CASE EndRun
    BY <1>0, <1>4, TypesNext DEF EndRun, Quit, JournalType, ProcessType, ServerType, LedgerType
  <1>5. CASE Stop
    BY <1>0, <1>5, TypesNext DEF Stop, JournalType, ProcessType, ServerType, LedgerType
  <1>6. CASE Kill
    <2>1. pc' \in [Jobs -> Steps] /\ LedgerType'
      BY <1>0, <1>1, <1>6 DEF Kill, LedgerType
    <2>2. QED
      BY <1>0, <1>6, <2>1, TypesNext DEF Kill, Quit, JournalType, ProcessType, ServerType
  <1>7. CASE NextMonth
    <2>1. ServerType'
      BY <1>0, <1>7, ByokAssumption DEF NextMonth, ServerType, Months
    <2>2. QED
      BY <1>0, <1>7, <2>1, TypesNext DEF NextMonth, JournalType, ProcessType, LedgerType
  <1>8. ASSUME NEW states, StartRetry(states)
        PROVE  TypeOK'
    <2>1. ProcessType'
      BY <1>0, <1>8, ByokAssumption DEF StartRetry, ProcessType, In
    <2>2. QED
      BY <1>0, <1>8, <2>1, TypesNext DEF StartRetry, JournalType, ServerType, LedgerType
  <1>9. ASSUME NEW page \in SUBSET Jobs, Prepare(page)
        PROVE  TypeOK'
    <2>1. JournalType'
      BY <1>0, <1>1, <1>9, MovedRow DEF Prepare, JournalType
    <2>2. QED
      BY <1>0, <1>9, <2>1, TypesNext DEF Prepare, ProcessType, ServerType, LedgerType
  <1>10. ASSUME NEW j \in Jobs, FlushAccepted(j)
         PROVE  TypeOK'
    <2>1. JournalType'
      BY <1>0, <1>1, <1>10, MovedRow, PutType DEF FlushAccepted, JournalType
    <2>2. ServerType'
      BY <1>0, <1>10, ServerTypes DEF FlushAccepted
    <2>3. QED
      BY <1>0, <1>10, <2>1, <2>2, TypesNext DEF FlushAccepted, ProcessType, LedgerType
  <1>11. ASSUME NEW j \in Jobs, FlushFails(j)
         PROVE  TypeOK'
    <2>1. ServerType'
      BY <1>0, <1>11, ServerTypes DEF FlushFails
    <2>2. QED
      BY <1>0, <1>11, <2>1, TypesNext DEF FlushFails, JournalType, ProcessType, LedgerType
  <1>12. ASSUME NEW j \in Jobs, Submit(j)
         PROVE  TypeOK'
    <2>1. pc' \in [Jobs -> Steps] /\ ProcessType'
      BY <1>0, <1>1, <1>12, GoType DEF Submit, ProcessType
    <2>2. QED
      BY <1>0, <1>12, <2>1, TypesNext DEF Submit, JournalType, ServerType, LedgerType
  <1>13. ASSUME NEW j \in Jobs, Cancelled(j)
         PROVE  TypeOK'
    <2>1. pc' \in [Jobs -> Steps]
      BY <1>0, <1>1, <1>13, GoType DEF Cancelled, Leave
    <2>2. QED
      BY <1>0, <1>13, <2>1, TypesNext DEF Cancelled, JournalType, ProcessType, ServerType, LedgerType
  <1>14. ASSUME NEW j \in Jobs, Break(j)
         PROVE  TypeOK'
    <2>1. pc' \in [Jobs -> Steps]
      BY <1>0, <1>1, <1>14, GoType DEF Break, Leave
    <2>2. ServerType'
      BY <1>0, <1>14, ServerTypes DEF Break
    <2>3. QED
      BY <1>0, <1>14, <2>1, <2>2, TypesNext DEF Break, JournalType, ProcessType, LedgerType
  <1>15. ASSUME NEW j \in Jobs, Withdraw(j) \/ Upload(j)
         PROVE  TypeOK'
    <2>1. ServerType'
      BY <1>0, <1>15 DEF Withdraw, Upload, ServerType
    <2>2. QED
      BY <1>0, <1>15, <2>1, TypesNext DEF Withdraw, Upload, JournalType, ProcessType, LedgerType
  <1>16. QED
    BY <1>2, <1>3, <1>4, <1>5, <1>6, <1>7, <1>8, <1>9, <1>10, <1>11, <1>12, <1>13, <1>14, <1>15 DEF Outer

LEMMA NextParts == Next => Outer \/ \E j \in Jobs : Thread(j)
  BY DEF Next, Outer

\* The journal, the process, the server and the history keep their types.
THEOREM TypeCorrect == Spec => []TypeOK
  <1>1. TypeOK /\ [Next]_vars => TypeOK'
    <2> SUFFICES ASSUME TypeOK, [Next]_vars PROVE TypeOK'
      OBVIOUS
    <2>1. CASE Next
      BY <2>1, NextParts, OuterTypes, ThreadTypes
    <2>2. CASE UNCHANGED vars
      BY <2>2 DEF vars, TypeOK
    <2>3. QED
      BY <2>1, <2>2
  <1>2. QED
    BY <1>1, InitTypes, PTL DEF Spec

-----------------------------------------------------------------------------
(* Where a photo's thread is, what its row says and what is owed.          *)

\* The row a thread finds at each step.
RowAt(j) ==
  /\ pc[j] = "Claim" => row[j].state \in IF run = "Running" THEN {"Ready"} ELSE Failed
  /\ pc[j] = "Retry" => row[j].state \in Failed
  /\ pc[j] \in {"Preview", "Reserve"} => row[j].state = "Ready"
  /\ pc[j] \in {"Call", "Rejected", "NotCalled", "Ambiguous", "Described"} => row[j].state = "Calling"
  /\ pc[j] = "Sync" => row[j].state = "ResultReady"

\* A photo has a thread only in a run, and a retry's list only photos that failed.
InRun(j) ==
  /\ pc[j] # "Idle" => run \in {"Running", "Retrying"}
  /\ j \in selected => run = "Retrying" /\ pc[j] = "Idle" /\ row[j].state \in Failed

\* Before its call is billed a photo is owed one.
Owed(j) ==
  /\ orders[j] >= 0
  /\ \/ row[j].state \in {"None", "Ready"}
     \/ pc[j] \in {"Call", "Rejected", "NotCalled"}
     => orders[j] >= 1

Kept(j) == row[j].result => row[j].state \in {"ResultReady", "Synced"}

PhotoInv(j) == RowAt(j) /\ InRun(j) /\ Owed(j) /\ Kept(j)
IInv == TypeOK /\ \A j \in Jobs : PhotoInv(j)

\* What a step does about the photos it is not about.
Apart(j) ==
  \A k \in Jobs \ {j} :
    row'[k] = row[k] /\ pc'[k] = pc[k] /\ orders'[k] = orders[k] /\ (k \in selected' => k \in selected)

LEMMA ApartKeeps ==
  ASSUME IInv, NEW j \in Jobs, Apart(j), UNCHANGED run, PhotoInv(j)'
  PROVE  \A k \in Jobs : PhotoInv(k)'
  BY DEF IInv, Apart, PhotoInv, RowAt, InRun, Owed, Kept

LEMMA ThreadApart ==
  ASSUME TypeOK, NEW j \in Jobs, Thread(j)
  PROVE  Apart(j) /\ UNCHANGED run
  BY DEF Thread, Claim, Requeue, Preview, Reserve, Fail, Save, Sync, Call, Leave, Go, Put, Apart,
         journal, process, outside, ledger, TypeOK

\* The steps of a thread keep what is known of its photo.
LEMMA ThreadPhoto ==
  ASSUME IInv, NEW j \in Jobs, Thread(j)
  PROVE  PhotoInv(j)'
  <1>0. /\ TypeOK /\ PhotoInv(j) /\ row[j] \in Row /\ row \in [Jobs -> Row] /\ pc[j] \in Steps
        /\ orders \in [Jobs -> Int] /\ pc \in [Jobs -> Steps] /\ j \notin selected /\ pc[j] # "Idle"
    <2>1. TypeOK /\ PhotoInv(j) /\ pc[j] # "Idle"
      BY DEF IInv, Thread, Claim, Requeue, Preview, Reserve, Fail, Save, Sync, Call
    <2>2. QED
      BY <2>1 DEF TypeOK, PhotoInv, InRun
  <1> USE DEF PhotoInv, InRun, Owed, Kept, RowAt, Go, Leave, Put, journal, process, outside, ledger
  <1>1. CASE Claim(j)
    BY <1>0, <1>1, MovedRow DEF Claim, States, Failed
  <1>2. CASE Requeue(j)
    BY <1>0, <1>2, ClearedRow DEF Requeue, Failed
  <1>3. CASE Preview(j)
    BY <1>0, <1>3, UnreadRow DEF Preview, Failed
  <1>4. CASE Reserve(j)
    BY <1>0, <1>4, ReservedRow DEF Reserve, TypeOK
  <1>5. CASE Fail(j)
    BY <1>0, <1>5, SettledRow, MovedRow DEF Fail, After, States, Failed
  <1>6. CASE Save(j)
    <2>1. charge[j] \in 0..Price
      BY <1>0, Ranges DEF TypeOK
    <2>2. row'[j].state = "ResultReady" /\ row[j].state = "Calling"
      BY <1>0, <1>6, <2>1, Ranges, DescribedRow DEF Save
    <2>3. pc'[j] = "Sync" /\ orders'[j] = orders[j] /\ run' = run /\ selected' = selected
      BY <1>0, <1>6 DEF Save
    <2>4. QED
      BY <1>0, <2>2, <2>3
  <1>7. CASE Sync(j)
    <2>1. row[j].state = "ResultReady" /\ row'[j].state \in {"ResultReady", "Synced"}
      BY <1>0, <1>7, MovedRow DEF Sync, States
    <2>2. pc'[j] = "Idle" /\ orders'[j] = orders[j] /\ run' = run /\ selected' = selected
      BY <1>0, <1>7 DEF Sync
    <2>3. QED
      BY <1>0, <2>1, <2>2
  <1>8. ASSUME NEW outcome \in {"Rejected", "NotCalled", "Ambiguous", "Described"},
               NEW cost \in Costs \cup {0}, Call(j, outcome, cost)
        PROVE  PhotoInv(j)'
    BY <1>0, <1>8 DEF Call
  <1>9. QED
    BY <1>1, <1>2, <1>3, <1>4, <1>5, <1>6, <1>7, <1>8 DEF Thread

\* The other steps keep what is known of every photo.
LEMMA OuterPhotos ==
  ASSUME IInv, Outer
  PROVE  \A k \in Jobs : PhotoInv(k)'
  <1>0. /\ TypeOK /\ row \in [Jobs -> Row] /\ pc \in [Jobs -> Steps] /\ orders \in [Jobs -> Int]
        /\ \A k \in Jobs : PhotoInv(k) /\ row[k] \in Row
    BY DEF IInv, TypeOK
  <1> USE DEF PhotoInv, InRun, Owed, Kept, RowAt, journal, process, outside, ledger
  <1>1. CASE StartRun
    BY <1>0, <1>1, RecoveredRow DEF StartRun, Failed
  <1>2. CASE EndFlush
    BY <1>0, <1>2 DEF EndFlush
  <1>3. CASE EndRun
    BY <1>0, <1>3 DEF EndRun, Quit
  <1>4. CASE Stop \/ NextMonth
    BY <1>0, <1>4 DEF Stop, NextMonth
  <1>5. CASE Kill
    BY <1>0, <1>5 DEF Kill, Quit
  <1>6. ASSUME NEW states \in {{"NeedsAttention"}, Failed}, StartRetry(states)
        PROVE  \A k \in Jobs : PhotoInv(k)'
    BY <1>0, <1>6 DEF StartRetry, In, Failed
  <1>7. ASSUME NEW page \in SUBSET Jobs, Prepare(page)
        PROVE  \A k \in Jobs : PhotoInv(k)'
    BY <1>0, <1>7, MovedRow DEF Prepare, In, States, Failed
  <1>8. ASSUME NEW j \in Jobs, FlushAccepted(j)
        PROVE  \A k \in Jobs : PhotoInv(k)'
    BY <1>0, <1>8, MovedRow, PutType DEF FlushAccepted, Flush, Unsent, In, States, Failed
  <1>9. ASSUME NEW j \in Jobs, FlushFails(j)
        PROVE  \A k \in Jobs : PhotoInv(k)'
    BY <1>0, <1>9 DEF FlushFails, Flush
  <1>10. ASSUME NEW j \in Jobs, Submit(j)
         PROVE  \A k \in Jobs : PhotoInv(k)'
    BY <1>0, <1>10 DEF Submit, Go
  <1>11. ASSUME NEW j \in Jobs, Cancelled(j) \/ Break(j)
         PROVE  \A k \in Jobs : PhotoInv(k)'
    BY <1>0, <1>11 DEF Cancelled, Break, Leave, Go
  <1>12. ASSUME NEW j \in Jobs, Withdraw(j) \/ Upload(j)
         PROVE  \A k \in Jobs : PhotoInv(k)'
    BY <1>0, <1>12 DEF Withdraw, Upload
  <1>13. QED
    BY <1>1, <1>2, <1>3, <1>4, <1>5, <1>6, <1>7, <1>8, <1>9, <1>10, <1>11, <1>12 DEF Outer

LEMMA InitInv == Init => IInv
  <1> SUFFICES ASSUME Init PROVE IInv
    OBVIOUS
  <1>1. TypeOK
    BY InitTypes
  <1>2. \A j \in Jobs : PhotoInv(j)
    BY DEF Init, PhotoInv, RowAt, InRun, Owed, Kept
  <1>3. QED
    BY <1>1, <1>2 DEF IInv

LEMMA StepInv ==
  ASSUME IInv, [Next]_vars
  PROVE  IInv'
  <1>1. CASE Next
    <2>1. TypeOK'
      BY <1>1, NextParts, OuterTypes, ThreadTypes DEF IInv
    <2>2. \A k \in Jobs : PhotoInv(k)'
      <3>1. ASSUME NEW j \in Jobs, Thread(j)
            PROVE  \A k \in Jobs : PhotoInv(k)'
        BY <3>1, ThreadApart, ThreadPhoto, ApartKeeps DEF IInv
      <3>2. QED
        BY <1>1, <3>1, NextParts, OuterPhotos
    <2>3. QED
      BY <2>1, <2>2 DEF IInv
  <1>2. CASE UNCHANGED vars
    BY <1>2 DEF vars, IInv, TypeOK, PhotoInv, RowAt, InRun, Owed, Kept
  <1>3. QED
    BY <1>1, <1>2

\* What is known of every photo holds in every reachable state, killed runs
\* and retries included.
THEOREM PhotosInvariant == Spec => []IInv
  BY InitInv, StepInv, PTL DEF Spec

\* A photo is paid for once for each time the user ordered it, wherever the
\* process is killed (recover, requeue_failure).
THEOREM NeverPaidUnasked == Spec => []PaidOnRequest
  <1>1. IInv => PaidOnRequest
    BY DEF IInv, PhotoInv, Owed, PaidOnRequest
  <1>2. QED
    BY <1>1, PhotosInvariant, PTL

-----------------------------------------------------------------------------
(* What a step does to a photo whose result is saved.                      *)

Stays(j) ==
  /\ row'[j].result /\ row'[j].state \in {"ResultReady", "Synced"}
  /\ row'[j].cost = row[j].cost /\ row'[j].month = row[j].month

LEMMA ThreadStays ==
  ASSUME IInv, NEW j \in Jobs, Thread(j), row[j].result
  PROVE  Stays(j)
  <1>1. /\ row[j] \in Row /\ row \in [Jobs -> Row] /\ row[j].state \in {"ResultReady", "Synced"}
        /\ RowAt(j)
    BY DEF IInv, TypeOK, PhotoInv, Kept
  <1>2. Sync(j)
    BY <1>1 DEF Thread, Claim, Requeue, Preview, Reserve, Fail, Save, Call, RowAt, Failed
  <1>3. QED
    BY <1>1, <1>2, MovedRow DEF Sync, Put, Stays, States

LEMMA OuterStays ==
  ASSUME IInv, Outer, NEW j \in Jobs, row[j].result
  PROVE  Stays(j)
  <1>1. row[j] \in Row /\ row \in [Jobs -> Row] /\ row[j].state \in {"ResultReady", "Synced"}
    BY DEF IInv, TypeOK, PhotoInv, Kept
  <1>2. CASE UNCHANGED row
    BY <1>1, <1>2 DEF Stays
  <1>3. CASE StartRun
    BY <1>1, <1>3, RecoveredRow DEF StartRun, Stays
  <1>4. ASSUME NEW page \in SUBSET Jobs, Prepare(page)
        PROVE  Stays(j)
    BY <1>1, <1>4 DEF Prepare, In, Stays
  <1>5. ASSUME NEW k \in Jobs, FlushAccepted(k)
        PROVE  Stays(j)
    BY <1>1, <1>5, MovedRow DEF FlushAccepted, Put, Stays, States
  <1>6. QED
    BY <1>2, <1>3, <1>4, <1>5
    DEF Outer, EndFlush, EndRun, Stop, Kill, NextMonth, StartRetry, FlushFails, Submit, Cancelled, Break,
        Withdraw, Upload, journal

\* A saved result is kept until the backend has it, and its photo is not
\* reserved again ("A failed sync never causes repeat inference").
THEOREM SavedResultsStay == Spec => NoRepeatInference
  <1> DEFINE Keeps == \A j \in Jobs : row[j].result =>
       /\ row'[j].result /\ row'[j].state \in {"ResultReady", "Synced"}
       /\ row'[j].cost = row[j].cost /\ row'[j].month = row[j].month
  <1>1. ASSUME IInv, [Next]_vars PROVE [Keeps]_vars
    <2>1. CASE Next
      <3>1. ASSUME NEW j \in Jobs, row[j].result PROVE Stays(j)
        <4>1. CASE Outer
          BY <3>1, <4>1, <1>1, OuterStays
        <4>2. CASE Thread(j)
          BY <3>1, <4>2, <1>1, ThreadStays
        <4>3. ASSUME NEW k \in Jobs, k # j, Thread(k) PROVE Stays(j)
          <5>1. Apart(k)
            BY <4>3, <1>1, ThreadApart DEF IInv
          <5>2. row'[j] = row[j]
            BY <5>1, <4>3 DEF Apart
          <5>3. QED
            BY <3>1, <5>2, <1>1 DEF IInv, PhotoInv, Kept, Stays
        <4>4. QED
          BY <2>1, <4>1, <4>2, <4>3, NextParts
      <3>2. QED
        BY <3>1 DEF Stays
    <2>2. CASE UNCHANGED vars
      BY <2>2
    <2>3. QED
      BY <1>1, <2>1, <2>2
  <1>2. QED
    BY <1>1, PhotosInvariant, PTL DEF Spec, NoRepeatInference

-----------------------------------------------------------------------------
(* The budget of a month.                                                  *)

\* What a row counts for in a month.
CostAt(j, m) == IF row[j].month = m THEN row[j].cost ELSE 0
Cost(m) == [j \in Jobs |-> CostAt(j, m)]

\* What the provider may have taken for the call a row keeps: nothing before the
\* answer, what it took while the row says the price, and no more than the row says
\* afterwards.
Paid(j) ==
  IF pc[j] \in {"Call", "Rejected", "NotCalled"} THEN 0
  ELSE IF pc[j] = "Described" THEN charge[j] ELSE row[j].cost
PaidAt(j, m) == IF row[j].month = m THEN Paid(j) ELSE 0
Payment(m) == [j \in Jobs |-> PaidAt(j, m)]

\* A photo that is not in a call costs nothing, one that is costs the price.
Reservation(j) ==
  /\ row[j].state \in {"None", "Ready"} => row[j].cost = 0
  /\ pc[j] \in {"Call", "Rejected", "NotCalled", "Ambiguous", "Described"} =>
       row[j].cost = Price /\ row[j].month \in Months

\* What the provider has taken in a month is in the journal, and the journal is within the cap.
Within(m) ==
  /\ billed[m] <= past[m] + Total(Payment(m), Jobs)
  /\ past[m] + Total(Cost(m), Jobs) <= Cap

BudgetInv == IInv /\ (\A j \in Jobs : Reservation(j)) /\ \A m \in Months : Within(m)

LEMMA RowParts ==
  ASSUME TypeOK, NEW j \in Jobs
  PROVE  row[j] \in Row /\ row[j].cost \in Nat /\ row[j].cost <= Price /\ charge[j] \in Nat /\ charge[j] <= Price
  <1>1. row[j] \in Row /\ charge[j] \in Costs \cup {0}
    BY DEF TypeOK
  <1>2. row[j].cost \in 0..Price
    BY <1>1 DEF Row
  <1>3. charge[j] \in 0..Price
    BY <1>1, Ranges
  <1>4. QED
    BY <1>1, <1>2, <1>3, ByokAssumption

SumType(m) ==
  Cost(m) \in [Jobs -> Nat] /\ Payment(m) \in [Jobs -> Nat] /\ past[m] \in Nat /\ billed[m] \in Nat

LEMMA SumTypes == TypeOK => \A m \in Months : SumType(m)
  <1> SUFFICES ASSUME TypeOK, NEW m \in Months PROVE SumType(m)
    OBVIOUS
  <1>1. \A j \in Jobs : CostAt(j, m) \in Nat /\ PaidAt(j, m) \in Nat
    BY RowParts DEF CostAt, PaidAt, Paid
  <1>2. Cost(m) \in [Jobs -> Nat] /\ Payment(m) \in [Jobs -> Nat]
    BY <1>1 DEF Cost, Payment
  <1>3. QED
    BY <1>2 DEF TypeOK, SumType

LEMMA SumTypesNext == TypeOK' => \A m \in Months : SumType(m)'
  <1>1. (TypeOK => \A m \in Months : SumType(m))'
    BY SumTypes, PTL
  <1>2. QED
    BY <1>1

\* The fold of the code is that sum.
LEMMA SpentIs ==
  ASSUME TypeOK, NEW m \in Months
  PROVE  Spent(m) = past[m] + Total(Cost(m), Jobs)
  <1> DEFINE Next1(it, s, x) == IF row[x].month = m THEN it[s \ {x}] + row[x].cost ELSE it[s \ {x}]
             Body(it) == [s \in SUBSET Jobs |-> IF s = {} THEN 0 ELSE Next1(it, s, CHOOSE x \in s : TRUE)]
             f == CHOOSE it : it = Body(it)
  <1>0. IsFiniteSet(Jobs)
    BY ByokAssumption
  <1>1. Cost(m) \in [Jobs -> Nat]
    BY SumTypes DEF SumType
  <1>2. PICK it : Sums(it, Cost(m), Jobs)
    BY <1>0, <1>1, SumsExist
  <1>3. it \in [SUBSET Jobs -> Nat] /\ it[{}] = 0
    BY <1>2 DEF Sums
  <1>4. ASSUME NEW s \in SUBSET Jobs, s # {}
        PROVE  it[s] = Next1(it, s, CHOOSE x \in s : TRUE)
    <2> DEFINE x == CHOOSE y \in s : TRUE
    <2>1. x \in Jobs
      BY <1>4
    <2>2. it[s] = it[s \ {x}] + Cost(m)[x]
      BY <1>2, <1>4 DEF Sums
    <2>3. it[s \ {x}] \in Nat
      BY <1>3
    <2> HIDE DEF x
    <2>4. it[s] = Next1(it, s, x)
      BY <2>1, <2>2, <2>3 DEF Cost, CostAt
    <2>5. QED
      BY <2>4 DEF x
  <1>5. it = Body(it)
    <2> HIDE DEF Next1
    <2>1. QED
      BY <1>3, <1>4
  <1>6. f = Body(f)
    <2> HIDE DEF Body
    <2>1. QED
      BY <1>5
  <1>7. FoldSet(LAMBDA j, sum : IF row[j].month = m THEN sum + row[j].cost ELSE sum, 0, Jobs) = f[Jobs]
    BY DEF FoldSet, MapThenFoldSet
  <1> HIDE DEF f
  <1>8. f[Jobs] = it[Jobs]
    <2> DEFINE Good == {s \in SUBSET Jobs : f[s] = it[s]}
    <2>1. ASSUME NEW s \in SUBSET Jobs, \A x \in s : s \ {x} \in Good
          PROVE  s \in Good
      <3>1. CASE s = {}
        BY <1>3, <1>6, <3>1
      <3>2. CASE s # {}
        <4> DEFINE x == CHOOSE y \in s : TRUE
        <4>1. x \in s
          BY <3>2
        <4>2. f[s] = Next1(f, s, x) /\ it[s] = Next1(it, s, x)
          BY <1>4, <1>6, <3>2
        <4>3. f[s \ {x}] = it[s \ {x}]
          BY <2>1, <4>1
        <4> HIDE DEF x
        <4>4. QED
          BY <4>2, <4>3
      <3>3. QED
        BY <3>1, <3>2
    <2> HIDE DEF Good
    <2>2. Jobs \in Good
      BY <1>0, <2>1, SubsetInduction
    <2>3. QED
      BY <2>2 DEF Good
  <1>9. QED
    BY <1>0, <1>1, <1>2, <1>7, <1>8, TotalIs DEF Spent

\* A step that changes no cost and no month, and takes no payment back.
SameRows ==
  /\ \A j \in Jobs : row'[j].cost = row[j].cost /\ row'[j].month = row[j].month /\ Paid(j) <= Paid(j)'
  /\ UNCHANGED <<past, billed>>

LEMMA SameRowsWithin ==
  ASSUME TypeOK, TypeOK', SameRows, NEW m \in Months, Within(m)
  PROVE  Within(m)'
  <1> DEFINE w == Cost(m)
             p == Payment(m)
             u == Payment(m)'
  <1>0. IsFiniteSet(Jobs) /\ past' = past /\ billed' = billed
    BY ByokAssumption DEF SameRows
  <1>1. p \in [Jobs -> Nat] /\ past[m] \in Nat /\ billed[m] \in Nat
    BY SumTypes DEF SumType
  <1>2. u \in [Jobs -> Nat]
    BY SumTypesNext DEF SumType
  <1>3. Cost(m)' = w
    BY DEF SameRows, Cost, CostAt
  <1>4. \A j \in Jobs : p[j] <= u[j]
    <2> SUFFICES ASSUME NEW j \in Jobs PROVE p[j] <= u[j]
      OBVIOUS
    <2>1. p[j] = PaidAt(j, m) /\ u[j] = PaidAt(j, m)'
      BY DEF Payment
    <2>2. PaidAt(j, m) <= PaidAt(j, m)'
      BY DEF SameRows, PaidAt
    <2>3. QED
      BY <2>1, <2>2
  <1> HIDE DEF p, u
  <1>5. Total(p, Jobs) <= Total(u, Jobs) /\ Total(p, Jobs) \in Nat /\ Total(u, Jobs) \in Nat
    BY <1>0, <1>1, <1>2, <1>4, TotalBelow, TotalType
  <1>6. billed[m] <= past[m] + Total(p, Jobs) /\ past[m] + Total(w, Jobs) <= Cap
    BY DEF Within, p
  <1>7. billed'[m] <= past'[m] + Total(u, Jobs)
    BY <1>0, <1>1, <1>5, <1>6
  <1>8. past'[m] + Total(Cost(m)', Jobs) <= Cap
    BY <1>0, <1>3, <1>6
  <1>9. QED
    BY <1>7, <1>8 DEF Within, u

\* A step about one photo.
OneRow(j) == \A k \in Jobs \ {j} : row'[k] = row[k] /\ pc'[k] = pc[k] /\ charge'[k] = charge[k]

\* It bills no more than it records as paid, and spends no more than it frees or
\* than the cap has room for.
Balanced(j, m) ==
  /\ billed'[m] + past[m] + PaidAt(j, m) <= billed[m] + past'[m] + PaidAt(j, m)'
  /\ \/ past'[m] + CostAt(j, m)' <= past[m] + CostAt(j, m)
     \/ past'[m] + CostAt(j, m)' + Total(Cost(m), Jobs) <= Cap + CostAt(j, m)

LEMMA BalancedWithin ==
  ASSUME TypeOK, TypeOK', NEW j \in Jobs, OneRow(j), NEW m \in Months, Within(m), Balanced(j, m)
  PROVE  Within(m)'
  <1> DEFINE w == Cost(m)
             v == Cost(m)'
             p == Payment(m)
             u == Payment(m)'
  <1>0. IsFiniteSet(Jobs)
    BY ByokAssumption
  <1>1. w \in [Jobs -> Nat] /\ p \in [Jobs -> Nat] /\ past[m] \in Nat /\ billed[m] \in Nat
    BY SumTypes DEF SumType
  <1>2. v \in [Jobs -> Nat] /\ u \in [Jobs -> Nat] /\ past'[m] \in Nat /\ billed'[m] \in Nat
    BY SumTypesNext DEF SumType
  <1>3. w[j] = CostAt(j, m) /\ v[j] = CostAt(j, m)' /\ p[j] = PaidAt(j, m) /\ u[j] = PaidAt(j, m)'
    BY DEF Cost, Payment
  <1>4. \A k \in Jobs \ {j} : v[k] = w[k]
    BY DEF OneRow, Cost, CostAt
  <1>5. \A k \in Jobs \ {j} : u[k] = p[k]
    BY DEF OneRow, Payment, PaidAt, Paid
  <1>6. billed[m] <= past[m] + Total(p, Jobs) /\ past[m] + Total(w, Jobs) <= Cap
    BY DEF Within
  <1> HIDE DEF w, v, p, u
  <1>7. Total(v, Jobs) + w[j] = Total(w, Jobs) + v[j] /\ Total(v, Jobs) \in Nat /\ Total(w, Jobs) \in Nat
    BY <1>0, <1>1, <1>2, <1>4, TotalDiffers, TotalType
  <1>8. Total(u, Jobs) + p[j] = Total(p, Jobs) + u[j] /\ Total(u, Jobs) \in Nat /\ Total(p, Jobs) \in Nat
    BY <1>0, <1>1, <1>2, <1>5, TotalDiffers, TotalType
  <1>9. w[j] \in Nat /\ v[j] \in Nat /\ p[j] \in Nat /\ u[j] \in Nat /\ Cap \in Nat
    BY <1>1, <1>2, ByokAssumption
  <1>10. billed'[m] + past[m] + p[j] <= billed[m] + past'[m] + u[j]
    BY <1>3 DEF Balanced
  <1>11. \/ past'[m] + v[j] <= past[m] + w[j]
         \/ past'[m] + v[j] + Total(w, Jobs) <= Cap + w[j]
    BY <1>3 DEF Balanced, w
  <1>12. billed'[m] <= past'[m] + Total(u, Jobs)
    BY <1>1, <1>2, <1>6, <1>8, <1>9, <1>10
  <1>13. past'[m] + Total(v, Jobs) <= Cap
    BY <1>1, <1>2, <1>6, <1>7, <1>9, <1>11
  <1>14. QED
    BY <1>12, <1>13 DEF Within, u, v

\* The steps of the run, of the user, of the server and of the calendar change no cost.
LEMMA OuterRows ==
  ASSUME IInv, \A k \in Jobs : Reservation(k), Outer
  PROVE  SameRows /\ \A k \in Jobs : Reservation(k)'
  <1>0. /\ TypeOK /\ row \in [Jobs -> Row] /\ pc \in [Jobs -> Steps]
        /\ \A k \in Jobs : /\ Reservation(k) /\ RowAt(k) /\ InRun(k) /\ row[k] \in Row
                           /\ row[k].cost \in Nat /\ row[k].cost <= Price
                           /\ charge[k] \in Nat /\ charge[k] <= Price
    BY RowParts DEF IInv, TypeOK, PhotoInv
  <1> USE DEF SameRows, Reservation, Paid, journal, process, outside, ledger
  <1>1. CASE StartRun
    <2>1. \A k \in Jobs : /\ row'[k].cost = row[k].cost /\ row'[k].month = row[k].month
                          /\ row'[k].state \in {"None", "Ready"} => row[k].state = row'[k].state
      BY <1>0, <1>1, RecoveredRow DEF StartRun
    <2>2. QED
      BY <1>0, <1>1, <2>1 DEF StartRun
  <1>2. CASE EndFlush \/ EndRun \/ Stop \/ NextMonth
    BY <1>0, <1>2 DEF EndFlush, EndRun, Stop, NextMonth, Quit
  <1>3. CASE Kill
    BY <1>0, <1>3 DEF Kill, Quit
  <1>4. ASSUME NEW states \in {{"NeedsAttention"}, Failed}, StartRetry(states)
        PROVE  SameRows /\ \A k \in Jobs : Reservation(k)'
    BY <1>0, <1>4 DEF StartRetry
  <1>5. ASSUME NEW page \in SUBSET Jobs, Prepare(page)
        PROVE  SameRows /\ \A k \in Jobs : Reservation(k)'
    <2>1. \A k \in Jobs : /\ row'[k].cost = row[k].cost /\ row'[k].month = row[k].month
                          /\ row'[k].state \in {"None", "Ready"} => row[k].state \in {"None", "Ready"}
      BY <1>0, <1>5, MovedRow DEF Prepare, In, States
    <2>2. QED
      BY <1>0, <1>5, <2>1 DEF Prepare
  <1>6. ASSUME NEW j \in Jobs, FlushAccepted(j)
        PROVE  SameRows /\ \A k \in Jobs : Reservation(k)'
    <2>1. \A k \in Jobs : /\ row'[k].cost = row[k].cost /\ row'[k].month = row[k].month
                          /\ row'[k].state \in {"None", "Ready"} => row[k].state = row'[k].state
      BY <1>0, <1>6, MovedRow DEF FlushAccepted, Put, States
    <2>2. QED
      BY <1>0, <1>6, <2>1 DEF FlushAccepted
  <1>7. ASSUME NEW j \in Jobs, FlushFails(j) \/ Withdraw(j) \/ Upload(j)
        PROVE  SameRows /\ \A k \in Jobs : Reservation(k)'
    BY <1>0, <1>7 DEF FlushFails, Withdraw, Upload
  <1>8. ASSUME NEW j \in Jobs, Submit(j) \/ Cancelled(j) \/ Break(j)
        PROVE  SameRows /\ \A k \in Jobs : Reservation(k)'
    BY <1>0, <1>8 DEF Submit, Cancelled, Break, Leave, Go
  <1>9. QED
    BY <1>1, <1>2, <1>3, <1>4, <1>5, <1>6, <1>7, <1>8 DEF Outer

LEMMA ThreadOneRow ==
  ASSUME TypeOK, NEW j \in Jobs, Thread(j)
  PROVE  OneRow(j)
  BY DEF Thread, Claim, Requeue, Preview, Reserve, Fail, Save, Sync, Call, Leave, Go, Put, OneRow,
         journal, process, outside, ledger, TypeOK

\* The steps of a thread keep its photo's reservation and the balance of every month.
LEMMA ThreadBalanced ==
  ASSUME IInv, NEW j \in Jobs, Reservation(j), NEW m \in Months, Within(m), Thread(j)
  PROVE  Reservation(j)' /\ Balanced(j, m)
  <1>0. /\ TypeOK /\ row \in [Jobs -> Row] /\ pc \in [Jobs -> Steps] /\ charge \in [Jobs -> Costs \cup {0}]
        /\ RowAt(j) /\ row[j] \in Row /\ month \in Months
        /\ past \in [Months -> Nat] /\ billed \in [Months -> Nat]
    BY DEF IInv, TypeOK, PhotoInv
  <1>a. /\ row[j].cost \in Nat /\ row[j].cost <= Price /\ charge[j] \in Nat /\ charge[j] <= Price /\ Price \in Nat
        /\ past[m] \in Nat /\ billed[m] \in Nat
    BY <1>0, RowParts, ByokAssumption
  <1> USE DEF Reservation, Paid, PaidAt, CostAt, Balanced, journal, process, outside, ledger
  <1>1. CASE Claim(j)
    <2>1. /\ row'[j].cost = row[j].cost /\ row'[j].month = row[j].month
          /\ row'[j].state \in {"None", "Ready"} => row[j].state = row'[j].state
      BY <1>0, <1>1, MovedRow DEF Claim, Put, States
    <2>2. pc[j] = "Claim" /\ pc'[j] \in {"Retry", "Preview", "Idle"} /\ past' = past /\ billed' = billed
      BY <1>0, <1>1 DEF Claim, Go, Leave
    <2>3. QED
      BY <1>0, <1>a, <2>1, <2>2
  <1>2. CASE Requeue(j)
    <2>1. row'[j].cost = 0 /\ row'[j].month = 0 /\ 0 \notin Months
      BY <1>0, <1>2 DEF Requeue, Put, Cleared, Row, Months
    <2>2. /\ pc[j] = "Retry" /\ pc'[j] = "Preview" /\ billed' = billed
          /\ past'[m] = IF m = row[j].month THEN past[m] + row[j].cost ELSE past[m]
      BY <1>0, <1>2 DEF Requeue, Go
    <2>3. QED
      BY <1>0, <1>a, <2>1, <2>2
  <1>3. CASE Preview(j)
    <2>1. pc[j] = "Preview" /\ pc'[j] \in {"Reserve", "Idle"} /\ row[j].cost = 0 /\ past' = past /\ billed' = billed
      BY <1>0, <1>3 DEF Preview, Go, Leave, RowAt
    <2>2. row'[j].cost = 0 /\ row'[j].month = row[j].month
      BY <1>0, <1>3, <2>1 DEF Preview, Put, Unread, Row
    <2>3. QED
      BY <1>0, <1>a, <2>1, <2>2
  <1>4. CASE Reserve(j)
    <2>1. pc[j] = "Reserve" /\ row[j].cost = 0 /\ past' = past /\ billed' = billed
      BY <1>0, <1>4 DEF Reserve, RowAt
    <2>2. CASE Fits /\ Go(j, "Call") /\ Put(j, Reserved(row[j]))
      <3>1. /\ row'[j].cost = Price /\ row'[j].month = month /\ row'[j].state = "Calling" /\ pc'[j] = "Call"
        BY <1>0, <2>2 DEF Put, Go, Reserved, Row
      <3>2. past[month] + Total(Cost(month), Jobs) + Price <= Cap
        BY <1>0, <2>2, SpentIs DEF Fits
      <3>3. IsFiniteSet(Jobs) /\ Cost(m) \in [Jobs -> Nat] /\ Cap \in Nat
        BY <1>0, SumTypes, ByokAssumption DEF SumType
      <3>4. Total(Cost(m), Jobs) \in Nat
        BY <3>3, TotalType
      <3>5. QED
        BY <1>0, <1>a, <2>1, <3>1, <3>2, <3>3, <3>4
    <2>3. CASE UNCHANGED row /\ Leave(j)
      <3>1. row' = row /\ pc'[j] = "Idle"
        BY <1>0, <2>3 DEF Leave, Go
      <3>2. QED
        BY <1>0, <1>a, <2>1, <3>1
    <2>4. QED
      BY <1>4, <2>2, <2>3 DEF Reserve
  <1>5. CASE Fail(j)
    <2>1. /\ pc[j] \in {"Rejected", "NotCalled", "Ambiguous"} /\ pc'[j] = "Idle" /\ past' = past /\ billed' = billed
      BY <1>0, <1>5 DEF Fail, Go, Leave
    <2>2. /\ row'[j].cost = IF pc[j] = "Ambiguous" THEN row[j].cost ELSE 0
          /\ row'[j].month = row[j].month
          /\ row'[j].state \in {"None", "Ready"} => pc[j] # "Ambiguous"
      BY <1>0, <1>5, <2>1 DEF Fail, Put, Moved, Settled, After, Row
    <2>3. QED
      BY <1>0, <1>a, <2>1, <2>2
  <1>6. CASE Save(j)
    <2>1. pc[j] = "Described" /\ pc'[j] = "Sync" /\ past' = past /\ billed' = billed
      BY <1>0, <1>6 DEF Save, Go
    <2>2. PICK cost \in {charge[j], Price} : Put(j, Described(row[j], cost))
      BY <1>6 DEF Save
    <2>3. row'[j].cost = cost /\ row'[j].month = row[j].month /\ row'[j].state = "ResultReady"
      BY <1>0, <2>2 DEF Put, Described, Row
    <2>4. QED
      BY <1>0, <1>a, <2>1, <2>2, <2>3
  <1>7. CASE Sync(j)
    <2>1. pc[j] = "Sync" /\ pc'[j] = "Idle" /\ past' = past /\ billed' = billed /\ row[j].state = "ResultReady"
      BY <1>0, <1>7 DEF Sync, Go, Leave, RowAt
    <2>2. /\ row'[j].cost = row[j].cost /\ row'[j].month = row[j].month
          /\ row'[j].state \in {"ResultReady", "Synced"}
      BY <1>0, <1>7, <2>1, MovedRow DEF Sync, Put, States
    <2>3. QED
      BY <1>0, <1>a, <2>1, <2>2
  <1>8. ASSUME NEW outcome \in {"Rejected", "NotCalled", "Ambiguous", "Described"},
               NEW cost \in Costs \cup {0}, Call(j, outcome, cost)
        PROVE  Reservation(j)' /\ Balanced(j, m)
    <2>0. cost \in Nat /\ cost <= Price
      <3>1. cost \in 0..Price
        BY Ranges
      <3>2. QED
        BY <3>1, ByokAssumption
    <2>1. pc[j] = "Call" /\ pc'[j] = outcome /\ row' = row /\ past' = past /\ row[j].cost = Price /\ row[j].month \in Months
      BY <1>0, <1>8 DEF Call, Go
    <2>2. CASE outcome \in {"Rejected", "NotCalled"}
      BY <1>0, <1>8, <1>a, <2>1, <2>2 DEF Call
    <2>3. CASE outcome \in {"Ambiguous", "Described"}
      <3>1. /\ charge'[j] = cost
            /\ billed'[m] = IF m = row[j].month THEN billed[m] + cost ELSE billed[m]
        BY <1>0, <1>8, <2>1, <2>3 DEF Call
      <3>2. QED
        BY <1>0, <1>a, <2>0, <2>1, <2>3, <3>1
    <2>4. QED
      BY <2>2, <2>3
  <1>9. QED
    BY <1>1, <1>2, <1>3, <1>4, <1>5, <1>6, <1>7, <1>8 DEF Thread

LEMMA InitBudget == Init => BudgetInv
  <1> SUFFICES ASSUME Init PROVE BudgetInv
    OBVIOUS
  <1>1. IInv
    BY InitInv
  <1>2. \A j \in Jobs : Reservation(j)
    BY DEF Init, Reservation
  <1>3. ASSUME NEW m \in Months PROVE Within(m)
    <2> DEFINE w == Cost(m)
    <2>1. w \in [Jobs -> Nat] /\ Payment(m) \in [Jobs -> Nat] /\ TypeOK
      BY <1>1, SumTypes DEF IInv, SumType
    <2>2. \A j \in Jobs : w[j] = 0
      BY DEF Init, Cost, CostAt
    <2>3. past[m] = 0 /\ billed[m] = 0 /\ Cap \in Nat /\ IsFiniteSet(Jobs)
      BY ByokAssumption DEF Init
    <2> HIDE DEF w
    <2>4. Total(w, Jobs) = 0
      BY <2>1, <2>2, <2>3, TotalZero
    <2>5. Total(Payment(m), Jobs) \in Nat
      BY <2>1, <2>3, TotalType
    <2>6. QED
      BY <2>3, <2>4, <2>5 DEF Within, w
  <1>4. QED
    BY <1>1, <1>2, <1>3 DEF BudgetInv

LEMMA StepBudget ==
  ASSUME BudgetInv, [Next]_vars
  PROVE  BudgetInv'
  <1>0. IInv /\ IInv' /\ TypeOK /\ TypeOK' /\ (\A j \in Jobs : Reservation(j)) /\ \A m \in Months : Within(m)
    BY StepInv DEF BudgetInv, IInv
  <1>1. CASE Outer
    <2>1. SameRows /\ \A k \in Jobs : Reservation(k)'
      BY <1>0, <1>1, OuterRows
    <2>2. \A m \in Months : Within(m)'
      BY <1>0, <2>1, SameRowsWithin
    <2>3. QED
      BY <1>0, <2>1, <2>2 DEF BudgetInv
  <1>2. ASSUME NEW j \in Jobs, Thread(j)
        PROVE  BudgetInv'
    <2>1. OneRow(j)
      BY <1>0, <1>2, ThreadOneRow
    <2>2. \A m \in Months : Reservation(j)' /\ Balanced(j, m)
      BY <1>0, <1>2, ThreadBalanced
    <2>3. \A m \in Months : Within(m)'
      BY <1>0, <2>1, <2>2, BalancedWithin
    <2>4. \A k \in Jobs : Reservation(k)'
      <3>1. 1 \in Months
        BY ByokAssumption DEF Months
      <3>2. QED
        BY <1>0, <2>1, <2>2, <3>1 DEF OneRow, Reservation
    <2>5. QED
      BY <1>0, <2>3, <2>4 DEF BudgetInv
  <1>3. CASE UNCHANGED vars
    <2>1. SameRows /\ \A k \in Jobs : Reservation(k)'
      <3>1. \A k \in Jobs : Paid(k) \in Nat
        BY <1>0, RowParts DEF Paid
      <3>2. QED
        BY <1>0, <1>3, <3>1 DEF vars, SameRows, Paid, Reservation
    <2>2. \A m \in Months : Within(m)'
      BY <1>0, <2>1, SameRowsWithin
    <2>3. QED
      BY <1>0, <2>1, <2>2 DEF BudgetInv
  <1>4. QED
    BY <1>1, <1>2, <1>3, NextParts

\* The journal is well formed and within the budget (reserve): the calls the provider
\* bills in a month, those of workers that run at once, those whose outcome is not
\* known and those tried again included, never exceed monthly_cap.
THEOREM CapNeverPassed == Spec => []JournalSound
  <1>1. BudgetInv => JournalSound
    <2> SUFFICES ASSUME BudgetInv, NEW m \in Months PROVE TypeOK /\ billed[m] <= Cap
      BY DEF JournalSound, CapRespected, BudgetInv, IInv
    <2>0. TypeOK /\ Within(m) /\ SumType(m) /\ IsFiniteSet(Jobs) /\ Cap \in Nat
      BY SumTypes, ByokAssumption DEF BudgetInv, IInv
    <2>1. \A j \in Jobs : Payment(m)[j] <= Cost(m)[j]
      BY <2>0, RowParts DEF BudgetInv, Reservation, Payment, PaidAt, Paid, Cost, CostAt
    <2>2. Cost(m) \in [Jobs -> Nat] /\ Payment(m) \in [Jobs -> Nat] /\ past[m] \in Nat /\ billed[m] \in Nat
      BY <2>0 DEF SumType
    <2>3. /\ Total(Payment(m), Jobs) <= Total(Cost(m), Jobs)
          /\ Total(Payment(m), Jobs) \in Nat /\ Total(Cost(m), Jobs) \in Nat
      BY <2>0, <2>1, <2>2, TotalBelow, TotalType
    <2>4. QED
      BY <2>0, <2>2, <2>3 DEF Within
  <1>2. QED
    BY <1>1, InitBudget, StepBudget, PTL DEF Spec
==============================================================================
