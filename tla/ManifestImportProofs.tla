------------------------ MODULE ManifestImportProofs ------------------------
(***************************************************************************)
(* Theorems about ManifestImport.  The inductive invariant says who may    *)
(* still change an import: at most one execution works on it, and it has   *)
(* the lease; and what phase, staged rows and merges then say together.    *)
(***************************************************************************)
EXTENDS ManifestImport, TLAPS

\* The steps of an execution between its claim and the end of its message.
Working == {"Load", "Start", "Merge", "Write", "Upload", "Complete", "Fail"}

\* What the columns of an import say together.
RowInv(i) ==
  LET r == row[i] IN
  /\ r.status \in {"None", "AwaitingUpload"} =>
       r.phase = "WaitingForUpload" /\ r.lease = None /\ ~r.staged
  /\ r.status \in Active =>
       /\ r.phase # "Complete"
       /\ r.phase \in Resumable => r.staged
  /\ r.status \in Terminal => r.lease = None /\ ~r.staged

\* Merged is the phase of an import, until it ends.
MergeInv(i) ==
  LET r == row[i] IN
  /\ merges[i] \in {0, 1}
  /\ r.status \notin Terminal => (merges[i] = 1 <=> r.phase \in {"Merged", "WritingResult"})
  /\ r.status = "Succeeded" => i \in results /\ merges[i] = 1

\* An execution at work has its message, and the lease unless its import ended.
Holding(w) ==
  /\ pc[w] # "Idle" => task[w] \in Messages
  /\ pc[w] \in Working => row[Import(w)].status \in Terminal \/ HoldsLease(w)
  /\ pc[w] = "Load" => row[Import(w)].status \in Terminal \/ row[Import(w)].phase = "Downloading"
  /\ pc[w] = "Complete" => Import(w) \in results

\* No two executions work on an import that has not ended.
Solo ==
  \A v, w \in Workers :
    v # w /\ pc[v] \in Working /\ pc[w] \in Working /\ Import(v) = Import(w)
      => row[Import(w)].status \in Terminal

IInv ==
  /\ TypeOK
  /\ \A i \in Imports : RowInv(i) /\ MergeInv(i)
  /\ \A w \in Workers : Holding(w)
  /\ Solo

-----------------------------------------------------------------------------
(* Rows and messages.                                                      *)

LEMMA StatusesApart ==
  /\ Active \cap Terminal = {} /\ "None" \notin Active \cup Terminal
  /\ "AwaitingUpload" \in Active /\ "FailedPermanent" \in Terminal
  /\ "Complete" \notin Resumable /\ "Downloading" \notin Resumable
  BY DEF Active, Terminal, Resumable

LEMMA FailedRow ==
  ASSUME NEW r \in ImportRow
  PROVE  /\ Failed(r) \in ImportRow /\ Failed(r).status = "FailedPermanent"
         /\ Failed(r).lease = None /\ ~Failed(r).staged
  BY DEF Failed, ImportRow, Terminal

LEMMA WaitingRow ==
  ASSUME NEW r \in ImportRow
  PROVE  /\ Waiting(r) \in ImportRow /\ Waiting(r).status = "RetryDue"
         /\ Waiting(r).phase = r.phase /\ Waiting(r).staged = r.staged
  BY DEF Waiting, ImportRow, Active

LEMMA EmptyRow == NoRow \in ImportRow
  BY AttemptsAssumption DEF NoRow, ImportRow

\* An execution that is not idle has a message of an import.
LEMMA Tasks ==
  ASSUME NEW w \in Workers, Holding(w), pc[w] # "Idle"
  PROVE  /\ Import(w) \in Imports /\ Message(w) \in MessageIds
         /\ task[w] = <<Import(w), Message(w)>> /\ Message(w) # None
  BY NoneAssumption DEF Holding, Messages, Import, Message

\* What the steps of an execution do with the executions.
LEMMA GotoType ==
  ASSUME TypeOK, NEW w \in Workers, NEW step \in Steps, Goto(w, step)
  PROVE  /\ pc' \in [Workers -> Steps] /\ task' \in [Workers -> Messages \cup {None}]
         /\ permanent' \in [Workers -> BOOLEAN]
         /\ \A v \in Workers : v # w => pc'[v] = pc[v] /\ task'[v] = task[v]
         /\ pc'[w] = step /\ task'[w] = task[w]
  BY DEF TypeOK, Goto

LEMMA InitInv == Init => IInv
  <1> SUFFICES ASSUME Init PROVE IInv
    OBVIOUS
  <1>1. TypeOK
    BY EmptyRow DEF Init, TypeOK, Steps
  <1>2. ASSUME NEW i \in Imports PROVE RowInv(i) /\ MergeInv(i)
    BY StatusesApart DEF Init, RowInv, MergeInv, NoRow, Resumable
  <1>3. Solo /\ \A w \in Workers : Holding(w)
    BY DEF Init, Solo, Holding, Working
  <1>4. QED
    BY <1>1, <1>2, <1>3 DEF IInv

-----------------------------------------------------------------------------
(* A step of one execution.                                                *)

\* It touches one import and no other execution, and takes no result away.
Apart(w, i) ==
  /\ \A k \in Imports : k # i => row'[k] = row[k] /\ merges'[k] = merges[k]
  /\ \A v \in Workers : v # w => pc'[v] = pc[v] /\ task'[v] = task[v]
  /\ results \subseteq results'

\* No other execution works on the import.
Alone(w, i) == \A v \in Workers : v # w /\ pc[v] \in Working => Import(v) # i

\* What it may do with an import others may be working on.
Permitted(w, i) ==
  /\ \/ row'[i] = row[i]
     \/ row'[i].status \in Terminal
     \/ Alone(w, i)
  /\ pc'[w] \in Working => /\ task'[w] = task[w] /\ i = Import(w)
                           /\ pc[w] \in Working \/ Alone(w, i)

LEMMA StepKeeps ==
  ASSUME IInv, NEW w \in Workers, NEW i, pc[w] # "Idle" => i = Import(w),
         TypeOK', Apart(w, i), Permitted(w, i), i \in Imports => RowInv(i)' /\ MergeInv(i)', Holding(w)'
  PROVE  IInv'
  <1>1. ASSUME NEW k \in Imports PROVE RowInv(k)' /\ MergeInv(k)'
    BY <1>1 DEF IInv, Apart, RowInv, MergeInv
  <1>2. ASSUME NEW v \in Workers PROVE Holding(v)'
    <2>1. CASE v # w
      <3>1. Holding(v) /\ pc'[v] = pc[v] /\ task'[v] = task[v] /\ results \subseteq results'
        BY <1>2, <2>1 DEF IInv, Apart
      <3>2. CASE pc[v] \notin Working
        BY <3>1, <3>2 DEF Holding, Working
      <3>3. CASE pc[v] \in Working
        <4>1. Import(v) \in Imports /\ Import(v)' = Import(v) /\ Message(v)' = Message(v)
          BY <3>1, <3>3, Tasks DEF Working, Import, Message
        <4>2. row'[Import(v)] = row[Import(v)] \/ row'[Import(v)].status \in Terminal
          BY <1>2, <2>1, <3>3, <4>1 DEF Apart, Permitted, Alone
        <4>3. QED
          BY <3>1, <4>1, <4>2 DEF Holding, HoldsLease
      <3>4. QED
        BY <3>2, <3>3
    <2>2. QED
      BY <2>1
  <1>3. Solo'
    <2> SUFFICES ASSUME NEW u \in Workers, NEW v \in Workers, u # v, (pc[u] \in Working)',
                        (pc[v] \in Working)', (Import(u) = Import(v))'
                 PROVE  (row[Import(v)].status \in Terminal)'
      BY DEF Solo
    <2>0. \A x \in Workers : Holding(x)
      BY DEF IInv
    <2>1. \A x \in Workers : (x # w => pc'[x] = pc[x] /\ task'[x] = task[x]) /\ (pc'[x] \in Working => task'[x] = task[x])
      BY DEF Apart, Permitted
    <2>2. Import(u)' = Import(u) /\ Import(v)' = Import(v) /\ Import(u) = Import(v)
      BY <2>1 DEF Import
    <2>3. Import(v) \in Imports
      BY <2>0, <2>1, Tasks, <2>2 DEF Working
    <2>4. CASE pc[u] \in Working /\ pc[v] \in Working
      <3>1. row[Import(v)].status \in Terminal
        BY <2>2, <2>4 DEF IInv, Solo
      <3>2. row'[Import(v)] = row[Import(v)] \/ row'[Import(v)].status \in Terminal
        BY <2>2, <2>3, <2>4, <2>1 DEF Apart, Permitted, Alone
      <3>3. QED
        BY <3>1, <3>2, <2>2
    <2>5. CASE pc[u] \notin Working
      BY <2>1, <2>2, <2>5 DEF Permitted, Apart, Alone
    <2>6. CASE pc[v] \notin Working
      BY <2>1, <2>2, <2>6 DEF Permitted, Apart, Alone
    <2>7. QED
      BY <2>4, <2>5, <2>6
  <1>4. QED
    BY <1>1, <1>2, <1>3 DEF IInv

\* Steps that leave the rows, the merges and the results alone.
LEMMA QuietStep ==
  ASSUME IInv, NEW w \in Workers, UNCHANGED <<source, row, stores, completing, merges>>, queue' \subseteq Messages,
         \A v \in Workers : v # w => pc'[v] = pc[v] /\ task'[v] = task[v],
         pc' \in [Workers -> Steps], task' \in [Workers -> Messages \cup {None}],
         permanent' \in [Workers -> BOOLEAN],
         pc'[w] \in Working \ {"Load"} => task'[w] = task[w] /\ pc[w] \in Working,
         pc'[w] # "Load", pc'[w] = "Complete" => Import(w) \in results,
         pc'[w] # "Idle" => task'[w] \in Messages
  PROVE  IInv'
  <1>1. TypeOK'
    BY DEF IInv, TypeOK, stores
  <1>2. ASSUME NEW i, pc[w] # "Idle" => i = Import(w)
        PROVE  IInv'
    <2>1. i \in Imports => RowInv(i)' /\ MergeInv(i)'
      BY DEF IInv, RowInv, MergeInv, stores
    <2>2. Apart(w, i)
      BY DEF Apart, stores
    <2>3. Permitted(w, i)
      BY <1>2 DEF Permitted, Working
    <2>4. Holding(w)'
      <3>1. Holding(w)
        BY DEF IInv
      <3>2. CASE pc'[w] \notin Working
        BY <3>2 DEF Holding, Working
      <3>3. CASE pc'[w] \in Working
        BY <3>1, <3>3 DEF Holding, HoldsLease, Import, Message, stores, Working
      <3>4. QED
        BY <3>2, <3>3
    <2>5. QED
      BY <1>1, <1>2, <2>1, <2>2, <2>3, <2>4, StepKeeps
  <1>3. QED
    <2>1. CASE pc[w] # "Idle"
      BY <1>2, <2>1, Tasks DEF IInv
    <2>2. CASE pc[w] = "Idle"
      BY <1>2, <2>2
    <2>3. QED
      BY <2>1, <2>2

LEMMA Holder ==
  ASSUME IInv, NEW w \in Workers, pc[w] \in Working, HoldsLease(w)
  PROVE  /\ Alone(w, Import(w)) /\ row[Import(w)].status = "Running"
         /\ row[Import(w)].lease = Message(w) /\ row[Import(w)].live
         /\ row[Import(w)].status \notin Terminal /\ row[Import(w)].status \in Active
  BY DEF IInv, Solo, Alone, HoldsLease, Terminal, Active

\* A step that gives the import of an execution a new row.
LEMMA RowStep ==
  ASSUME IInv, NEW w \in Workers, pc[w] # "Idle", NEW i \in Imports, i = Import(w),
         NEW r \in ImportRow, row' = [row EXCEPT ![i] = r],
         UNCHANGED <<source, stores, completing, queue>>,
         \A v \in Workers : v # w => pc'[v] = pc[v] /\ task'[v] = task[v],
         pc' \in [Workers -> Steps], task' \in [Workers -> Messages \cup {None}],
         permanent' \in [Workers -> BOOLEAN], merges' \in [Imports -> Nat],
         \A k \in Imports : k # i => merges'[k] = merges[k],
         r.status \in Terminal \/ Alone(w, i),
         pc'[w] \in Working => task'[w] = task[w] /\ (pc[w] \in Working \/ Alone(w, i)),
         RowInv(i)', MergeInv(i)', Holding(w)'
  PROVE  IInv'
  <1>1. row' \in [Imports -> ImportRow] /\ row'[i] = r /\ \A k \in Imports : k # i => row'[k] = row[k]
    BY DEF IInv, TypeOK
  <1>2. TypeOK'
    BY <1>1 DEF IInv, TypeOK, stores
  <1>3. Apart(w, i) /\ Permitted(w, i)
    BY <1>1 DEF Apart, Permitted, stores
  <1>4. QED
    BY <1>2, <1>3, StepKeeps

-----------------------------------------------------------------------------
(* The steps of an execution keep the invariant.                           *)

LEMMA ClaimKeeps ==
  ASSUME IInv, NEW w \in Workers, Claim(w)
  PROVE  IInv'
  <1>0. TypeOK
    BY DEF IInv
  <1>1. pc[w] = "Claim" /\ Holding(w) /\ Import(w) \in Imports
    BY Tasks DEF Claim, IInv
  <1> SUFFICES ASSUME NEW i \in Imports, i = Import(w) PROVE IInv'
    BY <1>1
  <1> DEFINE p == ResumeAt(row[i].phase)
             r == [row[i] EXCEPT !.status = "Running", !.phase = p, !.attempts = row[i].attempts + 1,
                                 !.lease = Message(w), !.live = TRUE]
  <1>2. Message(w) \in MessageIds /\ task[w] = <<i, Message(w)>> /\ row[i] \in ImportRow
    BY <1>0, <1>1, Tasks DEF TypeOK
  <1>3. CASE Goto(w, "Ack") /\ UNCHANGED row
    BY <1>1, <1>2, <1>3, QuietStep DEF IInv, TypeOK, Goto, Claim, Working, Steps, Holding
  <1>4. CASE Goto(w, "Ack") /\ row' = [row EXCEPT ![i] = Failed(row[i])] /\ Claimable(row[i])
    <2>1. RowInv(i)' /\ MergeInv(i)'
      <3>1. row'[i] = Failed(row[i])
        BY <1>1, <1>2, <1>4 DEF IInv, TypeOK
      <3>2. UNCHANGED merges /\ row[i] \in ImportRow /\ MergeInv(i)
        BY <1>1, <1>2 DEF Claim, IInv
      <3>3. RowInv(i)'
        BY <3>1, <3>2, FailedRow, StatusesApart DEF RowInv
      <3>4. MergeInv(i)'
        BY <3>1, <3>2, FailedRow, StatusesApart DEF MergeInv
      <3>5. QED
        BY <3>3, <3>4
    <2>2. Holding(w)'
      BY <1>1, <1>2, <1>4 DEF Goto, Holding, Working, IInv, TypeOK
    <2>3. Failed(row[i]) \in ImportRow /\ Failed(row[i]).status \in Terminal
      BY <1>1, <1>2, FailedRow, StatusesApart
    <2>4. UNCHANGED <<source, stores, completing, queue, merges>> /\ merges \in [Imports -> Nat]
      BY DEF Claim, IInv, TypeOK
    <2>5. QED
      BY <1>0, <1>1, <1>2, <1>4, <2>1, <2>2, <2>3, <2>4, RowStep, GotoType DEF Working, Steps
  <1>5. CASE /\ Claimable(row[i]) /\ ~row[i].live /\ ~Exhausted(row[i])
             /\ Goto(w, FirstStep(p)) /\ row' = [row EXCEPT ![i] = r]
    <2>1. Alone(w, i)
      <3> SUFFICES ASSUME NEW v \in Workers, v # w, pc[v] \in Working, Import(v) = i
                   PROVE  FALSE
        BY DEF Alone
      <3>1. row[i].status \in Terminal \/ HoldsLease(v)
        BY DEF IInv, Holding
      <3>2. QED
        BY <3>1, <1>5 DEF HoldsLease, Claimable, Terminal
    <2>2. /\ p \in Resumable \cup {"Downloading"} /\ row[i].status \in Active
          /\ p \in Resumable => p = row[i].phase
          /\ p \notin Resumable => row[i].phase \notin Resumable
      BY <1>5, StatusesApart DEF ResumeAt, Claimable, Active
    <2>3. /\ FirstStep(p) \in {"Load", "Start", "Write"}
          /\ FirstStep(p) = "Load" => p = "Downloading"
      BY <2>2 DEF FirstStep, Resumable
    <2>4. r \in ImportRow /\ row'[i] = r /\ r.status = "Running" /\ r.phase = p /\ r.lease = Message(w)
          /\ r.live /\ r.staged = row[i].staged
      <3>1. row[i].attempts + 1 \in 0..MaxAttempts
        BY <1>1, <1>2, <1>5, AttemptsAssumption DEF ImportRow, Exhausted
      <3>2. r \in ImportRow
        BY <1>1, <1>2, <2>2, <3>1 DEF ImportRow, Active
      <3>3. row'[i] = r
        BY <1>1, <1>2, <1>5 DEF IInv, TypeOK
      <3>4. QED
        BY <1>1, <1>2, <3>2, <3>3 DEF ImportRow
    <2>5. RowInv(i)' /\ MergeInv(i)'
      <3>1. RowInv(i) /\ MergeInv(i) /\ UNCHANGED merges
        BY <1>1, <1>2 DEF IInv, Claim
      <3> HIDE DEF r, p
      <3>2. RowInv(i)'
        BY <3>1, <2>2, <2>4, StatusesApart DEF RowInv, Terminal, Active
      <3>3. MergeInv(i)'
        BY <3>1, <2>2, <2>4, StatusesApart DEF MergeInv, Terminal, Active, Resumable
      <3>4. QED
        BY <3>2, <3>3
    <2>6. Holding(w)'
      <3>1. pc'[w] = FirstStep(p) /\ task'[w] = task[w]
        BY <1>5 DEF Goto, IInv, TypeOK
      <3>2. Import(w)' = i /\ Message(w)' = Message(w) /\ task[w] \in Messages
        BY <1>1, <1>2, <3>1 DEF Import, Message, Messages
      <3> HIDE DEF r, p
      <3>3. QED
        BY <3>1, <3>2, <2>3, <2>4 DEF Holding, HoldsLease
    <2>7. UNCHANGED <<source, stores, completing, queue, merges>> /\ merges \in [Imports -> Nat]
      BY DEF Claim, IInv, TypeOK
    <2>8. FirstStep(p) \in Steps
      BY <2>3 DEF Steps
    <2> HIDE DEF r, p
    <2>9. QED
      BY <1>0, <1>1, <1>2, <1>5, <2>1, <2>4, <2>5, <2>6, <2>7, <2>8, RowStep, GotoType
  <1>6. QED
    BY <1>1, <1>2, <1>3, <1>4, <1>5 DEF Claim

\* A step of the lease's holder keeps the invariant if the row it writes does.
LEMMA AdvanceKeeps ==
  ASSUME IInv, NEW w \in Workers, NEW i \in Imports, i = Import(w),
         NEW step \in Working \ {"Fail"}, NEW phases, NEW change, NEW next \in Steps,
         Advance(w, step, phases, change, next), UNCHANGED stores,
         (HoldsLease(w) /\ row[i].phase \in phases) \/ UNCHANGED merges,
         \A k \in Imports : k # i => merges'[k] = merges[k],
         merges' \in [Imports -> Nat],
         HoldsLease(w) /\ row[i].phase \in phases =>
           /\ change \in ImportRow
           /\ row'[i] = change /\ pc'[w] = next /\ task'[w] = task[w] =>
                RowInv(i)' /\ MergeInv(i)' /\ Holding(w)'
  PROVE  IInv'
  <1>1. TypeOK /\ pc[w] = step /\ pc[w] \in Working /\ pc[w] # "Idle" /\ Holding(w)
    BY DEF IInv, Advance, Working
  <1>2. task[w] \in Messages /\ UNCHANGED <<source, completing, queue>>
    BY <1>1 DEF Holding, Advance
  <1>3. CASE ~HoldsLease(w)
    <2>1. Goto(w, "Ack") /\ UNCHANGED <<row, merges>>
      BY <1>3 DEF Advance
    <2>2. QED
      BY <1>1, <1>2, <2>1, QuietStep, GotoType DEF TypeOK, Working, Steps
  <1>4. CASE HoldsLease(w) /\ row[i].phase \notin phases
    <2>1. /\ pc' = [pc EXCEPT ![w] = "Fail"] /\ permanent' = [permanent EXCEPT ![w] = FALSE]
          /\ UNCHANGED <<task, row, merges>>
      BY <1>4 DEF Advance
    <2>2. /\ pc' \in [Workers -> Steps] /\ task' \in [Workers -> Messages \cup {None}]
          /\ permanent' \in [Workers -> BOOLEAN] /\ pc'[w] = "Fail"
          /\ \A v \in Workers : v # w => pc'[v] = pc[v] /\ task'[v] = task[v]
      BY <1>1, <2>1 DEF TypeOK, Steps
    <2>3. QED
      BY <1>1, <1>2, <2>1, <2>2, QuietStep DEF TypeOK
  <1>5. CASE HoldsLease(w) /\ row[i].phase \in phases
    <2>1. Goto(w, next) /\ row' = [row EXCEPT ![i] = change] /\ change \in ImportRow
      BY <1>5 DEF Advance
    <2>2. row'[i] = change
      BY <1>1, <2>1 DEF TypeOK
    <2>3. RowInv(i)' /\ MergeInv(i)' /\ Holding(w)'
      BY <1>1, <1>5, <2>1, <2>2, GotoType
    <2>4. Alone(w, i)
      BY <1>1, <1>5, Holder
    <2>5. QED
      BY <1>1, <1>2, <2>1, <2>3, <2>4, RowStep, GotoType
  <1>6. QED
    BY <1>3, <1>4, <1>5

LEMMA LoadKeeps ==
  ASSUME IInv, NEW w \in Workers, Load(w)
  PROVE  IInv'
  <1>1. TypeOK /\ pc[w] = "Load" /\ Holding(w) /\ Import(w) \in Imports /\ task[w] \in Messages
    BY Tasks DEF Load, Advance, IInv, Holding
  <1> SUFFICES ASSUME NEW i \in Imports, i = Import(w) PROVE IInv'
    BY <1>1
  <1> DEFINE r == [row[i] EXCEPT !.phase = "Staged", !.staged = TRUE]
  <1>2. Advance(w, "Load", AnyPhase, r, "Start") /\ UNCHANGED <<stores, merges>> /\ merges \in [Imports -> Nat]
    BY <1>1 DEF Load, TypeOK
  <1>3. row[i] \in ImportRow /\ RowInv(i) /\ MergeInv(i)
    BY DEF IInv, TypeOK
  <1>4. ASSUME HoldsLease(w), row'[i] = r, pc'[w] = "Start", task'[w] = task[w]
        PROVE  RowInv(i)' /\ MergeInv(i)' /\ Holding(w)'
    <2>1. /\ row[i].status = "Running" /\ row[i].lease = Message(w) /\ row[i].live
          /\ row[i].phase = "Downloading"
      BY <1>1, <1>4 DEF HoldsLease, Holding, Terminal
    <2>2. /\ r.status = "Running" /\ r.lease = Message(w) /\ r.live /\ r.phase = "Staged" /\ r.staged
      BY <1>3, <2>1 DEF ImportRow
    <2> HIDE DEF r
    <2>3. RowInv(i)' /\ MergeInv(i)'
      BY <1>2, <1>3, <1>4, <2>1, <2>2 DEF RowInv, MergeInv, Terminal, Active, Resumable
    <2>4. Holding(w)'
      BY <1>1, <1>4, <2>2 DEF Holding, HoldsLease, Import, Message
    <2>5. QED
      BY <2>3, <2>4
  <1>5. r \in ImportRow
    BY <1>3 DEF ImportRow, Resumable
  <1>6. "Load" \in Working \ {"Fail"} /\ "Start" \in Steps
    BY DEF Working, Steps
  <1> HIDE DEF r
  <1>7. QED
    BY <1>2, <1>4, <1>5, <1>6, AdvanceKeeps

LEMMA StartKeeps ==
  ASSUME IInv, NEW w \in Workers, Start(w)
  PROVE  IInv'
  <1>1. TypeOK /\ pc[w] = "Start" /\ Holding(w) /\ Import(w) \in Imports /\ task[w] \in Messages
    BY Tasks DEF Start, Advance, IInv, Holding
  <1> SUFFICES ASSUME NEW i \in Imports, i = Import(w) PROVE IInv'
    BY <1>1
  <1> DEFINE r == [row[i] EXCEPT !.phase = "Merging"]
  <1>2. Advance(w, "Start", {"Staged", "Merging"}, r, "Merge") /\ UNCHANGED <<stores, merges>> /\ merges \in [Imports -> Nat]
    BY <1>1 DEF Start, TypeOK
  <1>3. row[i] \in ImportRow /\ RowInv(i) /\ MergeInv(i)
    BY DEF IInv, TypeOK
  <1>4. ASSUME HoldsLease(w), row[i].phase \in {"Staged", "Merging"}, row'[i] = r, pc'[w] = "Merge", task'[w] = task[w]
        PROVE  RowInv(i)' /\ MergeInv(i)' /\ Holding(w)'
    <2>1. row[i].status = "Running" /\ row[i].lease = Message(w) /\ row[i].live
      BY <1>1, <1>4 DEF HoldsLease
    <2>2. /\ r.status = "Running" /\ r.lease = Message(w) /\ r.live /\ r.phase = "Merging"
          /\ r.staged = row[i].staged
      BY <1>3, <2>1 DEF ImportRow
    <2> HIDE DEF r
    <2>3. RowInv(i)' /\ MergeInv(i)'
      BY <1>2, <1>3, <1>4, <2>1, <2>2 DEF RowInv, MergeInv, Terminal, Active, Resumable, stores
    <2>4. Holding(w)'
      BY <1>1, <1>4, <2>2 DEF Holding, HoldsLease, Import, Message
    <2>5. QED
      BY <2>3, <2>4
  <1>5. r \in ImportRow
    BY <1>3 DEF ImportRow, Resumable, Terminal
  <1>6. "Start" \in Working \ {"Fail"} /\ "Merge" \in Steps
    BY DEF Working, Steps
  <1> HIDE DEF r
  <1>7. QED
    BY <1>2, <1>4, <1>5, <1>6, AdvanceKeeps

LEMMA WriteKeeps ==
  ASSUME IInv, NEW w \in Workers, Write(w)
  PROVE  IInv'
  <1>1. TypeOK /\ pc[w] = "Write" /\ Holding(w) /\ Import(w) \in Imports /\ task[w] \in Messages
    BY Tasks DEF Write, Advance, IInv, Holding
  <1> SUFFICES ASSUME NEW i \in Imports, i = Import(w) PROVE IInv'
    BY <1>1
  <1> DEFINE r == [row[i] EXCEPT !.phase = "WritingResult"]
  <1>2. Advance(w, "Write", {"Merged", "WritingResult"}, r, "Upload") /\ UNCHANGED <<stores, merges>> /\ merges \in [Imports -> Nat]
    BY <1>1 DEF Write, TypeOK
  <1>3. row[i] \in ImportRow /\ RowInv(i) /\ MergeInv(i)
    BY DEF IInv, TypeOK
  <1>4. ASSUME HoldsLease(w), row[i].phase \in {"Merged", "WritingResult"}, row'[i] = r, pc'[w] = "Upload", task'[w] = task[w]
        PROVE  RowInv(i)' /\ MergeInv(i)' /\ Holding(w)'
    <2>1. row[i].status = "Running" /\ row[i].lease = Message(w) /\ row[i].live
      BY <1>1, <1>4 DEF HoldsLease
    <2>2. /\ r.status = "Running" /\ r.lease = Message(w) /\ r.live /\ r.phase = "WritingResult"
          /\ r.staged = row[i].staged
      BY <1>3, <2>1 DEF ImportRow
    <2> HIDE DEF r
    <2>3. RowInv(i)' /\ MergeInv(i)'
      BY <1>2, <1>3, <1>4, <2>1, <2>2 DEF RowInv, MergeInv, Terminal, Active, Resumable, stores
    <2>4. Holding(w)'
      BY <1>1, <1>4, <2>2 DEF Holding, HoldsLease, Import, Message
    <2>5. QED
      BY <2>3, <2>4
  <1>5. r \in ImportRow
    BY <1>3 DEF ImportRow, Resumable, Terminal
  <1>6. "Write" \in Working \ {"Fail"} /\ "Upload" \in Steps
    BY DEF Working, Steps
  <1> HIDE DEF r
  <1>7. QED
    BY <1>2, <1>4, <1>5, <1>6, AdvanceKeeps

LEMMA CompleteKeeps ==
  ASSUME IInv, NEW w \in Workers, Complete(w)
  PROVE  IInv'
  <1>1. TypeOK /\ pc[w] = "Complete" /\ Holding(w) /\ Import(w) \in Imports /\ task[w] \in Messages
    BY Tasks DEF Complete, Advance, IInv, Holding
  <1> SUFFICES ASSUME NEW i \in Imports, i = Import(w) PROVE IInv'
    BY <1>1
  <1> DEFINE r == [row[i] EXCEPT !.status = "Succeeded", !.phase = "Complete", !.lease = None,
                                 !.live = FALSE, !.due = FALSE, !.staged = FALSE]
  <1>2. Advance(w, "Complete", {"Merged", "WritingResult"}, r, "Ack") /\ UNCHANGED <<stores, merges>> /\ merges \in [Imports -> Nat]
    BY <1>1 DEF Complete, TypeOK
  <1>3. row[i] \in ImportRow /\ RowInv(i) /\ MergeInv(i)
    BY DEF IInv, TypeOK
  <1>4. ASSUME HoldsLease(w), row[i].phase \in {"Merged", "WritingResult"}, row'[i] = r, pc'[w] = "Ack", task'[w] = task[w]
        PROVE  RowInv(i)' /\ MergeInv(i)' /\ Holding(w)'
    <2>1. row[i].status = "Running" /\ row[i].lease = Message(w) /\ row[i].live /\ i \in results
      BY <1>1, <1>4 DEF HoldsLease, Holding
    <2>2. r.status = "Succeeded" /\ r.lease = None /\ ~r.staged
      BY <1>3, <2>1 DEF ImportRow
    <2> HIDE DEF r
    <2>3. RowInv(i)' /\ MergeInv(i)'
      BY <1>2, <1>3, <1>4, <2>1, <2>2 DEF RowInv, MergeInv, Terminal, Active, Resumable, stores
    <2>4. Holding(w)'
      BY <1>1, <1>4, <2>2 DEF Holding, Working
    <2>5. QED
      BY <2>3, <2>4
  <1>5. r \in ImportRow
    BY <1>3 DEF ImportRow, Resumable, Terminal
  <1>6. "Complete" \in Working \ {"Fail"} /\ "Ack" \in Steps
    BY DEF Working, Steps
  <1> HIDE DEF r
  <1>7. QED
    BY <1>2, <1>4, <1>5, <1>6, AdvanceKeeps

LEMMA MergeKeeps ==
  ASSUME IInv, NEW w \in Workers, Merge(w)
  PROVE  IInv'
  <1>1. TypeOK /\ pc[w] = "Merge" /\ Holding(w) /\ Import(w) \in Imports /\ task[w] \in Messages
    BY Tasks DEF Merge, Advance, IInv, Holding
  <1> SUFFICES ASSUME NEW i \in Imports, i = Import(w) PROVE IInv'
    BY <1>1
  <1>2. CASE source # "Active"
    <2>1. /\ pc' = [pc EXCEPT ![w] = "Fail"]
          /\ permanent' = [permanent EXCEPT ![w] = (source = "NoSource")]
          /\ UNCHANGED <<source, row, stores, completing, queue, task, merges>>
      BY <1>1, <1>2 DEF Merge
    <2>2. /\ pc' \in [Workers -> Steps] /\ task' \in [Workers -> Messages \cup {None}]
          /\ permanent' \in [Workers -> BOOLEAN] /\ pc'[w] = "Fail"
          /\ \A v \in Workers : v # w => pc'[v] = pc[v] /\ task'[v] = task[v]
      BY <1>1, <2>1 DEF TypeOK, Steps
    <2>3. QED
      BY <1>1, <2>1, <2>2, QuietStep DEF TypeOK, Working
  <1>3. CASE source = "Active"
    <2> DEFINE r == [row[i] EXCEPT !.phase = "Merged"]
               phases == {"Staged", "Merging"}
    <2>1. /\ Advance(w, "Merge", phases, r, "Write") /\ UNCHANGED stores
          /\ IF pc'[w] = "Write" THEN merges' = [merges EXCEPT ![i] = merges[i] + 1] ELSE UNCHANGED merges
      BY <1>3 DEF Merge
    <2>2. /\ row[i] \in ImportRow /\ RowInv(i) /\ MergeInv(i) /\ merges \in [Imports -> Nat]
          /\ merges' \in [Imports -> Nat] /\ \A k \in Imports : k # i => merges'[k] = merges[k]
      BY <2>1 DEF IInv, TypeOK
    <2>3. pc'[w] = "Write" <=> HoldsLease(w) /\ row[i].phase \in phases
      BY <1>1, <2>1 DEF Advance, Goto, TypeOK
    <2>4. ASSUME HoldsLease(w), row[i].phase \in phases, row'[i] = r, pc'[w] = "Write", task'[w] = task[w]
          PROVE  RowInv(i)' /\ MergeInv(i)' /\ Holding(w)'
      <3>1. row[i].status = "Running" /\ row[i].lease = Message(w) /\ row[i].live
        BY <2>4 DEF HoldsLease
      <3>2. /\ r.status = "Running" /\ r.lease = Message(w) /\ r.live /\ r.phase = "Merged"
            /\ r.staged = row[i].staged
        BY <2>2, <3>1 DEF ImportRow
      <3>3. merges[i] = 0
        BY <2>2, <2>4, <3>1 DEF MergeInv, Terminal
      <3>4. merges'[i] = 1
        BY <2>1, <2>2, <2>4, <3>3
      <3> HIDE DEF r
      <3>5. RowInv(i)' /\ MergeInv(i)'
        BY <2>2, <2>4, <3>1, <3>2, <3>4 DEF RowInv, MergeInv, Terminal, Active, Resumable
      <3>6. Holding(w)'
        BY <1>1, <2>4, <3>2 DEF Holding, HoldsLease, Import, Message
      <3>7. QED
        BY <3>5, <3>6
    <2>5. r \in ImportRow
      BY <2>2 DEF ImportRow, Resumable
    <2>6. "Merge" \in Working \ {"Fail"} /\ "Write" \in Steps
      BY DEF Working, Steps
    <2> HIDE DEF r, phases
    <2>7. QED
      BY <2>1, <2>2, <2>3, <2>4, <2>5, <2>6, AdvanceKeeps
  <1>4. QED
    BY <1>2, <1>3

LEMMA UploadKeeps ==
  ASSUME IInv, NEW w \in Workers, Upload(w)
  PROVE  IInv'
  <1>1. TypeOK /\ pc[w] = "Upload" /\ Holding(w) /\ Import(w) \in Imports /\ task[w] \in Messages
    BY Tasks DEF Upload, IInv, Holding
  <1> SUFFICES ASSUME NEW i \in Imports, i = Import(w) PROVE IInv'
    BY <1>1
  <1>2. CASE row[i].staged
    <2>1. /\ results' = results \cup {i} /\ Goto(w, "Complete")
          /\ UNCHANGED <<source, row, manifests, completing, queue, merges>>
      BY <1>2 DEF Upload
    <2>2. /\ pc' \in [Workers -> Steps] /\ task' = task /\ permanent' = permanent /\ pc'[w] = "Complete"
          /\ \A v \in Workers : v # w => pc'[v] = pc[v] /\ task'[v] = task[v]
      BY <1>1, <2>1, GotoType DEF Goto, Steps
    <2>3. TypeOK'
      BY <1>1, <2>1, <2>2 DEF TypeOK
    <2>4. RowInv(i)' /\ MergeInv(i)'
      BY <2>1 DEF IInv, RowInv, MergeInv
    <2>5. Apart(w, i) /\ Permitted(w, i)
      BY <1>1, <2>1, <2>2 DEF Apart, Permitted, Working
    <2>6. Holding(w)'
      BY <1>1, <2>1, <2>2 DEF Holding, HoldsLease, Import, Message, Working
    <2>7. QED
      BY <1>1, <2>3, <2>4, <2>5, <2>6, StepKeeps
  <1>3. CASE ~row[i].staged
    <2>1. /\ pc' = [pc EXCEPT ![w] = "Fail"] /\ permanent' = [permanent EXCEPT ![w] = TRUE]
          /\ UNCHANGED <<source, row, stores, completing, queue, task, merges>>
      BY <1>3 DEF Upload, stores
    <2>2. /\ pc' \in [Workers -> Steps] /\ task' \in [Workers -> Messages \cup {None}]
          /\ permanent' \in [Workers -> BOOLEAN] /\ pc'[w] = "Fail"
          /\ \A v \in Workers : v # w => pc'[v] = pc[v] /\ task'[v] = task[v]
      BY <1>1, <2>1 DEF TypeOK, Steps
    <2>3. QED
      BY <1>1, <2>1, <2>2, QuietStep DEF TypeOK, Working
  <1>4. QED
    BY <1>2, <1>3

LEMMA ErrKeeps ==
  ASSUME IInv, NEW w \in Workers, Err(w)
  PROVE  IInv'
  <1>1. TypeOK /\ Holding(w) /\ pc[w] \in Working
    BY DEF IInv, Err, Working
  <1>2. /\ pc' = [pc EXCEPT ![w] = "Fail"] /\ permanent' \in [Workers -> BOOLEAN]
        /\ UNCHANGED <<source, row, stores, completing, queue, task, merges>>
    BY <1>1 DEF Err, TypeOK
  <1>3. /\ pc' \in [Workers -> Steps] /\ task' \in [Workers -> Messages \cup {None}]
        /\ pc'[w] = "Fail" /\ task[w] \in Messages
        /\ \A v \in Workers : v # w => pc'[v] = pc[v] /\ task'[v] = task[v]
    BY <1>1, <1>2 DEF TypeOK, Steps, Holding, Working
  <1>4. QED
    BY <1>1, <1>2, <1>3, QuietStep DEF TypeOK

\* Stop, Ack and the message kept for another attempt end the execution.
LEMMA EndKeeps ==
  ASSUME IInv, NEW w \in Workers, Ack(w) \/ Stop(w)
  PROVE  IInv'
  <1>1. /\ TypeOK /\ End(w) /\ queue' \subseteq Messages
        /\ UNCHANGED <<source, row, stores, completing, merges>>
    BY DEF IInv, TypeOK, Ack, Stop
  <1>2. /\ pc' \in [Workers -> Steps] /\ task' \in [Workers -> Messages \cup {None}]
        /\ permanent' \in [Workers -> BOOLEAN] /\ pc'[w] = "Idle"
        /\ \A v \in Workers : v # w => pc'[v] = pc[v] /\ task'[v] = task[v]
    BY <1>1 DEF TypeOK, End, Steps
  <1>3. QED
    BY <1>1, <1>2, QuietStep DEF Working

LEMMA DeliverKeeps ==
  ASSUME IInv, NEW w \in Workers, NEW m \in Messages, Deliver(w, m)
  PROVE  IInv'
  <1>1. TypeOK /\ UNCHANGED <<source, row, stores, completing, queue, permanent, merges>>
    BY DEF IInv, Deliver
  <1>2. /\ pc' \in [Workers -> Steps] /\ task' \in [Workers -> Messages \cup {None}]
        /\ pc'[w] = "Claim" /\ task'[w] = m
        /\ \A v \in Workers : v # w => pc'[v] = pc[v] /\ task'[v] = task[v]
    BY <1>1 DEF TypeOK, Deliver, Steps
  <1>3. QED
    BY <1>1, <1>2, QuietStep DEF Working, TypeOK

LEMMA FailKeeps ==
  ASSUME IInv, NEW w \in Workers, Fail(w)
  PROVE  IInv'
  <1>1. TypeOK /\ pc[w] = "Fail" /\ Holding(w) /\ Import(w) \in Imports /\ task[w] \in Messages /\ Message(w) # None
    BY Tasks DEF Fail, IInv, Holding
  <1> SUFFICES ASSUME NEW i \in Imports, i = Import(w) PROVE IInv'
    BY <1>1
  <1>2. /\ row[i] \in ImportRow /\ RowInv(i) /\ MergeInv(i) /\ merges \in [Imports -> Nat]
        /\ UNCHANGED <<source, stores, completing, queue, merges>>
    BY DEF IInv, TypeOK, Fail
  <1>3. CASE row[i].lease # Message(w)
    <2>1. Goto(w, "Ack") /\ UNCHANGED row
      BY <1>3 DEF Fail
    <2>2. QED
      BY <1>1, <1>2, <2>1, QuietStep, GotoType DEF TypeOK, Working, Steps
  <1>4. CASE row[i].lease = Message(w)
    <2>1. row[i].status \notin Terminal /\ HoldsLease(w)
      BY <1>1, <1>2, <1>4 DEF RowInv, Holding, Working
    <2>2. Alone(w, i) /\ row[i].status = "Running"
      BY <1>1, <2>1, Holder DEF Working
    <2>3. CASE ~permanent[w] /\ ~Exhausted(row[i])
      <3>1. /\ row' = [row EXCEPT ![i] = Waiting(row[i])]
            /\ pc' = [pc EXCEPT ![w] = "Idle"] /\ task' = [task EXCEPT ![w] = None] /\ UNCHANGED permanent
        BY <1>4, <2>3 DEF Fail
      <3>2. /\ pc' \in [Workers -> Steps] /\ task' \in [Workers -> Messages \cup {None}]
            /\ permanent' \in [Workers -> BOOLEAN] /\ pc'[w] = "Idle"
            /\ \A v \in Workers : v # w => pc'[v] = pc[v] /\ task'[v] = task[v]
        BY <1>1, <3>1 DEF TypeOK, Steps
      <3>3. row'[i] = Waiting(row[i])
        BY <1>1, <3>1 DEF TypeOK
      <3>4. RowInv(i)' /\ MergeInv(i)'
        BY <1>2, <2>2, <3>3, WaitingRow DEF RowInv, MergeInv, Terminal, Active
      <3>5. Holding(w)' /\ Waiting(row[i]) \in ImportRow
        BY <1>2, <3>2, WaitingRow DEF Holding, Working
      <3>6. QED
        BY <1>1, <1>2, <2>2, <3>1, <3>2, <3>4, <3>5, RowStep DEF Working
    <2>4. CASE ~(~permanent[w] /\ ~Exhausted(row[i]))
      <3>1. Goto(w, "Ack") /\ row' = [row EXCEPT ![i] = Failed(row[i])]
        BY <1>4, <2>4 DEF Fail
      <3>2. row'[i] = Failed(row[i])
        BY <1>1, <3>1 DEF TypeOK
      <3>3. RowInv(i)'
        BY <1>2, <3>2, FailedRow, StatusesApart DEF RowInv
      <3>4. MergeInv(i)'
        BY <1>2, <3>2, FailedRow, StatusesApart DEF MergeInv
      <3>5. Holding(w)' /\ Failed(row[i]) \in ImportRow
        BY <1>1, <1>2, <3>1, FailedRow, GotoType DEF Holding, Working, Steps
      <3>6. QED
        BY <1>1, <1>2, <2>2, <3>1, <3>3, <3>4, <3>5, RowStep, GotoType DEF Working, Steps
    <2>5. QED
      BY <2>3, <2>4
  <1>5. QED
    BY <1>3, <1>4

-----------------------------------------------------------------------------
(* The API, the queue, the schedule and the clock.                         *)

\* A step of these changes only imports no execution works on.
LEMMA OtherKeeps ==
  ASSUME IInv, UNCHANGED <<process, merges, results>>, TypeOK',
         NEW i, \A k \in Imports : k # i => row'[k] = row[k],
         row'[i] = row[i] \/ \A w \in Workers : pc[w] \in Working => Import(w) # i,
         i \in Imports => RowInv(i)' /\ MergeInv(i)'
  PROVE  IInv'
  <1>1. ASSUME NEW k \in Imports PROVE RowInv(k)' /\ MergeInv(k)'
    BY <1>1 DEF IInv, RowInv, MergeInv
  <1>2. ASSUME NEW w \in Workers, pc[w] \in Working
        PROVE  row'[Import(w)] = row[Import(w)]
    BY <1>2, Tasks DEF IInv, Working
  <1>3. ASSUME NEW w \in Workers PROVE Holding(w)'
    BY <1>2, <1>3 DEF IInv, Holding, HoldsLease, Import, Message, process, Working
  <1>4. Solo'
    BY <1>2 DEF IInv, Solo, Import, process
  <1>5. QED
    BY <1>1, <1>3, <1>4 DEF IInv

\* Nobody works on an import that is neither running nor ended.
LEMMA Unattended ==
  ASSUME IInv, NEW i \in Imports, row[i].status \in {"None", "AwaitingUpload", "Queued", "RetryDue"}
  PROVE  \A w \in Workers : pc[w] \in Working => Import(w) # i
  BY DEF IInv, Holding, HoldsLease, Terminal

LEMMA LateKeeps ==
  ASSUME IInv, NEW i \in Imports, NEW late \in BOOLEAN, row[i].status = "AwaitingUpload",
         row' = [row EXCEPT ![i].late = late],
         UNCHANGED <<source, stores, completing, queue, process, merges>>
  PROVE  IInv'
  <1>1. TypeOK /\ row[i] \in ImportRow /\ RowInv(i) /\ MergeInv(i)
    BY DEF IInv, TypeOK
  <1> DEFINE r == [row[i] EXCEPT !.late = late]
  <1>2. row' = [row EXCEPT ![i] = r]
    BY <1>1 DEF TypeOK
  <1>3. r \in ImportRow /\ r.status = row[i].status /\ r.phase = row[i].phase /\ r.lease = row[i].lease
        /\ r.staged = row[i].staged
    BY <1>1 DEF ImportRow
  <1> HIDE DEF r
  <1>4. row' \in [Imports -> ImportRow] /\ row'[i] = r /\ \A k \in Imports : k # i => row'[k] = row[k]
    BY <1>1, <1>2, <1>3 DEF TypeOK
  <1>5. TypeOK'
    BY <1>1, <1>4 DEF TypeOK, stores, process
  <1>6. RowInv(i)' /\ MergeInv(i)'
    BY <1>1, <1>3, <1>4 DEF RowInv, MergeInv, stores
  <1>7. QED
    BY <1>4, <1>5, <1>6, Unattended, OtherKeeps DEF stores

LEMMA CreateKeeps ==
  ASSUME IInv, NEW i \in Imports, Create(i)
  PROVE  IInv'
  <1>1. TypeOK /\ UNCHANGED <<source, stores, completing, queue, process, merges>>
    BY DEF IInv, Create
  <1>2. CASE row[i].status # "None"
    BY <1>1, <1>2, LateKeeps DEF Create
  <1>3. CASE row[i].status = "None"
    <2> DEFINE new == [NoRow EXCEPT !.status = "AwaitingUpload"]
               lapsed(j) == [row[j] EXCEPT !.status = "Expired", !.phase = "Complete"]
    <2>1. row' = [j \in Imports |-> IF j = i THEN new ELSE IF Lapsed(j) THEN lapsed(j) ELSE row[j]]
      BY <1>3 DEF Create
    <2>2. new \in ImportRow /\ new.status = "AwaitingUpload" /\ new.phase = "WaitingForUpload" /\ new.lease = None
          /\ ~new.staged
      BY EmptyRow DEF NoRow, ImportRow, Active
    <2>3. ASSUME NEW j \in Imports
          PROVE  /\ lapsed(j) \in ImportRow /\ lapsed(j).status = "Expired"
                 /\ lapsed(j).lease = row[j].lease /\ lapsed(j).staged = row[j].staged
      BY <1>1 DEF TypeOK, ImportRow, Terminal
    <2> HIDE DEF new, lapsed
    <2>4. TypeOK'
      BY <1>1, <2>1, <2>2, <2>3 DEF TypeOK, stores, process
    <2>5. ASSUME NEW j \in Imports PROVE RowInv(j)' /\ MergeInv(j)'
      <3>1. RowInv(j) /\ MergeInv(j) /\ UNCHANGED <<merges, results>>
        BY <1>1 DEF IInv, stores
      <3>2. CASE j = i
        BY <1>3, <2>1, <2>2, <3>1, <3>2 DEF RowInv, MergeInv, Terminal, Active, Resumable
      <3>3. CASE j # i /\ Lapsed(j)
        BY <2>1, <2>3, <3>1, <3>3 DEF RowInv, MergeInv, Terminal, Active, Resumable, Lapsed
      <3>4. CASE j # i /\ ~Lapsed(j)
        BY <2>1, <3>1, <3>4 DEF RowInv, MergeInv
      <3>5. QED
        BY <3>2, <3>3, <3>4
    <2>6. ASSUME NEW w \in Workers, pc[w] \in Working
          PROVE  row'[Import(w)] = row[Import(w)]
      <3>1. Import(w) \in Imports /\ Holding(w)
        BY <2>6, Tasks DEF IInv, Working
      <3>2. Import(w) # i /\ ~Lapsed(Import(w))
        BY <1>3, <2>6, <3>1, Unattended DEF Lapsed
      <3>3. QED
        BY <2>1, <3>1, <3>2
    <2>7. ASSUME NEW w \in Workers PROVE Holding(w)'
      BY <1>1, <2>6, <2>7 DEF IInv, Holding, HoldsLease, Import, Message, process, stores, Working
    <2>8. Solo'
      BY <1>1, <2>6 DEF IInv, Solo, Import, process
    <2>9. QED
      BY <2>4, <2>5, <2>7, <2>8 DEF IInv
  <1>4. QED
    BY <1>2, <1>3

LEMMA CommitKeeps ==
  ASSUME IInv, NEW i \in Imports, CompleteCommit(i)
  PROVE  IInv'
  <1>1. /\ TypeOK /\ row[i] \in ImportRow /\ RowInv(i) /\ MergeInv(i)
        /\ UNCHANGED <<source, stores, process, merges>> /\ completing' \subseteq Imports
    BY DEF IInv, TypeOK, CompleteCommit
  <1>2. CASE row[i].status = "AwaitingUpload"
    <2> DEFINE r == [row[i] EXCEPT !.status = "Queued", !.phase = "Queued", !.due = TRUE]
    <2>1. row' = [row EXCEPT ![i] = r] /\ queue' \subseteq Messages
      <3>1. row' = [row EXCEPT ![i] = r]
        BY <1>1, <1>2 DEF CompleteCommit, TypeOK
      <3>2. ASSUME NEW id \in MessageIds PROVE <<i, id>> \in Messages
        BY DEF Messages
      <3>3. (\E id \in MessageIds : queue' = queue \cup {<<i, id>>}) \/ UNCHANGED queue
        BY <1>2 DEF CompleteCommit
      <3>4. QED
        BY <1>1, <3>1, <3>2, <3>3 DEF TypeOK
    <2>2. r \in ImportRow /\ r.status = "Queued" /\ r.phase = "Queued"
      BY <1>1 DEF ImportRow, Active
    <2> HIDE DEF r
    <2>3. row' \in [Imports -> ImportRow] /\ row'[i] = r /\ \A k \in Imports : k # i => row'[k] = row[k]
      BY <1>1, <2>1, <2>2 DEF TypeOK
    <2>4. TypeOK'
      BY <1>1, <2>1, <2>3 DEF TypeOK, stores, process
    <2>5. RowInv(i)' /\ MergeInv(i)'
      BY <1>1, <1>2, <2>2, <2>3 DEF RowInv, MergeInv, Terminal, Active, Resumable
    <2>6. QED
      BY <1>1, <1>2, <2>3, <2>4, <2>5, Unattended, OtherKeeps DEF stores
  <1>3. CASE row[i].status # "AwaitingUpload"
    <2>1. UNCHANGED <<row, queue>>
      BY <1>3 DEF CompleteCommit
    <2>2. TypeOK' /\ RowInv(i)' /\ MergeInv(i)'
      BY <1>1, <2>1 DEF TypeOK, RowInv, MergeInv, stores, process
    <2>3. QED
      BY <1>1, <2>1, <2>2, OtherKeeps DEF stores
  <1>4. QED
    BY <1>2, <1>3

LEMMA ClockKeeps ==
  ASSUME IInv, NEW i \in Imports, LeaseExpires(i) \/ RetryComesDue(i)
  PROVE  IInv'
  <1>1. /\ TypeOK /\ row[i] \in ImportRow /\ RowInv(i) /\ MergeInv(i)
        /\ UNCHANGED <<source, stores, completing, queue, process, merges>>
    BY DEF IInv, TypeOK, LeaseExpires, RetryComesDue
  <1>2. PICK r \in ImportRow :
          /\ row' = [row EXCEPT ![i] = r]
          /\ r.status = row[i].status /\ r.phase = row[i].phase /\ r.lease = row[i].lease /\ r.staged = row[i].staged
    <2>1. CASE LeaseExpires(i)
      <3> DEFINE r == [row[i] EXCEPT !.live = FALSE]
      <3>1. row' = [row EXCEPT ![i] = r]
        BY <1>1, <2>1 DEF LeaseExpires, TypeOK
      <3>2. /\ r \in ImportRow /\ r.status = row[i].status /\ r.phase = row[i].phase
            /\ r.lease = row[i].lease /\ r.staged = row[i].staged
        BY <1>1 DEF ImportRow
      <3>3. QED
        BY <3>1, <3>2
    <2>2. CASE RetryComesDue(i)
      <3> DEFINE r == [row[i] EXCEPT !.due = TRUE]
      <3>1. row' = [row EXCEPT ![i] = r]
        BY <1>1, <2>2 DEF RetryComesDue, TypeOK
      <3>2. /\ r \in ImportRow /\ r.status = row[i].status /\ r.phase = row[i].phase
            /\ r.lease = row[i].lease /\ r.staged = row[i].staged
        BY <1>1 DEF ImportRow
      <3>3. QED
        BY <3>1, <3>2
    <2>3. QED
      BY <2>1, <2>2
  <1>3. row' \in [Imports -> ImportRow] /\ row'[i] = r /\ \A k \in Imports : k # i => row'[k] = row[k]
    BY <1>1, <1>2 DEF TypeOK
  <1>4. TypeOK'
    BY <1>1, <1>3 DEF TypeOK, stores, process
  <1>5. RowInv(i)' /\ MergeInv(i)'
    BY <1>1, <1>2, <1>3 DEF RowInv, MergeInv, stores
  <1>6. \A w \in Workers : pc[w] \in Working => Import(w) # i
    <2>1. CASE LeaseExpires(i)
      <3> SUFFICES ASSUME NEW w \in Workers, pc[w] \in Working, Import(w) = i PROVE FALSE
        OBVIOUS
      <3>1. task[w] = <<i, Message(w)>> /\ HoldsLease(w)
        BY <2>1, Tasks DEF IInv, Holding, LeaseExpires, Working, Terminal
      <3>2. QED
        BY <2>1, <3>1 DEF LeaseExpires, Outlived, HoldsLease, Working
    <2>2. CASE RetryComesDue(i)
      BY <2>2, Unattended DEF RetryComesDue
    <2>3. QED
      BY <2>1, <2>2
  <1>7. QED
    BY <1>1, <1>3, <1>4, <1>5, <1>6, OtherKeeps DEF stores

\* The steps that change no row.
LEMMA RestKeeps ==
  ASSUME IInv, UNCHANGED <<row, results, process, merges>>, source' \in {"Active", "NoSource", "NoOwner"},
         manifests' \subseteq Imports, completing' \subseteq Imports, queue' \subseteq Messages
  PROVE  IInv'
  <1>1. TypeOK'
    BY DEF IInv, TypeOK, process
  <1>2. ASSUME NEW k \in Imports PROVE RowInv(k)' /\ MergeInv(k)'
    BY <1>2 DEF IInv, RowInv, MergeInv
  <1>3. QED
    BY <1>1, <1>2, OtherKeeps

LEMMA StepInv == IInv /\ [Next]_vars => IInv'
  <1> SUFFICES ASSUME IInv, [Next]_vars PROVE IInv'
    OBVIOUS
  <1>0. TypeOK
    BY DEF IInv
  <1>1. ASSUME NEW i \in Imports, Create(i) \/ RefreshUpload(i) \/ UploadLapses(i) PROVE IInv'
    BY <1>1, CreateKeeps, LateKeeps DEF RefreshUpload, UploadLapses
  <1>2. ASSUME NEW i \in Imports, PutManifest(i) \/ CompleteHead(i) \/ CompleteAbort(i) PROVE IInv'
    BY <1>0, <1>2, RestKeeps DEF PutManifest, CompleteHead, CompleteAbort, TypeOK, stores
  <1>3. ASSUME NEW i \in Imports, CompleteCommit(i) \/ LeaseExpires(i) \/ RetryComesDue(i) PROVE IInv'
    BY <1>3, CommitKeeps, ClockKeeps
  <1>4. ASSUME NEW i \in Imports, NEW id \in MessageIds, Recover(i, id) PROVE IInv'
    BY <1>0, <1>4, RestKeeps DEF Recover, TypeOK, stores, Messages
  <1>5. ASSUME NEW m \in Messages, Lose(m) PROVE IInv'
    BY <1>0, <1>5, RestKeeps DEF Lose, TypeOK, stores
  <1>6. CASE LoseSource
    BY <1>0, <1>6, RestKeeps DEF LoseSource, TypeOK, stores
  <1>7. ASSUME NEW w \in Workers, Handle(w) \/ Err(w) \/ Stop(w) PROVE IInv'
    BY <1>7, ClaimKeeps, LoadKeeps, StartKeeps, MergeKeeps, WriteKeeps, UploadKeeps, CompleteKeeps,
       FailKeeps, ErrKeeps, EndKeeps DEF Handle
  <1>8. ASSUME NEW w \in Workers, NEW m \in Messages, Deliver(w, m) PROVE IInv'
    BY <1>8, DeliverKeeps
  <1>9. CASE UNCHANGED vars
    BY <1>0, <1>9, RestKeeps DEF vars, stores, TypeOK
  <1>10. QED
    BY <1>1, <1>2, <1>3, <1>4, <1>5, <1>6, <1>7, <1>8, <1>9 DEF Next

\* What executions hold and what the columns of an import say together is so
\* in every reachable state.
THEOREM ImportsInvariant == Spec => []IInv
  BY InitInv, StepInv, PTL DEF Spec

\* Every column, message and program counter keeps its type; attempts never
\* pass MaxAttempts (claim).
THEOREM TypeCorrect == Spec => []TypeOK
  <1>1. IInv => TypeOK
    BY DEF IInv
  <1>2. QED
    BY <1>1, ImportsInvariant, PTL

\* A manifest is merged into the catalogue at most once, however often its
\* message is delivered and wherever executions die (_require_lease, the
\* phases of load_stage and merge).
THEOREM MergedAtMostOnce == Spec => []MergedOnce
  <1>1. IInv => MergedOnce
    BY DEF IInv, MergeInv, MergedOnce
  <1>2. QED
    BY <1>1, ImportsInvariant, PTL

\* An import that resumes behind the download finds its rows, one that ended
\* has none (claim, fail, complete_result).
THEOREM StagedRowsKept == Spec => []StagedKept
  <1>1. IInv => StagedKept
    BY DEF IInv, RowInv, StagedKept
  <1>2. QED
    BY <1>1, ImportsInvariant, PTL

\* A client told of success finds a result, and it is of a merge that was
\* committed (upload_result, complete_result).
THEOREM SuccessIsBacked == Spec => []ResultBacked
  <1>1. IInv => ResultBacked
    BY DEF IInv, MergeInv, ResultBacked
  <1>2. QED
    BY <1>1, ImportsInvariant, PTL

-----------------------------------------------------------------------------
(* ManifestImport implements ImportPromise.                                *)

LEMMA ToldOf ==
  /\ \A s \in {"Queued", "Running", "RetryDue"} : Told(s) = "Working"
  /\ Told("FailedPermanent") = "Failed"
  /\ \A s \in {"None", "AwaitingUpload", "Succeeded", "Expired"} : Told(s) = s
  BY DEF Told

\* Steps a client is told nothing of.
LEMMA ToldNothing ==
  ASSUME UNCHANGED merges, \A j \in Imports : Told(row'[j].status) = Told(row[j].status)
  PROVE  UNCHANGED Promise!promised
  BY DEF Promise!promised

\* Steps that change what a client is told of one import.
LEMMA ToldOne ==
  ASSUME NEW i \in Imports, NEW from, NEW to, UNCHANGED merges,
         Told(row[i].status) = from, Told(row'[i].status) = to,
         \A j \in Imports : j # i => row'[j] = row[j]
  PROVE  Promise!Become(i, from, to)
  BY DEF Promise!Become

\* A step of the lease's holder other than the merge and the end.
LEMMA HolderTells ==
  ASSUME TypeOK, NEW w \in Workers, NEW i \in Imports, i = Import(w), UNCHANGED merges,
         NEW step, NEW phases, NEW change, NEW next, Advance(w, step, phases, change, next),
         change.status = row[i].status
  PROVE  UNCHANGED Promise!promised
  <1>1. row' = row \/ row' = [row EXCEPT ![i] = change]
    BY DEF Advance
  <1>2. ASSUME NEW j \in Imports PROVE Told(row'[j].status) = Told(row[j].status)
    BY <1>1, <1>2 DEF TypeOK
  <1>3. QED
    BY <1>2, ToldNothing

LEMMA WorkerTells ==
  ASSUME IInv, NEW w \in Workers, Handle(w)
  PROVE  [Promise!Next]_Promise!promised
  <1>0. TypeOK /\ Holding(w) /\ (pc[w] # "Idle" => Import(w) \in Imports)
    BY Tasks DEF IInv
  <1>1. pc[w] # "Idle"
    BY DEF Handle, Claim, Load, Start, Merge, Write, Upload, Complete, Fail, Ack, Advance
  <1> SUFFICES ASSUME NEW i \in Imports, i = Import(w) PROVE [Promise!Next]_Promise!promised
    BY <1>0, <1>1
  <1>2. row[i] \in ImportRow /\ RowInv(i) /\ MergeInv(i)
    BY DEF IInv, TypeOK
  <1>3. ASSUME row[i].status \in {"Queued", "RetryDue", "Running"}, row' = [row EXCEPT ![i] = Failed(row[i])],
               UNCHANGED merges
        PROVE  Promise!Fail(i)
    <2>1. row'[i].status = "FailedPermanent" /\ \A j \in Imports : j # i => row'[j] = row[j]
      BY <1>0, <1>2, <1>3, FailedRow DEF TypeOK
    <2>2. Promise!Become(i, "Working", "Failed")
      BY <1>3, <2>1, ToldOf, ToldOne
    <2>3. QED
      BY <2>2 DEF Promise!Fail
  <1>4. CASE UNCHANGED <<row, merges>>
    BY <1>4, ToldNothing
  <1>5. CASE Claim(w)
    <2>1. CASE UNCHANGED row
      BY <1>4, <1>5, <2>1 DEF Claim
    <2>2. CASE Claimable(row[i]) /\ row' = [row EXCEPT ![i] = Failed(row[i])]
      BY <1>3, <1>5, <2>2 DEF Claim, Claimable, Promise!Next
    <2> DEFINE r == [row[i] EXCEPT !.status = "Running", !.phase = ResumeAt(row[i].phase),
                                   !.attempts = row[i].attempts + 1, !.lease = Message(w), !.live = TRUE]
    <2>3. CASE Claimable(row[i]) /\ row' = [row EXCEPT ![i] = r]
      <3>1. r.status = "Running"
        BY <1>2 DEF ImportRow
      <3> HIDE DEF r
      <3>2. row'[i].status = "Running" /\ \A j \in Imports : j # i => row'[j] = row[j]
        BY <1>0, <2>3, <3>1 DEF TypeOK
      <3>3. Told(row'[i].status) = Told(row[i].status)
        BY <2>3, <3>2, ToldOf DEF Claimable
      <3>4. UNCHANGED merges /\ \A j \in Imports : Told(row'[j].status) = Told(row[j].status)
        BY <1>5, <3>2, <3>3 DEF Claim
      <3>5. QED
        BY <3>4, ToldNothing
    <2>4. QED
      BY <1>5, <2>1, <2>2, <2>3 DEF Claim
  <1>6. CASE Load(w)
    <2> DEFINE r == [row[i] EXCEPT !.phase = "Staged", !.staged = TRUE]
    <2>1. Advance(w, "Load", AnyPhase, r, "Start") /\ UNCHANGED merges /\ r.status = row[i].status
      BY <1>2, <1>6 DEF Load, ImportRow
    <2> HIDE DEF r
    <2>2. QED
      BY <1>0, <2>1, HolderTells
  <1>7. CASE Start(w)
    <2> DEFINE r == [row[i] EXCEPT !.phase = "Merging"]
    <2>1. Advance(w, "Start", {"Staged", "Merging"}, r, "Merge") /\ UNCHANGED merges /\ r.status = row[i].status
      BY <1>2, <1>7 DEF Start, ImportRow
    <2> HIDE DEF r
    <2>2. QED
      BY <1>0, <2>1, HolderTells
  <1>8. CASE Write(w)
    <2> DEFINE r == [row[i] EXCEPT !.phase = "WritingResult"]
    <2>1. Advance(w, "Write", {"Merged", "WritingResult"}, r, "Upload") /\ UNCHANGED merges /\ r.status = row[i].status
      BY <1>2, <1>8 DEF Write, ImportRow
    <2> HIDE DEF r
    <2>2. QED
      BY <1>0, <2>1, HolderTells
  <1>9. CASE Upload(w) \/ Ack(w)
    BY <1>4, <1>9 DEF Upload, Ack
  <1>10. CASE Complete(w)
    <2> DEFINE phases == {"Merged", "WritingResult"}
               r == [row[i] EXCEPT !.status = "Succeeded", !.phase = "Complete", !.lease = None,
                                   !.live = FALSE, !.due = FALSE, !.staged = FALSE]
    <2>1. Advance(w, "Complete", phases, r, "Ack") /\ UNCHANGED merges
      BY <1>10 DEF Complete
    <2>2. CASE HoldsLease(w) /\ row[i].phase \in phases
      <3>1. row' = [row EXCEPT ![i] = r] /\ r.status = "Succeeded"
        BY <1>2, <2>1, <2>2 DEF Advance, ImportRow
      <3> HIDE DEF r
      <3>2. row'[i].status = "Succeeded" /\ \A j \in Imports : j # i => row'[j] = row[j]
        BY <1>0, <3>1 DEF TypeOK
      <3>3. row[i].status = "Running" /\ merges[i] = 1
        BY <1>2, <2>2 DEF HoldsLease, MergeInv, Terminal
      <3>4. Promise!Become(i, "Working", "Succeeded")
        BY <2>1, <3>2, <3>3, ToldOf, ToldOne
      <3>5. QED
        BY <3>3, <3>4 DEF Promise!Succeed, Promise!Next
    <2>3. CASE ~(HoldsLease(w) /\ row[i].phase \in phases)
      BY <1>4, <2>1, <2>3 DEF Advance
    <2>4. QED
      BY <2>2, <2>3
  <1>11. CASE Merge(w)
    <2> DEFINE phases == {"Staged", "Merging"}
               r == [row[i] EXCEPT !.phase = "Merged"]
    <2>1. CASE source # "Active"
      BY <1>4, <1>11, <2>1 DEF Merge, Advance
    <2>2. CASE source = "Active"
      <3>1. /\ Advance(w, "Merge", phases, r, "Write")
            /\ IF pc'[w] = "Write" THEN merges' = [merges EXCEPT ![i] = merges[i] + 1] ELSE UNCHANGED merges
        BY <1>11, <2>2 DEF Merge
      <3>2. pc'[w] = "Write" <=> HoldsLease(w) /\ row[i].phase \in phases
        BY <1>0, <3>1 DEF Advance, Goto, TypeOK
      <3>3. CASE HoldsLease(w) /\ row[i].phase \in phases
        <4>1. row' = [row EXCEPT ![i] = r] /\ r.status = row[i].status
          BY <1>2, <3>1, <3>3 DEF Advance, ImportRow
        <4>2. row[i].status = "Running" /\ merges[i] = 0
          BY <1>2, <3>3 DEF HoldsLease, MergeInv, Terminal
        <4>3. merges' = [merges EXCEPT ![i] = 1]
          BY <3>1, <3>2, <3>3, <4>2
        <4> HIDE DEF r
        <4>4. ASSUME NEW j \in Imports PROVE row'[j].status = row[j].status
          BY <1>0, <4>1, <4>4 DEF TypeOK
        <4>5. Promise!Merge(i)
          BY <4>2, <4>3, <4>4, ToldOf DEF Promise!Merge
        <4>6. QED
          BY <4>5 DEF Promise!Next
      <3>4. CASE ~(HoldsLease(w) /\ row[i].phase \in phases)
        BY <1>4, <3>1, <3>2, <3>4 DEF Advance
      <3>5. QED
        BY <3>3, <3>4
    <2>3. QED
      BY <2>1, <2>2
  <1>12. CASE Fail(w)
    <2>1. CASE row[i].lease # Message(w)
      BY <1>4, <1>12, <2>1 DEF Fail
    <2>2. CASE row[i].lease = Message(w)
      <3>1. row[i].status = "Running" /\ UNCHANGED merges
        <4>1. pc[w] = "Fail" /\ Message(w) # None /\ UNCHANGED merges
          BY <1>0, <1>1, <1>12, Tasks DEF Fail
        <4>2. QED
          BY <1>0, <1>2, <2>2, <4>1 DEF RowInv, Holding, HoldsLease, Working
      <3>2. CASE row' = [row EXCEPT ![i] = Waiting(row[i])]
        <4>1. row'[i].status = "RetryDue" /\ \A j \in Imports : j # i => row'[j] = row[j]
          BY <1>0, <1>2, <3>2, WaitingRow DEF TypeOK
        <4>2. \A j \in Imports : Told(row'[j].status) = Told(row[j].status)
          BY <3>1, <4>1, ToldOf
        <4>3. QED
          BY <3>1, <4>2, ToldNothing
      <3>3. CASE row' = [row EXCEPT ![i] = Failed(row[i])]
        BY <1>3, <3>1, <3>3 DEF Promise!Next
      <3>4. QED
        BY <1>12, <2>2, <3>2, <3>3 DEF Fail
    <2>3. QED
      BY <2>1, <2>2
  <1>13. QED
    BY <1>5, <1>6, <1>7, <1>8, <1>9, <1>10, <1>11, <1>12 DEF Handle

LEMMA CreateTells ==
  ASSUME IInv, NEW i \in Imports, Create(i)
  PROVE  [Promise!Next]_Promise!promised
  <1>1. TypeOK /\ UNCHANGED merges
    BY DEF IInv, Create
  <1>2. CASE row[i].status # "None"
    <2>1. \A j \in Imports : row'[j].status = row[j].status
      BY <1>1, <1>2 DEF Create, TypeOK, ImportRow
    <2>2. QED
      BY <1>1, <2>1, ToldNothing
  <1>3. CASE row[i].status = "None"
    <2>1. /\ row'[i].status = "AwaitingUpload"
          /\ \A j \in Imports : row[j].status \in Active => Lapsed(j)
          /\ \A j \in Imports : j # i /\ Lapsed(j) => row'[j].status = "Expired"
          /\ \A j \in Imports : j # i /\ ~Lapsed(j) => row'[j].status = row[j].status
          /\ DOMAIN row' = Imports
      BY <1>1, <1>3 DEF Create, TypeOK, ImportRow, NoRow
    <2>2. ASSUME NEW j \in Imports
          PROVE  /\ Told(row[j].status) # "Working"
                 /\ Told(row[j].status) = "AwaitingUpload" <=> Lapsed(j)
      <3>1. row[j].status \in Active \cup Terminal \cup {"None"}
        BY <1>1 DEF TypeOK, ImportRow
      <3>2. QED
        BY <2>1, <3>1, ToldOf DEF Lapsed, Active, Terminal
    <2>3. Told(row[i].status) = "None" /\ Told(row'[i].status) = "AwaitingUpload"
      BY <1>3, <2>1, ToldOf
    <2>4. ASSUME NEW j \in Imports, j # i
          PROVE  Told(row'[j].status) = IF Told(row[j].status) = "AwaitingUpload" THEN "Expired" ELSE Told(row[j].status)
      BY <2>1, <2>2, <2>4, ToldOf
    <2>5. Promise!Create(i)
      BY <1>1, <2>2, <2>3, <2>4 DEF Promise!Create
    <2>6. QED
      BY <2>5 DEF Promise!Next
  <1>4. QED
    BY <1>2, <1>3

LEMMA CommitTells ==
  ASSUME IInv, NEW i \in Imports, CompleteCommit(i)
  PROVE  [Promise!Next]_Promise!promised
  <1>1. TypeOK /\ UNCHANGED merges /\ row[i] \in ImportRow
    BY DEF IInv, CompleteCommit, TypeOK
  <1>2. CASE row[i].status # "AwaitingUpload"
    BY <1>1, <1>2, ToldNothing DEF CompleteCommit
  <1>3. CASE row[i].status = "AwaitingUpload"
    <2>1. row'[i].status = "Queued" /\ \A j \in Imports : j # i => row'[j] = row[j]
      BY <1>1, <1>3 DEF CompleteCommit, TypeOK, ImportRow
    <2>2. Promise!Become(i, "AwaitingUpload", "Working")
      BY <1>1, <1>3, <2>1, ToldOf, ToldOne
    <2>3. QED
      BY <2>2 DEF Promise!Submit, Promise!Next
  <1>4. QED
    BY <1>2, <1>3

LEMMA StepTells == IInv /\ [Next]_vars => [Promise!Next]_Promise!promised
  <1> SUFFICES ASSUME IInv, [Next]_vars PROVE [Promise!Next]_Promise!promised
    OBVIOUS
  <1>0. TypeOK
    BY DEF IInv
  <1>1. ASSUME NEW i \in Imports, Create(i) \/ CompleteCommit(i) PROVE [Promise!Next]_Promise!promised
    BY <1>1, CreateTells, CommitTells
  <1>2. ASSUME NEW i \in Imports, RefreshUpload(i) \/ LeaseExpires(i) \/ RetryComesDue(i) \/ UploadLapses(i)
        PROVE  [Promise!Next]_Promise!promised
    <2>1. UNCHANGED merges /\ \A j \in Imports : row'[j].status = row[j].status
      BY <1>0, <1>2 DEF RefreshUpload, LeaseExpires, RetryComesDue, UploadLapses, TypeOK, ImportRow
    <2>2. QED
      BY <2>1, ToldNothing
  <1>3. ASSUME NEW w \in Workers, Handle(w) PROVE [Promise!Next]_Promise!promised
    BY <1>3, WorkerTells
  <1>4. CASE UNCHANGED <<row, merges>>
    BY <1>4, ToldNothing
  <1>5. QED
    BY <1>1, <1>2, <1>3, <1>4
    DEF Next, vars, PutManifest, CompleteHead, CompleteAbort, Recover, Err, Stop, Deliver, Lose, LoseSource

\* The service keeps its promise to the client: every step is one the client
\* may count on or says nothing to it.
THEOREM ImportsKeepPromise == Spec => PromiseKept
  <1>1. Init => Promise!Init
    BY ToldOf DEF Init, NoRow, Promise!Init
  <1>2. QED
    BY <1>1, ImportsInvariant, StepTells, PTL DEF Spec, PromiseKept, Promise!Spec
=============================================================================
