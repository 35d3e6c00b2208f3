-------------------------- MODULE ManifestSyncProofs --------------------------
(***************************************************************************)
(* Theorems about ManifestSync, for every finite set of files and batches, *)
(* every set of imports, and every number of revisions and edits.          *)
(***************************************************************************)
EXTENDS ManifestSync, Folding, SequenceTheorems

-----------------------------------------------------------------------------
(* The outbox as the set of its batches.                                   *)

Of(q)   == {q[n] : n \in DOMAIN q}
OneId(q) == \A m, n \in DOMAIN q : q[m].id = q[n].id => m = n
Queue(q) == q \in Seq(Batch) /\ OneId(q)

LEMMA RemovedIs ==
  ASSUME NEW S, NEW q \in Seq(S), NEW n \in DOMAIN q
  PROVE  /\ RemoveAt(q, n) \in Seq(S) /\ Len(RemoveAt(q, n)) = Len(q) - 1
         /\ \A k \in 1..(Len(q) - 1) : RemoveAt(q, n)[k] = IF k < n THEN q[k] ELSE q[k + 1]
  <1> DEFINE a == SubSeq(q, 1, n - 1)
             c == SubSeq(q, n + 1, Len(q))
             l == Len(q)
  <1>1. l \in Nat /\ n \in 1..l /\ \A i \in 1..l : q[i] \in S
    OBVIOUS
  <1>2. a \in Seq(S) /\ Len(a) = n - 1 /\ \A i \in 1..(n - 1) : a[i] = q[i]
    BY <1>1, SubSeqProperties
  <1>3. c \in Seq(S) /\ Len(c) = l - n /\ \A i \in 1..(l - n) : c[i] = q[n + i]
    <2>1. \A i \in (n + 1)..l : q[i] \in S
      BY <1>1
    <2>2. /\ c \in Seq(S) /\ Len(c) = IF n + 1 <= l THEN l - (n + 1) + 1 ELSE 0
          /\ \A i \in 1..(l - (n + 1) + 1) : c[i] = q[n + 1 + i - 1]
      BY <1>1, <2>1, SubSeqProperties
    <2>3. QED
      BY <1>1, <2>2
  <1> HIDE DEF a, c, l
  <1>j. /\ a \o c \in Seq(S) /\ Len(a \o c) = Len(a) + Len(c)
        /\ \A i \in 1..(Len(a) + Len(c)) : (a \o c)[i] = IF i <= Len(a) THEN a[i] ELSE c[i - Len(a)]
    BY <1>2, <1>3, ConcatProperties
  <1>4. a \o c \in Seq(S) /\ Len(a \o c) = l - 1
    BY <1>1, <1>2, <1>3, <1>j
  <1>5. \A k \in 1..(l - 1) : (a \o c)[k] = IF k < n THEN q[k] ELSE q[k + 1]
    <2> SUFFICES ASSUME NEW k \in 1..(l - 1) PROVE (a \o c)[k] = IF k < n THEN q[k] ELSE q[k + 1]
      OBVIOUS
    <2>1. (a \o c)[k] = IF k <= n - 1 THEN a[k] ELSE c[k - (n - 1)]
      <3>1. \A i \in 1..((n - 1) + (l - n)) : (a \o c)[i] = IF i <= n - 1 THEN a[i] ELSE c[i - (n - 1)]
        BY <1>2, <1>3, <1>j, Zenon
      <3>2. (n - 1) + (l - n) = l - 1
        BY <1>1
      <3>3. QED
        BY <3>1, <3>2
    <2>2. CASE k < n
      BY <1>1, <1>2, <2>1, <2>2
    <2>3. CASE ~(k < n)
      <3>1. k - (n - 1) \in 1..(l - n) /\ n + (k - (n - 1)) = k + 1
        BY <1>1, <2>3
      <3>2. QED
        BY <1>1, <1>3, <2>1, <2>3, <3>1
    <2>4. QED
      BY <2>2, <2>3
  <1>6. QED
    BY <1>4, <1>5 DEF RemoveAt, a, c, l

LEMMA RemovedQueue ==
  ASSUME NEW q, Queue(q), NEW n \in DOMAIN q
  PROVE  Queue(RemoveAt(q, n)) /\ Of(RemoveAt(q, n)) = Of(q) \ {q[n]}
  <1> DEFINE u == RemoveAt(q, n)
  <1>1. /\ q \in Seq(Batch) /\ Len(q) \in Nat /\ DOMAIN q = 1..Len(q) /\ n \in 1..Len(q)
    BY DEF Queue
  <1>a. /\ u \in Seq(Batch) /\ Len(u) = Len(q) - 1
        /\ \A k \in 1..(Len(q) - 1) : u[k] = IF k < n THEN q[k] ELSE q[k + 1]
    BY <1>1, RemovedIs
  <1> HIDE DEF u
  <1>2. /\ u \in Seq(Batch) /\ Len(u) = Len(q) - 1 /\ DOMAIN u = 1..(Len(q) - 1)
        /\ \A k \in 1..(Len(q) - 1) : u[k] = IF k < n THEN q[k] ELSE q[k + 1]
    BY <1>a
  <1>3. \A j, k \in DOMAIN q : q[j].id = q[k].id => j = k
    BY DEF Queue, OneId
  <1>4. OneId(u)
    <2> SUFFICES ASSUME NEW j \in DOMAIN u, NEW k \in DOMAIN u, u[j].id = u[k].id PROVE j = k
      BY DEF OneId
    <2>1. j \in 1..(Len(q) - 1) /\ k \in 1..(Len(q) - 1)
      BY <1>2
    <2>2. PICK jj \in 1..Len(q) : u[j] = q[jj] /\ jj = IF j < n THEN j ELSE j + 1
      BY <1>1, <1>2, <2>1
    <2>3. PICK kk \in 1..Len(q) : u[k] = q[kk] /\ kk = IF k < n THEN k ELSE k + 1
      BY <1>1, <1>2, <2>1
    <2>4. jj = kk
      BY <1>1, <1>3, <2>2, <2>3
    <2>5. QED
      BY <1>1, <2>1, <2>2, <2>3, <2>4
  <1>5. Of(u) = Of(q) \ {q[n]}
    <2>1. ASSUME NEW k \in DOMAIN u PROVE u[k] \in Of(q) \ {q[n]}
      <3>1. PICK kk \in 1..Len(q) : u[k] = q[kk] /\ kk # n
        BY <1>1, <1>2
      <3>2. q[kk] # q[n]
        BY <1>1, <1>3, <3>1
      <3>3. QED
        BY <1>1, <3>1, <3>2 DEF Of
    <2>2. ASSUME NEW k \in DOMAIN q, q[k] # q[n] PROVE \E j \in DOMAIN u : u[j] = q[k]
      <3>1. k # n
        BY <2>2
      <3>2. CASE k < n
        <4>1. k \in 1..(Len(q) - 1)
          BY <1>1, <3>2
        <4>2. QED
          BY <1>2, <3>2, <4>1
      <3>3. CASE k > n
        <4>1. k - 1 \in 1..(Len(q) - 1) /\ ~(k - 1 < n) /\ k - 1 + 1 = k
          BY <1>1, <3>3
        <4>2. QED
          BY <1>2, <4>1
      <3>4. QED
        BY <1>1, <3>1, <3>2, <3>3
    <2>3. QED
      BY <2>1, <2>2 DEF Of
  <1>6. QED
    BY <1>2, <1>4, <1>5 DEF Queue, u

\* A batch in the place of one of the same number.
LEMMA ReplacedQueue ==
  ASSUME NEW q, Queue(q), NEW n \in DOMAIN q, NEW b \in Batch, b.id = q[n].id,
         NEW u \in Seq(Batch), DOMAIN u = DOMAIN q, \A k \in DOMAIN q : u[k] = IF k = n THEN b ELSE q[k]
  PROVE  Queue(u) /\ Of(u) = (Of(q) \ {q[n]}) \cup {b}
  <1>1. \A j, k \in DOMAIN q : q[j].id = q[k].id => j = k
    BY DEF Queue, OneId
  <1>2. OneId(u)
    BY <1>1 DEF OneId
  <1>3. \A k \in DOMAIN q : k # n => q[k] # q[n]
    BY <1>1
  <1>4. Of(u) = (Of(q) \ {q[n]}) \cup {b}
    BY <1>3 DEF Of
  <1>5. QED
    BY <1>2, <1>4 DEF Queue

LEMMA JoinedQueue ==
  ASSUME NEW q, Queue(q), NEW u, Queue(u), \A b \in Of(q), c \in Of(u) : b.id # c.id
  PROVE  Queue(q \o u) /\ Of(q \o u) = Of(q) \cup Of(u)
  <1> DEFINE v == q \o u
  <1>1. /\ q \in Seq(Batch) /\ Len(q) \in Nat /\ DOMAIN q = 1..Len(q)
        /\ u \in Seq(Batch) /\ Len(u) \in Nat /\ DOMAIN u = 1..Len(u)
    BY DEF Queue
  <1>2. /\ v \in Seq(Batch) /\ Len(v) = Len(q) + Len(u) /\ DOMAIN v = 1..(Len(q) + Len(u))
    BY <1>1
  <1>3. \A k \in 1..(Len(q) + Len(u)) : v[k] = IF k <= Len(q) THEN q[k] ELSE u[k - Len(q)]
    BY <1>1
  <1> HIDE DEF v
  <1>4. \A k \in DOMAIN q : k \in DOMAIN v /\ v[k] = q[k]
    BY <1>1, <1>2, <1>3
  <1>5. \A k \in DOMAIN u : Len(q) + k \in DOMAIN v /\ v[Len(q) + k] = u[k]
    <2> SUFFICES ASSUME NEW k \in DOMAIN u PROVE Len(q) + k \in DOMAIN v /\ v[Len(q) + k] = u[k]
      OBVIOUS
    <2>1. Len(q) + k \in 1..(Len(q) + Len(u)) /\ ~(Len(q) + k <= Len(q)) /\ Len(q) + k - Len(q) = k
      BY <1>1
    <2>2. QED
      BY <1>2, <1>3, <2>1
  <1>6. \A k \in DOMAIN v : \/ k \in DOMAIN q /\ v[k] = q[k]
                            \/ \E j \in DOMAIN u : k = Len(q) + j /\ v[k] = u[j]
    <2> SUFFICES ASSUME NEW k \in DOMAIN v, k \notin DOMAIN q PROVE \E j \in DOMAIN u : k = Len(q) + j /\ v[k] = u[j]
      BY <1>4
    <2>1. k - Len(q) \in DOMAIN u /\ k = Len(q) + (k - Len(q)) /\ v[k] = u[k - Len(q)]
      BY <1>1, <1>2, <1>3
    <2>2. QED
      BY <2>1
  <1>7. Of(v) = Of(q) \cup Of(u)
    BY <1>4, <1>5, <1>6 DEF Of
  <1>8. OneId(v)
    <2> SUFFICES ASSUME NEW j \in DOMAIN v, NEW k \in DOMAIN v, v[j].id = v[k].id PROVE j = k
      BY DEF OneId
    <2>1. \A m \in DOMAIN q, n \in DOMAIN u : q[m].id # u[n].id
      BY DEF Of
    <2>2. CASE j \in DOMAIN q /\ v[j] = q[j]
      <3>1. k \in DOMAIN q /\ v[k] = q[k]
        BY <1>6, <2>1, <2>2
      <3>2. QED
        BY <2>2, <3>1 DEF Queue, OneId
    <2>3. ASSUME NEW m \in DOMAIN u, j = Len(q) + m, v[j] = u[m] PROVE j = k
      <3>1. PICK n \in DOMAIN u : k = Len(q) + n /\ v[k] = u[n]
        BY <1>6, <2>1, <2>3
      <3>2. m = n
        BY <2>3, <3>1 DEF Queue, OneId
      <3>3. QED
        BY <2>3, <3>1, <3>2
    <2>4. QED
      BY <1>6, <2>2, <2>3
  <1>9. QED
    BY <1>2, <1>7, <1>8 DEF Queue, v

-----------------------------------------------------------------------------
\* The outbox without a segment.
LEMMA WithoutIs ==
  ASSUME Queue(outbox), NEW ids
  PROVE  /\ Queue(Without(ids))
         /\ Of(Without(ids)) = {b \in Of(outbox) : ~(b.state = "Pending" /\ b.id \in ids)}
  <1> DEFINE D == DOMAIN outbox
             Drop(b) == b.state = "Pending" /\ b.id \in ids
             Next1(t, n) == IF Drop(outbox[n]) THEN t ELSE Append(t, outbox[n])
             G == [t \in Seq(Batch) |-> [n \in D |-> Next1(t, n)]]
             Body(it) == [s \in SUBSET D |-> IF s = {} THEN <<>> ELSE Next1(it[s \ {Max(s)}], Max(s))]
             f == CHOOSE it : it = Body(it)
  <1>1. /\ outbox \in Seq(Batch) /\ Len(outbox) \in Nat /\ D = 1..Len(outbox)
        /\ \A n \in D : outbox[n] \in Batch
        /\ \A m, n \in D : outbox[m].id = outbox[n].id => m = n
    BY DEF Queue, OneId
  <1>2. D \in SUBSET Nat
    BY <1>1
  <1>3. IsFiniteSet(D)
    BY <1>1, FS_Interval
  <1>4. \A t \in Seq(Batch), n \in D : Next1(t, n) \in Seq(Batch)
    BY <1>1
  <1>5. G \in [Seq(Batch) -> [D -> Seq(Batch)]]
    <2> HIDE DEF Next1, D
    <2>1. QED
      BY <1>4
  <1>6. \A t \in Seq(Batch), n \in D : G[t][n] = Next1(t, n)
    <2> HIDE DEF Next1, D
    <2>1. QED
      OBVIOUS
  <1>7. <<>> \in Seq(Batch)
    OBVIOUS
  <1>8. PICK it : IsFold(it, D, Seq(Batch), <<>>, G)
    <2> HIDE DEF G, D
    <2>1. QED
      BY <1>2, <1>3, <1>5, <1>7, FoldExists
  <1>9. it \in [SUBSET D -> Seq(Batch)] /\ it[{}] = <<>>
    BY <1>8 DEF IsFold, FoldAt
  <1>10. ASSUME NEW s \in SUBSET D, s # {}
         PROVE  Max(s) \in s /\ it[s] = Next1(it[s \ {Max(s)}], Max(s))
    <2>1. Max(s) \in s
      BY <1>2, <1>3, <1>10, MaxIsGreatest
    <2>2. it[s] = G[it[s \ {Max(s)}]][Max(s)]
      BY <1>8, <1>10 DEF IsFold, FoldAt
    <2>3. it[s \ {Max(s)}] \in Seq(Batch) /\ Max(s) \in D
      BY <1>9, <2>1
    <2> HIDE DEF G, Next1, D
    <2>4. QED
      BY <1>6, <2>1, <2>2, <2>3
  <1>11. it = Body(it)
    <2> HIDE DEF Next1, D
    <2>1. QED
      BY <1>9, <1>10
  <1>12. f = Body(f)
    <2> HIDE DEF Body
    <2>1. QED
      BY <1>11
  <1>13. Without(ids) = f[D]
    BY DEF Without, FoldLeft, MapThenFoldSet
  <1> HIDE DEF f, G
  <1>14. f[D] = it[D]
    <2> DEFINE Good == {s \in SUBSET D : f[s] = it[s]}
    <2> HIDE DEF Next1, D
    <2>1. ASSUME NEW s \in SUBSET D, \A x \in s : s \ {x} \in Good
          PROVE  s \in Good
      <3>1. CASE s = {}
        BY <1>9, <1>12, <3>1
      <3>2. CASE s # {}
        <4>1. f[s] = Next1(f[s \ {Max(s)}], Max(s))
          BY <1>12, <3>2
        <4>2. it[s] = Next1(it[s \ {Max(s)}], Max(s)) /\ Max(s) \in s
          BY <1>10, <3>2
        <4>3. f[s \ {Max(s)}] = it[s \ {Max(s)}]
          BY <2>1, <4>2
        <4>4. QED
          BY <4>1, <4>2, <4>3
      <3>3. QED
        BY <3>1, <3>2
    <2> HIDE DEF Good
    <2>2. D \in Good
      BY <1>3, <2>1, SubsetInduction
    <2>3. QED
      BY <2>2 DEF Good
  <1> DEFINE Kept(s) == {n \in s : ~Drop(outbox[n])}
             Right(t, s) == /\ \A k \in DOMAIN t : \E n \in Kept(s) : t[k] = outbox[n]
                            /\ \A n \in Kept(s) : \E k \in DOMAIN t : t[k] = outbox[n]
                            /\ \A j, k \in DOMAIN t : t[j].id = t[k].id => j = k
             Fine == {s \in SUBSET D : Right(it[s], s)}
  <1>15. ASSUME NEW s \in SUBSET D, \A x \in s : s \ {x} \in Fine
         PROVE  s \in Fine
    <2>1. CASE s = {}
      BY <1>9, <2>1
    <2>2. CASE s # {}
      <3> DEFINE n == Max(s)
                 r == s \ {n}
                 t == it[r]
      <3>1. n \in s /\ n \in D /\ it[s] = Next1(t, n)
        BY <1>10, <2>2
      <3>2. t \in Seq(Batch) /\ Right(t, r)
        BY <1>9, <1>15, <3>1
      <3>3. s = r \cup {n} /\ n \notin r /\ r \subseteq D
        BY <3>1
      <3> HIDE DEF n, r, t
      <3>4. CASE Drop(outbox[n])
        <4>1. it[s] = t /\ Kept(s) = Kept(r)
          BY <3>1, <3>3, <3>4
        <4>2. QED
          BY <3>2, <4>1
      <3>5. CASE ~Drop(outbox[n])
        <4> DEFINE u == Append(t, outbox[n])
        <4>1. it[s] = u /\ Kept(s) = Kept(r) \cup {n}
          BY <3>1, <3>3, <3>5
        <4>2. /\ DOMAIN t = 1..Len(t) /\ Len(t) \in Nat
              /\ DOMAIN u = 1..(Len(t) + 1) /\ u[Len(t) + 1] = outbox[n]
              /\ \A k \in 1..Len(t) : u[k] = t[k]
          BY <1>1, <3>1, <3>2
        <4>3. \A k \in DOMAIN u : k \in DOMAIN t \/ k = Len(t) + 1
          BY <4>2
        <4> HIDE DEF u, Drop, D
        <4>4. \A k \in DOMAIN u : \E m \in Kept(s) : u[k] = outbox[m]
          BY <3>2, <4>1, <4>2, <4>3
        <4>5. \A m \in Kept(s) : \E k \in DOMAIN u : u[k] = outbox[m]
          <5>1. DOMAIN t \subseteq DOMAIN u /\ Len(t) + 1 \in DOMAIN u
            BY <4>2
          <5>2. QED
            BY <3>2, <4>1, <4>2, <5>1
        <4>6. \A k \in DOMAIN t : u[k].id # outbox[n].id
          <5> SUFFICES ASSUME NEW k \in DOMAIN t PROVE u[k].id # outbox[n].id
            OBVIOUS
          <5>1. PICK m \in r : t[k] = outbox[m]
            BY <3>2
          <5>2. m \in D /\ m # n /\ u[k] = t[k]
            BY <3>3, <4>2, <5>1
          <5>3. QED
            BY <1>1, <3>1, <5>1, <5>2
        <4>7. \A j, k \in DOMAIN u : u[j].id = u[k].id => j = k
          BY <3>2, <4>2, <4>3, <4>6
        <4>8. QED
          BY <4>1, <4>4, <4>5, <4>7
      <3>6. QED
        BY <3>4, <3>5
    <2>3. QED
      BY <2>1, <2>2
  <1>16. D \in Fine
    <2> HIDE DEF Fine, D
    <2>1. QED
      BY <1>3, <1>15, SubsetInduction
  <1>17. Right(it[D], D) /\ it[D] \in Seq(Batch) /\ Without(ids) = it[D]
    BY <1>9, <1>13, <1>14, <1>16
  <1> DEFINE w == it[D]
  <1> HIDE DEF Body, Next1
  <1>18. Queue(w)
    BY <1>17 DEF Queue, OneId
  <1>19. Of(w) = {b \in Of(outbox) : ~Drop(b)}
    BY <1>17 DEF Of
  <1>20. QED
    BY <1>17, <1>18, <1>19

-----------------------------------------------------------------------------
(* Steps as changes of the set of batches.                                 *)

Batches == Of(outbox)
Waiting == {b \in Batches : b.state = "Pending"}

Places ==
  /\ Ids(Pending) = {b.id : b \in Waiting} /\ Ids(DOMAIN outbox) = {b.id : b \in Batches}
  /\ \A x : Waits(x) <=> \E b \in Waiting : x \in DOMAIN b.changes
  /\ (Pending = {} <=> Waiting = {})
  /\ \A x : InQuarantine(x) <=> \E b \in Batches \ Waiting : x \in b.failures

LEMMA PlacesAre == Queue(outbox) => Places
  <1> SUFFICES ASSUME Queue(outbox) PROVE Places
    OBVIOUS
  <1>1. \A n \in DOMAIN outbox : outbox[n] \in Batch
    BY DEF Queue
  <1>2. \A n \in DOMAIN outbox : n \in Pending \/ n \in FailedOnes
    BY <1>1 DEF Batch, Pending, FailedOnes
  <1>3. \A n \in DOMAIN outbox : (n \in Pending <=> outbox[n] \in Waiting) /\ (n \in FailedOnes <=> outbox[n] \notin Waiting)
    BY <1>2 DEF Pending, FailedOnes, Waiting, Batches, Of
  <1>4. \A b : b \in Waiting <=> \E n \in Pending : b = outbox[n]
    BY <1>3 DEF Waiting, Batches, Of, Pending
  <1>5. \A b : b \in Batches \ Waiting <=> \E n \in FailedOnes : b = outbox[n]
    BY <1>3 DEF Batches, Of, FailedOnes
  <1>6. Ids(Pending) = {b.id : b \in Waiting} /\ (Pending = {} <=> Waiting = {})
    BY <1>4 DEF Ids
  <1>7. Ids(DOMAIN outbox) = {b.id : b \in Batches}
    BY DEF Ids, Batches, Of
  <1>8. \A x : Waits(x) <=> \E b \in Waiting : x \in DOMAIN b.changes
    BY <1>4 DEF Waits, Covered
  <1>9. \A x : InQuarantine(x) <=> \E b \in Batches \ Waiting : x \in b.failures
    BY <1>5 DEF InQuarantine
  <1>10. QED
    BY <1>6, <1>7, <1>8, <1>9 DEF Places

LEMMA PlacesNext == Queue(outbox)' => Places'
  BY PlacesAre, PTL

Becomes(gone, new) == Queue(outbox') /\ Of(outbox') = (Batches \ gone) \cup new

\* Waiting batches of numbers not used yet that share the changes among them.
Shares(new, changes) ==
  /\ \A b \in new : b \in Batch /\ b.state = "Pending" /\ \A c \in Batches : b.id # c.id
  /\ \A b \in new : \A x \in DOMAIN b.changes : x \in DOMAIN changes /\ b.changes[x] = changes[x]
  /\ \A x \in DOMAIN changes : \E b \in new : x \in DOMAIN b.changes
  /\ \A b, c \in new : b # c => DOMAIN b.changes \cap DOMAIN c.changes = {}

LEMMA NewBatchIs ==
  ASSUME NEW id \in BatchIds, NEW changes \in Changes, NEW large \in BOOLEAN
  PROVE  /\ NewBatch(id, changes, large) \in Batch /\ NewBatch(id, changes, large).id = id
         /\ NewBatch(id, changes, large).state = "Pending" /\ NewBatch(id, changes, large).changes = changes
  BY DEF NewBatch, Batch

LEMMA ChangesAre ==
  /\ \A changes \in Changes : DOMAIN changes \subseteq Items /\ \A x \in DOMAIN changes : changes[x] \in Change
  /\ \A S \in SUBSET Items : [S -> Change] \subseteq Changes
  BY DEF Changes

LEMMA FreshAre ==
  ASSUME Queue(outbox), NEW id \in FreshIds
  PROVE  id \in BatchIds /\ \A c \in Batches : id # c.id
  BY PlacesAre DEF FreshIds, Places

\* One batch for every change.
Single(id, x, changes) == NewBatch(id, [y \in {x} |-> changes[y]], FALSE)

LEMMA SinglesAre ==
  ASSUME Queue(outbox), NEW changes \in Changes, NEW ids \in SUBSET FreshIds,
         Cardinality(ids) = Cardinality(DOMAIN changes),
         NEW u, u = [n \in DOMAIN SetToSeq(DOMAIN changes) |->
                       Single(SetToSeq(ids)[n], SetToSeq(DOMAIN changes)[n], changes)]
  PROVE  Queue(u) /\ Shares(Of(u), changes)
  <1> DEFINE N == 1..Cardinality(ids)
             id == SetToSeq(ids)
             x == SetToSeq(DOMAIN changes)
  <1>1. IsFiniteSet(ids) /\ IsFiniteSet(DOMAIN changes) /\ DOMAIN changes \subseteq Items
    <2>1. IsFiniteSet(BatchIds) /\ IsFiniteSet(Items)
      BY BoundsAssumption
    <2>2. ids \subseteq BatchIds /\ DOMAIN changes \subseteq Items
      BY ChangesAre DEF FreshIds
    <2>3. QED
      BY <2>1, <2>2, FS_Subset
  <1>2. /\ id \in [N -> ids] /\ \A m, n \in N : id[m] = id[n] => m = n
    BY <1>1, SetToSeqIs
  <1>3. /\ x \in [N -> DOMAIN changes] /\ \A m, n \in N : x[m] = x[n] => m = n
        /\ \A y \in DOMAIN changes : \E n \in N : x[n] = y
    BY <1>1, SetToSeqIs
  <1>4. Cardinality(ids) \in Nat
    BY <1>1, FS_CardinalityType
  <1> HIDE DEF id, x, N
  <1>a. u = [n \in N |-> Single(id[n], x[n], changes)]
    BY <1>3 DEF id, x
  <1>5. DOMAIN u = N /\ \A n \in N : u[n] = Single(id[n], x[n], changes)
    BY <1>a
  <1>6. ASSUME NEW n \in N
        PROVE  /\ u[n] \in Batch /\ u[n].id = id[n] /\ u[n].state = "Pending" /\ id[n] \in FreshIds
               /\ DOMAIN u[n].changes = {x[n]} /\ u[n].changes[x[n]] = changes[x[n]] /\ x[n] \in DOMAIN changes
    <2> DEFINE c == [y \in {x[n]} |-> changes[y]]
    <2>1. x[n] \in DOMAIN changes /\ x[n] \in Items /\ id[n] \in FreshIds /\ id[n] \in BatchIds
      BY <1>1, <1>2, <1>3, FreshAre
    <2>2. c \in Changes
      <3>1. c \in [{x[n]} -> Change] /\ {x[n]} \in SUBSET Items
        BY <2>1, ChangesAre
      <3>2. QED
        BY <3>1, ChangesAre
    <2>3. DOMAIN c = {x[n]} /\ c[x[n]] = changes[x[n]]
      OBVIOUS
    <2>4. u[n] = NewBatch(id[n], c, FALSE)
      BY <1>5 DEF Single
    <2> HIDE DEF c
    <2>5. /\ NewBatch(id[n], c, FALSE) \in Batch /\ NewBatch(id[n], c, FALSE).id = id[n]
          /\ NewBatch(id[n], c, FALSE).state = "Pending" /\ NewBatch(id[n], c, FALSE).changes = c
      BY <2>1, <2>2, NewBatchIs
    <2>6. u[n].changes = c
      BY <2>4, <2>5
    <2>7. DOMAIN u[n].changes = {x[n]} /\ u[n].changes[x[n]] = changes[x[n]]
      BY <2>3, <2>6
    <2>8. QED
      BY <2>1, <2>4, <2>5, <2>7
  <1>7. u \in Seq(Batch)
    <2>1. u \in [N -> Batch]
      BY <1>a, <1>5, <1>6
    <2>2. QED
      BY <1>4, <2>1, SeqDef DEF N
  <1>8. OneId(u)
    <2>1. \A n \in N : u[n].id = id[n]
      BY <1>6
    <2>2. QED
      BY <1>2, <1>5, <2>1 DEF OneId
  <1>9. Shares(Of(u), changes)
    <2>1. \A b \in Of(u) : \E n \in N : b = u[n]
      BY <1>5 DEF Of
    <2>2. \A n \in N : u[n] \in Of(u)
      BY <1>5 DEF Of
    <2>3. \A b \in Of(u) : b \in Batch /\ b.state = "Pending" /\ \A c \in Batches : b.id # c.id
      <3>1. \A n \in N : \A c \in Batches : id[n] # c.id
        BY <1>6, FreshAre
      <3>2. QED
        BY <1>6, <2>1, <3>1
    <2>4. \A b \in Of(u) : \A y \in DOMAIN b.changes : y \in DOMAIN changes /\ b.changes[y] = changes[y]
      BY <1>6, <2>1
    <2>5. \A y \in DOMAIN changes : \E b \in Of(u) : y \in DOMAIN b.changes
      <3>1. \A n \in N : DOMAIN u[n].changes = {x[n]}
        BY <1>6
      <3>2. \A n \in N : x[n] \in DOMAIN u[n].changes
        BY <3>1
      <3>3. QED
        BY <1>3, <2>2, <3>2
    <2>6. \A b, c \in Of(u) : b # c => DOMAIN b.changes \cap DOMAIN c.changes = {}
      <3> SUFFICES ASSUME NEW m \in N, NEW n \in N, u[m] # u[n] PROVE DOMAIN u[m].changes \cap DOMAIN u[n].changes = {}
        BY <2>1
      <3>1. x[m] # x[n]
        BY <1>3
      <3>2. QED
        BY <1>6, <3>1
    <2>7. QED
      BY <2>3, <2>4, <2>5, <2>6 DEF Shares
  <1>10. QED
    BY <1>7, <1>8, <1>9 DEF Queue

LEMMA OneBatchQueue ==
  ASSUME NEW b \in Batch
  PROVE  Queue(<<b>>) /\ Of(<<b>>) = {b}
  BY DEF Queue, OneId, Of

LEMMA JoinShares ==
  ASSUME Queue(outbox), NEW q, Queue(q), NEW gone, Of(q) = Batches \ gone, NEW u, Queue(u), NEW changes,
         Shares(Of(u), changes), outbox' = q \o u
  PROVE  Becomes(gone, Of(u))
  <1>1. \A b \in Of(q), c \in Of(u) : b.id # c.id
    BY DEF Shares
  <1>2. QED
    BY <1>1, JoinedQueue DEF Becomes

LEMMA SaveBecomes ==
  ASSUME Queue(outbox), NEW changes \in Changes, Save(changes)
  PROVE  \E new : Becomes({}, new) /\ Shares(new, changes)
  <1>0. Of(outbox) = Batches \ {}
    BY DEF Batches
  <1>1. ASSUME NEW id \in FreshIds, NEW large \in BOOLEAN, outbox' = outbox \o <<NewBatch(id, changes, large)>>
        PROVE  \E new : Becomes({}, new) /\ Shares(new, changes)
    <2> DEFINE b == NewBatch(id, changes, large)
               u == <<b>>
    <2>1. /\ b \in Batch /\ b.id = id /\ b.state = "Pending" /\ b.changes = changes
          /\ \A c \in Batches : id # c.id
      BY FreshAre, NewBatchIs
    <2> HIDE DEF b
    <2>2. Queue(u) /\ Of(u) = {b}
      BY <2>1, OneBatchQueue
    <2>3. Shares(Of(u), changes)
      BY <2>1, <2>2 DEF Shares
    <2>4. outbox' = outbox \o u
      BY <1>1 DEF b
    <2> HIDE DEF u
    <2>5. QED
      BY <1>0, <2>2, <2>3, <2>4, JoinShares
  <1>2. ASSUME NEW ids \in SUBSET FreshIds, Cardinality(ids) = Cardinality(DOMAIN changes),
               NEW u, u = [n \in DOMAIN SetToSeq(DOMAIN changes) |->
                             Single(SetToSeq(ids)[n], SetToSeq(DOMAIN changes)[n], changes)],
               outbox' = outbox \o u
        PROVE  \E new : Becomes({}, new) /\ Shares(new, changes)
    <2>1. Queue(u) /\ Shares(Of(u), changes)
      BY <1>2, SinglesAre
    <2>2. QED
      BY <1>0, <1>2, <2>1, JoinShares
  <1>3. QED
    BY <1>1, <1>2 DEF Save, Single

LEMMA SplitBecomes ==
  ASSUME Queue(outbox), Split
  PROVE  \E b \in Waiting : \E new : /\ Becomes({b}, new) /\ Shares(new, b.changes)
                                     /\ answers' = [answers EXCEPT ![b.id] = None]
  <1>1. PICK n \in Pending : \E ids \in SUBSET FreshIds :
          /\ Cardinality(ids) = Cardinality(DOMAIN outbox[n].changes)
          /\ LET id == SetToSeq(ids)
                 x  == SetToSeq(DOMAIN outbox[n].changes)
             IN outbox' = RemoveAt(outbox, n) \o [m \in DOMAIN x |->
                   NewBatch(id[m], [y \in {x[m]} |-> outbox[n].changes[y]], FALSE)]
          /\ answers' = [answers EXCEPT ![outbox[n].id] = None]
    BY DEF Split
  <1> DEFINE b == outbox[n]
             changes == outbox[n].changes
  <1>2. PICK ids \in SUBSET FreshIds :
          /\ Cardinality(ids) = Cardinality(DOMAIN changes)
          /\ outbox' = RemoveAt(outbox, n) \o [m \in DOMAIN SetToSeq(DOMAIN changes) |->
               Single(SetToSeq(ids)[m], SetToSeq(DOMAIN changes)[m], changes)]
          /\ answers' = [answers EXCEPT ![b.id] = None]
    BY <1>1 DEF Single
  <1>3. n \in DOMAIN outbox /\ b \in Batch /\ b \in Waiting
    BY DEF Pending, Waiting, Batches, Of, Queue
  <1>4. changes \in Changes
    BY <1>3 DEF Batch
  <1> DEFINE u == [m \in DOMAIN SetToSeq(DOMAIN changes) |->
                     Single(SetToSeq(ids)[m], SetToSeq(DOMAIN changes)[m], changes)]
             q == RemoveAt(outbox, n)
  <1>5. Queue(q) /\ Of(q) = Batches \ {b}
    BY <1>3, RemovedQueue DEF Batches
  <1> HIDE DEF b
  <1>6. Queue(u) /\ Shares(Of(u), changes)
    BY <1>2, <1>4, SinglesAre
  <1>7. outbox' = q \o u
    BY <1>2
  <1> HIDE DEF u, q
  <1>8. Becomes({b}, Of(u))
    BY <1>5, <1>6, <1>7, JoinShares
  <1>9. b.changes = changes
    BY DEF b
  <1>10. QED
    BY <1>2, <1>3, <1>6, <1>8, <1>9

LEMMA TurnIs ==
  ASSUME Queue(outbox), Pending # {}
  PROVE  /\ Turn \in Pending /\ Turn \in DOMAIN outbox
         /\ outbox[Turn] \in Waiting /\ outbox[Turn] \in Batches /\ outbox[Turn] \in Batch
  <1>1. outbox \in Seq(Batch) /\ Len(outbox) \in Nat /\ DOMAIN outbox = 1..Len(outbox)
    BY DEF Queue
  <1>2. IsFiniteSet(1..Len(outbox))
    BY <1>1, FS_Interval
  <1>a. 1..Len(outbox) \in SUBSET Nat /\ Pending \in SUBSET (1..Len(outbox))
    BY <1>1 DEF Pending
  <1>3. \E n \in Pending : \A m \in Pending : n <= m
    BY <1>2, <1>a, LeastExists
  <1>4. Turn \in Pending
    BY <1>3 DEF Turn, Min
  <1>5. Turn \in DOMAIN outbox /\ outbox[Turn].state = "Pending"
    BY <1>4 DEF Pending
  <1>6. outbox[Turn] \in Batch
    BY <1>1, <1>5
  <1>7. QED
    BY <1>4, <1>5, <1>6 DEF Waiting, Batches, Of

FailedAs(b, failures) == [b EXCEPT !.state = "Failed", !.failures = failures]

LEMMA FailedAsIs ==
  ASSUME NEW b \in Batch, NEW failures \in SUBSET Items
  PROVE  /\ FailedAs(b, failures) \in Batch /\ FailedAs(b, failures).id = b.id
         /\ FailedAs(b, failures).state = "Failed" /\ FailedAs(b, failures).failures = failures
  BY DEF FailedAs, Batch

LEMMA FailBecomes ==
  ASSUME Queue(outbox), NEW n \in DOMAIN outbox, NEW failures \in SUBSET Items,
         outbox' = [outbox EXCEPT ![n].state = "Failed", ![n].failures = failures]
  PROVE  Becomes({outbox[n]}, {FailedAs(outbox[n], failures)})
  <1> DEFINE u == [outbox EXCEPT ![n].state = "Failed", ![n].failures = failures]
             b == FailedAs(outbox[n], failures)
  <1>1. /\ outbox \in Seq(Batch) /\ Len(outbox) \in Nat /\ DOMAIN outbox = 1..Len(outbox)
        /\ outbox[n] \in Batch
    BY DEF Queue
  <1>2. b \in Batch /\ b.id = outbox[n].id
    BY <1>1, FailedAsIs
  <1>3. DOMAIN u = DOMAIN outbox /\ \A k \in DOMAIN outbox : u[k] = IF k = n THEN b ELSE outbox[k]
    BY DEF FailedAs
  <1>a. u = [k \in 1..Len(outbox) |-> u[k]]
    BY <1>1, <1>3
  <1> HIDE DEF u, b
  <1>4. u \in Seq(Batch)
    <2>1. \A k \in 1..Len(outbox) : u[k] \in Batch
      BY <1>1, <1>2, <1>3
    <2>2. u \in [1..Len(outbox) -> Batch]
      BY <1>a, <2>1
    <2>3. QED
      BY <1>1, <2>2, SeqDef
  <1>5. Queue(u) /\ Of(u) = (Of(outbox) \ {outbox[n]}) \cup {b}
    BY <1>2, <1>3, <1>4, ReplacedQueue
  <1>6. QED
    BY <1>5 DEF Becomes, Batches, u, b

LEMMA DropBecomes ==
  ASSUME Queue(outbox), NEW n \in DOMAIN outbox, outbox' = RemoveAt(outbox, n)
  PROVE  Becomes({outbox[n]}, {})
  BY RemovedQueue DEF Becomes, Batches

\* What is left of a batch that was answered.
Rest(b, refused) == IF refused = {} THEN {} ELSE {FailedAs(b, refused)}

LEMMA AcknowledgeBecomes ==
  ASSUME Queue(outbox), NEW n \in DOMAIN outbox, NEW refused \in SUBSET Items, Acknowledge(n, refused)
  PROVE  Becomes({outbox[n]}, Rest(outbox[n], refused))
  <1>1. CASE refused = {}
    BY <1>1, DropBecomes DEF Acknowledge, Rest
  <1>2. CASE refused # {}
    BY <1>2, FailBecomes DEF Acknowledge, Rest
  <1>3. QED
    BY <1>1, <1>2

Segment == {b \in Waiting : b.id \in bulk.captured}

LEMMA FinishBecomes ==
  ASSUME Queue(outbox), outbox' = Without(bulk.captured)
  PROVE  Becomes(Segment, {})
  BY WithoutIs DEF Becomes, Segment, Waiting, Batches

-----------------------------------------------------------------------------
(* The inductive invariant.                                                *)

\* No file waits in two batches.
Alone == \A b, c \in Waiting : b # c => DOMAIN b.changes \cap DOMAIN c.changes = {}

\* An import the client had given up has the file.
Stray(x) == \E i \in strays : x \in DOMAIN manifest[i]

Value(change) == IF change.gone THEN 0 ELSE change.rev

\* A batch the server has applied and the client not acknowledged: its number
\* still waits, and repeating it changes nothing.
Answered ==
  /\ \A id \in BatchIds : answers[id] # None => \E b \in Waiting : b.id = id
  /\ \A b \in Waiting : answers[b.id] # None =>
       /\ answers[b.id] = Refused(b.changes)
       /\ \A x \in DOMAIN b.changes \ answers[b.id] : ~Stray(x) => catalog[x] = Value(b.changes[x])

\* The active import and the batches it captured say the same.
Manifested ==
  bulk # None =>
    /\ bulk.captured # {} /\ bulk.captured \subseteq {b.id : b \in Waiting}
    /\ \A b \in Segment : \A x \in DOMAIN b.changes :
         /\ x \in DOMAIN manifest[bulk.import] /\ manifest[bulk.import][x] = b.changes[x]
         /\ ~b.changes[x].gone
    /\ \A x \in DOMAIN manifest[bulk.import] : \E b \in Segment : x \in DOMAIN b.changes

\* Once merged it is what the catalogue has, and what is applied is what is known.
Merged ==
  bulk # None =>
    /\ merges[bulk.import] = 1 =>
         \A x \in DOMAIN manifest[bulk.import] \ rejected[bulk.import] :
           ~Stray(x) => catalog[x] = manifest[bulk.import][x].rev
    /\ \A x \in bulk.applied :
         x \in DOMAIN manifest[bulk.import] /\ known[x] = manifest[bulk.import][x].rev

\* What the client knows of its import.
Told ==
  bulk # None =>
    /\ bulk.import \notin strays
    /\ bulk.bound => status[bulk.import] # "None"
    /\ bulk.import \in late => bulk.bound
    /\ bulk.applied # {} \/ bulk.result \/ pc \in {"Fetch", "Apply"} =>
         status[bulk.import] = "Succeeded" /\ rejected[bulk.import] = {}

\* An import works only for the client that waits for it, or astray.
Served1(j) ==
  /\ status[j] = "Working" => j \in strays \/ (bulk # None /\ bulk.import = j /\ bulk.bound)
  /\ status[j] \in {"None", "AwaitingUpload"} => merges[j] = 0
  /\ status[j] = "Succeeded" => merges[j] = 1
  /\ j \in late \cup strays => status[j] # "None"

Promised ==
  /\ status \in [Imports -> Service!Statuses] /\ merges \in [Imports -> 0..1]
  /\ \A j \in Imports : Served1(j)

\* Where a run is and what it has in hand.
InHand ==
  /\ pc = "Flush" => bulk = None
  /\ pc = "Scan" => Waiting = {}
  /\ pc = "Create" => bulk # None /\ ~bulk.bound
  /\ pc \in {"Watch", "Upload", "Fetch", "Apply"} => bulk # None /\ bulk.bound

QueueInv  == Queue(outbox) /\ Alone /\ Answered /\ Manifested /\ Merged /\ KnownIsServed
ServerInv == Told /\ Promised
IInv      == TypeOK /\ QueueInv /\ ServerInv /\ InHand

-----------------------------------------------------------------------------
LEMMA BecomesMeans ==
  ASSUME NEW gone, NEW new, Becomes(gone, new)
  PROVE  /\ Queue(outbox)' /\ Places' /\ Batches' = (Batches \ gone) \cup new
         /\ Waiting' = {b \in (Batches \ gone) \cup new : b.state = "Pending"}
  <1>1. Queue(outbox)' /\ Batches' = (Batches \ gone) \cup new
    BY DEF Becomes, Batches, Queue, Of, OneId
  <1>2. QED
    BY <1>1, PlacesNext DEF Waiting

\* What a step that leaves the outbox, the catalogue and the client's knowledge
\* alone keeps.
Quiet ==
  /\ UNCHANGED <<outbox, catalog, answers, known, givenUp, manifest, strays, rejected, merges>>
  /\ bulk' # None => /\ bulk # None /\ bulk'.import = bulk.import
                     /\ bulk'.captured = bulk.captured /\ bulk'.applied = bulk.applied

LEMMA QuietKeeps ==
  ASSUME QueueInv, Quiet
  PROVE  QueueInv'
  <1> USE DEF QueueInv, Quiet
  <1>1. UNCHANGED <<Batches, Waiting>> /\ (bulk' # None => Segment' = Segment)
    BY DEF Batches, Waiting, Segment
  <1>2. Queue(outbox)' /\ Alone' /\ Answered'
    BY <1>1 DEF Queue, OneId, Alone, Answered, Refused, Stray
  <1>3. Manifested'
    BY <1>1 DEF Manifested
  <1>4. Merged'
    BY <1>1 DEF Merged, Stray
  <1>5. KnownIsServed'
    BY DEF KnownIsServed, Waits, Excused, InQuarantine, Covered, Pending, FailedOnes
  <1>6. QED
    BY <1>2, <1>3, <1>4, <1>5

\* The server's part of an import.
LEMMA AppliedIs ==
  ASSUME catalog \in [Items -> 0..MaxRevision], NEW changes \in Changes
  PROVE  /\ Applied(changes) \in [Items -> 0..MaxRevision] /\ Refused(changes) \subseteq DOMAIN changes
         /\ \A x \in Items : Applied(changes)[x] =
              IF x \in DOMAIN changes \ Refused(changes) THEN Value(changes[x]) ELSE catalog[x]
  <1>1. \A x \in DOMAIN changes : changes[x] \in Change
    BY ChangesAre
  <1>2. \A x \in DOMAIN changes : Value(changes[x]) \in 0..MaxRevision
    BY <1>1, BoundsAssumption DEF Change, Revisions, Value
  <1>3. QED
    BY <1>2 DEF Applied, Refused, Value

LEMMA OneIdIs ==
  ASSUME Queue(outbox), NEW b \in Batches, NEW c \in Batches, b.id = c.id
  PROVE  b = c
  BY DEF Queue, OneId, Batches, Of

LEMMA BatchIs ==
  ASSUME Queue(outbox), NEW b \in Batches
  PROVE  /\ b \in Batch /\ b.id \in BatchIds /\ b.changes \in Changes /\ DOMAIN b.changes \subseteq Items
         /\ b.state \in {"Pending", "Failed"} /\ b.failures \subseteq Items
  <1>1. b \in Batch
    BY DEF Queue, Batches, Of
  <1>2. QED
    BY <1>1, ChangesAre DEF Batch

\* Changes are saved when nothing waits.
LEMMA SavedKeeps ==
  ASSUME IInv, Waiting = {}, NEW new, NEW changes, Becomes({}, new), Shares(new, changes),
         UNCHANGED <<server, known, bulk, givenUp>>
  PROVE  QueueInv'
  <1>0. QueueInv /\ Queue(outbox) /\ bulk = None /\ bulk' = None
    BY DEF IInv, QueueInv, Manifested
  <1>1. /\ Queue(outbox)' /\ Places' /\ Batches' = Batches \cup new
        /\ Waiting' = {b \in Batches \cup new : b.state = "Pending"}
    BY BecomesMeans
  <1>2. Waiting' = new /\ (Batches \ Waiting) \subseteq Batches' \ Waiting'
    <2>1. \A b \in Batches : b.state # "Pending"
      BY DEF Waiting
    <2>2. \A b \in new : b.state = "Pending"
      BY DEF Shares
    <2>3. QED
      BY <1>1, <2>1, <2>2
  <1>3. Alone'
    BY <1>2 DEF Alone, Shares
  <1>4. Answered'
    <2>1. \A id \in BatchIds : answers'[id] = None
      BY <1>0 DEF QueueInv, Answered, server
    <2>2. \A b \in new : b.id \in BatchIds
      BY DEF Shares, Batch
    <2>3. QED
      BY <1>2, <2>1, <2>2 DEF Answered
  <1>5. KnownIsServed'
    <2> SUFFICES ASSUME NEW x \in Items, ~Waits(x)', ~Excused(x)' PROVE known'[x] = catalog'[x]
      BY DEF KnownIsServed
    <2>1. ~Waits(x)
      BY <1>0, PlacesAre DEF Places
    <2>2. ~InQuarantine(x)
      BY <1>0, <1>1, <1>2, PlacesAre DEF Places, Excused
    <2>3. ~Excused(x)
      BY <2>2 DEF Excused, server
    <2>4. QED
      BY <1>0, <2>1, <2>3 DEF QueueInv, KnownIsServed, server
  <1>6. QED
    BY <1>0, <1>1, <1>3, <1>4, <1>5 DEF QueueInv, Manifested, Merged

LEMMA SplitKeeps ==
  ASSUME IInv, bulk = None, bulk' = None, NEW b \in Waiting, NEW new, Becomes({b}, new), Shares(new, b.changes),
         answers' = [answers EXCEPT ![b.id] = None],
         UNCHANGED <<catalog, status, merges, manifest, rejected, late, strays, known, givenUp>>
  PROVE  QueueInv'
  <1>0. QueueInv /\ Queue(outbox) /\ TypeOK /\ b \in Batches /\ b.state = "Pending"
    BY DEF IInv, QueueInv, Waiting
  <1>1. /\ Queue(outbox)' /\ Places' /\ Batches' = (Batches \ {b}) \cup new
        /\ Waiting' = {c \in (Batches \ {b}) \cup new : c.state = "Pending"}
    BY BecomesMeans
  <1>2. /\ Waiting' = (Waiting \ {b}) \cup new
        /\ (Batches \ Waiting) \subseteq Batches' \ Waiting'
    <2>1. \A c \in new : c.state = "Pending" /\ c \notin Batches
      BY DEF Shares
    <2>2. QED
      BY <1>0, <1>1, <2>1 DEF Waiting
  <1>3. Alone'
    <2> SUFFICES ASSUME NEW c \in Waiting', NEW d \in Waiting', c # d
                 PROVE  DOMAIN c.changes \cap DOMAIN d.changes = {}
      BY DEF Alone
    <2>1. \A e \in Waiting \ {b} : DOMAIN e.changes \cap DOMAIN b.changes = {}
      BY <1>0 DEF QueueInv, Alone
    <2>2. \A e \in new : DOMAIN e.changes \subseteq DOMAIN b.changes
      BY DEF Shares
    <2>3. CASE c \in new /\ d \in new
      BY <2>3 DEF Shares
    <2>4. CASE c \in Waiting \ {b} /\ d \in Waiting \ {b}
      BY <1>0, <2>4 DEF QueueInv, Alone
    <2>5. CASE c \in new /\ d \in Waiting \ {b}
      BY <2>1, <2>2, <2>5
    <2>6. CASE c \in Waiting \ {b} /\ d \in new
      BY <2>1, <2>2, <2>6
    <2>7. QED
      BY <1>2, <2>3, <2>4, <2>5, <2>6
  <1>4. Answered'
    <2>1. answers \in [BatchIds -> (SUBSET Items) \cup {None}] /\ b.id \in BatchIds
      BY <1>0, BatchIs DEF TypeOK
    <2>2. \A id \in BatchIds : answers'[id] = IF id = b.id THEN None ELSE answers[id]
      BY <2>1
    <2>3. \A c \in new : c.id \in BatchIds /\ answers'[c.id] = None
      <3> SUFFICES ASSUME NEW c \in new PROVE c.id \in BatchIds /\ answers'[c.id] = None
        OBVIOUS
      <3>1. c.id \in BatchIds /\ \A d \in Batches : c.id # d.id
        BY DEF Shares, Batch
      <3>2. answers[c.id] = None
        BY <1>0, <3>1 DEF QueueInv, Answered, Waiting
      <3>3. QED
        BY <2>2, <3>1, <3>2
    <2>4. \A c \in Waiting : c.id \in BatchIds
      BY <1>0, BatchIs DEF Waiting
    <2>5. \A id \in BatchIds : answers'[id] # None => \E c \in Waiting' : c.id = id
      BY <1>0, <1>2, <2>2 DEF QueueInv, Answered
    <2>6. \A c \in Waiting' : answers'[c.id] # None => c \in Waiting /\ answers'[c.id] = answers[c.id]
      BY <1>2, <2>2, <2>3, <2>4
    <2>7. QED
      BY <1>0, <2>5, <2>6 DEF QueueInv, Answered, Stray, Refused
  <1>5. KnownIsServed'
    <2> SUFFICES ASSUME NEW x \in Items, ~Waits(x)', ~Excused(x)' PROVE known'[x] = catalog'[x]
      BY DEF KnownIsServed
    <2>1. ~Waits(x)
      <3>1. \A c \in Waiting' : x \notin DOMAIN c.changes
        BY <1>1 DEF Places
      <3>2. x \notin DOMAIN b.changes
        BY <1>2, <3>1 DEF Shares
      <3>3. QED
        BY <1>0, <1>2, <3>1, <3>2, PlacesAre DEF Places
    <2>2. ~InQuarantine(x)
      BY <1>0, <1>1, <1>2, PlacesAre DEF Places, Excused
    <2>3. ~Excused(x)
      BY <2>2 DEF Excused
    <2>4. QED
      BY <1>0, <2>1, <2>3 DEF QueueInv, KnownIsServed
  <1>6. QED
    BY <1>0, <1>1, <1>3, <1>4, <1>5 DEF QueueInv, Manifested, Merged

\* A batch is applied once and answered as before.
LEMMA ServedIs ==
  ASSUME IInv, NEW b \in Waiting
  PROVE  /\ Answer(b) = Refused(b.changes) /\ Answer(b) \subseteq DOMAIN b.changes
         /\ Served(b) \in [Items -> 0..MaxRevision]
         /\ \A x \in DOMAIN b.changes \ Answer(b) : ~Stray(x) => Served(b)[x] = Value(b.changes[x])
         /\ \A x \in Items \ DOMAIN b.changes : Served(b)[x] = catalog[x]
  <1>0. /\ Queue(outbox) /\ b \in Batches /\ Answered /\ catalog \in [Items -> 0..MaxRevision]
    BY DEF IInv, QueueInv, TypeOK, Waiting
  <1>1. b.changes \in Changes /\ DOMAIN b.changes \subseteq Items
    BY <1>0, BatchIs
  <1>2. /\ Applied(b.changes) \in [Items -> 0..MaxRevision] /\ Refused(b.changes) \subseteq DOMAIN b.changes
        /\ \A x \in Items : Applied(b.changes)[x] =
             IF x \in DOMAIN b.changes \ Refused(b.changes) THEN Value(b.changes[x]) ELSE catalog[x]
    BY <1>0, <1>1, AppliedIs
  <1>3. CASE answers[b.id] = None
    BY <1>1, <1>2, <1>3 DEF Served, Answer
  <1>4. CASE answers[b.id] # None
    <2>1. Served(b) = catalog /\ Answer(b) = answers[b.id]
      BY <1>4 DEF Served, Answer
    <2>2. /\ answers[b.id] = Refused(b.changes)
          /\ \A x \in DOMAIN b.changes \ answers[b.id] : ~Stray(x) => catalog[x] = Value(b.changes[x])
      BY <1>0, <1>4 DEF Answered
    <2>3. QED
      BY <1>0, <1>2, <2>1, <2>2
  <1>5. QED
    BY <1>3, <1>4

LEMMA SubmitKeeps ==
  ASSUME IInv, SubmitBatch
  PROVE  QueueInv'
  <1> DEFINE b == outbox[Turn]
             A == Answer(b)
  <1>0. /\ QueueInv /\ Queue(outbox) /\ TypeOK /\ bulk = None /\ bulk' = None /\ Pending # {}
    BY DEF IInv, QueueInv, InHand, SubmitBatch, Sending
  <1>1. Turn \in DOMAIN outbox /\ b \in Waiting /\ b \in Batches /\ b.id \in BatchIds
    BY <1>0, TurnIs, BatchIs
  <1>2. /\ A = Refused(b.changes) /\ A \subseteq DOMAIN b.changes /\ DOMAIN b.changes \subseteq Items
        /\ \A x \in DOMAIN b.changes \ A : ~Stray(x) => catalog'[x] = Value(b.changes[x])
        /\ \A x \in Items \ DOMAIN b.changes : catalog'[x] = catalog[x]
    BY <1>0, <1>1, ServedIs, BatchIs DEF SubmitBatch
  <1>3. Becomes({b}, Rest(b, A))
    BY <1>0, <1>1, <1>2, AcknowledgeBecomes DEF SubmitBatch
  <1>4. /\ \A x \in Items : known'[x] = IF x \in DOMAIN b.changes \ A THEN Value(b.changes[x]) ELSE known[x]
        /\ givenUp' = givenUp \ (DOMAIN b.changes \ A)
    BY DEF SubmitBatch, Acknowledge, Value
  <1>5. UNCHANGED <<strays, manifest>> /\ answers' = [answers EXCEPT ![b.id] = None]
    BY DEF SubmitBatch
  <1> HIDE DEF b, A
  <1>6. /\ Queue(outbox)' /\ Places' /\ Batches' = (Batches \ {b}) \cup Rest(b, A)
        /\ Waiting' = {c \in (Batches \ {b}) \cup Rest(b, A) : c.state = "Pending"}
    BY <1>3, BecomesMeans
  <1>7. /\ \A c \in Rest(b, A) : c.state = "Failed" /\ c.failures = A
        /\ A # {} => \E c \in Rest(b, A) : TRUE
    BY <1>0, <1>1, <1>2, FailedAsIs, BatchIs DEF Rest
  <1>8. /\ Waiting' = Waiting \ {b} /\ (Batches \ Waiting) \subseteq Batches' \ Waiting'
        /\ Rest(b, A) \subseteq Batches' \ Waiting'
    BY <1>1, <1>6, <1>7 DEF Waiting
  <1>9. Alone'
    BY <1>0, <1>8 DEF QueueInv, Alone
  <1>10. Answered'
    <2>1. answers \in [BatchIds -> (SUBSET Items) \cup {None}]
      BY <1>0 DEF TypeOK
    <2>2. \A id \in BatchIds : answers'[id] = IF id = b.id THEN None ELSE answers[id]
      BY <1>5, <2>1
    <2>3. \A c \in Waiting : c.id \in BatchIds /\ DOMAIN c.changes \subseteq Items
      BY <1>0, BatchIs DEF Waiting
    <2>4. \A id \in BatchIds : answers'[id] # None => \E c \in Waiting' : c.id = id
      BY <1>0, <1>8, <2>2 DEF QueueInv, Answered
    <2>5. ASSUME NEW c \in Waiting', answers'[c.id] # None
          PROVE  /\ answers'[c.id] = Refused(c.changes)
                 /\ \A x \in DOMAIN c.changes \ answers'[c.id] : ~Stray(x)' => catalog'[x] = Value(c.changes[x])
      <3>1. c \in Waiting /\ c # b /\ answers'[c.id] = answers[c.id] /\ answers[c.id] # None
        BY <1>8, <2>2, <2>3, <2>5
      <3>2. DOMAIN c.changes \cap DOMAIN b.changes = {}
        BY <1>0, <1>1, <3>1 DEF QueueInv, Alone
      <3>3. /\ answers[c.id] = Refused(c.changes)
            /\ \A x \in DOMAIN c.changes \ answers[c.id] : ~Stray(x) => catalog[x] = Value(c.changes[x])
        BY <1>0, <3>1 DEF QueueInv, Answered
      <3>4. \A x \in DOMAIN c.changes : catalog'[x] = catalog[x]
        BY <1>2, <2>3, <3>1, <3>2
      <3>5. QED
        BY <1>5, <3>1, <3>3, <3>4 DEF Stray
    <2>6. QED
      BY <2>4, <2>5 DEF Answered, Refused
  <1>11. KnownIsServed'
    <2> SUFFICES ASSUME NEW x \in Items, ~Waits(x)', ~Excused(x)' PROVE known'[x] = catalog'[x]
      BY DEF KnownIsServed
    <2>1. /\ \A c \in Waiting' : x \notin DOMAIN c.changes
          /\ \A c \in Batches' \ Waiting' : x \notin c.failures
          /\ x \notin givenUp' /\ ~Stray(x)
      BY <1>5, <1>6 DEF Places, Excused, Stray
    <2>2. x \notin A
      BY <1>7, <1>8, <2>1
    <2>3. CASE x \in DOMAIN b.changes
      BY <1>2, <1>4, <2>1, <2>2, <2>3
    <2>4. CASE x \notin DOMAIN b.changes
      <3>1. ~Waits(x)
        BY <1>0, <1>8, <2>1, <2>4, PlacesAre DEF Places
      <3>2. ~InQuarantine(x)
        BY <1>0, <1>8, <2>1, PlacesAre DEF Places
      <3>3. ~Excused(x)
        BY <1>4, <2>1, <2>4, <3>2 DEF Excused, Stray
      <3>4. known[x] = catalog[x]
        BY <1>0, <3>1, <3>3 DEF QueueInv, KnownIsServed
      <3>5. QED
        BY <1>2, <1>4, <2>4, <3>4
    <2>5. QED
      BY <2>3, <2>4
  <1>12. QED
    BY <1>0, <1>6, <1>9, <1>10, <1>11 DEF QueueInv, Manifested, Merged

LEMMA LostKeeps ==
  ASSUME IInv, AnswerLost
  PROVE  QueueInv'
  <1> DEFINE b == outbox[Turn]
  <1>0. /\ QueueInv /\ Queue(outbox) /\ TypeOK /\ bulk = None /\ bulk' = None /\ Pending # {}
    BY DEF IInv, QueueInv, InHand, AnswerLost, Sending, local
  <1>1. Turn \in DOMAIN outbox /\ b \in Waiting /\ b \in Batches /\ b.id \in BatchIds
    BY <1>0, TurnIs, BatchIs
  <1>2. /\ Answer(b) = Refused(b.changes) /\ DOMAIN b.changes \subseteq Items
        /\ \A x \in DOMAIN b.changes \ Answer(b) : ~Stray(x) => catalog'[x] = Value(b.changes[x])
        /\ \A x \in Items \ DOMAIN b.changes : catalog'[x] = catalog[x]
    BY <1>0, <1>1, ServedIs, BatchIs DEF AnswerLost
  <1>3. /\ answers' = [answers EXCEPT ![b.id] = Answer(b)]
        /\ UNCHANGED <<strays, manifest, outbox, known, givenUp>>
    BY DEF AnswerLost, local
  <1> HIDE DEF b
  <1>4. UNCHANGED <<Batches, Waiting>>
    BY <1>3 DEF Batches, Waiting
  <1>5. Queue(outbox)' /\ Alone'
    BY <1>0, <1>3, <1>4 DEF QueueInv, Queue, OneId, Alone
  <1>6. Answered'
    <2>1. answers \in [BatchIds -> (SUBSET Items) \cup {None}]
      BY <1>0 DEF TypeOK
    <2>2. \A id \in BatchIds : answers'[id] = IF id = b.id THEN Answer(b) ELSE answers[id]
      BY <1>3, <2>1
    <2>3. \A c \in Waiting : c.id \in BatchIds /\ c \in Batches /\ DOMAIN c.changes \subseteq Items
      BY <1>0, BatchIs DEF Waiting
    <2>4. \A id \in BatchIds : answers'[id] # None => \E c \in Waiting' : c.id = id
      BY <1>0, <1>1, <1>4, <2>2 DEF QueueInv, Answered
    <2>5. ASSUME NEW c \in Waiting, answers'[c.id] # None
          PROVE  /\ answers'[c.id] = Refused(c.changes)
                 /\ \A x \in DOMAIN c.changes \ answers'[c.id] : ~Stray(x)' => catalog'[x] = Value(c.changes[x])
      <3>1. CASE c.id = b.id
        <4>1. c = b
          BY <1>0, <1>1, <2>3, <3>1, OneIdIs
        <4>2. QED
          BY <1>2, <1>3, <2>2, <2>3, <4>1 DEF Stray
      <3>2. CASE c.id # b.id
        <4>1. answers'[c.id] = answers[c.id] /\ answers[c.id] # None /\ c # b
          BY <2>2, <2>3, <2>5, <3>2
        <4>2. DOMAIN c.changes \cap DOMAIN b.changes = {}
          BY <1>0, <1>1, <4>1 DEF QueueInv, Alone
        <4>3. /\ answers[c.id] = Refused(c.changes)
              /\ \A x \in DOMAIN c.changes \ answers[c.id] : ~Stray(x) => catalog[x] = Value(c.changes[x])
          BY <1>0, <4>1 DEF QueueInv, Answered
        <4>4. \A x \in DOMAIN c.changes : catalog'[x] = catalog[x]
          BY <1>2, <2>3, <4>2
        <4>5. QED
          BY <1>3, <4>1, <4>3, <4>4 DEF Stray
      <3>3. QED
        BY <3>1, <3>2
    <2>6. QED
      BY <1>4, <2>4, <2>5 DEF Answered, Refused
  <1>7. KnownIsServed'
    <2> SUFFICES ASSUME NEW x \in Items, ~Waits(x)', ~Excused(x)' PROVE known'[x] = catalog'[x]
      BY DEF KnownIsServed
    <2>1. ~Waits(x) /\ ~Excused(x)
      BY <1>3 DEF Waits, Excused, InQuarantine, Covered, Pending, FailedOnes
    <2>2. x \notin DOMAIN b.changes
      BY <1>0, <1>1, <2>1, PlacesAre DEF Places
    <2>3. QED
      BY <1>0, <1>2, <1>3, <2>1, <2>2 DEF QueueInv, KnownIsServed
  <1>8. QED
    BY <1>0, <1>5, <1>6, <1>7 DEF QueueInv, Manifested, Merged

LEMMA RefuseKeeps ==
  ASSUME IInv, RefuseBatch
  PROVE  QueueInv'
  <1> DEFINE b == outbox[Turn]
             A == DOMAIN b.changes
  <1>0. /\ QueueInv /\ Queue(outbox) /\ TypeOK /\ bulk = None /\ bulk' = None /\ Pending # {}
    BY DEF IInv, QueueInv, InHand, RefuseBatch, Sending
  <1>1. Turn \in DOMAIN outbox /\ b \in Waiting /\ b \in Batches /\ b \in Batch /\ b.id \in BatchIds /\ A \subseteq Items
    BY <1>0, TurnIs, BatchIs
  <1>2. UNCHANGED <<catalog, answers, known, givenUp, manifest, strays>> /\ answers[b.id] = None
    BY DEF RefuseBatch, server
  <1>3. Becomes({b}, {FailedAs(b, A)})
    BY <1>0, <1>1, FailBecomes DEF RefuseBatch
  <1> HIDE DEF b, A
  <1>4. /\ Queue(outbox)' /\ Places' /\ Batches' = (Batches \ {b}) \cup {FailedAs(b, A)}
        /\ Waiting' = {c \in (Batches \ {b}) \cup {FailedAs(b, A)} : c.state = "Pending"}
    BY <1>3, BecomesMeans
  <1>5. FailedAs(b, A).state = "Failed" /\ FailedAs(b, A).failures = A
    BY <1>1, FailedAsIs
  <1>6. /\ Waiting' = Waiting \ {b} /\ (Batches \ Waiting) \subseteq Batches' \ Waiting'
        /\ FailedAs(b, A) \in Batches' \ Waiting'
    BY <1>1, <1>4, <1>5 DEF Waiting
  <1>7. Alone'
    BY <1>0, <1>6 DEF QueueInv, Alone
  <1>8. Answered'
    <2>1. \A id \in BatchIds : answers[id] # None => \E c \in Waiting' : c.id = id
      BY <1>0, <1>2, <1>6 DEF QueueInv, Answered
    <2>2. QED
      BY <1>0, <1>2, <1>6, <2>1 DEF QueueInv, Answered, Stray, Refused
  <1>9. KnownIsServed'
    <2> SUFFICES ASSUME NEW x \in Items, ~Waits(x)', ~Excused(x)' PROVE known'[x] = catalog'[x]
      BY DEF KnownIsServed
    <2>1. /\ \A c \in Waiting' : x \notin DOMAIN c.changes
          /\ \A c \in Batches' \ Waiting' : x \notin c.failures
      BY <1>4 DEF Places, Excused
    <2>2. x \notin DOMAIN b.changes
      BY <1>5, <1>6, <2>1 DEF A
    <2>3. ~Waits(x)
      BY <1>0, <1>6, <2>1, <2>2, PlacesAre DEF Places
    <2>4. ~InQuarantine(x)
      BY <1>0, <1>6, <2>1, PlacesAre DEF Places
    <2>5. ~Excused(x)
      BY <1>2, <2>4 DEF Excused
    <2>6. QED
      BY <1>0, <1>2, <2>3, <2>5 DEF QueueInv, KnownIsServed
  <1>10. QED
    BY <1>0, <1>4, <1>7, <1>8, <1>9 DEF QueueInv, Manifested, Merged

LEMMA DiscardKeeps ==
  ASSUME IInv, NEW n \in DOMAIN outbox, DiscardFailed(n)
  PROVE  QueueInv'
  <1> DEFINE b == outbox[n]
  <1>0. QueueInv /\ Queue(outbox)
    BY DEF IInv, QueueInv
  <1>1. b \in Batches \ Waiting
    BY DEF DiscardFailed, FailedOnes, Waiting, Batches, Of
  <1>2. /\ UNCHANGED <<catalog, answers, known, manifest, strays, bulk, merges, rejected>>
        /\ givenUp' = givenUp \cup b.failures
    BY DEF DiscardFailed, server
  <1>3. Becomes({b}, {})
    BY <1>0, DropBecomes DEF DiscardFailed
  <1> HIDE DEF b
  <1>4. /\ Queue(outbox)' /\ Places' /\ Batches' = Batches \ {b}
        /\ Waiting' = {c \in Batches \ {b} : c.state = "Pending"}
    BY <1>3, BecomesMeans
  <1>5. Waiting' = Waiting /\ Segment' = Segment
    BY <1>1, <1>2, <1>4 DEF Waiting, Segment
  <1>6. Alone' /\ Answered'
    BY <1>0, <1>2, <1>5 DEF QueueInv, Alone, Answered, Stray, Refused
  <1>7. Manifested' /\ Merged'
    BY <1>0, <1>2, <1>5 DEF QueueInv, Manifested, Merged, Stray
  <1>8. KnownIsServed'
    <2> SUFFICES ASSUME NEW x \in Items, ~Waits(x)', ~Excused(x)' PROVE known'[x] = catalog'[x]
      BY DEF KnownIsServed
    <2>1. /\ \A c \in Waiting : x \notin DOMAIN c.changes
          /\ \A c \in (Batches \ {b}) \ Waiting : x \notin c.failures
          /\ x \notin givenUp /\ x \notin b.failures
      BY <1>2, <1>4, <1>5 DEF Places, Excused
    <2>2. ~Waits(x) /\ ~InQuarantine(x)
      BY <1>0, <2>1, PlacesAre DEF Places
    <2>3. ~Excused(x)
      BY <1>2, <2>1, <2>2 DEF Excused
    <2>4. QED
      BY <1>0, <1>2, <2>2, <2>3 DEF QueueInv, KnownIsServed
  <1>9. QED
    BY <1>0, <1>4, <1>6, <1>7, <1>8 DEF QueueInv

\* The batches of the segment go, once all of it is applied.
LEMMA FinishKeeps ==
  ASSUME IInv, FinishBulk
  PROVE  QueueInv'
  <1> DEFINE m == manifest[bulk.import]
  <1>0. /\ QueueInv /\ Queue(outbox) /\ TypeOK /\ Told /\ Promised /\ bulk # None /\ bulk' = None
        /\ bulk \in BulkItem
    BY DEF IInv, QueueInv, ServerInv, InHand, FinishBulk, TypeOK
  <1>1. /\ UNCHANGED <<catalog, known, manifest, strays, merges, rejected, givenUp>>
        /\ answers' = [b \in BatchIds |-> IF b \in bulk.captured THEN None ELSE answers[b]]
        /\ ResultRows = {}
    BY DEF FinishBulk
  <1>2. Becomes(Segment, {})
    BY <1>0, FinishBecomes DEF FinishBulk
  <1>3. /\ Queue(outbox)' /\ Places' /\ Batches' = Batches \ Segment
        /\ Waiting' = {c \in Batches \ Segment : c.state = "Pending"}
    BY <1>2, BecomesMeans
  <1>4. Waiting' = Waiting \ Segment /\ Batches' \ Waiting' = Batches \ Waiting
    BY <1>3 DEF Waiting, Segment
  <1>5. Alone'
    BY <1>0, <1>4 DEF QueueInv, Alone
  <1>6. Answered'
    <2>1. \A b \in Waiting : b.id \in BatchIds /\ b \in Batches
      BY <1>0, BatchIs DEF Waiting
    <2>2. \A b \in Waiting' : b \in Waiting /\ answers'[b.id] = answers[b.id]
      BY <1>1, <1>4, <2>1 DEF Segment
    <2>3. \A id \in BatchIds : answers'[id] # None => \E b \in Waiting' : b.id = id
      BY <1>0, <1>1, <1>4 DEF QueueInv, Answered, Segment
    <2>4. QED
      BY <1>0, <1>1, <2>2, <2>3 DEF QueueInv, Answered, Stray, Refused
  <1>7. KnownIsServed'
    <2> SUFFICES ASSUME NEW x \in Items, ~Waits(x)', ~Excused(x)' PROVE known'[x] = catalog'[x]
      BY DEF KnownIsServed
    <2>1. /\ \A c \in Waiting \ Segment : x \notin DOMAIN c.changes
          /\ \A c \in Batches \ Waiting : x \notin c.failures
          /\ x \notin givenUp /\ ~Stray(x)
      BY <1>1, <1>3, <1>4 DEF Places, Excused, Stray
    <2>2. ~InQuarantine(x)
      BY <1>0, <2>1, PlacesAre DEF Places
    <2>3. ~Excused(x)
      BY <2>1, <2>2 DEF Excused, Stray
    <2>4. CASE Waits(x)
      <3>1. PICK c \in Waiting : x \in DOMAIN c.changes
        BY <1>0, <2>4, PlacesAre DEF Places
      <3>2. c \in Segment
        BY <2>1, <3>1
      <3>3. x \in DOMAIN m
        BY <1>0, <3>1, <3>2 DEF QueueInv, Manifested
      <3>4. x \in bulk.applied
        BY <1>1, <3>3 DEF ResultRows
      <3>5. known[x] = m[x].rev
        BY <1>0, <3>4 DEF QueueInv, Merged
      <3>6. status[bulk.import] = "Succeeded" /\ rejected[bulk.import] = {} /\ bulk.import \in Imports
        BY <1>0, <3>4 DEF Told, BulkItem
      <3>7. merges[bulk.import] = 1
        BY <1>0, <3>6 DEF Promised, Served1
      <3>8. catalog[x] = m[x].rev
        BY <1>0, <2>1, <3>3, <3>6, <3>7 DEF QueueInv, Merged
      <3>9. QED
        BY <1>1, <3>5, <3>8
    <2>5. CASE ~Waits(x)
      BY <1>0, <1>1, <2>3, <2>5 DEF QueueInv, KnownIsServed
    <2>6. QED
      BY <2>4, <2>5
  <1>8. QED
    BY <1>0, <1>3, <1>5, <1>6, <1>7 DEF QueueInv, Manifested, Merged

\* A page of the result is put where its files still wait.
LEMMA ApplyKeeps ==
  ASSUME IInv, ApplyRow
  PROVE  QueueInv'
  <1> DEFINE m == manifest[bulk.import]
  <1>0. /\ QueueInv /\ Queue(outbox) /\ TypeOK /\ bulk # None /\ bulk \in BulkItem
        /\ known \in [Items -> 0..MaxRevision] /\ bulk.applied \subseteq Items
    BY DEF IInv, QueueInv, InHand, ApplyRow, TypeOK, BulkItem
  <1>1. UNCHANGED <<outbox, catalog, answers, manifest, strays, rejected, merges>>
    BY DEF ApplyRow, server
  <1>2. PICK x \in ResultRows :
          IF bulk.ready
          THEN /\ known' = [known EXCEPT ![x] = manifest[bulk.import][x].rev]
               /\ bulk' = [bulk EXCEPT !.applied = @ \cup {x}]
               /\ givenUp' = givenUp \ {x}
               /\ UNCHANGED run
          ELSE Goto("Flush") /\ GiveUp /\ UNCHANGED <<known, givenUp>>
    BY DEF ApplyRow
  <1>3. CASE ~bulk.ready
    <2>1. Quiet
      BY <1>1, <1>2, <1>3 DEF Quiet, GiveUp
    <2>2. QED
      BY <1>0, <2>1, QuietKeeps
  <1>4. CASE bulk.ready
    <2>1. /\ known' = [known EXCEPT ![x] = m[x].rev] /\ bulk' = [bulk EXCEPT !.applied = @ \cup {x}]
          /\ givenUp' = givenUp \ {x} /\ x \in DOMAIN m
      BY <1>2, <1>4 DEF ResultRows
    <2>2. PICK c \in Segment : x \in DOMAIN c.changes
      BY <1>0, <2>1 DEF QueueInv, Manifested
    <2>3. c \in Waiting /\ x \in Items /\ Waits(x)
      <3>1. c \in Waiting /\ c \in Batches
        BY DEF Segment, Waiting
      <3>2. QED
        BY <1>0, <2>2, <3>1, BatchIs, PlacesAre DEF Places
    <2>4. \A y \in Items : known'[y] = IF y = x THEN m[x].rev ELSE known[y]
      BY <1>0, <2>1
    <2>5. /\ bulk'.import = bulk.import /\ bulk'.captured = bulk.captured
          /\ bulk'.applied = bulk.applied \cup {x}
      BY <1>0, <2>1 DEF BulkItem
    <2>6. UNCHANGED <<Batches, Waiting, Segment>>
      BY <1>1, <2>5 DEF Batches, Waiting, Segment
    <2>7. Queue(outbox)' /\ Alone' /\ Answered'
      BY <1>0, <1>1, <2>6 DEF QueueInv, Queue, OneId, Alone, Answered, Refused, Stray
    <2>8. Manifested'
      BY <1>0, <1>1, <2>5, <2>6 DEF QueueInv, Manifested
    <2>9. Merged'
      <3>1. \A y \in bulk.applied \cup {x} : y \in DOMAIN m /\ known'[y] = m[y].rev
        BY <1>0, <2>1, <2>3, <2>4 DEF QueueInv, Merged
      <3>2. QED
        BY <1>0, <1>1, <2>5, <3>1 DEF QueueInv, Merged, Stray
    <2>10. KnownIsServed'
      <3> SUFFICES ASSUME NEW y \in Items, ~Waits(y)', ~Excused(y)' PROVE known'[y] = catalog'[y]
        BY DEF KnownIsServed
      <3>1. ~Waits(y) /\ (InQuarantine(y)' <=> InQuarantine(y))
        BY <1>1 DEF Waits, InQuarantine, Covered, Pending, FailedOnes
      <3>2. y # x
        BY <2>3, <3>1
      <3>3. ~Excused(y)
        BY <1>1, <2>1, <3>1, <3>2 DEF Excused
      <3>4. QED
        BY <1>0, <1>1, <2>4, <3>1, <3>2, <3>3 DEF QueueInv, KnownIsServed
    <2>11. QED
      BY <2>7, <2>8, <2>9, <2>10 DEF QueueInv
  <1>5. QED
    BY <1>3, <1>4

\* The server merges an import: of the client, or one it had given up.
LEMMA MergeKeeps ==
  ASSUME IInv, NEW j \in Imports, MergeImport(j)
  PROVE  QueueInv'
  <1> DEFINE m == manifest[j]
  <1>0. /\ QueueInv /\ Queue(outbox) /\ TypeOK /\ Told /\ Promised
        /\ catalog \in [Items -> 0..MaxRevision] /\ m \in Changes /\ DOMAIN m \subseteq Items
        /\ rejected \in [Imports -> SUBSET Items] /\ merges \in [Imports -> 0..1]
    BY ChangesAre DEF IInv, QueueInv, ServerInv, TypeOK, Promised
  <1>1. /\ UNCHANGED <<outbox, known, givenUp, answers, manifest, strays, bulk>>
        /\ rejected' = [rejected EXCEPT ![j] = Refused(m)] /\ catalog' = Applied(m)
        /\ merges' = [merges EXCEPT ![j] = 1] /\ status[j] = "Working" /\ merges[j] = 0
    BY DEF MergeImport, Service!Merge, local
  <1>2. \A x \in Items : catalog'[x] = IF x \in DOMAIN m \ Refused(m) THEN Value(m[x]) ELSE catalog[x]
    BY <1>0, <1>1, AppliedIs
  <1>3. UNCHANGED <<Batches, Waiting, Segment>> /\ \A x : Stray(x)' <=> Stray(x)
    BY <1>1 DEF Batches, Waiting, Segment, Stray
  <1>4. Manifested'
    BY <1>0, <1>1, <1>3 DEF QueueInv, Manifested
  <1>5. \A b \in Waiting : b \in Batches /\ b.id \in BatchIds /\ DOMAIN b.changes \subseteq Items
    BY <1>0, BatchIs DEF Waiting
  <1>6. CASE j \in strays
    <2>1. \A x \in Items : ~Stray(x) => catalog'[x] = catalog[x]
      BY <1>2, <1>6 DEF Stray
    <2>2. Answered'
      BY <1>0, <1>1, <1>3, <1>5, <2>1 DEF QueueInv, Answered, Refused
    <2>3. Merged'
      <3>1. ASSUME bulk # None
            PROVE  /\ bulk.import \in Imports /\ bulk.import # j
                   /\ DOMAIN manifest[bulk.import] \subseteq Items
        <4>1. bulk \in BulkItem /\ bulk.import \notin strays
          BY <1>0, <3>1 DEF TypeOK, Told
        <4>2. bulk.import \in Imports /\ bulk.import # j
          BY <1>6, <4>1 DEF BulkItem
        <4>3. manifest[bulk.import] \in Changes
          BY <1>0, <4>2 DEF TypeOK
        <4>4. QED
          BY <4>2, <4>3, ChangesAre
      <3>2. bulk # None => merges'[bulk.import] = merges[bulk.import] /\ rejected'[bulk.import] = rejected[bulk.import]
        BY <1>0, <1>1, <3>1
      <3>3. QED
        BY <1>0, <1>1, <1>3, <2>1, <3>1, <3>2 DEF QueueInv, Merged
    <2>4. KnownIsServed'
      <3> SUFFICES ASSUME NEW x \in Items, ~Waits(x)', ~Excused(x)' PROVE known'[x] = catalog'[x]
        BY DEF KnownIsServed
      <3>1. ~Waits(x) /\ ~Excused(x) /\ ~Stray(x)
        BY <1>1 DEF Waits, Excused, InQuarantine, Covered, Pending, FailedOnes, Stray
      <3>2. QED
        BY <1>0, <1>1, <2>1, <3>1 DEF QueueInv, KnownIsServed
    <2>5. QED
      BY <1>0, <1>1, <1>3, <1>4, <2>2, <2>3, <2>4 DEF QueueInv, Queue, OneId, Alone
  <1>7. CASE j \notin strays
    <2>1. bulk # None /\ bulk.import = j
      BY <1>0, <1>1, <1>7 DEF Promised, Served1
    <2>2. bulk.applied = {}
      BY <1>0, <1>1, <2>1 DEF Told
    <2>3. /\ \A b \in Segment : \A x \in DOMAIN b.changes : x \in DOMAIN m /\ m[x] = b.changes[x] /\ ~b.changes[x].gone
          /\ \A x \in DOMAIN m : \E b \in Segment : x \in DOMAIN b.changes
      BY <1>0, <2>1 DEF QueueInv, Manifested
    <2>4. \A b \in Waiting \ Segment : DOMAIN b.changes \cap DOMAIN m = {}
      <3> SUFFICES ASSUME NEW b \in Waiting \ Segment, NEW x \in DOMAIN b.changes, x \in DOMAIN m PROVE FALSE
        OBVIOUS
      <3>1. PICK c \in Segment : x \in DOMAIN c.changes
        BY <2>3
      <3>2. c \in Waiting /\ c # b
        BY DEF Segment
      <3>3. QED
        BY <1>0, <3>1, <3>2 DEF QueueInv, Alone
    <2>5. Answered'
      <3>1. ASSUME NEW b \in Waiting, answers[b.id] # None
            PROVE  \A x \in DOMAIN b.changes \ answers[b.id] : ~Stray(x) => catalog'[x] = Value(b.changes[x])
        <4> SUFFICES ASSUME NEW x \in DOMAIN b.changes \ answers[b.id], ~Stray(x)
                     PROVE  catalog'[x] = Value(b.changes[x])
          OBVIOUS
        <4>1. catalog[x] = Value(b.changes[x]) /\ x \in Items /\ answers[b.id] = Refused(b.changes)
          BY <1>0, <1>5, <3>1 DEF QueueInv, Answered
        <4>2. CASE b \in Segment
          <5>1. x \in DOMAIN m /\ m[x] = b.changes[x]
            BY <2>3, <4>2
          <5>2. QED
            BY <1>2, <4>1, <5>1
        <4>3. CASE b \notin Segment
          BY <1>2, <2>4, <4>1, <4>3
        <4>4. QED
          BY <4>2, <4>3
      <3>2. QED
        BY <1>0, <1>1, <1>3, <3>1 DEF QueueInv, Answered, Refused
    <2>6. Merged'
      <3>1. rejected'[j] = Refused(m)
        BY <1>0, <1>1
      <3>2. \A x \in DOMAIN m \ Refused(m) : catalog'[x] = m[x].rev
        <4> SUFFICES ASSUME NEW x \in DOMAIN m \ Refused(m) PROVE catalog'[x] = m[x].rev
          OBVIOUS
        <4>1. ~m[x].gone
          BY <2>3
        <4>2. catalog'[x] = Value(m[x])
          BY <1>0, <1>2
        <4>3. QED
          BY <4>1, <4>2 DEF Value
      <3>3. QED
        BY <1>1, <2>1, <2>2, <3>1, <3>2 DEF Merged
    <2>7. KnownIsServed'
      <3> SUFFICES ASSUME NEW x \in Items, ~Waits(x)', ~Excused(x)' PROVE known'[x] = catalog'[x]
        BY DEF KnownIsServed
      <3>1. ~Waits(x) /\ ~Excused(x)
        BY <1>1 DEF Waits, Excused, InQuarantine, Covered, Pending, FailedOnes
      <3>2. x \notin DOMAIN m
        <4>1. \A b \in Waiting : x \notin DOMAIN b.changes
          BY <1>0, <3>1, PlacesAre DEF Places
        <4>2. QED
          BY <2>3, <4>1 DEF Segment
      <3>3. QED
        BY <1>0, <1>1, <1>2, <3>1, <3>2 DEF QueueInv, KnownIsServed
    <2>8. QED
      BY <1>0, <1>1, <1>3, <1>4, <2>5, <2>6, <2>7 DEF QueueInv, Queue, OneId, Alone
  <1>8. QED
    BY <1>6, <1>7

\* A segment of what waits becomes a manifest.
LEMMA PrepareKeeps ==
  ASSUME IInv, NEW i \in Imports, PrepareBulk(i)
  PROVE  QueueInv' /\ manifest' \in [Imports -> Changes] /\ bulk' \in BulkItem
  <1>0. /\ QueueInv /\ Queue(outbox) /\ TypeOK /\ Promised /\ bulk = None /\ Places
        /\ manifest \in [Imports -> Changes] /\ status[i] = "None" /\ manifest[i] = <<>>
    BY PlacesAre DEF IInv, QueueInv, ServerInv, TypeOK, PrepareBulk
  <1>1. UNCHANGED <<outbox, catalog, answers, known, givenUp, strays, rejected, merges>>
    BY DEF PrepareBulk
  <1>2. PICK chosen \in Segments :
          /\ Eligible(chosen)
          /\ bulk' = [import |-> i, captured |-> Ids(chosen), bound |-> FALSE,
                      result |-> FALSE, ready |-> FALSE, applied |-> {}]
          /\ manifest' = [manifest EXCEPT ![i] = ManifestOf(chosen)]
    BY DEF PrepareBulk
  <1> DEFINE B == {outbox[n] : n \in chosen}
             m == ManifestOf(chosen)
  <1>3. chosen \subseteq Pending /\ chosen # {}
    BY DEF Segments
  <1>4. B \subseteq Waiting /\ B # {} /\ Ids(chosen) = {b.id : b \in B} /\ Pending \subseteq DOMAIN outbox
    <2>1. \A n \in chosen : n \in DOMAIN outbox /\ outbox[n].state = "Pending"
      BY <1>3 DEF Pending
    <2>2. QED
      BY <1>3, <2>1 DEF Ids, Waiting, Batches, Of, Pending
  <1>5. \A b \in Waiting : b.id \in Ids(chosen) <=> b \in B
    <2>1. \A b \in Waiting, c \in B : b.id = c.id => b = c
      BY <1>0, <1>4, OneIdIs DEF Waiting
    <2>2. QED
      BY <1>4, <2>1
  <1>6. \A b \in Waiting : b \in Batches /\ b.id \in BatchIds /\ b.changes \in Changes /\ DOMAIN b.changes \subseteq Items
    BY <1>0, BatchIs DEF Waiting
  <1>7. \A b \in B : \A x \in DOMAIN b.changes : ~b.changes[x].gone
    BY <1>2 DEF Eligible
  <1>8. /\ DOMAIN m = Covered(chosen)
        /\ \A x \in DOMAIN m : m[x] = outbox[CHOOSE n \in chosen : x \in DOMAIN outbox[n].changes].changes[x]
    BY DEF ManifestOf
  <1> HIDE DEF m
  <1>9. Covered(chosen) = UNION {DOMAIN b.changes : b \in B}
    BY DEF Covered
  <1>10. \A b \in B : \A x \in DOMAIN b.changes : x \in DOMAIN m /\ m[x] = b.changes[x]
    <2> SUFFICES ASSUME NEW b \in B, NEW x \in DOMAIN b.changes PROVE x \in DOMAIN m /\ m[x] = b.changes[x]
      OBVIOUS
    <2>1. x \in DOMAIN m
      BY <1>8, <1>9
    <2> DEFINE k == CHOOSE n \in chosen : x \in DOMAIN outbox[n].changes
    <2>2. k \in chosen /\ x \in DOMAIN outbox[k].changes
      OBVIOUS
    <2>3. m[x] = outbox[k].changes[x]
      BY <1>8, <2>1
    <2> HIDE DEF k
    <2>4. outbox[k] \in Waiting /\ b \in Waiting
      BY <1>4, <2>2
    <2>5. outbox[k] = b
      BY <1>0, <2>2, <2>4 DEF QueueInv, Alone
    <2>6. QED
      BY <2>1, <2>3, <2>5
  <1>11. \A x \in DOMAIN m : \E b \in B : x \in DOMAIN b.changes
    BY <1>8, <1>9
  <1> HIDE DEF B
  <1>12. m \in Changes
    <2>1. \A x \in DOMAIN m : x \in Items /\ m[x] \in Change
      BY <1>4, <1>6, <1>10, <1>11, ChangesAre
    <2>2. m = [x \in DOMAIN m |-> m[x]]
      BY DEF m, ManifestOf
    <2>3. m \in [DOMAIN m -> Change] /\ DOMAIN m \in SUBSET Items
      BY <2>1, <2>2
    <2>4. QED
      BY <2>3 DEF Changes
  <1>13. manifest' \in [Imports -> Changes]
    BY <1>0, <1>2, <1>12 DEF m
  <1>14. Ids(chosen) \subseteq BatchIds /\ bulk' \in BulkItem
    <2>1. Ids(chosen) \subseteq BatchIds
      BY <1>4, <1>6
    <2>2. QED
      BY <1>2, <2>1 DEF BulkItem
  <1>15. /\ bulk'.import = i /\ bulk'.captured = Ids(chosen) /\ bulk'.applied = {}
         /\ manifest'[i] = m /\ bulk' # None
    BY <1>0, <1>2, <1>14, NoneAssumption DEF m
  <1>16. /\ Batches' = Batches /\ Waiting' = Waiting /\ Segment' = B
    <2>1. Batches' = Batches /\ Waiting' = Waiting
      BY <1>1 DEF Batches, Waiting
    <2>2. QED
      BY <1>4, <1>5, <1>15, <2>1 DEF Segment
  <1>17. i \notin strays /\ merges[i] = 0
    BY <1>0 DEF Promised, Served1
  <1>18. \A x : Stray(x)' <=> Stray(x)
    <2>1. \A j \in strays : manifest'[j] = manifest[j]
      <3>1. \A j \in strays : j # i /\ j \in Imports
        BY <1>0, <1>17 DEF TypeOK
      <3>2. QED
        BY <1>0, <1>2, <3>1
    <2>2. QED
      BY <1>1, <2>1 DEF Stray
  <1>19. Queue(outbox)' /\ Alone' /\ Answered'
    BY <1>0, <1>1, <1>16, <1>18 DEF QueueInv, Queue, OneId, Alone, Answered, Refused
  <1>20. Manifested'
    BY <1>4, <1>5, <1>7, <1>10, <1>11, <1>15, <1>16 DEF Manifested
  <1>21. Merged'
    BY <1>1, <1>15, <1>17 DEF Merged
  <1>22. KnownIsServed'
    <2> SUFFICES ASSUME NEW x \in Items, ~Waits(x)', ~Excused(x)' PROVE known'[x] = catalog'[x]
      BY DEF KnownIsServed
    <2>1. /\ ~Waits(x) /\ (InQuarantine(x)' <=> InQuarantine(x))
      BY <1>1 DEF Waits, InQuarantine, Covered, Pending, FailedOnes
    <2>2. ~Excused(x)
      BY <1>1, <1>18, <2>1 DEF Excused, Stray
    <2>3. QED
      BY <1>0, <1>1, <2>1, <2>2 DEF QueueInv, KnownIsServed
  <1>23. QED
    BY <1>13, <1>14, <1>19, <1>20, <1>21, <1>22 DEF QueueInv

\* An import given up is completed after all.
LEMMA LateKeeps ==
  ASSUME IInv, NEW j \in Imports, LateCompletion(j)
  PROVE  QueueInv'
  <1>0. QueueInv
    BY DEF IInv
  <1>1. /\ UNCHANGED <<outbox, catalog, answers, known, givenUp, manifest, rejected, bulk, merges>>
        /\ strays \subseteq strays'
    BY DEF LateCompletion, local, Service!Submit, Service!Become
  <1>2. UNCHANGED <<Batches, Waiting, Segment>> /\ \A x : Stray(x) => Stray(x)'
    BY <1>1 DEF Batches, Waiting, Segment, Stray
  <1>3. Queue(outbox)' /\ Alone' /\ Manifested'
    BY <1>0, <1>1, <1>2 DEF QueueInv, Queue, OneId, Alone, Manifested
  <1>4. Answered' /\ Merged'
    BY <1>0, <1>1, <1>2 DEF QueueInv, Answered, Merged, Refused
  <1>5. KnownIsServed'
    <2> SUFFICES ASSUME NEW x \in Items, ~Waits(x)', ~Excused(x)' PROVE known'[x] = catalog'[x]
      BY DEF KnownIsServed
    <2>1. /\ ~Waits(x) /\ (InQuarantine(x)' <=> InQuarantine(x))
      BY <1>1 DEF Waits, InQuarantine, Covered, Pending, FailedOnes
    <2>2. ~Excused(x)
      BY <1>1, <1>2, <2>1 DEF Excused, Stray
    <2>3. QED
      BY <1>0, <1>1, <2>1, <2>2 DEF QueueInv, KnownIsServed
  <1>6. QED
    BY <1>3, <1>4, <1>5 DEF QueueInv

-----------------------------------------------------------------------------
(* The types, the import and where the run is.                             *)

LEMMA BulkIs ==
  ASSUME bulk \in BulkItem
  PROVE  /\ bulk # None /\ bulk.import \in Imports /\ bulk.bound \in BOOLEAN /\ bulk.result \in BOOLEAN
         /\ Tracked \in BulkItem /\ Bound \in BulkItem /\ Recorded \in BulkItem
         /\ Tracked # None /\ Bound # None /\ Recorded # None
         /\ \A b \in {Tracked, Bound, Recorded} :
              b.import = bulk.import /\ b.captured = bulk.captured /\ b.applied = bulk.applied
         /\ Tracked.bound = bulk.bound /\ Tracked.result = bulk.result
         /\ Bound.bound /\ Bound.result = bulk.result
         /\ Recorded.bound = bulk.bound /\ Recorded.result
  <1>1. Tracked \in BulkItem /\ Bound \in BulkItem /\ Recorded \in BulkItem
    BY DEF Tracked, Bound, Recorded, BulkItem
  <1>2. bulk # None /\ Tracked # None /\ Bound # None /\ Recorded # None
    BY <1>1, NoneAssumption
  <1>3. \A b \in {Tracked, Bound, Recorded} :
          b.import = bulk.import /\ b.captured = bulk.captured /\ b.applied = bulk.applied
    BY DEF Tracked, Bound, Recorded, BulkItem
  <1>4. /\ Tracked.bound = bulk.bound /\ Tracked.result = bulk.result
        /\ Bound.bound /\ Bound.result = bulk.result
        /\ Recorded.bound = bulk.bound /\ Recorded.result
    BY DEF Tracked, Bound, Recorded, BulkItem
  <1>5. QED
    BY <1>1, <1>2, <1>3, <1>4 DEF BulkItem

RunTyped == pc \in Steps /\ batchOnly \in BOOLEAN /\ scanned \in BOOLEAN

LEMMA GotoIs ==
  ASSUME RunTyped, NEW step \in Steps, Goto(step)
  PROVE  RunTyped' /\ pc' = step
  BY DEF RunTyped, Goto

DataTyped ==
  /\ disk \in [Items -> 0..MaxRevision] /\ edits \in 0..MaxEdits
  /\ catalog \in [Items -> 0..MaxRevision]
  /\ answers \in [BatchIds -> (SUBSET Items) \cup {None}]
  /\ manifest \in [Imports -> Changes]
  /\ rejected \in [Imports -> SUBSET Items]
  /\ late \subseteq Imports /\ strays \subseteq Imports
  /\ known \in [Items -> 0..MaxRevision]
  /\ givenUp \subseteq Items

BulkTyped == bulk \in BulkItem \cup {None}

LEMMA TypedIs ==
  Queue(outbox) => (TypeOK <=> DataTyped /\ BulkTyped /\ RunTyped)
  BY DEF Queue, TypeOK, DataTyped, BulkTyped, RunTyped

LEMMA TypedNext ==
  Queue(outbox)' => (TypeOK' <=> DataTyped' /\ BulkTyped' /\ RunTyped')
  BY TypedIs, PTL

\* A step of the client that leaves the server alone, and what it must keep of
\* its import.
Client ==
  /\ UNCHANGED <<disk, edits, catalog, answers, status, merges, manifest, rejected, late, strays>>
  /\ bulk' # None =>
       /\ bulk # None /\ bulk' \in BulkItem /\ bulk'.import = bulk.import
       /\ bulk'.bound = bulk.bound
       /\ bulk'.applied # {} \/ bulk'.result \/ pc' \in {"Fetch", "Apply"} =>
            status[bulk.import] = "Succeeded" /\ rejected[bulk.import] = {}
  /\ bulk # None /\ bulk' = None /\ bulk.bound => status[bulk.import] # "Working"

LEMMA ClientKeeps ==
  ASSUME IInv, Client
  PROVE  ServerInv' /\ BulkTyped'
  <1>0. Told /\ Promised
    BY DEF IInv, ServerInv
  <1>1. Told'
    BY <1>0 DEF Client, Told
  <1>2. ASSUME NEW j \in Imports PROVE Served1(j)'
    <2>1. Served1(j)
      BY <1>0 DEF Promised
    <2>2. ASSUME status[j] = "Working", j \notin strays
          PROVE  bulk' # None /\ bulk'.import = j /\ bulk'.bound
      <3>1. bulk # None /\ bulk.import = j /\ bulk.bound
        BY <2>1, <2>2 DEF Served1
      <3>2. QED
        BY <2>2, <3>1 DEF Client
    <2>3. QED
      BY <2>1, <2>2 DEF Served1, Client
  <1>3. Promised'
    BY <1>0, <1>2 DEF Promised, Client
  <1>4. BulkTyped'
    BY DEF Client, BulkTyped
  <1>5. QED
    BY <1>1, <1>3, <1>4 DEF ServerInv

Same == UNCHANGED <<disk, edits, catalog, answers, manifest, rejected, late, strays, known, givenUp>>

LEMMA DataSame ==
  ASSUME DataTyped, Same
  PROVE  DataTyped'
  BY DEF DataTyped, Same

\* Steps that touch neither the data nor the outbox.
LEMMA QuietStep ==
  ASSUME IInv, Client, UNCHANGED <<outbox, known, givenUp>>, RunTyped', InHand',
         bulk' # None => bulk'.captured = bulk.captured /\ bulk'.applied = bulk.applied
  PROVE  IInv'
  <1>1. Quiet
    BY DEF Quiet, Client
  <1>2. QueueInv' /\ Queue(outbox)'
    BY <1>1, QuietKeeps DEF IInv, QueueInv
  <1>3. ServerInv' /\ BulkTyped'
    BY ClientKeeps
  <1>4. DataTyped
    BY TypedIs DEF IInv, QueueInv
  <1>5. DataTyped'
    BY <1>4, DataSame DEF Client, Same
  <1>6. TypeOK'
    BY <1>2, <1>3, <1>5, TypedNext
  <1>7. QED
    BY <1>2, <1>3, <1>6 DEF IInv

LEMMA IInvMeans ==
  ASSUME IInv
  PROVE  /\ Queue(outbox) /\ Places /\ DataTyped /\ BulkTyped /\ RunTyped
         /\ Told /\ Promised /\ InHand
         /\ (bulk # None => bulk \in BulkItem)
  BY PlacesAre, TypedIs DEF IInv, QueueInv, ServerInv, BulkTyped

LEMMA EditKeeps ==
  ASSUME IInv, NEW x \in Items, Edit(x)
  PROVE  IInv'
  <1>1. UNCHANGED <<server, local, run, givenUp>>
    BY DEF Edit
  <1>2. /\ UNCHANGED <<catalog, answers, status, merges, manifest, rejected, late, strays>>
        /\ UNCHANGED <<known, outbox, bulk, pc, batchOnly, scanned, givenUp>>
    BY <1>1 DEF server, local, run
  <1>3. Queue(outbox) /\ DataTyped /\ BulkTyped /\ RunTyped /\ Told /\ Promised /\ InHand /\ QueueInv
    BY IInvMeans DEF IInv
  <1>4. QueueInv'
    BY <1>2, <1>3, QuietKeeps DEF Quiet
  <1>5. Told' /\ Promised' /\ InHand'
    BY <1>2, <1>3 DEF Told, Promised, Served1, InHand, Waiting, Batches
  <1>6. DataTyped'
    <2>1. disk' \in [Items -> 0..MaxRevision]
      BY <1>3 DEF Edit, DataTyped
    <2>2. edits' \in 0..MaxEdits
      BY <1>3, BoundsAssumption DEF Edit, DataTyped
    <2>3. QED
      BY <1>2, <1>3, <2>1, <2>2 DEF DataTyped
  <1>7. BulkTyped' /\ RunTyped' /\ Queue(outbox)'
    BY <1>2, <1>3, <1>4 DEF BulkTyped, RunTyped, QueueInv
  <1>8. QED
    BY <1>4, <1>5, <1>6, <1>7, TypedNext DEF IInv, ServerInv

\* The import stays as it is, or is given up without working.
Keeps ==
  /\ UNCHANGED <<folder, server, known, outbox, givenUp>>
  /\ \/ UNCHANGED bulk
     \/ bulk # None /\ bulk' = Tracked
     \/ bulk' = None /\ (bulk # None /\ bulk.bound => status[bulk.import] # "Working")

LEMMA KeepsMeans ==
  ASSUME IInv, Keeps,
         bulk' # None /\ pc' \in {"Fetch", "Apply"} =>
           status[bulk.import] = "Succeeded" /\ rejected[bulk.import] = {}
  PROVE  /\ Client /\ UNCHANGED <<outbox, known, givenUp, Waiting>>
         /\ bulk' # None => /\ bulk # None /\ bulk'.bound = bulk.bound
                            /\ bulk'.captured = bulk.captured /\ bulk'.applied = bulk.applied
  <1>0. Told /\ (bulk # None => bulk \in BulkItem)
    BY IInvMeans
  <1>1. UNCHANGED <<disk, edits, catalog, answers, status, merges, manifest, rejected, late, strays, outbox, known, givenUp>>
    BY DEF Keeps, folder, server
  <1>2. bulk' # None =>
          /\ bulk # None /\ bulk' \in BulkItem /\ bulk'.import = bulk.import /\ bulk'.bound = bulk.bound
          /\ bulk'.captured = bulk.captured /\ bulk'.applied = bulk.applied /\ bulk'.result = bulk.result
    BY <1>0, BulkIs DEF Keeps
  <1>3. bulk # None /\ bulk' = None /\ bulk.bound => status[bulk.import] # "Working"
    <2>1. bulk # None => Tracked # None
      BY <1>0, BulkIs
    <2>2. QED
      BY <2>1 DEF Keeps
  <1>4. bulk' # None /\ (bulk'.applied # {} \/ bulk'.result \/ pc' \in {"Fetch", "Apply"}) =>
          status[bulk.import] = "Succeeded" /\ rejected[bulk.import] = {}
    BY <1>0, <1>2 DEF Told
  <1>5. UNCHANGED Waiting
    BY <1>1 DEF Waiting, Batches
  <1>6. QED
    BY <1>1, <1>2, <1>3, <1>4, <1>5 DEF Client

LEMMA StartKeeps ==
  ASSUME IInv, NEW only \in BOOLEAN, StartRun(only)
  PROVE  IInv'
  <1>0. Places /\ RunTyped
    BY IInvMeans
  <1>1. pc' \in {"Scan", "Deliver"} /\ batchOnly' = only /\ scanned' = FALSE /\ (pc' = "Scan" => Pending = {})
    BY DEF StartRun, FirstStep
  <1>2. Keeps
    BY DEF StartRun, Keeps, local
  <1>3. /\ Client /\ UNCHANGED <<outbox, known, givenUp, Waiting>>
        /\ bulk' # None => bulk'.captured = bulk.captured /\ bulk'.applied = bulk.applied
    BY <1>1, <1>2, KeepsMeans
  <1>4. RunTyped'
    BY <1>1 DEF RunTyped, Steps
  <1>5. InHand'
    BY <1>0, <1>1, <1>3 DEF InHand, Places
  <1>6. QED
    BY <1>3, <1>4, <1>5, QuietStep

LEMMA StopKeeps ==
  ASSUME IInv, Stop
  PROVE  IInv'
  <1>1. RunTyped' /\ pc' = "Idle"
    BY IInvMeans, GotoIs DEF Stop, Steps
  <1>2. Keeps
    BY DEF Stop, Keeps, local
  <1>3. /\ Client /\ UNCHANGED <<outbox, known, givenUp, Waiting>>
        /\ bulk' # None => bulk'.captured = bulk.captured /\ bulk'.applied = bulk.applied
    BY <1>1, <1>2, KeepsMeans
  <1>4. InHand'
    BY <1>1 DEF InHand
  <1>5. QED
    BY <1>1, <1>3, <1>4, QuietStep

LEMMA ResumeKeeps ==
  ASSUME IInv, ResumeOrEscape
  PROVE  IInv'
  <1>0. bulk \in BulkItem /\ bulk # None /\ RunTyped
    BY IInvMeans DEF ResumeOrEscape
  <1>1. Keeps
    BY DEF ResumeOrEscape, Keeps, StillWorking, GiveUp
  <1>2. \/ Goto("Watch") /\ bulk' = bulk /\ bulk.bound
        \/ Goto("Create") /\ bulk' = bulk /\ ~bulk.bound
        \/ Goto("Idle")
        \/ Goto("Watch") /\ bulk' = Tracked /\ bulk.bound
        \/ Goto("Flush") /\ bulk' = None
    BY DEF ResumeOrEscape, GiveUp
  <1>3. RunTyped'
    BY <1>0, <1>2, GotoIs DEF Steps
  <1>4. /\ pc' \in {"Watch", "Create", "Idle", "Flush"}
        /\ pc' = "Watch" => bulk' # None /\ bulk'.bound
        /\ pc' = "Create" => bulk' # None /\ ~bulk'.bound
        /\ pc' = "Flush" => bulk' = None
    BY <1>0, <1>2, BulkIs DEF Goto
  <1>5. /\ Client /\ UNCHANGED <<outbox, known, givenUp, Waiting>>
        /\ bulk' # None => bulk'.captured = bulk.captured /\ bulk'.applied = bulk.applied
    BY <1>1, <1>4, KeepsMeans
  <1>6. InHand'
    BY <1>4 DEF InHand
  <1>7. QED
    BY <1>3, <1>5, <1>6, QuietStep

LEMMA TakeKeeps ==
  ASSUME IInv, TakeBatches
  PROVE  IInv'
  <1>1. RunTyped' /\ pc' = "Flush" /\ bulk' = None
    BY IInvMeans, GotoIs DEF TakeBatches, local, Steps
  <1>2. Keeps
    BY DEF TakeBatches, Keeps, local
  <1>3. /\ Client /\ UNCHANGED <<outbox, known, givenUp, Waiting>>
        /\ bulk' # None => bulk'.captured = bulk.captured /\ bulk'.applied = bulk.applied
    BY <1>1, <1>2, KeepsMeans
  <1>4. InHand'
    BY <1>1 DEF InHand
  <1>5. QED
    BY <1>1, <1>3, <1>4, QuietStep

LEMMA FlushedKeeps ==
  ASSUME IInv, Flushed
  PROVE  IInv'
  <1>0. Places /\ RunTyped
    BY IInvMeans
  <1>1. RunTyped' /\ pc' \in {"Idle", "Scan"} /\ Pending = {}
    BY <1>0, GotoIs DEF Flushed, Delivered, Steps
  <1>2. Keeps
    BY DEF Flushed, Keeps, local
  <1>3. /\ Client /\ UNCHANGED <<outbox, known, givenUp, Waiting>>
        /\ bulk' # None => bulk'.captured = bulk.captured /\ bulk'.applied = bulk.applied
    BY <1>1, <1>2, KeepsMeans
  <1>4. InHand'
    BY <1>0, <1>1, <1>3 DEF InHand, Places
  <1>5. QED
    BY <1>1, <1>3, <1>4, QuietStep

LEMMA WatchKeeps ==
  ASSUME IInv, Watch
  PROVE  IInv'
  <1>0. bulk \in BulkItem /\ bulk # None /\ bulk.bound /\ RunTyped
    BY IInvMeans DEF Watch, InHand
  <1>1. UNCHANGED <<folder, server, known, outbox, givenUp>>
    <2>1. UNCHANGED <<disk, edits, catalog, answers, manifest, rejected, late, strays, known, outbox, givenUp, status, merges>>
      BY DEF Watch, ImportUnchanged, folder
    <2>2. QED
      BY <2>1 DEF folder, server
  <1>2. \/ Goto("Upload") /\ bulk' = Tracked
        \/ UNCHANGED run /\ bulk' = Tracked
        \/ /\ status[bulk.import] = "Succeeded" /\ rejected[bulk.import] = {}
           /\ Goto("Fetch") /\ bulk' = Tracked
        \/ Goto("Flush") /\ bulk' = None /\ status[bulk.import] # "Working"
    BY DEF Watch, GiveUp, Hopeless
  <1>3. Keeps
    BY <1>0, <1>1, <1>2 DEF Keeps
  <1>4. RunTyped'
    BY <1>0, <1>2, GotoIs DEF Steps, RunTyped, run
  <1>5. /\ pc' \in {"Upload", "Watch", "Fetch", "Flush"}
        /\ pc' # "Flush" => bulk' # None /\ bulk'.bound
        /\ pc' = "Flush" => bulk' = None
        /\ pc' = "Fetch" => status[bulk.import] = "Succeeded" /\ rejected[bulk.import] = {}
    BY <1>0, <1>2, BulkIs DEF Goto, Watch, run
  <1>6. /\ Client /\ UNCHANGED <<outbox, known, givenUp, Waiting>>
        /\ bulk' # None => bulk'.captured = bulk.captured /\ bulk'.applied = bulk.applied
    BY <1>3, <1>5, KeepsMeans
  <1>7. InHand'
    BY <1>5 DEF InHand
  <1>8. QED
    BY <1>4, <1>6, <1>7, QuietStep

LEMMA AbandonKeeps ==
  ASSUME IInv, AbandonUpload
  PROVE  IInv'
  <1>0. RunTyped
    BY IInvMeans
  <1>1. UNCHANGED <<folder, server, known, outbox, givenUp>>
    <2>1. UNCHANGED <<disk, edits, catalog, answers, manifest, rejected, late, strays, known, outbox, givenUp, status, merges>>
      BY DEF AbandonUpload, ImportUnchanged, folder
    <2>2. QED
      BY <2>1 DEF folder, server
  <1>2. Goto("Flush") /\ bulk' = None /\ status[bulk.import] = "AwaitingUpload"
    BY DEF AbandonUpload, GiveUp
  <1>3. Keeps
    BY <1>1, <1>2 DEF Keeps
  <1>4. RunTyped' /\ pc' = "Flush"
    BY <1>0, <1>2, GotoIs DEF Steps
  <1>5. /\ Client /\ UNCHANGED <<outbox, known, givenUp, Waiting>>
        /\ bulk' # None => bulk'.captured = bulk.captured /\ bulk'.applied = bulk.applied
    BY <1>3, <1>4, KeepsMeans
  <1>6. InHand'
    BY <1>2, <1>4 DEF InHand
  <1>7. QED
    BY <1>4, <1>5, <1>6, QuietStep

LEMMA FetchKeeps ==
  ASSUME IInv, Fetch
  PROVE  IInv'
  <1>0. /\ bulk \in BulkItem /\ bulk # None /\ bulk.bound /\ RunTyped /\ pc = "Fetch"
        /\ status[bulk.import] = "Succeeded" /\ rejected[bulk.import] = {}
    BY IInvMeans DEF Fetch, DownloadResult, UseSavedResult, RejectResult, InHand, Told
  <1>1. UNCHANGED <<disk, edits, catalog, answers, manifest, rejected, late, strays, known, outbox, givenUp, status, merges>>
    BY DEF Fetch, DownloadResult, UseSavedResult, RejectResult, ImportUnchanged, folder
  <1>2. \/ Goto("Apply") /\ bulk' = Recorded
        \/ Goto("Apply") /\ bulk' = bulk
        \/ Goto("Flush") /\ bulk' = None
    BY DEF Fetch, DownloadResult, UseSavedResult, RejectResult, GiveUp
  <1>3. RunTyped' /\ pc' \in {"Apply", "Flush"} /\ (pc' = "Flush" => bulk' = None) /\ (pc' = "Apply" => bulk' # None)
    BY <1>0, <1>2, GotoIs, BulkIs DEF Steps
  <1>4. bulk' # None =>
          /\ bulk' \in BulkItem /\ bulk'.import = bulk.import /\ bulk'.bound = bulk.bound
          /\ bulk'.captured = bulk.captured /\ bulk'.applied = bulk.applied
    BY <1>0, <1>2, BulkIs
  <1>5. Client
    BY <1>0, <1>1, <1>4 DEF Client
  <1>6. InHand'
    BY <1>0, <1>3, <1>4 DEF InHand
  <1>7. QED
    BY <1>1, <1>3, <1>4, <1>5, <1>6, QuietStep

\* Steps of the server that merge nothing.
LEMMA ServerStep ==
  ASSUME IInv, Same, UNCHANGED <<outbox, merges>>, ServerInv', BulkTyped', RunTyped', InHand',
         bulk' # None => /\ bulk # None /\ bulk'.import = bulk.import
                         /\ bulk'.captured = bulk.captured /\ bulk'.applied = bulk.applied
  PROVE  IInv'
  <1>1. Quiet
    BY DEF Quiet, Same
  <1>2. QueueInv' /\ Queue(outbox)'
    BY <1>1, QuietKeeps DEF IInv, QueueInv
  <1>3. DataTyped'
    BY IInvMeans, DataSame
  <1>4. TypeOK'
    BY <1>2, <1>3, TypedNext
  <1>5. QED
    BY <1>2, <1>4 DEF IInv

LEMMA CreateKeeps ==
  ASSUME IInv, CreateImport
  PROVE  IInv'
  <1> DEFINE i == bulk.import
  <1>0. /\ bulk \in BulkItem /\ bulk # None /\ ~bulk.bound /\ RunTyped /\ i \in Imports /\ Told /\ Promised /\ InHand
    BY IInvMeans, BulkIs DEF CreateImport, InHand
  <1>1. UNCHANGED <<disk, edits, catalog, answers, manifest, rejected, late, strays, known, outbox, givenUp>>
    BY DEF CreateImport, ImportUnchanged, folder
  <1>2. CASE Goto("Flush") /\ GiveUp /\ UNCHANGED <<status, merges>>
    <2>1. Keeps
      BY <1>0, <1>1, <1>2 DEF Keeps, GiveUp, folder, server
    <2>2. RunTyped' /\ pc' = "Flush" /\ bulk' = None
      BY <1>0, <1>2, GotoIs DEF Steps, GiveUp
    <2>3. /\ Client /\ UNCHANGED <<outbox, known, givenUp, Waiting>>
          /\ bulk' # None => bulk'.captured = bulk.captured /\ bulk'.applied = bulk.applied
      BY <2>1, <2>2, KeepsMeans
    <2>4. InHand'
      BY <2>2 DEF InHand
    <2>5. QED
      BY <2>2, <2>3, <2>4, QuietStep
  <1>3. CASE /\ Service!Create(i) \/ (status[i] # "None" /\ UNCHANGED <<status, merges>>)
             /\ \/ Goto("Watch") /\ bulk' = Bound
                \/ Goto("Idle") /\ UNCHANGED bulk
    <2>1. /\ status' \in [Imports -> Service!Statuses] /\ UNCHANGED merges /\ status'[i] # "None"
          /\ \A j \in Imports : /\ status'[j] \in {"None", "AwaitingUpload"} => status[j] \in {"None", "AwaitingUpload"}
                                /\ status'[j] = "Working" => status[j] = "Working"
                                /\ status'[j] = "Succeeded" => status[j] = "Succeeded"
                                /\ status'[j] = "None" => status[j] = "None"
          /\ status[i] = "Succeeded" => status'[i] = "Succeeded"
      <3>1. CASE Service!Create(i)
        BY <1>0, <3>1 DEF Service!Create, Promised, Service!Statuses
      <3>2. CASE status[i] # "None" /\ UNCHANGED <<status, merges>>
        BY <1>0, <3>2 DEF Promised
      <3>3. QED
        BY <1>3, <3>1, <3>2
    <2>2. /\ bulk' # None /\ bulk' \in BulkItem /\ bulk'.import = i
          /\ bulk'.captured = bulk.captured /\ bulk'.applied = bulk.applied /\ bulk'.result = bulk.result
      BY <1>0, <1>3, BulkIs
    <2>3. RunTyped' /\ pc' \in {"Watch", "Idle"} /\ (pc' = "Watch" => bulk'.bound)
      BY <1>0, <1>3, GotoIs, BulkIs DEF Steps
    <2>4. Told'
      BY <1>0, <1>1, <2>1, <2>2, <2>3 DEF Told
    <2>5. ASSUME NEW j \in Imports PROVE Served1(j)'
      <3>1. status[j] = "Working" => j \in strays
        BY <1>0 DEF Promised, Served1
      <3>2. QED
        BY <1>0, <1>1, <2>1, <3>1 DEF Promised, Served1
    <2>6. Promised'
      BY <1>0, <2>1, <2>5 DEF Promised
    <2>7. InHand'
      BY <2>2, <2>3 DEF InHand
    <2>8. QED
      BY <1>0, <1>1, <2>1, <2>2, <2>3, <2>4, <2>6, <2>7, ServerStep DEF Same, ServerInv, BulkTyped
  <1>4. QED
    BY <1>2, <1>3 DEF CreateImport

LEMMA SubmitIs ==
  ASSUME Promised, NEW i \in Imports, Service!Submit(i)
  PROVE  /\ status' \in [Imports -> Service!Statuses] /\ UNCHANGED merges
         /\ status[i] = "AwaitingUpload" /\ merges[i] = 0
         /\ \A j \in Imports : status'[j] = IF j = i THEN "Working" ELSE status[j]
  BY DEF Promised, Served1, Service!Submit, Service!Become, Service!Statuses

LEMMA CompleteKeeps ==
  ASSUME IInv, CompleteImport
  PROVE  IInv'
  <1> DEFINE i == bulk.import
  <1>0. /\ bulk \in BulkItem /\ bulk # None /\ bulk.bound /\ RunTyped /\ i \in Imports /\ Told /\ Promised
    BY IInvMeans, BulkIs DEF CompleteImport, InHand
  <1>1. UNCHANGED <<disk, edits, catalog, answers, manifest, rejected, late, strays, known, outbox, givenUp>>
    BY DEF CompleteImport, ImportUnchanged, folder
  <1>2. RunTyped' /\ pc' \in {"Watch", "Idle"} /\ bulk' = bulk
    BY <1>0, GotoIs DEF Steps, CompleteImport
  <1>3. InHand'
    BY <1>0, <1>2 DEF InHand
  <1>4. Told' /\ Promised' /\ UNCHANGED merges
    <2>1. CASE Service!Submit(i)
      <3>1. /\ status' \in [Imports -> Service!Statuses] /\ UNCHANGED merges
            /\ status[i] = "AwaitingUpload" /\ merges[i] = 0
            /\ \A j \in Imports : status'[j] = IF j = i THEN "Working" ELSE status[j]
        BY <1>0, <2>1, SubmitIs
      <3>2. Told'
        BY <1>0, <1>1, <1>2, <3>1 DEF Told
      <3>3. \A j \in Imports : Served1(j)'
        BY <1>0, <1>1, <1>2, <3>1 DEF Promised, Served1
      <3>4. QED
        BY <1>0, <3>1, <3>2, <3>3 DEF Promised
    <2>2. CASE UNCHANGED <<status, merges>>
      BY <1>0, <1>1, <1>2, <2>2 DEF Told, Promised, Served1
    <2>3. QED
      BY <2>1, <2>2 DEF CompleteImport
  <1>5. QED
    BY <1>0, <1>1, <1>2, <1>3, <1>4, ServerStep DEF Same, ServerInv, BulkTyped

LEMMA LeaveKeeps ==
  ASSUME IInv, LeaveCompletion
  PROVE  IInv'
  <1> DEFINE i == bulk.import
  <1>0. /\ bulk \in BulkItem /\ bulk # None /\ bulk.bound /\ RunTyped /\ i \in Imports /\ Told /\ Promised
        /\ QueueInv /\ DataTyped
    BY IInvMeans, BulkIs DEF LeaveCompletion, InHand, IInv
  <1>1. /\ UNCHANGED <<disk, edits, catalog, answers, manifest, rejected, strays, known, outbox, givenUp, status, merges, bulk>>
        /\ late' = late \cup {i}
    BY DEF LeaveCompletion, folder, local
  <1>2. RunTyped' /\ pc' = "Idle"
    BY <1>0, GotoIs DEF Steps, LeaveCompletion
  <1>3. InHand'
    BY <1>2 DEF InHand
  <1>4. Told' /\ Promised'
    BY <1>0, <1>1, <1>2 DEF Told, Promised, Served1
  <1>5. QueueInv' /\ Queue(outbox)'
    BY <1>0, <1>1, QuietKeeps DEF Quiet, QueueInv
  <1>6. DataTyped' /\ BulkTyped'
    BY <1>0, <1>1 DEF DataTyped, BulkTyped
  <1>7. QED
    BY <1>2, <1>3, <1>4, <1>5, <1>6, TypedNext DEF IInv, ServerInv

LEMMA LateStays ==
  ASSUME IInv, NEW j \in Imports, LateCompletion(j)
  PROVE  IInv'
  <1>0. /\ RunTyped /\ Told /\ Promised /\ QueueInv /\ DataTyped /\ BulkTyped /\ InHand
        /\ (bulk # None => bulk \in BulkItem /\ bulk.import \in Imports)
    BY IInvMeans, BulkIs DEF IInv
  <1>1. /\ UNCHANGED <<disk, edits, catalog, answers, manifest, rejected, known, outbox, givenUp, bulk, pc, batchOnly, scanned>>
        /\ j \in late /\ late' = late \ {j}
    BY DEF LateCompletion, folder, local, run
  <1>2. InHand' /\ RunTyped' /\ BulkTyped'
    BY <1>0, <1>1 DEF InHand, RunTyped, BulkTyped, Waiting, Batches
  <1>3. Told' /\ Promised' /\ strays' \subseteq Imports
    <2>1. CASE status[j] = "AwaitingUpload"
      <3>1. /\ status' \in [Imports -> Service!Statuses] /\ UNCHANGED merges
            /\ merges[j] = 0
            /\ \A k \in Imports : status'[k] = IF k = j THEN "Working" ELSE status[k]
        BY <1>0, <2>1, SubmitIs DEF LateCompletion
      <3>2. strays' = IF bulk # None /\ bulk.import = j THEN strays ELSE strays \cup {j}
        BY <2>1 DEF LateCompletion
      <3>3. bulk # None /\ bulk.import = j => bulk.bound
        BY <1>0, <1>1 DEF Told
      <3>4. Told'
        BY <1>0, <1>1, <2>1, <3>1, <3>2 DEF Told
      <3>5. \A k \in Imports : Served1(k)'
        <4> SUFFICES ASSUME NEW k \in Imports PROVE Served1(k)'
          OBVIOUS
        <4>1. Served1(k)
          BY <1>0 DEF Promised
        <4>2. CASE k = j
          BY <1>1, <3>1, <3>2, <3>3, <4>1, <4>2 DEF Served1
        <4>3. CASE k # j
          BY <1>1, <3>1, <3>2, <4>1, <4>3 DEF Served1
        <4>4. QED
          BY <4>2, <4>3
      <3>6. QED
        BY <1>0, <3>1, <3>2, <3>4, <3>5 DEF Promised, DataTyped
    <2>2. CASE status[j] # "AwaitingUpload"
      <3>1. UNCHANGED <<status, merges, strays>>
        BY <2>2 DEF LateCompletion
      <3>2. QED
        BY <1>0, <1>1, <3>1 DEF Told, Promised, Served1, DataTyped
    <2>3. QED
      BY <2>1, <2>2
  <1>4. QueueInv' /\ Queue(outbox)'
    BY LateKeeps DEF QueueInv
  <1>5. DataTyped'
    BY <1>0, <1>1, <1>3 DEF DataTyped
  <1>6. QED
    BY <1>2, <1>3, <1>4, <1>5, TypedNext DEF IInv, ServerInv

LEMMA MergeStays ==
  ASSUME IInv, NEW j \in Imports, MergeImport(j)
  PROVE  IInv'
  <1>0. /\ RunTyped /\ Told /\ Promised /\ DataTyped /\ BulkTyped /\ InHand
        /\ (bulk # None => bulk \in BulkItem /\ bulk.import \in Imports)
    BY IInvMeans, BulkIs
  <1>1. /\ UNCHANGED <<disk, edits, answers, manifest, late, strays, known, outbox, givenUp, status, bulk, pc, batchOnly, scanned>>
        /\ status[j] = "Working" /\ merges' = [merges EXCEPT ![j] = 1]
        /\ catalog' = Applied(manifest[j]) /\ rejected' = [rejected EXCEPT ![j] = Refused(manifest[j])]
    BY DEF MergeImport, Service!Merge, folder, local, run
  <1>2. InHand' /\ RunTyped' /\ BulkTyped'
    BY <1>0, <1>1 DEF InHand, RunTyped, BulkTyped, Waiting, Batches
  <1>3. Promised'
    BY <1>0, <1>1 DEF Promised, Served1
  <1>4. Told'
    <2>1. bulk # None /\ status[bulk.import] = "Succeeded" => rejected'[bulk.import] = rejected[bulk.import]
      BY <1>0, <1>1 DEF DataTyped
    <2>2. QED
      BY <1>0, <1>1, <2>1 DEF Told
  <1>5. DataTyped'
    <2>1. manifest[j] \in Changes
      BY <1>0 DEF DataTyped
    <2>2. catalog' \in [Items -> 0..MaxRevision] /\ Refused(manifest[j]) \subseteq DOMAIN manifest[j]
      BY <1>0, <1>1, <2>1, AppliedIs DEF DataTyped
    <2>3. rejected' \in [Imports -> SUBSET Items]
      BY <1>0, <1>1, <2>1, <2>2, ChangesAre DEF DataTyped
    <2>4. QED
      BY <1>0, <1>1, <2>2, <2>3 DEF DataTyped
  <1>6. QueueInv' /\ Queue(outbox)'
    BY MergeKeeps DEF QueueInv
  <1>7. QED
    BY <1>2, <1>3, <1>4, <1>5, <1>6, TypedNext DEF IInv, ServerInv

LEMMA EndKeeps ==
  ASSUME IInv, NEW j \in Imports, EndImport(j)
  PROVE  IInv'
  <1>0. /\ RunTyped /\ Told /\ Promised /\ BulkTyped /\ InHand
        /\ (bulk # None => bulk \in BulkItem /\ bulk.import \in Imports)
    BY IInvMeans, BulkIs
  <1>1. /\ UNCHANGED <<disk, edits, catalog, answers, manifest, rejected, late, strays, known, outbox, givenUp, bulk, pc, batchOnly, scanned>>
        /\ status[j] = "Working" /\ UNCHANGED merges
        /\ \/ merges[j] = 1 /\ status' = [status EXCEPT ![j] = "Succeeded"]
           \/ status' = [status EXCEPT ![j] = "Failed"]
    BY DEF EndImport, Service!Succeed, Service!Fail, Service!Become, folder, local, run
  <1>2. InHand' /\ RunTyped' /\ BulkTyped'
    BY <1>0, <1>1 DEF InHand, RunTyped, BulkTyped, Waiting, Batches
  <1>3. Promised'
    <2>1. status' \in [Imports -> Service!Statuses]
      BY <1>0, <1>1 DEF Promised, Service!Statuses
    <2>2. \A k \in Imports : Served1(k)'
      BY <1>0, <1>1 DEF Promised, Served1
    <2>3. QED
      BY <1>0, <1>1, <2>1, <2>2 DEF Promised
  <1>4. Told'
    <2>1. bulk # None => /\ status'[bulk.import] # status[bulk.import] => status[bulk.import] = "Working"
                         /\ status'[bulk.import] = "None" => status[bulk.import] = "None"
      BY <1>0, <1>1 DEF Promised
    <2>2. QED
      BY <1>0, <1>1, <2>1 DEF Told
  <1>5. QED
    BY <1>0, <1>1, <1>2, <1>3, <1>4, ServerStep DEF Same, ServerInv

LEMMA PrepareStays ==
  ASSUME IInv, NEW i \in Imports, PrepareBulk(i)
  PROVE  IInv'
  <1>0. RunTyped /\ Told /\ Promised /\ DataTyped
    BY IInvMeans
  <1>1. /\ UNCHANGED <<disk, edits, catalog, answers, status, merges, rejected, late, strays, known, outbox, givenUp>>
        /\ status[i] = "None"
    BY DEF PrepareBulk, folder
  <1>2. /\ bulk' # None /\ bulk'.import = i /\ ~bulk'.bound /\ ~bulk'.result /\ bulk'.applied = {}
    <2>1. bulk' # None
      BY PrepareKeeps, NoneAssumption
    <2>2. QED
      BY <2>1 DEF PrepareBulk
  <1>3. RunTyped' /\ pc' = "Create"
    BY <1>0, GotoIs DEF PrepareBulk, Steps
  <1>4. InHand'
    BY <1>2, <1>3 DEF InHand
  <1>5. i \notin late /\ i \notin strays
    BY <1>0, <1>1 DEF Promised, Served1
  <1>6. Told'
    BY <1>1, <1>2, <1>3, <1>5 DEF Told
  <1>7. Promised'
    <2>1. bulk = None
      BY DEF PrepareBulk
    <2>2. QED
      BY <1>0, <1>1, <2>1 DEF Promised, Served1
  <1>8. QueueInv' /\ Queue(outbox)' /\ DataTyped' /\ BulkTyped'
    BY <1>0, <1>1, PrepareKeeps DEF QueueInv, DataTyped, BulkTyped
  <1>9. QED
    BY <1>3, <1>4, <1>6, <1>7, <1>8, TypedNext DEF IInv, ServerInv

\* Steps on the batches while no import is active.
LEMMA BatchStep ==
  ASSUME IInv, QueueInv', DataTyped', RunTyped', InHand', bulk = None, bulk' = None,
         UNCHANGED <<status, merges, late, strays>>
  PROVE  IInv'
  <1>0. Promised
    BY IInvMeans
  <1>1. Told' /\ Promised' /\ BulkTyped'
    BY <1>0 DEF Told, Promised, Served1, BulkTyped
  <1>2. Queue(outbox)'
    BY DEF QueueInv
  <1>3. QED
    BY <1>1, <1>2, TypedNext DEF IInv, ServerInv

LEMMA SplitStays ==
  ASSUME IInv, Split
  PROVE  IInv'
  <1>0. /\ Queue(outbox) /\ RunTyped /\ DataTyped /\ bulk = None /\ pc = "Flush"
    BY IInvMeans DEF Split, InHand
  <1>1. UNCHANGED <<disk, edits, catalog, status, merges, manifest, rejected, late, strays, known, bulk, pc, batchOnly, scanned, givenUp>>
    BY DEF Split, folder, run
  <1>2. PICK b \in Waiting : \E new : /\ Becomes({b}, new) /\ Shares(new, b.changes)
                                      /\ answers' = [answers EXCEPT ![b.id] = None]
    BY <1>0, SplitBecomes
  <1>3. QueueInv'
    BY <1>0, <1>1, <1>2, SplitKeeps
  <1>4. DataTyped'
    BY <1>0, <1>1, <1>2 DEF DataTyped
  <1>5. RunTyped' /\ InHand'
    BY <1>0, <1>1 DEF RunTyped, InHand
  <1>6. QED
    BY <1>0, <1>1, <1>3, <1>4, <1>5, BatchStep

LEMMA SubmitStays ==
  ASSUME IInv, SubmitBatch
  PROVE  IInv'
  <1> DEFINE b == outbox[Turn]
             A == Answer(b)
  <1>0. /\ Queue(outbox) /\ RunTyped /\ DataTyped /\ bulk = None /\ pc = "Flush" /\ Pending # {}
    BY IInvMeans DEF SubmitBatch, Sending, InHand
  <1>1. b \in Waiting /\ b \in Batches
    BY <1>0, TurnIs
  <1>2. /\ UNCHANGED <<disk, edits, status, merges, manifest, rejected, late, strays, bulk, pc, batchOnly, scanned>>
        /\ catalog' = Served(b) /\ Acknowledge(Turn, A) /\ answers' = [answers EXCEPT ![b.id] = None]
    BY DEF SubmitBatch, folder, run
  <1>3. catalog' \in [Items -> 0..MaxRevision]
    BY <1>1, <1>2, ServedIs
  <1>4. known' \in [Items -> 0..MaxRevision] /\ givenUp' \subseteq Items
    <2>1. b.changes \in Changes
      BY <1>0, <1>1, BatchIs
    <2>2. \A x \in DOMAIN b.changes : (IF b.changes[x].gone THEN 0 ELSE b.changes[x].rev) \in 0..MaxRevision
      BY <2>1, ChangesAre, BoundsAssumption DEF Change, Revisions
    <2>3. /\ known' = [x \in Items |-> IF x \notin DOMAIN b.changes \ A THEN known[x]
                                       ELSE IF b.changes[x].gone THEN 0 ELSE b.changes[x].rev]
          /\ givenUp' = givenUp \ (DOMAIN b.changes \ A)
      BY <1>2 DEF Acknowledge
    <2> HIDE DEF b, A
    <2>4. QED
      BY <1>0, <2>2, <2>3 DEF DataTyped
  <1> HIDE DEF b, A
  <1>5. DataTyped'
    BY <1>0, <1>2, <1>3, <1>4 DEF DataTyped
  <1>6. RunTyped' /\ InHand'
    BY <1>0, <1>2 DEF RunTyped, InHand
  <1>7. QED
    BY <1>0, <1>2, <1>5, <1>6, SubmitKeeps, BatchStep

LEMMA RefuseStays ==
  ASSUME IInv, RefuseBatch
  PROVE  IInv'
  <1>0. /\ RunTyped /\ DataTyped /\ bulk = None /\ pc = "Flush"
    BY IInvMeans DEF RefuseBatch, Sending, InHand
  <1>1. UNCHANGED <<disk, edits, catalog, answers, status, merges, manifest, rejected, late, strays, known, bulk, pc, batchOnly, scanned, givenUp>>
    BY DEF RefuseBatch, folder, server, run
  <1>2. DataTyped' /\ RunTyped' /\ InHand'
    BY <1>0, <1>1 DEF DataTyped, RunTyped, InHand
  <1>3. QED
    BY <1>0, <1>1, <1>2, RefuseKeeps, BatchStep

LEMMA LostStays ==
  ASSUME IInv, AnswerLost
  PROVE  IInv'
  <1> DEFINE b == outbox[Turn]
  <1>0. /\ Queue(outbox) /\ RunTyped /\ DataTyped /\ bulk = None /\ Pending # {}
    BY IInvMeans DEF AnswerLost, Sending, InHand
  <1>1. b \in Waiting /\ b \in Batches
    BY <1>0, TurnIs
  <1>2. /\ UNCHANGED <<disk, edits, status, merges, manifest, rejected, late, strays, known, bulk, givenUp>>
        /\ catalog' = Served(b) /\ answers' = [answers EXCEPT ![b.id] = Answer(b)]
    BY DEF AnswerLost, folder, local
  <1>3. RunTyped' /\ pc' = "Idle"
    BY <1>0, GotoIs DEF AnswerLost, Steps
  <1>4. /\ catalog' \in [Items -> 0..MaxRevision] /\ Answer(b) \subseteq Items
    BY <1>0, <1>1, <1>2, ServedIs, BatchIs
  <1> HIDE DEF b
  <1>5. DataTyped'
    BY <1>0, <1>2, <1>4 DEF DataTyped
  <1>6. InHand'
    BY <1>3 DEF InHand
  <1>7. QED
    BY <1>0, <1>2, <1>3, <1>5, <1>6, LostKeeps, BatchStep

LEMMA DiscardStays ==
  ASSUME IInv, NEW n \in DOMAIN outbox, DiscardFailed(n)
  PROVE  IInv'
  <1> DEFINE b == outbox[n]
  <1>0. /\ Queue(outbox) /\ RunTyped /\ DataTyped /\ Told /\ Promised /\ InHand /\ BulkTyped
    BY IInvMeans
  <1>1. b \in Batches \ Waiting
    BY DEF DiscardFailed, FailedOnes, Waiting, Batches, Of
  <1>2. /\ UNCHANGED <<disk, edits, catalog, answers, status, merges, manifest, rejected, late, strays, known, bulk, pc, batchOnly, scanned>>
        /\ givenUp' = givenUp \cup b.failures
    BY DEF DiscardFailed, folder, server, run
  <1>3. Becomes({b}, {})
    BY <1>0, DropBecomes DEF DiscardFailed
  <1>4. b.failures \subseteq Items
    BY <1>0, <1>1, BatchIs
  <1> HIDE DEF b
  <1>5. Waiting' = Waiting
    BY <1>1, <1>3, BecomesMeans DEF Waiting
  <1>6. DataTyped' /\ RunTyped' /\ BulkTyped' /\ InHand' /\ Told' /\ Promised'
    <2>1. DataTyped'
      BY <1>0, <1>2, <1>4 DEF DataTyped
    <2>2. QED
      BY <1>0, <1>2, <1>5, <2>1 DEF RunTyped, BulkTyped, InHand, Told, Promised, Served1
  <1>7. QueueInv' /\ Queue(outbox)'
    BY DiscardKeeps DEF QueueInv
  <1>8. QED
    BY <1>6, <1>7, TypedNext DEF IInv, ServerInv

LEMMA ApplyStays ==
  ASSUME IInv, ApplyRow
  PROVE  IInv'
  <1>0. /\ bulk \in BulkItem /\ bulk # None /\ bulk.bound /\ RunTyped /\ DataTyped /\ Told /\ Promised /\ pc = "Apply"
        /\ status[bulk.import] = "Succeeded" /\ rejected[bulk.import] = {} /\ bulk.import \in Imports
        /\ manifest[bulk.import] \in Changes
    BY IInvMeans, BulkIs DEF ApplyRow, InHand, Told, DataTyped
  <1>1. UNCHANGED <<disk, edits, catalog, answers, status, merges, manifest, rejected, late, strays, outbox>>
    BY DEF ApplyRow, folder, server
  <1>2. PICK x \in ResultRows :
          IF bulk.ready
          THEN /\ known' = [known EXCEPT ![x] = manifest[bulk.import][x].rev]
               /\ bulk' = [bulk EXCEPT !.applied = @ \cup {x}]
               /\ givenUp' = givenUp \ {x}
               /\ UNCHANGED run
          ELSE Goto("Flush") /\ GiveUp /\ UNCHANGED <<known, givenUp>>
    BY DEF ApplyRow
  <1>3. x \in Items /\ manifest[bulk.import][x].rev \in 0..MaxRevision
    <2>1. x \in DOMAIN manifest[bulk.import]
      BY DEF ResultRows
    <2>2. x \in Items /\ manifest[bulk.import][x] \in Change
      BY <1>0, <2>1, ChangesAre
    <2>3. QED
      BY <2>2, BoundsAssumption DEF Change, Revisions
  <1>4. DataTyped'
    <2>1. known' \in [Items -> 0..MaxRevision] /\ givenUp' \subseteq Items
      BY <1>0, <1>2, <1>3 DEF DataTyped
    <2>2. QED
      BY <1>0, <1>1, <2>1 DEF DataTyped
  <1>5. CASE bulk.ready
    <2>1. bulk' = [bulk EXCEPT !.applied = @ \cup {x}] /\ UNCHANGED <<pc, batchOnly, scanned>>
      BY <1>2, <1>5 DEF run
    <2>2. bulk' \in BulkItem /\ bulk'.import = bulk.import /\ bulk'.bound = bulk.bound
      BY <1>0, <1>3, <2>1 DEF BulkItem
    <2>3. Client
      BY <1>0, <1>1, <2>2 DEF Client
    <2>4. RunTyped' /\ InHand'
      BY <1>0, <2>1, <2>2, NoneAssumption DEF RunTyped, InHand
    <2>5. ServerInv' /\ BulkTyped'
      BY <2>3, ClientKeeps
    <2>6. QED
      BY <1>4, <2>4, <2>5, ApplyKeeps, TypedNext DEF IInv, QueueInv
  <1>6. CASE ~bulk.ready
    <2>1. bulk' = None /\ RunTyped' /\ pc' = "Flush"
      BY <1>0, <1>2, <1>6, GotoIs DEF GiveUp, Steps
    <2>2. Client
      BY <1>0, <1>1, <2>1 DEF Client
    <2>3. InHand'
      BY <2>1 DEF InHand
    <2>4. ServerInv' /\ BulkTyped'
      BY <2>2, ClientKeeps
    <2>5. QED
      BY <1>4, <2>1, <2>3, <2>4, ApplyKeeps, TypedNext DEF IInv, QueueInv
  <1>7. QED
    BY <1>5, <1>6

LEMMA FinishStays ==
  ASSUME IInv, FinishBulk
  PROVE  IInv'
  <1>0. /\ Queue(outbox) /\ bulk \in BulkItem /\ bulk # None /\ RunTyped /\ DataTyped
        /\ status[bulk.import] = "Succeeded"
    BY IInvMeans DEF FinishBulk, InHand, Told
  <1>1. /\ UNCHANGED <<disk, edits, catalog, status, merges, manifest, rejected, late, strays, known, givenUp>>
        /\ bulk' = None /\ answers' = [b \in BatchIds |-> IF b \in bulk.captured THEN None ELSE answers[b]]
        /\ IF SegmentsLeft THEN Goto("Idle") ELSE Delivered
    BY DEF FinishBulk, folder
  <1>2. QueueInv' /\ Queue(outbox)'
    BY FinishKeeps DEF QueueInv
  <1>3. DataTyped'
    BY <1>0, <1>1 DEF DataTyped
  <1>4. RunTyped' /\ pc' \in {"Idle", "Scan"} /\ (pc' = "Scan" => Pending' = {})
    BY <1>0, <1>1, GotoIs DEF Delivered, SegmentsLeft, Steps
  <1>5. InHand'
    <2>1. Places'
      BY <1>2, PlacesNext
    <2>2. QED
      BY <1>1, <1>4, <2>1 DEF InHand, Places
  <1>6. Told' /\ Promised'
    <2>1. Told /\ Promised
      BY IInvMeans
    <2>2. QED
      BY <1>0, <1>1, <2>1 DEF Told, Promised, Served1
  <1>7. BulkTyped'
    BY <1>1 DEF BulkTyped
  <1>8. QED
    BY <1>2, <1>3, <1>4, <1>5, <1>6, <1>7, TypedNext DEF IInv, ServerInv

\* What the scan saves is a change of every file it names.
LEMMA ScanStays ==
  ASSUME IInv, NEW listing \in Listings, NEW read \in Readable(listing), Scan(listing, read)
  PROVE  IInv'
  <1> DEFINE D == Gone(listing)
             C == Changed(read) \cup D
             w == [x \in C |-> IF x \in D THEN [rev |-> known[x], gone |-> TRUE]
                                          ELSE [rev |-> disk[x], gone |-> FALSE]]
  <1>0. /\ Queue(outbox) /\ RunTyped /\ DataTyped /\ Waiting = {} /\ bulk = None /\ QueueInv
    BY IInvMeans DEF Scan, InHand, IInv, QueueInv, Manifested
  <1>1. /\ UNCHANGED <<disk, edits, catalog, answers, status, merges, manifest, rejected, late, strays, known, bulk, givenUp>>
        /\ UNCHANGED <<server, known, bulk, givenUp>>
    BY DEF Scan, folder, server
  <1>2. DataTyped' /\ bulk' = None
    BY <1>0, <1>1 DEF DataTyped
  <1>3. CASE C = {}
    <2>1. Goto("Idle") /\ UNCHANGED outbox
      BY <1>3 DEF Scan
    <2>2. RunTyped' /\ pc' = "Idle"
      BY <1>0, <2>1, GotoIs DEF Steps
    <2>3. InHand'
      BY <2>2 DEF InHand
    <2>4. QueueInv'
      BY <1>0, <1>1, <1>2, <2>1, QuietKeeps DEF Quiet
    <2>5. QED
      BY <1>0, <1>1, <1>2, <2>2, <2>3, <2>4, BatchStep
  <1>4. CASE C # {}
    <2>1. Save(w) /\ pc' = "Deliver" /\ scanned' = TRUE /\ UNCHANGED batchOnly
      BY <1>4 DEF Scan
    <2>2. read \subseteq Items /\ (\A x \in read : disk[x] # 0)
      BY DEF Readable, Listings, Present
    <2>3. C \subseteq Items /\ (\A x \in C : x \in D => known[x] # 0) /\ (\A x \in C : x \notin D => disk[x] # 0)
      BY <2>2 DEF Gone, Changed
    <2>4. \A x \in C : w[x] \in Change
      <3> SUFFICES ASSUME NEW x \in C PROVE w[x] \in Change
        OBVIOUS
      <3>1. known[x] \in 0..MaxRevision /\ disk[x] \in 0..MaxRevision
        BY <1>0, <2>3 DEF DataTyped
      <3>2. w[x] = IF x \in D THEN [rev |-> known[x], gone |-> TRUE] ELSE [rev |-> disk[x], gone |-> FALSE]
        OBVIOUS
      <3>3. (IF x \in D THEN known[x] ELSE disk[x]) \in 1..MaxRevision
        <4> HIDE DEF C, D
        <4>1. QED
          BY <2>3, <3>1, BoundsAssumption
      <3> HIDE DEF w, C, D
      <3>4. QED
        BY <3>2, <3>3 DEF Change, Revisions
    <2>5. w \in Changes
      <3>1. w \in [C -> Change]
        BY <2>4
      <3> HIDE DEF w, C
      <3>2. QED
        BY <2>3, <3>1, ChangesAre
    <2> HIDE DEF w
    <2>6. PICK new : Becomes({}, new) /\ Shares(new, w)
      BY <1>0, <2>1, <2>5, SaveBecomes
    <2>7. QueueInv'
      BY <1>0, <1>1, <2>6, SavedKeeps
    <2>8. RunTyped' /\ InHand'
      BY <1>0, <2>1 DEF RunTyped, InHand, Steps
    <2>9. QED
      BY <1>0, <1>1, <1>2, <2>7, <2>8, BatchStep
  <1>5. QED
    BY <1>3, <1>4

-----------------------------------------------------------------------------
LEMMA InitInv == Init => IInv
  <1> SUFFICES ASSUME Init PROVE IInv
    OBVIOUS
  <1>1. outbox = <<>> /\ bulk = None /\ pc = "Idle"
    BY DEF Init
  <1>2. Queue(outbox) /\ Batches = {} /\ Waiting = {}
    BY <1>1 DEF Queue, OneId, Batches, Of, Waiting
  <1>3. DataTyped
    <2>1. <<>> \in Changes
      <3>1. [x \in {} |-> 0] \in [{} -> Change] /\ {} \in SUBSET Items
        OBVIOUS
      <3>2. <<>> \in [{} -> Change]
        OBVIOUS
      <3>3. QED
        BY <3>1, <3>2 DEF Changes
    <2>2. /\ disk \in [Items -> 0..MaxRevision] /\ catalog \in [Items -> 0..MaxRevision]
          /\ known \in [Items -> 0..MaxRevision] /\ edits \in 0..MaxEdits
      BY BoundsAssumption DEF Init
    <2>3. QED
      BY <2>1, <2>2 DEF Init, DataTyped
  <1>4. BulkTyped /\ RunTyped /\ InHand
    BY <1>1 DEF Init, BulkTyped, RunTyped, InHand, Steps
  <1>5. Told /\ Promised
    <2>1. Promised
      BY DEF Init, Service!Init, Promised, Served1, Service!Statuses
    <2>2. QED
      BY <1>1, <2>1 DEF Told
  <1>6. Alone /\ Manifested /\ Merged
    BY <1>1, <1>2 DEF Alone, Manifested, Merged
  <1>7. Answered
    BY <1>2 DEF Init, Answered
  <1>8. KnownIsServed
    BY DEF Init, KnownIsServed
  <1>9. QED
    BY <1>2, <1>3, <1>4, <1>5, <1>6, <1>7, <1>8, TypedIs DEF IInv, QueueInv, ServerInv

LEMMA StutterKeeps ==
  ASSUME IInv, UNCHANGED vars
  PROVE  IInv'
  <1>1. /\ UNCHANGED <<disk, edits, catalog, answers, status, merges, manifest, rejected, late, strays>>
        /\ UNCHANGED <<known, outbox, bulk, pc, batchOnly, scanned, givenUp>>
    BY DEF vars, folder, server, local, run
  <1>2. Told /\ Promised /\ BulkTyped /\ RunTyped /\ InHand
    BY IInvMeans
  <1>3. Told' /\ Promised' /\ BulkTyped' /\ RunTyped' /\ InHand'
    BY <1>1, <1>2 DEF Told, Promised, Served1, BulkTyped, RunTyped, InHand, Waiting, Batches
  <1>4. QED
    BY <1>1, <1>3, ServerStep DEF Same, ServerInv

LEMMA StepInv == IInv /\ [Next]_vars => IInv'
  <1> SUFFICES ASSUME IInv, [Next]_vars PROVE IInv'
    OBVIOUS
  <1>1. ASSUME NEW x \in Items, Edit(x) PROVE IInv'
    BY <1>1, EditKeeps
  <1>2. ASSUME NEW only \in BOOLEAN, StartRun(only) PROVE IInv'
    BY <1>2, StartKeeps
  <1>3. CASE ClientStep
    <2>1. ASSUME NEW i \in Imports, PrepareBulk(i) PROVE IInv'
      BY <2>1, PrepareStays
    <2>2. ASSUME NEW listing \in Listings, NEW read \in Readable(listing), Scan(listing, read) PROVE IInv'
      BY <2>2, ScanStays
    <2>3. CASE ResumeOrEscape \/ TakeBatches \/ Split \/ SubmitBatch \/ RefuseBatch \/ Flushed
      BY <2>3, ResumeKeeps, TakeKeeps, SplitStays, SubmitStays, RefuseStays, FlushedKeeps
    <2>4. CASE CreateImport \/ Watch \/ AbandonUpload \/ CompleteImport \/ Fetch \/ ApplyRow \/ FinishBulk
      BY <2>4, CreateKeeps, WatchKeeps, AbandonKeeps, CompleteKeeps, FetchKeeps, ApplyStays, FinishStays
    <2>5. QED
      BY <1>3, <2>1, <2>2, <2>3, <2>4 DEF ClientStep
  <1>4. CASE Stop \/ AnswerLost \/ LeaveCompletion
    BY <1>4, StopKeeps, LostStays, LeaveKeeps
  <1>5. ASSUME NEW n \in DOMAIN outbox, DiscardFailed(n) PROVE IInv'
    BY <1>5, DiscardStays
  <1>6. ASSUME NEW i \in Imports, MergeImport(i) \/ EndImport(i) \/ LateCompletion(i) PROVE IInv'
    BY <1>6, MergeStays, EndKeeps, LateStays
  <1>7. CASE UNCHANGED vars
    BY <1>7, StutterKeeps
  <1>8. QED
    BY <1>1, <1>2, <1>3, <1>4, <1>5, <1>6, <1>7 DEF Next

LEMMA AlwaysIInv == Spec => []IInv
  BY InitInv, StepInv, PTL DEF Spec

LEMMA CapturedStays ==
  IInv => CapturedPending
  <1> SUFFICES ASSUME IInv PROVE CapturedPending
    OBVIOUS
  <1>1. /\ Queue(outbox) /\ Places /\ Alone /\ Manifested
    BY IInvMeans DEF IInv, QueueInv
  <1>2. bulk # None => bulk.captured \subseteq Ids(Pending)
    BY <1>1 DEF Manifested, Places
  <1>3. \A m \in Pending : outbox[m] \in Waiting /\ m \in DOMAIN outbox
    BY DEF Pending, Waiting, Batches, Of
  <1>4. ASSUME NEW m \in Pending, NEW n \in Pending, m # n
        PROVE  DOMAIN outbox[m].changes \cap DOMAIN outbox[n].changes = {}
    <2>1. outbox[m] # outbox[n]
      BY <1>1, <1>3, <1>4 DEF Queue, OneId
    <2>2. QED
      BY <1>1, <1>3, <2>1 DEF Alone
  <1>5. QED
    BY <1>2, <1>4 DEF CapturedPending

\* Whatever way a run of the client ended, the batches an active import stands
\* for still wait, and no file waits in two batches, so that the next run can
\* resume what it finds (queue_bulk_manifest, _captured_bulk_batches).
THEOREM QueueStaysSound == Spec => []QueueSound
  <1>1. IInv => QueueSound
    BY CapturedStays DEF IInv, QueueSound
  <1>2. QED
    BY <1>1, AlwaysIInv, PTL

\* What the client believes of a file that neither waits nor is excused is what
\* the catalogue has, however runs end, answers are lost, completions arrive
\* late and imports are given up (acknowledge_batch, apply_bulk_result_rows,
\* complete_bulk_manifest, _escape_active_bulk_to_batch).
THEOREM KnownStaysServed == Spec => []KnownIsServed
  <1>1. IInv => KnownIsServed
    BY DEF IInv, QueueInv
  <1>2. QED
    BY <1>1, AlwaysIInv, PTL

\* While an import works that the client still knows of, no batch is delivered.
RaceOnlyAstray ==
  [][catalog' # catalog /\ merges' = merges => \A i \in Imports : status[i] = "Working" => i \in strays]_vars

\* Batch transport races only with imports completed after the client had given
\* them up: what _escape_active_bulk_to_batch says holds of all the others.
THEOREM NoRaceWithOwnImport == Spec => RaceOnlyAstray
  <1>1. ASSUME IInv, [Next]_vars
        PROVE  [catalog' # catalog /\ merges' = merges => \A i \in Imports : status[i] = "Working" => i \in strays]_vars
    <2> SUFFICES ASSUME catalog' # catalog, merges' = merges, NEW i \in Imports, status[i] = "Working"
                 PROVE  i \in strays
      OBVIOUS
    <2>1. Promised /\ InHand
      BY <1>1, IInvMeans
    <2>2. CASE SubmitBatch \/ AnswerLost
      <3>1. bulk = None
        BY <2>1, <2>2 DEF InHand, SubmitBatch, AnswerLost, Sending
      <3>2. QED
        BY <2>1, <3>1 DEF Promised, Served1
    <2>3. ASSUME NEW j \in Imports, MergeImport(j) PROVE FALSE
      <3>1. merges[j] = 0 /\ merges' = [merges EXCEPT ![j] = 1]
        BY <2>3 DEF MergeImport, Service!Merge
      <3>2. QED
        BY <2>1, <3>1 DEF Promised
    <2>4. ClientStep => SubmitBatch
      BY DEF ClientStep, ResumeOrEscape, TakeBatches, PrepareBulk, Split, RefuseBatch, Flushed, Scan,
             CreateImport, Watch, AbandonUpload, CompleteImport, Fetch, DownloadResult, UseSavedResult, RejectResult,
             ApplyRow, FinishBulk, ImportUnchanged, server
    <2>5. ASSUME NEW j \in Imports, EndImport(j) \/ LateCompletion(j) PROVE FALSE
      BY <2>5 DEF EndImport, LateCompletion
    <2>6. ~(\E x \in Items : Edit(x)) /\ ~(\E only \in BOOLEAN : StartRun(only)) /\ ~Stop
          /\ ~(\E n \in DOMAIN outbox : DiscardFailed(n)) /\ ~LeaveCompletion /\ ~UNCHANGED vars
      BY DEF Edit, StartRun, Stop, DiscardFailed, LeaveCompletion, vars, server
    <2>7. QED
      BY <1>1, <2>2, <2>3, <2>4, <2>5, <2>6 DEF Next
  <1>2. QED
    BY <1>1, AlwaysIInv, PTL DEF Spec, RaceOnlyAstray
==============================================================================
