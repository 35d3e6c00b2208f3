----------------------------- MODULE CatalogProofs -----------------------------
(***************************************************************************)
(* Safety of Catalog, for any contents, slots, keys, requests and any      *)
(* number of entries and merges.                                           *)
(*                                                                         *)
(* A transaction folds its entries over what its session has in memory.    *)
(* Since says what holds after any number of entries, in terms of the view *)
(* the transaction began with: it is kept by each entry, and Folding turns *)
(* that into a fact about the whole manifest.                              *)
(***************************************************************************)
EXTENDS Catalog, Folding

-----------------------------------------------------------------------------
(* Rows and transactions.                                                  *)

LEMMA AssetKinds == \A a \in Asset :
  /\ a = [state |-> a.state, size |-> a.size]
  /\ a.state \in {"None", "Active", "Trashed"}
  /\ a.state = "None" => a.size = NoSize
  /\ a.state # "None" => a.size \in Sizes
BY DEF Asset

LEMMA AssetIs == \A st, z :
  /\ st \in {"Active", "Trashed"} /\ z \in Sizes => [state |-> st, size |-> z] \in Asset
  /\ [state |-> "None", size |-> NoSize] \in Asset
BY DEF Asset

LEMMA OccurrenceKinds == \A o \in Occurrence :
  /\ o = [state |-> o.state, hash |-> o.hash]
  /\ o.state \in {"None", "Active", "Deleted"}
  /\ o.hash \in Hashes \cup {NoHash}
  /\ o.state = "None" => o.hash = NoHash
BY DEF Occurrence

LEMMA OccurrenceIs == \A st, h :
  /\ st \in {"Active", "Deleted"} /\ h \in Hashes \cup {NoHash} => [state |-> st, hash |-> h] \in Occurrence
  /\ [state |-> "None", hash |-> NoHash] \in Occurrence
BY DEF Occurrence

Trans == [asset : [Hashes -> Asset], occ : [Slots -> Occurrence], rows : [Slots -> Occurrence],
          feed : SUBSET (Slots \cup Hashes), seen : SUBSET Items]

Started(v) == v.asset \in [Hashes -> Asset] /\ v.occ \in [Slots -> Occurrence]

LEMMA StartIs ==
  ASSUME NEW v, Started(v)
  PROVE  /\ Start(v) \in Trans
         /\ Start(v).asset = v.asset /\ Start(v).occ = v.occ /\ Start(v).rows = v.occ
         /\ Start(v).feed = {} /\ Start(v).seen = {}
BY DEF Start, Trans, Started

\* What the steps of a transaction do to its fields.
LEMMA FlushIs ==
  ASSUME NEW t \in Trans
  PROVE  /\ Flush(t) \in Trans
         /\ Flush(t).asset = t.asset /\ Flush(t).occ = t.occ /\ Flush(t).rows = t.occ
         /\ Flush(t).feed = t.feed /\ Flush(t).seen = t.seen
BY DEF Flush, Trans

LEMMA TellIs ==
  ASSUME NEW t \in Trans, NEW e \in Slots \cup Hashes
  PROVE  /\ Tell(t, e) \in Trans
         /\ Tell(t, e).asset = t.asset /\ Tell(t, e).occ = t.occ /\ Tell(t, e).rows = t.rows
         /\ Tell(t, e).feed = t.feed \cup {e} /\ Tell(t, e).seen = t.seen
BY DEF Tell, Trans

LEMMA PutIs ==
  ASSUME NEW t \in Trans, NEW s \in Slots, NEW h \in Hashes \cup {NoHash}
  PROVE  /\ Put(t, s, h) \in Trans
         /\ Put(t, s, h).asset = t.asset /\ Put(t, s, h).rows = t.rows
         /\ Put(t, s, h).occ[s] = [state |-> "Active", hash |-> h]
         /\ \A q \in Slots \ {s} : Put(t, s, h).occ[q] = t.occ[q]
         /\ Put(t, s, h).feed = t.feed /\ Put(t, s, h).seen = t.seen
<1>1. [state |-> "Active", hash |-> h] \in Occurrence
  BY OccurrenceIs
<1> QED BY <1>1 DEF Put, Trans

LEMMA SeeIs ==
  ASSUME NEW t \in Trans, NEW i \in Items
  PROVE  LET u == [t EXCEPT !.seen = @ \cup {i}]
         IN  /\ u \in Trans
             /\ u.asset = t.asset /\ u.occ = t.occ /\ u.rows = t.rows /\ u.feed = t.feed
             /\ u.seen = t.seen \cup {i}
BY DEF Trans

DeletedAt(t, s) == [t EXCEPT !.occ[s].state = "Deleted"]

LEMMA DeletedAtIs ==
  ASSUME NEW t \in Trans, NEW s \in Slots
  PROVE  /\ DeletedAt(t, s) \in Trans
         /\ DeletedAt(t, s).asset = t.asset /\ DeletedAt(t, s).rows = t.rows
         /\ DeletedAt(t, s).occ[s] = [state |-> "Deleted", hash |-> t.occ[s].hash]
         /\ \A q \in Slots \ {s} : DeletedAt(t, s).occ[q] = t.occ[q]
         /\ DeletedAt(t, s).feed = t.feed /\ DeletedAt(t, s).seen = t.seen
<1>1. t.occ[s] \in Occurrence /\ t.occ[s] = [state |-> t.occ[s].state, hash |-> t.occ[s].hash]
  BY OccurrenceKinds DEF Trans
<1>2. [state |-> "Deleted", hash |-> t.occ[s].hash] \in Occurrence
  BY <1>1, OccurrenceKinds, OccurrenceIs
<1>3. [t.occ[s] EXCEPT !.state = "Deleted"] = [state |-> "Deleted", hash |-> t.occ[s].hash]
  BY <1>1
<1>4. DeletedAt(t, s) = [t EXCEPT !.occ = [t.occ EXCEPT ![s] = [state |-> "Deleted", hash |-> t.occ[s].hash]]]
  BY <1>3 DEF DeletedAt
<1> QED BY <1>2, <1>4 DEF Trans

-----------------------------------------------------------------------------
(* One entry.                                                              *)

Uses(t, h)   == \E s \in Slots : t.occ[s] = [state |-> "Active", hash |-> h]
LiveIn(t, h) == t.asset[h].state = "Active" <=> Uses(t, h)
KnownIn(t)   == \A s \in Slots : t.occ[s].hash # NoHash => t.asset[t.occ[s].hash].state # "None"

\* What became of t: no asset and no occurrence is lost, what changed is told,
\* a content that was in the trash exactly when unused still is, and only the
\* slot was written.
Effect(t, u, slot) ==
  /\ u \in Trans /\ KnownIn(u)
  /\ \A h \in Hashes : t.asset[h].state # "None" => u.asset[h].state # "None" /\ u.asset[h].size = t.asset[h].size
  /\ t.occ[slot].state # "None" => u.occ[slot].state # "None"
  /\ t.feed \subseteq u.feed
  /\ \A h \in Hashes : u.asset[h] # t.asset[h] => h \in u.feed
  /\ u.occ[slot] # t.occ[slot] => slot \in u.feed
  /\ \A h \in Hashes : LiveIn(t, h) => LiveIn(u, h)
  /\ \A q \in Slots \ {slot} : u.occ[q] = t.occ[q]
  /\ u.seen = t.seen

LEMMA LinkIs ==
  ASSUME NEW t \in Trans, NEW h \in Hashes, NEW z, t.asset[h].state = "None" => z \in Sizes
  PROVE  LET u == Link(t, h, z)
         IN  /\ u \in Trans /\ u.occ = t.occ /\ u.rows = t.rows /\ u.seen = t.seen
             /\ t.feed \subseteq u.feed
             /\ \A x \in Hashes \ {h} : u.asset[x] = t.asset[x]
             /\ u.asset[h].state = "Active"
             /\ u.asset[h].size = IF t.asset[h].state = "None" THEN z ELSE t.asset[h].size
             /\ u.asset[h] # t.asset[h] => h \in u.feed
<1> DEFINE old == t.asset[h]
<1>1. old \in Asset /\ old = [state |-> old.state, size |-> old.size]
  BY AssetKinds DEF Trans
<1>2. CASE old.state = "None"
  <2> DEFINE v == [t EXCEPT !.asset[h] = [state |-> "Active", size |-> z]]
  <2>1. [state |-> "Active", size |-> z] \in Asset
    BY <1>2, AssetIs
  <2>2. /\ v \in Trans /\ v.occ = t.occ /\ v.rows = t.rows /\ v.seen = t.seen /\ v.feed = t.feed
        /\ \A x \in Hashes \ {h} : v.asset[x] = t.asset[x]
        /\ v.asset[h] = [state |-> "Active", size |-> z]
    BY <2>1 DEF Trans
  <2>3. Link(t, h, z) = Tell(v, h)
    BY <1>2 DEF Link
  <2> HIDE DEF v
  <2> QED BY <1>2, <2>2, <2>3, TellIs
<1>3. CASE old.state = "Trashed"
  <2> DEFINE v == [t EXCEPT !.asset[h].state = "Active"]
  <2>0. old.size \in Sizes
    BY <1>1, <1>3, AssetKinds
  <2>1. [state |-> "Active", size |-> old.size] \in Asset
    BY <2>0, AssetIs
  <2>2. [old EXCEPT !.state = "Active"] = [state |-> "Active", size |-> old.size]
    <3> HIDE DEF old
    <3> QED BY <1>1
  <2>3. v = [t EXCEPT !.asset = [t.asset EXCEPT ![h] = [state |-> "Active", size |-> old.size]]]
    BY <2>2
  <2>4. /\ v \in Trans /\ v.occ = t.occ /\ v.rows = t.rows /\ v.seen = t.seen /\ v.feed = t.feed
        /\ \A x \in Hashes \ {h} : v.asset[x] = t.asset[x]
        /\ v.asset[h] = [state |-> "Active", size |-> old.size]
    <3> HIDE DEF v, old
    <3> QED BY <2>1, <2>3 DEF Trans
  <2>5. Link(t, h, z) = Tell(v, h)
    BY <1>3 DEF Link
  <2> HIDE DEF v
  <2> QED BY <1>3, <2>4, <2>5, TellIs
<1>4. CASE old.state = "Active"
  <2>1. Link(t, h, z) = t
    BY <1>4 DEF Link
  <2> QED BY <1>4, <2>1
<1> QED BY <1>1, <1>2, <1>3, <1>4, AssetKinds

LEMMA TrashIs ==
  ASSUME NEW t \in Trans, t.rows = t.occ, NEW h \in Hashes, NEW slot \in Slots,
         t.asset[h].state # "None", t.occ[slot] # [state |-> "Active", hash |-> h]
  PROVE  LET u == Trash(t, h, slot)
         IN  /\ u \in Trans /\ u.occ = t.occ /\ u.seen = t.seen
             /\ t.feed \subseteq u.feed
             /\ \A x \in Hashes \ {h} : u.asset[x] = t.asset[x]
             /\ u.asset[h].state # "None" /\ u.asset[h].size = t.asset[h].size
             /\ u.asset[h] # t.asset[h] => h \in u.feed
             /\ Uses(t, h) => u.asset[h] = t.asset[h]
             /\ ~Uses(t, h) => u.asset[h].state = "Trashed"
<1> DEFINE old == t.asset[h]
           others == \E s \in Slots \ {slot} : t.rows[s] = [state |-> "Active", hash |-> h]
<1>1. old \in Asset /\ old = [state |-> old.state, size |-> old.size]
  BY AssetKinds DEF Trans
<1>2. others <=> Uses(t, h)
  BY DEF Uses
<1>3. CASE others \/ old.state = "Trashed"
  <2>1. Trash(t, h, slot) = t
    BY <1>3 DEF Trash
  <2> HIDE DEF others
  <2> QED BY <1>2, <1>3, <2>1
<1>4. CASE ~(others \/ old.state = "Trashed")
  <2> DEFINE v == [t EXCEPT !.asset[h].state = "Trashed"]
  <2>0. old.size \in Sizes
    BY <1>1, AssetKinds
  <2>1. [state |-> "Trashed", size |-> old.size] \in Asset
    BY <2>0, AssetIs
  <2>2. [old EXCEPT !.state = "Trashed"] = [state |-> "Trashed", size |-> old.size]
    <3> HIDE DEF old
    <3> QED BY <1>1
  <2>3. v = [t EXCEPT !.asset = [t.asset EXCEPT ![h] = [state |-> "Trashed", size |-> old.size]]]
    BY <2>2
  <2>4. /\ v \in Trans /\ v.occ = t.occ /\ v.rows = t.rows /\ v.seen = t.seen /\ v.feed = t.feed
        /\ \A x \in Hashes \ {h} : v.asset[x] = t.asset[x]
        /\ v.asset[h] = [state |-> "Trashed", size |-> old.size]
    <3> HIDE DEF v, old
    <3> QED BY <2>1, <2>3 DEF Trans
  <2>5. Trash(t, h, slot) = Flush(Tell(v, h))
    BY <1>4 DEF Trash
  <2>6. /\ Tell(v, h) \in Trans /\ Tell(v, h).asset = v.asset /\ Tell(v, h).occ = t.occ
        /\ Tell(v, h).feed = t.feed \cup {h} /\ Tell(v, h).seen = t.seen
    <3> HIDE DEF v
    <3> QED BY <2>4, TellIs
  <2> HIDE DEF v, others
  <2> QED BY <1>2, <1>4, <2>4, <2>5, <2>6, FlushIs
<1> QED BY <1>3, <1>4

\* What is told before the entry is carried out.
Told(t, slot, e) == IF Unchanged(t, slot, e) THEN t ELSE Tell(t, slot)

LEMMA ToldIs ==
  ASSUME NEW t \in Trans, NEW slot \in Slots, NEW e
  PROVE  LET u == Told(t, slot, e)
         IN  /\ u \in Trans /\ u.asset = t.asset /\ u.occ = t.occ /\ u.rows = t.rows /\ u.seen = t.seen
             /\ t.feed \subseteq u.feed
             /\ ~Unchanged(t, slot, e) => slot \in u.feed
<1>1. CASE Unchanged(t, slot, e)
  BY <1>1 DEF Told
<1>2. CASE ~Unchanged(t, slot, e)
  BY <1>2, TellIs DEF Told
<1> QED BY <1>1, <1>2

\* An occurrence takes a content that is active from then on: nothing is left behind.
LEMMA TakesContent ==
  ASSUME NEW t \in Trans, KnownIn(t), NEW u \in Trans, NEW slot \in Slots, NEW h \in Hashes,
         t.occ[slot].hash \in {NoHash, h},
         u.occ[slot] = [state |-> "Active", hash |-> h],
         \A q \in Slots \ {slot} : u.occ[q] = t.occ[q],
         \A x \in Hashes \ {h} : u.asset[x] = t.asset[x],
         u.asset[h].state = "Active",
         t.asset[h].state # "None" => u.asset[h].size = t.asset[h].size,
         t.feed \subseteq u.feed, u.seen = t.seen,
         u.asset[h] # t.asset[h] => h \in u.feed,
         u.occ[slot] # t.occ[slot] => slot \in u.feed
  PROVE  Effect(t, u, slot)
<1>1. NoHash \notin Hashes
  BY CatalogAssumption
<1>2. KnownIn(u)
  <2> SUFFICES ASSUME NEW s \in Slots, u.occ[s].hash # NoHash
               PROVE  u.asset[u.occ[s].hash].state # "None"
    BY DEF KnownIn
  <2>1. CASE s = slot
    BY <2>1
  <2>2. CASE s # slot
    <3>1. u.occ[s] = t.occ[s] /\ t.asset[t.occ[s].hash].state # "None"
      BY <2>2 DEF KnownIn
    <3>2. t.occ[s].hash \in Hashes
      BY <3>1, OccurrenceKinds DEF Trans
    <3>3. CASE t.occ[s].hash = h
      BY <3>1, <3>3
    <3>4. CASE t.occ[s].hash # h
      <4>1. u.asset[t.occ[s].hash] = t.asset[t.occ[s].hash]
        BY <3>2, <3>4
      <4> QED BY <3>1, <4>1
    <3> QED BY <3>3, <3>4
  <2> QED BY <2>1, <2>2
<1>3. ASSUME NEW x \in Hashes, LiveIn(t, x)
      PROVE  LiveIn(u, x)
  <2>1. CASE x = h
    BY <2>1 DEF LiveIn, Uses
  <2>2. CASE x # h
    <3>1. t.occ[slot] # [state |-> "Active", hash |-> x]
      BY <1>1, <2>2
    <3>2. u.occ[slot] # [state |-> "Active", hash |-> x]
      BY <2>2
    <3>3. Uses(t, x) <=> Uses(u, x)
      BY <3>1, <3>2 DEF Uses
    <3> QED BY <1>3, <2>2, <3>3 DEF LiveIn
  <2> QED BY <2>1, <2>2
<1>4. \A x \in Hashes : t.asset[x].state # "None" => u.asset[x].state # "None" /\ u.asset[x].size = t.asset[x].size
  OBVIOUS
<1>5. \A x \in Hashes : u.asset[x] # t.asset[x] => x \in u.feed
  OBVIOUS
<1>6. u.occ[slot].state # "None"
  OBVIOUS
<1> QED BY <1>2, <1>3, <1>4, <1>5, <1>6 DEF Effect

\* An occurrence leaves the content h: h goes to the trash if nothing else uses it.
\* The state v is the one before, but for the row of the slot and what another
\* content became by it.
LEMMA LeavesContent ==
  ASSUME NEW t \in Trans, KnownIn(t), NEW v \in Trans, v.rows = v.occ, KnownIn(v),
         NEW slot \in Slots, NEW h \in Hashes,
         t.occ[slot].hash = h,
         v.occ[slot] # [state |-> "Active", hash |-> h],
         v.occ[slot].state # "None",
         \A q \in Slots \ {slot} : v.occ[q] = t.occ[q],
         v.asset[h] = t.asset[h],
         \A x \in Hashes : t.asset[x].state # "None" => v.asset[x].state # "None" /\ v.asset[x].size = t.asset[x].size,
         \A x \in Hashes \ {h} : LiveIn(t, x) => LiveIn(v, x),
         t.feed \subseteq v.feed, v.seen = t.seen, slot \in v.feed,
         \A x \in Hashes : v.asset[x] # t.asset[x] => x \in v.feed
  PROVE  Effect(t, Trash(v, h, slot), slot)
<1> DEFINE u == Trash(v, h, slot)
<1>1. NoHash \notin Hashes
  BY CatalogAssumption
<1>2. t.asset[h].state # "None"
  BY <1>1 DEF KnownIn
<1>3. /\ u \in Trans /\ u.occ = v.occ /\ u.seen = v.seen
      /\ v.feed \subseteq u.feed
      /\ \A x \in Hashes \ {h} : u.asset[x] = v.asset[x]
      /\ u.asset[h].state # "None" /\ u.asset[h].size = v.asset[h].size
      /\ u.asset[h] # v.asset[h] => h \in u.feed
      /\ Uses(v, h) => u.asset[h] = v.asset[h]
      /\ ~Uses(v, h) => u.asset[h].state = "Trashed"
  BY <1>2, TrashIs
<1> HIDE DEF u
<1>4. KnownIn(u)
  <2> SUFFICES ASSUME NEW s \in Slots, u.occ[s].hash # NoHash
               PROVE  u.asset[u.occ[s].hash].state # "None"
    BY DEF KnownIn
  <2>1. v.asset[v.occ[s].hash].state # "None" /\ u.occ[s] = v.occ[s]
    BY <1>3 DEF KnownIn
  <2>2. v.occ[s].hash \in Hashes
    BY <2>1, OccurrenceKinds, <1>3 DEF Trans
  <2>3. CASE v.occ[s].hash = h
    BY <1>3, <2>1, <2>3
  <2>4. CASE v.occ[s].hash # h
    <3>1. u.asset[v.occ[s].hash] = v.asset[v.occ[s].hash]
      BY <1>3, <2>2, <2>4
    <3> QED BY <2>1, <3>1
  <2> QED BY <2>3, <2>4
<1>5. ASSUME NEW x \in Hashes, LiveIn(t, x)
      PROVE  LiveIn(u, x)
  <2>0. Uses(u, x) <=> Uses(v, x)
    BY <1>3 DEF Uses
  <2>1. CASE x = h
    <3>1. CASE Uses(v, h)
      <4>1. PICK s \in Slots : v.occ[s] = [state |-> "Active", hash |-> h]
        BY <3>1 DEF Uses
      <4>2. t.occ[s] = v.occ[s]
        BY <4>1
      <4>3. t.asset[h].state = "Active"
        BY <1>5, <2>1, <4>1, <4>2 DEF LiveIn, Uses
      <4> QED BY <1>3, <2>0, <2>1, <3>1, <4>3 DEF LiveIn
    <3>2. CASE ~Uses(v, h)
      BY <1>3, <2>0, <2>1, <3>2 DEF LiveIn
    <3> QED BY <3>1, <3>2
  <2>2. CASE x # h
    <3>1. LiveIn(v, x) /\ u.asset[x] = v.asset[x]
      BY <1>3, <1>5, <2>2
    <3> QED BY <2>0, <3>1 DEF LiveIn
  <2> QED BY <2>1, <2>2
<1>6. \A x \in Hashes : t.asset[x].state # "None" => u.asset[x].state # "None" /\ u.asset[x].size = t.asset[x].size
  BY <1>3
<1>7. \A x \in Hashes : u.asset[x] # t.asset[x] => x \in u.feed
  BY <1>3
<1>8. \A q \in Slots \ {slot} : u.occ[q] = t.occ[q]
  BY <1>3
<1> QED BY <1>3, <1>4, <1>5, <1>6, <1>7, <1>8 DEF Effect, u

\* A revision that is the one of the occurrence comes with its content.
SameRevision(t, slot, e) ==
  ~e.revised => t.occ[slot].state # "None" /\ e.hash \in {NoHash, t.occ[slot].hash}

LEMMA StaysPut ==
  ASSUME NEW t
  PROVE  /\ KnownIn(t) /\ t \in Trans => \A slot \in Slots : Effect(t, t, slot)
BY DEF Effect

LEMMA UpsertHashedEffect ==
  ASSUME NEW t \in Trans, KnownIn(t), NEW slot \in Slots, NEW e \in Hashed, SameRevision(t, slot, e)
  PROVE  Effect(t, UpsertHashed(t, slot, e), slot)
<1> DEFINE h      == e.hash
           old    == t.occ[slot].hash
           told   == Told(t, slot, e)
           link   == Link(told, h, e.size)
           linked == Put(link, slot, h)
           settled == Settle(linked)
           refused == t.asset[h].state # "None" /\ t.asset[h].size # e.size
           moved   == old \notin {NoHash, h}
<1>0. UpsertHashed(t, slot, e) = IF refused THEN t ELSE IF moved THEN Trash(settled, old, slot) ELSE linked
  BY DEF UpsertHashed, Told
<1>1. h \in Hashes /\ e.size \in Sizes /\ e.revised \in BOOLEAN /\ NoHash \notin Hashes
  BY CatalogAssumption DEF Hashed
<1>2. t.occ[slot] \in Occurrence /\ old \in Hashes \cup {NoHash} /\ t.occ[slot] = [state |-> t.occ[slot].state, hash |-> old]
  BY OccurrenceKinds DEF Trans
<1>3. /\ told \in Trans /\ told.asset = t.asset /\ told.occ = t.occ /\ told.seen = t.seen
      /\ t.feed \subseteq told.feed
      /\ ~Unchanged(t, slot, e) => slot \in told.feed
  <2> HIDE DEF told
  <2> QED BY ToldIs DEF told
<1>4. /\ link \in Trans /\ link.occ = t.occ /\ link.seen = t.seen /\ told.feed \subseteq link.feed
      /\ \A x \in Hashes \ {h} : link.asset[x] = t.asset[x]
      /\ link.asset[h].state = "Active"
      /\ link.asset[h].size = IF t.asset[h].state = "None" THEN e.size ELSE t.asset[h].size
      /\ link.asset[h] # t.asset[h] => h \in link.feed
  <2> HIDE DEF told, h
  <2> QED BY <1>1, <1>3, LinkIs
<1>5. /\ linked \in Trans /\ linked.asset = link.asset
      /\ linked.occ[slot] = [state |-> "Active", hash |-> h]
      /\ \A q \in Slots \ {slot} : linked.occ[q] = t.occ[q]
      /\ linked.feed = link.feed /\ linked.seen = t.seen
  <2> HIDE DEF told, h, link
  <2> QED BY <1>1, <1>4, PutIs
<1>6. Unchanged(t, slot, e) => t.occ[slot] = [state |-> "Active", hash |-> h]
  BY <1>1, <1>2 DEF Unchanged, SameRevision
<1> HIDE DEF told, link, linked
<1>7. linked.occ[slot] # t.occ[slot] => slot \in linked.feed
  BY <1>3, <1>4, <1>5, <1>6
<1>8. CASE refused
  BY <1>0, <1>8, StaysPut
<1>9. CASE ~refused /\ ~moved
  <2>1. UpsertHashed(t, slot, e) = linked
    BY <1>0, <1>9
  <2>2. old \in {NoHash, h}
    BY <1>9
  <2>3. linked.feed = link.feed /\ t.feed \subseteq linked.feed
    BY <1>3, <1>4, <1>5
  <2> HIDE DEF h
  <2>4. Effect(t, linked, slot)
    BY <1>1, <1>4, <1>5, <1>7, <2>2, <2>3, TakesContent
  <2> QED BY <2>1, <2>4
<1>10. CASE ~refused /\ moved
  <2>1. UpsertHashed(t, slot, e) = Trash(settled, old, slot)
    BY <1>0, <1>10
  <2>2. /\ settled \in Trans /\ settled.asset = link.asset /\ settled.occ = linked.occ
        /\ settled.rows = settled.occ /\ settled.feed = link.feed /\ settled.seen = t.seen
    BY <1>5, FlushIs DEF Settle
  <2>3. old \in Hashes /\ old # h
    BY <1>2, <1>10
  <2>4. slot \in settled.feed
    BY <1>3, <1>4, <1>6, <1>2, <2>2, <2>3
  <2> HIDE DEF settled, h, old
  <2>5. KnownIn(settled)
    <3> SUFFICES ASSUME NEW s \in Slots, settled.occ[s].hash # NoHash
                 PROVE  settled.asset[settled.occ[s].hash].state # "None"
      BY DEF KnownIn
    <3>1. CASE s = slot
      BY <1>4, <1>5, <2>2, <3>1
    <3>2. CASE s # slot
      <4>1. settled.occ[s] = t.occ[s] /\ t.asset[t.occ[s].hash].state # "None" /\ t.occ[s].hash \in Hashes
        BY <1>5, <2>2, <3>2, OccurrenceKinds DEF KnownIn, Trans
      <4>2. CASE t.occ[s].hash = h
        BY <1>4, <2>2, <4>1, <4>2
      <4>3. CASE t.occ[s].hash # h
        BY <1>4, <2>2, <4>1, <4>3
      <4> QED BY <4>2, <4>3
    <3> QED BY <3>1, <3>2
  <2>6. ASSUME NEW x \in Hashes \ {old}, LiveIn(t, x)
        PROVE  LiveIn(settled, x)
    <3>1. CASE x = h
      BY <1>4, <1>5, <2>2, <3>1 DEF LiveIn, Uses
    <3>2. CASE x # h
      <4>1. t.occ[slot] # [state |-> "Active", hash |-> x] /\ settled.occ[slot] # [state |-> "Active", hash |-> x]
        BY <1>2, <1>5, <2>2, <3>2
      <4>2. Uses(t, x) <=> Uses(settled, x)
        BY <1>5, <2>2, <4>1 DEF Uses
      <4>3. settled.asset[x] = t.asset[x]
        BY <1>4, <2>2, <3>2
      <4> QED BY <2>6, <4>2, <4>3 DEF LiveIn
    <3> QED BY <3>1, <3>2
  <2>7. \A x \in Hashes : t.asset[x].state # "None" => settled.asset[x].state # "None" /\ settled.asset[x].size = t.asset[x].size
    BY <1>4, <2>2
  <2>8. \A x \in Hashes : settled.asset[x] # t.asset[x] => x \in settled.feed
    BY <1>4, <2>2
  <2>9. settled.occ[slot] # [state |-> "Active", hash |-> old] /\ settled.occ[slot].state # "None"
    BY <1>5, <2>2, <2>3
  <2>10. \A q \in Slots \ {slot} : settled.occ[q] = t.occ[q]
    BY <1>5, <2>2
  <2>11. settled.asset[old] = t.asset[old]
    BY <1>4, <2>2, <2>3
  <2>12. t.feed \subseteq settled.feed
    BY <1>3, <1>4, <2>2
  <2>13. t.occ[slot].hash = old
    BY DEF old
  <2>14. Effect(t, Trash(settled, old, slot), slot)
    BY <2>2, <2>3, <2>4, <2>5, <2>6, <2>7, <2>8, <2>9, <2>10, <2>11, <2>12, <2>13, LeavesContent
  <2> QED BY <2>1, <2>14
<1> QED BY <1>8, <1>9, <1>10

\* An occurrence without content changes: no asset is concerned.
LEMMA KeepsNoContent ==
  ASSUME NEW t \in Trans, KnownIn(t), NEW u \in Trans, NEW slot \in Slots,
         t.occ[slot].hash = NoHash, u.occ[slot].hash = NoHash, u.occ[slot].state # "None",
         \A q \in Slots \ {slot} : u.occ[q] = t.occ[q],
         u.asset = t.asset, t.feed \subseteq u.feed, u.seen = t.seen,
         u.occ[slot] # t.occ[slot] => slot \in u.feed
  PROVE  Effect(t, u, slot)
<1>1. NoHash \notin Hashes
  BY CatalogAssumption
<1>2. KnownIn(u)
  BY DEF KnownIn
<1>3. ASSUME NEW x \in Hashes, LiveIn(t, x)
      PROVE  LiveIn(u, x)
  <2>1. t.occ[slot] # [state |-> "Active", hash |-> x] /\ u.occ[slot] # [state |-> "Active", hash |-> x]
    BY <1>1
  <2>2. Uses(t, x) <=> Uses(u, x)
    BY <2>1 DEF Uses
  <2> QED BY <1>3, <2>2 DEF LiveIn
<1> QED BY <1>2, <1>3 DEF Effect

\* An occurrence leaves its content for none, or is deleted.
LEMMA LeavesForNone ==
  ASSUME NEW t \in Trans, KnownIn(t), NEW v \in Trans, v.rows = v.occ,
         NEW slot \in Slots, NEW h \in Hashes,
         t.occ[slot].hash = h,
         v.occ[slot] = [state |-> "Active", hash |-> NoHash] \/ v.occ[slot] = [state |-> "Deleted", hash |-> h],
         \A q \in Slots \ {slot} : v.occ[q] = t.occ[q],
         v.asset = t.asset, t.feed \subseteq v.feed, v.seen = t.seen, slot \in v.feed
  PROVE  Effect(t, Trash(v, h, slot), slot)
<1>1. NoHash \notin Hashes
  BY CatalogAssumption
<1>2. KnownIn(v)
  <2>1. t.asset[h].state # "None"
    BY <1>1 DEF KnownIn
  <2>2. \A s \in Slots \ {slot} : v.occ[s].hash # NoHash => v.asset[v.occ[s].hash].state # "None"
    BY DEF KnownIn
  <2>3. v.occ[slot].hash # NoHash => v.asset[v.occ[slot].hash].state # "None"
    BY <2>1
  <2> QED BY <2>2, <2>3 DEF KnownIn
<1>3. ASSUME NEW x \in Hashes \ {h}, LiveIn(t, x)
      PROVE  LiveIn(v, x)
  <2>1. t.occ[slot] # [state |-> "Active", hash |-> x] /\ v.occ[slot] # [state |-> "Active", hash |-> x]
    BY <1>1
  <2>2. Uses(t, x) <=> Uses(v, x)
    BY <2>1 DEF Uses
  <2> QED BY <1>3, <2>2 DEF LiveIn
<1>4. v.occ[slot] # [state |-> "Active", hash |-> h] /\ v.occ[slot].state # "None"
  BY <1>1
<1>5. \A x \in Hashes : t.asset[x].state # "None" => v.asset[x].state # "None" /\ v.asset[x].size = t.asset[x].size
  OBVIOUS
<1>6. \A x \in Hashes : v.asset[x] # t.asset[x] => x \in v.feed
  OBVIOUS
<1>7. v.asset[h] = t.asset[h]
  OBVIOUS
<1> QED BY <1>2, <1>3, <1>4, <1>5, <1>6, <1>7, LeavesContent

LEMMA UpsertPendingEffect ==
  ASSUME NEW t \in Trans, KnownIn(t), NEW slot \in Slots, NEW e
  PROVE  Effect(t, UpsertPending(t, slot, e), slot)
<1> DEFINE old  == t.occ[slot].hash
           told == Told(t, slot, e)
           none == Put(told, slot, NoHash)
           back == Flush(Put(told, slot, old))
           link == Link(back, old, t.asset[old].size)
           new  == t.occ[slot].state = "None"
           empty == old = NoHash
<1>0. UpsertPending(t, slot, e) = IF new THEN none ELSE IF empty THEN Flush(none)
                                  ELSE IF e.revised THEN Trash(Flush(none), old, slot) ELSE link
  BY DEF UpsertPending, Told
<1>1. NoHash \notin Hashes
  BY CatalogAssumption
<1>2. /\ t.occ[slot] \in Occurrence /\ old \in Hashes \cup {NoHash}
      /\ t.occ[slot] = [state |-> t.occ[slot].state, hash |-> old]
      /\ new => old = NoHash
  BY OccurrenceKinds DEF Trans
<1>3. /\ told \in Trans /\ told.asset = t.asset /\ told.occ = t.occ /\ told.seen = t.seen
      /\ t.feed \subseteq told.feed
      /\ ~Unchanged(t, slot, e) => slot \in told.feed
  <2> HIDE DEF told
  <2> QED BY ToldIs DEF told
<1>4. /\ none \in Trans /\ none.asset = t.asset
      /\ none.occ[slot] = [state |-> "Active", hash |-> NoHash]
      /\ \A q \in Slots \ {slot} : none.occ[q] = t.occ[q]
      /\ none.feed = told.feed /\ none.seen = t.seen
  <2> HIDE DEF told
  <2> QED BY <1>3, PutIs
<1>5. /\ Flush(none) \in Trans /\ Flush(none).asset = t.asset /\ Flush(none).rows = Flush(none).occ
      /\ Flush(none).occ[slot] = [state |-> "Active", hash |-> NoHash]
      /\ \A q \in Slots \ {slot} : Flush(none).occ[q] = t.occ[q]
      /\ Flush(none).feed = told.feed /\ Flush(none).seen = t.seen
  <2> HIDE DEF none
  <2> QED BY <1>4, FlushIs
<1>6. Unchanged(t, slot, e) => ~e.revised /\ t.occ[slot].state = "Active"
  BY DEF Unchanged
<1> HIDE DEF told
<1>7. ASSUME old = NoHash
      PROVE  Effect(t, none, slot) /\ Effect(t, Flush(none), slot)
  <2>1. none.occ[slot] # t.occ[slot] => slot \in told.feed
    BY <1>2, <1>3, <1>4, <1>6, <1>7
  <2>2. Flush(none).occ[slot] # t.occ[slot] => slot \in told.feed
    BY <1>2, <1>3, <1>5, <1>6, <1>7
  <2>3. none.occ[slot].hash = NoHash /\ none.occ[slot].state # "None"
    BY <1>4
  <2>4. Flush(none).occ[slot].hash = NoHash /\ Flush(none).occ[slot].state # "None"
    BY <1>5
  <2>5. t.feed \subseteq none.feed /\ t.feed \subseteq Flush(none).feed
    BY <1>3, <1>4, <1>5
  <2> HIDE DEF none
  <2>6. Effect(t, none, slot)
    BY <1>3, <1>4, <1>7, <2>1, <2>3, <2>5, KeepsNoContent
  <2>7. Effect(t, Flush(none), slot)
    BY <1>3, <1>5, <1>7, <2>2, <2>4, <2>5, KeepsNoContent
  <2> QED BY <2>6, <2>7
<1>8. CASE new
  BY <1>0, <1>2, <1>7, <1>8
<1>9. CASE ~new /\ empty
  BY <1>0, <1>7, <1>9
<1>10. CASE ~new /\ ~empty /\ e.revised
  <2>1. UpsertPending(t, slot, e) = Trash(Flush(none), old, slot)
    BY <1>0, <1>10
  <2>2. old \in Hashes
    BY <1>2, <1>10
  <2>3. slot \in Flush(none).feed /\ t.feed \subseteq Flush(none).feed
    BY <1>3, <1>5, <1>6, <1>10
  <2> DEFINE v == Flush(none)
  <2>4. /\ v \in Trans /\ v.asset = t.asset /\ v.rows = v.occ
        /\ v.occ[slot] = [state |-> "Active", hash |-> NoHash]
        /\ \A q \in Slots \ {slot} : v.occ[q] = t.occ[q]
        /\ v.seen = t.seen /\ slot \in v.feed /\ t.feed \subseteq v.feed
    BY <1>5, <2>3
  <2> HIDE DEF v
  <2>5. Effect(t, Trash(v, old, slot), slot)
    BY <2>2, <2>4, LeavesForNone
  <2> QED BY <2>1, <2>5 DEF v
<1>11. CASE ~new /\ ~empty /\ ~e.revised
  <2>1. UpsertPending(t, slot, e) = link
    BY <1>0, <1>11
  <2>2. old \in Hashes
    BY <1>2, <1>11
  <2>3. /\ back \in Trans /\ back.asset = t.asset
        /\ back.occ[slot] = [state |-> "Active", hash |-> old]
        /\ \A q \in Slots \ {slot} : back.occ[q] = t.occ[q]
        /\ back.feed = told.feed /\ back.seen = t.seen
    <3> DEFINE p == Put(told, slot, old)
    <3>1. /\ p \in Trans /\ p.asset = t.asset
          /\ p.occ[slot] = [state |-> "Active", hash |-> old]
          /\ \A q \in Slots \ {slot} : p.occ[q] = t.occ[q]
          /\ p.feed = told.feed /\ p.seen = t.seen
      <4> HIDE DEF old
      <4> QED BY <1>3, <2>2, PutIs
    <3> HIDE DEF p
    <3> QED BY <3>1, FlushIs DEF p
  <2>4. t.asset[old].state # "None"
    BY <1>11 DEF KnownIn
  <2> HIDE DEF back
  <2> DEFINE z == t.asset[old].size
  <2>5. LET u == Link(back, old, z)
         IN  /\ u \in Trans /\ u.occ = back.occ /\ u.rows = back.rows /\ u.seen = back.seen
             /\ back.feed \subseteq u.feed
             /\ \A x \in Hashes \ {old} : u.asset[x] = back.asset[x]
             /\ u.asset[old].state = "Active"
             /\ u.asset[old].size = IF back.asset[old].state = "None" THEN z ELSE back.asset[old].size
             /\ u.asset[old] # back.asset[old] => old \in u.feed
    <3> HIDE DEF z, old
    <3> QED BY <2>2, <2>3, <2>4, LinkIs
  <2>6. /\ link \in Trans /\ link.seen = t.seen /\ told.feed \subseteq link.feed
        /\ link.occ[slot] = [state |-> "Active", hash |-> old]
        /\ \A q \in Slots \ {slot} : link.occ[q] = t.occ[q]
        /\ \A x \in Hashes \ {old} : link.asset[x] = t.asset[x]
        /\ link.asset[old].state = "Active" /\ link.asset[old].size = t.asset[old].size
        /\ link.asset[old] # t.asset[old] => old \in link.feed
    <3> HIDE DEF old
    <3> QED BY <2>3, <2>4, <2>5
  <2> HIDE DEF link
  <2>7. link.occ[slot] # t.occ[slot] => slot \in link.feed
    <3> HIDE DEF old
    <3> QED BY <1>2, <1>3, <1>6, <2>6
  <2>8. t.feed \subseteq link.feed
    BY <1>3, <2>6
  <2>9. t.occ[slot].hash \in {NoHash, old}
    OBVIOUS
  <2> HIDE DEF old
  <2>10. Effect(t, link, slot)
    BY <2>2, <2>6, <2>7, <2>8, <2>9, TakesContent
  <2> QED BY <2>1, <2>10
<1> QED BY <1>8, <1>9, <1>10, <1>11

LEMMA DeleteEffect ==
  ASSUME NEW t \in Trans, KnownIn(t), NEW slot \in Slots
  PROVE  /\ Effect(t, DeleteOccurrence(t, slot), slot)
         /\ DeleteOccurrence(t, slot).occ[slot].state = "Deleted"
<1> DEFINE h    == t.occ[slot].hash
           d    == DeletedAt(t, slot)
           gone == Flush(Tell(d, slot))
<1>0. DeleteOccurrence(t, slot) = IF h = NoHash THEN gone ELSE Trash(gone, h, slot)
  BY DEF DeleteOccurrence, DeletedAt
<1>1. h \in Hashes \cup {NoHash} /\ NoHash \notin Hashes
  BY OccurrenceKinds, CatalogAssumption DEF Trans
<1>2. /\ d \in Trans /\ d.asset = t.asset
      /\ d.occ[slot] = [state |-> "Deleted", hash |-> h]
      /\ \A q \in Slots \ {slot} : d.occ[q] = t.occ[q]
      /\ d.feed = t.feed /\ d.seen = t.seen
  BY DeletedAtIs
<1> HIDE DEF d
<1> DEFINE w == Tell(d, slot)
<1>3. /\ w \in Trans /\ w.asset = t.asset /\ w.occ = d.occ
      /\ w.feed = t.feed \cup {slot} /\ w.seen = t.seen
  BY <1>2, TellIs
<1>4. /\ gone \in Trans /\ gone.asset = t.asset /\ gone.rows = gone.occ
      /\ gone.occ[slot] = [state |-> "Deleted", hash |-> h]
      /\ \A q \in Slots \ {slot} : gone.occ[q] = t.occ[q]
      /\ t.feed \subseteq gone.feed /\ slot \in gone.feed /\ gone.seen = t.seen
  <2> HIDE DEF w, h
  <2>1. /\ Flush(w) \in Trans /\ Flush(w).asset = w.asset /\ Flush(w).rows = w.occ /\ Flush(w).occ = w.occ
        /\ Flush(w).feed = w.feed /\ Flush(w).seen = w.seen
    BY <1>3, FlushIs
  <2>2. gone = Flush(w)
    BY DEF w
  <2> HIDE DEF gone
  <2> QED BY <1>2, <1>3, <2>1, <2>2
<1> HIDE DEF gone
<1>5. CASE h = NoHash
  <2>1. DeleteOccurrence(t, slot) = gone
    BY <1>0, <1>5
  <2>2. gone.occ[slot].hash = NoHash /\ gone.occ[slot].state = "Deleted" /\ t.occ[slot].hash = NoHash
    BY <1>4, <1>5
  <2>3. Effect(t, gone, slot)
    BY <1>4, <2>2, KeepsNoContent
  <2> QED BY <2>1, <2>2, <2>3
<1>6. CASE h # NoHash
  <2>1. DeleteOccurrence(t, slot) = Trash(gone, h, slot)
    BY <1>0, <1>6
  <2>2. h \in Hashes
    BY <1>1, <1>6
  <2>3. t.asset[h].state # "None"
    BY <1>6 DEF KnownIn
  <2>4. t.occ[slot].hash = h
    OBVIOUS
  <2> HIDE DEF h
  <2>5. Effect(t, Trash(gone, h, slot), slot)
    BY <1>4, <2>2, <2>4, LeavesForNone
  <2>6. gone.occ[slot] # [state |-> "Active", hash |-> h] /\ gone.asset[h].state # "None" /\ gone.occ[slot].state = "Deleted"
    BY <1>4, <2>3
  <2>7. Trash(gone, h, slot).occ = gone.occ
    BY <1>4, <2>2, <2>6, TrashIs
  <2> QED BY <2>1, <2>5, <2>6, <2>7
<1> QED BY <1>5, <1>6

-----------------------------------------------------------------------------
(* All entries.                                                            *)

\* What holds of a transaction that began with the view v and writes a source.
Since(v, source, t) ==
  /\ t \in Trans /\ KnownIn(t)
  /\ \A h \in Hashes : v.asset[h].state # "None" => t.asset[h].state # "None" /\ t.asset[h].size = v.asset[h].size
  /\ \A s \in Slots : v.occ[s].state # "None" => t.occ[s].state # "None"
  /\ \A h \in Hashes : t.asset[h] # v.asset[h] => h \in t.feed
  /\ \A s \in Slots : t.occ[s] # v.occ[s] => s \in t.feed
  /\ \A h \in Hashes : LiveIn(v, h) => LiveIn(t, h)
  /\ \A s \in Slots : s[1] # source => t.occ[s] = v.occ[s]

\* The items not seen yet are as in the view.
Unseen(v, source, t) ==
  \A i \in Items \ t.seen : <<source, i>> \in Slots => t.occ[<<source, i>>] = v.occ[<<source, i>>]

LEMMA SinceStart ==
  ASSUME NEW v, Started(v), KnownIn(v), NEW source
  PROVE  Since(v, source, Start(v)) /\ Unseen(v, source, Start(v))
<1> DEFINE t == Start(v)
<1>1. /\ t \in Trans
      /\ t.asset = v.asset /\ t.occ = v.occ /\ t.feed = {} /\ t.seen = {}
  BY StartIs
<1> HIDE DEF t
<1>2. KnownIn(t)
  BY <1>1 DEF KnownIn
<1>3. \A h \in Hashes : LiveIn(v, h) => LiveIn(t, h)
  BY <1>1 DEF LiveIn, Uses
<1>4. Since(v, source, t) /\ Unseen(v, source, t)
  BY <1>1, <1>2, <1>3 DEF Since, Unseen
<1> QED BY <1>4 DEF t

LEMMA SinceStep ==
  ASSUME NEW v, NEW source, NEW t, Since(v, source, t),
         NEW slot \in Slots, slot[1] = source, NEW u, Effect(t, u, slot)
  PROVE  Since(v, source, u)
<1>1. u \in Trans /\ KnownIn(u)
  BY DEF Effect
<1>2. \A h \in Hashes : v.asset[h].state # "None" => u.asset[h].state # "None" /\ u.asset[h].size = v.asset[h].size
  BY DEF Effect, Since
<1>3. \A s \in Slots : v.occ[s].state # "None" => u.occ[s].state # "None"
  BY DEF Effect, Since
<1>4. \A h \in Hashes : u.asset[h] # v.asset[h] => h \in u.feed
  BY DEF Effect, Since
<1>5. \A s \in Slots : u.occ[s] # v.occ[s] => s \in u.feed
  BY DEF Effect, Since
<1>6. \A h \in Hashes : LiveIn(v, h) => LiveIn(u, h)
  BY DEF Effect, Since
<1>7. \A s \in Slots : s[1] # source => u.occ[s] = v.occ[s]
  BY DEF Effect, Since
<1> QED BY <1>1, <1>2, <1>3, <1>4, <1>5, <1>6, <1>7 DEF Since

LEMMA SinceFlush ==
  ASSUME NEW v, NEW source, NEW t, Since(v, source, t)
  PROVE  Since(v, source, Flush(t)) /\ Flush(t).occ = t.occ /\ Flush(t).asset = t.asset
<1> DEFINE u == Flush(t)
<1>1. u \in Trans /\ u.asset = t.asset /\ u.occ = t.occ /\ u.feed = t.feed
  BY FlushIs DEF Since
<1> HIDE DEF u
<1>2. KnownIn(u)
  BY <1>1 DEF Since, KnownIn
<1>3. \A h \in Hashes : LiveIn(v, h) => LiveIn(u, h)
  <2>1. \A h \in Hashes : LiveIn(t, h) => LiveIn(u, h)
    BY <1>1 DEF LiveIn, Uses
  <2> QED BY <2>1 DEF Since
<1>4. Since(v, source, u)
  BY <1>1, <1>2, <1>3 DEF Since
<1> QED BY <1>1, <1>4 DEF u

\* What Comparable says of one entry.
Sensible(v, source, e) ==
  /\ e \in Hashed \cup Pending \cup Deletes
  /\ <<source, e.item>> \in Slots /\ ~e.revised =>
       v.occ[<<source, e.item>>].state # "None" /\ e.hash \in {NoHash, v.occ[<<source, e.item>>].hash}

\* One entry of a manifest keeps both.
LEMMA ApplyKeeps ==
  ASSUME NEW v, NEW source, NEW reliable, NEW t, Since(v, source, t), Unseen(v, source, t),
         NEW e, Sensible(v, source, e)
  PROVE  LET u == Apply(t, source, reliable, e)
         IN  Since(v, source, u) /\ Unseen(v, source, u)
<1> DEFINE slot == <<source, e.item>>
           next == [t EXCEPT !.seen = @ \cup {e.item}]
           skip == slot \notin Slots \/ e.item \in t.seen
           done == IF e.gone
                   THEN IF reliable /\ t.occ[slot].state = "Active" THEN DeleteOccurrence(next, slot) ELSE next
                   ELSE IF e.hash = NoHash THEN UpsertPending(next, slot, e)
                   ELSE UpsertHashed(next, slot, e)
<1>0. Apply(t, source, reliable, e) = IF skip THEN t ELSE done
  BY DEF Apply
<1>1. CASE skip
  BY <1>0, <1>1
<1>2. CASE ~skip
  <2>1. e.item \in Items
    BY DEF Sensible, Hashed, Pending, Deletes
  <2>2. /\ next \in Trans
        /\ next.asset = t.asset /\ next.occ = t.occ /\ next.rows = t.rows /\ next.feed = t.feed
        /\ next.seen = t.seen \cup {e.item}
    BY <2>1, SeeIs DEF Since
  <2> HIDE DEF next
  <2>3. KnownIn(next)
    BY <2>2 DEF KnownIn, Since
  <2>4. Since(v, source, next)
    <3>1. \A h \in Hashes : LiveIn(v, h) => LiveIn(next, h)
      <4>1. \A h \in Hashes : LiveIn(t, h) => LiveIn(next, h)
        BY <2>2 DEF LiveIn, Uses
      <4> QED BY <4>1 DEF Since
    <3> QED BY <2>2, <2>3, <3>1 DEF Since
  <2>5. slot \in Slots /\ slot[1] = source
    BY <1>2
  <2>6. Effect(next, done, slot)
    <3>1. CASE e.gone
      <4>1. Effect(next, next, slot)
        BY <2>2, <2>3, <2>5, StaysPut
      <4>2. Effect(next, DeleteOccurrence(next, slot), slot)
        BY <2>2, <2>3, <2>5, DeleteEffect
      <4> QED BY <3>1, <4>1, <4>2
    <3>2. CASE ~e.gone /\ e.hash = NoHash
      <4>1. Effect(next, UpsertPending(next, slot, e), slot)
        BY <2>2, <2>3, <2>5, UpsertPendingEffect
      <4> QED BY <3>2, <4>1
    <3>3. CASE ~e.gone /\ e.hash # NoHash
      <4>1. e \in Hashed
        BY <3>3 DEF Sensible, Pending, Deletes
      <4>2. next.occ[slot] = v.occ[slot]
        BY <1>2, <2>1, <2>2 DEF Unseen
      <4>3. SameRevision(next, slot, e)
        BY <2>5, <4>2 DEF SameRevision, Sensible
      <4>4. Effect(next, UpsertHashed(next, slot, e), slot)
        BY <2>2, <2>3, <2>5, <4>1, <4>3, UpsertHashedEffect
      <4> QED BY <3>3, <4>4
    <3> QED BY <3>1, <3>2, <3>3
  <2> HIDE DEF done
  <2>7. Since(v, source, done)
    <3> HIDE DEF slot
    <3> QED BY <2>4, <2>5, <2>6, SinceStep
  <2>8. Unseen(v, source, done)
    <3> SUFFICES ASSUME NEW i \in Items \ done.seen, <<source, i>> \in Slots
                 PROVE  done.occ[<<source, i>>] = v.occ[<<source, i>>]
      BY DEF Unseen
    <3>1. done.seen = next.seen
      BY <2>6 DEF Effect
    <3>2. i \notin t.seen /\ i # e.item
      BY <2>2, <3>1
    <3>3. <<source, i>> # slot
      BY <3>2
    <3>4. done.occ[<<source, i>>] = next.occ[<<source, i>>]
      BY <2>6, <3>3 DEF Effect
    <3>5. t.occ[<<source, i>>] = v.occ[<<source, i>>]
      BY <3>2 DEF Unseen
    <3> QED BY <2>2, <3>4, <3>5
  <2> QED BY <1>0, <1>2, <2>7, <2>8
<1> QED BY <1>1, <1>2

\* it[s] is the transaction when the entries of s have been carried out.
ManifestRun(it, v, source, reliable, m, entries) ==
  /\ ApplyAll(v, source, reliable, entries) = Flush(it[1..m])
  /\ it[{}] = Start(v)
  /\ \A s \in SUBSET (1..m) : s # {} =>
       it[s] = Apply(it[s \ {Max(s)}], source, reliable, entries[Max(s)])

\* What a manifest does is done entry by entry.
LEMMA ManifestFold ==
  ASSUME NEW v, NEW source, NEW reliable, NEW m \in Nat, NEW entries, DOMAIN entries = 1..m,
         NEW D, Start(v) \in D,
         \A t \in D : \A n \in 1..m : Apply(t, source, reliable, entries[n]) \in D
  PROVE  \E it : ManifestRun(it, v, source, reliable, m, entries)
<1> DEFINE S == 1..m
           App(t, n) == Apply(t, source, reliable, entries[n])
           G == [t \in D |-> [n \in S |-> App(t, n)]]
           base == Start(v)
           At(f, s) == IF s = {} THEN base ELSE App(f[s \ {Max(s)}], Max(s))
           it == CHOOSE f : f = [s \in SUBSET S |-> At(f, s)]
<1>1. S \in SUBSET Nat /\ IsFiniteSet(S)
  BY FS_Interval
<1>2. G \in [D -> [S -> D]]
  <2> HIDE DEF App
  <2>1. \A t \in D : \A n \in S : App(t, n) \in D
    BY DEF App
  <2> QED BY <2>1
<1>3. PICK f : IsFold(f, S, D, base, G)
  <2> HIDE DEF G, S, base
  <2>1. base \in D
    BY DEF base
  <2> QED BY <1>1, <1>2, <2>1, FoldExists
<1>4. f = [s \in SUBSET S |-> At(f, s)]
  <2>1. ASSUME NEW s \in SUBSET S
        PROVE  f[s] = At(f, s)
    <3>0. f \in [SUBSET S -> D] /\ f[s] = FoldAt(f, s, base, G)
      BY <1>3 DEF IsFold
    <3>1. CASE s = {}
      BY <3>0, <3>1 DEF FoldAt
    <3>2. CASE s # {}
      <4> DEFINE x == Max(s)
                 p == f[s \ {x}]
      <4>1. x \in S
        <5> HIDE DEF S
        <5> QED BY <1>1, <3>2, MaxIsGreatest
      <4>2. p \in D
        <5>1. s \ {x} \in SUBSET S
          OBVIOUS
        <5> HIDE DEF x, S
        <5> QED BY <3>0, <5>1
      <4>3. f[s] = G[p][x]
        BY <3>0, <3>2 DEF FoldAt
      <4>4. G[p][x] = App(p, x)
        <5> HIDE DEF x, p, App, S
        <5> QED BY <4>1, <4>2
      <4>5. At(f, s) = App(p, x)
        BY <3>2
      <4> QED BY <4>3, <4>4, <4>5
    <3> QED BY <3>1, <3>2
  <2>2. f \in [SUBSET S -> D]
    BY <1>3 DEF IsFold
  <2> HIDE DEF At, S
  <2> QED BY <2>1, <2>2
<1>5. it = [s \in SUBSET S |-> At(it, s)]
  <2> HIDE DEF At, S
  <2> QED BY <1>4
<1>6. FoldLeft(LAMBDA t, e : Apply(t, source, reliable, e), base, entries) = it[S]
  BY DEF FoldLeft, MapThenFoldSet
<1>7. ApplyAll(v, source, reliable, entries) = Flush(it[S])
  BY <1>6 DEF ApplyAll
<1>8. \A s \in SUBSET S : it[s] = At(it, s)
  <2> HIDE DEF it, At, S
  <2> QED BY <1>5
<1> HIDE DEF it
<1> QED BY <1>7, <1>8 DEF ManifestRun

\* Where a transaction can be that began with v.
Reached(v, source) == {t \in Trans : Since(v, source, t) /\ Unseen(v, source, t)}

ManifestReaches(it, v, source, reliable, m, entries) ==
  ManifestRun(it, v, source, reliable, m, entries) /\ \A s \in SUBSET (1..m) : it[s] \in Reached(v, source)

LEMMA ManifestStays ==
  ASSUME NEW v, Started(v), KnownIn(v), NEW source, NEW reliable, NEW m \in Nat, NEW entries, DOMAIN entries = 1..m,
         \A n \in 1..m : Sensible(v, source, entries[n])
  PROVE  \E it : ManifestReaches(it, v, source, reliable, m, entries)
<1> DEFINE S == 1..m
           D == Reached(v, source)
<1>1. Start(v) \in D
  BY SinceStart, StartIs DEF Reached
<1>2. \A t \in D : \A n \in S : Apply(t, source, reliable, entries[n]) \in D
  <2> SUFFICES ASSUME NEW t \in D, NEW n \in S
               PROVE  Apply(t, source, reliable, entries[n]) \in D
    OBVIOUS
  <2> DEFINE u == Apply(t, source, reliable, entries[n])
  <2>1. Since(v, source, t) /\ Unseen(v, source, t) /\ Sensible(v, source, entries[n])
    BY DEF Reached
  <2>2. Since(v, source, u) /\ Unseen(v, source, u)
    BY <2>1, ApplyKeeps
  <2> HIDE DEF u
  <2>3. u \in D
    BY <2>2 DEF Since, Reached
  <2> QED BY <2>3 DEF u
<1>0. PICK it : ManifestRun(it, v, source, reliable, m, entries)
  <2> HIDE DEF D
  <2> QED BY <1>1, <1>2, ManifestFold
<1>3. /\ it[{}] = Start(v)
      /\ \A s \in SUBSET S : s # {} =>
           it[s] = Apply(it[s \ {Max(s)}], source, reliable, entries[Max(s)])
  BY <1>0 DEF ManifestRun
<1> DEFINE Good == {s \in SUBSET S : it[s] \in D}
<1>4. ASSUME NEW s \in SUBSET S, \A x \in s : s \ {x} \in Good
      PROVE  s \in Good
  <2> HIDE DEF D
  <2>1. CASE s = {}
    BY <1>1, <1>3, <2>1
  <2>2. CASE s # {}
    <3>1. Max(s) \in s
      <4>1. S \in SUBSET Nat /\ IsFiniteSet(S)
        BY FS_Interval
      <4> HIDE DEF S
      <4> QED BY <2>2, <4>1, MaxIsGreatest
    <3>2. it[s \ {Max(s)}] \in D /\ Max(s) \in S
      BY <1>4, <3>1
    <3>3. it[s] \in D
      <4> HIDE DEF S
      <4> QED BY <1>2, <1>3, <2>2, <3>2
    <3> QED BY <3>3
  <2> QED BY <2>1, <2>2
<1>5. \A s \in SUBSET S : s \in Good
  <2>1. IsFiniteSet(S)
    BY FS_Interval
  <2> HIDE DEF S, Good
  <2> QED BY <1>4, <2>1, SubsetsInduction
<1>6. \A s \in SUBSET S : it[s] \in D
  BY <1>5
<1>7. ManifestReaches(it, v, source, reliable, m, entries)
  BY <1>0, <1>6 DEF ManifestReaches
<1> QED BY <1>7

\* A whole manifest.
LEMMA ManifestSince ==
  ASSUME NEW v, Started(v), KnownIn(v), NEW source, NEW reliable, NEW m \in Nat, NEW entries, DOMAIN entries = 1..m,
         \A n \in 1..m : Sensible(v, source, entries[n])
  PROVE  Since(v, source, ApplyAll(v, source, reliable, entries))
<1> DEFINE S == 1..m
<1>1. PICK it : ManifestReaches(it, v, source, reliable, m, entries)
  BY ManifestStays
<1>2. ApplyAll(v, source, reliable, entries) = Flush(it[S]) /\ it[S] \in Reached(v, source)
  BY <1>1 DEF ManifestReaches, ManifestRun
<1> HIDE DEF S
<1>3. Since(v, source, Flush(it[S]))
  BY <1>2, SinceFlush DEF Reached
<1> QED BY <1>2, <1>3

\* The removal of a source's occurrences.
Removal(v, active) == Flush(FoldLeft(DeleteOccurrence, Start(v), SetToSeq(active)))

RemovalRun(it, v, seq, m) ==
  /\ it[{}] = Start(v)
  /\ \A s \in SUBSET (1..m) : s # {} => it[s] = DeleteOccurrence(it[s \ {Max(s)}], seq[Max(s)])

LEMMA RemovalFold ==
  ASSUME NEW v, Started(v), KnownIn(v), NEW m \in Nat, NEW seq \in [1..m -> Slots]
  PROVE  \E it : /\ FoldLeft(DeleteOccurrence, Start(v), seq) = it[1..m]
                 /\ RemovalRun(it, v, seq, m)
<1> DEFINE S == 1..m
           D == {t \in Trans : KnownIn(t)}
           App(t, n) == DeleteOccurrence(t, seq[n])
           G == [t \in D |-> [n \in S |-> App(t, n)]]
           base == Start(v)
           At(f, s) == IF s = {} THEN base ELSE App(f[s \ {Max(s)}], Max(s))
           it == CHOOSE f : f = [s \in SUBSET S |-> At(f, s)]
<1>1. S \in SUBSET Nat /\ IsFiniteSet(S)
  BY FS_Interval
<1>0. base \in D
  BY StartIs DEF KnownIn
<1>2. G \in [D -> [S -> D]]
  <2>1. ASSUME NEW t \in D, NEW n \in S
        PROVE  App(t, n) \in D
    <3>1. seq[n] \in Slots
      OBVIOUS
    <3>2. Effect(t, DeleteOccurrence(t, seq[n]), seq[n])
      BY <3>1, DeleteEffect
    <3> QED BY <3>2 DEF Effect
  <2> HIDE DEF App, D, S
  <2> QED BY <2>1
<1> HIDE DEF D
<1>3. PICK f : IsFold(f, S, D, base, G)
  <2> HIDE DEF G, S, base
  <2> QED BY <1>0, <1>1, <1>2, FoldExists
<1>4. f = [s \in SUBSET S |-> At(f, s)]
  <2>1. ASSUME NEW s \in SUBSET S
        PROVE  f[s] = At(f, s)
    <3>0. f \in [SUBSET S -> D] /\ f[s] = FoldAt(f, s, base, G)
      BY <1>3 DEF IsFold
    <3>1. CASE s = {}
      BY <3>0, <3>1 DEF FoldAt
    <3>2. CASE s # {}
      <4> DEFINE x == Max(s)
                 p == f[s \ {x}]
      <4>1. x \in S
        <5> HIDE DEF S
        <5> QED BY <1>1, <3>2, MaxIsGreatest
      <4>2. p \in D
        <5>1. s \ {x} \in SUBSET S
          OBVIOUS
        <5> HIDE DEF x, S
        <5> QED BY <3>0, <5>1
      <4>3. f[s] = G[p][x]
        BY <3>0, <3>2 DEF FoldAt
      <4>4. G[p][x] = App(p, x)
        <5> HIDE DEF x, p, App, S
        <5> QED BY <4>1, <4>2
      <4>5. At(f, s) = App(p, x)
        BY <3>2
      <4> QED BY <4>3, <4>4, <4>5
    <3> QED BY <3>1, <3>2
  <2>2. f \in [SUBSET S -> D]
    BY <1>3 DEF IsFold
  <2> HIDE DEF At, S
  <2> QED BY <2>1, <2>2
<1>5. it = [s \in SUBSET S |-> At(it, s)]
  <2> HIDE DEF At, S
  <2> QED BY <1>4
<1>6. FoldLeft(DeleteOccurrence, base, seq) = it[S]
  <2>1. DOMAIN seq = S
    OBVIOUS
  <2> QED BY <2>1 DEF FoldLeft, MapThenFoldSet
<1>8. \A s \in SUBSET S : it[s] = At(it, s)
  <2> HIDE DEF it, At, S
  <2> QED BY <1>5
<1> HIDE DEF it
<1> QED BY <1>6, <1>8 DEF RemovalRun

\* Nothing but the active occurrences is touched, and they are all deleted.
LEMMA RemovalSince ==
  ASSUME NEW v, Started(v), KnownIn(v), NEW source, NEW active \in SUBSET Slots,
         \A q \in active : q[1] = source
  PROVE  LET u == Removal(v, active)
         IN  /\ Since(v, source, u)
             /\ \A q \in Slots : u.occ[q] = v.occ[q] \/ u.occ[q].state = "Deleted"
             /\ \A q \in active : u.occ[q].state = "Deleted"
<1> DEFINE seq == SetToSeq(active)
           m   == Cardinality(active)
           S   == 1..m
<1>1. IsFiniteSet(active) /\ m \in Nat
  BY FS_Subset, FS_CardinalityType, CatalogAssumption
<1>2. seq \in [S -> active] /\ \A x \in active : \E n \in S : seq[n] = x
  BY <1>1, SetToSeqIs
<1>3. seq \in [1..m -> Slots]
  BY <1>2
<1>4. PICK it : /\ FoldLeft(DeleteOccurrence, Start(v), seq) = it[S]
                /\ RemovalRun(it, v, seq, m)
  <2> HIDE DEF seq, m
  <2> QED BY <1>1, <1>3, RemovalFold
<1> DEFINE Fine(s) == /\ Since(v, source, it[s])
                      /\ \A q \in Slots : it[s].occ[q] = v.occ[q] \/ it[s].occ[q].state = "Deleted"
                      /\ \A n \in s : it[s].occ[seq[n]].state = "Deleted"
           Good == {s \in SUBSET S : Fine(s)}
<1> HIDE DEF seq, m
<1>5. ASSUME NEW s \in SUBSET S, \A x \in s : s \ {x} \in Good
      PROVE  s \in Good
  <2>1. CASE s = {}
    <3>1. it[s] = Start(v)
      BY <1>4, <2>1 DEF RemovalRun
    <3>2. Since(v, source, it[s])
      BY <3>1, SinceStart
    <3>3. it[s].occ = v.occ
      BY <3>1, StartIs
    <3> QED BY <2>1, <3>2, <3>3
  <2>2. CASE s # {}
    <3> DEFINE x == Max(s)
               t == it[s \ {x}]
               u == it[s]
               slot == seq[x]
    <3>1. x \in s
      <4>1. S \in SUBSET Nat /\ IsFiniteSet(S)
        BY <1>1, FS_Interval
      <4> HIDE DEF S
      <4> QED BY <2>2, <4>1, MaxIsGreatest
    <3>2. Fine(s \ {x})
      BY <1>5, <3>1
    <3>3. slot \in Slots /\ slot[1] = source
      BY <1>2, <3>1
    <3>4. u = DeleteOccurrence(t, slot)
      <4> HIDE DEF seq
      <4> QED BY <1>4, <2>2 DEF RemovalRun
    <3>5. Effect(t, u, slot) /\ u.occ[slot].state = "Deleted"
      BY <3>2, <3>3, <3>4, DeleteEffect DEF Since
    <3>6. Since(v, source, t)
      BY <3>2
    <3>7. Since(v, source, u)
      <4> HIDE DEF u, t, slot
      <4> QED BY <3>3, <3>5, <3>6, SinceStep
    <3>8. \A q \in Slots : t.occ[q] = v.occ[q] \/ t.occ[q].state = "Deleted"
      BY <3>2
    <3>9. \A n \in s \ {x} : t.occ[seq[n]].state = "Deleted"
      BY <3>2
    <3>10. \A n \in s : seq[n] \in Slots
      BY <1>2
    <3> HIDE DEF u, t, slot, Fine
    <3>11. \A q \in Slots : u.occ[q] = v.occ[q] \/ u.occ[q].state = "Deleted"
      BY <3>5, <3>8 DEF Effect
    <3>12. \A n \in s : u.occ[seq[n]].state = "Deleted"
      <4> SUFFICES ASSUME NEW n \in s PROVE u.occ[seq[n]].state = "Deleted"
        OBVIOUS
      <4>1. CASE seq[n] = slot
        BY <3>5, <4>1
      <4>2. CASE seq[n] # slot
        <5>1. n # x
          BY <4>2 DEF slot
        <5>2. t.occ[seq[n]].state = "Deleted"
          BY <3>9, <5>1
        <5>3. u.occ[seq[n]] = t.occ[seq[n]]
          BY <3>5, <3>10, <4>2 DEF Effect
        <5> QED BY <5>2, <5>3
      <4> QED BY <4>1, <4>2
    <3> QED BY <3>7, <3>11, <3>12 DEF u, Fine
  <2> QED BY <2>1, <2>2
<1>6. S \in Good
  <2>1. IsFiniteSet(S)
    BY <1>1, FS_Interval
  <2> HIDE DEF S, Good
  <2> QED BY <1>5, <2>1, SubsetInduction
<1>7. Fine(S)
  BY <1>6
<1> DEFINE w == it[S]
<1>8. Removal(v, active) = Flush(w)
  BY <1>4 DEF Removal, seq
<1>9. /\ Since(v, source, w)
      /\ \A q \in Slots : w.occ[q] = v.occ[q] \/ w.occ[q].state = "Deleted"
      /\ \A q \in active : w.occ[q].state = "Deleted"
  BY <1>2, <1>7
<1> HIDE DEF w, Fine
<1>10. Since(v, source, Flush(w)) /\ Flush(w).occ = w.occ
  BY <1>9, SinceFlush
<1> QED BY <1>8, <1>9, <1>10

-----------------------------------------------------------------------------
(* What a transaction writes.                                              *)

Pick(o, n, c) == IF n # o THEN n ELSE c

LEMMA WrittenAssets ==
  ASSUME NEW old \in [Hashes -> Asset], NEW new \in [Hashes -> Asset], NEW current \in [Hashes -> Asset]
  PROVE  /\ DOMAIN Written(old, new, current) = Hashes
         /\ Written(old, new, current) = [h \in Hashes |-> Written(old, new, current)[h]]
         /\ \A h \in Hashes : Written(old, new, current)[h] =
              [state |-> Pick(old[h].state, new[h].state, current[h].state),
               size  |-> Pick(old[h].size, new[h].size, current[h].size)]
<1>1. DOMAIN Written(old, new, current) = Hashes
      /\ Written(old, new, current) = [h \in Hashes |-> Written(old, new, current)[h]]
  BY DEF Written
<1>2. ASSUME NEW h \in Hashes
      PROVE  Written(old, new, current)[h] =
              [state |-> Pick(old[h].state, new[h].state, current[h].state),
               size  |-> Pick(old[h].size, new[h].size, current[h].size)]
  <2>1. PICK st, z : current[h] = [state |-> st, size |-> z]
    BY AssetKinds
  <2>2. Written(old, new, current)[h] =
          [a \in DOMAIN current[h] |-> IF new[h][a] # old[h][a] THEN new[h][a] ELSE current[h][a]]
    BY DEF Written
  <2>3. DOMAIN current[h] = {"state", "size"}
    BY <2>1
  <2> QED BY <2>1, <2>2, <2>3 DEF Pick
<1> QED BY <1>1, <1>2

LEMMA WrittenOccurrences ==
  ASSUME NEW old \in [Slots -> Occurrence], NEW new \in [Slots -> Occurrence], NEW current \in [Slots -> Occurrence]
  PROVE  /\ DOMAIN Written(old, new, current) = Slots
         /\ Written(old, new, current) = [s \in Slots |-> Written(old, new, current)[s]]
         /\ \A s \in Slots : Written(old, new, current)[s] =
              [state |-> Pick(old[s].state, new[s].state, current[s].state),
               hash  |-> Pick(old[s].hash, new[s].hash, current[s].hash)]
<1>1. DOMAIN Written(old, new, current) = Slots
      /\ Written(old, new, current) = [s \in Slots |-> Written(old, new, current)[s]]
  BY DEF Written
<1>2. ASSUME NEW s \in Slots
      PROVE  Written(old, new, current)[s] =
              [state |-> Pick(old[s].state, new[s].state, current[s].state),
               hash  |-> Pick(old[s].hash, new[s].hash, current[s].hash)]
  <2>1. PICK st, z : current[s] = [state |-> st, hash |-> z]
    BY OccurrenceKinds
  <2>2. Written(old, new, current)[s] =
          [a \in DOMAIN current[s] |-> IF new[s][a] # old[s][a] THEN new[s][a] ELSE current[s][a]]
    BY DEF Written
  <2>3. DOMAIN current[s] = {"state", "hash"}
    BY <2>1
  <2> QED BY <2>1, <2>2, <2>3 DEF Pick
<1> QED BY <1>1, <1>2

\* The catalogue as the view of a transaction that would begin now.
Now == [asset |-> asset, occ |-> occ]

\* A view that a request may still act on: no asset and no occurrence has been lost
\* since, and what it shows of contents nobody overtook or disputed is right.
ViewSound(v) ==
  /\ v \in View /\ KnownIn(v) /\ v.records \subseteq records
  /\ \A h \in Hashes : v.asset[h].state # "None" => asset[h].state # "None"
  /\ \A s \in Slots : v.occ[s].state # "None" => occ[s].state # "None"
  /\ \A h \in Hashes \ (overtaken \cup disputed) : LiveIn(v, h)

ViewsSound == \A r \in Requests : request[r] # None => ViewSound(request[r])

\* A request is on record exactly when it was carried out.
Counted == \A k \in Keys : applied[k] = IF k \in records THEN 1 ELSE 0

IInv ==
  /\ TypeOK /\ request \in [Requests -> View \cup {None}]
  /\ KnownIn(Now) /\ ViewsSound /\ Counted /\ RemovedIsEmpty /\ LiveWhileUsed

\* What it leaves of assets, occurrences and their contents.
LEMMA CommitWrites ==
  ASSUME IInv, NEW r \in Requests, request[r] # None, NEW source, NEW t, Since(request[r], source, t),
         Commit(r, source, t)
  PROVE  /\ asset' \in [Hashes -> Asset] /\ occ' \in [Slots -> Occurrence]
         /\ \A h \in Hashes : asset'[h].state = Pick(request[r].asset[h].state, t.asset[h].state, asset[h].state)
         /\ \A s \in Slots : /\ occ'[s].state = Pick(request[r].occ[s].state, t.occ[s].state, occ[s].state)
                             /\ occ'[s].hash = Pick(request[r].occ[s].hash, t.occ[s].hash, occ[s].hash)
         /\ \A h \in Hashes : asset[h].state # "None" => asset'[h].state # "None"
         /\ \A s \in Slots : occ[s].state # "None" => occ'[s].state # "None"
         /\ KnownIn(Now)'
<1> DEFINE v == request[r]
<1>1. ViewSound(v) /\ v \in View /\ v.asset \in [Hashes -> Asset] /\ v.occ \in [Slots -> Occurrence]
  BY DEF IInv, ViewsSound, ViewSound, View
<1>2. t.asset \in [Hashes -> Asset] /\ t.occ \in [Slots -> Occurrence] /\ KnownIn(t)
  BY DEF Since, Trans
<1>3. asset \in [Hashes -> Asset] /\ occ \in [Slots -> Occurrence]
  BY DEF IInv, TypeOK
<1>4. ~Collides(v, t) /\ asset' = Written(v.asset, t.asset, asset) /\ occ' = Written(v.occ, t.occ, occ)
  BY DEF Commit
<1> HIDE DEF v
<1>5. /\ asset' = [h \in Hashes |-> asset'[h]]
      /\ \A h \in Hashes : asset'[h] = [state |-> Pick(v.asset[h].state, t.asset[h].state, asset[h].state),
                                        size  |-> Pick(v.asset[h].size, t.asset[h].size, asset[h].size)]
  BY <1>1, <1>2, <1>3, <1>4, WrittenAssets
<1>6. /\ occ' = [s \in Slots |-> occ'[s]]
      /\ \A s \in Slots : occ'[s] = [state |-> Pick(v.occ[s].state, t.occ[s].state, occ[s].state),
                                     hash  |-> Pick(v.occ[s].hash, t.occ[s].hash, occ[s].hash)]
  BY <1>1, <1>2, <1>3, <1>4, WrittenOccurrences
<1>7. ASSUME NEW h \in Hashes
      PROVE  /\ asset'[h] \in Asset
             /\ asset[h].state # "None" => asset'[h].state # "None"
             /\ t.asset[h].state # "None" => asset'[h].state # "None"
  <2> DEFINE a == v.asset[h]
             b == t.asset[h]
             c == asset[h]
  <2>1. a \in Asset /\ b \in Asset /\ c \in Asset
    BY <1>1, <1>2, <1>3
  <2>2. a.state # "None" => b.state # "None" /\ b.size = a.size /\ c.state # "None"
    BY <1>1 DEF Since, ViewSound, v
  <2>3. a.state = "None" /\ b.state # "None" => c.state = "None"
    BY <1>4 DEF Collides
  <2>4. asset'[h] = [state |-> Pick(a.state, b.state, c.state), size |-> Pick(a.size, b.size, c.size)]
    BY <1>5
  <2>5. /\ a.state \in {"None", "Active", "Trashed"} /\ b.state \in {"None", "Active", "Trashed"}
        /\ c.state \in {"None", "Active", "Trashed"}
        /\ a.state = "None" => a.size = NoSize
        /\ b.state = "None" => b.size = NoSize
        /\ c.state = "None" => c.size = NoSize
        /\ a.state # "None" => a.size \in Sizes
        /\ b.state # "None" => b.size \in Sizes
        /\ c.state # "None" => c.size \in Sizes
    BY <2>1, AssetKinds
  <2> HIDE DEF a, b, c
  <2>6. CASE a.state # "None"
    <3>1. Pick(a.size, b.size, c.size) = c.size /\ Pick(a.state, b.state, c.state) \in {"Active", "Trashed"}
      BY <2>2, <2>5, <2>6 DEF Pick
    <3>2. asset'[h] \in Asset
      BY <2>2, <2>4, <2>5, <2>6, <3>1, AssetIs
    <3> QED BY <2>4, <3>1, <3>2
  <2>7. CASE a.state = "None" /\ b.state = "None"
    <3>1. Pick(a.size, b.size, c.size) = c.size /\ Pick(a.state, b.state, c.state) = c.state
      BY <2>5, <2>7 DEF Pick
    <3>2. asset'[h] = c
      BY <2>1, <2>4, <3>1, AssetKinds
    <3> QED BY <2>1, <2>7, <3>2 DEF b, c
  <2>8. CASE a.state = "None" /\ b.state # "None"
    <3>1. c.state = "None" /\ c.size = a.size
      BY <2>3, <2>5, <2>8
    <3>2. Pick(a.size, b.size, c.size) = b.size /\ Pick(a.state, b.state, c.state) = b.state
      BY <3>1, <2>8 DEF Pick
    <3>3. asset'[h] = b
      BY <2>1, <2>4, <3>2, AssetKinds
    <3> QED BY <2>1, <2>8, <3>3
  <2> QED BY <2>6, <2>7, <2>8 DEF b, c
<1>8. ASSUME NEW s \in Slots
      PROVE  /\ occ'[s] \in Occurrence
             /\ occ[s].state # "None" => occ'[s].state # "None"
  <2> DEFINE a == v.occ[s]
             b == t.occ[s]
             c == occ[s]
  <2>1. a \in Occurrence /\ b \in Occurrence /\ c \in Occurrence
    BY <1>1, <1>2, <1>3
  <2>2. a.state # "None" => b.state # "None" /\ c.state # "None"
    BY <1>1 DEF Since, ViewSound, v
  <2>3. a.state = "None" /\ b.state # "None" => c.state = "None"
    BY <1>4 DEF Collides
  <2>4. occ'[s] = [state |-> Pick(a.state, b.state, c.state), hash |-> Pick(a.hash, b.hash, c.hash)]
    BY <1>6
  <2>5. /\ a.state \in {"None", "Active", "Deleted"} /\ b.state \in {"None", "Active", "Deleted"}
        /\ c.state \in {"None", "Active", "Deleted"}
        /\ a.hash \in Hashes \cup {NoHash} /\ b.hash \in Hashes \cup {NoHash} /\ c.hash \in Hashes \cup {NoHash}
        /\ a.state = "None" => a.hash = NoHash
        /\ b.state = "None" => b.hash = NoHash
        /\ c.state = "None" => c.hash = NoHash
    BY <2>1, OccurrenceKinds
  <2> HIDE DEF a, b, c
  <2>6. CASE a.state # "None"
    <3>1. /\ Pick(a.hash, b.hash, c.hash) \in Hashes \cup {NoHash}
          /\ Pick(a.state, b.state, c.state) \in {"Active", "Deleted"}
      BY <2>2, <2>5, <2>6 DEF Pick
    <3>2. occ'[s] \in Occurrence
      BY <2>4, <3>1, OccurrenceIs
    <3> QED BY <2>4, <3>1, <3>2
  <2>7. CASE a.state = "None" /\ b.state = "None"
    <3>1. Pick(a.hash, b.hash, c.hash) = c.hash /\ Pick(a.state, b.state, c.state) = c.state
      BY <2>5, <2>7 DEF Pick
    <3>2. occ'[s] = c
      BY <2>1, <2>4, <3>1, OccurrenceKinds
    <3> QED BY <2>1, <2>7, <3>2 DEF c
  <2>8. CASE a.state = "None" /\ b.state # "None"
    <3>1. c.state = "None" /\ c.hash = a.hash
      BY <2>3, <2>5, <2>8
    <3>2. Pick(a.hash, b.hash, c.hash) = b.hash /\ Pick(a.state, b.state, c.state) = b.state
      BY <3>1, <2>8 DEF Pick
    <3>3. occ'[s] = b
      BY <2>1, <2>4, <3>2, OccurrenceKinds
    <3> QED BY <2>1, <2>8, <3>3
  <2> QED BY <2>6, <2>7, <2>8 DEF c
<1>11. \A h \in Hashes : asset'[h].state = Pick(v.asset[h].state, t.asset[h].state, asset[h].state)
  <2> TAKE h \in Hashes
  <2> DEFINE p == Pick(v.asset[h].state, t.asset[h].state, asset[h].state)
             z == Pick(v.asset[h].size, t.asset[h].size, asset[h].size)
  <2>1. asset'[h] = [state |-> p, size |-> z]
    BY <1>5
  <2> HIDE DEF p, z
  <2>2. asset'[h].state = p
    BY <2>1
  <2> QED BY <2>2 DEF p
<1>12. \A s \in Slots : /\ occ'[s].state = Pick(v.occ[s].state, t.occ[s].state, occ[s].state)
                       /\ occ'[s].hash = Pick(v.occ[s].hash, t.occ[s].hash, occ[s].hash)
  <2> TAKE s \in Slots
  <2> DEFINE p == Pick(v.occ[s].state, t.occ[s].state, occ[s].state)
             z == Pick(v.occ[s].hash, t.occ[s].hash, occ[s].hash)
  <2>1. occ'[s] = [state |-> p, hash |-> z]
    BY <1>6
  <2> HIDE DEF p, z
  <2>2. occ'[s].state = p /\ occ'[s].hash = z
    BY <2>1
  <2> QED BY <2>2 DEF p, z
<1>9. asset' \in [Hashes -> Asset] /\ occ' \in [Slots -> Occurrence]
  BY <1>5, <1>6, <1>7, <1>8
<1>10. KnownIn(Now)'
  <2> SUFFICES ASSUME NEW s \in Slots, occ'[s].hash # NoHash
               PROVE  asset'[occ'[s].hash].state # "None"
    BY DEF KnownIn, Now
  <2>1. occ'[s].hash = Pick(v.occ[s].hash, t.occ[s].hash, occ[s].hash)
    BY <1>12
  <2>2. CASE occ'[s].hash = t.occ[s].hash
    <3>1. t.occ[s].hash \in Hashes
      BY <1>2, <2>2, OccurrenceKinds
    <3>2. t.asset[t.occ[s].hash].state # "None"
      BY <1>2, <2>2 DEF KnownIn
    <3> QED BY <1>7, <2>2, <3>1, <3>2
  <2>3. CASE occ'[s].hash = occ[s].hash
    <3>1. occ[s].hash \in Hashes
      BY <1>3, <2>3, OccurrenceKinds
    <3>2. asset[occ[s].hash].state # "None"
      BY <2>3 DEF IInv, KnownIn, Now
    <3> QED BY <1>7, <2>3, <3>1, <3>2
  <2> QED BY <2>1, <2>2, <2>3 DEF Pick
<1> QED BY <1>7, <1>8, <1>9, <1>10, <1>11, <1>12 DEF v

\* Whatever was committed meanwhile, a view stays sound.
LEMMA ViewsStay ==
  ASSUME ViewsSound, \A q \in Requests : request'[q] \in {None, request[q]},
         records \subseteq records', overtaken \subseteq overtaken', disputed \subseteq disputed',
         \A h \in Hashes : asset[h].state # "None" => asset'[h].state # "None",
         \A s \in Slots : occ[s].state # "None" => occ'[s].state # "None"
  PROVE  ViewsSound'
<1> SUFFICES ASSUME NEW q \in Requests, request'[q] # None
             PROVE  ViewSound(request[q])' 
  BY DEF ViewsSound
<1>1. request'[q] = request[q] /\ ViewSound(request[q])
  BY DEF ViewsSound
<1>2. \A v : ViewSound(v) => ViewSound(v)'
  BY DEF ViewSound
<1> QED BY <1>1, <1>2

\* A transaction whose view was right about an unused or used content leaves it so.
LEMMA CommitKeepsLive ==
  ASSUME IInv, NEW r \in Requests, request[r] # None, NEW source, NEW t, Since(request[r], source, t),
         Commit(r, source, t)
  PROVE  LiveWhileUsed'
<1> DEFINE v == request[r]
<1>1. ViewSound(v) /\ v \in View /\ v.asset \in [Hashes -> Asset] /\ v.occ \in [Slots -> Occurrence]
  BY DEF IInv, ViewsSound, ViewSound, View
<1>2. t.asset \in [Hashes -> Asset] /\ t.occ \in [Slots -> Occurrence] /\ KnownIn(t)
  BY DEF Since, Trans
<1>3. asset \in [Hashes -> Asset] /\ occ \in [Slots -> Occurrence] /\ NoHash \notin Hashes
  BY CatalogAssumption DEF IInv, TypeOK
<1>4. /\ \A h \in Hashes : asset'[h].state = Pick(v.asset[h].state, t.asset[h].state, asset[h].state)
      /\ \A s \in Slots : /\ occ'[s].state = Pick(v.occ[s].state, t.occ[s].state, occ[s].state)
                          /\ occ'[s].hash = Pick(v.occ[s].hash, t.occ[s].hash, occ[s].hash)
      /\ occ' \in [Slots -> Occurrence]
  BY CommitWrites
<1>5. /\ overtaken' = IF Outdated(v) THEN overtaken \cup Touched(v, t) \cup {source} ELSE overtaken
      /\ disputed' = disputed /\ ~Collides(v, t)
  BY DEF Commit
<1>6. Since(v, source, t)
  OBVIOUS
<1> HIDE DEF v
<1> SUFFICES ASSUME NEW h \in Hashes, h \notin overtaken', h \notin disputed'
             PROVE  Live(h)'
  BY DEF LiveWhileUsed
<1>7. h \notin overtaken /\ h \notin disputed
  BY <1>5
<1>8. Live(h) /\ LiveIn(v, h) /\ LiveIn(t, h)
  <2>1. Live(h)
    BY <1>7 DEF IInv, LiveWhileUsed
  <2>2. LiveIn(v, h)
    BY <1>1, <1>7 DEF ViewSound
  <2>3. LiveIn(t, h)
    BY <1>6, <2>2 DEF Since
  <2> QED BY <2>1, <2>2, <2>3
<1>9. CASE ~Outdated(v)
  <2>1. v.asset = asset /\ v.occ = occ
    BY <1>9 DEF Outdated
  <2>2. asset'[h].state = t.asset[h].state
    BY <1>4, <2>1 DEF Pick
  <2>3. \A s \in Slots : occ'[s] = t.occ[s]
    <3> SUFFICES ASSUME NEW s \in Slots PROVE occ'[s] = t.occ[s]
      OBVIOUS
    <3>1. t.occ[s] = [state |-> t.occ[s].state, hash |-> t.occ[s].hash]
      BY <1>2, OccurrenceKinds
    <3>2. occ'[s].state = t.occ[s].state /\ occ'[s].hash = t.occ[s].hash
      BY <1>4, <2>1 DEF Pick
    <3>3. occ'[s] = [state |-> occ'[s].state, hash |-> occ'[s].hash]
      BY <1>4, OccurrenceKinds
    <3> QED BY <3>1, <3>2, <3>3
  <2> QED BY <1>8, <2>2, <2>3 DEF Live, LiveIn, Used, Uses
<1>10. CASE Outdated(v)
  <2>1. h \notin Touched(v, t)
    BY <1>5, <1>10
  <2>2. ASSUME NEW s \in Slots
        PROVE  occ'[s] = [state |-> "Active", hash |-> h] <=> occ[s] = [state |-> "Active", hash |-> h]
    <3>0. /\ occ[s] = [state |-> occ[s].state, hash |-> occ[s].hash]
      BY <1>3, OccurrenceKinds
    <3>1. CASE v.occ[s] = t.occ[s]
      <4>1. occ'[s].state = occ[s].state /\ occ'[s].hash = occ[s].hash
        BY <1>4, <3>1 DEF Pick
      <4>2. occ'[s] = [state |-> occ'[s].state, hash |-> occ'[s].hash]
        BY <1>4, OccurrenceKinds
      <4> QED BY <3>0, <4>1, <4>2
    <3>2. CASE v.occ[s] # t.occ[s]
      <4>1. v.occ[s].hash # h /\ t.occ[s].hash # h /\ occ[s].hash # h
        BY <2>1, <3>2 DEF Touched
      <4>2. occ'[s].hash # h
        BY <1>4, <4>1 DEF Pick
      <4> QED BY <4>1, <4>2
    <3> QED BY <3>1, <3>2
  <2>3. Used(h)' <=> Used(h)
    BY <2>2 DEF Used
  <2>4. Uses(v, h) <=> Uses(t, h)
    <3>1. ASSUME NEW s \in Slots
          PROVE  v.occ[s] = [state |-> "Active", hash |-> h] <=> t.occ[s] = [state |-> "Active", hash |-> h]
      <4>1. CASE v.occ[s] = t.occ[s]
        BY <4>1
      <4>2. CASE v.occ[s] # t.occ[s]
        <5>1. v.occ[s].hash # h /\ t.occ[s].hash # h
          BY <2>1, <4>2 DEF Touched
        <5> QED BY <5>1
      <4> QED BY <4>1, <4>2
    <3> QED BY <3>1 DEF Uses
  <2>5. v.asset[h].state = "Active" <=> t.asset[h].state = "Active"
    BY <1>8, <2>4 DEF LiveIn
  <2>6. asset'[h].state = "Active" <=> asset[h].state = "Active"
    <3>1. asset'[h].state = Pick(v.asset[h].state, t.asset[h].state, asset[h].state)
      BY <1>4
    <3>2. CASE v.asset[h].state = t.asset[h].state
      BY <3>1, <3>2 DEF Pick
    <3>3. CASE v.asset[h].state # t.asset[h].state
      <4>1. t.asset[h].state # "Active" /\ v.asset[h].state # "Active"
        BY <2>5, <3>3
      <4>2. v.asset[h].state \in {"None", "Trashed"} /\ t.asset[h].state \in {"None", "Trashed"}
        BY <1>1, <1>2, <4>1, AssetKinds
      <4>3. v.asset[h].state = "None" /\ t.asset[h].state # "None"
        BY <1>6, <3>3, <4>2 DEF Since
      <4>4. asset[h].state = "None"
        BY <1>5, <4>3 DEF Collides
      <4> QED BY <3>1, <3>3, <4>1, <4>4 DEF Pick
    <3> QED BY <3>2, <3>3
  <2> QED BY <1>8, <2>3, <2>6 DEF Live
<1> QED BY <1>9, <1>10

\* Every transaction of a request keeps the invariant, but for the rows of removed
\* sources, about which it says which occurrences it wrote.
LEMMA CommitKeeps ==
  ASSUME IInv, NEW r \in Requests, Fresh(r), NEW source \in Sources, NEW t, Since(request[r], source, t),
         Commit(r, source, t), removed' \subseteq Sources
  PROVE  /\ TypeOK' /\ (request \in [Requests -> View \cup {None}])'
         /\ KnownIn(Now)' /\ ViewsSound' /\ Counted' /\ LiveWhileUsed'
<1> DEFINE v == request[r]
<1>1. request[r] # None /\ v.key \notin v.records /\ ~Taken(v)
  BY DEF Fresh
<1>2. ViewSound(v) /\ v.key \in Keys
  BY <1>1 DEF IInv, ViewsSound, ViewSound, View
<1>3. v.key \notin records
  BY <1>1 DEF Taken
<1> HIDE DEF v
<1>4. /\ asset' \in [Hashes -> Asset] /\ occ' \in [Slots -> Occurrence]
      /\ \A h \in Hashes : asset[h].state # "None" => asset'[h].state # "None"
      /\ \A s \in Slots : occ[s].state # "None" => occ'[s].state # "None"
      /\ KnownIn(Now)'
  BY <1>1, CommitWrites
<1>5. /\ feed' = t.feed /\ records' = records \cup {v.key}
      /\ applied' = [applied EXCEPT ![v.key] = @ + 1]
      /\ overtaken' = IF Outdated(v) THEN overtaken \cup Touched(v, t) \cup {source} ELSE overtaken
      /\ request' = [request EXCEPT ![r] = None] /\ disputed' = disputed /\ merged' = merged
  BY DEF Commit, End, v
<1>6. TypeOK /\ request \in [Requests -> View \cup {None}]
  BY DEF IInv
<1>7. request' \in [Requests -> View \cup {None}] /\ \A q \in Requests : request'[q] \in {None, request[q]}
  BY <1>5, <1>6
<1>8. overtaken \subseteq overtaken' /\ overtaken' \subseteq Hashes \cup Sources
  BY <1>5, <1>6 DEF TypeOK, Touched
<1>9. records' \subseteq Keys /\ applied' \in [Keys -> Nat] /\ disputed' \subseteq Hashes /\ merged' \in 0..MaxMerges
  BY <1>2, <1>5, <1>6 DEF TypeOK
<1>10. feed' \subseteq Slots \cup Hashes
  BY <1>5 DEF Since, Trans
<1>11. TypeOK'
  <2>1. \A q \in Requests : request'[q] = None \/ request'[q] \in View
    BY <1>7
  <2> QED BY <1>4, <1>8, <1>9, <1>10, <2>1 DEF TypeOK
<1>12. ViewsSound'
  <2>1. records \subseteq records' /\ disputed \subseteq disputed' /\ ViewsSound
    BY <1>5 DEF IInv
  <2> QED BY <1>4, <1>7, <1>8, <2>1, ViewsStay
<1>13. Counted'
  <2> SUFFICES ASSUME NEW k \in Keys PROVE applied'[k] = IF k \in records' THEN 1 ELSE 0
    BY DEF Counted
  <2>1. applied[k] = IF k \in records THEN 1 ELSE 0
    BY DEF IInv, Counted
  <2>2. applied \in [Keys -> Nat]
    BY <1>6 DEF TypeOK
  <2>3. CASE k = v.key
    BY <1>3, <1>5, <2>1, <2>2, <2>3
  <2>4. CASE k # v.key
    BY <1>5, <2>1, <2>2, <2>4
  <2> QED BY <2>3, <2>4
<1>14. LiveWhileUsed'
  BY <1>1, CommitKeepsLive
<1> QED BY <1>4, <1>7, <1>11, <1>12, <1>13, <1>14

\* What it leaves of the occurrences: those of other sources, and of its own what
\* the transaction made of them if the view was up to date.
LEMMA CommitOccurrences ==
  ASSUME IInv, NEW r \in Requests, Fresh(r), NEW source \in Sources, NEW t, Since(request[r], source, t),
         Commit(r, source, t)
  PROVE  /\ overtaken \subseteq overtaken'
         /\ \A s \in Slots : s[1] # source => occ'[s] = occ[s]
         /\ source \notin overtaken' => request[r].removed = removed
         /\ source \notin overtaken' => \A s \in Slots : occ'[s].state = t.occ[s].state
<1> DEFINE v == request[r]
<1>1. request[r] # None
  BY DEF Fresh
<1>2. /\ occ' \in [Slots -> Occurrence]
      /\ \A s \in Slots : /\ occ'[s].state = Pick(v.occ[s].state, t.occ[s].state, occ[s].state)
                          /\ occ'[s].hash = Pick(v.occ[s].hash, t.occ[s].hash, occ[s].hash)
  BY <1>1, CommitWrites
<1>3. overtaken' = IF Outdated(v) THEN overtaken \cup Touched(v, t) \cup {source} ELSE overtaken
  BY DEF Commit
<1>4. occ \in [Slots -> Occurrence]
  BY DEF IInv, TypeOK
<1>5. \A s \in Slots : s[1] # source => t.occ[s] = v.occ[s]
  BY DEF Since
<1> HIDE DEF v
<1>6. ASSUME NEW s \in Slots, s[1] # source
      PROVE  occ'[s] = occ[s]
  <2>1. occ'[s].state = occ[s].state /\ occ'[s].hash = occ[s].hash
    BY <1>2, <1>5, <1>6 DEF Pick
  <2>2. /\ occ'[s] = [state |-> occ'[s].state, hash |-> occ'[s].hash]
        /\ occ[s] = [state |-> occ[s].state, hash |-> occ[s].hash]
    BY <1>2, <1>4, OccurrenceKinds
  <2> QED BY <2>1, <2>2
<1>7. ASSUME source \notin overtaken'
      PROVE  v.removed = removed /\ \A s \in Slots : occ'[s].state = t.occ[s].state
  <2>1. v.removed = removed /\ v.occ = occ
    BY <1>3, <1>7 DEF Outdated
  <2> QED BY <1>2, <2>1 DEF Pick
<1> QED BY <1>3, <1>6, <1>7 DEF v

-----------------------------------------------------------------------------
(* The steps.                                                              *)

LEMMA BeginKeeps ==
  ASSUME IInv, NEW r \in Requests, NEW k \in Keys, Begin(r, k)
  PROVE  IInv'
<1> DEFINE w == Snapshot(k)
<1>1. /\ request[r] = None /\ request' = [request EXCEPT ![r] = w] /\ feed' = {}
      /\ asset' = asset /\ occ' = occ /\ removed' = removed /\ records' = records
      /\ applied' = applied /\ overtaken' = overtaken /\ disputed' = disputed /\ merged' = merged
  BY DEF Begin, database, history
<1>2. TypeOK /\ request \in [Requests -> View \cup {None}] /\ KnownIn(Now) /\ ViewsSound /\ Counted
      /\ RemovedIsEmpty /\ LiveWhileUsed
  BY DEF IInv
<1>3. w.asset = asset /\ w.occ = occ /\ w.removed = removed /\ w.records = records /\ w \in View
  BY <1>2 DEF Snapshot, TypeOK, View
<1> HIDE DEF w
<1>4. ViewSound(w)
  <2>1. KnownIn(w)
    BY <1>2, <1>3 DEF KnownIn, Now
  <2>2. \A h \in Hashes \ (overtaken \cup disputed) : LiveIn(w, h)
    BY <1>2, <1>3 DEF LiveWhileUsed, Live, LiveIn, Used, Uses
  <2> QED BY <1>3, <2>1, <2>2 DEF ViewSound
<1>5. request' \in [Requests -> View \cup {None}]
  BY <1>1, <1>2, <1>3
<1>6. TypeOK'
  <2>1. \A q \in Requests : request'[q] = None \/ request'[q] \in View
    BY <1>5
  <2>2. feed' \subseteq Slots \cup Hashes
    BY <1>1
  <2> QED BY <1>1, <1>2, <2>1, <2>2 DEF TypeOK
<1>7. ViewsSound'
  <2> SUFFICES ASSUME NEW q \in Requests, request'[q] # None
               PROVE  ViewSound(request[q])'
    BY DEF ViewsSound
  <2>1. \A x : ViewSound(x) => ViewSound(x)'
    BY <1>1 DEF ViewSound
  <2>2. ViewSound(request'[q])
    BY <1>1, <1>2, <1>4 DEF ViewsSound
  <2> QED BY <2>1, <2>2
<1>8. KnownIn(Now)'
  BY <1>1, <1>2 DEF KnownIn, Now
<1>9. Counted' /\ RemovedIsEmpty' /\ LiveWhileUsed'
  BY <1>1, <1>2 DEF Counted, RemovedIsEmpty, LiveWhileUsed, Live, Used
<1> QED BY <1>5, <1>6, <1>7, <1>8, <1>9 DEF IInv

\* A request that ends without effect.
Nothing(r) == End(r) /\ feed' = {} /\ UNCHANGED <<database, history, merged>>

LEMMA NothingKeeps ==
  ASSUME IInv, NEW r \in Requests, Nothing(r)
  PROVE  IInv'
<1>1. /\ request' = [request EXCEPT ![r] = None] /\ feed' = {}
      /\ asset' = asset /\ occ' = occ /\ removed' = removed /\ records' = records
      /\ applied' = applied /\ overtaken' = overtaken /\ disputed' = disputed /\ merged' = merged
  BY DEF Nothing, End, database, history
<1>2. TypeOK /\ request \in [Requests -> View \cup {None}] /\ KnownIn(Now) /\ ViewsSound /\ Counted
      /\ RemovedIsEmpty /\ LiveWhileUsed
  BY DEF IInv
<1>3. request' \in [Requests -> View \cup {None}] /\ \A q \in Requests : request'[q] \in {None, request[q]}
  BY <1>1, <1>2
<1>4. TypeOK'
  <2>1. \A q \in Requests : request'[q] = None \/ request'[q] \in View
    BY <1>3
  <2>2. feed' \subseteq Slots \cup Hashes
    BY <1>1
  <2> QED BY <1>1, <1>2, <2>1, <2>2 DEF TypeOK
<1>5. ViewsSound'
  BY <1>1, <1>2, <1>3, ViewsStay
<1>6. KnownIn(Now)'
  BY <1>1, <1>2 DEF KnownIn, Now
<1>7. Counted' /\ RemovedIsEmpty' /\ LiveWhileUsed'
  BY <1>1, <1>2 DEF Counted, RemovedIsEmpty, LiveWhileUsed, Live, Used
<1> QED BY <1>3, <1>4, <1>5, <1>6, <1>7 DEF IInv

\* What a request knows of its view.
LEMMA FreshView ==
  ASSUME IInv, NEW r \in Requests, Fresh(r)
  PROVE  /\ ViewSound(request[r]) /\ Started(request[r]) /\ KnownIn(request[r])
<1>1. ViewSound(request[r])
  BY DEF IInv, ViewsSound, Fresh
<1> QED BY <1>1 DEF ViewSound, View, Started

LEMMA CreateKeeps ==
  ASSUME IInv, NEW r \in Requests, NEW source \in Sources, Fresh(r),
         Commit(r, source, Start(request[r])), removed' = removed \ {source}
  PROVE  IInv'
<1> DEFINE t == Start(request[r])
<1>1. Since(request[r], source, t)
  BY FreshView, SinceStart
<1>2. Commit(r, source, t) /\ removed' \subseteq Sources
  BY DEF IInv, TypeOK
<1> HIDE DEF t
<1>3. /\ TypeOK' /\ (request \in [Requests -> View \cup {None}])'
      /\ KnownIn(Now)' /\ ViewsSound' /\ Counted' /\ LiveWhileUsed'
  BY <1>1, <1>2, CommitKeeps
<1>4. /\ overtaken \subseteq overtaken'
      /\ \A s \in Slots : s[1] # source => occ'[s] = occ[s]
  BY <1>1, <1>2, CommitOccurrences
<1>5. RemovedIsEmpty'
  BY <1>4 DEF RemovedIsEmpty, IInv
<1> QED BY <1>3, <1>5 DEF IInv

\* The entries of a manifest, and what Comparable says of each.
LEMMA EntriesSensible ==
  ASSUME NEW known, NEW source, NEW v, v.occ = known, NEW entries \in Entries, Comparable(known, source, entries)
  PROVE  \E m \in Nat : DOMAIN entries = 1..m /\ \A n \in 1..m : Sensible(v, source, entries[n])
<1>1. PICK m \in Nat : entries \in [1..m -> Hashed \cup Pending \cup Deletes]
  BY CatalogAssumption DEF Entries, BoundedSeq, SeqOf
<1>2. DOMAIN entries = 1..m
  BY <1>1
<1>3. ASSUME NEW n \in 1..m
      PROVE  Sensible(v, source, entries[n])
  <2>1. entries[n] \in Hashed \cup Pending \cup Deletes
    BY <1>1
  <2>2. <<source, entries[n].item>> \in Slots /\ ~entries[n].revised =>
          v.occ[<<source, entries[n].item>>].state # "None"
            /\ entries[n].hash \in {NoHash, v.occ[<<source, entries[n].item>>].hash}
    BY <1>2 DEF Comparable
  <2> QED BY <2>1, <2>2 DEF Sensible
<1> QED BY <1>2, <1>3

LEMMA SubmitSince ==
  ASSUME IInv, NEW r \in Requests, Fresh(r), NEW source \in Sources, NEW reliable, NEW entries \in Entries,
         Comparable(request[r].occ, source, entries)
  PROVE  Since(request[r], source, ApplyAll(request[r], source, reliable, entries))
<1>1. PICK m \in Nat : DOMAIN entries = 1..m /\ \A n \in 1..m : Sensible(request[r], source, entries[n])
  BY EntriesSensible
<1> QED BY <1>1, FreshView, ManifestSince

LEMMA SubmitKeeps ==
  ASSUME IInv, NEW r \in Requests, NEW source \in Sources, NEW reliable, NEW entries \in Entries,
         Open(r, source), Comparable(request[r].occ, source, entries),
         Commit(r, source, ApplyAll(request[r], source, reliable, entries)), removed' = removed
  PROVE  IInv'
<1> DEFINE t == ApplyAll(request[r], source, reliable, entries)
<1>0. Fresh(r) /\ source \notin request[r].removed
  BY DEF Open
<1>1. Since(request[r], source, t)
  BY <1>0, SubmitSince
<1>2. Commit(r, source, t) /\ removed' \subseteq Sources
  BY DEF IInv, TypeOK
<1> HIDE DEF t
<1>3. /\ TypeOK' /\ (request \in [Requests -> View \cup {None}])'
      /\ KnownIn(Now)' /\ ViewsSound' /\ Counted' /\ LiveWhileUsed'
  BY <1>0, <1>1, <1>2, CommitKeeps
<1>4. /\ overtaken \subseteq overtaken'
      /\ \A s \in Slots : s[1] # source => occ'[s] = occ[s]
      /\ source \notin overtaken' => request[r].removed = removed
  BY <1>0, <1>1, <1>2, CommitOccurrences
<1>5. RemovedIsEmpty'
  BY <1>0, <1>4 DEF RemovedIsEmpty, IInv
<1> QED BY <1>3, <1>5 DEF IInv

\* The active occurrences of a source, as a view shows them.
ActiveOf(v, source) == {s \in Slots : s[1] = source /\ v.occ[s].state = "Active"}

LEMMA RemoveKeeps ==
  ASSUME IInv, NEW r \in Requests, NEW source \in Sources, Open(r, source),
         Commit(r, source, Removal(request[r], ActiveOf(request[r], source))), removed' = removed \cup {source}
  PROVE  IInv'
<1> DEFINE v == request[r]
           active == ActiveOf(v, source)
           t == Removal(v, active)
<1>0. Fresh(r)
  BY DEF Open
<1>1. /\ Since(v, source, t)
      /\ \A q \in Slots : t.occ[q] = v.occ[q] \/ t.occ[q].state = "Deleted"
      /\ \A q \in active : t.occ[q].state = "Deleted"
  <2>1. active \in SUBSET Slots /\ \A q \in active : q[1] = source
    BY DEF ActiveOf
  <2>2. Started(v) /\ KnownIn(v)
    BY <1>0, FreshView
  <2> HIDE DEF active, v
  <2> QED BY <2>1, <2>2, RemovalSince
<1>2. Commit(r, source, t) /\ removed' \subseteq Sources
  BY DEF IInv, TypeOK
<1>6. \A q \in Slots : q[1] = source => t.occ[q].state # "Active"
  <2> HIDE DEF t
  <2> QED BY <1>1 DEF ActiveOf
<1> HIDE DEF t
<1>3. /\ TypeOK' /\ (request \in [Requests -> View \cup {None}])'
      /\ KnownIn(Now)' /\ ViewsSound' /\ Counted' /\ LiveWhileUsed'
  BY <1>0, <1>1, <1>2, CommitKeeps
<1>4. /\ overtaken \subseteq overtaken'
      /\ \A s \in Slots : s[1] # source => occ'[s] = occ[s]
      /\ source \notin overtaken' => \A s \in Slots : occ'[s].state = t.occ[s].state
  BY <1>0, <1>1, <1>2, CommitOccurrences
<1>5. RemovedIsEmpty'
  BY <1>4, <1>6 DEF RemovedIsEmpty, IInv
<1> QED BY <1>3, <1>5 DEF IInv

-----------------------------------------------------------------------------
(* The merge.                                                              *)

\* The rows considered are about different occurrences, and those accepted agree
\* with the catalogue or with the first row of their content.
LEMMA RowsAre ==
  ASSUME NEW source, NEW rows \in Rows
  PROVE  /\ \A n \in Valid(source, rows) : /\ n \in Nat
                                          /\ rows[n].item \in Items /\ rows[n].hash \in Hashes
                                          /\ rows[n].size \in Sizes /\ <<source, rows[n].item>> \in Slots
         /\ \A n, m \in Valid(source, rows) : rows[n].item = rows[m].item => n = m
         /\ Accepted(source, rows) \subseteq Valid(source, rows)
         /\ \A n \in Valid(source, rows) :
              /\ Canonical(source, rows, rows[n].hash) \in Valid(source, rows)
              /\ rows[Canonical(source, rows, rows[n].hash)].hash = rows[n].hash
<1>1. PICK k \in Nat : rows \in [1..k -> Hashed]
  BY CatalogAssumption DEF Rows, BoundedSeq, SeqOf
<1> DEFINE V == Valid(source, rows)
<1>2. \A n \in V : n \in 1..k /\ FirstOf(rows, n) /\ <<source, rows[n].item>> \in Slots
  BY <1>1 DEF Valid
<1>3. \A n \in V : rows[n].item \in Items /\ rows[n].hash \in Hashes /\ rows[n].size \in Sizes
  BY <1>1, <1>2 DEF Hashed
<1>4. ASSUME NEW n \in V, NEW m \in V, rows[n].item = rows[m].item
      PROVE  n = m
  <2>1. n \in 1..k /\ m \in 1..k
    BY <1>2
  <2>2. n \notin 1..(m - 1) /\ m \notin 1..(n - 1)
    BY <1>2, <1>4 DEF FirstOf
  <2> QED BY <2>1, <2>2
<1>5. V \in SUBSET Nat /\ IsFiniteSet(V)
  <2>1. V \subseteq 1..k
    BY <1>2
  <2>2. IsFiniteSet(1..k)
    BY FS_Interval
  <2>3. 1..k \subseteq Nat
    OBVIOUS
  <2> HIDE DEF V
  <2> QED BY <2>1, <2>2, <2>3, FS_Subset
<1>6. ASSUME NEW n \in V
      PROVE  LET c == Canonical(source, rows, rows[n].hash)
             IN  c \in V /\ rows[c].hash = rows[n].hash
  <2> DEFINE about == {q \in V : rows[q].hash = rows[n].hash}
  <2>1. n \in about /\ about \in SUBSET V
    OBVIOUS
  <2>2. \E c \in about : \A q \in about : c <= q
    <3> HIDE DEF about, V
    <3> QED BY <1>5, <2>1, LeastExists
  <2>3. Canonical(source, rows, rows[n].hash) \in about
    BY <2>2 DEF Canonical
  <2> QED BY <2>3
<1>7. Accepted(source, rows) \subseteq V
  BY DEF Accepted
<1>8. \A n \in V : n \in Nat
  BY <1>5
<1> QED BY <1>2, <1>3, <1>4, <1>6, <1>7, <1>8

\* What the merge leaves.
LEMMA MergeIs ==
  ASSUME TypeOK, NEW source, NEW rows \in Rows
  PROVE  LET A == Accepted(source, rows)
             a == MergedAssets(source, rows)
             o == MergedOccurrences(source, rows)
         IN  /\ a \in [Hashes -> Asset] /\ o \in [Slots -> Occurrence]
             /\ \A h \in Hashes : asset[h].state # "None" => a[h].state # "None"
             /\ \A h \in Hashes : a[h].state = "Active" <=>
                  asset[h].state = "Active" \/ \E n \in A : rows[n].hash = h /\ n = Canonical(source, rows, h)
             /\ \A n \in A : o[<<source, rows[n].item>>] = [state |-> "Active", hash |-> rows[n].hash]
             /\ \A s \in Slots : (\A n \in A : s # <<source, rows[n].item>>) => o[s] = occ[s]
             /\ \A n \in A : a[rows[n].hash].state # "None"
<1> DEFINE A == Accepted(source, rows)
           V == Valid(source, rows)
           a == MergedAssets(source, rows)
           o == MergedOccurrences(source, rows)
           C(h) == Canonical(source, rows, h)
           R == Restored(source, rows)
<1>1. /\ \A n \in V : /\ rows[n].item \in Items /\ rows[n].hash \in Hashes
                      /\ rows[n].size \in Sizes /\ <<source, rows[n].item>> \in Slots
      /\ \A n, m \in V : rows[n].item = rows[m].item => n = m
      /\ A \subseteq V
      /\ \A n \in V : C(rows[n].hash) \in V /\ rows[C(rows[n].hash)].hash = rows[n].hash
  BY RowsAre
<1>2. asset \in [Hashes -> Asset] /\ occ \in [Slots -> Occurrence]
  BY DEF TypeOK
<1>3. R = {h \in Hashes : \E n \in A : rows[n].hash = h /\ n = C(h)}
  BY DEF Restored
<1>4. /\ \A h \in Hashes : a[h] = IF h \notin R THEN asset[h] ELSE [state |-> "Active", size |-> rows[C(h)].size]
      /\ a = [h \in Hashes |-> a[h]]
  BY DEF MergedAssets
<1>5. /\ \A s \in Slots : o[s] = IF \E n \in A : s = <<source, rows[n].item>>
                                 THEN [state |-> "Active", hash |-> rows[CHOOSE n \in A : s = <<source, rows[n].item>>].hash]
                                 ELSE occ[s]
      /\ o = [s \in Slots |-> o[s]]
  BY DEF MergedOccurrences
<1>6. \A n \in V : n \in A <=> rows[n].size = IF asset[rows[n].hash].state # "None" THEN asset[rows[n].hash].size
                                             ELSE rows[C(rows[n].hash)].size
  BY DEF Accepted
<1> HIDE DEF A, V, a, o, C, R
<1>7. ASSUME NEW h \in Hashes
      PROVE  /\ a[h] \in Asset
             /\ asset[h].state # "None" => a[h].state # "None"
             /\ a[h].state = "Active" <=> asset[h].state = "Active" \/ h \in R
  <2>1. CASE h \notin R
    BY <1>2, <1>4, <2>1
  <2>2. CASE h \in R
    <3>1. PICK n \in A : rows[n].hash = h /\ n = C(h)
      BY <1>3, <2>2
    <3>2. rows[C(h)].size \in Sizes
      BY <1>1, <3>1
    <3>3. a[h] = [state |-> "Active", size |-> rows[C(h)].size]
      BY <1>4, <2>2
    <3> QED BY <2>2, <3>2, <3>3, AssetIs
  <2> QED BY <2>1, <2>2
<1>8. ASSUME NEW n \in A
      PROVE  o[<<source, rows[n].item>>] = [state |-> "Active", hash |-> rows[n].hash]
  <2> DEFINE s == <<source, rows[n].item>>
             p == CHOOSE q \in A : s = <<source, rows[q].item>>
  <2>1. s \in Slots /\ n \in V
    BY <1>1
  <2>2. p \in A /\ s = <<source, rows[p].item>>
    OBVIOUS
  <2>3. o[s] = [state |-> "Active", hash |-> rows[p].hash]
    BY <1>5, <2>1
  <2>4. p = n
    <3>1. rows[p].item = rows[n].item
      <4> HIDE DEF p
      <4> QED BY <2>2
    <3> HIDE DEF p
    <3> QED BY <1>1, <2>1, <2>2, <3>1
  <2> HIDE DEF p
  <2> QED BY <2>3, <2>4
<1>9. \A s \in Slots : (\A n \in A : s # <<source, rows[n].item>>) => o[s] = occ[s]
  BY <1>5
<1>10. \A s \in Slots : o[s] \in Occurrence
  <2> TAKE s \in Slots
  <2>1. CASE \E n \in A : s = <<source, rows[n].item>>
    <3>1. PICK n \in A : s = <<source, rows[n].item>>
      BY <2>1
    <3>2. o[s] = [state |-> "Active", hash |-> rows[n].hash] /\ rows[n].hash \in Hashes
      BY <1>1, <1>8, <3>1
    <3> QED BY <3>2, OccurrenceIs
  <2>2. CASE \A n \in A : s # <<source, rows[n].item>>
    BY <1>2, <1>9, <2>2
  <2> QED BY <2>1, <2>2
<1>11. ASSUME NEW n \in A
       PROVE  a[rows[n].hash].state # "None"
  <2> DEFINE h == rows[n].hash
  <2>1. h \in Hashes /\ n \in V
    BY <1>1
  <2>2. CASE asset[h].state # "None"
    BY <1>7, <2>1, <2>2
  <2>3. CASE asset[h].state = "None"
    <3>1. C(h) \in V /\ rows[C(h)].hash = h
      BY <1>1, <2>1
    <3>2. C(h) \in A
      BY <1>6, <2>3, <3>1
    <3>3. h \in R
      BY <1>3, <2>1, <3>1, <3>2
    <3>4. a[h].state = "Active"
      BY <1>7, <2>1, <3>3
    <3> QED BY <3>4
  <2> QED BY <2>2, <2>3
<1>12. a \in [Hashes -> Asset] /\ o \in [Slots -> Occurrence]
  BY <1>4, <1>5, <1>7, <1>10
<1>13. \A h \in Hashes : a[h].state = "Active" <=>
         asset[h].state = "Active" \/ \E n \in A : rows[n].hash = h /\ n = C(h)
  BY <1>3, <1>7
<1> QED BY <1>7, <1>8, <1>9, <1>11, <1>12, <1>13 DEF A, a, o, C

LEMMA MergeKeeps ==
  ASSUME IInv, NEW source \in Sources, NEW rows \in Rows, BulkMerge(source, rows)
  PROVE  IInv'
<1> DEFINE A == Accepted(source, rows)
           V == Valid(source, rows)
           C(h) == Canonical(source, rows, h)
<1>1. TypeOK /\ request \in [Requests -> View \cup {None}] /\ KnownIn(Now) /\ ViewsSound /\ Counted
      /\ RemovedIsEmpty /\ LiveWhileUsed
  BY DEF IInv
<1>2. /\ merged < MaxMerges /\ source \notin removed /\ ~Relinks(source, rows)
      /\ asset' = MergedAssets(source, rows) /\ occ' = MergedOccurrences(source, rows)
      /\ feed' = MergeTells(source, rows)
      /\ disputed' = disputed \cup {h \in Hashes : \E n \in V : rows[n].hash = h /\ n \notin A}
      /\ merged' = merged + 1
      /\ removed' = removed /\ records' = records /\ request' = request
      /\ applied' = applied /\ overtaken' = overtaken
  BY DEF BulkMerge
<1>3. /\ asset' \in [Hashes -> Asset] /\ occ' \in [Slots -> Occurrence]
      /\ \A h \in Hashes : asset[h].state # "None" => asset'[h].state # "None"
      /\ \A h \in Hashes : asset'[h].state = "Active" <=>
                asset[h].state = "Active" \/ \E n \in A : rows[n].hash = h /\ n = C(h)
      /\ \A n \in A : occ'[<<source, rows[n].item>>] = [state |-> "Active", hash |-> rows[n].hash]
      /\ \A s \in Slots : (\A n \in A : s # <<source, rows[n].item>>) => occ'[s] = occ[s]
      /\ \A n \in A : asset'[rows[n].hash].state # "None"
  BY <1>1, <1>2, MergeIs
<1>4. /\ \A n \in V : /\ rows[n].item \in Items /\ rows[n].hash \in Hashes
                      /\ <<source, rows[n].item>> \in Slots
      /\ A \subseteq V
      /\ \A n \in V : C(rows[n].hash) \in V /\ rows[C(rows[n].hash)].hash = rows[n].hash
  BY RowsAre
<1>5. \A n \in V : occ[<<source, rows[n].item>>].hash \in {NoHash, rows[n].hash}
  BY <1>2 DEF Relinks
<1>6. feed' \subseteq Slots \cup Hashes
  BY <1>2 DEF MergeTells
<1> HIDE DEF A, V, C
<1>7. TypeOK'
  <2>1. merged' \in 0..MaxMerges /\ disputed' \subseteq Hashes
    BY <1>1, <1>2, CatalogAssumption DEF TypeOK
  <2> QED BY <1>1, <1>2, <1>3, <1>6, <2>1 DEF TypeOK
<1>8. \A s \in Slots : occ[s].state # "None" => occ'[s].state # "None"
  <2> SUFFICES ASSUME NEW s \in Slots, occ[s].state # "None" PROVE occ'[s].state # "None"
    OBVIOUS
  <2>1. CASE \E n \in A : s = <<source, rows[n].item>>
    <3>1. PICK n \in A : s = <<source, rows[n].item>>
      BY <2>1
    <3>2. occ'[s] = [state |-> "Active", hash |-> rows[n].hash]
      BY <1>3, <3>1
    <3> QED BY <3>2
  <2>2. CASE \A n \in A : s # <<source, rows[n].item>>
    BY <1>3, <2>2
  <2> QED BY <2>1, <2>2
<1>9. ViewsSound'
  <2>1. /\ \A q \in Requests : request'[q] \in {None, request[q]}
        /\ records \subseteq records' /\ overtaken \subseteq overtaken' /\ disputed \subseteq disputed'
    BY <1>2
  <2> QED BY <1>1, <1>3, <1>8, <2>1, ViewsStay
<1>10. KnownIn(Now)'
  <2> SUFFICES ASSUME NEW s \in Slots, occ'[s].hash # NoHash
               PROVE  asset'[occ'[s].hash].state # "None"
    BY DEF KnownIn, Now
  <2>1. CASE \E n \in A : s = <<source, rows[n].item>>
    <3>1. PICK n \in A : s = <<source, rows[n].item>>
      BY <2>1
    <3>2. occ'[s].hash = rows[n].hash
      <4>1. occ'[s] = [state |-> "Active", hash |-> rows[n].hash]
        BY <1>3, <3>1
      <4> QED BY <4>1
    <3> QED BY <1>3, <3>2
  <2>2. CASE \A n \in A : s # <<source, rows[n].item>>
    <3>1. occ'[s] = occ[s]
      BY <1>3, <2>2
    <3>2. occ[s].hash \in Hashes /\ asset[occ[s].hash].state # "None"
      <4>1. occ[s] \in Occurrence
        BY <1>1 DEF TypeOK
      <4>2. occ[s].hash \in Hashes
        BY <3>1, <4>1, OccurrenceKinds
      <4> QED BY <1>1, <3>1, <4>2 DEF KnownIn, Now
    <3> QED BY <1>3, <3>1, <3>2
  <2> QED BY <2>1, <2>2
<1>11. Counted'
  BY <1>1, <1>2 DEF Counted
<1>12. RemovedIsEmpty'
  <2> SUFFICES ASSUME NEW s \in Slots, s[1] \in removed, s[1] \notin overtaken
               PROVE  occ'[s].state # "Active"
    BY <1>2 DEF RemovedIsEmpty
  <2>1. \A n \in A : s # <<source, rows[n].item>>
    BY <1>2
  <2>2. occ'[s] = occ[s]
    BY <1>3, <2>1
  <2> QED BY <1>1, <2>2 DEF RemovedIsEmpty
<1>13. LiveWhileUsed'
  <2> SUFFICES ASSUME NEW h \in Hashes, h \notin overtaken, h \notin disputed'
               PROVE  Live(h)'
    BY <1>2 DEF LiveWhileUsed
  <2>1. Live(h) /\ \A n \in V : rows[n].hash = h => n \in A
    BY <1>1, <1>2 DEF LiveWhileUsed
  <2>2. h # NoHash
    BY CatalogAssumption
  <2>3. asset'[h].state = "Active" <=> asset[h].state = "Active" \/ \E n \in A : rows[n].hash = h
    <3>1. ASSUME NEW n \in A, rows[n].hash = h
          PROVE  C(h) \in A /\ rows[C(h)].hash = h
      <4>1. C(h) \in V /\ rows[C(h)].hash = h
        BY <1>4, <3>1
      <4> QED BY <2>1, <4>1
    <3> QED BY <1>3, <3>1
  <2>4. Used(h)' <=> Used(h) \/ \E n \in A : rows[n].hash = h
    <3>1. ASSUME NEW n \in A, rows[n].hash = h
          PROVE  Used(h)'
      <4>1. <<source, rows[n].item>> \in Slots
        BY <1>4
      <4>2. occ'[<<source, rows[n].item>>] = [state |-> "Active", hash |-> h]
        BY <1>3, <3>1
      <4> QED BY <4>1, <4>2 DEF Used
    <3>2. ASSUME NEW s \in Slots, \A n \in A : rows[n].hash # h
          PROVE  occ'[s] = [state |-> "Active", hash |-> h] <=> occ[s] = [state |-> "Active", hash |-> h]
      <4>1. CASE \E n \in A : s = <<source, rows[n].item>>
        <5>1. PICK n \in A : s = <<source, rows[n].item>>
          BY <4>1
        <5>2. occ'[s] = [state |-> "Active", hash |-> rows[n].hash] /\ rows[n].hash # h
          BY <1>3, <3>2, <5>1
        <5>3. occ[s].hash \in {NoHash, rows[n].hash}
          BY <1>4, <1>5, <5>1
        <5>4. occ[s].hash # h
          BY <2>2, <5>2, <5>3
        <5>5. occ'[s].hash # h
          BY <5>2
        <5> QED BY <5>4, <5>5
      <4>2. CASE \A n \in A : s # <<source, rows[n].item>>
        BY <1>3, <4>2
      <4> QED BY <4>1, <4>2
    <3>3. CASE \E n \in A : rows[n].hash = h
      BY <3>1, <3>3
    <3>4. CASE \A n \in A : rows[n].hash # h
      BY <3>2, <3>4 DEF Used
    <3> QED BY <3>3, <3>4
  <2> QED BY <2>1, <2>3, <2>4 DEF Live
<1> QED BY <1>1, <1>2, <1>7, <1>9, <1>10, <1>11, <1>12, <1>13 DEF IInv

-----------------------------------------------------------------------------
(* The theorems.                                                           *)

LEMMA Initially == Init => IInv
<1> SUFFICES ASSUME Init PROVE IInv
  OBVIOUS
<1>1. request = [r \in Requests |-> None] /\ applied = [k \in Keys |-> 0] /\ records = {}
      /\ overtaken = {} /\ disputed = {} /\ merged = 0 /\ feed = {}
      /\ asset \in [Hashes -> Asset] /\ occ \in [Slots -> Occurrence] /\ removed \subseteq Sources
  BY DEF Init
<1>2. TypeOK
  <2>1. \A r \in Requests : request[r] = None \/ request[r] \in View
    BY <1>1
  <2>2. applied \in [Keys -> Nat] /\ merged \in 0..MaxMerges
    BY <1>1, CatalogAssumption
  <2> QED BY <1>1, <2>1, <2>2 DEF TypeOK
<1>3. request \in [Requests -> View \cup {None}] /\ ViewsSound
  BY <1>1 DEF ViewsSound
<1>4. KnownIn(Now)
  <2> SUFFICES ASSUME NEW s \in Slots, occ[s].hash # NoHash
               PROVE  asset[occ[s].hash].state # "None"
    BY DEF KnownIn, Now
  <2>1. occ[s].hash \in Hashes
    BY <1>1, OccurrenceKinds
  <2> QED BY <2>1 DEF Init
<1>5. Counted
  BY <1>1 DEF Counted
<1>6. RemovedIsEmpty /\ LiveWhileUsed
  BY DEF Init, RemovedIsEmpty, LiveWhileUsed
<1> QED BY <1>2, <1>3, <1>4, <1>5, <1>6 DEF IInv

\* How a transaction ends: without effect, or by writing what it made of its view.
LEMMA Steps ==
  ASSUME IInv, Next
  PROVE  \/ \E r \in Requests, k \in Keys : Begin(r, k)
         \/ \E r \in Requests : Nothing(r)
         \/ \E r \in Requests, source \in Sources :
              Fresh(r) /\ Commit(r, source, Start(request[r])) /\ removed' = removed \ {source}
         \/ \E r \in Requests, source \in Sources, reliable \in BOOLEAN, entries \in Entries :
              /\ Open(r, source) /\ Comparable(request[r].occ, source, entries)
              /\ Commit(r, source, ApplyAll(request[r], source, reliable, entries)) /\ removed' = removed
         \/ \E r \in Requests, source \in Sources :
              /\ Open(r, source) /\ removed' = removed \cup {source}
              /\ Commit(r, source, Removal(request[r], ActiveOf(request[r], source)))
         \/ \E source \in Sources, rows \in Rows : BulkMerge(source, rows)
<1>1. ASSUME NEW r \in Requests, NEW k \in Keys, Begin(r, k) PROVE \E q \in Requests, l \in Keys : Begin(q, l)
  BY <1>1
<1>2. ASSUME NEW r \in Requests, Replay(r) PROVE Nothing(r)
  BY <1>2 DEF Replay, Nothing
<1>3. ASSUME NEW r \in Requests, NEW s \in Sources, Refuse(r, s) PROVE Nothing(r)
  BY <1>3 DEF Refuse, Nothing
<1>4. ASSUME NEW r, NEW t, Reject(r, t) PROVE Nothing(r)
  BY <1>4 DEF Reject, Nothing
<1>5. ASSUME NEW r \in Requests, NEW s \in Sources, RemoveSource(r, s)
      PROVE  Nothing(r) \/ (/\ Open(r, s) /\ removed' = removed \cup {s}
                            /\ Commit(r, s, Removal(request[r], ActiveOf(request[r], s))))
  BY <1>4, <1>5 DEF RemoveSource, Removal, ActiveOf
<1>6. ASSUME NEW r \in Requests, NEW s \in Sources, CreateSource(r, s)
      PROVE  Nothing(r) \/ (Fresh(r) /\ Commit(r, s, Start(request[r])) /\ removed' = removed \ {s})
  BY <1>4, <1>6 DEF CreateSource
<1>7. ASSUME NEW r \in Requests, NEW s \in Sources, NEW reliable \in BOOLEAN, NEW e \in Entries,
             SubmitManifest(r, s, reliable, e)
      PROVE  Nothing(r) \/ (/\ Open(r, s) /\ Comparable(request[r].occ, s, e)
                            /\ Commit(r, s, ApplyAll(request[r], s, reliable, e)) /\ removed' = removed)
  BY <1>4, <1>7 DEF SubmitManifest
<1> QED BY <1>1, <1>2, <1>3, <1>5, <1>6, <1>7 DEF Next

LEMMA Kept == IInv /\ [Next]_vars => IInv'
<1> SUFFICES ASSUME IInv, [Next]_vars PROVE IInv'
  OBVIOUS
<1>1. CASE UNCHANGED vars
  BY <1>1 DEF vars, IInv, TypeOK, KnownIn, Now, ViewsSound, ViewSound, LiveIn, Uses, Counted, RemovedIsEmpty,
       LiveWhileUsed, Live, Used
<1>2. CASE Next
  BY <1>2, Steps, BeginKeeps, NothingKeeps, CreateKeeps, SubmitKeeps, RemoveKeeps, MergeKeeps DEF Open
<1> QED BY <1>1, <1>2

LEMMA Always == Spec => []IInv
BY Initially, Kept, PTL DEF Spec

\* Rows stay well formed, and a removed source keeps no active occurrence, unless
\* a request overtook another about it (remove_source).
THEOREM SourcesStaySound == Spec => []SourcesSound
<1>1. IInv => SourcesSound
  BY DEF IInv, SourcesSound
<1> QED BY <1>1, Always, PTL

\* An asset is out of the trash exactly while an active occurrence has its content,
\* if no request overtook another about it and no merge had rows disagree on it
\* (_trash_if_unreferenced, _restore_asset, _merge_assets).
THEOREM UsedIsLive == Spec => []LiveWhileUsed
<1>1. IInv => LiveWhileUsed
  BY DEF IInv
<1> QED BY <1>1, Always, PTL

\* A request is carried out once, however often and whenever it is repeated
\* (_mutation, IdempotencyRepository.reserve).
THEOREM NothingAppliedTwice == Spec => []AppliedOnce
<1>1. IInv => AppliedOnce
  BY DEF IInv, Counted, AppliedOnce
<1> QED BY <1>1, Always, PTL

\* What a commit does is in the transaction's change rows.
LEMMA CommitTells ==
  ASSUME IInv, NEW r \in Requests, Fresh(r), NEW source \in Sources, NEW t, Since(request[r], source, t),
         Commit(r, source, t)
  PROVE  /\ \A h \in Hashes : asset'[h] # asset[h] => h \in feed'
         /\ \A s \in Slots : occ'[s] # occ[s] => s \in feed'
<1> DEFINE v == request[r]
<1>1. ViewSound(v) /\ v.asset \in [Hashes -> Asset] /\ v.occ \in [Slots -> Occurrence]
  BY FreshView DEF Started
<1>2. t.asset \in [Hashes -> Asset] /\ t.occ \in [Slots -> Occurrence]
  BY DEF Since, Trans
<1>3. asset \in [Hashes -> Asset] /\ occ \in [Slots -> Occurrence]
  BY DEF IInv, TypeOK
<1>4. asset' = Written(v.asset, t.asset, asset) /\ occ' = Written(v.occ, t.occ, occ) /\ feed' = t.feed
  BY DEF Commit
<1>5. /\ \A h \in Hashes : t.asset[h] # v.asset[h] => h \in t.feed
      /\ \A s \in Slots : t.occ[s] # v.occ[s] => s \in t.feed
  BY DEF Since
<1> HIDE DEF v
<1>6. ASSUME NEW h \in Hashes, t.asset[h] = v.asset[h] PROVE asset'[h] = asset[h]
  <2>1. asset'[h] = [state |-> Pick(v.asset[h].state, t.asset[h].state, asset[h].state),
                     size |-> Pick(v.asset[h].size, t.asset[h].size, asset[h].size)]
    BY <1>1, <1>2, <1>3, <1>4, WrittenAssets
  <2>2. asset[h] = [state |-> asset[h].state, size |-> asset[h].size]
    BY <1>3, AssetKinds
  <2>3. /\ Pick(v.asset[h].state, t.asset[h].state, asset[h].state) = asset[h].state
        /\ Pick(v.asset[h].size, t.asset[h].size, asset[h].size) = asset[h].size
    BY <1>6 DEF Pick
  <2> QED BY <2>1, <2>2, <2>3
<1>7. ASSUME NEW s \in Slots, t.occ[s] = v.occ[s] PROVE occ'[s] = occ[s]
  <2>1. occ'[s] = [state |-> Pick(v.occ[s].state, t.occ[s].state, occ[s].state),
                   hash |-> Pick(v.occ[s].hash, t.occ[s].hash, occ[s].hash)]
    BY <1>1, <1>2, <1>3, <1>4, WrittenOccurrences
  <2>2. occ[s] = [state |-> occ[s].state, hash |-> occ[s].hash]
    BY <1>3, OccurrenceKinds
  <2>3. /\ Pick(v.occ[s].state, t.occ[s].state, occ[s].state) = occ[s].state
        /\ Pick(v.occ[s].hash, t.occ[s].hash, occ[s].hash) = occ[s].hash
    BY <1>7 DEF Pick
  <2> QED BY <2>1, <2>2, <2>3
<1> QED BY <1>4, <1>5, <1>6, <1>7

\* What a transaction changes of an asset or an occurrence is in the change feed,
\* whether a manifest, a removal or a merge did it.
THEOREM NothingUntold == Spec => ChangesTold
<1> DEFINE Tells == /\ \A h \in Hashes : asset'[h] # asset[h] => h \in feed'
                   /\ \A s \in Slots : occ'[s] # occ[s] => s \in feed'
<1>1. IInv /\ [Next]_vars => [Tells]_vars
  <2> SUFFICES ASSUME IInv, Next PROVE Tells
    OBVIOUS
  <2>1. ASSUME NEW r \in Requests, (\E k \in Keys : Begin(r, k)) \/ Nothing(r) PROVE Tells
    BY <2>1 DEF Begin, Nothing, database
  <2>2. ASSUME NEW r \in Requests, NEW source \in Sources, Fresh(r), Commit(r, source, Start(request[r]))
        PROVE  Tells
    BY <2>2, FreshView, SinceStart, CommitTells
  <2>3. ASSUME NEW r \in Requests, NEW source \in Sources, NEW reliable, NEW entries \in Entries, Open(r, source),
               Comparable(request[r].occ, source, entries),
               Commit(r, source, ApplyAll(request[r], source, reliable, entries))
        PROVE  Tells
    BY <2>3, SubmitSince, CommitTells DEF Open
  <2>4. ASSUME NEW r \in Requests, NEW source \in Sources, Open(r, source),
               Commit(r, source, Removal(request[r], ActiveOf(request[r], source)))
        PROVE  Tells
    <3>1. ActiveOf(request[r], source) \in SUBSET Slots /\ \A q \in ActiveOf(request[r], source) : q[1] = source
      BY DEF ActiveOf
    <3>2. Fresh(r)
      BY <2>4 DEF Open
    <3>3. Since(request[r], source, Removal(request[r], ActiveOf(request[r], source)))
      BY <3>1, <3>2, FreshView, RemovalSince
    <3> QED BY <2>4, <3>2, <3>3, CommitTells
  <2>5. ASSUME NEW source \in Sources, NEW rows \in Rows, BulkMerge(source, rows) PROVE Tells
    <3>1. /\ asset' = MergedAssets(source, rows) /\ occ' = MergedOccurrences(source, rows)
          /\ feed' = MergeTells(source, rows)
      BY <2>5 DEF BulkMerge
    <3>2. \A s \in Slots : (\A n \in Accepted(source, rows) : s # <<source, rows[n].item>>) =>
            MergedOccurrences(source, rows)[s] = occ[s]
      BY DEF MergedOccurrences
    <3> QED BY <3>1, <3>2 DEF MergeTells
  <2> HIDE DEF Tells
  <2> QED BY <2>1, <2>2, <2>3, <2>4, <2>5, Steps
<1> QED BY <1>1, Always, PTL DEF Spec, ChangesTold

-----------------------------------------------------------------------------
(* The same rows, merged or sent in a manifest.                            *)

\* A hashed entry about an occurrence with its content, or with none, whose size
\* is the one known: it takes the content, and that is all.
LEMMA UpsertAgrees ==
  ASSUME NEW t \in Trans, NEW slot \in Slots, NEW e \in Hashed,
         t.occ[slot].hash \in {NoHash, e.hash}, t.asset[e.hash].state # "None" => t.asset[e.hash].size = e.size
  PROVE  LET u == UpsertHashed(t, slot, e)
         IN  /\ u.seen = t.seen
             /\ u.occ[slot] = [state |-> "Active", hash |-> e.hash]
             /\ \A q \in Slots \ {slot} : u.occ[q] = t.occ[q]
             /\ u.asset[e.hash] = [state |-> "Active", size |-> e.size]
             /\ \A h \in Hashes \ {e.hash} : u.asset[h] = t.asset[h]
<1> DEFINE h      == e.hash
           told   == Told(t, slot, e)
           link   == Link(told, h, e.size)
           linked == Put(link, slot, h)
<1>1. h \in Hashes /\ e.size \in Sizes
  BY DEF Hashed
<1>2. UpsertHashed(t, slot, e) = linked
  BY DEF UpsertHashed, Told
<1>3. told \in Trans /\ told.asset = t.asset /\ told.occ = t.occ /\ told.seen = t.seen
  BY ToldIs
<1> HIDE DEF told
<1>4. /\ link \in Trans /\ link.occ = told.occ /\ link.seen = told.seen
      /\ \A x \in Hashes \ {h} : link.asset[x] = told.asset[x]
      /\ link.asset[h].state = "Active"
      /\ link.asset[h].size = IF told.asset[h].state = "None" THEN e.size ELSE told.asset[h].size
  BY <1>1, <1>3, LinkIs
<1>5. link.asset[h] = [state |-> "Active", size |-> e.size]
  <2>1. link.asset[h] \in Asset
    BY <1>1, <1>4 DEF Trans
  <2>2. link.asset[h] = [state |-> link.asset[h].state, size |-> link.asset[h].size]
    BY <2>1, AssetKinds
  <2>3. link.asset[h].size = e.size
    BY <1>3, <1>4
  <2> QED BY <1>4, <2>2, <2>3
<1> HIDE DEF link
<1>6. /\ linked.asset = link.asset /\ linked.seen = link.seen
      /\ linked.occ[slot] = [state |-> "Active", hash |-> h]
      /\ \A q \in Slots \ {slot} : linked.occ[q] = link.occ[q]
  BY <1>1, <1>4, PutIs
<1> HIDE DEF linked
<1> QED BY <1>2, <1>3, <1>4, <1>5, <1>6

\* The rows of s that the merge considers.
Considered(source, rows, s) == s \cap Valid(source, rows)

\* The transaction that has been through the rows of s.
Been(t, source, rows, s) ==
  /\ t.seen = {rows[n].item : n \in {x \in s : <<source, rows[x].item>> \in Slots}}
  /\ \A n \in Considered(source, rows, s) :
       /\ t.occ[<<source, rows[n].item>>] = [state |-> "Active", hash |-> rows[n].hash]
       /\ t.asset[rows[n].hash] = [state |-> "Active", size |-> rows[n].size]
  /\ \A q \in Slots : (\A n \in Considered(source, rows, s) : q # <<source, rows[n].item>>) => t.occ[q] = occ[q]
  /\ \A h \in Hashes : (\A n \in Considered(source, rows, s) : rows[n].hash # h) => t.asset[h] = asset[h]

\* Rows the merge and a manifest may be given.
Agreeable(source, rows) ==
  /\ rows \in Rows /\ Comparable(occ, source, rows) /\ ~Relinks(source, rows)
  /\ Valid(source, rows) = Accepted(source, rows)

\* One more row.
LEMMA BeenFurther ==
  ASSUME TypeOK, NEW source, NEW rows, Agreeable(source, rows), NEW k \in Nat, DOMAIN rows = 1..k,
         NEW n \in 1..k, NEW t \in Trans, Been(t, source, rows, 1..(n - 1))
  PROVE  Been(Apply(t, source, FALSE, rows[n]), source, rows, 1..n)
<1> DEFINE V == Valid(source, rows)
           e == rows[n]
           slot == <<source, e.item>>
           next == [t EXCEPT !.seen = @ \cup {e.item}]
           u == Apply(t, source, FALSE, e)
           P == 1..(n - 1)
           S == 1..n
<1>1. /\ \A x \in V : /\ rows[x].item \in Items /\ rows[x].hash \in Hashes
                      /\ rows[x].size \in Sizes /\ <<source, rows[x].item>> \in Slots
      /\ \A x, y \in V : rows[x].item = rows[y].item => x = y
      /\ \A x \in V : Canonical(source, rows, rows[x].hash) \in V
  BY RowsAre DEF Agreeable
<1>2. e \in Hashed /\ e.gone = FALSE /\ e.hash \in Hashes /\ e.hash # NoHash /\ e.item \in Items
  <2>1. PICK j \in Nat : rows \in [1..j -> Hashed]
    BY CatalogAssumption DEF Agreeable, Rows, BoundedSeq, SeqOf
  <2>2. rows[n] \in Hashed
    BY <2>1
  <2> QED BY <2>2, CatalogAssumption DEF Hashed
<1>3. S = P \cup {n} /\ n \notin P /\ P \subseteq 1..k
  OBVIOUS
<1>4. n \in V <=> slot \in Slots /\ e.item \notin t.seen
  <2>1. n \in V <=> FirstOf(rows, n) /\ slot \in Slots
    BY DEF Valid
  <2>2. FirstOf(rows, n) <=> \A x \in P : rows[x].item # e.item
    BY DEF FirstOf
  <2>3. slot \in Slots => (e.item \in t.seen <=> \E x \in P : rows[x].item = e.item)
    BY DEF Been
  <2> QED BY <2>1, <2>2, <2>3
<1>5. u = IF slot \notin Slots \/ e.item \in t.seen THEN t ELSE UpsertHashed(next, slot, e)
  BY <1>2 DEF Apply
<1> DEFINE Passed(s) == {rows[x].item : x \in {y \in s : <<source, rows[y].item>> \in Slots}}
<1>6. t.seen = Passed(P)
  BY DEF Been
<1>7. Passed(S) = IF slot \in Slots THEN Passed(P) \cup {e.item} ELSE Passed(P)
  <2> HIDE DEF P, S
  <2> QED BY <1>3
<1>8. ASSUME n \notin V
      PROVE  Been(u, source, rows, S)
  <2>1. u = t
    BY <1>4, <1>5, <1>8
  <2>2. Considered(source, rows, S) = Considered(source, rows, P)
    <3> HIDE DEF P, S, V
    <3> QED BY <1>3, <1>8 DEF Considered, V
  <2>3. u.seen = Passed(S)
    <3> HIDE DEF u, Passed, P, S
    <3> QED BY <1>4, <1>6, <1>7, <1>8, <2>1
  <2> HIDE DEF u, P, S
  <2> QED BY <2>1, <2>2, <2>3 DEF Been, P
<1>9. ASSUME n \in V
      PROVE  Been(u, source, rows, S)
  <2>1. slot \in Slots /\ e.item \notin t.seen /\ u = UpsertHashed(next, slot, e)
    BY <1>4, <1>5, <1>9
  <2>2. next \in Trans /\ next.asset = t.asset /\ next.occ = t.occ /\ next.seen = t.seen \cup {e.item}
    BY <1>2, SeeIs
  <2> HIDE DEF next
  <2>3. \A x \in Considered(source, rows, P) : x \in V /\ x # n /\ slot # <<source, rows[x].item>>
    <3> SUFFICES ASSUME NEW x \in Considered(source, rows, P)
                 PROVE  x \in V /\ x # n /\ slot # <<source, rows[x].item>>
      OBVIOUS
    <3>1. x \in V /\ x \in P
      BY DEF Considered
    <3>2. x # n
      BY <1>3, <3>1
    <3>3. rows[x].item # rows[n].item
      <4> HIDE DEF V, P
      <4> QED BY <1>1, <1>9, <3>1, <3>2
    <3> QED BY <3>1, <3>2, <3>3
  <2>4. t.occ[slot] = occ[slot] /\ occ[slot].hash \in {NoHash, e.hash}
    <3>1. t.occ[slot] = occ[slot]
      BY <2>1, <2>3 DEF Been
    <3>2. occ[slot].hash \in {NoHash, e.hash}
      BY <1>9 DEF Agreeable, Relinks
    <3> QED BY <3>1, <3>2
  <2>5. \A x \in V : rows[x].size = IF asset[rows[x].hash].state # "None" THEN asset[rows[x].hash].size
                                   ELSE rows[Canonical(source, rows, rows[x].hash)].size
    <3>1. \A x \in Accepted(source, rows) :
            rows[x].size = IF asset[rows[x].hash].state # "None" THEN asset[rows[x].hash].size
                           ELSE rows[Canonical(source, rows, rows[x].hash)].size
      BY DEF Accepted
    <3> QED BY <3>1 DEF Agreeable
  <2>6. \A x \in V : rows[x].hash = e.hash => rows[x].size = e.size
    <3> HIDE DEF V
    <3> QED BY <1>9, <2>5
  <2>7. t.asset[e.hash].state # "None" => t.asset[e.hash].size = e.size
    <3>1. CASE \E x \in Considered(source, rows, P) : rows[x].hash = e.hash
      <4>1. PICK x \in Considered(source, rows, P) : rows[x].hash = e.hash
        BY <3>1
      <4>2. t.asset[e.hash] = [state |-> "Active", size |-> rows[x].size]
        BY <4>1 DEF Been
      <4>3. rows[x].size = e.size
        BY <2>3, <2>6, <4>1
      <4> QED BY <4>2, <4>3
    <3>2. CASE \A x \in Considered(source, rows, P) : rows[x].hash # e.hash
      <4>1. t.asset[e.hash] = asset[e.hash]
        BY <1>2, <3>2 DEF Been
      <4>2. asset[e.hash].state # "None" => e.size = asset[e.hash].size
        BY <1>9, <2>5
      <4> QED BY <4>1, <4>2
    <3> QED BY <3>1, <3>2
  <2>8. /\ u.seen = next.seen
        /\ u.occ[slot] = [state |-> "Active", hash |-> e.hash]
        /\ \A q \in Slots \ {slot} : u.occ[q] = t.occ[q]
        /\ u.asset[e.hash] = [state |-> "Active", size |-> e.size]
        /\ \A h \in Hashes \ {e.hash} : u.asset[h] = t.asset[h]
    <3> HIDE DEF slot, u, e
    <3> QED BY <1>2, <2>1, <2>2, <2>4, <2>7, UpsertAgrees
  <2>9. Considered(source, rows, S) = Considered(source, rows, P) \cup {n}
    <3> HIDE DEF P, S
    <3> QED BY <1>3, <1>9 DEF Considered
  <2>10. u.seen = Passed(S)
    <3> HIDE DEF u, Passed, P, S
    <3> QED BY <1>6, <1>7, <2>1, <2>2, <2>8
  <2> HIDE DEF u
  <2>11. \A x \in Considered(source, rows, S) :
           /\ u.occ[<<source, rows[x].item>>] = [state |-> "Active", hash |-> rows[x].hash]
           /\ u.asset[rows[x].hash] = [state |-> "Active", size |-> rows[x].size]
    <3> SUFFICES ASSUME NEW x \in Considered(source, rows, S)
                 PROVE  /\ u.occ[<<source, rows[x].item>>] = [state |-> "Active", hash |-> rows[x].hash]
                        /\ u.asset[rows[x].hash] = [state |-> "Active", size |-> rows[x].size]
      OBVIOUS
    <3>1. CASE x = n
      BY <2>8, <3>1
    <3>2. CASE x # n
      <4>1. x \in Considered(source, rows, P)
        BY <2>9, <3>2
      <4>2. /\ t.occ[<<source, rows[x].item>>] = [state |-> "Active", hash |-> rows[x].hash]
            /\ t.asset[rows[x].hash] = [state |-> "Active", size |-> rows[x].size]
        BY <4>1 DEF Been
      <4>3. x \in V /\ slot # <<source, rows[x].item>>
        BY <2>3, <4>1
      <4>4. <<source, rows[x].item>> \in Slots /\ rows[x].hash \in Hashes
        BY <1>1, <4>3
      <4>5. u.occ[<<source, rows[x].item>>] = [state |-> "Active", hash |-> rows[x].hash]
        BY <2>8, <4>2, <4>3, <4>4
      <4>6. u.asset[rows[x].hash] = [state |-> "Active", size |-> rows[x].size]
        <5>1. CASE rows[x].hash = e.hash
          <6>1. rows[x].size = e.size
            BY <2>6, <4>3, <5>1
          <6> QED BY <2>8, <5>1, <6>1
        <5>2. CASE rows[x].hash # e.hash
          BY <2>8, <4>2, <4>4, <5>2
        <5> QED BY <5>1, <5>2
      <4> QED BY <4>5, <4>6
    <3> QED BY <3>1, <3>2
  <2>12. \A q \in Slots : (\A x \in Considered(source, rows, S) : q # <<source, rows[x].item>>) => u.occ[q] = occ[q]
    <3>1. \A q \in Slots : (\A x \in Considered(source, rows, P) : q # <<source, rows[x].item>>) => t.occ[q] = occ[q]
      BY DEF Been
    <3> HIDE DEF P, S
    <3> QED BY <2>8, <2>9, <3>1
  <2>13. \A h \in Hashes : (\A x \in Considered(source, rows, S) : rows[x].hash # h) => u.asset[h] = asset[h]
    <3>1. \A h \in Hashes : (\A x \in Considered(source, rows, P) : rows[x].hash # h) => t.asset[h] = asset[h]
      BY DEF Been
    <3> HIDE DEF P, S
    <3> QED BY <2>8, <2>9, <3>1
  <2> QED BY <2>10, <2>11, <2>12, <2>13 DEF Been
<1> QED BY <1>8, <1>9

\* All rows: the manifest has been through every one.
LEMMA BeenThrough ==
  ASSUME TypeOK, KnownIn(Now), NEW source, NEW rows, Agreeable(source, rows), NEW k \in Nat, DOMAIN rows = 1..k,
         NEW it, ManifestReaches(it, Now, source, FALSE, k, rows)
  PROVE  Been(it[1..k], source, rows, 1..k)
<1> DEFINE S == 1..k
           Good == {s \in SUBSET S : (\A n \in s : 1..n \subseteq s) => Been(it[s], source, rows, s)}
<1>1. /\ it[{}] = Start(Now)
      /\ \A s \in SUBSET S : s # {} => it[s] = Apply(it[s \ {Max(s)}], source, FALSE, rows[Max(s)])
      /\ \A s \in SUBSET S : it[s] \in Trans
  BY DEF ManifestReaches, ManifestRun, Reached
<1>2. S \in SUBSET Nat /\ IsFiniteSet(S)
  <2>1. IsFiniteSet(S)
    BY FS_Interval
  <2> QED BY <2>1
<1>3. Been(it[{}], source, rows, {})
  <2>1. Started(Now)
    BY DEF Started, Now, TypeOK
  <2>2. Start(Now).asset = asset /\ Start(Now).occ = occ /\ Start(Now).seen = {}
    BY DEF Start, Now
  <2> QED BY <1>1, <2>2 DEF Been, Considered
<1>4. ASSUME NEW s \in SUBSET S, \A x \in s : s \ {x} \in Good
      PROVE  s \in Good
  <2> SUFFICES ASSUME \A n \in s : 1..n \subseteq s
               PROVE  Been(it[s], source, rows, s)
    OBVIOUS
  <2>1. CASE s = {}
    BY <1>3, <2>1
  <2>2. CASE s # {}
    <3> DEFINE n == Max(s)
    <3>1. n \in s /\ \A y \in s : n >= y
      <4> HIDE DEF S
      <4> QED BY <1>2, <2>2, MaxIsGreatest
    <3>2. it[s] = Apply(it[s \ {n}], source, FALSE, rows[n])
      <4> HIDE DEF S
      <4> QED BY <1>1, <2>2
    <3> HIDE DEF n
    <3>3. n \in 1..k
      BY <3>1
    <3>4. s = 1..n
      <4>1. 1..n \subseteq s
        BY <3>1
      <4>2. \A y \in s : y \in 1..n
        BY <3>1, <3>3
      <4> QED BY <4>1, <4>2
    <3>5. s \ {n} = 1..(n - 1)
      BY <3>3, <3>4
    <3>6. \A x \in 1..(n - 1) : 1..x \subseteq 1..(n - 1)
      BY <3>3
    <3>7. Been(it[1..(n - 1)], source, rows, 1..(n - 1))
      BY <1>4, <3>1, <3>5, <3>6
    <3>8. it[1..(n - 1)] \in Trans
      BY <1>1, <3>5
    <3>9. Been(Apply(it[1..(n - 1)], source, FALSE, rows[n]), source, rows, 1..n)
      <4> DEFINE t == it[1..(n - 1)]
      <4>1. t \in Trans /\ Been(t, source, rows, 1..(n - 1))
        BY <3>7, <3>8
      <4> HIDE DEF t
      <4>2. Been(Apply(t, source, FALSE, rows[n]), source, rows, 1..n)
        BY <3>3, <4>1, BeenFurther
      <4> QED BY <4>2 DEF t
    <3> QED BY <3>2, <3>4, <3>5, <3>9
  <2> QED BY <2>1, <2>2
<1>5. S \in Good
  <2> HIDE DEF S, Good
  <2> QED BY <1>2, <1>4, SubsetInduction
<1>6. \A n \in S : 1..n \subseteq S
  OBVIOUS
<1> QED BY <1>5, <1>6

LEMMA SentAgrees ==
  ASSUME TypeOK, KnownIn(Now), NEW source, NEW rows, Agreeable(source, rows)
  PROVE  LET sent == ApplyAll(Now, source, FALSE, rows)
         IN  MergedAssets(source, rows) = sent.asset /\ MergedOccurrences(source, rows) = sent.occ
<1> DEFINE V == Valid(source, rows)
           C(h) == Canonical(source, rows, h)
           a == MergedAssets(source, rows)
           o == MergedOccurrences(source, rows)
<1>1. rows \in Rows /\ V = Accepted(source, rows)
  BY DEF Agreeable
<1>2. PICK k \in Nat : rows \in [1..k -> Hashed]
  BY <1>1, CatalogAssumption DEF Rows, BoundedSeq, SeqOf
<1>3. DOMAIN rows = 1..k /\ \A n \in 1..k : Sensible(Now, source, rows[n])
  <2>1. DOMAIN rows = 1..k
    BY <1>2
  <2>2. ASSUME NEW n \in 1..k
        PROVE  Sensible(Now, source, rows[n])
    <3>1. rows[n] \in Hashed \cup Pending \cup Deletes
      BY <1>2
    <3>2. <<source, rows[n].item>> \in Slots /\ ~rows[n].revised =>
            occ[<<source, rows[n].item>>].state # "None"
              /\ rows[n].hash \in {NoHash, occ[<<source, rows[n].item>>].hash}
      BY <2>1 DEF Comparable, Agreeable
    <3> QED BY <3>1, <3>2 DEF Sensible, Now
  <2> QED BY <2>1, <2>2
<1>4. Started(Now)
  BY DEF Started, Now, TypeOK
<1>5. PICK it : ManifestReaches(it, Now, source, FALSE, k, rows)
  BY <1>3, <1>4, ManifestStays
<1> DEFINE S == 1..k
           t == it[S]
<1>6. Been(t, source, rows, S) /\ t \in Trans
  BY <1>3, <1>5, BeenThrough DEF ManifestReaches, Reached
<1>7. ApplyAll(Now, source, FALSE, rows) = Flush(t)
  BY <1>5 DEF ManifestReaches, ManifestRun
<1>8. Considered(source, rows, S) = V
  BY <1>3 DEF Considered, Valid
<1> HIDE DEF t, S, V, a, o, C
<1>9. Flush(t).asset = t.asset /\ Flush(t).occ = t.occ /\ t.asset \in [Hashes -> Asset] /\ t.occ \in [Slots -> Occurrence]
  BY <1>6, FlushIs DEF Trans
<1>10. /\ a \in [Hashes -> Asset] /\ o \in [Slots -> Occurrence]
       /\ \A n \in V : o[<<source, rows[n].item>>] = [state |-> "Active", hash |-> rows[n].hash]
       /\ \A s \in Slots : (\A n \in V : s # <<source, rows[n].item>>) => o[s] = occ[s]
  BY <1>1, MergeIs DEF a, o
<1>11. o = t.occ
  <2>1. ASSUME NEW q \in Slots PROVE o[q] = t.occ[q]
    <3>1. CASE \E n \in V : q = <<source, rows[n].item>>
      <4>1. PICK n \in V : q = <<source, rows[n].item>>
        BY <3>1
      <4>2. t.occ[<<source, rows[n].item>>] = [state |-> "Active", hash |-> rows[n].hash]
        BY <1>6, <1>8 DEF Been
      <4>3. o[<<source, rows[n].item>>] = [state |-> "Active", hash |-> rows[n].hash]
        BY <1>10
      <4> QED BY <4>1, <4>2, <4>3
    <3>2. CASE \A n \in V : q # <<source, rows[n].item>>
      BY <1>6, <1>8, <1>10, <3>2 DEF Been
    <3> QED BY <3>1, <3>2
  <2> QED BY <1>9, <1>10, <2>1
<1>12. a = t.asset
  <2>1. \A n \in V : C(rows[n].hash) \in V /\ rows[C(rows[n].hash)].hash = rows[n].hash
    BY <1>1, RowsAre DEF V, C
  <2>2. ASSUME NEW h \in Hashes PROVE a[h] = t.asset[h]
    <3>1. h \in Restored(source, rows) <=> \E n \in V : rows[n].hash = h /\ n = C(h)
      BY <1>1 DEF Restored, C
    <3>2. a[h] = IF h \notin Restored(source, rows) THEN asset[h]
                 ELSE [state |-> "Active", size |-> rows[C(h)].size]
      BY DEF a, MergedAssets, C
    <3>3. CASE \E n \in V : rows[n].hash = h
      <4>1. C(h) \in V /\ rows[C(h)].hash = h
        BY <2>1, <3>3
      <4>2. t.asset[h] = [state |-> "Active", size |-> rows[C(h)].size]
        BY <1>6, <1>8, <4>1 DEF Been
      <4> QED BY <3>1, <3>2, <4>1, <4>2
    <3>4. CASE \A n \in V : rows[n].hash # h
      BY <1>6, <1>8, <3>1, <3>2, <3>4 DEF Been
    <3> QED BY <3>3, <3>4
  <2> QED BY <1>9, <1>10, <2>2
<1> QED BY <1>7, <1>9, <1>11, <1>12 DEF a, o

\* The merge of rows whose sizes agree leaves the catalogue as the same rows sent in
\* manifests do, whatever it was before (_merge_assets, _merge_occurrences against
\* _prepare_manifest_assets and _upsert_occurrence).
THEOREM MergeIsManifest == Spec => []MergeAgrees
<1>1. IInv => MergeAgrees
  <2> SUFFICES ASSUME IInv, NEW source \in Sources \ removed, NEW rows \in Rows,
                      Comparable(occ, source, rows), ~Relinks(source, rows),
                      Valid(source, rows) = Accepted(source, rows)
               PROVE  LET sent == ApplyAll(Now, source, FALSE, rows)
                      IN  MergedAssets(source, rows) = sent.asset /\ MergedOccurrences(source, rows) = sent.occ
    BY DEF MergeAgrees, Now
  <2>1. Agreeable(source, rows)
    BY DEF Agreeable
  <2> QED BY <2>1, SentAgrees DEF IInv
<1> QED BY <1>1, Always, PTL
==============================================================================
