-------------------------------- MODULE Catalog --------------------------------
(***************************************************************************)
(* The catalogue of one user: the assets, one for each content, and their  *)
(* occurrences in sources, as changed by manifests, by the removal of a    *)
(* source and by the merge of a bulk import.                               *)
(*                                                                         *)
(* A mutation reads the account, which fixes the view its later reads have *)
(* of the database (REPEATABLE READ), then waits for the lock on the row   *)
(* of the user: it is begun in one action and carried out in another.  Its *)
(* writes are flushed where the code says so (autoflush is off), and only  *)
(* attributes it changed are written.  The merge reads what is committed.  *)
(***************************************************************************)
EXTENDS Naturals, FiniteSets, SequencesExt

CONSTANTS
  Slots,     \* pairs of a source and a source item
  Hashes,    \* contents (SHA-256)
  Sizes,     \* byte sizes; only compared
  Keys,      \* idempotency keys; each is applied once, which bounds the manifests
  Requests,  \* requests in progress
  MaxRows,   \* entries of a manifest (bound)
  MaxMerges, \* merges of imports (bound)
  NoHash,    \* the hash of an occurrence whose hash is pending
  NoSize,
  None

ASSUME CatalogAssumption ==
  /\ IsFiniteSet(Slots) /\ NoHash \notin Hashes
  /\ MaxRows \in Nat /\ MaxMerges \in Nat

VARIABLES
  asset,     \* MediaAsset: content -> state and size
  occ,       \* MediaOccurrence: slot -> state and content
  removed,   \* sources removed
  records,   \* IdempotencyRecord: keys with a stored response
  request,   \* request -> its key and its view of the database
  feed,      \* assets and occurrences in the change rows of the last transaction
  applied,   \* key -> times its request was carried out (history)
  overtaken, \* contents and sources written from an outdated view (history)
  disputed,  \* contents whose size the rows of a merge disagreed on (history)
  merged     \* merges made (bound)

database == <<asset, occ, removed, records>>
history  == <<applied, overtaken, disputed>>
vars     == <<asset, occ, removed, records, request, feed, applied, overtaken, disputed, merged>>

-----------------------------------------------------------------------------
Sources == {s[1] : s \in Slots}
Items   == {s[2] : s \in Slots}

Asset      == [state: {"None"}, size: {NoSize}] \cup [state: {"Active", "Trashed"}, size: Sizes]
Occurrence == [state: {"None"}, hash: {NoHash}]
                \cup [state: {"Active", "Deleted"}, hash: Hashes \cup {NoHash}]
View       == [key: Keys, asset: [Hashes -> Asset], occ: [Slots -> Occurrence],
               removed: SUBSET Sources, records: SUBSET Keys]

TypeOK ==
  /\ asset \in [Hashes -> Asset] /\ occ \in [Slots -> Occurrence]
  /\ removed \subseteq Sources /\ records \subseteq Keys
  /\ \A r \in Requests : request[r] = None \/ request[r] \in View
  /\ feed \subseteq Slots \cup Hashes
  /\ applied \in [Keys -> Nat] /\ overtaken \subseteq Hashes \cup Sources
  /\ disputed \subseteq Hashes /\ merged \in 0..MaxMerges

\* An asset is out of the trash exactly while an active occurrence has its content.
Used(h) == \E s \in Slots : occ[s] = [state |-> "Active", hash |-> h]
Live(h) == asset[h].state = "Active" <=> Used(h)

\* A catalogue as earlier manifests and removals left it.
Init ==
  /\ asset \in [Hashes -> Asset] /\ occ \in [Slots -> Occurrence]
  /\ \A h \in Hashes : Live(h) /\ (asset[h].state = "None" => \A s \in Slots : occ[s].hash # h)
  /\ removed \in SUBSET Sources /\ \A s \in Slots : s[1] \in removed => occ[s].state # "Active"
  /\ records = {} /\ request = [r \in Requests |-> None]
  /\ feed = {} /\ applied = [k \in Keys |-> 0] /\ overtaken = {} /\ disputed = {} /\ merged = 0

\* An entry of a manifest: revised says that its revision is not the one of the
\* occurrence; that of an entry with a hash, also that its name, size or hash is not.
Hashed  == [item: Items, gone: {FALSE}, hash: Hashes, size: Sizes, revised: BOOLEAN]
Pending == [item: Items, gone: {FALSE}, hash: {NoHash}, size: {NoSize}, revised: BOOLEAN]
Deletes == [item: Items, gone: {TRUE}, hash: {NoHash}, size: {NoSize}, revised: {TRUE}]
Rows    == BoundedSeq(Hashed, MaxRows) \ {<<>>}
Entries == BoundedSeq(Hashed \cup Pending \cup Deletes, MaxRows) \ {<<>>}

Comparable(known, source, entries) ==
  \A n \in DOMAIN entries :
    LET slot == <<source, entries[n].item>>
    IN slot \in Slots /\ ~entries[n].revised =>
         known[slot].state # "None" /\ entries[n].hash \in {NoHash, known[slot].hash}

-----------------------------------------------------------------------------
(* A transaction: asset and occ as its session has them, rows as its       *)
(* queries find them, and what it tells the change feed.                   *)

Start(view) == [asset |-> view.asset, occ |-> view.occ, rows |-> view.occ, feed |-> {}, seen |-> {}]

Flush(t)     == [t EXCEPT !.rows = t.occ]
Tell(t, e)   == [t EXCEPT !.feed = @ \cup {e}]
Unchanged(t, slot, e) == ~e.revised /\ t.occ[slot].state = "Active"

\* _trash_if_unreferenced; it asks the database for other occurrences.
Trash(t, h, slot) ==
  IF \/ \E s \in Slots \ {slot} : t.rows[s] = [state |-> "Active", hash |-> h]
     \/ t.asset[h].state = "Trashed"
  THEN t
  ELSE Flush(Tell([t EXCEPT !.asset[h].state = "Trashed"], h))

\* ChangesTold: no change row for a restored asset.
LinkBug(t, h, size) ==
  IF t.asset[h].state = "None"
  THEN Tell([t EXCEPT !.asset[h] = [state |-> "Active", size |-> size]], h)
  ELSE [t EXCEPT !.asset[h].state = "Active"]

\* The asset of an accepted entry: created, or restored from the trash.
Link(t, h, size) ==
  IF t.asset[h].state = "None"
  THEN Tell([t EXCEPT !.asset[h] = [state |-> "Active", size |-> size]], h)
  ELSE IF t.asset[h].state = "Trashed"
  THEN Tell([t EXCEPT !.asset[h].state = "Active"], h)
  ELSE t

Put(t, slot, h) == [t EXCEPT !.occ[slot] = [state |-> "Active", hash |-> h]]

\* LiveWhileUsed: the orphan check does not see the occurrence's new asset,
\* nor the others of the batch.
SettleBug(t) == t

Settle(t) == Flush(t)

\* An entry with a hash.
UpsertHashed(t, slot, e) ==
  LET old    == t.occ[slot].hash
      told   == IF Unchanged(t, slot, e) THEN t ELSE Tell(t, slot)
      linked == Put(Link(told, e.hash, e.size), slot, e.hash)
  IN IF t.asset[e.hash].state # "None" /\ t.asset[e.hash].size # e.size THEN t
     ELSE IF old \notin {NoHash, e.hash} THEN Trash(Settle(linked), old, slot)
     ELSE linked

\* An entry whose hash is pending: a new occurrence waits to be flushed, a
\* known one keeps its asset unless its revision changed.
UpsertPending(t, slot, e) ==
  LET old  == t.occ[slot].hash
      told == IF Unchanged(t, slot, e) THEN t ELSE Tell(t, slot)
  IN IF t.occ[slot].state = "None" THEN Put(told, slot, NoHash)
     ELSE IF old = NoHash THEN Flush(Put(told, slot, NoHash))
     ELSE IF e.revised THEN Trash(Flush(Put(told, slot, NoHash)), old, slot)
     ELSE Link(Flush(Put(told, slot, old)), old, t.asset[old].size)

DeleteOccurrence(t, slot) ==
  LET h    == t.occ[slot].hash
      gone == Flush(Tell([t EXCEPT !.occ[slot].state = "Deleted"], slot))
  IN IF h = NoHash THEN gone ELSE Trash(gone, h, slot)

\* One entry of a manifest; the second about an item is rejected.
Apply(t, source, reliable, e) ==
  LET slot == <<source, e.item>>
      next == [t EXCEPT !.seen = @ \cup {e.item}]
  IN IF slot \notin Slots \/ e.item \in t.seen THEN t
     ELSE IF e.gone
     THEN IF reliable /\ t.occ[slot].state = "Active" THEN DeleteOccurrence(next, slot) ELSE next
     ELSE IF e.hash = NoHash THEN UpsertPending(next, slot, e)
     ELSE UpsertHashed(next, slot, e)

\* _prepare_manifest_assets decides the size of a new asset: the first entry
\* of its content.
ApplyAll(view, source, reliable, entries) ==
  Flush(FoldLeft(LAMBDA t, e : Apply(t, source, reliable, e), Start(view), entries))

-----------------------------------------------------------------------------
(* Requests.                                                               *)

Snapshot(k) == [key |-> k, asset |-> asset, occ |-> occ, removed |-> removed, records |-> records]

\* _account, before the lock is waited for.
Begin(r, k) ==
  /\ request[r] = None
  /\ request' = [request EXCEPT ![r] = Snapshot(k)]
  /\ feed' = {}
  /\ UNCHANGED <<database, history, merged>>

End(r) == request' = [request EXCEPT ![r] = None]

\* AppliedOnce: no unique index stops the insertion of a second record.
TakenBug(view) == FALSE

\* The record of the key exists, though the view lacks it.
Taken(view) == view.key \in records \ view.records

\* A row the transaction inserts exists already.
Collides(view, t) ==
  \/ \E h \in Hashes : view.asset[h].state = "None" /\ t.asset[h].state # "None" /\ asset[h].state # "None"
  \/ \E s \in Slots : view.occ[s].state = "None" /\ t.occ[s].state # "None" /\ occ[s].state # "None"

\* The request ends without effect: IdempotencyRepository.reserve finds the key
\* used, and its stored response is given again, or runs into the unique index
\* (IntegrityError).
Replay(r) ==
  /\ request[r] # None
  /\ request[r].key \in request[r].records \/ Taken(request[r])
  /\ End(r) /\ feed' = {}
  /\ UNCHANGED <<database, history, merged>>

\* IntegrityError
Reject(r, t) ==
  /\ Collides(request[r], t)
  /\ End(r) /\ feed' = {}
  /\ UNCHANGED <<database, history, merged>>

\* Of each row, the attributes that changed are written.
Written(old, new, current) ==
  [x \in DOMAIN current |->
     [a \in DOMAIN current[x] |-> IF new[x][a] # old[x][a] THEN new[x][a] ELSE current[x][a]]]

Outdated(view) ==
  \/ view.asset # asset \/ view.occ # occ \/ view.removed # removed

Touched(view, t) ==
  {h \in Hashes : \E s \in Slots :
     view.occ[s] # t.occ[s] /\ h \in {view.occ[s].hash, t.occ[s].hash, occ[s].hash}}

Commit(r, source, t) ==
  LET view == request[r]
  IN /\ ~Collides(view, t)
     /\ asset' = Written(view.asset, t.asset, asset)
     /\ occ' = Written(view.occ, t.occ, occ)
     /\ feed' = t.feed
     /\ records' = records \cup {view.key}
     /\ applied' = [applied EXCEPT ![view.key] = @ + 1]
     /\ overtaken' = IF Outdated(view) THEN overtaken \cup Touched(view, t) \cup {source} ELSE overtaken
     /\ End(r) /\ UNCHANGED <<disputed, merged>>

Fresh(r) ==
  request[r] # None /\ request[r].key \notin request[r].records /\ ~Taken(request[r])

\* SourcesSound: SourceRepository.require finds removed sources too.
OpenBug(r, source) == Fresh(r)

Open(r, source)    == Fresh(r) /\ source \notin request[r].removed

\* SourceNotFound
Refuse(r, source) ==
  /\ Fresh(r) /\ source \in request[r].removed
  /\ End(r) /\ feed' = {}
  /\ UNCHANGED <<database, history, merged>>

\* A removed source is taken up again.
CreateSource(r, source) ==
  /\ Fresh(r) /\ source \in request[r].removed
  /\ LET t == Start(request[r])
     IN Reject(r, t) \/ (Commit(r, source, t) /\ removed' = removed \ {source})

SubmitManifest(r, source, reliable, entries) ==
  /\ Open(r, source) /\ Comparable(request[r].occ, source, entries)
  /\ reliable => \E n \in DOMAIN entries : entries[n].gone
  /\ LET t == ApplyAll(request[r], source, reliable, entries)
     IN Reject(r, t) \/ (Commit(r, source, t) /\ UNCHANGED removed)

RemoveSource(r, source) ==
  /\ Open(r, source)
  /\ LET active == {s \in Slots : s[1] = source /\ request[r].occ[s].state = "Active"}
         t == Flush(FoldLeft(DeleteOccurrence, Start(request[r]), SetToSeq(active)))
     IN Reject(r, t) \/ (Commit(r, source, t) /\ removed' = removed \cup {source})

-----------------------------------------------------------------------------
(* The set-based merge of a bulk import.                                   *)

FirstOf(rows, n) == ~\E m \in 1..(n - 1) : rows[m].item = rows[n].item

\* The rows the merge considers: the first about each item.
Valid(source, rows) == {n \in DOMAIN rows : FirstOf(rows, n) /\ <<source, rows[n].item>> \in Slots}

\* A row would give an occurrence another content: the whole import fails.
Relinks(source, rows) ==
  \E n \in Valid(source, rows) :
    occ[<<source, rows[n].item>>].hash \notin {NoHash, rows[n].hash}

\* The first row of each content.
Canonical(source, rows, h) ==
  LET about == {n \in Valid(source, rows) : rows[n].hash = h}
  IN CHOOSE n \in about : \A m \in about : n <= m

\* Rows whose size is the one of the asset, or of the first row of their content.
Accepted(source, rows) ==
  {n \in Valid(source, rows) :
     LET h == rows[n].hash
     IN rows[n].size = IF asset[h].state # "None" THEN asset[h].size
                       ELSE rows[Canonical(source, rows, h)].size}

\* MergeAgrees: an asset in the trash stays there.
RestoredBug(source, rows) ==
  {h \in Hashes : /\ asset[h].state # "Trashed"
                  /\ \E n \in Accepted(source, rows) : rows[n].hash = h /\ n = Canonical(source, rows, h)}

Restored(source, rows) ==
  {h \in Hashes : \E n \in Accepted(source, rows) : rows[n].hash = h /\ n = Canonical(source, rows, h)}

MergedAssets(source, rows) ==
  [h \in Hashes |->
     IF h \notin Restored(source, rows) THEN asset[h]
     ELSE [state |-> "Active", size |-> rows[Canonical(source, rows, h)].size]]

MergedOccurrences(source, rows) ==
  [s \in Slots |->
     IF \E n \in Accepted(source, rows) : s = <<source, rows[n].item>>
     THEN [state |-> "Active",
           hash  |-> rows[CHOOSE n \in Accepted(source, rows) : s = <<source, rows[n].item>>].hash]
     ELSE occ[s]]

MergeTells(source, rows) ==
  {h \in Hashes : MergedAssets(source, rows)[h] # asset[h]}
    \cup {s \in Slots : \E n \in Accepted(source, rows) :
            s = <<source, rows[n].item>> /\ (rows[n].revised \/ MergedOccurrences(source, rows)[s] # occ[s])}

BulkMerge(source, rows) ==
  /\ merged < MaxMerges /\ source \notin removed
  /\ Comparable(occ, source, rows) /\ ~Relinks(source, rows)
  /\ asset' = MergedAssets(source, rows) /\ occ' = MergedOccurrences(source, rows)
  /\ feed' = MergeTells(source, rows)
  /\ disputed' = disputed \cup
       {h \in Hashes : \E n \in Valid(source, rows) : rows[n].hash = h /\ n \notin Accepted(source, rows)}
  /\ merged' = merged + 1
  /\ UNCHANGED <<removed, records, request, applied, overtaken>>

-----------------------------------------------------------------------------
Next ==
  \/ \E r \in Requests : \/ \E k \in Keys : Begin(r, k)
                         \/ Replay(r)
                         \/ \E s \in Sources : RemoveSource(r, s) \/ Refuse(r, s) \/ CreateSource(r, s)
                         \/ \E s \in Sources, reliable \in BOOLEAN, e \in Entries :
                              SubmitManifest(r, s, reliable, e)
  \/ \E s \in Sources, rows \in Rows : BulkMerge(s, rows)

Spec == Init /\ [][Next]_vars

-----------------------------------------------------------------------------
(* Properties.                                                             *)

\* An asset is out of the trash exactly while an active occurrence has its
\* content (_trash_if_unreferenced, _restore_asset, _merge_assets).
LiveWhileUsed == \A h \in Hashes \ (overtaken \cup disputed) : Live(h)

\* Also when requests overlap: "One inexpensive per-user row lock serializes
\* idempotency reservation and exact-hash creation", says _mutation.
LiveAlways == \A h \in Hashes \ disputed : Live(h)

\* A removed source keeps no active occurrence (remove_source).
RemovedIsEmpty ==
  \A s \in Slots : s[1] \in removed \ overtaken => occ[s].state # "Active"

\* Rows are well formed, and those of removed sources are closed (remove_source).
SourcesSound == TypeOK /\ RemovedIsEmpty

\* A request that is repeated, also while it is in progress, is carried out
\* once (_mutation, IdempotencyRepository.reserve).
AppliedOnce == \A k \in Keys : applied[k] <= 1

\* What a transaction does to an asset or an occurrence is in the change feed.
ChangesTold ==
  [][/\ \A h \in Hashes : asset'[h] # asset[h] => h \in feed'
     /\ \A s \in Slots : occ'[s] # occ[s] => s \in feed']_vars

\* The merge of rows whose sizes agree leaves the catalogue as the same rows
\* sent in manifests do, whatever it was before.
MergeAgrees ==
  \A source \in Sources \ removed, rows \in Rows :
    /\ Comparable(occ, source, rows) /\ ~Relinks(source, rows)
    /\ Valid(source, rows) = Accepted(source, rows)
    => LET sent == ApplyAll([asset |-> asset, occ |-> occ], source, FALSE, rows)
       IN MergedAssets(source, rows) = sent.asset /\ MergedOccurrences(source, rows) = sent.occ
==============================================================================
