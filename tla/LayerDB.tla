------------------------------ MODULE LayerDB ------------------------------
(***************************************************************************)
(* common/db/layer_db.go over common/db/go_level_db.go: a layer that keeps *)
(* writes in memory until Flush.  Goroutines share the layer and the       *)
(* buckets they got from it; Flush holds the lock of the layer, and the    *)
(* lock of one bucket at a time, so writes to the other buckets go on      *)
(* while it runs.  A write to the database may fail, and the process may   *)
(* end, at any point of it.                                                *)
(***************************************************************************)
EXTENDS Sequences

CONSTANTS Buckets,              \* bucket ids, as sequences of bytes
          Keys,                 \* keys, as sequences of bytes
          Values,               \* what is stored
          Nil,                  \* a nil []byte: nothing stored, or deleted
          NoEntry               \* no entry in the map bk.data

\* internalKey returns key prefixed with the bucket's id.
internalKey(id, key) == id \o key

ASSUME LayerAssumption == Nil \notin Values /\ NoEntry \notin Values \union {Nil}
\* Ids of one length, as the ids "S", "T", "H", "C" and "L" are, do not collide.
ASSUME InternalKeysDistinct ==
  \A b, c \in Buckets : \A k, j \in Keys : internalKey(b, k) = internalKey(c, j) => b = c /\ k = j

Entries == Values \union {Nil}
InternalKeys == {internalKey(b, k) : b \in Buckets, k \in Keys}

VARIABLES store,                \* the contents of LevelDB
          closed,               \* GoLevelDB.db is nil
          opened,               \* the ids of ldb.buckets
          reals,                \* buckets of the database given out by GetBucket
          layered,              \* the ids of buckets whose data is not nil
          data,                 \* bk.data of these
          flushed,              \* ldb.flushed
          flushing,             \* a Flush is under way: ldb.lock is held
          write,                \* its parameter
          left,                 \* the buckets its loop has still to visit
          cur,                  \* the bucket it is at, whose lock is held
          rest                  \* the keys of it that are still to be written

flushVars == <<flushing, write, left, cur, rest>>
vars == <<store, closed, opened, reals, layered, data, flushed, flushVars>>

Empty == [k \in Keys |-> NoEntry]

TypeOK ==
  /\ store \in [InternalKeys -> Entries]
  /\ closed \in BOOLEAN /\ flushed \in BOOLEAN /\ flushing \in BOOLEAN /\ write \in BOOLEAN
  /\ opened \subseteq Buckets /\ reals \subseteq Buckets /\ layered \subseteq opened
  /\ data \in [Buckets -> [Keys -> Entries \union {NoEntry}]]
  /\ left \subseteq Buckets /\ rest \subseteq Keys
  /\ cur = {} \/ \E b \in Buckets : cur = {b}

\* NewLayerDB over a database with any contents.
NewLayerDB ==
  /\ closed' = FALSE /\ opened' = {} /\ reals' = {} /\ layered' = {}
  /\ data' = [b \in Buckets |-> Empty]
  /\ flushed' = FALSE /\ flushing' = FALSE /\ write' = FALSE
  /\ left' = {} /\ cur' = {} /\ rest' = {}

Init ==
  /\ store \in [InternalKeys -> Entries]
  /\ closed = FALSE /\ opened = {} /\ reals = {} /\ layered = {}
  /\ data = [b \in Buckets |-> Empty]
  /\ flushed = FALSE /\ flushing = FALSE /\ write = FALSE
  /\ left = {} /\ cur = {} /\ rest = {}

-----------------------------------------------------------------------------
\* What the database holds: Get of one of its buckets returns it while the
\* database is open, and an error once it is closed.
Stored(b, k) == store[internalKey(b, k)]

\* Set and Delete of a bucket of the database.
RealPut(b, k, x) ==
  /\ ~closed
  /\ store' = [store EXCEPT ![internalKey(b, k)] = x]

\* What layerBucket.Get finds, first in the layer and then in the database; Has
\* says whether it is not Nil.  On a closed database only the layer still answers.
Found(b, k) == IF b \in layered /\ data[b][k] # NoEntry THEN data[b][k] ELSE Stored(b, k)

\* GetBucket of an id that is not yet in ldb.buckets.
GetBucket(b) ==
  /\ ~flushing /\ ~closed /\ b \notin opened \union reals
  /\ IF flushed
     THEN reals' = reals \union {b} /\ UNCHANGED <<opened, layered>>
     ELSE opened' = opened \union {b} /\ layered' = layered \union {b} /\ UNCHANGED reals
  /\ UNCHANGED <<store, closed, data, flushed, flushVars>>

\* Mutant: the lock of the bucket is not taken.
PutUnlocked(b, k, x) ==
  /\ b \in opened
  /\ IF b \in layered
     THEN data' = [data EXCEPT ![b][k] = x] /\ UNCHANGED store
     ELSE RealPut(b, k, x) /\ UNCHANGED data
  /\ UNCHANGED <<closed, opened, reals, layered, flushed, flushVars>>

\* layerBucket.Set, and Delete for Nil.
Put(b, k, x) ==
  /\ b \in opened \ cur
  /\ IF b \in layered
     THEN data' = [data EXCEPT ![b][k] = x] /\ UNCHANGED store
     ELSE RealPut(b, k, x) /\ UNCHANGED data
  /\ UNCHANGED <<closed, opened, reals, layered, flushed, flushVars>>

\* The same by a bucket that GetBucket gave after the flush.
PutReal(b, k, x) ==
  /\ b \in reals
  /\ RealPut(b, k, x)
  /\ UNCHANGED <<closed, opened, reals, layered, data, flushed, flushVars>>

\* GoLevelDB.Close; layerDB.Close does nothing.
Close ==
  /\ ~closed
  /\ closed' = TRUE
  /\ UNCHANGED <<store, opened, reals, layered, data, flushed, flushVars>>

-----------------------------------------------------------------------------
\* layerDB.Flush begins.
Flush(w) ==
  /\ ~flushing
  /\ flushing' = TRUE /\ write' = w /\ left' = opened
  /\ UNCHANGED <<store, closed, opened, reals, layered, data, flushed, cur, rest>>

\* layerBucket.Flush begins for one of the buckets, in the order of a Go map.
FlushBucket(b) ==
  /\ flushing /\ cur = {} /\ b \in left
  /\ cur' = {b} /\ left' = left \ {b}
  /\ rest' = IF write /\ b \in layered THEN {k \in Keys : data[b][k] # NoEntry} ELSE {}
  /\ UNCHANGED <<store, closed, opened, reals, layered, data, flushed, flushing, write>>

\* One Set or Delete of it.
FlushKey(b, k) ==
  /\ cur = {b} /\ k \in rest
  /\ RealPut(b, k, data[b][k])
  /\ rest' = rest \ {k}
  /\ UNCHANGED <<closed, opened, reals, layered, data, flushed, flushing, write, left, cur>>

\* Mutant: the entries are given up although they have not been written.
FlushErrorDrops(b) ==
  /\ cur = {b} /\ rest # {}
  /\ flushing' = FALSE /\ left' = {} /\ cur' = {} /\ rest' = {}
  /\ layered' = layered \ {b} /\ data' = [data EXCEPT ![b] = Empty]
  /\ UNCHANGED <<store, closed, opened, reals, flushed, write>>

\* It fails, and both Flush return the error: bk.data is kept.
FlushError(b) ==
  /\ cur = {b} /\ rest # {}
  /\ flushing' = FALSE /\ left' = {} /\ cur' = {} /\ rest' = {}
  /\ UNCHANGED <<store, closed, opened, reals, layered, data, flushed, write>>

\* layerBucket.Flush ends.
FlushBucketDone(b) ==
  /\ cur = {b} /\ rest = {}
  /\ layered' = layered \ {b}
  /\ data' = [data EXCEPT ![b] = Empty]
  /\ cur' = {}
  /\ UNCHANGED <<store, closed, opened, reals, flushed, flushing, write, left, rest>>

\* layerDB.Flush ends.
FlushDone ==
  /\ flushing /\ cur = {} /\ left = {}
  /\ flushing' = FALSE /\ flushed' = TRUE
  /\ UNCHANGED <<store, closed, opened, reals, layered, data, write, left, cur, rest>>

\* The process ends, and the next one makes a new layer over the database.
Crash == NewLayerDB /\ UNCHANGED store

Next ==
  \/ \E b \in Buckets :
       \/ GetBucket(b)
       \/ \E k \in Keys, x \in Entries : Put(b, k, x) \/ PutReal(b, k, x)
       \/ FlushBucket(b)
       \/ \E k \in Keys : FlushKey(b, k)
       \/ FlushError(b) \/ FlushBucketDone(b)
  \/ \E w \in BOOLEAN : Flush(w)
  \/ FlushDone \/ Close \/ Crash

Spec == Init /\ [][Next]_vars

-----------------------------------------------------------------------------
View == [b \in Buckets |-> [k \in Keys |-> Found(b, k)]]
Base == [b \in Buckets |-> [k \in Keys |-> Stored(b, k)]]

Phase == IF flushing THEN IF write THEN "write" ELSE "drop" ELSE "none"

Map == INSTANCE LayeredMap WITH view <- View, base <- Base, layer <- layered, flush <- Phase

\* The layer implements LayeredMap, whatever is written to other buckets while
\* it is flushed and wherever a flush fails or the process ends: a flush that
\* writes, and one that failed, changes nothing anybody reads, and a bucket
\* loses its layer only when the database has all of it.
RefinesMap == Map!Spec

\* After a Flush has returned nil no write stays in memory, also not in buckets
\* that are asked for later.
FlushedIsThrough == flushed => layered = {}

\* What makes them inductive: a bucket that is being written has in the database
\* what is no longer in rest, and nobody else writes to it there.
FlushInv ==
  /\ TypeOK
  /\ FlushedIsThrough
  /\ opened \intersect reals = {}
  /\ reals # {} => flushed
  /\ flushing => flushed \/ layered \subseteq left \union cur
  /\ ~flushing => cur = {} /\ left = {}
  /\ left \union cur \subseteq opened
  /\ \A b \in Buckets \ layered : data[b] = Empty
  /\ rest # {} => write /\ cur # {} /\ cur \subseteq layered
  /\ \A b \in cur : \A k \in rest : data[b][k] # NoEntry
  /\ write => \A b \in cur : \A k \in Keys \ rest :
                data[b][k] # NoEntry => Stored(b, k) = data[b][k]
=============================================================================
