--------------------------- MODULE LayerDBProofs ---------------------------
(***************************************************************************)
(* LayerDB implements LayeredMap, for every set of buckets whose internal  *)
(* keys are distinct, every set of keys and every set of values.           *)
(***************************************************************************)
EXTENDS LayerDB, TLAPS

\* A write to the database changes one key of one bucket (RealPut: internalKey
\* keeps the buckets apart), and leaves the store a store.
LEMMA RealPutOne ==
  ASSUME TypeOK, NEW b \in Buckets, NEW k \in Keys, NEW x \in Entries, RealPut(b, k, x)
  PROVE  /\ store' \in [InternalKeys -> Entries]
         /\ \A c \in Buckets, j \in Keys :
              Stored(c, j)' = IF c = b /\ j = k THEN x ELSE Stored(c, j)
         /\ Base' = [Base EXCEPT ![b][k] = x]
<1>1. \A c \in Buckets, j \in Keys : internalKey(c, j) \in InternalKeys
  BY DEF InternalKeys
<1>2. store' \in [InternalKeys -> Entries]
  BY <1>1 DEF TypeOK, RealPut
<1>3. \A c \in Buckets, j \in Keys :
        Stored(c, j)' = IF c = b /\ j = k THEN x ELSE Stored(c, j)
  BY <1>1, InternalKeysDistinct DEF TypeOK, RealPut, Stored
<1>4. Base' = [Base EXCEPT ![b][k] = x]
  BY <1>3, ZenonT(60) DEF Base
<1> QED BY <1>2, <1>3, <1>4

\* The invariant holds for a new layer, whether it is the first one or the one
\* after the process ended.
LEMMA NewLayerInv ==
  /\ Init => FlushInv
  /\ FlushInv /\ Crash => FlushInv'
<1> USE DEF FlushInv, FlushedIsThrough, TypeOK, Empty
<1>1. Init => FlushInv
  BY ZenonT(60) DEF Init
<1>2. ASSUME FlushInv, Crash PROVE FlushInv'
  <2>1. TypeOK'
    BY <1>2, ZenonT(60) DEF Crash, NewLayerDB
  <2>2. /\ opened' = {} /\ reals' = {} /\ layered' = {} /\ left' = {} /\ cur' = {} /\ rest' = {}
        /\ data' = [b \in Buckets |-> Empty] /\ write' = FALSE /\ flushing' = FALSE
    BY <1>2 DEF Crash, NewLayerDB
  <2> QED BY <2>1, <2>2
<1> QED BY <1>1, <1>2

\* Every step keeps the invariant.
LEMMA StepInv == FlushInv /\ [Next]_vars => FlushInv'
<1> SUFFICES ASSUME FlushInv, [Next]_vars PROVE FlushInv' OBVIOUS
<1> USE DEF FlushInv, FlushedIsThrough, TypeOK
<1>1. ASSUME NEW b \in Buckets, GetBucket(b) PROVE FlushInv'
  BY <1>1 DEF GetBucket, flushVars, Stored
<1>2. ASSUME NEW b \in Buckets, NEW k \in Keys, NEW x \in Entries, Put(b, k, x) PROVE FlushInv'
  <2>1. CASE b \in layered
    BY <1>2, <2>1 DEF Put, flushVars, Stored
  <2>2. CASE b \notin layered
    <3>1. RealPut(b, k, x) /\ UNCHANGED <<data, opened, layered, flushVars>> /\ b \notin cur
      BY <1>2, <2>2 DEF Put
    <3>2. /\ store' \in [InternalKeys -> Entries]
          /\ \A c \in Buckets, j \in Keys :
               Stored(c, j)' = IF c = b /\ j = k THEN x ELSE Stored(c, j)
      BY <3>1, RealPutOne
    <3> QED BY <1>2, <3>1, <3>2 DEF Put, flushVars
  <2> QED BY <2>1, <2>2
<1>3. ASSUME NEW b \in Buckets, NEW k \in Keys, NEW x \in Entries, PutReal(b, k, x) PROVE FlushInv'
  <2>1. /\ store' \in [InternalKeys -> Entries]
        /\ \A c \in Buckets, j \in Keys :
             Stored(c, j)' = IF c = b /\ j = k THEN x ELSE Stored(c, j)
    BY <1>3, RealPutOne DEF PutReal
  <2> QED BY <1>3, <2>1 DEF PutReal, flushVars
<1>4. ASSUME NEW b \in Buckets, FlushBucket(b) PROVE FlushInv'
  BY <1>4 DEF FlushBucket, Stored, Empty
<1>5. ASSUME NEW b \in Buckets, NEW k \in Keys, FlushKey(b, k) PROVE FlushInv'
  <2>1. data[b][k] \in Entries
    BY <1>5 DEF FlushKey
  <2>2. /\ store' \in [InternalKeys -> Entries]
        /\ \A c \in Buckets, j \in Keys :
             Stored(c, j)' = IF c = b /\ j = k THEN data[b][k] ELSE Stored(c, j)
    BY <1>5, <2>1, RealPutOne DEF FlushKey
  <2> QED BY <1>5, <2>2 DEF FlushKey
<1>6. ASSUME NEW b \in Buckets, FlushError(b) PROVE FlushInv'
  BY <1>6, ZenonT(60) DEF FlushError, Stored
<1>7. ASSUME NEW b \in Buckets, FlushBucketDone(b) PROVE FlushInv'
  BY <1>7 DEF FlushBucketDone, Stored, Empty
<1>8. ASSUME NEW w \in BOOLEAN, Flush(w) PROVE FlushInv'
  BY <1>8 DEF Flush, Stored
<1>9. ASSUME FlushDone PROVE FlushInv'
  BY <1>9, ZenonT(60) DEF FlushDone, Stored
<1>10. ASSUME Close PROVE FlushInv'
  BY <1>10 DEF Close, flushVars, Stored
<1>11. ASSUME Crash PROVE FlushInv'
  BY <1>11, NewLayerInv
<1>12. ASSUME UNCHANGED vars PROVE FlushInv'
  BY <1>12 DEF vars, flushVars, Stored
<1> QED
  BY <1>1, <1>2, <1>3, <1>4, <1>5, <1>6, <1>7, <1>8, <1>9, <1>10, <1>11, <1>12, ZenonT(60) DEF Next

\* The database is what it was if the store is.
LEMMA SameBase == UNCHANGED store => UNCHANGED Base
BY DEF Base, Stored

\* Every step of the layer is a step of LayeredMap, or none.
LEMMA StepRefines ==
  FlushInv /\ FlushInv' /\ [Next]_vars => [Map!Next]_<<View, Base, layered, Phase>>
<1> SUFFICES ASSUME FlushInv, FlushInv', [Next]_vars
             PROVE  [Map!Next]_<<View, Base, layered, Phase>>
  OBVIOUS
<1>0. \A b \in Buckets \ layered : View[b] = Base[b]
  BY DEF View, Base, Found
<1>1. ASSUME NEW b \in Buckets, GetBucket(b) PROVE [Map!Next]_<<View, Base, layered, Phase>>
  <2>1. UNCHANGED Base
    BY <1>1, SameBase DEF GetBucket
  <2>2. UNCHANGED View
    BY <1>1 DEF GetBucket, View, Found, Stored, FlushInv, Empty
  <2>3. layered' = layered \/ layered' = layered \union {b}
    BY <1>1 DEF GetBucket
  <2>4. UNCHANGED Phase
    BY <1>1 DEF GetBucket, Phase, flushVars
  <2> QED BY <2>1, <2>2, <2>3, <2>4 DEF Map!Next, Map!Open
<1>2. ASSUME NEW b \in Buckets, NEW k \in Keys, NEW x \in Entries, Put(b, k, x)
      PROVE  [Map!Next]_<<View, Base, layered, Phase>>
  <2>0. UNCHANGED Phase
    BY <1>2 DEF Put, Phase, flushVars
  <2>1. CASE b \in layered
    <3>1. UNCHANGED Base
      BY <1>2, <2>1, SameBase DEF Put
    <3>2. \A c \in Buckets, j \in Keys : Found(c, j)' = IF c = b /\ j = k THEN x ELSE Found(c, j)
      BY <1>2, <2>1, LayerAssumption DEF Put, Found, Stored, FlushInv, TypeOK, Entries
    <3>3. View' = [View EXCEPT ![b][k] = x]
      BY <3>2, ZenonT(60) DEF View
    <3> QED BY <1>2, <2>0, <2>1, <3>1, <3>3, ZenonT(60) DEF Put, Map!Next, Map!Put
  <2>2. CASE b \notin layered
    <3>1. RealPut(b, k, x) /\ UNCHANGED <<data, layered>>
      BY <1>2, <2>2 DEF Put
    <3>2. Base' = [Base EXCEPT ![b][k] = x]
      BY <3>1, RealPutOne DEF FlushInv
    <3>3. \A c \in Buckets, j \in Keys : Found(c, j)' = IF c = b /\ j = k THEN x ELSE Found(c, j)
      BY <2>2, <3>1, RealPutOne DEF Found, FlushInv
    <3>4. View' = [View EXCEPT ![b][k] = x]
      BY <3>3, ZenonT(60) DEF View
    <3> QED BY <2>0, <2>2, <3>1, <3>2, <3>4, ZenonT(60) DEF Map!Next, Map!Put
  <2> QED BY <2>1, <2>2
<1>3. ASSUME NEW b \in Buckets, NEW k \in Keys, NEW x \in Entries, PutReal(b, k, x)
      PROVE  [Map!Next]_<<View, Base, layered, Phase>>
  <2>1. RealPut(b, k, x) /\ UNCHANGED <<data, layered, Phase>> /\ b \notin layered
    BY <1>3 DEF PutReal, FlushInv, TypeOK, Phase, flushVars
  <2>2. Base' = [Base EXCEPT ![b][k] = x]
    BY <2>1, RealPutOne DEF FlushInv
  <2>3. \A c \in Buckets, j \in Keys : Found(c, j)' = IF c = b /\ j = k THEN x ELSE Found(c, j)
    BY <2>1, RealPutOne DEF Found, FlushInv
  <2>4. View' = [View EXCEPT ![b][k] = x]
    BY <2>3, ZenonT(60) DEF View
  <2> QED BY <2>1, <2>2, <2>4, ZenonT(60) DEF Map!Next, Map!Put
<1>4. ASSUME NEW b \in Buckets, NEW k \in Keys, FlushKey(b, k)
      PROVE  [Map!Next]_<<View, Base, layered, Phase>>
  <2>1. data[b][k] \in Entries /\ b \in layered /\ data[b][k] # NoEntry
    BY <1>4 DEF FlushKey, FlushInv, TypeOK
  <2>2. RealPut(b, k, data[b][k]) /\ UNCHANGED <<data, layered, Phase>> /\ Phase = "write"
    BY <1>4 DEF FlushKey, Phase, FlushInv
  <2>3. View[b][k] = data[b][k]
    BY <2>1 DEF View, Found
  <2>4. Base' = [Base EXCEPT ![b][k] = View[b][k]]
    BY <2>1, <2>2, <2>3, RealPutOne DEF FlushInv
  <2>5. UNCHANGED View
    BY <2>1, <2>2, RealPutOne DEF View, Found, FlushInv
  <2> QED BY <2>1, <2>2, <2>4, <2>5, ZenonT(60) DEF Map!Next, Map!Save
<1>5. ASSUME NEW b \in Buckets, FlushBucketDone(b) PROVE [Map!Next]_<<View, Base, layered, Phase>>
  <2>1. UNCHANGED <<Base, Phase>> /\ layered' = layered \ {b}
    BY <1>5, SameBase DEF FlushBucketDone, Phase
  <2>0. \A c \in Buckets, j \in Keys : Found(c, j)' = IF c = b THEN Stored(c, j) ELSE Found(c, j)
    BY <1>5 DEF FlushBucketDone, Found, Stored, FlushInv, TypeOK
  <2>2. View' = [View EXCEPT ![b] = Base[b]]
    BY <2>0, ZenonT(60) DEF View, Base
  <2>3. flushing
    BY <1>5 DEF FlushBucketDone, FlushInv
  <2>4. CASE write
    <3>1. \A k \in Keys : Found(b, k) = Stored(b, k)
      BY <1>5, <2>4 DEF FlushBucketDone, FlushInv, Found
    <3>2. View[b] = Base[b]
      BY <3>1 DEF View, Base
    <3>3. UNCHANGED View
      BY <2>2, <3>2, ZenonT(60) DEF View
    <3> QED BY <2>1, <2>3, <2>4, <3>2, <3>3 DEF Map!Next, Map!Commit, Phase
  <2>5. CASE ~write
    BY <2>1, <2>2, <2>3, <2>5, ZenonT(60) DEF Map!Next, Map!Discard, Phase
  <2> QED BY <2>4, <2>5
<1>6. ASSUME NEW b \in Buckets, FlushBucket(b) PROVE [Map!Next]_<<View, Base, layered, Phase>>
  <2>1. UNCHANGED <<Base, layered, data, store, Phase>>
    BY <1>6, SameBase DEF FlushBucket, Phase
  <2>2. UNCHANGED View
    BY <2>1 DEF View, Found, Stored
  <2> QED BY <2>1, <2>2
<1>7. ASSUME NEW b \in Buckets, FlushError(b) PROVE [Map!Next]_<<View, Base, layered, Phase>>
  <2>1. UNCHANGED <<Base, layered, data, store>> /\ Phase' = "none"
    BY <1>7, SameBase DEF FlushError, Phase
  <2>2. UNCHANGED View
    BY <2>1 DEF View, Found, Stored
  <2> QED BY <2>1, <2>2 DEF Map!Next, Map!End
<1>8. ASSUME NEW w \in BOOLEAN, Flush(w) PROVE [Map!Next]_<<View, Base, layered, Phase>>
  <2>1. UNCHANGED <<Base, layered, data, store>>
    BY <1>8, SameBase DEF Flush
  <2>2. UNCHANGED View
    BY <2>1 DEF View, Found, Stored
  <2>3. Phase = "none" /\ Phase' \in {"write", "drop"}
    BY <1>8 DEF Flush, Phase
  <2> QED BY <2>1, <2>2, <2>3 DEF Map!Next, Map!Begin
<1>9. ASSUME FlushDone PROVE [Map!Next]_<<View, Base, layered, Phase>>
  <2>1. UNCHANGED <<Base, layered, data, store>> /\ Phase' = "none"
    BY <1>9, SameBase DEF FlushDone, Phase
  <2>2. UNCHANGED View
    BY <2>1 DEF View, Found, Stored
  <2> QED BY <2>1, <2>2 DEF Map!Next, Map!End
<1>10. ASSUME Crash PROVE [Map!Next]_<<View, Base, layered, Phase>>
  <2>1. UNCHANGED <<Base, store>> /\ layered' = {} /\ Phase' = "none"
    BY <1>10, SameBase DEF Crash, NewLayerDB, Phase
  <2>2. View' = Base
    BY <2>1 DEF View, Found, Base, Stored
  <2> QED BY <2>1, <2>2 DEF Map!Next, Map!Lose
<1>11. ASSUME Close \/ UNCHANGED vars PROVE [Map!Next]_<<View, Base, layered, Phase>>
  <2>1. UNCHANGED <<Base, layered, data, store, Phase>>
    BY <1>11, SameBase DEF Close, vars, flushVars, Phase
  <2>2. UNCHANGED View
    BY <2>1 DEF View, Found, Stored
  <2> QED BY <2>1, <2>2
<1> QED
  BY <1>1, <1>2, <1>3, <1>4, <1>5, <1>6, <1>7, <1>8, <1>9, <1>10, <1>11 DEF Next

\* The invariant holds at all times.
THEOREM Invariant == Spec => []FlushInv
<1>1. Init => FlushInv
  BY NewLayerInv
<1>2. FlushInv /\ [Next]_vars => FlushInv'
  BY StepInv
<1> QED BY <1>1, <1>2, PTL DEF Spec

\* After Flush has returned nil nothing is kept in memory (GetBucket gives the
\* bucket of the database to those who come later).
THEOREM Through == Spec => []FlushedIsThrough
<1>1. FlushInv => FlushedIsThrough
  BY DEF FlushInv
<1> QED BY <1>1, Invariant, PTL

\* The layer implements LayeredMap, with writes by other goroutines during a
\* flush, with errors and crashes at any point of it.
THEOREM Refinement == Spec => RefinesMap
<1>1. Init => Map!Init
  <2> SUFFICES ASSUME Init PROVE Map!Init OBVIOUS
  <2>1. \A b \in Buckets, k \in Keys : Stored(b, k) \in Entries /\ Found(b, k) = Stored(b, k)
    BY DEF Init, Stored, Found, InternalKeys
  <2> QED BY <2>1 DEF Init, Map!Init, Map!Contents, View, Base, Phase
<1>2. FlushInv /\ FlushInv' /\ [Next]_vars => [Map!Next]_<<View, Base, layered, Phase>>
  BY StepRefines
<1> QED BY <1>1, <1>2, Invariant, PTL DEF Spec, RefinesMap, Map!Spec
=============================================================================
