----------------------------- MODULE LayeredMap -----------------------------
(***************************************************************************)
(* What a layer over a database promises: everybody who uses the layer     *)
(* sees one map, the view.  The database below keeps its contents, the     *)
(* base, until the layer is flushed.  A flush that writes never changes    *)
(* the view; one that does not write takes it back to the base; either     *)
(* way the bucket has no layer afterwards.                                 *)
(***************************************************************************)
CONSTANTS Buckets, Keys, Entries

VARIABLES view,                 \* what is read through the layer
          base,                 \* what the database has
          layer,                \* the buckets that have a layer
          flush                 \* the flush under way: "none", "write" or "drop"

Contents == [Buckets -> [Keys -> Entries]]

Init == base \in Contents /\ view = base /\ layer = {} /\ flush = "none"

Open(b) == layer' = layer \union {b} /\ UNCHANGED <<view, base, flush>>

\* Without a layer a write goes to the database.
Put(b, k, x) ==
  /\ view' = [view EXCEPT ![b][k] = x]
  /\ base' = IF b \in layer THEN base ELSE [base EXCEPT ![b][k] = x]
  /\ UNCHANGED <<layer, flush>>

\* A flush begins, for good or to drop everything; it ends, also halfway.
Begin == flush = "none" /\ flush' \in {"write", "drop"} /\ UNCHANGED <<view, base, layer>>
End == flush' = "none" /\ UNCHANGED <<view, base, layer>>

\* One write of a flush.
Save(b, k) ==
  /\ b \in layer /\ flush = "write"
  /\ base' = [base EXCEPT ![b][k] = view[b][k]]
  /\ UNCHANGED <<view, layer, flush>>

\* The layer of a bucket ends: only if the database has all of it ...
Commit(b) ==
  /\ flush = "write" /\ view[b] = base[b]
  /\ layer' = layer \ {b}
  /\ UNCHANGED <<view, base, flush>>

\* ... or if all that the database does not have is to be dropped.
Discard(b) ==
  /\ flush = "drop"
  /\ view' = [view EXCEPT ![b] = base[b]]
  /\ layer' = layer \ {b}
  /\ UNCHANGED <<base, flush>>

\* The process ends and another one starts.
Lose == view' = base /\ layer' = {} /\ flush' = "none" /\ UNCHANGED base

Next ==
  \/ \E b \in Buckets : Open(b) \/ Commit(b) \/ Discard(b)
  \/ \E b \in Buckets, k \in Keys : Save(b, k) \/ \E x \in Entries : Put(b, k, x)
  \/ Begin \/ End \/ Lose

Spec == Init /\ [][Next]_<<view, base, layer, flush>>
=============================================================================
