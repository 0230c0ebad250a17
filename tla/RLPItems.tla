------------------------------ MODULE RLPItems ------------------------------
(* Byte strings as trees of items, read with the reader of RLP and written   *)
(* with its writer: the reference for what the codec reads and writes.       *)
EXTENDS RLP

\* Items of a reader up to the end of its list, as trees, and how the writer
\* writes them.
Item(t, v) == [t |-> t, v |-> v]

RECURSIVE Items(_)
Items(r) ==
  LET rest(item, q) == Then(Items(q), LAMBDA a : Answer(<<item>> \o a.v, a.r))
      list == Then(readList(r), LAMBDA l : Then(Items(l.r), LAMBDA in :
                Then(CloseList(in.r), LAMBDA c : rest(Item("list", in.v), c.r))))
  IN  Once(readBytes(r), LAMBDA b :
        CASE b.err = "EOF" -> Answer(<<>>, r)
          [] b.err = ""    -> rest(Item("bytes", b.v), b.r)
          [] b.err = "nil" -> rest(Item("null", <<>>), b.r)
          [] OTHER         -> list)

RECURSIVE WriteItems(_)
WriteItems(items) ==
  FlattenSeq([i \in DOMAIN items |->
    CASE items[i].t = "bytes" -> writeBytes(items[i].v)
      [] items[i].t = "null"  -> nullSequence
      [] items[i].t = "list"  -> writeList(WriteItems(items[i].v))])
=============================================================================
