------------------------------- MODULE MCStore -------------------------------
(***************************************************************************)
(* The persistence of the server: region files, chunks in memory and the   *)
(* NBT trees they are exchanged in.  `which` chooses the component a       *)
(* behaviour is about; the others rest, so that the states add up.         *)
(***************************************************************************)
EXTENDS RegionFile, ChunkStore, Nbt

VARIABLES which, doc, cut      \* a tree to be written, the bytes to be read
nbtVars == <<doc, cut>>

Leaves ==
    {Simple(t, 1) : t \in {1, 4}} \union {Flat(TEXT, s) : s \in {<<>>, <<5>>}}
    \union {Flat(t, <<1, 2>>) : t \in {BYTE_ARRAY, INT_ARRAY}}

Inner ==
    Leaves
    \union {ListOf(1, s) : s \in {<<>>, <<Simple(1, 2), Simple(1, 3)>>}}
    \union {Compound(<<>>), Compound(<<[key |-> <<1>>, val |-> Simple(2, 1)]>>)}

Nodes ==
    Inner \union {ListOf(COMPOUND, <<Compound(<<[key |-> <<1>>, val |-> v]>>)>>)
                     : v \in Inner}

Docs ==
    {Compound(<<>>)}
    \union {Compound(<<[key |-> <<>>, val |-> v]>>) : v \in Nodes}
    \union {Compound(<<[key |-> <<1>>, val |-> v], [key |-> <<1, 1>>, val |-> w]>>)
               : v \in Inner, w \in Nodes}

\* A number is put into the tree, or the buffer is cut off.
NbtNext ==
    \/ \E k \in {<<>>, <<1>>}, t \in {1, 3} :
          /\ cut = 0 /\ Len(doc.entries) < 3
          /\ doc' = Insert(doc, k, Assigned(t, 7))
          /\ UNCHANGED cut
    \/ cut = 0 /\ cut' \in 1..Len(Write(doc)) /\ UNCHANGED doc
    \/ cut > 0 /\ cut' = 0 /\ UNCHANGED doc

StoreMCInit ==
    /\ RegionInit /\ StoreInit
    /\ \/ which \in {"region", "store"} /\ doc = Compound(<<>>)
       \/ which = "nbt" /\ doc \in Docs
    /\ cut = 0

StoreMCNext ==
    /\ UNCHANGED which
    /\ \/ which = "region" /\ RegionNext /\ UNCHANGED <<storeVars, nbtVars>>
       \/ which = "store" /\ StoreNext /\ UNCHANGED <<regionVars, nbtVars>>
       \/ which = "nbt" /\ NbtNext /\ UNCHANGED <<regionVars, storeVars>>

StoreMCSpec == StoreMCInit /\ [][StoreMCNext]_<<which, regionVars, storeVars, nbtVars>>

RECURSIVE HasIntArray(_)
HasIntArray(v) ==
    \/ v.tag = INT_ARRAY
    \/ v.tag = LIST /\ \E i \in DOMAIN v.items : HasIntArray(v.items[i])
    \/ v.tag = COMPOUND /\ \E i \in DOMAIN v.entries : HasIntArray(v.entries[i].val)

\* What Write wrote the reading constructor reads back, whole and no more: a
\* buffer that is cut off anywhere is not read beyond its end (int arrays count
\* their bytes wrong, nbt.cpp:187, and are left out of this part).  A number
\* comes out of the conversion to its own type, and as 0 out of any other.
RoundTrip ==
    LET back == Parsed(Serialized(doc), 0) IN
    /\ back = doc
    /\ \A i \in DOMAIN doc.entries : doc.entries[i].val.tag \in SIMPLE =>
          \A t \in SIMPLE :
              NumberOf(t, ValueAt(back, doc.entries[i].key)) =
                  IF t = doc.entries[i].val.tag THEN doc.entries[i].val.num ELSE 0
    /\ cut > 0 /\ ~HasIntArray(doc) =>
          LET left == Len(Write(doc)) - cut
          IN  ReadValue(COMPOUND, Write(doc), 0, left).at <= left

=============================================================================
