-------------------------------- MODULE World --------------------------------
(***************************************************************************)
(* The blocks of a map and the dropped items, as the handlers of blocks see *)
(* them (map.cpp, blocks/basic.cpp, blocks/default.cpp).  A world is a      *)
(* record, and a handler an operator from worlds to worlds, so that the     *)
(* calls of a handler compose in the order of the code.  The cells of a     *)
(* world are a room in solid rock, away from the heights 0 and 255: reading *)
(* its walls gives stone, and nothing is kept that is written there.        *)
(***************************************************************************)
EXTENDS Integers, FiniteSets, Sequences, FiniteSetsExt, SequencesExt

\* The directions of a face of a block, with their numbers.
BOTTOM == 0
NORTH == 1
SOUTH == 2
EAST == 3
WEST == 4
TOP == 5

Shift(p, x, y, z) == <<p[1] + x, p[2] + y, p[3] + z>>
Abs(n) == IF n < 0 THEN -n ELSE n

Above(p) == Shift(p, 0, 1, 0)
Below(p) == Shift(p, 0, -1, 0)

\* The cell a placed block goes to.
Moved(p, dir) ==
    CASE dir = SOUTH -> Shift(p, -1, 0, 0)
      [] dir = NORTH -> Shift(p, 1, 0, 0)
      [] dir = EAST -> Shift(p, 0, 0, 1)
      [] dir = WEST -> Shift(p, 0, 0, -1)
      [] dir = TOP -> Above(p)
      [] dir = BOTTOM -> Below(p)

\* The neighbours in the order in which they are told, each with the direction
\* it is told.
Neighbours(p) ==
    <<[at |-> Shift(p, 1, 0, 0), dir |-> SOUTH], [at |-> Shift(p, -1, 0, 0), dir |-> NORTH],
      [at |-> Above(p), dir |-> TOP], [at |-> Below(p), dir |-> BOTTOM],
      [at |-> Shift(p, 0, 0, 1), dir |-> WEST], [at |-> Shift(p, 0, 0, -1), dir |-> EAST]>>

-----------------------------------------------------------------------------
(* Reading and writing *)

\* kind and meta: blocks and metadata; shown: what the players around were
\* told; items: kind, number and place of dropped items; falls, flows, sparks,
\* growing and saplings: what the physics, the redstone and the plants have to
\* look at; decaying: leaves that will go.
Room(kinds, metas) ==
    [kind |-> kinds, meta |-> metas,
     shown |-> [p \in DOMAIN kinds |-> <<kinds[p], metas[p]>>], items |-> {},
     falls |-> <<>>, flows |-> <<>>, sparks |-> {}, decaying |-> {},
     growing |-> <<>>, saplings |-> <<>>]

Cells(w) == DOMAIN w.kind
KindAt(w, p) == IF p \in Cells(w) THEN w.kind[p] ELSE "stone"
MetaAt(w, p) == IF p \in Cells(w) THEN w.meta[p] ELSE 0

\* The cell whose metadata shares the byte, in the high bits.
Sharing(w, p) == IF p[1] % 2 = 0 THEN {Shift(p, 1, 0, 0)} \intersect Cells(w) ELSE {}

WithLowBit(m) == IF m % 2 = 0 THEN m + 1 ELSE m

\* metadata |= meta is not masked: bit 4 goes over to the other half of the byte.
WithMeta(w, p, m) ==
    [c \in Cells(w) |->
        IF c = p THEN m % 16
        ELSE IF c \in Sharing(w, p) /\ m >= 16 THEN WithLowBit(w.meta[c])
        ELSE w.meta[c]]

\* The lowest cell with air that a thing in p falls to.
RECURSIVE Fallen(_, _)
Fallen(w, p) == IF KindAt(w, Below(p)) = "air" THEN Fallen(w, Below(p)) ELSE p

\* Items on top of a block that goes away fall.
SetBlock(w, p, k, m) ==
    IF p \notin Cells(w) THEN w
    ELSE LET set == [w EXCEPT !.kind[p] = k, !.meta = WithMeta(w, p, m)]
         IN  IF k # "air" THEN set
             ELSE [set EXCEPT !.items =
                      {IF i.at = Above(p) THEN [i EXCEPT !.at = Fallen(set, p)] ELSE i : i \in @}]

SendBlockChange(w, p, k, m) ==
    IF p \in Cells(w) THEN [w EXCEPT !.shown[p] = <<k, m>>] ELSE w

Change(w, p, k, m) == SendBlockChange(SetBlock(w, p, k, m), p, k, m)
Clear(w, p) == Change(w, p, "air", 0)

CreatePickupSpawn(w, p, k, n) ==
    [w EXCEPT !.items = @ \union
        {[eid |-> Cardinality(@) + 1, kind |-> k, count |-> n,
          at |-> IF KindAt(w, p) = "air" THEN Fallen(w, p) ELSE p]}]

\* Physics::addSimulation: liquids whose flow is to be looked at, each once.
Liquids == {"water", "lava"}
AddSimulation(w, p) ==
    IF KindAt(w, p) \in Liquids /\ \A i \in DOMAIN w.flows : w.flows[i] # p
    THEN [w EXCEPT !.flows = Append(@, p)] ELSE w

\* Liquids around the clicked block start to flow.
CheckSurrounding(w, p) ==
    FoldLeft(AddSimulation, w,
        <<Above(p), Shift(p, 1, 0, 0), Shift(p, -1, 0, 0), Shift(p, 0, 0, 1), Shift(p, 0, 0, -1), Below(p)>>)

-----------------------------------------------------------------------------
(* What the handlers share *)

NotStackable ==
    {"workbench", "chest", "torch", "redtorchoff", "redtorchon", "wire", "water", "lava",
     "air", "tracks", "door", "ice", "cake", "bed", "lever", "button"}
IsBlockStackable(k) == k \notin NotStackable

IsBlockEmpty(w, p) == KindAt(w, p) \in {"air", "water", "lava", "snow"}

TranslateDirection(w, p, dir) == IF KindAt(w, p) = "snow" THEN p ELSE Moved(p, dir)

\* What a broken block drops (BLOCKDROPS).  A kind without an entry is looked up
\* all the same, and the call goes to a null object: it drops nothing, where it
\* does not crash.
DropOf(k) ==
    CASE k = "stone" -> [kind |-> "cobblestone", count |-> 1]
      [] k = "grass" -> [kind |-> "dirt", count |-> 1]
      [] k = "stairs" -> [kind |-> "plank", count |-> 1]
      [] k = "snow" -> [kind |-> "snowball", count |-> 1]
      [] k = "double" -> [kind |-> "step", count |-> 2]
      [] k = "leaves" -> [kind |-> "sapling", count |-> 1]
      [] k = "burning" -> [kind |-> "furnace", count |-> 1]
      [] k \in {"redtorchoff", "redtorchon"} -> [kind |-> "redtorchon", count |-> 1]
      [] k \in {"tnt", "glass", "fire", "cake", "air", "ice", "note", "button"} ->
            [kind |-> "air", count |-> 0]
      [] OTHER -> [kind |-> k, count |-> 1]

\* Faulty: twice.
SpawnBlockItemTwice(w, p, k) ==
    IF DropOf(k).count = 0 THEN w
    ELSE CreatePickupSpawn(w, p, DropOf(k).kind, 2 * DropOf(k).count)

SpawnBlockItem(w, p, k) ==
    IF DropOf(k).count = 0 THEN w ELSE CreatePickupSpawn(w, p, DropOf(k).kind, DropOf(k).count)

\* Air, first for the players and then in the map, and the item.
ClearAndDrop(w, p) == SpawnBlockItem(Clear(w, p), p, KindAt(w, p))

\* Each neighbour that is no air at its turn is told.
Notified(w, p, Tell(_, _, _)) ==
    FoldLeft(LAMBDA v, n : IF KindAt(v, n.at) = "air" THEN v ELSE Tell(v, n.at, n.dir),
             w, Neighbours(p))
=============================================================================
