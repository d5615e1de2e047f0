-------------------------------- MODULE Plants --------------------------------
(***************************************************************************)
(* Things that grow: grass, crops, cacti and reeds, which a timer looks at  *)
(* in the list growingPlants (blocks/plant.cpp), and saplings, which become *)
(* trees (map.cpp checkGenTrees, tree.cpp).  The list of saplings is kept   *)
(* in level.dat; the list of growing plants is not kept at all.             *)
(***************************************************************************)
EXTENDS World

CONSTANTS
    Gardens,       \* what there is at first: kinds, a function from Cells, and
                   \* held, the set of things the player plants or uses
    Dark,          \* cells without light enough to grow
    Rate,          \* ticks of a kind between two steps of growth
    MaxHeight,     \* of a cactus and of a reed (mapgen.cactusmax, mapgen.reedmax)
    TreeSpace, TrunkMin, TrunkMax,   \* MIN_TREE_SPACE, MIN_TRUNK, MAX_TRUNK
    CanopySize,    \* radius of the leaves around a branch
    MaxUses        \* plantings, diggings, saves and restarts (bound)

ASSUME PlantsAssumption ==
    /\ {TreeSpace, TrunkMin, TrunkMax, CanopySize, MaxUses, MaxHeight} \subseteq Nat
    /\ TrunkMin <= TrunkMax

\* garden: the world; sack: the things to plant; disk: the blocks and saplings as they are on the disk.
VARIABLES garden, disk, sack, uses
plantVars == <<garden, disk, sack, uses>>

IsPlant(k) == k \in {"crops", "cactus", "flower", "reed", "sapling", "mushroom"}
Soils == {"dirt", "grass"}
Grows == Soils \union {"crops", "reed", "cactus"}
MaxCount == CHOOSE n \in {Rate[k] : k \in DOMAIN Rate} : \A k \in DOMAIN Rate : Rate[k] <= n

PlantsStart(g) ==
    /\ garden = Room(g.kinds, [p \in DOMAIN g.kinds |-> 0])
    /\ disk = [kind |-> g.kinds, meta |-> [p \in DOMAIN g.kinds |-> 0], saplings |-> <<>>]
    /\ sack = g.held
    /\ uses = 0
PlantsInit == \E g \in Gardens : PlantsStart(g)

-----------------------------------------------------------------------------
(* The list *)

Places(w) == {w.growing[i].at : i \in DOMAIN w.growing}

AddBlock(w, p) ==
    IF KindAt(w, p) \in Grows /\ p \notin Places(w)
    THEN [w EXCEPT !.growing = Append(@, [at |-> p, count |-> 0])] ELSE w

RemBlock(w, p) == [w EXCEPT !.growing = SelectSeq(@, LAMBDA e : e.at # p)]

\* The six neighbours and those across an edge, in the order of the code.
Nearby(p) ==
    LET steps == <<<<-1,0,0>>, <<1,0,0>>, <<0,-1,0>>, <<0,1,0>>, <<0,0,-1>>, <<0,0,1>>,
                   <<-1,0,-1>>, <<-1,0,1>>, <<1,0,-1>>, <<1,0,1>>, <<1,1,0>>, <<-1,1,0>>,
                   <<0,1,1>>, <<0,1,-1>>, <<1,-1,0>>, <<-1,-1,0>>, <<0,-1,1>>, <<0,-1,-1>>>>
    IN  [i \in 1..18 |-> Shift(p, steps[i][1], steps[i][2], steps[i][3])]

AddBlocks(w, p) ==
    LET listed == Places(w)
        new == SelectSeq(Nearby(p), LAMBDA q : KindAt(w, q) \in Grows /\ q \notin listed)
    IN  [w EXCEPT !.growing = @ \o [i \in DOMAIN new |-> [at |-> new[i], count |-> 0]]]

\* What a plant drops.
Harvest(w, p) ==
    CASE KindAt(w, p) = "crops" ->
            CreatePickupSpawn(w, Above(p), IF MetaAt(w, p) = 7 THEN "wheat" ELSE "seeds", 1)
      [] KindAt(w, p) = "reed" -> CreatePickupSpawn(w, Above(p), "reeditem", 1)
      [] OTHER -> SpawnBlockItem(w, p, KindAt(w, p))

\* onBroken: the plant, and the plants on top of it.
RECURSIVE PlantBroken(_, _)
PlantBroken(w, p) ==
    LET cleared == RemBlock(Clear(w, p), p)
        dropped == [Harvest(w, p) EXCEPT !.kind = cleared.kind, !.meta = cleared.meta,
                        !.shown = cleared.shown, !.growing = cleared.growing]
    IN  IF p \in Cells(w) /\ IsPlant(KindAt(dropped, Above(p)))
        THEN PlantBroken(dropped, Above(p)) ELSE dropped

-----------------------------------------------------------------------------
(* timer200 *)

Transparent ==
    {"air", "sapling", "leaves", "glass", "mushroom", "flower", "torch", "fire", "door",
     "ladder", "snow"}

GrassTurn(w, p) ==
    LET open == KindAt(w, Above(p)) \in Transparent
        to == IF open /\ KindAt(w, p) = "dirt" /\ p \notin Dark THEN "grass"
              ELSE IF ~open THEN "dirt" ELSE KindAt(w, p)
    IN  RemBlock(IF to = KindAt(w, p) THEN w ELSE AddBlocks(Change(w, p, to, 0), p), p)

ZeroCount(w, p) ==
    [w EXCEPT !.growing = [i \in DOMAIN @ |-> IF @[i].at = p THEN [@[i] EXCEPT !.count = 0] ELSE @[i]]]

\* Faulty: no longer looked at after its first growth.
CropsTurnOnce(w, p) ==
    IF p \in Dark THEN ZeroCount(w, p)
    ELSE IF MetaAt(w, p) < 7 THEN RemBlock(Change(w, p, "crops", MetaAt(w, p) + 1), p)
    ELSE RemBlock(w, p)

CropsTurn(w, p) ==
    IF p \in Dark THEN ZeroCount(w, p)
    ELSE IF MetaAt(w, p) < 7 THEN Change(ZeroCount(w, p), p, "crops", MetaAt(w, p) + 1)
    ELSE RemBlock(w, p)

\* How far down a column is looked for what it stands on.
Depths(w, p, k) == 0..(MaxHeight - 1)

\* A cactus or a reed: it grows if what it stands on is near, and breaks if
\* something else is.
ColumnTurn(w, p, k, soils) ==
    LET Down(i) == KindAt(w, Shift(p, 0, -i, 0))
        odd == {i \in Depths(w, p, k) : Down(i) # k}
        first == Min(odd)
    IN  IF KindAt(w, Above(p)) # "air" THEN RemBlock(w, p)
        ELSE IF odd = {} THEN ZeroCount(w, p)
        ELSE IF Down(first) \in soils
             THEN AddBlocks(Change(ZeroCount(w, p), Above(p), k, 0), p)
             ELSE PlantBroken(w, p)

\* One entry of the list; a count stops at MaxCount + 1 where the code counts on.
Visited(w, e) ==
    LET p == e.at
        k == KindAt(w, p)
        kind == IF k = "grass" THEN "dirt" ELSE k
        counted == [w EXCEPT !.growing =
                       [i \in DOMAIN @ |-> IF @[i].at # p THEN @[i]
                            ELSE [@[i] EXCEPT !.count = IF @ <= MaxCount THEN @ + 1 ELSE @]]]
    IN  IF kind \notin DOMAIN Rate \/ e.count + 1 <= Rate[kind] THEN counted
        ELSE CASE kind = "dirt" -> GrassTurn(counted, p)
               [] kind = "crops" -> CropsTurn(counted, p)
               [] kind = "cactus" -> ColumnTurn(counted, p, "cactus", {"sand"})
               [] kind = "reed" -> ColumnTurn(counted, p, "reed", Soils)

\* From the last entry to the first; what is added on the way is not visited.
PlantTimer200 ==
    /\ garden.growing # <<>>
    /\ garden' = FoldRight(LAMBDA e, w : Visited(w, e), garden.growing, garden)
    /\ UNCHANGED <<disk, sack, uses>>

-----------------------------------------------------------------------------
(* Planting and digging *)

Planted(w, p, k) == Change(w, p, k, 0)

AddSapling(w, p) == [w EXCEPT !.saplings = Append(@, p)]

\* onPlace for item k at the cell `at`; {} stands for "refused".  The hoe is not
\* used up, and one seed in ten is found.
PlantPlaced(w, at, k, seed, stands) ==
    LET under == KindAt(w, Below(at))
        ground == k \in Soils
    IN  IF IF ground THEN stands
           ELSE IsBlockEmpty(w, Below(at)) \/ ~IsBlockEmpty(w, at) \/ ~IsBlockStackable(under)
        THEN {}
        ELSE CASE k = "reeditem" /\ under \in Soils -> {AddBlock(Planted(w, at, "reed"), at)}
               [] k = "cactus" /\ under # "sand" -> {}
               [] k = "flower" /\ under \notin Soils -> {}
               [] k = "seeds" ->
                     IF under = "soil" THEN {AddBlock(Planted(w, at, "crops"), at)} ELSE {}
               [] k = "hoe" /\ under \in Soils ->
                     {LET soil == Change(w, Below(at), "soil", 0)
                      IN  IF seed THEN CreatePickupSpawn(soil, Above(at), "seeds", 1) ELSE soil}
               [] k \in {"hoe", "reeditem"} -> {}
               [] k = "mushroom" /\ under # "dirt" -> {}
               [] OTHER -> {AddBlocks(Planted(IF k = "sapling" THEN AddSapling(w, at) ELSE w,
                                              at, k), at)}

\* onNeighbourPlace: of the neighbours of the block that was clicked.
PlantsNotified(w, p) == Notified(w, p, LAMBDA v, q, dir : AddBlocks(v, q))

Plant(p, dir, k, seed, stands) ==
    LET at == TranslateDirection(garden, p, dir) IN
    /\ uses < MaxUses /\ uses' = uses + 1
    /\ KindAt(garden, p) # "air" /\ at \in Cells(garden)
    /\ \E w \in PlantPlaced(garden, at, k, seed, stands) :
          garden' = IF k = "hoe" THEN w ELSE PlantsNotified(w, p)
    /\ UNCHANGED <<disk, sack>>

\* Digging; other blocks are broken by their own handlers.
DigPlant(p) ==
    /\ uses < MaxUses /\ uses' = uses + 1
    /\ KindAt(garden, p) \notin {"air", "stone"}
    /\ garden' = IF IsPlant(KindAt(garden, p)) \/ KindAt(garden, p) \in Soils \union {"soil"}
                 THEN PlantBroken(garden, p) ELSE ClearAndDrop(garden, p)
    /\ UNCHANGED <<disk, sack>>

-----------------------------------------------------------------------------
(* Trees *)

\* Free cells above the sapling, as checkGenTrees counts them.
RoomAbove(w, p) ==
    LET taken == {i \in 1..(TrunkMax - 1) : KindAt(w, Shift(p, 0, i, 0)) # "air"}
    IN  IF taken = {} THEN TrunkMax ELSE Min(taken)

\* The places of the logs: a trunk, and perhaps a branch that goes on from its
\* top; `leafy` are the ones with leaves around.
Trunk(p, h) == {Shift(p, 0, i, 0) : i \in 0..(h - 1)}
Branches(top) ==
    {{}} \union {{Shift(top, d[1], d[2], d[3])} :
        d \in {<<-1,0,0>>, <<1,0,0>>, <<0,0,1>>, <<0,1,1>>, <<0,0,-1>>, <<0,1,-1>>, <<0,1,0>>}}

Leaves(w, logs, leafy) ==
    {q \in Cells(w) \ logs : KindAt(w, q) = "air" /\ \E t \in leafy :
        Abs(q[1] - t[1]) + Abs(q[2] - t[2]) + Abs(q[3] - t[3]) <= CanopySize}

\* Tree::generate: the logs replace what is there, the leaves only air.
Tree(w, p, h, branch) ==
    LET top == Shift(p, 0, h - 1, 0)
        logs == Trunk(p, h) \union branch
        leafy == {q \in Trunk(p, h) : q[2] - p[2] >= TrunkMin - 1} \union branch \union {top}
        trunk == FoldSet(LAMBDA q, v : Change(v, q, "log", 0), w, logs \intersect Cells(w))
    IN  FoldSet(LAMBDA q, v : Change(v, q, "leaves", 0), trunk, Leaves(w, logs, leafy))

\* checkGenTrees for one of the saplings: the roll of the die is repeated until
\* it falls right, as the loop only goes on to the next sapling when there is no
\* room; the block in p may be anything by now.
GrowTree(i) ==
    LET p == garden.saplings[i] IN
    /\ Above(p) \notin Dark /\ RoomAbove(garden, p) >= TreeSpace
    /\ \E h \in TrunkMin..TrunkMax : \E b \in Branches(Shift(p, 0, h - 1, 0)) :
          garden' = [Tree(garden, p, h, b) EXCEPT !.saplings = RemoveAt(@, i)]
    /\ UNCHANGED <<disk, sack, uses>>

-----------------------------------------------------------------------------
(* The disk *)

SavedWhole == disk' = [kind |-> garden.kind, meta |-> garden.meta, saplings |-> garden.saplings]

\* saveWholeMap, now and then and at the end.
PlantsSave == uses < MaxUses /\ uses' = uses + 1 /\ SavedWhole /\ UNCHANGED <<garden, sack>>

\* The chunk of the room is written when nobody uses it, level.dat is not.
ChunkReleased ==
    /\ uses < MaxUses /\ uses' = uses + 1
    /\ disk' = [disk EXCEPT !.kind = garden.kind, !.meta = garden.meta]
    /\ UNCHANGED <<garden, sack>>

\* A crash, and Map::init: the map comes back as it was saved.  The list of
\* growing plants is empty.
PlantsRestart ==
    /\ uses < MaxUses /\ uses' = uses + 1
    /\ garden' = [Room(disk.kind, disk.meta) EXCEPT !.saplings = disk.saplings]
    /\ UNCHANGED <<disk, sack>>

PlantsNext ==
    \/ PlantTimer200
    \/ \E p \in Cells(garden), dir \in BOTTOM..TOP, seed, stands \in BOOLEAN, k \in sack :
          (k = "hoe" \/ ~seed) /\ (k = "dirt" \/ ~stands) /\ Plant(p, dir, k, seed, stands)
    \/ \E p \in Cells(garden) : DigPlant(p)
    \/ \E i \in DOMAIN garden.saplings : GrowTree(i)
    \/ PlantsSave \/ ChunkReleased \/ PlantsRestart

PlantsSpec == PlantsInit /\ [][PlantsNext]_plantVars

-----------------------------------------------------------------------------
(* Properties *)

\* Crops that the timer looks at stay on its list and never grow backwards until
\* they are ripe, whatever grows around them; only digging and the loss of the
\* list in a restart end it.
Unripe(w, p) == KindAt(w, p) = "crops" /\ MetaAt(w, p) < 7
CropsGoOn ==
    \A p \in Cells(garden) : (Unripe(garden, p) /\ p \in Places(garden)) =>
        \/ garden'.kind[p] # "crops"
        \/ garden'.growing = <<>>
        \/ p \in Places(garden)' /\ garden'.meta[p] >= garden.meta[p]

\* Every sapling is on the list of those that will grow, and stays there over a
\* restart, unless a chunk was written by itself after the sapling was planted.
SaplingsListed(kind, list) == \A p \in DOMAIN kind : kind[p] = "sapling" => \E i \in DOMAIN list : list[i] = p
SaplingsKept ==
    (SaplingsListed(garden.kind, garden.saplings) /\ SaplingsListed(disk.kind, disk.saplings))
        => SaplingsListed(garden'.kind, garden'.saplings)

\* Nothing that grows is forgotten by the lists the timers go through.
GrowthGoesOn == [][CropsGoOn /\ SaplingsKept]_plantVars
=============================================================================
