-------------------------------- MODULE Blocks --------------------------------
(***************************************************************************)
(* Digging and placing blocks: the packets player_digging and              *)
(* player_block_placement and the handlers of the kinds of blocks they      *)
(* call (blocks/*.cpp).  Every handler whose affectedBlock says so is asked *)
(* in the order in which Plugin::init registers them; the default one takes *)
(* every block and comes last.                                              *)
(***************************************************************************)
EXTENDS World

CONSTANTS
    Scenes,       \* what the room and the player have at first: kinds and
                  \* metas, functions from Cells, and held, how many the player has of a kind
    MaxActs       \* digs and placements (bound)

VARIABLES world, inv, acts
blockVars == <<world, inv, acts>>

Falling == {"sand"}
Torches == {"torch", "redtorchoff", "redtorchon"}
WithDamage == {"log", "step"}          \* metadata from the damage of the item
Turned == {"door", "bed", "stairs", "pumpkin", "jackolantern"}   \* and from where the player looks

BlocksStart(s) == world = Room(s.kinds, s.metas) /\ inv = s.held /\ acts = 0
BlocksInit == \E s \in Scenes : BlocksStart(s)

\* Cells a player digs or aims at: not the floor, and with a cell above.
Reach == {p \in Cells(world) : {Above(p), Below(p)} \subseteq Cells(world)}

-----------------------------------------------------------------------------
(* onNeighbourBroken: of the classes of both the broken block and the       *)
(* neighbour, whatever that is; dir leads from the broken block to it.      *)

TorchLosesHold(w, q, dir) ==
    \/ dir = TOP /\ MetaAt(w, q) = TOP /\ IsBlockEmpty(w, Below(q))
           /\ KindAt(w, q) # "wallsign"
    \/ dir = NORTH /\ MetaAt(w, q) = SOUTH /\ IsBlockEmpty(w, Moved(q, NORTH))
    \/ dir = SOUTH /\ MetaAt(w, q) = NORTH /\ IsBlockEmpty(w, Moved(q, SOUTH))
    \/ dir = EAST /\ MetaAt(w, q) = WEST /\ IsBlockEmpty(w, Moved(q, EAST))
    \/ dir = WEST /\ MetaAt(w, q) = EAST /\ IsBlockEmpty(w, Moved(q, WEST))

LadderLosesHold(w, q, dir) ==
    <<MetaAt(w, q), dir>> \in {<<2, EAST>>, <<3, WEST>>, <<4, NORTH>>, <<5, SOUTH>>}

\* The cell with the other half of a door: metadata bit 3 marks the upper one.
OtherHalf(w, p) == IF (MetaAt(w, p) \div 8) % 2 = 1 THEN Below(p) ELSE Above(p)

\* Faulty: the other half stays.
DoorBrokenHalf(w, p) == Clear(w, p)

DoorBroken(w, p) ==
    LET other == OtherHalf(w, p)
        one == IF KindAt(w, other) = KindAt(w, p) THEN Clear(w, other) ELSE w
    IN  Clear(one, p)

DoorNeighbourBroken(w, q, dir) ==
    IF dir # TOP \/ KindAt(w, q) # "door" THEN w
    ELSE SpawnBlockItem(DoorBroken(w, q), q, "door")

\* The block falls as an entity: it is taken away, and what is next to the hole
\* is told; of all the handlers only the one of falling blocks overrides that
\* function (BlockTorch::onNeighbourMove has its parameters in another order).
RECURSIVE ApplyPhysics(_, _)
ApplyPhysics(w, p) ==
    IF KindAt(w, Below(p)) \notin {"air", "water", "lava", "snow"} THEN w
    ELSE LET gone == [Clear(w, p) EXCEPT
                         !.falls = Append(@, [kind |-> KindAt(w, p), at |-> Below(p)])]
         IN  FoldLeft(LAMBDA v, n :
                          IF n.dir # BOTTOM /\ KindAt(v, n.at) \in Falling
                          THEN ApplyPhysics(v, n.at) ELSE v,
                      gone, Neighbours(p))

NearLog(w, q) ==
    \E x, y, z \in -2..2 :
        Abs(x) + Abs(y) + Abs(z) <= 3 /\ KindAt(w, Shift(q, x, y, z)) = "log"

Decay(w, q, broken) ==
    IF broken \in {"log", "leaves"} /\ ~NearLog(w, q)
    THEN [w EXCEPT !.decaying = @ \union {q}] ELSE w

\* One class of handlers: what it does to the neighbour q of the broken block.
OnNeighbourBroken(class, w, q, dir, broken) ==
    CASE class = "falling" -> IF KindAt(w, q) \in Falling THEN ApplyPhysics(w, q) ELSE w
      [] class = "torch" -> IF TorchLosesHold(w, q, dir) THEN ClearAndDrop(w, q) ELSE w
      [] class = "snow" -> IF dir = TOP /\ IsBlockEmpty(w, Below(q)) THEN ClearAndDrop(w, q) ELSE w
      [] class = "liquid" -> AddSimulation(w, q)
      [] class = "fire" -> Clear(w, q)
      [] class = "door" -> DoorNeighbourBroken(w, q, dir)
      [] class = "tracks" -> IF IsBlockEmpty(w, Below(q)) THEN ClearAndDrop(w, q) ELSE w
      [] class = "ladder" ->
            IF dir \notin {TOP, BOTTOM} /\ LadderLosesHold(w, q, dir)
            THEN CreatePickupSpawn(Clear(w, q), q, KindAt(w, q), 1) ELSE w
      [] class = "leaves" -> Decay(w, q, broken)

Classes == <<"falling", "torch", "snow", "liquid", "fire", "door", "tracks", "ladder", "leaves">>

Affects(class, k) ==
    CASE class = "falling" -> k \in Falling
      [] class = "torch" -> k \in Torches
      [] class = "liquid" -> k \in {"water", "lava", "bucket"}
      [] OTHER -> k = class

\* Faulty: the handlers of the broken block only.
NeighbourBrokenOnce(w, q, dir, broken) ==
    FoldLeft(LAMBDA v, class :
                 IF Affects(class, broken) THEN OnNeighbourBroken(class, v, q, dir, broken) ELSE v,
             w, Classes)

\* Which handlers are asked is decided by the kind the neighbour had at first.
NeighbourBroken(w, q, dir, broken) ==
    FoldLeft(LAMBDA v, class :
                 IF Affects(class, broken) \/ Affects(class, KindAt(w, q))
                 THEN OnNeighbourBroken(class, v, q, dir, broken) ELSE v,
             w, Classes)

-----------------------------------------------------------------------------
(* onBroken: the world, and whether the packet ends there *)

Going(w) == [world |-> w, stop |-> FALSE]
Stopping(w) == [world |-> w, stop |-> TRUE]

\* The ones that take the block away and drop it; leaves end the packet.
DefaultBroken(w, p) == Going(ClearAndDrop(w, p))
SnowBroken(w, p) == Going(ClearAndDrop(w, p))
StairBroken(w, p) == Going(ClearAndDrop(w, p))
StepBroken(w, p) == Going(ClearAndDrop(w, p))
PumpkinBroken(w, p) == Going(ClearAndDrop(w, p))
JackolanternBroken(w, p) == Going(ClearAndDrop(w, p))
LadderBroken(w, p) == Going(ClearAndDrop(w, p))
TorchBroken(w, p) ==
    Going([ClearAndDrop(w, p) EXCEPT !.sparks = IF KindAt(w, p) = "torch" THEN @ ELSE @ \union {p}])
LeavesBroken(w, p) == Stopping(ClearAndDrop(w, p))
CakeBroken(w, p) == Going(Clear(w, p))
IceBroken(w, p) == Stopping(Change(w, p, "water", 0))
\* Fire, a bed and liquids have no onBroken of their own: nothing happens.

OnBroken(w, p) ==
    LET k == KindAt(w, p) IN
    CASE k \in {"fire", "bed", "water", "lava"} -> Going(w)
      [] k = "door" -> Going(SpawnBlockItem(DoorBroken(w, p), p, k))
      [] k = "ice" -> IceBroken(w, p)
      [] k = "leaves" -> LeavesBroken(w, p)
      [] k = "cake" -> CakeBroken(w, p)
      [] k \in Torches -> TorchBroken(w, p)
      [] k = "snow" -> SnowBroken(w, p)
      [] k = "ladder" -> LadderBroken(w, p)
      [] k = "stairs" -> StairBroken(w, p)
      [] k = "step" -> StepBroken(w, p)
      [] k = "pumpkin" -> PumpkinBroken(w, p)
      [] k = "jackolantern" -> JackolanternBroken(w, p)
      [] OTHER -> DefaultBroken(w, p)

\* player_digging with BLOCK_STATUS_BLOCK_BROKEN.
Broken(w, p) ==
    LET r == OnBroken(w, p)
        broken == KindAt(w, p)
    IN  IF r.stop THEN r.world
        ELSE Notified(r.world, p, LAMBDA v, q, dir : NeighbourBroken(v, q, dir, broken))

-----------------------------------------------------------------------------
(* onStartedDigging and onInteract *)

WithOpen(m, open) == (m % 4) + (IF open THEN 4 ELSE 0) + 8 * (m \div 8)
IsOpen(m) == (m \div 4) % 2 = 1

\* The metadata of the upper half for that of the lower one, and back.
Opposite(m) == IF m \div 8 = 1 THEN m - 8 ELSE m + 8

\* Both halves: For gives the metadata of the other one, from that of this one
\* and its own.
DoorToggled(w, p, For(_, _)) ==
    LET m == WithOpen(MetaAt(w, p), ~IsOpen(MetaAt(w, p)))
        other == OtherHalf(w, p)
        one == Change(w, p, "door", m)
    IN  IF KindAt(w, other) = "door"
        THEN Change(one, other, "door", For(m, MetaAt(w, other))) ELSE one

\* What the digging of TNT sets off: a ball of blocks goes, which the players are
\* told in the explosion; an item is left for some of them, and now and then
\* the TNT does not explode.  The modelled ball has the radius 1.
Ball(w, p) == {q \in Cells(w) : \A i \in 1..3 : Abs(q[i] - p[i]) <= 1}
Destroyed(w, p) == {q \in Ball(w, p) : KindAt(w, q) \notin {"air", "bedrock", "obsidian"}}

Exploded(w, p, drops) ==
    FoldSet(LAMBDA q, v : IF q \in drops THEN ClearAndDrop(v, q) ELSE Clear(v, q),
            w, Destroyed(w, p))

\* What onStartedDigging may make of the block; only one in six of the blocks
\* that TNT destroys is dropped.
StartedDigging(w, p) ==
    CASE KindAt(w, p) = "door" -> {DoorToggled(w, p, LAMBDA m, n : WithOpen(n, IsOpen(m)))}
      [] KindAt(w, p) = "tnt" ->
            {CreatePickupSpawn(Clear(w, p), p, "tnt", 1)} \union
            {Exploded(w, p, d) : d \in kSubset(Cardinality(Destroyed(w, p)) \div 6, Destroyed(w, p))}
      [] OTHER -> {w}

\* A slice of the cake is eaten.
CakeEaten(w, p) ==
    Going(IF MetaAt(w, p) + 1 < 6 THEN Change(w, p, "cake", MetaAt(w, p) + 1) ELSE Clear(w, p))

\* The next tone; only the sound is sent.
NoteTuned(w, p) ==
    Stopping(SetBlock(w, p, "note", IF MetaAt(w, p) = 20 THEN 0 ELSE MetaAt(w, p) + 1))

\* onInteract; TRUE ends the packet.
OnInteract(w, p) ==
    LET k == KindAt(w, p) IN
    CASE k = "door" -> Going(DoorToggled(w, p, LAMBDA m, n : Opposite(m)))
      [] k = "cake" -> CakeEaten(w, p)
      [] k = "note" -> NoteTuned(w, p)
      [] k \in {"tnt", "workbench"} -> Stopping(w)
      [] OTHER -> Going(w)

-----------------------------------------------------------------------------
(* onPlace.  A placement a has the block that was clicked (p), the cell the  *)
(* new one goes to (at), the kind, the direction, what the player's position  *)
(* and the item say (facing, damage), and whether a player stands in the way. *)

Refuse(w) == [world |-> w, stop |-> TRUE]

\* The three checks of the handlers.
Free(w, a) == IsBlockStackable(KindAt(w, a.p)) /\ IsBlockEmpty(w, a.at) /\ ~a.stands
FreeOfBlocks(w, a) == IsBlockStackable(KindAt(w, a.p)) /\ IsBlockEmpty(w, a.at)

Placed(w, a, m) == Going(Change(w, a.at, a.k, m))

DefaultPlaced(w, a) == IF Free(w, a) THEN Placed(w, a, 0) ELSE Refuse(w)
NotePlaced(w, a) == IF Free(w, a) THEN Placed(w, a, 0) ELSE Refuse(w)
CakePlaced(w, a) == IF Free(w, a) THEN Placed(w, a, 0) ELSE Refuse(w)
IcePlaced(w, a) == IF Free(w, a) THEN Placed(w, a, 0) ELSE Refuse(w)
WorkbenchPlaced(w, a) == IF Free(w, a) THEN Placed(w, a, 0) ELSE Refuse(w)
StairPlaced(w, a) == IF Free(w, a) THEN Placed(w, a, a.facing) ELSE Refuse(w)
WoodPlaced(w, a) == IF Free(w, a) THEN Placed(w, a, a.damage) ELSE Refuse(w)
FallingPlaced(w, a) ==
    IF Free(w, a) THEN Going(ApplyPhysics(Change(w, a.at, a.k, 0), a.at)) ELSE Refuse(w)

\* The direction of the click is kept as metadata, and nobody minds players.
SnowPlaced(w, a) == IF FreeOfBlocks(w, a) THEN Placed(w, a, a.dir) ELSE Refuse(w)

\* A single track; how tracks shape each other is in Rails.
TracksPlaced(w, a) == IF FreeOfBlocks(w, a) THEN Placed(w, a, 0) ELSE Refuse(w)

\* direction 0: a torch looks for a neighbour itself.
TorchSide(w, p, dir) ==
    IF dir # BOTTOM THEN dir
    ELSE IF KindAt(w, Shift(p, 1, 0, 0)) # "air" THEN SOUTH
    ELSE IF KindAt(w, Shift(p, 0, 0, 1)) # "air" THEN WEST
    ELSE IF KindAt(w, Shift(p, -1, 0, 0)) # "air" THEN NORTH
    ELSE IF KindAt(w, Shift(p, 0, 0, -1)) # "air" THEN EAST
    ELSE TOP
TorchPlaced(w, a) ==
    IF FreeOfBlocks(w, a) THEN Placed(w, a, TorchSide(w, a.at, a.dir)) ELSE Refuse(w)

\* Fire always goes on top; under it there is a block.
FirePlaced(w, a) == DefaultPlaced(w, [a EXCEPT !.at = Above(a.p)])

\* A refusal for lack of a block to stand on ends neither the packet nor the item.
TntPlaced(w, a) ==
    IF ~IsBlockStackable(KindAt(w, a.p)) THEN Going(w) ELSE DefaultPlaced(w, a)

\* Two steps become a double one, without using one up.
StepPlaced(w, a) ==
    IF KindAt(w, a.p) = "step" /\ a.dir = TOP
    THEN Refuse(IF a.damage = MetaAt(w, a.p) THEN Change(w, a.p, "double", a.damage) ELSE w)
    ELSE WoodPlaced(w, a)

LadderSide(dir) == CASE dir = WEST -> 2 [] dir = EAST -> 3 [] dir = SOUTH -> 4 [] dir = NORTH -> 5
LadderPlaced(w, a) ==
    IF a.dir \in {TOP, BOTTOM} \/ ~Free(w, a) THEN Refuse(w) ELSE Placed(w, a, LadderSide(a.dir))

\* relativeToBlock: four outcomes, and what a block makes of them.
Facings == {BOTTOM, EAST, NORTH, SOUTH}
DoorFacing(facing) ==
    CASE facing = NORTH -> SOUTH [] facing = SOUTH -> NORTH [] OTHER -> facing
BedFacing(facing) ==
    CASE facing = EAST -> SOUTH [] facing = BOTTOM -> EAST [] facing = SOUTH -> BOTTOM
      [] OTHER -> facing
PumpkinPlaced(w, a) == IF Free(w, a) THEN Placed(w, a, BedFacing(a.facing)) ELSE Refuse(w)
JackolanternPlaced(w, a) == IF Free(w, a) THEN Placed(w, a, BedFacing(a.facing)) ELSE Refuse(w)

BedHead(p, facing) ==
    CASE facing = EAST -> Shift(p, 0, 0, -1) [] facing = BOTTOM -> Shift(p, 1, 0, 0)
      [] facing = NORTH -> Shift(p, -1, 0, 0) [] facing = SOUTH -> Shift(p, 0, 0, 1)
BedPlaced(w, a) ==
    IF Free(w, a)
    THEN Going(Change(Change(w, a.at, "bed", BedFacing(a.facing)),
                      BedHead(a.at, a.facing), "bed", Opposite(BedFacing(a.facing))))
    ELSE Refuse(w)

\* Faulty: the players are not told of the upper half.
PutDoorQuiet(w, p, facing) ==
    SetBlock(Change(w, p, "door", DoorFacing(facing)), Above(p), "door", Opposite(DoorFacing(facing)))

PutDoor(w, p, facing) ==
    Change(Change(w, p, "door", DoorFacing(facing)), Above(p), "door", Opposite(DoorFacing(facing)))
DoorPlaced(w, a) == IF Free(w, a) THEN Going(PutDoor(w, a.at, a.facing)) ELSE Refuse(w)

OnPlace(w, a) ==
    CASE a.k = "door" -> DoorPlaced(w, a)
      [] a.k = "bed" -> BedPlaced(w, a)
      [] a.k \in Torches -> TorchPlaced(w, a)
      [] a.k = "ladder" -> LadderPlaced(w, a)
      [] a.k = "stairs" -> StairPlaced(w, a)
      [] a.k = "pumpkin" -> PumpkinPlaced(w, a)
      [] a.k = "jackolantern" -> JackolanternPlaced(w, a)
      [] a.k = "snow" -> SnowPlaced(w, a)
      [] a.k = "tracks" -> TracksPlaced(w, a)
      [] a.k = "step" -> StepPlaced(w, a)
      [] a.k = "log" -> WoodPlaced(w, a)
      [] a.k = "fire" -> FirePlaced(w, a)
      [] a.k = "tnt" -> TntPlaced(w, a)
      [] a.k = "note" -> NotePlaced(w, a)
      [] a.k = "cake" -> CakePlaced(w, a)
      [] a.k = "ice" -> IcePlaced(w, a)
      [] a.k = "workbench" -> WorkbenchPlaced(w, a)
      [] a.k \in Falling -> FallingPlaced(w, a)
      [] OTHER -> DefaultPlaced(w, a)

\* onReplace, when there is liquid where the block goes; the default one returns
\* at once.
OnReplace(w, at, k) ==
    IF KindAt(w, at) \notin {"water", "lava"} THEN w
    ELSE CASE k = "ladder" -> CreatePickupSpawn(Clear(w, at), at, KindAt(w, at), 1)
           [] k = "fire" -> Clear(w, at)
           [] OTHER -> w

-----------------------------------------------------------------------------
(* The packets *)

Quick == {"snow", "torch", "redtorchoff", "redtorchon", "wire"}   \* break with the first hit

\* player_digging; `finished`: with BLOCK_STATUS_BLOCK_BROKEN.
PlayerDigging(p, finished) ==
    /\ acts < MaxActs /\ KindAt(world, p) # "air"
    /\ world' \in IF finished \/ KindAt(world, p) \in Quick
                  THEN {Broken(world, p)} ELSE StartedDigging(world, p)
    /\ acts' = acts + 1
    /\ UNCHANGED inv

\* The item is used unless a handler refused.
Used(k, went) == IF went THEN [inv EXCEPT ![k] = @ - 1] ELSE inv

\* player_block_placement of an item in the hand.
PlayerBlockPlacement(p, dir, k, facing, damage, stands) ==
    /\ acts < MaxActs /\ acts' = acts + 1
    /\ KindAt(world, p) # "air" /\ Moved(p, dir) \in Reach
    /\ LET touched == OnInteract(world, p)
           cleared == OnReplace(touched.world, Moved(p, dir), k)
           r == OnPlace(cleared, [p |-> p, at |-> TranslateDirection(cleared, p, dir), k |-> k, dir |-> dir,
                                  facing |-> facing, damage |-> damage, stands |-> stands])
       IN  IF touched.stop \/ inv[k] = 0
           THEN world' = touched.world /\ UNCHANGED inv
           ELSE /\ world' = IF r.stop THEN r.world ELSE CheckSurrounding(r.world, p)
                /\ inv' = Used(k, ~r.stop)

\* BlockLeaves::timer200 when five seconds are over: the neighbours are told,
\* each by the handlers of its own kind, and the leaves go; what is left of the
\* item is asked for by the default handler, for air.
DecayLeaves ==
    /\ world.decaying # {}
    /\ LET p == CHOOSE q \in world.decaying : TRUE
           around == {q \in Cells(world) : \A i \in 1..3 : Abs(q[i] - p[i]) <= 1}
           Told(v, q) == FoldLeft(LAMBDA u, class :
                             IF Affects(class, KindAt(v, q))
                             THEN OnNeighbourBroken(class, u, q, BOTTOM, "leaves") ELSE u,
                             v, Classes)
           told == FoldSet(LAMBDA q, v : Told(v, q), world, around)
       IN  world' = [Clear(ClearAndDrop(told, p), p) EXCEPT !.decaying = @ \ {p}]
    /\ UNCHANGED <<inv, acts>>

\* Physics::updateFall for one of the falling blocks, one cell down: the cell it
\* is in is looked at again, and it comes to rest above the first one that it
\* does not pass through, whatever is there by now.
Land ==
    \E i \in DOMAIN world.falls :
        /\ LET f == world.falls[i]
               Open(p) == KindAt(world, p) \in {"air", "water", "lava", "snow"}
               rest == [world EXCEPT !.falls = RemoveAt(@, i)]
           IN  world' = IF ~Open(f.at) THEN Change(rest, Above(f.at), f.kind, 0)
                        ELSE IF ~Open(Below(f.at)) THEN Change(rest, f.at, f.kind, 0)
                        ELSE [world EXCEPT !.falls[i].at = Below(@)]
        /\ UNCHANGED <<inv, acts>>

BlocksNext ==
    \/ \E p \in Reach, f \in BOOLEAN : PlayerDigging(p, f)
    \/ \E p \in Cells(world), dir \in BOTTOM..TOP, k \in DOMAIN inv, facing \in Facings,
          damage \in {0, 1}, stands \in BOOLEAN :
          /\ k \in Turned \/ facing = BOTTOM
          /\ k \in WithDamage \/ damage = 0
          /\ PlayerBlockPlacement(p, dir, k, facing, damage, stands)
    \/ DecayLeaves \/ Land

BlocksSpec == BlocksInit /\ [][BlocksNext]_blockVars

-----------------------------------------------------------------------------
(* Properties *)

\* What the players around were told is what the map holds: every handler that
\* sets a block sends the change, kind and metadata.  Left out are notes, of
\* which only the sound is sent, and the bit a note tuned too high sets in the
\* other half of its byte.
ShownIsBlock ==
    \A p \in Cells(world) :
        \/ KindAt(world, p) = "note"
        \/ world.shown[p] = <<world.kind[p], world.meta[p]>>
        \/ /\ \E q \in Cells(world) : p \in Sharing(world, q)
           /\ <<world.kind[p], world.meta[p]>> =
                 <<world.shown[p][1], WithLowBit(world.shown[p][2])>>

DoorsWhole(w) ==
    \A p \in Cells(w) : KindAt(w, p) = "door" =>
        LET other == OtherHalf(w, p)
        IN  /\ KindAt(w, other) = "door"
            /\ OtherHalf(w, other) = p
            /\ IsOpen(MetaAt(w, other)) = IsOpen(MetaAt(w, p))

\* Kinds whose handlers, when one is dug, are called for any neighbour.
Careless == Torches \union {"ladder", "snow", "tracks", "fire", "tnt"}

\* Each half of a door keeps the other one, equally open, through digging,
\* opening and placing.  Two ways to cut a door in two are left out: digging a
\* block of the careless kinds, and putting a door under another one, whose
\* lower half is overwritten.
DoorsStayWhole ==
    [][(/\ DoorsWhole(world)
        /\ \A p \in Cells(world) : KindAt(world, p) \in Careless => KindAt(world', p) = KindAt(world, p)
        /\ \A p \in Cells(world) : (KindAt(world, p) # "door" /\ KindAt(world', p) = "door")
                                => KindAt(world, Above(p)) # "door")
       => DoorsWhole(world')]_blockVars

\* How many there are of a thing: in the hand, on the ground, falling, standing
\* (a door or a bed counts for one half).
Things(w, pack, k) ==
    pack[k] + MapThenSumSet(LAMBDA i : IF i.kind = k THEN i.count ELSE 0, w.items)
      + Cardinality({i \in DOMAIN w.falls : w.falls[i].kind = k})
      + Cardinality({p \in Cells(w) : w.kind[p] = k /\ ~(k \in {"door", "bed"} /\ MetaAt(w, p) >= 8)})

\* Digging and placing never make more of a thing, as long as no door is cut in
\* two, of which each half gives a door; steps, which the next one is laid on
\* without being used up, are left out.
NothingDoubled ==
    [][(DoorsWhole(world) /\ DoorsWhole(world')) =>
          \A k \in DOMAIN inv \ {"step"} : Things(world', inv', k) <= Things(world, inv, k)]_blockVars

\* The cell a block is attached to or stands on.
Support(w, q) ==
    CASE KindAt(w, q) \in Torches ->
            (CASE MetaAt(w, q) = TOP -> {Below(q)}
               [] MetaAt(w, q) = SOUTH -> {Moved(q, NORTH)}
               [] MetaAt(w, q) = NORTH -> {Moved(q, SOUTH)}
               [] MetaAt(w, q) = WEST -> {Moved(q, EAST)}
               [] MetaAt(w, q) = EAST -> {Moved(q, WEST)}
               [] OTHER -> {})
      [] KindAt(w, q) = "ladder" ->
            (CASE MetaAt(w, q) = 2 -> {Moved(q, EAST)} [] MetaAt(w, q) = 3 -> {Moved(q, WEST)}
               [] MetaAt(w, q) = 4 -> {Moved(q, NORTH)} [] MetaAt(w, q) = 5 -> {Moved(q, SOUTH)}
               [] OTHER -> {})
      [] KindAt(w, q) = "door" /\ MetaAt(w, q) < 8 -> {Below(q)}
      [] KindAt(w, q) \in {"snow", "tracks"} -> {Below(q)}
      [] OTHER -> {}

Dug(p) == KindAt(world, p) # "air" /\ KindAt(world', p) = "air" /\ PlayerDigging(p, TRUE)

\* Whoever digs a block away takes with it what is attached to it or stands on
\* it; leaves, whose handler ends the packet, and fire are left out.
TakesAttached(p) ==
    KindAt(world, p) # "leaves" =>
        \A q \in Cells(world) : p \in Support(world, q) => KindAt(world', q) # KindAt(world, q)

\* And takes nothing else: a block that goes was attached to it, was the other
\* half, or falls, or burnt.  What the careless kinds do to their neighbours when
\* they are dug themselves is left out.
SparesOthers(p) ==
    KindAt(world, p) \notin Careless \ {"tnt"} =>
        \A q \in Cells(world) \ {p} :
            \/ KindAt(world', q) = KindAt(world, q)
            \/ KindAt(world, q) \in Falling \union {"fire"}
            \/ KindAt(world, q) = "door" /\ (q = OtherHalf(world, p) \/ p \in Support(world, Below(q)))
            \/ p \in Support(world, q)

\* Digging a block takes away what is attached to it and nothing else: one player
\* packet, in which each neighbour is asked by several handlers in a row.
AttachedGoesToo ==
    [][\A p \in Reach : Dug(p) => TakesAttached(p) /\ SparesOthers(p)]_blockVars
=============================================================================
