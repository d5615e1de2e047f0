-------------------------------- MODULE Redstone --------------------------------
(***************************************************************************)
(* Redstone wires, which are given their power by a simulation that runs    *)
(* every 200 ms over what was placed or dug in between                      *)
(* (redstoneSimulation.cpp, blocks/redstone.cpp), and buttons and levers    *)
(* (blocks/redstoneutil.cpp).                                               *)
(***************************************************************************)
EXTENDS World

CONSTANTS
    Benches,       \* what there is at first: kinds, a function from Cells, posts,
                   \* where torches may stand, and parts, the kinds that are placed
    Hold,          \* timer ticks a button stays in
    MaxWorks       \* blocks placed, dug or touched (bound)

ASSUME RedstoneAssumption == Hold \in Nat \ {0}

\* circuit: the world; sims: what RedstoneSimulation has to look at; activated:
\* buttons and the ticks they still stay in.
VARIABLES circuit, bench, sims, activated, works
redstoneVars == <<circuit, bench, sims, activated, works>>

RedstoneStart(b) ==
    /\ bench = b
    /\ circuit = Room(b.kinds, [p \in DOMAIN b.kinds |-> 0])
    /\ sims = <<>> /\ activated = <<>> /\ works = 0
RedstoneInit == \E b \in Benches : RedstoneStart(b)

POWERED == "redtorchon"
NoDir == 6
Byte(n) == n % 256

-----------------------------------------------------------------------------
(* The simulation *)

\* Its own numbers of the directions, 0 to 5, and the way back.
Step(p, i) ==
    CASE i = 0 -> Below(p) [] i = 1 -> Shift(p, 1, 0, 0) [] i = 2 -> Shift(p, -1, 0, 0)
      [] i = 3 -> Shift(p, 0, 0, 1) [] i = 4 -> Shift(p, 0, 0, -1) [] i = 5 -> Above(p)
Back(i) == CASE i = 0 -> 5 [] i = 5 -> 0 [] i \in {1, 3} -> i + 1 [] i \in {2, 4} -> i - 1

Sim(k, p, power, dir) == [kind |-> k, at |-> p, power |-> power, dir |-> dir]

\* What the entry takes from the block beside it: the power of a wire.
Gained(w, sim, gain, q) ==
    IF sim.kind # "wire" THEN gain
    ELSE IF KindAt(w, q) = POWERED THEN 15
    ELSE IF KindAt(w, q) = "wire" /\ MetaAt(w, q) - 1 > gain THEN MetaAt(w, q) - 1
    ELSE gain

\* What it gives to that block: power for a wire that has less, and an entry for
\* any other block.  The power is an unsigned byte: without any, 255 is handed on.
Given(s, sim, i) ==
    LET q == Step(sim.at, i)
        entry == Append(s.list, Sim(KindAt(s.w, q), q, Byte(sim.power - 1), Back(i)))
    IN  IF KindAt(s.w, q) = "wire"
        THEN IF MetaAt(s.w, q) < sim.power - 1
             THEN [s EXCEPT !.w = Change(s.w, q, "wire", sim.power - 1), !.list = entry]
             ELSE s
        ELSE IF sim.kind \in {"wire", POWERED} THEN [s EXCEPT !.list = entry] ELSE s

\* Faulty: the wire has the power and keeps it to itself.
RaisedAlone(s, sim, gain, i) ==
    IF sim.kind = "wire" /\ gain > sim.power
    THEN [s EXCEPT !.w = Change(s.w, sim.at, "wire", gain)] ELSE s

\* Its own power, once it is more than the entry had.
Raised(s, sim, gain, i) ==
    IF sim.kind = "wire" /\ gain > sim.power
    THEN [s EXCEPT !.w = Change(s.w, sim.at, "wire", gain),
                   !.list = Append(@, Sim("wire", sim.at, gain, i))]
    ELSE s

\* One entry, in all directions but the one its power came from.
LookedAt(s, sim) ==
    FoldLeft(LAMBDA t, i :
                 IF i = sim.dir THEN t
                 ELSE LET gain == Gained(t.w, sim, t.gain, Step(sim.at, i))
                          given == IF KindAt(t.w, Step(sim.at, i)) = "air"
                                   THEN t ELSE Given(t, sim, i)
                      IN  [Raised(given, sim, gain, i) EXCEPT !.gain = gain],
             [w |-> s.w, list |-> s.list, gain |-> sim.power], <<0, 1, 2, 3, 4, 5>>)

\* The list grows while it is gone through.
RECURSIVE Simulated(_)
Simulated(s) ==
    IF s.list = <<>> THEN s.w
    ELSE Simulated(LookedAt([w |-> s.w, list |-> Tail(s.list)], Head(s.list)))

\* addSimulation; whatever the place was entered with stays.
AddSpark(w, list, p) ==
    IF \E i \in DOMAIN list : list[i].at = p THEN list
    ELSE Append(list, Sim(KindAt(w, p), p, IF KindAt(w, p) = POWERED THEN 16 ELSE 0, NoDir))

-----------------------------------------------------------------------------
(* Buttons *)

Pressed(m) == m >= 8
Flipped(m) == IF Pressed(m) THEN m - 8 ELSE m + 8

\* BlockRedstoneUtil::timer200: whatever block is there by then is flipped.
Released(w) ==
    FoldLeft(LAMBDA v, a : IF a.left > 1 THEN v
                           ELSE Change(v, a.at, KindAt(v, a.at), Flipped(MetaAt(v, a.at))),
             w, activated)
StillIn == [i \in DOMAIN activated |-> [activated[i] EXCEPT !.left = @ - 1]]

\* timed_200ms: the handlers of the blocks, and then the simulation.
Timed200ms ==
    /\ sims # <<>> \/ activated # <<>>
    /\ circuit' = Simulated([w |-> Released(circuit), list |-> sims])
    /\ sims' = <<>>
    /\ activated' = SelectSeq(StillIn, LAMBDA a : a.left > 0)
    /\ UNCHANGED <<bench, works>>

\* onInteract, and onStartedDigging.
OnTouch(p) ==
    \/ /\ KindAt(circuit, p) = "button" /\ ~Pressed(MetaAt(circuit, p))
       /\ circuit' = Change(circuit, p, "button", MetaAt(circuit, p) + 8)
       /\ activated' = Append(activated, [at |-> p, left |-> Hold])
    \/ /\ KindAt(circuit, p) = "lever"
       /\ circuit' = Change(circuit, p, "lever", Flipped(MetaAt(circuit, p)))
       /\ UNCHANGED activated

Touch(p) ==
    /\ works < MaxWorks /\ works' = works + 1
    /\ OnTouch(p)
    /\ UNCHANGED <<bench, sims>>

-----------------------------------------------------------------------------
(* Placing and digging *)

\* onPlace of the three classes: a button not on the floor or the ceiling; a lever's
\* metadata there depends on where the player looks.
MetaFor(k, dir) ==
    CASE k = "wire" -> {0}
      [] k = "lever" /\ dir = TOP -> {6, 5}
      [] k = "lever" /\ dir = BOTTOM -> {0, 7}
      [] k = "button" /\ dir \in {TOP, BOTTOM} -> {}
      [] OTHER -> {dir}

\* dir leads from the block that was clicked to the place.
PlacePart(p, k, dir) ==
    /\ works < MaxWorks /\ works' = works + 1
    /\ k \in bench.parts /\ IsBlockEmpty(circuit, p)
    /\ k = POWERED => p \in bench.posts /\ dir = TOP
    /\ \E q \in {Step(p, i) : i \in 0..5} :
          Moved(q, dir) = p /\ IsBlockStackable(KindAt(circuit, q))
    /\ \E m \in MetaFor(k, dir) : circuit' = Change(circuit, p, k, m)
    /\ sims' = IF k \in {"wire", POWERED} THEN AddSpark(circuit', sims, p) ELSE sims
    /\ UNCHANGED <<bench, activated>>

\* onNeighbourBroken of a button or lever: one that is in has no direction any more
\* and stays in the air.
SwitchLosesHold(w, q, dir) ==
    \/ dir = TOP /\ MetaAt(w, q) = TOP /\ IsBlockEmpty(w, Below(q))
    \/ dir = NORTH /\ MetaAt(w, q) = SOUTH /\ IsBlockEmpty(w, Moved(q, NORTH))
    \/ dir = SOUTH /\ MetaAt(w, q) = NORTH /\ IsBlockEmpty(w, Moved(q, SOUTH))
    \/ dir = EAST /\ MetaAt(w, q) = WEST /\ IsBlockEmpty(w, Moved(q, EAST))
    \/ dir = WEST /\ MetaAt(w, q) = EAST /\ IsBlockEmpty(w, Moved(q, WEST))

\* Asked of the neighbour by the class of either block.
PartNeighbourBroken(w, q, dir, broken) ==
    LET Either(kinds) == broken \in kinds \/ KindAt(w, q) \in kinds
        unpowered == IF Either({"wire"}) /\ IsBlockEmpty(w, Below(q)) THEN ClearAndDrop(w, q) ELSE w
    IN  IF Either({"button", "lever"}) /\ SwitchLosesHold(unpowered, q, dir)
        THEN ClearAndDrop(unpowered, q) ELSE unpowered

\* player_digging of the block: a switch is touched by the first hit, the rest is
\* broken; a wire or a torch goes at once.
DigPart(p) ==
    /\ works < MaxWorks /\ works' = works + 1
    /\ KindAt(circuit, p) # "air"
    /\ LET k == KindAt(circuit, p)
           gone == ClearAndDrop(circuit, p)
       IN  /\ circuit' = Notified(gone, p, LAMBDA v, q, dir : PartNeighbourBroken(v, q, dir, k))
           /\ sims' = IF k \in {"wire", POWERED} THEN AddSpark(gone, sims, p) ELSE sims
    /\ UNCHANGED <<bench, activated>>

RedstoneNext ==
    \/ Timed200ms
    \/ \E p \in Cells(circuit) : Touch(p) \/ DigPart(p)
    \/ \E p \in Cells(circuit), k \in {"wire", POWERED, "button", "lever"}, dir \in BOTTOM..TOP :
          PlacePart(p, k, dir)

RedstoneSpec == RedstoneInit /\ [][RedstoneNext]_redstoneVars

-----------------------------------------------------------------------------
(* Properties *)

Beside(p) == {Step(p, i) : i \in 0..5} \intersect Cells(circuit)
Wire(w, p) == KindAt(w, p) = "wire"

\* One run of the simulation carries power as far as it goes: no wire is left more
\* than one below a wire that was raised, and none that was new is left more
\* than one below the wires around it, or without full power beside a torch.
\* True of wires in a row with torches at its ends only: elsewhere the power of
\* 255 that a new wire hands on comes round.  And true unless something was dug
\* between its entry and the run: the entry is used as it was made.
PowerSpreads ==
    [][(/\ sims # <<>> /\ sims' = <<>>
        /\ \A i \in DOMAIN sims : sims[i].kind = KindAt(circuit, sims[i].at)) =>
         \A q \in Cells(circuit) :
            LET new == \E i \in DOMAIN sims : sims[i].at = q /\ sims[i].kind = "wire"
            IN  Wire(circuit', q) =>
                  /\ \A p \in Beside(q) :
                        (Wire(circuit', p) /\ (new \/ MetaAt(circuit', p) > MetaAt(circuit, p)))
                           => MetaAt(circuit', q) >= MetaAt(circuit', p) - 1
                  /\ (new /\ \E p \in Beside(q) : KindAt(circuit', p) = POWERED)
                        => MetaAt(circuit', q) = 15
      ]_redstoneVars

=============================================================================
