-------------------------------- MODULE MCWorld --------------------------------
(***************************************************************************)
(* The blocks of a map in small rooms: digging and placing, plants, light,  *)
(* liquids, tracks and redstone.  `part` chooses the component a behaviour  *)
(* is about; the others rest, so that the states add up.                    *)
(***************************************************************************)
EXTENDS Blocks, Plants, Lighting, Physics, Rails, Redstone

\* A room where the cells of f are filled, over a floor of the given kind.
Filled(cells, f, floor) ==
    [p \in cells |-> IF p \in DOMAIN f THEN f[p] ELSE IF p[2] = 0 THEN floor ELSE "air"]

Cube == (0..2) \X (0..3) \X {0}
Scene(f, g, held) ==
    [kinds |-> Filled(Cube, f, "stone"),
     metas |-> [p \in Cube |-> IF p \in DOMAIN g THEN g[p] ELSE 0],
     held |-> [k \in held |-> 1]]
None == <<>>

MCScenes ==
    {Scene(None, None, {"torch", "door", "stone"}),
     Scene(<<0, 1, 0>> :> "sand", None, {"sand", "torch", "ladder"}),
     Scene(<<1, 1, 0>> :> "tnt", None, {"tracks", "door"}),
     Scene(<<1, 1, 0>> :> "log" @@ <<1, 2, 0>> :> "leaves", None, {"torch", "ladder"}),
     Scene(<<1, 1, 0>> :> "snow" @@ <<2, 1, 0>> :> "ice", None, {"snow", "bed"}),
     Scene(<<1, 1, 0>> :> "cake" @@ <<0, 1, 0>> :> "note",
           <<1, 1, 0>> :> 4 @@ <<0, 1, 0>> :> 15, {"step", "fire"}),
     Scene(<<1, 1, 0>> :> "water" @@ <<0, 1, 0>> :> "step", None, {"step", "ladder", "tnt"})}

Tower == (0..1) \X (0..4) \X {0}
Garden(a, b, held) ==
    [kinds |-> Filled(Tower, <<0, 1, 0>> :> a @@ <<1, 1, 0>> :> b, "stone"), held |-> held]
MCGardens ==
    {Garden("dirt", "sand", {"sapling", "cactus", "reeditem", "flower"}),
     Garden("grass", "soil", {"seeds", "hoe", "mushroom", "dirt"})}
MCDark == {}
MCRate == [dirt |-> 1, crops |-> 0, cactus |-> 0, reed |-> 0]

Basin == (0..2) \X (0..2) \X {0}
Pool(f, hold) ==
    [kinds |-> Filled(Basin, f, "air"), metas |-> [p \in Basin |-> 0], hand |-> hold]
MCPools ==
    {Pool(<<1, 0, 0>> :> "stone" @@ <<1, 1, 0>> :> "stone", "waterbucket"),
     Pool(<<0, 2, 0>> :> "water" @@ <<0, 1, 0>> :> "water" @@ <<0, 0, 0>> :> "stone"
            @@ <<1, 0, 0>> :> "stone" @@ <<1, 1, 0>> :> "stone", "bucket"),
     Pool(<<0, 0, 0>> :> "water" @@ <<1, 0, 0>> :> "stone" @@ <<1, 1, 0>> :> "snow", "lavabucket")}

Yard == (0..2) \X (0..1) \X (0..2)
MCGrounds == {Filled(Yard, <<1, 0, 1>> :> "stone", "air")}

Bench(cells, stones, posts, kinds) ==
    [kinds |-> [p \in cells |-> IF p \in stones THEN "stone" ELSE "air"],
     posts |-> posts, parts |-> kinds]
MCBenches ==
    {Bench((0..3) \X {0} \X {0}, {}, {<<0, 0, 0>>}, {"wire", POWERED}),
     Bench((0..2) \X {0} \X {0}, {<<1, 0, 0>>}, {}, {"button", "lever"}),
     Bench({0} \X (0..1) \X {0}, {<<0, 0, 0>>}, {}, {"wire", "lever"})}

-----------------------------------------------------------------------------
VARIABLE part

First(S) == CHOOSE s \in S : TRUE

\* The component that does not rest has all its initial states.
Starts(name, S) == IF part = name THEN S ELSE {First(S)}

WorldInit ==
    /\ part \in {"blocks", "plants", "light", "liquids", "rails", "redstone"}
    /\ \E s \in Starts("blocks", Scenes) : BlocksStart(s)
    /\ \E s \in Starts("plants", Gardens) : PlantsStart(s)
    /\ \E s \in Starts("liquids", Pools) : PhysicsStart(s)
    /\ \E s \in Starts("rails", Grounds) : RailsStart(s)
    /\ \E s \in Starts("redstone", Benches) : RedstoneStart(s)
    /\ LightInit

WorldNext ==
    /\ UNCHANGED part
    /\ \/ /\ part = "blocks" /\ BlocksNext
          /\ UNCHANGED <<plantVars, lightVars, poolVars, railVars, redstoneVars>>
       \/ /\ part = "plants" /\ PlantsNext
          /\ UNCHANGED <<blockVars, lightVars, poolVars, railVars, redstoneVars>>
       \/ /\ part = "light" /\ LightNext
          /\ UNCHANGED <<blockVars, plantVars, poolVars, railVars, redstoneVars>>
       \/ /\ part = "liquids" /\ PhysicsNext
          /\ UNCHANGED <<blockVars, plantVars, lightVars, railVars, redstoneVars>>
       \/ /\ part = "rails" /\ RailsNext
          /\ UNCHANGED <<blockVars, plantVars, lightVars, poolVars, redstoneVars>>
       \/ /\ part = "redstone" /\ RedstoneNext
          /\ UNCHANGED <<blockVars, plantVars, lightVars, poolVars, railVars>>

WorldSpec ==
    /\ WorldInit
    /\ [][WorldNext]_<<part, blockVars, plantVars, lightVars, poolVars, railVars, redstoneVars>>

\* What the players were sent last of a cell is what is there, for all but the
\* levels of liquids (SendMultiBlocks) and the notes tuned too high.
PlayersSeeTheMap == ShownIsBlock /\ LiquidIsSeen
=============================================================================
