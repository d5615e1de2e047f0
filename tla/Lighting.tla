------------------------------- MODULE Lighting -------------------------------
(***************************************************************************)
(* The light maps of the chunks of a map (map.cpp: generateLight,          *)
(* spreadLight, getLight, setLight).  A slice of the map is modelled: a    *)
(* row of chunks of Width columns each, one cell deep, so that what spreads *)
(* in the third direction is left out.  spreadLight only ever raises a     *)
(* light and calls itself for what it raised, so its result is a fixpoint  *)
(* and the order of the visits does not matter.                            *)
(***************************************************************************)
EXTENDS Integers, FiniteSets, FiniteSetsExt

CONSTANTS
    Chunks, Width, Height,   \* the slice (16 and 256 in the code)
    Full,                    \* brightest light (15)
    MaxSets                  \* number of setBlocks (bound)

ASSUME LightAssumption ==
    /\ {Chunks, Width, Height, Full} \subseteq Nat \ {0}
    /\ Height <= Width

Row == 0..(Chunks - 1)
Columns(c) == (c * Width)..(c * Width + Width - 1)
Level == 0..(Height - 1)
Slice == (0..(Chunks * Width - 1)) \X Level
ChunkAt(x) == x \div Width
Material == {"air", "stone", "leaves", "torch"}

\* The tables stopLight and emitLight.
StopLight(k) == IF k = "stone" THEN Full + 1 ELSE IF k = "leaves" THEN 2 ELSE 0
EmitLight(k) == IF k = "torch" THEN Full - 1 ELSE 0

VARIABLES
    there,     \* chunks in memory
    material,  \* the block in each cell
    light,     \* skylight and blocklight
    height,    \* heightmap: first level above the highest block, kept when none
    stale,     \* lightRegen of each chunk
    sets       \* number of setBlocks so far

lightVars == <<there, material, light, height, stale, sets>>

Unlit == [sky |-> [p \in Slice |-> 0], block |-> [p \in Slice |-> 0]]

LightInit ==
    /\ there = {}
    /\ material = [p \in Slice |-> "air"]
    /\ light = Unlit
    /\ height = [x \in 0..(Chunks * Width - 1) |-> 0]
    /\ stale = [c \in Row |-> FALSE]
    /\ sets = 0

Larger(a, b) == IF a > b THEN a ELSE b

-----------------------------------------------------------------------------
(* generateLight: the chunk's own light maps are cleared, then filled *)

Cleared(c, lit) ==
    [kind \in {"sky", "block"} |->
        [p \in Slice |-> IF p[1] \in Columns(c) THEN 0 ELSE lit[kind][p]]]

\* The cell next to a border column in a neighbouring chunk that is loaded; on
\* the left first.
Across(c, x, in) ==
    IF x = c * Width /\ c - 1 \in in THEN {x - 1}
    ELSE IF x = c * Width + Width - 1 /\ c + 1 \in in THEN {x + 1} ELSE {}

\* Sky light of a column, from the top down, until none is left.
SkyDown(c, x, mat, lit, in) ==
    LET down[y \in Level] ==
        LET above == IF y = Height - 1 THEN Full ELSE down[y + 1]
            beside == IF Across(c, x, in) = {} THEN 0
                      ELSE lit.sky[<<CHOOSE n \in Across(c, x, in) : TRUE, y>>] - 1
        IN  IF above = 0 THEN 0
            ELSE Larger(0, Larger(above, beside) - StopLight(mat[<<x, y>>]))
    IN down

\* The first level from above without light, or 0.
DarkFrom(sky) == Max({0} \union {y \in Level : sky[y] = 0})

Ground(x, mat) == {y \in Level : mat[<<x, y>>] # "air"}

\* The height is set on the way down, before the light ends.
HeightMap(c, mat, old) ==
    [x \in DOMAIN old |->
        IF x \notin Columns(c) \/ Ground(x, mat) = {} THEN old[x]
        ELSE IF Max(Ground(x, mat)) = Height - 1 THEN Height - 1
        ELSE Max(Ground(x, mat)) + 1]

\* The block whose light is set at (x, y) is that of column y: the index is
\* made from block_y where block_x was meant.
EmitterAt(c, x, y, mat) == mat[<<c * Width + y, y>>]

BlockLight(c, x, y, mat, lit, in) ==
    LET k == EmitterAt(c, x, y, mat)
        beside == IF Across(c, x, in) = {} THEN 0
                  ELSE lit.block[<<CHOOSE n \in Across(c, x, in) : TRUE, y>>] - 1
    IN  Larger(EmitLight(k), Larger(0, beside - StopLight(k)))

\* Before the light spreads.
Seeded(c, mat, lit, in) ==
    LET clear == Cleared(c, lit)
        sky == [x \in Columns(c) |-> SkyDown(c, x, mat, clear, in)]
        top == Max({DarkFrom(sky[x]) : x \in Columns(c)})
    IN  [sky |-> [p \in Slice |-> IF p[1] \in Columns(c) THEN sky[p[1]][p[2]]
                                  ELSE clear.sky[p]],
         block |-> [p \in Slice |->
                       IF p[1] \in Columns(c) /\ p[2] <= top
                       THEN BlockLight(c, p[1], p[2], mat, clear, in)
                       ELSE clear.block[p]]]

-----------------------------------------------------------------------------
(* spreadLight *)

\* The directions are tried in a fixed order, and the first that leads into a
\* chunk that is not loaded ends the function.
Around(p, in) ==
    LET right == <<p[1] + 1, p[2]>>
        left  == <<p[1] - 1, p[2]>>
        Ok(q) == q \in Slice /\ ChunkAt(q[1]) \in in
    IN  IF ~Ok(right) THEN {}
        ELSE IF ~Ok(left) THEN {right}
        ELSE {right, left} \union
             ({<<p[1], p[2] + 1>>, <<p[1], p[2] - 1>>} \intersect Slice)

\* The brightest light that one of the cells `from` hands on to q.
HandedOn(lit, from, q, mat, in) ==
    Max({0} \union {lit[p] - StopLight(mat[q]) - 1 :
                        p \in {a \in from : q \in Around(a, in)}})

\* What was raised spreads in its turn.
RECURSIVE SpreadLight(_, _, _, _)
SpreadLight(lit, from, mat, in) ==
    IF from = {} THEN lit
    ELSE LET raised == [q \in Slice |-> Larger(lit[q], HandedOn(lit, from, q, mat, in))]
         IN  SpreadLight(raised, {q \in Slice : raised[q] > lit[q]}, mat, in)

Lit(map, visited) == {p \in visited : map[p] > 0}

\* Light spreads from the cells below the height of the column.
Regenerated(c, mat, lit, tops, in) ==
    LET visited == {p \in Slice : p[1] \in Columns(c) /\ p[2] <= tops[p[1]]}
        seed == Seeded(c, mat, lit, in)
    IN  [kind \in {"sky", "block"} |->
            SpreadLight(seed[kind], Lit(seed[kind], visited), mat, in)]

-----------------------------------------------------------------------------
(* Actions *)

\* loadMap generates a chunk: stone at the bottom, and leaves or a cave.
Terrains == [flat |-> {}, tree |-> {1}, roof |-> {0, 1}]

GenerateChunk(c, t) ==
    LET mat == [p \in Slice |->
                   IF p[1] \notin Columns(c) THEN material[p]
                   ELSE IF p[2] = 0 THEN "stone"
                   ELSE IF p[2] = Height - 1 /\ p[1] - c * Width \in Terrains[t]
                        THEN IF t = "roof" THEN "stone" ELSE "leaves"
                   ELSE "air"]
    IN
    /\ c \notin there
    /\ there' = there \union {c}
    /\ material' = mat
    /\ height' = HeightMap(c, mat, height)
    /\ light' = Regenerated(c, mat, light, height', there')
    /\ UNCHANGED <<stale, sets>>

\* Faulty: a new block leaves the light as it is.
SetBlockDull(p, k) ==
    /\ ChunkAt(p[1]) \in there /\ sets < MaxSets /\ material[p] # k
    /\ material' = [material EXCEPT ![p] = k]
    /\ sets' = sets + 1
    /\ UNCHANGED <<there, light, height, stale>>

SetBlockLit(p, k) ==
    /\ ChunkAt(p[1]) \in there /\ sets < MaxSets /\ material[p] # k
    /\ material' = [material EXCEPT ![p] = k]
    /\ stale' = [stale EXCEPT ![ChunkAt(p[1])] = TRUE]
    /\ sets' = sets + 1
    /\ UNCHANGED <<there, light, height>>

\* Before a chunk is saved or sent to a user.
Regenerate(c) ==
    /\ c \in there /\ stale[c]
    /\ height' = HeightMap(c, material, height)
    /\ light' = Regenerated(c, material, light, height', there)
    /\ stale' = [stale EXCEPT ![c] = FALSE]
    /\ UNCHANGED <<there, material, sets>>

LightNext ==
    \/ \E c \in Row : Regenerate(c) \/ \E t \in DOMAIN Terrains : GenerateChunk(c, t)
    \/ \E p \in Slice, k \in Material \ {"leaves"} : SetBlockLit(p, k)

LightSpec == LightInit /\ [][LightNext]_lightVars

-----------------------------------------------------------------------------
(* Properties *)

Fresh(p) == ChunkAt(p[1]) \in there /\ ~stale[ChunkAt(p[1])]

\* A cell that nothing above shades has the full light of the sky.
OpenSkyIsFull ==
    \A p \in Slice :
        (Fresh(p) /\ \A y \in Level : y >= p[2] => StopLight(material[<<p[1], y>>]) = 0)
            => light.sky[p] = Full

\* The cells around that are in a loaded chunk.
AroundOpen(p, in) ==
    {q \in Slice : ChunkAt(q[1]) \in in
        /\ q \in {<<p[1] + 1, p[2]>>, <<p[1] - 1, p[2]>>,
                  <<p[1], p[2] + 1>>, <<p[1], p[2] - 1>>}}

\* Light does not come from nothing: in the only chunk that is loaded, when its
\* maps are up to date, a cell that is not under the open sky is no brighter
\* than the one above it, or has a neighbour that is brighter.  (A wall built in
\* the next chunk may leave light behind.)
SkyLightHasSource ==
    \A p \in Slice :
        (/\ Fresh(p) /\ there = {ChunkAt(p[1])} /\ light.sky[p] > 0
         /\ \E y \in Level : y >= p[2] /\ StopLight(material[<<p[1], y>>]) > 0) =>
        \/ p[2] < Height - 1 /\ light.sky[<<p[1], p[2] + 1>>] - StopLight(material[p]) >= light.sky[p]
        \/ p[2] = Height - 1 /\ light.sky[p] <= Full - StopLight(material[p])
        \/ \E q \in AroundOpen(p, there) : light.sky[q] > light.sky[p]

\* Light stops where nothing emits any: a loaded chunk whose maps are up to date,
\* without an emitter in it or in a neighbour, has no block light.
NoGhostLight ==
    (\A p \in Slice : EmitLight(material[p]) = 0)
      /\ (\A c \in there : ~stale[c]) /\ Cardinality(there) = 1
        => \A p \in Slice : light.block[p] = 0

\* Where light reaches the ground it goes on along it: next to a lit cell below
\* the height of its column no cell that lets light in is darker by more than
\* one, if both are in the chunk made last and not at its border.
LightSpreads ==
    \A p \in Slice :
        (Fresh(p) /\ Cardinality(there) = 1 /\ p[2] <= height[p[1]]) =>
            \A q \in Around(p, there) :
                light.sky[q] >= light.sky[p] - StopLight(material[q]) - 1

\* What the light maps of a chunk show, when they are sent or saved, is the light
\* of the blocks as they are by then: neither too dark nor too bright.
LightFollowsBlocks == OpenSkyIsFull /\ SkyLightHasSource /\ NoGhostLight /\ LightSpreads
=============================================================================
