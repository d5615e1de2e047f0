------------------------------- MODULE Windows -------------------------------
(***************************************************************************)
(* The slots of a player and the windows that show them: the player's own  *)
(* with its crafting grid (InventoryPlayer), workbenches that players      *)
(* share (InventoryWorkbench), drags and number keys (InventoryBasic),     *)
(* recipes (doCraft), what the item in the hand goes through in the world, *)
(* and what a player's file keeps of it all (saveData, loadData).          *)
(*                                                                         *)
(* Slots have their numbers in User::inv; of each row there is one. The    *)
(* kind of an item stands for its type and its damage.                     *)
(***************************************************************************)
EXTENDS Integers, Sequences, FiniteSets, FiniteSetsExt, SequencesExt

CONSTANTS
    Bench,           \* positions of workbenches
    Goods,           \* kinds of items
    RecipeFiles,     \* the lines of the enabled recipes' files
    OwnGrid,         \* <<width, height>> of the player's grid (2, 2)
    BenchGrid,       \* and of a workbench's (3, 3)
    Hats,            \* kinds that canBeArmour accepts
    Tools,           \* the kinds of a tool, from new to its full damage
    Parties,         \* what players begin with in their toolbars, and bounds
    PileSize,        \* items that fit one slot (64)
    WrapAt,          \* the count of an Item wraps here (128)
    WholeStacks,     \* do stacks of more than one go through addItems?
    Worth(_),        \* what a kind costs in the cheapest one; none costs 0
    MaxDrag          \* bound: slots of one drag

None == <<"no bench">>
Alike(a, b) == a = b
I == INSTANCE Items WITH Stack <- PileSize, Byte <- WrapAt, SameType <- Alike
Empty == I!Empty
Of(k, n) == I!Of(k, n)

\* The rows of User::inv: output, grid, armour, the row only isSpace looks at
\* and the toolbar, which stands for the rows addItems goes through.
Cell(grid) == 1 .. grid[1] * grid[2]
Armour == 5
Upper == 9
Toolbar == 36
Kept == {Armour, Upper, Toolbar}
Slots == {0} \cup Cell(OwnGrid) \cup Kept
Rows == {Upper, Toolbar}
PackOrder == <<Toolbar>>

Stuff == {Empty} \cup [kind : Goods, n : Nat \ {0}]

ASSUME GridsAssumption ==
    /\ OwnGrid \in Nat \X Nat /\ OwnGrid[1] * OwnGrid[2] < Armour
    /\ BenchGrid \in Nat \X Nat /\ MaxDrag \in Nat
ASSUME BenchAssumption == IsFiniteSet(Bench) /\ None \notin Bench
ASSUME GoodsAssumption ==
    /\ IsFiniteSet(Goods) /\ Empty.kind \notin Goods /\ PileSize \in Nat
    /\ \A k \in Goods : Worth(k) \in Nat
    /\ Worth(Empty.kind) = 0
\* Damage does not make a tool dearer.
ASSUME ToolsAssumption ==
    /\ Tools \in Seq(Goods) /\ Tools # << >>
    /\ \A i \in DOMAIN Tools \ {1} : Worth(Tools[i]) <= Worth(Tools[i - 1])
ASSUME PartiesAssumption ==
    \A party \in Parties :
        /\ IsFiniteSet(DOMAIN party.bag) /\ party.most \in Nat
        /\ party.bag \in [DOMAIN party.bag -> Stuff]

VARIABLES
    items,   \* inv, hand, workbenches and the ground: see ItemsStart
    opened   \* openInv: the workbench each player is at, or None

windowVars == <<items, opened>>

\* leftover: a result is in the output slot whose ingredients are gone; most:
\* bound: what all may be worth after a respawn.
CleanBench == [i \in {0} \cup Cell(BenchGrid) |-> Empty]
ItemsStart(party) ==
    [inv |-> [u \in DOMAIN party.bag |->
                 [s \in Slots |-> IF s = Toolbar THEN party.bag[u] ELSE Empty]],
     hand |-> [u \in DOMAIN party.bag |-> Empty],
     bench |-> [b \in Bench |-> CleanBench],
     ground |-> [k \in Goods |-> 0],
     leftover |-> {}, most |-> party.most]

WindowsStart(party) ==
    items = ItemsStart(party) /\ opened = [u \in DOMAIN party.bag |-> None]
Crafter == DOMAIN opened

WindowsInit == \E party \in Parties : WindowsStart(party)

\* What all there is of items is worth; a result counts that is left over.
ItemWorth(item) == item.n * Worth(item.kind)
InvWorth(cells, S) == SumFunction([i \in S |-> ItemWorth(cells[i])])
OwnWorth(s, u) ==
    ItemWorth(s.hand[u]) + InvWorth(s.inv[u], Cell(OwnGrid)) + InvWorth(s.inv[u], Kept)
    + (IF u \in s.leftover THEN ItemWorth(s.inv[u][0]) ELSE 0)
GroundWorth(s) == SumFunction([k \in Goods |-> s.ground[k] * Worth(k)])
BenchesWorth(s) ==
    SumFunction([b \in Bench |-> InvWorth(s.bench[b], Cell(BenchGrid))])
TotalWorth(s) ==
    GroundWorth(s) + BenchesWorth(s) + SumFunction([u \in Crafter |-> OwnWorth(s, u)])

------------------------------------------------------------------------------
(* Recipes. A cell of a recipe is a set of kinds, as its damage value may  *)
(* be open, and a count; an empty one is {"none"} and 0.                   *)

\* readRecipe: rows of cells between the lines "<-" and "->", settings outside.
NewRecipe == [width |-> 0, height |-> 0, outputcount |-> 0,
              outputtype |-> "none", cells |-> << >>, reading |-> FALSE]
ReadLine(r, line) ==
    IF line.word \in {"<-", "->"} THEN [r EXCEPT !.reading = line.word = "<-"]
    ELSE IF r.reading THEN [r EXCEPT !.cells = @ \o line.value]
    ELSE [r EXCEPT ![line.word] = line.value]
ReadRecipe(lines) == FoldLeft(ReadLine, NewRecipe, lines)
Recipes == [i \in DOMAIN RecipeFiles |-> ReadRecipe(RecipeFiles[i])]

Area(r) == (0 .. r.width - 1) \X (0 .. r.height - 1)
Want(r, x, y) == r.cells[y * r.width + x + 1]

\* Recipes ask for something, and for as much as they give: of whatever kinds
\* the ingredients are, one of each costs no less than the output.
ASSUME RecipesAssumption ==
    /\ DOMAIN RecipeFiles \subseteq Nat
    /\ \A i \in DOMAIN RecipeFiles :
        LET r == Recipes[i]
        IN  /\ r.width \in Nat /\ r.height \in Nat
            /\ r.outputtype \in Goods /\ r.outputcount \in Nat
            /\ \E c \in Area(r) : Empty.kind \notin Want(r, c[1], c[2]).kinds
            /\ \A pick \in [Area(r) -> Goods \cup {Empty.kind}] :
                  (\A c \in Area(r) : pick[c] \in Want(r, c[1], c[2]).kinds)
                      => r.outputcount * Worth(r.outputtype)
                            <= SumFunction([c \in Area(r) |-> Worth(pick[c])])

Matches(cells, grid, r, dx, dy) ==
    \A x \in 0 .. grid[1] - 1, y \in 0 .. grid[2] - 1 :
        LET cell == cells[y * grid[1] + x + 1]
            want == Want(r, x - dx, y - dy)
        IN  IF x \in dx .. dx + r.width - 1 /\ y \in dy .. dy + r.height - 1
            THEN cell.kind \in want.kinds /\ cell.n >= want.n
            ELSE cell = Empty

\* doCraft: the output of the first recipe that fits somewhere.
Makes(cells, grid, r) ==
    /\ r.width <= grid[1] /\ r.height <= grid[2]
    /\ \E dx \in 0 .. grid[1] - r.width, dy \in 0 .. grid[2] - r.height :
           Matches(cells, grid, r, dx, dy)
DoCraft(cells, grid) ==
    LET made == {i \in DOMAIN Recipes : Makes(cells, grid, Recipes[i])}
    IN  IF made = {} THEN Empty
        ELSE Of(Recipes[Min(made)].outputtype, Recipes[Min(made)].outputcount)

------------------------------------------------------------------------------
(* Clicks. A slot of a window is <<"inv", s>> or <<"bench", s>>.           *)

At(s, u, x) ==
    IF x[1] = "inv" THEN s.inv[u][x[2]] ELSE s.bench[opened[u]][x[2]]
Put(s, u, x, item) ==
    IF x[1] = "inv" THEN [s EXCEPT !.inv[u][x[2]] = item]
    ELSE [s EXCEPT !.bench[opened[u]][x[2]] = item]
Hold(s, u, item) == [s EXCEPT !.hand[u] = item]

\* One of each ingredient goes, whatever the recipe asks for.
Paid(cells) == [i \in DOMAIN cells |->
    IF i = 0 \/ cells[i] = Empty THEN cells[i] ELSE I!Less(cells[i])]

\* Faulty: what is in the first cell stays.
ConsumeFew(s, u, x) ==
    IF x[1] = "bench"
    THEN [s EXCEPT !.bench[opened[u]] = [Paid(@) EXCEPT ![1] = s.bench[opened[u]][1]]]
    ELSE [s EXCEPT !.inv[u] = [i \in Slots |->
             IF i \in Cell(OwnGrid) \ {1} THEN Paid(s.inv[u])[i]
             ELSE s.inv[u][i]]]

Consume(s, u, x) ==
    IF x[1] = "bench" THEN [s EXCEPT !.bench[opened[u]] = Paid(@)]
    ELSE [s EXCEPT !.inv[u] = [i \in Slots |->
             IF i \in Cell(OwnGrid) THEN Paid(s.inv[u])[i] ELSE s.inv[u][i]]]

\* Faulty: what was made stays on offer when a slot was emptied.
RecraftLate(s, u, x) ==
    IF At(s, u, x) = Empty THEN s
    ELSE IF x[1] = "bench"
    THEN [s EXCEPT !.bench[opened[u]][0] = DoCraft(s.bench[opened[u]], BenchGrid)]
    ELSE [s EXCEPT !.inv[u][0] = DoCraft(s.inv[u], OwnGrid),
                   !.leftover = @ \ {u}]

\* "Check if crafting": a workbench always, the own grid when it changed.
Recraft(s, u, x) ==
    IF x[1] = "bench"
    THEN [s EXCEPT !.bench[opened[u]][0] = DoCraft(s.bench[opened[u]], BenchGrid)]
    ELSE [s EXCEPT !.inv[u][0] = DoCraft(s.inv[u], OwnGrid),
                   !.leftover = @ \ {u}]

\* The output: taken whole by an empty hand or one that has room for it.
TakeOutput(s, u, x) ==
    LET made == At(s, u, x)
        held == s.hand[u]
        fits == \/ held = Empty
                \/ held.kind = made.kind /\ I!Room(held) >= made.n
                   /\ made.n < PileSize
    IN  IF made = Empty \/ ~fits THEN s
        ELSE Recraft(Consume(Hold(s, u, Of(made.kind, held.n + made.n)), u, x),
                     u, x)

\* Armour slots take one piece.
ClickArmour(s, u, x) ==
    LET worn == At(s, u, x)
        held == s.hand[u]
    IN  IF worn = Empty /\ held # Empty /\ held.kind \in Hats
        THEN Hold(Put(s, u, x, Of(held.kind, 1)), u, I!Less(held))
        ELSE IF worn # Empty /\ (held = Empty \/ (held.kind \in Hats /\ held.n = 1))
        THEN Hold(Put(s, u, x, held), u, worn)
        ELSE s

\* Shift-click: the item goes to where addItems puts it, its slot is emptied
\* after that.
ClickShift(s, u, x) ==
    LET s1 == [s EXCEPT !.inv[u] = I!AddItems(@, PackOrder, At(s, u, x))]
    IN  Put(s1, u, x, Empty)

ClickSlot(s, u, x, button) ==
    LET moved == I!Moved(At(s, u, x), s.hand[u], button)
    IN  IF /\ I!Shifted(s.inv[u], Rows, At(s, u, x), s.hand[u], button)
           /\ WholeStacks \/ At(s, u, x).n = 1
        THEN ClickShift(s, u, x)
        ELSE Hold(Put(s, u, x, moved.slot), u, moved.hand)

\* onwindowClick; the own grid is looked at again if one of its slots was
\* clicked.
OnWindowClick(s, u, x, button) ==
    LET s1 == ClickSlot(s, u, x, button)
    IN  IF x[2] = 0 THEN
            IF x[1] = "bench" THEN Recraft(TakeOutput(s, u, x), u, x)
            ELSE TakeOutput(s, u, x)
        ELSE IF x = <<"inv", Armour>> THEN ClickArmour(s, u, x)
        ELSE IF x[1] = "inv" /\ opened[u] = None
        THEN IF x[2] \in Cell(OwnGrid) THEN Recraft(s1, u, x) ELSE s1
        ELSE Recraft(s1, u, <<"bench", x[2]>>)

\* A workbench's window shows the rows, not the armour and the own grid.
Shown(u) ==
    IF opened[u] = None THEN {<<"inv", i>> : i \in Slots}
    ELSE {<<"inv", i>> : i \in Rows}
         \cup {<<"bench", i>> : i \in {0} \cup Cell(BenchGrid)}

Click(u) ==
    /\ \E x \in Shown(u), button \in {"left", "right", "shift"} :
           items' = OnWindowClick(items, u, x, button)
    /\ UNCHANGED opened

------------------------------------------------------------------------------
(* Drags and number keys.                                                  *)

\* One click per slot with its share; what a slot would not take, or had to
\* give for it, is overwritten.
Dealt(s, u, xs, share) ==
    LET dealt[n \in 0 .. Len(xs)] ==
            IF n = 0 THEN s
            ELSE OnWindowClick(Hold(dealt[n - 1], u, share), u, xs[n], "left")
    IN  dealt[Len(xs)]

\* The end of a drag; the slots were noted while the button was down.
HandleDrag(s, u, xs, button) ==
    LET held == s.hand[u]
        n == IF button = "left" THEN held.n \div Len(xs) ELSE 1
    IN  IF Len(xs) > held.n THEN s
        ELSE Hold(Dealt(s, u, xs, Of(held.kind, n)), u,
                  Of(held.kind, held.n - n * Len(xs)))

Drag(u) ==
    /\ items.hand[u] # Empty
    /\ \E k \in 1 .. MaxDrag : \E xs \in [1 .. k -> Shown(u)] :
           /\ \A i, j \in 1 .. k : xs[i] = xs[j] => i = j
           /\ \E button \in {"left", "right"} :
                  items' = HandleDrag(items, u, xs, button)
    /\ UNCHANGED opened

\* Pick up from the toolbar, swap with the slot, put back.
HandleNumber(s, u, x) ==
    LET hot == <<"inv", Toolbar>>
        s2 == OnWindowClick(OnWindowClick(s, u, hot, "left"), u, x, "left")
    IN  IF s.hand[u] # Empty THEN s
        ELSE IF s2.hand[u] = Empty THEN s2
        ELSE OnWindowClick(s2, u, hot, "left")

NumberKey(u) ==
    /\ \E x \in Shown(u) : items' = HandleNumber(items, u, x)
    /\ UNCHANGED opened

------------------------------------------------------------------------------
(* Opening, closing, leaving.                                              *)

Fallen(s, item) ==
    IF item = Empty THEN s ELSE [s EXCEPT !.ground[item.kind] = @ + item.n]
HandDropped(s, u) == Hold(Fallen(s, s.hand[u]), u, Empty)

\* All but the output falls.
Emptied(s, cells) ==
    [s EXCEPT !.ground = [k \in Goods |->
        @[k] + SumFunction([i \in DOMAIN cells \ {0} |->
                               IF cells[i].kind = k THEN cells[i].n ELSE 0])]]

\* The last one to leave a workbench drops what lies on it, not the output.
BenchLeft(s, u) ==
    LET b == opened[u]
    IN  IF b = None \/ \E v \in Crafter \ {u} : opened[v] = b THEN s
        ELSE [Emptied(s, s.bench[b]) EXCEPT !.bench[b] = CleanBench]

\* A window that is still open is closed first.
OpenBench(u, b) ==
    /\ opened[u] # b
    /\ items' = BenchLeft(items, u)
    /\ opened' = [opened EXCEPT ![u] = b]

\* A click beside the window.
ClickOutside(u) == items' = HandDropped(items, u) /\ UNCHANGED opened

CloseWindow(u) ==
    /\ items' = BenchLeft(HandDropped(items, u), u)
    /\ opened' = [opened EXCEPT ![u] = None]

\* Slots of a player's file: the rows from 0, the grid from 80, the armour
\* from 103 downwards; the slots of the grid run into the first of the armour.
FileSlot(i) ==
    IF i >= Upper THEN {i - Upper}
    ELSE (IF i >= Armour THEN {103 - (i - Armour)} ELSE {})
         \cup (IF i \in 1 .. 5 THEN {79 + i} ELSE {})
SlotOf(f) ==
    IF f \in 0 .. 35 THEN {f + Upper}
    ELSE IF f \in 80 .. 83 THEN {f - 79}
    ELSE IF f \in 100 .. 103 THEN {8 + (100 - f)}
    ELSE {}

SaveData(inv) ==
    UNION {{[slot |-> f, item |-> inv[i]] : f \in FileSlot(i)} :
              i \in {j \in DOMAIN inv : j # 0 /\ inv[j] # Empty}}
LoadData(file) ==
    [i \in Slots |->
        LET found == {e \in file : i \in SlotOf(e.slot)}
        IN  IF found = {} THEN Empty ELSE (CHOOSE e \in found : TRUE).item]

\* A player leaves and comes back: saveData comes before the hand is emptied
\* and the window closed (~User).
Rejoin(u) ==
    /\ items' = [BenchLeft(HandDropped(items, u), u) EXCEPT
                    !.inv[u] = LoadData(SaveData(items.inv[u])),
                    !.leftover = @ \ {u}]
    /\ opened' = [opened EXCEPT ![u] = None]

\* dropInventory begins with slot 1.
Respawn(u) ==
    /\ items' = [Emptied(items, items.inv[u]) EXCEPT
                    !.inv[u] = [i \in Slots |-> IF i = 0 THEN items.inv[u][0] ELSE Empty],
                    !.leftover = IF items.inv[u][0] = Empty THEN @ ELSE @ \cup {u}]
    /\ TotalWorth(items') <= items.most
    /\ UNCHANGED opened

------------------------------------------------------------------------------
(* The hand in the world.                                                  *)

\* BLOCK_STATUS_DROP_ITEM, for one item and for the whole stack.
DropItem(u) ==
    LET item == items.inv[u][Toolbar]
    IN  /\ item # Empty
        /\ items' = [Fallen(items, Of(item.kind, 1)) EXCEPT
                        !.inv[u][Toolbar] = I!Less(item)]
        /\ UNCHANGED opened

\* updatePos: what lies near is picked up if there seems to be room.
PickUp(u, k) ==
    LET n == IF WholeStacks THEN items.ground[k] ELSE 1
    IN  /\ items.ground[k] > 0
        /\ I!IsSpace(items.inv[u], Rows, Of(k, n))
        /\ items' = [items EXCEPT
                        !.ground[k] = @ - n,
                        !.inv[u] = I!AddItems(@, PackOrder, Of(k, n))]
        /\ UNCHANGED opened

\* A block was broken with a tool: one that is not meant for the block is
\* used twice. The damage is the stack's: the stack is lost when it is too
\* much, one tool when it is just reached.
Dented(item) ==
    IF item = Empty \/ item.kind = Last(Tools) THEN Empty
    ELSE Of(Tools[1 + CHOOSE i \in DOMAIN Tools : Tools[i] = item.kind], item.n)
Worn(item, right) ==
    LET used == IF right THEN Dented(item) ELSE Dented(Dented(item))
    IN  IF used.kind = Last(Tools) THEN I!Less(used) ELSE used

UseTool(u) ==
    LET item == items.inv[u][Toolbar]
    IN  /\ item.kind \in Range(Tools)
        /\ \E right \in BOOLEAN :
               items' = [items EXCEPT !.inv[u][Toolbar] = Worn(item, right)]
        /\ UNCHANGED opened

WindowsNext ==
    \E u \in Crafter :
        \/ Click(u) \/ Drag(u) \/ NumberKey(u)
        \/ ClickOutside(u) \/ CloseWindow(u) \/ Rejoin(u) \/ Respawn(u)
        \/ DropItem(u) \/ UseTool(u)
        \/ \E b \in Bench : OpenBench(u, b)
        \/ \E k \in Goods : PickUp(u, k)

WindowsSpec == WindowsInit /\ [][WindowsNext]_windowVars

------------------------------------------------------------------------------
(* Properties.                                                             *)

\* Nothing is had for nothing: what there is of items, on the ground, in
\* hands, slots and workbenches, is never worth more than before, whatever
\* is clicked, dragged, crafted, shared, used, dropped or loaded. A result in
\* an output slot counts only when nothing is to be paid for it any more,
\* which is so for the one that a player keeps who respawns (onwindowClick,
\* handleDrag, doCraft, saveData, dropInventory).
CraftIsPaid ==
    [][\/ UNCHANGED items
       \/ TotalWorth(items') <= TotalWorth(items)
       \/ items'.leftover # items.leftover]_windowVars

\* What an output slot offers is what its grid makes, after every click of
\* whoever is at it; the player's own may be empty after the player came
\* back, and hold a result after a respawn (doCraft, loadData).
OutputIsCurrent ==
    /\ \A b \in Bench : items.bench[b][0] = DoCraft(items.bench[b], BenchGrid)
    /\ \A u \in Crafter \ items.leftover :
           items.inv[u][0] \in {Empty, DoCraft(items.inv[u], OwnGrid)}
=============================================================================
