------------------------------- MODULE Furnace -------------------------------
(***************************************************************************)
(* Furnaces: the data a chunk keeps of each (furnaceData), the list of     *)
(* furnaces at work (FurnaceManager), their blocks in the world, and the   *)
(* players who open their windows and move items with the mouse.           *)
(*                                                                         *)
(* Three things have to be kept together: the data the windows show and    *)
(* change, the Furnace objects the manager updates every second, and the   *)
(* block. Each is changed by handlers that see one or two of them. In      *)
(* particular a broken furnace leaves its chunk while the manager still    *)
(* holds it: that Furnace is called an orphan below.                       *)
(*                                                                         *)
(* The chunk stays in memory (ChunkView shows why, as long as somebody is  *)
(* near) and there is one map. Drags and number keys are left out.         *)
(***************************************************************************)
EXTENDS Integers, Sequences, FiniteSets, FiniteSetsExt

CONSTANTS
    User,
    Place,        \* positions at which furnaces may stand
    Pack,         \* slots of a player's own inventory
    PackOrder,    \* those addItems looks at, in its order
    Start,        \* what is in each player's slots at first
    None,
    Stack,        \* items that fit one slot (64)
    Byte,         \* the count of an Item wraps at Byte (128)
    Yield,        \* results of smelting one item (a recipe's count)
    FuelTime,     \* seconds that a piece of fuel burns (80)
    CookTime,     \* seconds that an item takes (10)
    ShiftClicks   \* do players use shift-click?

\* "odd" is the result of smelting with a damage value other than the
\* recipe's: its type is the same.
Kind == {"raw", "cooked", "odd", "coal"}
Item == [kind : Kind, n : 1 .. Byte - 1] \cup {[kind |-> "none", n |-> 0]}
ASSUME FurnaceAssumption ==
    /\ IsFiniteSet(User) /\ IsFiniteSet(Place) /\ IsFiniteSet(Pack)
    /\ PackOrder \in Seq(Pack)
    /\ Start \in [User -> [Pack -> Item]]
    /\ {Stack, Byte, Yield, FuelTime, CookTime} \subseteq Nat \ {0}
    /\ Stack < Byte /\ Yield < Byte
    /\ ShiftClicks \in BOOLEAN

VARIABLES
    site,     \* for each place: block, chunk's furnaceData, active Furnace
    hand,     \* inventoryHolding
    pack,     \* inv
    open,     \* openInv: the furnace whose window is open, or None
    eclipsed  \* places whose data was made while an orphan worked there

vars == <<site, hand, pack, open, eclipsed>>

Slot == {"input", "fuel", "output"}
Alike(a, b) == a = b \/ {a, b} = {"cooked", "odd"}

INSTANCE Items WITH SameType <- Alike

NewData == [items |-> [s \in Slot |-> Empty], burn |-> 0, cook |-> 0]
Data == [items : [Slot -> Item], burn : 0 .. FuelTime, cook : 0 .. CookTime]

Site == [block : {"air", "furnace", "burning"},
         data : Data \cup {None},             \* in chunk->furnaces
         active : {"no", "chunk", "orphan"},  \* in m_activeFurnaces, and on
                                              \* whose data
         orphan : Data \cup {None},
         lit : BOOLEAN]                       \* m_burning

ASSUME NoneAssumption == None \notin Data

NoSite == [block |-> "air", data |-> None, active |-> "no",
           orphan |-> None, lit |-> FALSE]

Init ==
    /\ site = [p \in Place |-> NoSite]
    /\ hand = [u \in User |-> Empty]
    /\ pack = Start
    /\ open = [u \in User |-> None]
    /\ eclipsed = {}

------------------------------------------------------------------------------
(* class Furnace, on the data it was made with.                            *)

IsBurningFuel(d) == d.burn > 0
HasValidIngredient(d) == d.items["input"].kind = "raw"
IsCooking(d) == IsBurningFuel(d) /\ HasValidIngredient(d)

Running(f) == IF f.active = "orphan" THEN f.orphan ELSE f.data
WithRunning(f, d) ==
    IF f.active = "orphan" THEN [f EXCEPT !.orphan = d]
                           ELSE [f EXCEPT !.data = d]
Stopped(f) == [f EXCEPT !.active = "no", !.orphan = None, !.lit = FALSE]

\* The block becomes what the status says, whatever block was there.
UpdateBlock(f) ==
    LET fire == IsBurningFuel(Running(f))
    IN  IF fire = f.lit THEN f
        ELSE [f EXCEPT !.lit = fire,
                       !.block = IF fire THEN "burning" ELSE "furnace"]

UpdateItems(d) == IF HasValidIngredient(d) THEN d ELSE [d EXCEPT !.cook = 0]

\* The constructor of Furnace.
NewFurnace(f) ==
    UpdateBlock([f EXCEPT !.active = "chunk", !.lit = (f.block = "burning")])

\* The block follows at the end of update, before anybody looks at it.
ConsumeFuel(d) ==
    IF d.items["fuel"].kind # "coal" THEN d
    ELSE [d EXCEPT !.burn = @ + FuelTime, !.items["fuel"] = Less(@)]

\* When the last ingredient goes, the damage value of the result is read
\* from createList[-1]: garbage is what it then becomes.
Smelt(d, garbage) ==
    LET in == d.items["input"]
        out == d.items["output"]
    IN  IF out.n = Stack THEN d
        ELSE IF out = Empty
        THEN [d EXCEPT !.items["output"] = Of("cooked", 1),
                       !.items["input"] = Less(in),
                       !.cook = 0]
        ELSE IF Alike(out.kind, "cooked")
        THEN [d EXCEPT !.items["output"] =
                           Of(IF in.n = 1 THEN garbage ELSE "cooked",
                              Wrapped(out.n + Yield)),
                       !.items["input"] = Less(in),
                       !.cook = 0]
        ELSE d

------------------------------------------------------------------------------
(* FurnaceManager.                                                         *)

\* Faulty: only a furnace that burns already is added.
HandleActivityBurning(f) ==
    LET g == IF f.active = "no" THEN NewFurnace(f) ELSE f
    IN  IF IsCooking(Running(g)) THEN g ELSE Stopped(g)

\* A Furnace at the same position is taken for the one the data belongs to.
HandleActivity(f) ==
    LET g == IF f.active = "no" THEN NewFurnace(f)
             ELSE WithRunning(f, UpdateItems(Running(f)))
        d == Running(g)
    IN  IF (IsBurningFuel(d) \/ d.items["fuel"].n > 0) /\ HasValidIngredient(d)
        THEN g ELSE Stopped(g)

Burnt(d) == [d EXCEPT !.burn = IF @ > 0 THEN @ - 1 ELSE @]

Refuelled(d) ==
    IF ~IsBurningFuel(d) /\ HasValidIngredient(d) THEN ConsumeFuel(d) ELSE d

\* cookTime grows on while the output is blocked; that it reached CookTime
\* is all that matters of it.
Cooked(d, garbage) ==
    IF ~IsCooking(d) THEN d
    ELSE IF d.cook + 1 < CookTime THEN [d EXCEPT !.cook = @ + 1]
    ELSE Smelt([d EXCEPT !.cook = CookTime], garbage)

\* Faulty: a furnace stays in the list for good.
UpdatedKeep(f, garbage) ==
    UpdateBlock(WithRunning(f, Cooked(Refuelled(Burnt(Running(f))), garbage)))

\* One round of update for one furnace.
Updated(f, garbage) ==
    LET d == Cooked(Refuelled(Burnt(Running(f))), garbage)
        g == UpdateBlock(WithRunning(f, d))
    IN  IF IsBurningFuel(d) THEN g ELSE Stopped(g)

Update ==
    /\ \E p \in Place : site[p].active # "no"
    /\ \E garbage \in [Place -> {"cooked", "odd"}] :
           site' = [p \in Place |->
                       IF site[p].active = "no" THEN site[p]
                       ELSE Updated(site[p], garbage[p])]
    /\ UNCHANGED <<hand, pack, open, eclipsed>>

------------------------------------------------------------------------------
(* Blocks: BlockFurnace.                                                   *)

\* The chunk forgets the data; the manager is not told.
Forgotten(f) ==
    [f EXCEPT !.data = None,
              !.orphan = IF f.active = "chunk" THEN f.data ELSE @,
              !.active = IF @ = "chunk" THEN "orphan" ELSE @]

OnPlace(p) ==
    /\ site[p].block = "air"
    /\ \E u \in User : open[u] = None
    /\ site' = [site EXCEPT ![p] = [Forgotten(@) EXCEPT !.block = "furnace"]]
    /\ eclipsed' = eclipsed \ {p}
    /\ UNCHANGED <<hand, pack, open>>

OnBroken(p) ==
    /\ site[p].block # "air"
    /\ \E u \in User : open[u] = None
    /\ site' = [site EXCEPT ![p] = [Forgotten(@) EXCEPT !.block = "air"]]
    /\ eclipsed' = eclipsed \ {p}
    /\ UNCHANGED <<hand, pack, open>>

------------------------------------------------------------------------------
(* Windows: InventoryFurnace and the operations of Inventory it uses.      *)

OnWindowOpen(u, p) ==
    /\ site[p].block # "air"
    /\ open[u] # p
    /\ open' = [open EXCEPT ![u] = p]
    /\ UNCHANGED <<site, hand, pack, eclipsed>>

\* What the hand holds falls to the ground.
WindowClose(u) ==
    /\ open[u] # None
    /\ open' = [open EXCEPT ![u] = None]
    /\ hand' = [hand EXCEPT ![u] = Empty]
    /\ UNCHANGED <<site, pack, eclipsed>>

ClickPack(u, s, button) ==
    LET slot == pack[u][s]
        moved == Moved(slot, hand[u], button)
    IN  /\ IF Shifted(pack[u], Pack, slot, hand[u], button)
           THEN /\ pack' = [pack EXCEPT
                               ![u] = [AddItems(@, PackOrder, slot) EXCEPT ![s] = Empty]]
                /\ UNCHANGED hand
           ELSE /\ pack' = [pack EXCEPT ![u][s] = moved.slot]
                /\ hand' = [hand EXCEPT ![u] = moved.hand]
        /\ UNCHANGED <<site, open, eclipsed>>

\* Data that does not exist is made by the first click on it, whatever the
\* block; a click on the input or the fuel is reported to the manager.
ClickFurnace(u, s, button) ==
    LET p == open[u]
        d == IF site[p].data = None THEN NewData ELSE site[p].data
        slot == d.items[s]
        moved == Moved(slot, hand[u], button)
        shift == Shifted(pack[u], Pack, slot, hand[u], button)
        f == [site[p] EXCEPT !.data = [d EXCEPT
                 !.items[s] = IF shift THEN Empty ELSE moved.slot]]
    IN  /\ site' = [site EXCEPT
                       ![p] = IF s = "output" THEN f ELSE HandleActivity(f)]
        /\ hand' = [hand EXCEPT ![u] = IF shift THEN @ ELSE moved.hand]
        /\ pack' = [pack EXCEPT ![u] = IF shift THEN AddItems(@, PackOrder, slot) ELSE @]
        /\ eclipsed' =
               IF site[p].data = None /\ site[p].active = "orphan"
               THEN eclipsed \cup {p} ELSE eclipsed
        /\ UNCHANGED open

Button == {"left", "right"} \cup (IF ShiftClicks THEN {"shift"} ELSE {})

OnWindowClick(u) ==
    /\ open[u] # None
    /\ \E button \in Button :
           \/ \E s \in Pack : ClickPack(u, s, button)
           \/ \E s \in Slot : ClickFurnace(u, s, button)

------------------------------------------------------------------------------
Next ==
    \/ Update
    \/ \E p \in Place : OnPlace(p) \/ OnBroken(p)
    \/ \E u \in User : OnWindowClick(u) \/ WindowClose(u)
    \/ \E u \in User, p \in Place : OnWindowOpen(u, p)

\* timed_1s runs update every second. Players need do nothing.
Spec == Init /\ [][Next]_vars /\ WF_vars(Update)

------------------------------------------------------------------------------
(* Properties.                                                             *)

\* What all slots, hands and fires hold together, when w says what an item
\* of each kind and a second of fire ("flame") are worth.
InItem(w, item) == item.n * w[item.kind]
InData(w, d) ==
    IF d = None THEN 0
    ELSE InItem(w, d.items["input"]) + InItem(w, d.items["fuel"])
         + InItem(w, d.items["output"]) + d.burn * w["flame"]
InSite(w, f) == InData(w, f.data) + InData(w, f.orphan)
InUser(w, held, inv) ==
    InItem(w, held) + SumFunction([s \in Pack |-> InItem(w, inv[s])])
InAll(w) ==
    SumFunction([p \in Place |-> InSite(w, site[p])])
    + SumFunction([u \in User |-> InUser(w, hand[u], pack[u])])

\* What there is in results, smelted or to be smelted; and in seconds of
\* fire, burning or to be burnt.
Thing == Kind \cup {"none", "flame"}
Results == [k \in Thing |-> IF k = "raw" THEN Yield
                            ELSE IF k \in {"cooked", "odd"} THEN 1 ELSE 0]
Seconds == [k \in Thing |-> IF k = "coal" THEN FuelTime
                            ELSE IF k = "flame" THEN 1 ELSE 0]

\* Nothing comes from nothing: no click, whatever the button and the stacks,
\* and no smelting adds to the ingredients and their results in all slots
\* and hands together (smelt, onwindowClick, addItems); nor to the fuel, in
\* slots or burning, however a furnace goes in and out of the manager's list
\* (consumeFuel, update).
NothingFromNothing == 
    [][InAll(Results)' <= InAll(Results) /\ InAll(Seconds)' <= InAll(Seconds)]_vars

\* A furnace that has something to smelt and fire or fuel for it is in the
\* manager's list, or it would never be served, as only clicks add to that
\* list; unless its data was made when an orphan held its position
\* (handleActivity, update).
CanCook(d) ==
    /\ HasValidIngredient(d)
    /\ \/ IsBurningFuel(d)
       \/ d.items["fuel"].kind = "coal" /\ d.items["fuel"].n > 0
CookableIsActive ==
    \A p \in Place \ eclipsed :
        site[p].data # None /\ CanCook(site[p].data) => site[p].active = "chunk"

\* Furnaces nobody touches go out in the end, and the list empties (update).
FireGoesOut ==
    <>[](\A u \in User : open[u] = None) => <>[](\A p \in Place : site[p].active = "no")
=============================================================================
