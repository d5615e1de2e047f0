-------------------------------- MODULE Chests --------------------------------
(***************************************************************************)
(* Chests that join their neighbour: BlockChest, the chestData a chunk     *)
(* keeps of each, and the windows of InventoryChest.                       *)
(*                                                                         *)
(* Two chestData point at each other while their chests are joined; each   *)
(* holds one half of what both windows show. The pointers are not saved:   *)
(* a loaded chest looks for a partner when it is first opened or broken.   *)
(*                                                                         *)
(* All places lie in one chunk, a half has one slot and so has a player;   *)
(* there is one kind of item. Locks, which nothing asks for, are left out. *)
(***************************************************************************)
EXTENDS Integers, Sequences, FiniteSets, FiniteSetsExt, Functions

CONSTANTS
    Visitor,    \* players
    Spots,      \* places <<x, z>> for chests
    PairStack,  \* items that fit one slot (64)
    PairByte,   \* the count of an Item wraps here (128)
    Purse       \* the item each player begins with

\* The items are all of one kind.
OneKind(a, b) == a = b

C == INSTANCE Items WITH Stack <- PairStack, Byte <- PairByte, SameType <- OneKind
NoItem == C!Empty

Kinds == {Purse[u].kind : u \in Visitor} \ {NoItem.kind}

ASSUME SpotsAssumption == Spots \subseteq Int \X Int /\ IsFiniteSet(Spots)
ASSUME PurseAssumption ==
    /\ IsFiniteSet(Visitor)
    /\ Purse \in [Visitor -> {NoItem} \cup [kind : Kinds, n : Nat \ {0}]]
    /\ PairStack \in Nat

VARIABLES
    chests,   \* the room: see Room
    shown     \* what each player's open window shows

chestVars == <<chests, shown>>

\* One chestData: connected_loc (<< >> for none), connected_top,
\* connection_checked and the item of its slot. gone: connected_chest is the
\* data of a chest that broke, which the pointer keeps, without its items.
NewData == [conn |-> << >>, gone |-> FALSE, top |-> FALSE, checked |-> FALSE,
            item |-> NoItem, listed |-> TRUE]
NoData == [NewData EXCEPT !.listed = FALSE]
NoWindow == [p |-> << >>, large |-> FALSE]

\* block: where chests stand; data: chunk->chests; window: openInv; down: a
\* null pointer was followed; tangled: a chest that was loaded found its
\* neighbour taken, and is joined to it all the same; altered: a chest was
\* placed or broken while its window, or that of the next one, was open.
Room(standing) ==
    [block |-> standing, data |-> [p \in Spots |-> NoData],
     window |-> [u \in Visitor |-> NoWindow],
     hand |-> [u \in Visitor |-> NoItem], pack |-> Purse,
     ground |-> 0, down |-> FALSE, tangled |-> FALSE, altered |-> FALSE]

\* Chests of the map that have no tile entity have no data at first.
ChestsStart(standing) ==
    /\ chests = Room(standing)
    /\ shown = [u \in Visitor |-> << >>]
ChestsInit == \E standing \in SUBSET Spots : ChestsStart(standing)

------------------------------------------------------------------------------
(* Partners.                                                               *)

\* findConnectedChest asks the neighbours in this order and takes the first.
Beside(p) == << <<p[1] - 1, p[2]>>, <<p[1] + 1, p[2]>>,
                <<p[1], p[2] - 1>>, <<p[1], p[2] + 1>> >>
Joinable(s, p) == {i \in DOMAIN Beside(p) : Beside(p)[i] \in s.block}
Nearest(s, p) == Beside(p)[Min(Joinable(s, p))]
Before(q, p) == q[1] < p[1] \/ q[2] < p[2]

HasData(s, p) == p \in Spots /\ s.data[p].listed

\* Faulty: the data is made anew.
KnownAnew(s, p) == [s EXCEPT !.data[p] = NewData]

Known(s, p) == IF HasData(s, p) THEN s ELSE [s EXCEPT !.data[p] = NewData]
Large(s, p) == s.data[p].conn # << >>

Connect(s, p, q, top) ==
    IF Large(s, p) THEN s
    ELSE [s EXCEPT !.data[p] = [@ EXCEPT !.conn = q, !.gone = FALSE,
                                         !.top = top, !.checked = TRUE]]

\* top: q is the upper half.
Joined(s, p, q, top) == Connect(Connect(s, q, p, top), p, q, ~top)

\* The "quick connection test"; breaking does not look where the partner is.
Tested(s0, p, breaking) ==
    LET s1 == Known(s0, p)
        q == Nearest(s1, p)
        s2 == Known(s1, q)
        alone == Large(s1, p) \/ s1.data[p].checked \/ Joinable(s1, p) = {}
        s3 == IF alone THEN s1
              ELSE Joined([s2 EXCEPT !.tangled = @ \/ Large(s2, q)],
                          p, q, breaking \/ Before(q, p))
    IN  [s3 EXCEPT !.data[p].checked = TRUE]

------------------------------------------------------------------------------
(* BlockChest.                                                             *)

LookedInto(p) ==
    \E u \in Visitor : chests.window[u].p \in {p} \cup Range(Beside(p))

\* A new chest joins the first neighbour; a neighbour that is large refuses
\* it, if it is the first.
Placed(s0, p) ==
    LET alone == Joinable(s0, p) = {}
        q == Nearest(s0, p)
        s1 == [s0 EXCEPT !.block = @ \cup {p}, !.data[p] = NewData]
        s2 == IF alone THEN s1 ELSE Joined(Known(s1, q), p, q, Before(q, p))
    IN  IF ~alone /\ HasData(s0, q) /\ Large(s0, q) THEN s0
        ELSE [s2 EXCEPT !.data[p].checked = TRUE]

PlaceChest(p) ==
    /\ p \notin chests.block
    /\ chests' = [Placed(chests, p) EXCEPT !.altered = @ \/ LookedInto(p)]
    /\ UNCHANGED shown

\* The data goes; who is connected to it keeps a chest without items.
Erased(s, p) ==
    [s EXCEPT !.ground = @ + s.data[p].item.n,
              !.data = [q \in Spots |->
                           IF q = p THEN NoData
                           ELSE IF s.data[q].conn = p
                           THEN [s.data[q] EXCEPT !.gone = TRUE]
                           ELSE s.data[q]]]

\* Faulty: the partner stays.
BrokenHalf(s0, p) ==
    LET s == Tested(s0, p, TRUE)
    IN  [Erased(s, p) EXCEPT !.block = @ \ {p}]

\* What is in the chest falls and its data goes; at: the partner, which breaks
\* next, whatever stands by now where that one was. The blocks go last.
OneBroken(r) ==
    LET s == Tested(r.s, r.at, TRUE)
        q == s.data[r.at].conn
        out == Erased(s, r.at)
    IN  IF r.at = << >> THEN r
        ELSE [s |-> IF q = << >> \/ s.data[r.at].gone THEN out
                    ELSE [out EXCEPT !.data[q].conn = << >>,
                                     !.data[q].gone = FALSE],
              at |-> q, air |-> r.air \cup {r.at}]

\* onBroken calls itself for the partner, and never more often than this:
\* after a partner that was told of it there is none, and each of the others
\* is one less.
MaxChain == Cardinality(Spots) + 2
Broken(s, p) ==
    LET run[n \in 0 .. MaxChain] ==
            IF n = 0 THEN [s |-> s, at |-> p, air |-> {}]
            ELSE OneBroken(run[n - 1])
    IN  [run[MaxChain].s EXCEPT !.block = @ \ run[MaxChain].air]

BreakChest(p) ==
    /\ p \in chests.block
    /\ chests' = [Broken(chests, p) EXCEPT !.altered = @ \/ LookedInto(p)]
    /\ UNCHANGED shown

------------------------------------------------------------------------------
(* InventoryChest. Slots of a window: 1 is the upper half, 2 the lower.    *)

Halves(s, p) ==
    IF ~Large(s, p) THEN <<p>>
    ELSE IF s.data[p].top THEN <<p, s.data[p].conn>> ELSE <<s.data[p].conn, p>>
Content(s, p) == [i \in DOMAIN Halves(s, p) |-> s.data[Halves(s, p)[i]].item]

\* onInteract and onwindowOpen. A partner that broke has no items to send.
OpenChest(u, p) ==
    LET s == Tested(chests, p, FALSE)
    IN  /\ p \in chests.block
        /\ chests.window[u] = NoWindow
        /\ IF s.data[p].gone
           THEN /\ chests' = [s EXCEPT !.down = TRUE]
                /\ UNCHANGED shown
           ELSE /\ chests' = [s EXCEPT !.window[u] =
                                 [p |-> p, large |-> Large(s, p)]]
                /\ shown' = [shown EXCEPT ![u] = Content(s, p)]

\* What the hand holds falls to the ground.
CloseChest(u) ==
    /\ chests.window[u] # NoWindow
    /\ chests' = [chests EXCEPT !.window[u] = NoWindow,
                                !.ground = @ + chests.hand[u].n,
                                !.hand[u] = NoItem,
                                !.altered = @ /\ \E v \in Visitor \ {u} :
                                    chests.window[v] # NoWindow]
    /\ shown' = [shown EXCEPT ![u] = << >>]

\* Faulty: only those who opened the same block are told.
ToldHere(s, p) == {v \in Visitor : s.window[v].p = p}

\* otherUsers and otherUsersCon.
Told(s, p) ==
    {v \in Visitor : /\ s.window[v] # NoWindow
                     /\ s.window[v].p \in {p, s.data[p].conn}}

\* There is nothing to click on: no data, no partner, or one that broke.
Void(s, u, slot) ==
    LET p == s.window[u].p
    IN  \/ ~HasData(s, p)
        \/ /\ s.window[u].large
           /\ \/ ~Large(s, p)
              \/ s.data[p].gone /\ (slot = 1) # s.data[p].top

\* The half a slot belongs to; a window that was opened before the chest
\* was joined shows one half.
Clicked(s, u, slot) ==
    LET p == s.window[u].p
    IN  IF s.window[u].large THEN Halves(s, p)[slot] ELSE p

SlotsOf(u) == IF chests.window[u].large THEN {1, 2} ELSE {1}

\* A client drops what is meant for a window of the other size.
ClickChest(u, slot, button) ==
    LET s == chests
        h == Clicked(s, u, slot)
        item == s.data[h].item
        own == [x \in {1} |-> s.pack[u]]
        shift == C!Shifted(own, {1}, item, s.hand[u], button)
        moved == C!Moved(item, s.hand[u], button)
        left == IF shift THEN NoItem ELSE moved.slot
        told == {v \in Told(s, s.window[u].p) :
                    s.window[v].large = s.window[u].large}
    IN  IF Void(s, u, slot)
        THEN chests' = [s EXCEPT !.down = TRUE] /\ UNCHANGED shown
        ELSE /\ chests' = [s EXCEPT
                    !.data[h].item = left,
                    !.hand[u] = IF shift THEN @ ELSE moved.hand,
                    !.pack[u] = IF shift THEN C!AddItems(own, <<1>>, item)[1]
                                ELSE @]
             /\ shown' = [v \in Visitor |->
                    IF v \in told \cup {u}
                    THEN [shown[v] EXCEPT ![slot] = left] ELSE shown[v]]

\* A click on the player's own slot needs the chest's data as well.
ClickOwn(u, button) ==
    LET moved == C!Moved(chests.pack[u], chests.hand[u], button)
    IN  /\ chests' =
               IF HasData(chests, chests.window[u].p)
               THEN [chests EXCEPT !.pack[u] = moved.slot,
                                   !.hand[u] = moved.hand]
               ELSE [chests EXCEPT !.down = TRUE]
        /\ UNCHANGED shown

ClickWindow(u) ==
    /\ chests.window[u] # NoWindow
    /\ \E button \in {"left", "right", "shift"} :
           \/ \E slot \in SlotsOf(u) : ClickChest(u, slot, button)
           \/ button # "shift" /\ ClickOwn(u, button)

\* The chunk is written and released when nobody is near; what is read again
\* is the items, in data that was not tested.
ReloadChunk ==
    /\ \A u \in Visitor : chests.window[u] = NoWindow
    /\ \E p \in Spots : chests.data[p].checked
    /\ chests' = [chests EXCEPT
          !.data = [p \in Spots |->
              IF chests.data[p].listed
              THEN [NewData EXCEPT !.item = chests.data[p].item] ELSE NoData],
          !.tangled = FALSE]
    /\ UNCHANGED shown

ChestsNext ==
    /\ ~chests.down
    /\ \/ \E p \in Spots : PlaceChest(p) \/ BreakChest(p)
       \/ \E u \in Visitor, p \in Spots : OpenChest(u, p)
       \/ \E u \in Visitor : ClickWindow(u) \/ CloseChest(u)
       \/ ReloadChunk

ChestsSpec == ChestsInit /\ [][ChestsNext]_chestVars

------------------------------------------------------------------------------
(* Properties.                                                             *)

\* Joined chests agree on it: each is the other's partner, they touch, and
\* one of them is the upper half. Except after three chests in touch were
\* loaded, when the middle one may become the partner of both (onPlace,
\* onInteract, onBroken, connect).
PairsMirror ==
    chests.tangled \/ \A p \in Spots :
        LET q == chests.data[p].conn
        IN  HasData(chests, p) /\ q # << >> =>
                /\ q \in Range(Beside(p)) /\ HasData(chests, q)
                /\ chests.data[q].conn = p /\ ~chests.data[q].gone
                /\ chests.data[q].top # chests.data[p].top

\* Everybody whose window is that of the chest as it is now sees what is in
\* it, whichever half was opened and whoever clicked, unless the chest was
\* broken or joined while somebody looked into it (onwindowClick).
WatchersAgree ==
    chests.tangled \/ chests.altered \/ chests.down \/ \A u \in Visitor :
        LET w == chests.window[u]
        IN  HasData(chests, w.p) /\ Large(chests, w.p) = w.large
                => shown[u] = Content(chests, w.p)

\* Items are in one chest, hand or pocket, or on the ground: none comes or
\* goes when chests are joined, broken, loaded or clicked on.
ChestItems ==
    chests.ground
    + SumFunction([p \in Spots |-> chests.data[p].item.n])
    + SumFunction([u \in Visitor |-> chests.hand[u].n])
    + SumFunction([u \in Visitor |-> chests.pack[u].n])
ChestsKeepItems == [][ChestItems' = ChestItems]_chestVars

=============================================================================
