------------------------------- MODULE PlayProofs -------------------------------
(***************************************************************************)
(* Theorems about Windows: output slots offer what their grids make, and   *)
(* nothing is had for nothing, whatever the players, workbenches, recipes  *)
(* and grids. Then about Mobs: a mob gives what it drops once, and every   *)
(* client shows the mobs the plugin drives, and no other, however many     *)
(* players and mobs there are and however many come, go, die and are       *)
(* shorn.                                                                  *)
(***************************************************************************)
EXTENDS Windows, Mobs, NumberFacts, SequenceTheorems

-----------------------------------------------------------------------------
(* Items, and what they are worth.                                         *)

(* Nothing is worth nothing; what is something has a kind and a number.     *)
LEMMA StuffFacts ==
    /\ Empty \in Stuff /\ Empty.n = 0 /\ ItemWorth(Empty) = 0
    /\ I!Empty = Empty
    /\ \A i \in Stuff : /\ i.n \in Nat /\ Worth(i.kind) \in Nat
                        /\ ItemWorth(i) \in Nat
                        /\ i.kind \in Goods \cup {Empty.kind}
                        /\ i # Empty => i.kind \in Goods /\ i.n >= 1
                        /\ i.kind = Empty.kind => i = Empty
  <1>1. Empty = [kind |-> "none", n |-> 0] /\ I!Empty = Empty
    BY DEF Empty, I!Empty
  <1>2. Empty \in Stuff /\ Empty.n = 0 /\ ItemWorth(Empty) = 0
    BY <1>1, GoodsAssumption DEF Stuff, ItemWorth
  <1>3. ASSUME NEW i \in Stuff
        PROVE  /\ i.n \in Nat /\ Worth(i.kind) \in Nat
               /\ i.kind \in Goods \cup {Empty.kind}
               /\ i # Empty => i.kind \in Goods /\ i.n >= 1
               /\ i.kind = Empty.kind => i = Empty
    <2>1. i = Empty \/ (i.kind \in Goods /\ i.n \in Nat \ {0})
      BY DEF Stuff
    <2>2. QED
      BY <1>1, <2>1, GoodsAssumption
  <1>4. \A a, b \in Nat : a * b \in Nat
    OBVIOUS
  <1>5. ASSUME NEW i \in Stuff PROVE ItemWorth(i) \in Nat
    BY <1>3, <1>4 DEF ItemWorth
  <1>6. QED
    BY <1>1, <1>2, <1>3, <1>5

(* A count below 1 is nothing, another is a stack.                          *)
LEMMA OfStuff ==
    ASSUME NEW k \in Goods \cup {Empty.kind}, NEW n \in Int,
           k = Empty.kind => n < 1
    PROVE  /\ Of(k, n) \in Stuff /\ I!Of(k, n) = Of(k, n)
           /\ n >= 0 => ItemWorth(Of(k, n)) = n * Worth(k)
           /\ n >= 1 => Of(k, n).kind = k
  <1>1. CASE n < 1
    <2>1. Of(k, n) = Empty
      BY <1>1 DEF Of, I!Of, Empty
    <2>2. Worth(k) \in Nat
      BY GoodsAssumption
    <2>3. n >= 0 => n * Worth(k) = 0
      <3>1. n >= 0 => n = 0
        BY <1>1
      <3>2. QED
        BY <2>2, <3>1
    <2>4. QED
      BY <1>1, <2>1, <2>3, StuffFacts DEF Of
  <1>2. CASE ~ n < 1
    <2>1. Of(k, n) = [kind |-> k, n |-> n] /\ k \in Goods
      BY <1>2 DEF Of, I!Of
    <2>2. QED
      BY <1>2, <2>1 DEF Of, Stuff, ItemWorth
  <1>3. QED
    BY <1>1, <1>2

(* A click moves items between the slot and the hand: what both are worth
   does not change.                                                         *)
LEMMA MovedStuff ==
    ASSUME NEW slot \in Stuff, NEW held \in Stuff, NEW button
    PROVE  LET m == I!Moved(slot, held, button)
           IN  /\ m.slot \in Stuff /\ m.hand \in Stuff
               /\ ItemWorth(m.slot) + ItemWorth(m.hand)
                     = ItemWorth(slot) + ItemWorth(held)
  <1> DEFINE m == I!Moved(slot, held, button)
  <1>0. /\ slot.n \in Nat /\ held.n \in Nat /\ PileSize \in Nat
        /\ Worth(slot.kind) \in Nat /\ Worth(held.kind) \in Nat
        /\ ItemWorth(slot) = slot.n * Worth(slot.kind)
        /\ ItemWorth(held) = held.n * Worth(held.kind)
        /\ slot.kind \in Goods \cup {Empty.kind}
        /\ held.kind \in Goods \cup {Empty.kind}
        /\ I!Empty = Empty /\ Empty.n = 0 /\ ItemWorth(Empty) = 0
    BY StuffFacts, GoodsAssumption DEF ItemWorth
  <1>d. \A a, b, c \in Int : (a + b) * c = a * c + b * c /\ (a - b) * c = a * c - b * c
    OBVIOUS
  <1>1. CASE I!Merges(slot, held)
    <2> DEFINE n == I!Added(slot, held, button)
    <2>1. held # Empty /\ held.kind \in Goods /\ held.n >= 1
          /\ (slot = Empty \/ (slot.kind = held.kind /\ slot.n < PileSize))
      BY <1>0, <1>1, StuffFacts DEF I!Merges
    <2>2. n \in Nat /\ n <= held.n
      BY <1>0, <2>1 DEF I!Added, I!Room
    <2>3. m = [slot |-> I!Of(held.kind, slot.n + n), hand |-> I!Of(held.kind, held.n - n)]
      BY <1>1 DEF I!Moved
    <2> HIDE DEF n
    <2>4. /\ m.slot = Of(held.kind, slot.n + n) /\ m.hand = Of(held.kind, held.n - n)
          /\ m.slot \in Stuff /\ m.hand \in Stuff
          /\ ItemWorth(m.slot) = (slot.n + n) * Worth(held.kind)
          /\ ItemWorth(m.hand) = (held.n - n) * Worth(held.kind)
      <3>1. slot.n + n \in Nat /\ held.n - n \in Nat /\ Empty.kind \notin Goods
        BY <1>0, <2>2, GoodsAssumption
      <3>2. QED
        BY <2>1, <2>3, <3>1, OfStuff
    <2>5. ItemWorth(slot) = slot.n * Worth(held.kind)
      BY <1>0, <2>1
    <2>6. (slot.n + n) * Worth(held.kind) + (held.n - n) * Worth(held.kind)
             = slot.n * Worth(held.kind) + held.n * Worth(held.kind)
      <3>1. \A a, b, c, w \in Int : (a + b) * w + (c - b) * w = a * w + c * w
        BY <1>d
      <3>2. QED
        BY <1>0, <2>2, <3>1
    <2> HIDE DEF m
    <2>7. QED
      BY <1>0, <2>4, <2>5, <2>6 DEF m
  <1>2. CASE ~I!Merges(slot, held) /\ held = Empty
    <2> DEFINE n == I!Taken(slot, button)
    <2>1. n \in Nat /\ n <= slot.n
      BY <1>0 DEF I!Taken
    <2>2. m = [slot |-> I!Of(slot.kind, slot.n - n), hand |-> I!Of(slot.kind, n)]
      BY <1>0, <1>2 DEF I!Moved
    <2> HIDE DEF n
    <2>3. /\ m.slot \in Stuff /\ m.hand \in Stuff
          /\ ItemWorth(m.slot) = (slot.n - n) * Worth(slot.kind)
          /\ ItemWorth(m.hand) = n * Worth(slot.kind)
      <3>1. slot.kind = Empty.kind => slot.n = 0
        BY <1>0, StuffFacts
      <3>2. slot.n - n \in Int /\ slot.n - n >= 0 /\ n \in Int /\ n >= 0
            /\ (slot.kind = Empty.kind => slot.n - n < 1 /\ n < 1)
        BY <1>0, <2>1, <3>1
      <3>3. /\ Of(slot.kind, slot.n - n) \in Stuff
            /\ I!Of(slot.kind, slot.n - n) = Of(slot.kind, slot.n - n)
            /\ ItemWorth(Of(slot.kind, slot.n - n)) = (slot.n - n) * Worth(slot.kind)
        BY <1>0, <3>2, OfStuff
      <3>4. /\ Of(slot.kind, n) \in Stuff /\ I!Of(slot.kind, n) = Of(slot.kind, n)
            /\ ItemWorth(Of(slot.kind, n)) = n * Worth(slot.kind)
        BY <1>0, <3>2, OfStuff
      <3>5. m.slot = Of(slot.kind, slot.n - n) /\ m.hand = Of(slot.kind, n)
        BY <2>2, <3>3, <3>4
      <3> HIDE DEF m
      <3>6. QED
        BY <3>3, <3>4, <3>5
    <2>4. (slot.n - n) * Worth(slot.kind) + n * Worth(slot.kind) = slot.n * Worth(slot.kind)
      <3>1. \A a, b, w \in Int : (a - b) * w + b * w = a * w
        BY <1>d
      <3>2. QED
        BY <1>0, <2>1, <3>1
    <2> HIDE DEF m
    <2>5. QED
      BY <1>0, <1>2, <2>3, <2>4 DEF m
  <1>3. CASE ~I!Merges(slot, held) /\ held # Empty
    <2>1. m.slot = held /\ m.hand = slot
      BY <1>0, <1>3 DEF I!Moved
    <2>2. QED
      BY <1>0, <2>1
  <1>4. QED
    BY <1>1, <1>2, <1>3

(* The worth of some slots, and of those slots when one has another item.   *)
LEMMA SlotsWorth ==
    ASSUME NEW S, IsFiniteSet(S), NEW cells, \A i \in S : cells[i] \in Stuff
    PROVE  /\ InvWorth(cells, S) \in Int
           /\ \A c : (\A i \in S : c[i] = cells[i])
                 => InvWorth(c, S) = InvWorth(cells, S)
           /\ \A c : \A j \in S :
                 c[j] \in Stuff /\ (\A i \in S \ {j} : c[i] = cells[i])
                 => InvWorth(c, S) = InvWorth(cells, S) - ItemWorth(cells[j]) + ItemWorth(c[j])
  <1> DEFINE f(c) == [i \in S |-> ItemWorth(c[i])]
  <1>1. f(cells) \in [S -> Int] /\ SumFunction(f(cells)) \in Int
    <2>1. \A i \in S : ItemWorth(cells[i]) \in Int
      BY StuffFacts
    <2>2. f(cells) \in [S -> Int]
      BY <2>1
    <2> HIDE DEF f
    <2>3. QED
      BY <2>2, SumIsInt
  <1>2. ASSUME NEW c, \A i \in S : c[i] = cells[i] PROVE f(c) = f(cells)
    BY <1>2
  <1>3. ASSUME NEW c, NEW j \in S, c[j] \in Stuff, \A i \in S \ {j} : c[i] = cells[i]
        PROVE  SumFunction(f(c)) = SumFunction(f(cells)) - ItemWorth(cells[j]) + ItemWorth(c[j])
    <2> DEFINE g == f(cells)
               v == ItemWorth(c[j])
    <2>1. v \in Int /\ g \in [S -> Int] /\ g[j] = ItemWorth(cells[j])
      BY <1>1, <1>3, StuffFacts
    <2>2. f(c) = [g EXCEPT ![j] = v]
      BY <1>3
    <2> HIDE DEF g, v, f
    <2>3. SumFunction([g EXCEPT ![j] = v]) = SumFunction(g) - g[j] + v
      BY <2>1, SumChanges
    <2>4. SumFunction(f(c)) = SumFunction(g) - ItemWorth(cells[j]) + v
      BY <2>1, <2>2, <2>3
    <2>5. QED
      BY <2>4 DEF g, v
  <1>4. \A c : InvWorth(c, S) = SumFunction(f(c))
    BY DEF InvWorth
  <1> HIDE DEF f
  <1>5. QED
    BY <1>1, <1>2, <1>3, <1>4

(* Slots are all different.                                                 *)
LEMMA SlotNumbers ==
    /\ 0 \notin Cell(OwnGrid) /\ 0 \notin Cell(BenchGrid) /\ 0 \notin Kept
    /\ Cell(OwnGrid) \cap Kept = {} /\ Rows \subseteq Kept
    /\ Cell(OwnGrid) \subseteq Nat /\ Cell(BenchGrid) \subseteq Nat
    /\ IsFiniteSet(Cell(OwnGrid)) /\ IsFiniteSet(Cell(BenchGrid)) /\ IsFiniteSet(Kept)
    /\ Toolbar \in Kept /\ Armour \in Kept /\ Upper \in Kept
    /\ Slots = {0} \cup Cell(OwnGrid) \cup Kept /\ Slots \subseteq Nat
    /\ Armour = 5 /\ Upper = 9 /\ Toolbar = 36
  <1>1. /\ OwnGrid[1] * OwnGrid[2] \in Nat /\ OwnGrid[1] * OwnGrid[2] < 5
        /\ BenchGrid[1] * BenchGrid[2] \in Nat
    <2>1. \A a, b \in Nat : a * b \in Nat
      OBVIOUS
    <2>2. QED
      BY <2>1, GridsAssumption DEF Armour
  <1>2. /\ Cell(OwnGrid) = 1 .. OwnGrid[1] * OwnGrid[2]
        /\ Cell(BenchGrid) = 1 .. BenchGrid[1] * BenchGrid[2]
        /\ Kept = {5, 9, 36} /\ Rows = {9, 36}
    BY DEF Cell, Kept, Rows, Armour, Upper, Toolbar
  <1>3. IsFiniteSet(Cell(OwnGrid)) /\ IsFiniteSet(Cell(BenchGrid))
    BY <1>1, <1>2, FS_Interval
  <1>4. IsFiniteSet(Kept)
    <2>1. Kept = (({} \cup {5}) \cup {9}) \cup {36}
      BY <1>2
    <2>2. QED
      BY <2>1, FS_EmptySet, FS_AddElement
  <1>5. Slots = {0} \cup Cell(OwnGrid) \cup Kept
    BY DEF Slots
  <1>6. QED
    BY <1>1, <1>2, <1>3, <1>4, <1>5 DEF Armour, Upper, Toolbar

-----------------------------------------------------------------------------
(* addItems.                                                               *)

PiledOn(item, base, s) == IF s = {} THEN base ELSE I!Pile(item, base, Toolbar)

(* A fold over the toolbar, which is one slot here, is one step.            *)
LEMMA PileOnce ==
    ASSUME NEW item, NEW base
    PROVE  I!FoldLeft(LAMBDA a, s : I!Pile(item, a, s), base, PackOrder)
              = I!Pile(item, base, Toolbar)
  <1> DEFINE step(s, g) == IF s = {} THEN base
                           ELSE LET x == I!Max(s) IN I!Pile(item, g[s \ {x}], PackOrder[x])
             g == [s \in SUBSET {1} |-> PiledOn(item, base, s)]
             f == CHOOSE h : h = [s \in SUBSET {1} |-> step(s, h)]
  <1>1. I!Max({1}) = 1
    BY DEF I!Max
  <1>0. PackOrder[1] = Toolbar /\ {1} # {} /\ DOMAIN PackOrder = {1}
    BY DEF PackOrder
  <1>2. ASSUME NEW h, h = [s \in SUBSET {1} |-> step(s, h)]
        PROVE  h[{1}] = I!Pile(item, base, Toolbar)
    <2>1. h[{}] = base
      BY <1>2
    <2>2. h[{1}] = I!Pile(item, h[{1} \ {1}], Toolbar)
      <3>1. h[{1}] = step({1}, h)
        BY <1>2
      <3>3. QED
        BY <1>0, <1>1, <3>1
    <2>3. {1} \ {1} = {}
      OBVIOUS
    <2>4. QED
      BY <2>1, <2>2, <2>3
  <1>3. g = [s \in SUBSET {1} |-> step(s, g)]
    <2>1. ASSUME NEW s \in SUBSET {1} PROVE PiledOn(item, base, s) = step(s, g)
      <3>1. CASE s = {}
        BY <3>1 DEF PiledOn
      <3>2. CASE s = {1}
        <4>1. g[{1} \ {1}] = base
          BY DEF PiledOn
        <4>2. QED
          BY <1>0, <1>1, <3>2, <4>1 DEF PiledOn
      <3>3. QED
        BY <3>1, <3>2
    <2>2. QED
      BY <2>1
  <1>4. f = [s \in SUBSET {1} |-> step(s, f)]
    BY <1>3
  <1>5. I!FoldLeft(LAMBDA a, s : I!Pile(item, a, s), base, PackOrder) = f[{1}]
    BY <1>0 DEF I!FoldLeft, I!MapThenFoldSet
  <1>6. QED
    BY <1>2, <1>4, <1>5

(* addItems puts the item into the toolbar, or loses it. One item is not
   doubled; of more, the code puts some down twice.                         *)
LEMMA AddedStuff ==
    ASSUME NEW inv \in [Slots -> Stuff], NEW item \in Stuff, item # Empty
    PROVE  \E v \in Stuff :
              /\ I!AddItems(inv, PackOrder, item) = [inv EXCEPT ![Toolbar] = v]
              /\ item.n = 1 => ItemWorth(v) <= ItemWorth(inv[Toolbar]) + ItemWorth(item)
  <1> DEFINE base == [inv |-> inv, left |-> item.n, done |-> FALSE]
             acc == I!Pile(item, base, Toolbar)
             had == inv[Toolbar]
             free == {i \in DOMAIN PackOrder : acc.inv[PackOrder[i]] = I!Empty}
             res == I!AddItems(inv, PackOrder, item)
  <1>0. /\ had \in Stuff /\ item.n \in Nat /\ item.n >= 1 /\ item.kind \in Goods
        /\ had.n \in Nat /\ I!Empty = Empty /\ PileSize \in Nat
        /\ Worth(item.kind) \in Nat /\ ItemWorth(had) \in Nat /\ ItemWorth(item) \in Nat
        /\ ItemWorth(item) = item.n * Worth(item.kind)
        /\ ItemWorth(had) = had.n * Worth(had.kind) /\ Toolbar \in Slots
        /\ Empty.kind \notin Goods /\ Empty.n = 0
    BY StuffFacts, GoodsAssumption, SlotNumbers DEF ItemWorth
  <1>1. DOMAIN PackOrder = {1} /\ PackOrder[1] = Toolbar
    BY DEF PackOrder
  <1>2. res = IF acc.left = 0 \/ free = {} THEN acc.inv
              ELSE [acc.inv EXCEPT ![PackOrder[I!Min(free)]] = I!Of(item.kind, acc.left)]
    BY PileOnce DEF I!AddItems
  <1>3. free = {} \/ (free = {1} /\ I!Min(free) = 1)
    <2>1. I!Min({1}) = 1
      BY DEF I!Min
    <2>2. QED
      BY <1>1, <2>1
  <1>4. free # {} <=> acc.inv[Toolbar] = Empty
    BY <1>0, <1>1
  <1>5. base.inv = inv /\ base.left = item.n /\ base.done = FALSE
    OBVIOUS
  <1>6. ASSUME NEW m \in Nat, m >= 1, had # Empty
        PROVE  LET v == [kind |-> had.kind, n |-> m]
               IN  /\ [inv EXCEPT ![Toolbar].n = m] = [inv EXCEPT ![Toolbar] = v]
                   /\ v \in Stuff /\ v # Empty
    <2>1. had \in [kind : Goods, n : Nat \ {0}]
      BY <1>0, <1>6 DEF Stuff
    <2> DEFINE w == [had EXCEPT !.n = m]
    <2>2. w = [kind |-> had.kind, n |-> m] /\ w \in [kind : Goods, n : Nat \ {0}]
      BY <1>6, <2>1
    <2>3. [inv EXCEPT ![Toolbar].n = m] = [inv EXCEPT ![Toolbar] = w]
      BY Zenon
    <2>4. w # Empty /\ w \in Stuff
      BY <1>0, <2>2 DEF Stuff
    <2> HIDE DEF w
    <2>5. QED
      BY <2>2, <2>3, <2>4
  <1>g. ASSUME NEW v \in Stuff, res = [inv EXCEPT ![Toolbar] = v],
               item.n = 1 => ItemWorth(v) <= ItemWorth(had) + ItemWorth(item)
        PROVE  \E x \in Stuff :
                  /\ I!AddItems(inv, PackOrder, item) = [inv EXCEPT ![Toolbar] = x]
                  /\ item.n = 1 => ItemWorth(x) <= ItemWorth(inv[Toolbar]) + ItemWorth(item)
    BY <1>g
  <1>h. had.kind = item.kind => had # Empty
    BY <1>0
  <1>k. res = inv => res = [inv EXCEPT ![Toolbar] = had]
    OBVIOUS
  <1>7. CASE had.kind # item.kind
    <2>1. acc.inv = inv /\ acc.left = item.n
      BY <1>5, <1>7 DEF I!Pile
    <2> HIDE DEF acc, free, base, res
    <2>2. CASE had = Empty
      <3> DEFINE v == Of(item.kind, item.n)
      <3>1. v \in Stuff /\ ItemWorth(v) = ItemWorth(item) /\ I!Of(item.kind, item.n) = v
        BY <1>0, OfStuff
      <3>2. acc.left # 0 /\ free # {}
        BY <1>0, <1>4, <2>1, <2>2
      <3>3. res = [inv EXCEPT ![Toolbar] = v]
        BY <1>1, <1>2, <1>3, <2>1, <3>1, <3>2
      <3> HIDE DEF v
      <3>4. ItemWorth(v) <= ItemWorth(had) + ItemWorth(item)
        BY <1>0, <3>1
      <3>5. QED
        BY <1>g, <3>1, <3>3, <3>4
    <2>3. CASE had # Empty
      <3>1. res = inv
        BY <1>2, <1>4, <2>1, <2>3
      <3>2. QED
        BY <1>0, <1>g, <1>k, <3>1
    <2>4. QED
      BY <2>2, <2>3
  <1>8. CASE had.kind = item.kind /\ PileSize - had.n >= item.n
    <2> DEFINE v == [kind |-> had.kind, n |-> had.n + item.n]
    <2>1. acc.inv = [inv EXCEPT ![Toolbar].n = had.n + item.n]
      BY <1>5, <1>8 DEF I!Pile, I!Room
    <2> HIDE DEF acc, free, base, res
    <2>2. acc.inv = [inv EXCEPT ![Toolbar] = v] /\ v \in Stuff /\ v # Empty
      <3>1. had.n + item.n \in Nat /\ had.n + item.n >= 1
        BY <1>0
      <3>2. QED
        BY <1>6, <1>8, <1>h, <2>1, <3>1
    <2>3. ItemWorth(v) = ItemWorth(had) + ItemWorth(item)
      <3>1. \A a, b, c \in Int : (a + b) * c = a * c + b * c
        OBVIOUS
      <3>2. QED
        BY <1>0, <1>8, <3>1 DEF ItemWorth
    <2> HIDE DEF v
    <2>4. res = [inv EXCEPT ![Toolbar] = v]
      BY <1>0, <1>2, <1>4, <2>2
    <2>5. ItemWorth(v) <= ItemWorth(had) + ItemWorth(item)
      BY <1>0, <2>3
    <2>6. QED
      BY <1>g, <2>2, <2>4, <2>5
  <1>9. CASE had.kind = item.kind /\ ~(PileSize - had.n >= item.n)
    <2>1. CASE PileSize - had.n > 0
      <3> DEFINE v == [kind |-> had.kind, n |-> PileSize]
      <3>1. acc.inv = [inv EXCEPT ![Toolbar].n = PileSize]
        BY <1>5, <1>9, <2>1 DEF I!Pile, I!Room
      <3> HIDE DEF acc, free, base, res
      <3>2. acc.inv = [inv EXCEPT ![Toolbar] = v] /\ v \in Stuff /\ v # Empty
        <4>1. PileSize >= 1
          BY <1>0, <2>1
        <4>2. QED
          BY <1>0, <1>6, <1>9, <1>h, <3>1, <4>1
      <3> HIDE DEF v
      <3>3. res = [inv EXCEPT ![Toolbar] = v]
        BY <1>0, <1>2, <1>4, <3>2
      <3>4. item.n # 1
        BY <1>0, <1>9, <2>1
      <3>5. QED
        BY <1>g, <3>2, <3>3, <3>4
    <2>2. CASE ~(PileSize - had.n > 0)
      <3>1. acc.inv = inv
        BY <1>5, <1>9, <2>2 DEF I!Pile, I!Room
      <3> HIDE DEF acc, free, base, res
      <3>2. res = inv
        BY <1>2, <1>4, <1>9, <1>h, <3>1
      <3>3. QED
        BY <1>0, <1>g, <1>k, <3>2
    <2>3. QED
      BY <2>1, <2>2
  <1>10. QED
    BY <1>7, <1>8, <1>9

-----------------------------------------------------------------------------
(* Recipes.                                                                *)

(* Cells are numbered row by row: each is at one place, each place has one. *)
LEMMA CellNumbers ==
    ASSUME NEW w \in Nat, NEW h \in Nat
    PROVE  /\ \A x \in 0 .. w - 1, y \in 0 .. h - 1 : y * w + x + 1 \in 1 .. w * h
           /\ \A x, a \in 0 .. w - 1, y, b \in 0 .. h - 1 :
                 y * w + x + 1 = b * w + a + 1 => x = a /\ y = b
           /\ \A i \in 1 .. w * h : \E x \in 0 .. w - 1, y \in 0 .. h - 1 :
                 i = y * w + x + 1
  <1>0. \A a, b \in Nat : a <= b => a * w <= b * w
    <2>1. ASSUME NEW a \in Nat, NEW b \in Nat, a <= b PROVE a * w <= b * w
      <3>1. b * w = a * w + (b - a) * w
        OBVIOUS
      <3>2. (b - a) * w >= 0 /\ (b - a) * w \in Int /\ a * w \in Int
        <4>1. \A c, d \in Nat : c * d \in Nat
          OBVIOUS
        <4>2. b - a \in Nat
          BY <2>1
        <4>3. QED
          BY <4>1, <4>2
      <3>3. QED
        BY <3>1, <3>2
    <2>2. QED
      BY <2>1
  <1>m. \A a \in Int : (a + 1) * w = a * w + w /\ a * w \in Int
    OBVIOUS
  <1>1. ASSUME NEW x \in 0 .. w - 1, NEW y \in 0 .. h - 1
        PROVE  y * w + x + 1 \in 1 .. w * h
    <2>1. (y + 1) * w <= h * w /\ (y + 1) * w = y * w + w /\ y * w >= 0 /\ y * w \in Int
      <3>1. y + 1 \in Nat /\ h \in Nat /\ y + 1 <= h /\ 0 <= y /\ 0 * w = 0
        OBVIOUS
      <3>2. QED
        BY <1>0, <1>m, <3>1
    <2>2. h * w = w * h /\ h * w \in Int
      OBVIOUS
    <2>3. QED
      BY <2>1, <2>2
  <1>2. ASSUME NEW x \in 0 .. w - 1, NEW a \in 0 .. w - 1, NEW y \in Nat, NEW b \in Nat,
               y * w + x + 1 = b * w + a + 1
        PROVE  ~ y < b
    <2>1. SUFFICES ASSUME y < b PROVE FALSE
      OBVIOUS
    <2>2. (y + 1) * w <= b * w /\ (y + 1) * w = y * w + w /\ y * w \in Int /\ b * w \in Int
      <3>1. y + 1 \in Nat /\ y + 1 <= b
        BY <2>1
      <3>2. QED
        BY <1>0, <1>m, <3>1
    <2>3. QED
      BY <1>2, <2>2
  <1>3. ASSUME NEW x \in 0 .. w - 1, NEW a \in 0 .. w - 1, NEW y \in 0 .. h - 1,
               NEW b \in 0 .. h - 1, y * w + x + 1 = b * w + a + 1
        PROVE  x = a /\ y = b
    <2>1. ~ y < b /\ ~ b < y
      BY <1>2, <1>3
    <2>2. y = b
      BY <2>1
    <2>3. y * w \in Int
      BY <1>m
    <2>4. QED
      BY <1>3, <2>2, <2>3
  <1>4. ASSUME NEW i \in 1 .. w * h
        PROVE  \E x \in 0 .. w - 1, y \in 0 .. h - 1 : i = y * w + x + 1
    <2> DEFINE T == {y \in Nat : i <= (y + 1) * w}
    <2>0. h # 0
      <3>1. w * 0 = 0
        OBVIOUS
      <3>2. QED
        BY <3>1
    <2>1. h - 1 \in T
      <3>1. h - 1 \in Nat /\ ((h - 1) + 1) * w = w * h
        BY <2>0
      <3>2. QED
        BY <3>1
    <2>2. PICK y \in T : \A z \in T : y <= z
      <3> HIDE DEF T
      <3>1. T \in SUBSET Nat
        BY DEF T
      <3>2. QED
        BY <2>1, <3>1, LeastNatural
    <2>3. y * w < i
      <3>1. CASE y = 0
        <4>1. y * w = 0
          BY <3>1
        <4>2. QED
          BY <4>1
      <3>2. CASE y # 0
        <4>1. y - 1 \in Nat /\ y - 1 \notin T
          BY <2>2, <3>2
        <4>2. ~ i <= ((y - 1) + 1) * w /\ (y - 1) + 1 = y
          BY <4>1
        <4>3. QED
          BY <1>m, <4>2
      <3>3. QED
        BY <3>1, <3>2
    <2>4. y \in 0 .. h - 1
      BY <2>0, <2>1, <2>2
    <2>5. i - 1 - y * w \in 0 .. w - 1
      <3>1. i <= y * w + w /\ y * w \in Int
        BY <1>m, <2>2
      <3>2. QED
        BY <2>3, <3>1
    <2>6. i = y * w + (i - 1 - y * w) + 1
      BY <1>m
    <2>7. QED
      BY <2>4, <2>5, <2>6
  <1>5. QED
    BY <1>1, <1>3, <1>4

(* What a grid makes depends on its cells alone.                           *)
LEMMA DoCraftSame ==
    ASSUME NEW grid \in Nat \X Nat, NEW c, NEW d, \A i \in Cell(grid) : c[i] = d[i]
    PROVE  DoCraft(c, grid) = DoCraft(d, grid)
  <1>1. \A x \in 0 .. grid[1] - 1, y \in 0 .. grid[2] - 1 :
            c[y * grid[1] + x + 1] = d[y * grid[1] + x + 1]
    <2>1. grid[1] \in Nat /\ grid[2] \in Nat
      OBVIOUS
    <2>2. \A x \in 0 .. grid[1] - 1, y \in 0 .. grid[2] - 1 :
              y * grid[1] + x + 1 \in Cell(grid)
      BY <2>1, CellNumbers DEF Cell
    <2>3. QED
      BY <2>2
  <1>2. ASSUME NEW r, NEW dx, NEW dy
        PROVE  Matches(c, grid, r, dx, dy) <=> Matches(d, grid, r, dx, dy)
    BY <1>1 DEF Matches
  <1>3. \A r : Makes(c, grid, r) <=> Makes(d, grid, r)
    BY <1>2 DEF Makes
  <1>4. {i \in DOMAIN Recipes : Makes(c, grid, Recipes[i])}
           = {i \in DOMAIN Recipes : Makes(d, grid, Recipes[i])}
    BY <1>3
  <1>5. QED
    BY <1>4 DEF DoCraft

(* The first recipe that fits makes it; nothing is made of an empty grid.  *)
LEMMA DoCraftMakes ==
    ASSUME NEW grid \in Nat \X Nat, NEW cells
    PROVE  \/ DoCraft(cells, grid) = Empty
           \/ \E i \in DOMAIN RecipeFiles :
                 /\ Makes(cells, grid, Recipes[i])
                 /\ DoCraft(cells, grid) = Of(Recipes[i].outputtype, Recipes[i].outputcount)
  <1> DEFINE made == {i \in DOMAIN Recipes : Makes(cells, grid, Recipes[i])}
  <1>1. CASE made # {}
    <2>1. DOMAIN Recipes = DOMAIN RecipeFiles
      BY DEF Recipes
    <2>2. made \in SUBSET Nat
      BY <2>1, RecipesAssumption
    <2>3. Min(made) \in made
      <3> HIDE DEF made
      <3>1. \E m \in made : \A n \in made : m <= n
        BY <1>1, <2>2, LeastNatural
      <3>2. QED
        BY <3>1 DEF Min
    <2>4. DoCraft(cells, grid)
             = Of(Recipes[Min(made)].outputtype, Recipes[Min(made)].outputcount)
      BY <1>1 DEF DoCraft
    <2>5. PICK i \in made : i = Min(made)
      BY <2>3
    <2>6. QED
      BY <2>1, <2>4, <2>5
  <1>2. CASE made = {}
    BY <1>2 DEF DoCraft
  <1>3. QED
    BY <1>1, <1>2

(* What is made is an item.                                                *)
LEMMA DoCraftStuff ==
    ASSUME NEW grid \in Nat \X Nat, NEW cells
    PROVE  DoCraft(cells, grid) \in Stuff
  <1>1. ASSUME NEW i \in DOMAIN RecipeFiles
        PROVE  Of(Recipes[i].outputtype, Recipes[i].outputcount) \in Stuff
    <2>1. Recipes[i].outputtype \in Goods /\ Recipes[i].outputcount \in Nat
          /\ Empty.kind \notin Goods
      BY RecipesAssumption, GoodsAssumption
    <2>2. QED
      BY <2>1, OfStuff
  <1>2. QED
    BY <1>1, DoCraftMakes, StuffFacts

(* Where a recipe is found in a grid: each of its places is a cell, which
   holds one of the kinds it asks for, and all other cells are empty.      *)
LEMMA Found ==
    ASSUME NEW grid \in Nat \X Nat, NEW cells, NEW i \in DOMAIN RecipeFiles,
           Makes(cells, grid, Recipes[i])
    PROVE  \E m \in [Area(Recipes[i]) -> Cell(grid)] :
              /\ \A a, b \in Area(Recipes[i]) : m[a] = m[b] => a = b
              /\ \A c \in Area(Recipes[i]) :
                    cells[m[c]].kind \in Want(Recipes[i], c[1], c[2]).kinds
              /\ \A j \in Cell(grid) :
                    j \notin {m[c] : c \in Area(Recipes[i])} => cells[j] = Empty
  <1> DEFINE r == Recipes[i]
             w == grid[1]
             h == grid[2]
  <1>1. r.width \in Nat /\ r.height \in Nat /\ w \in Nat /\ h \in Nat
    BY RecipesAssumption
  <1>2. r.width <= w /\ r.height <= h
    BY DEF Makes
  <1>3. PICK dx \in 0 .. w - r.width, dy \in 0 .. h - r.height :
            Matches(cells, grid, r, dx, dy)
    BY DEF Makes
  <1> HIDE DEF r, w, h
  <1>n. /\ \A x \in 0 .. w - 1, y \in 0 .. h - 1 : y * w + x + 1 \in 1 .. w * h
        /\ \A j \in 1 .. w * h : \E x \in 0 .. w - 1, y \in 0 .. h - 1 :
              j = y * w + x + 1
    BY ONLY <1>1, CellNumbers
  <1> DEFINE at(x, y) == y * w + x + 1
             m == [c \in Area(r) |-> at(c[1] + dx, c[2] + dy)]
  <1>4. ASSUME NEW c \in Area(r)
        PROVE  /\ c[1] \in 0 .. r.width - 1 /\ c[2] \in 0 .. r.height - 1
               /\ c[1] + dx \in 0 .. w - 1 /\ c[2] + dy \in 0 .. h - 1
               /\ c[1] + dx \in dx .. dx + r.width - 1
               /\ c[2] + dy \in dy .. dy + r.height - 1
               /\ (c[1] + dx) - dx = c[1] /\ (c[2] + dy) - dy = c[2]
               /\ c = <<c[1], c[2]>>
    <2>1. c[1] \in 0 .. r.width - 1 /\ c[2] \in 0 .. r.height - 1 /\ c = <<c[1], c[2]>>
      BY DEF Area
    <2>2. QED
      BY <1>1, <1>2, <2>1
  <1>5. m \in [Area(r) -> Cell(grid)]
    <2>1. ASSUME NEW c \in Area(r) PROVE at(c[1] + dx, c[2] + dy) \in Cell(grid)
      <3>1. at(c[1] + dx, c[2] + dy) \in 1 .. w * h
        BY <1>4, <1>n
      <3>2. QED
        BY <3>1 DEF Cell, w, h
    <2>2. QED
      BY <2>1
  <1>6. ASSUME NEW a \in Area(r), NEW b \in Area(r), m[a] = m[b] PROVE a = b
    <2>1. at(a[1] + dx, a[2] + dy) = at(b[1] + dx, b[2] + dy)
      BY <1>6
    <2>2. a[1] + dx = b[1] + dx /\ a[2] + dy = b[2] + dy
      BY <1>1, <1>4, <2>1, CellNumbers
    <2>3. a[1] = b[1] /\ a[2] = b[2]
      BY <1>4, <2>2
    <2>4. QED
      BY <1>4, <2>3
  <1>7. ASSUME NEW x \in 0 .. w - 1, NEW y \in 0 .. h - 1
        PROVE  IF x \in dx .. dx + r.width - 1 /\ y \in dy .. dy + r.height - 1
               THEN cells[at(x, y)].kind \in Want(r, x - dx, y - dy).kinds
               ELSE cells[at(x, y)] = Empty
    BY <1>3 DEF Matches, w, h
  <1>8. ASSUME NEW c \in Area(r) PROVE cells[m[c]].kind \in Want(r, c[1], c[2]).kinds
    <2>1. cells[at(c[1] + dx, c[2] + dy)].kind
              \in Want(r, (c[1] + dx) - dx, (c[2] + dy) - dy).kinds
      <3> HIDE DEF at
      <3>1. QED
        BY <1>4, <1>7
    <2>2. m[c] = at(c[1] + dx, c[2] + dy)
      OBVIOUS
    <2> HIDE DEF at, m
    <2>3. QED
      BY <1>4, <2>1, <2>2
  <1>9. ASSUME NEW j \in Cell(grid), j \notin {m[c] : c \in Area(r)}
        PROVE  cells[j] = Empty
    <2>1. PICK x \in 0 .. w - 1, y \in 0 .. h - 1 : j = at(x, y)
      <3>1. j \in 1 .. w * h
        BY DEF Cell, w, h
      <3>2. QED
        BY <1>n, <3>1
    <2>2. ASSUME x \in dx .. dx + r.width - 1, y \in dy .. dy + r.height - 1
          PROVE  FALSE
      <3>1. <<x - dx, y - dy>> \in Area(r)
        BY <1>1, <2>2 DEF Area
      <3>2. (x - dx) + dx = x /\ (y - dy) + dy = y
        OBVIOUS
      <3> HIDE DEF at
      <3>3. m[<<x - dx, y - dy>>] = at(x, y)
        BY <3>1, <3>2
      <3> HIDE DEF m
      <3>4. QED
        BY <1>9, <2>1, <3>1, <3>3
    <2> HIDE DEF at, m
    <2>3. QED
      BY <1>7, <2>1, <2>2
  <1> HIDE DEF m
  <1>10. QED
    BY <1>5, <1>6, <1>8, <1>9 DEF r

(* Nothing is made of nothing.                                             *)
LEMMA DoCraftNothing ==
    ASSUME NEW grid \in Nat \X Nat, NEW cells, \A i \in Cell(grid) : cells[i] = Empty
    PROVE  DoCraft(cells, grid) = Empty
  <1>1. ASSUME NEW i \in DOMAIN RecipeFiles, Makes(cells, grid, Recipes[i])
        PROVE  FALSE
    <2>1. PICK m \in [Area(Recipes[i]) -> Cell(grid)] :
              \A c \in Area(Recipes[i]) :
                    cells[m[c]].kind \in Want(Recipes[i], c[1], c[2]).kinds
      BY <1>1, Found
    <2>2. PICK c \in Area(Recipes[i]) : Empty.kind \notin Want(Recipes[i], c[1], c[2]).kinds
      BY RecipesAssumption
    <2>3. cells[m[c]] = Empty
      BY <2>1, <2>2
    <2>4. QED
      BY <2>1, <2>2, <2>3
  <1>2. QED
    BY <1>1, DoCraftMakes

(* What is made is worth no more than one of each thing in the grid.       *)
LEMMA DoCraftPaid ==
    ASSUME NEW grid \in Nat \X Nat, IsFiniteSet(Cell(grid)), NEW cells,
           \A i \in Cell(grid) : cells[i] \in Stuff
    PROVE  ItemWorth(DoCraft(cells, grid))
              <= SumFunction([i \in Cell(grid) |-> Worth(cells[i].kind)])
  <1> DEFINE f == [i \in Cell(grid) |-> Worth(cells[i].kind)]
  <1>1. /\ f \in [Cell(grid) -> Int]
        /\ \A i \in Cell(grid) : f[i] = Worth(cells[i].kind) /\ f[i] >= 0
    BY StuffFacts
  <1> HIDE DEF f
  <1>2. ASSUME NEW i \in DOMAIN RecipeFiles, Makes(cells, grid, Recipes[i]),
               DoCraft(cells, grid) = Of(Recipes[i].outputtype, Recipes[i].outputcount)
        PROVE  ItemWorth(DoCraft(cells, grid)) <= SumFunction(f)
    <2> DEFINE r == Recipes[i]
    <2>1. PICK m \in [Area(r) -> Cell(grid)] :
              /\ \A a, b \in Area(r) : m[a] = m[b] => a = b
              /\ \A c \in Area(r) :
                    cells[m[c]].kind \in Want(r, c[1], c[2]).kinds
              /\ \A j \in Cell(grid) : j \notin {m[c] : c \in Area(r)} => cells[j] = Empty
      BY <1>2, Found, ZenonT(60)
    <2> DEFINE pick == [c \in Area(r) |-> cells[m[c]].kind]
    <2>2. pick \in [Area(r) -> Goods \cup {Empty.kind}]
      BY StuffFacts
    <2>3. \A c \in Area(r) : pick[c] \in Want(r, c[1], c[2]).kinds
      BY <2>1
    <2>4. /\ r.outputcount * Worth(r.outputtype)
                <= SumFunction([c \in Area(r) |-> Worth(pick[c])])
          /\ r.outputtype \in Goods /\ r.outputcount \in Nat
          /\ r.width \in Nat /\ r.height \in Nat
      <3> HIDE DEF pick
      <3>1. QED
        BY <2>2, <2>3, RecipesAssumption
    <2>5. IsFiniteSet(Area(r))
      <3>1. 0 \in Int /\ r.width - 1 \in Int /\ r.height - 1 \in Int
        BY <2>4
      <3>2. \A a, b \in Int : IsFiniteSet(a .. b)
        BY FS_Interval
      <3> HIDE DEF r
      <3>3. IsFiniteSet(0 .. r.width - 1) /\ IsFiniteSet(0 .. r.height - 1)
        BY <3>1, <3>2
      <3>4. QED
        BY <3>3, FS_Product DEF Area
    <2>6. [c \in Area(r) |-> Worth(pick[c])] = [c \in Area(r) |-> f[m[c]]]
      BY <1>1
    <2>7. SumFunction([c \in Area(r) |-> f[m[c]]]) = SumFunction(Part(f, {m[c] : c \in Area(r)}))
      <3> HIDE DEF r
      <3>1. QED
        BY <1>1, <2>1, <2>5, SumMoves
    <2>8. Part(f, {m[c] : c \in Area(r)}) = f
      <3>1. ASSUME NEW j \in Cell(grid), j \notin {m[c] : c \in Area(r)} PROVE f[j] = 0
        BY <1>1, <2>1, <3>1, GoodsAssumption
      <3> DEFINE M == {m[c] : c \in Area(r)}
      <3> HIDE DEF M
      <3>2. \A j \in Cell(grid) : f[j] = IF j \in M THEN f[j] ELSE 0
        BY <3>1 DEF M
      <3>3. DOMAIN f = Cell(grid) /\ f = [j \in Cell(grid) |-> f[j]]
        BY <1>1
      <3>4. Part(f, M) = f
        BY <3>2, <3>3 DEF Part
      <3>5. QED
        BY <3>4 DEF M
    <2>9. ItemWorth(DoCraft(cells, grid)) = r.outputcount * Worth(r.outputtype)
      BY <1>2, <2>4, GoodsAssumption, OfStuff
    <2> HIDE DEF pick
    <2>10. r.outputcount * Worth(r.outputtype) <= SumFunction(f)
      BY <2>4, <2>6, <2>7, <2>8
    <2>11. QED
      BY <2>9, <2>10
  <1>3. ASSUME DoCraft(cells, grid) = Empty
        PROVE  ItemWorth(DoCraft(cells, grid)) <= SumFunction(f)
    <2>1. SumFunction(f) >= 0
      BY <1>1, SumOfNaturals
    <2>2. QED
      BY <1>3, <2>1, StuffFacts
  <1>4. QED
    BY <1>2, <1>3, DoCraftMakes DEF f

(* Paying takes away one of each.                                          *)
LEMMA PaidWorth ==
    ASSUME NEW S, IsFiniteSet(S), 0 \notin S, NEW cells, S \subseteq DOMAIN cells,
           \A i \in S : cells[i] \in Stuff
    PROVE  /\ \A i \in S : Paid(cells)[i] \in Stuff
           /\ InvWorth(Paid(cells), S)
                 = InvWorth(cells, S) - SumFunction([i \in S |-> Worth(cells[i].kind)])
  <1> DEFINE f == [i \in S |-> ItemWorth(Paid(cells)[i])]
             g == [i \in S |-> Worth(cells[i].kind)]
             h == [i \in S |-> ItemWorth(cells[i])]
  <1>1. ASSUME NEW i \in S
        PROVE  /\ Paid(cells)[i] \in Stuff
               /\ ItemWorth(Paid(cells)[i]) \in Int /\ Worth(cells[i].kind) \in Int
               /\ ItemWorth(cells[i]) = ItemWorth(Paid(cells)[i]) + Worth(cells[i].kind)
    <2>1. i # 0 /\ cells[i] \in Stuff /\ i \in DOMAIN cells
      OBVIOUS
    <2> DEFINE c == cells[i]
    <2>2. Paid(cells)[i] = IF c = Empty THEN c ELSE I!Less(c)
      BY <2>1 DEF Paid
    <2>3. CASE c = Empty
      BY <2>2, <2>3, StuffFacts, GoodsAssumption
    <2>4. CASE c # Empty
      <3>1. c.kind \in Goods /\ c.n \in Nat /\ c.n >= 1 /\ Worth(c.kind) \in Nat
            /\ Empty.kind \notin Goods
        BY <2>1, <2>4, StuffFacts, GoodsAssumption
      <3>2. I!Less(c) = Of(c.kind, c.n - 1) /\ Of(c.kind, c.n - 1) \in Stuff
            /\ ItemWorth(Of(c.kind, c.n - 1)) = (c.n - 1) * Worth(c.kind)
        BY <3>1, OfStuff DEF I!Less
      <3>3. c.n * Worth(c.kind) = (c.n - 1) * Worth(c.kind) + Worth(c.kind)
            /\ (c.n - 1) * Worth(c.kind) \in Int
        <4>1. \A a, b \in Int : a * b = (a - 1) * b + b /\ (a - 1) * b \in Int
          OBVIOUS
        <4>2. QED
          BY <3>1, <4>1
      <3>4. ItemWorth(c) = c.n * Worth(c.kind)
        BY DEF ItemWorth
      <3> HIDE DEF c
      <3>5. QED
        BY <2>2, <2>4, <3>1, <3>2, <3>3, <3>4 DEF c
    <2>5. QED
      BY <2>3, <2>4
  <1>2. f \in [S -> Int] /\ g \in [S -> Int] /\ h = [i \in S |-> f[i] + g[i]]
    BY <1>1
  <1>3. InvWorth(Paid(cells), S) = SumFunction(f) /\ InvWorth(cells, S) = SumFunction(h)
    BY DEF InvWorth
  <1> HIDE DEF f, g, h
  <1>4. SumFunction(h) = SumFunction(f) + SumFunction(g)
    BY <1>2, SumAdds
  <1>5. SumFunction(f) \in Int /\ SumFunction(g) \in Int
    BY <1>2, SumIsInt
  <1>6. InvWorth(Paid(cells), S) = InvWorth(cells, S) - SumFunction(g)
    BY <1>3, <1>4, <1>5
  <1>7. QED
    BY <1>1, <1>6 DEF g

-----------------------------------------------------------------------------
(* All there is.                                                           *)

Stocks == [inv : [Crafter -> [Slots -> Stuff]], hand : [Crafter -> Stuff],
           bench : [Bench -> [{0} \cup Cell(BenchGrid) -> Stuff]],
           ground : [Goods -> Nat], leftover : SUBSET Crafter, most : Nat]

(* A player's part, and the worth of what lies on the ground and in the
   workbenches, are numbers.                                               *)
LEMMA WorthNumbers ==
    ASSUME NEW s \in Stocks
    PROVE  /\ \A u \in Crafter : /\ OwnWorth(s, u) \in Int
                                 /\ InvWorth(s.inv[u], Cell(OwnGrid)) \in Int
                                 /\ InvWorth(s.inv[u], Kept) \in Int
                                 /\ ItemWorth(s.hand[u]) \in Nat
                                 /\ ItemWorth(s.inv[u][0]) \in Nat
           /\ \A b \in Bench : InvWorth(s.bench[b], Cell(BenchGrid)) \in Int
           /\ [b \in Bench |-> InvWorth(s.bench[b], Cell(BenchGrid))] \in [Bench -> Int]
           /\ BenchesWorth(s) \in Int
           /\ [k \in Goods |-> s.ground[k] * Worth(k)] \in [Goods -> Int]
           /\ GroundWorth(s) \in Int
  <1>1. ASSUME NEW u \in Crafter
        PROVE  /\ OwnWorth(s, u) \in Int
               /\ InvWorth(s.inv[u], Cell(OwnGrid)) \in Int
               /\ InvWorth(s.inv[u], Kept) \in Int
               /\ ItemWorth(s.hand[u]) \in Nat
               /\ ItemWorth(s.inv[u][0]) \in Nat
    <2>1. s.hand[u] \in Stuff /\ \A i \in Slots : s.inv[u][i] \in Stuff
      BY DEF Stocks
    <2>2. 0 \in Slots /\ Cell(OwnGrid) \subseteq Slots /\ Kept \subseteq Slots
      BY SlotNumbers
    <2>3. ItemWorth(s.hand[u]) \in Nat /\ ItemWorth(s.inv[u][0]) \in Nat
      BY <2>1, <2>2, StuffFacts
    <2>4. \A i \in Cell(OwnGrid) : s.inv[u][i] \in Stuff
      BY <2>1, <2>2
    <2>5. \A i \in Kept : s.inv[u][i] \in Stuff
      BY <2>1, <2>2
    <2>6. InvWorth(s.inv[u], Cell(OwnGrid)) \in Int
      BY <2>4, SlotNumbers, SlotsWorth
    <2>7. InvWorth(s.inv[u], Kept) \in Int
      BY <2>5, SlotNumbers, SlotsWorth
    <2>8. QED
      BY <2>3, <2>6, <2>7 DEF OwnWorth
  <1>2. ASSUME NEW b \in Bench PROVE InvWorth(s.bench[b], Cell(BenchGrid)) \in Int
    <2>1. \A i \in Cell(BenchGrid) : s.bench[b][i] \in Stuff
      BY DEF Stocks
    <2>2. QED
      BY <2>1, SlotNumbers, SlotsWorth
  <1>3. [b \in Bench |-> InvWorth(s.bench[b], Cell(BenchGrid))] \in [Bench -> Int]
    BY <1>2
  <1>4. BenchesWorth(s) \in Int
    BY <1>3, BenchAssumption, SumIsInt DEF BenchesWorth
  <1>5. [k \in Goods |-> s.ground[k] * Worth(k)] \in [Goods -> Int]
    <2>1. ASSUME NEW k \in Goods PROVE s.ground[k] * Worth(k) \in Int
      <3>1. s.ground[k] \in Nat /\ Worth(k) \in Nat
        BY GoodsAssumption DEF Stocks
      <3>2. \A a, b \in Nat : a * b \in Int
        OBVIOUS
      <3>3. QED
        BY <3>1, <3>2
    <2>2. QED
      BY <2>1
  <1>6. GroundWorth(s) \in Int
    BY <1>5, GoodsAssumption, SumIsInt DEF GroundWorth
  <1>7. QED
    BY <1>1, <1>2, <1>3, <1>4, <1>5, <1>6

(* What changes when one player's part does, and the workbenches and the
   ground.                                                                 *)
LEMMA TotalChange ==
    ASSUME IsFiniteSet(Crafter), NEW s \in Stocks, NEW t \in Stocks, NEW u \in Crafter,
           \A v \in Crafter \ {u} : OwnWorth(t, v) = OwnWorth(s, v)
    PROVE  /\ TotalWorth(s) \in Int
           /\ TotalWorth(t) = TotalWorth(s) + (OwnWorth(t, u) - OwnWorth(s, u))
                              + (BenchesWorth(t) - BenchesWorth(s))
                              + (GroundWorth(t) - GroundWorth(s))
  <1> DEFINE f == [v \in Crafter |-> OwnWorth(s, v)]
             g == [v \in Crafter |-> OwnWorth(t, v)]
             n == OwnWorth(t, u)
  <1>1. f \in [Crafter -> Int] /\ n \in Int /\ f[u] = OwnWorth(s, u)
    BY WorthNumbers
  <1>2. g = [f EXCEPT ![u] = n]
    OBVIOUS
  <1>3. TotalWorth(s) = GroundWorth(s) + BenchesWorth(s) + SumFunction(f)
        /\ TotalWorth(t) = GroundWorth(t) + BenchesWorth(t) + SumFunction(g)
    BY DEF TotalWorth
  <1> HIDE DEF f, g, n
  <1>4. SumFunction(f) \in Int
    BY <1>1, SumIsInt
  <1>5. SumFunction([f EXCEPT ![u] = n]) = SumFunction(f) - f[u] + n
    BY <1>1, SumChanges
  <1>6. SumFunction(g) = SumFunction(f) - f[u] + n
    BY <1>2, <1>5
  <1>7. GroundWorth(s) \in Int /\ BenchesWorth(s) \in Int
        /\ GroundWorth(t) \in Int /\ BenchesWorth(t) \in Int /\ OwnWorth(s, u) \in Int
    BY WorthNumbers
  <1>8. QED
    BY <1>1, <1>3, <1>4, <1>6, <1>7 DEF n

(* When one workbench changes, the worth of all changes by that.           *)
LEMMA BenchChange ==
    ASSUME NEW s \in Stocks, NEW t \in Stocks, NEW b \in Bench,
           \A c \in Bench \ {b} : t.bench[c] = s.bench[c]
    PROVE  BenchesWorth(t) = BenchesWorth(s) - InvWorth(s.bench[b], Cell(BenchGrid))
                             + InvWorth(t.bench[b], Cell(BenchGrid))
  <1> DEFINE f == [c \in Bench |-> InvWorth(s.bench[c], Cell(BenchGrid))]
             g == [c \in Bench |-> InvWorth(t.bench[c], Cell(BenchGrid))]
             n == InvWorth(t.bench[b], Cell(BenchGrid))
  <1>1. f \in [Bench -> Int] /\ n \in Int
        /\ f[b] = InvWorth(s.bench[b], Cell(BenchGrid))
    BY WorthNumbers
  <1>2. g = [f EXCEPT ![b] = n]
    OBVIOUS
  <1>3. BenchesWorth(s) = SumFunction(f) /\ BenchesWorth(t) = SumFunction(g)
    BY DEF BenchesWorth
  <1> HIDE DEF f, g, n
  <1>4. IsFiniteSet(Bench)
    BY BenchAssumption
  <1>5. SumFunction([f EXCEPT ![b] = n]) = SumFunction(f) - f[b] + n
    BY <1>1, <1>4, SumChanges
  <1>6. QED
    BY <1>1, <1>2, <1>3, <1>5 DEF n

(* A player's part, when a slot other than the output changes.             *)
LEMMA OwnChange ==
    ASSUME NEW s \in Stocks, NEW t \in Stocks, NEW u \in Crafter, NEW j \in Slots \ {0},
           \A i \in Slots \ {j} : t.inv[u][i] = s.inv[u][i],
           u \in t.leftover <=> u \in s.leftover
    PROVE  OwnWorth(t, u) = OwnWorth(s, u) - ItemWorth(s.inv[u][j]) + ItemWorth(t.inv[u][j])
                            - ItemWorth(s.hand[u]) + ItemWorth(t.hand[u])
  <1> DEFINE a == s.inv[u]
             b == t.inv[u]
  <1>0. (\A i \in Slots : a[i] \in Stuff /\ b[i] \in Stuff)
        /\ Cell(OwnGrid) \subseteq Slots /\ Kept \subseteq Slots /\ 0 \in Slots
        /\ j \in Slots /\ j # 0
    BY SlotNumbers DEF Stocks
  <1>1. a[0] = b[0]
    BY <1>0
  <1>2. \A i \in Slots \ {j} : b[i] = a[i]
    OBVIOUS
  <1>3. /\ OwnWorth(s, u) = ItemWorth(s.hand[u]) + InvWorth(a, Cell(OwnGrid))
              + InvWorth(a, Kept) + (IF u \in s.leftover THEN ItemWorth(a[0]) ELSE 0)
        /\ OwnWorth(t, u) = ItemWorth(t.hand[u]) + InvWorth(b, Cell(OwnGrid))
              + InvWorth(b, Kept) + (IF u \in s.leftover THEN ItemWorth(a[0]) ELSE 0)
    BY <1>1 DEF OwnWorth
  <1>4. /\ ItemWorth(s.hand[u]) \in Int /\ ItemWorth(t.hand[u]) \in Int
        /\ ItemWorth(a[0]) \in Int /\ InvWorth(a, Cell(OwnGrid)) \in Int
        /\ InvWorth(a, Kept) \in Int
        /\ ItemWorth(a[j]) \in Int /\ ItemWorth(b[j]) \in Int
    BY <1>0, WorthNumbers, StuffFacts
  <1> HIDE DEF a, b
  <1>5. ASSUME NEW S, S \in {Cell(OwnGrid), Kept}
        PROVE  InvWorth(b, S) = IF j \in S THEN InvWorth(a, S) - ItemWorth(a[j]) + ItemWorth(b[j])
                                ELSE InvWorth(a, S)
    <2>1. IsFiniteSet(S) /\ S \subseteq Slots
      BY <1>0, <1>5, SlotNumbers
    <2>2. \A i \in S : a[i] \in Stuff
      BY <1>0, <2>1
    <2>3. CASE j \in S
      <3>1. b[j] \in Stuff /\ \A i \in S \ {j} : b[i] = a[i]
        BY <1>0, <1>2, <2>1
      <3>2. QED
        BY <2>1, <2>2, <2>3, <3>1, SlotsWorth
    <2>4. CASE j \notin S
      <3>1. \A i \in S : b[i] = a[i]
        BY <1>2, <2>1, <2>4
      <3>2. QED
        BY <2>1, <2>2, <2>4, <3>1, SlotsWorth
    <2>5. QED
      BY <2>3, <2>4
  <1>6. (j \in Cell(OwnGrid) /\ j \notin Kept) \/ (j \notin Cell(OwnGrid) /\ j \in Kept)
    BY <1>0, SlotNumbers
  <1>7. CASE j \in Cell(OwnGrid) /\ j \notin Kept
    <2>1. InvWorth(b, Cell(OwnGrid)) = InvWorth(a, Cell(OwnGrid)) - ItemWorth(a[j]) + ItemWorth(b[j])
          /\ InvWorth(b, Kept) = InvWorth(a, Kept)
      BY <1>5, <1>7
    <2>2. QED
      BY <1>3, <1>4, <2>1 DEF a, b
  <1>8. CASE j \notin Cell(OwnGrid) /\ j \in Kept
    <2>1. InvWorth(b, Kept) = InvWorth(a, Kept) - ItemWorth(a[j]) + ItemWorth(b[j])
          /\ InvWorth(b, Cell(OwnGrid)) = InvWorth(a, Cell(OwnGrid))
      BY <1>5, <1>8
    <2>2. QED
      BY <1>3, <1>4, <2>1 DEF a, b
  <1>9. QED
    BY <1>6, <1>7, <1>8

(* What others have does not depend on what a player does.                 *)
LEMMA OthersWorth ==
    ASSUME NEW s, NEW t, NEW v \in Crafter, t.inv[v] = s.inv[v], t.hand[v] = s.hand[v],
           v \in t.leftover <=> v \in s.leftover
    PROVE  OwnWorth(t, v) = OwnWorth(s, v)
  BY DEF OwnWorth, InvWorth

(* The slots a player's window may show.                                   *)
Places(u) == {<<"inv", i>> : i \in Slots}
             \cup {<<"bench", i>> : i \in IF opened[u] = None THEN {}
                                          ELSE {0} \cup Cell(BenchGrid)}
AllAt == opened \in [Crafter -> Bench \cup {None}] /\ IsFiniteSet(Crafter)

(* Another item in the hand.                                               *)
LEMMA HoldStock ==
    ASSUME AllAt, NEW s \in Stocks, NEW u \in Crafter, NEW item \in Stuff
    PROVE  LET t == Hold(s, u, item)
           IN  /\ t \in Stocks /\ t.inv = s.inv /\ t.bench = s.bench
               /\ t.ground = s.ground /\ t.leftover = s.leftover /\ t.most = s.most
               /\ t.hand[u] = item
               /\ \A v \in Crafter \ {u} : t.hand[v] = s.hand[v]
               /\ TotalWorth(t) = TotalWorth(s) - ItemWorth(s.hand[u]) + ItemWorth(item)
               /\ TotalWorth(s) \in Int
  <1> DEFINE t == Hold(s, u, item)
  <1>1. t \in Stocks /\ t.inv = s.inv /\ t.bench = s.bench
        /\ t.ground = s.ground /\ t.leftover = s.leftover /\ t.most = s.most
        /\ t.hand[u] = item /\ \A v \in Crafter \ {u} : t.hand[v] = s.hand[v]
    BY DEF Hold, Stocks
  <1> HIDE DEF t
  <1>2. Toolbar \in Slots \ {0}
    BY SlotNumbers
  <1>3. OwnWorth(t, u) = OwnWorth(s, u) - ItemWorth(s.inv[u][Toolbar])
            + ItemWorth(s.inv[u][Toolbar]) - ItemWorth(s.hand[u]) + ItemWorth(item)
    BY <1>1, <1>2, OwnChange
  <1>4. BenchesWorth(t) = BenchesWorth(s) /\ GroundWorth(t) = GroundWorth(s)
    BY <1>1 DEF BenchesWorth, GroundWorth
  <1>5. \A v \in Crafter \ {u} : OwnWorth(t, v) = OwnWorth(s, v)
    BY <1>1, OthersWorth
  <1>6. TotalWorth(s) \in Int
        /\ TotalWorth(t) = TotalWorth(s) + (OwnWorth(t, u) - OwnWorth(s, u))
                           + (BenchesWorth(t) - BenchesWorth(s))
                           + (GroundWorth(t) - GroundWorth(s))
    BY <1>1, <1>5, TotalChange DEF AllAt
  <1>7. /\ OwnWorth(s, u) \in Int /\ BenchesWorth(s) \in Int /\ GroundWorth(s) \in Int
        /\ ItemWorth(s.inv[u][Toolbar]) \in Int /\ ItemWorth(s.hand[u]) \in Int
        /\ ItemWorth(item) \in Int
    <2>1. s.inv[u][Toolbar] \in Stuff
      BY <1>2 DEF Stocks
    <2>2. QED
      BY <2>1, WorthNumbers, StuffFacts
  <1>8. TotalWorth(t) = TotalWorth(s) - ItemWorth(s.hand[u]) + ItemWorth(item)
    BY <1>3, <1>4, <1>6, <1>7
  <1>9. QED
    BY <1>1, <1>6, <1>8 DEF t

(* A place is a slot of the player's own, or of the workbench it is at.    *)
LEMMA PlaceFacts ==
    ASSUME AllAt, NEW u \in Crafter, NEW x \in Places(u)
    PROVE  /\ x = <<x[1], x[2]>>
           /\ \/ x[1] = "inv" /\ x[2] \in Slots
              \/ /\ x[1] = "bench" /\ x[1] # "inv" /\ x[2] \in {0} \cup Cell(BenchGrid)
                 /\ opened[u] # None /\ opened[u] \in Bench
  BY DEF Places, AllAt

(* Another item in an own slot.                                            *)
LEMMA PutOwn ==
    ASSUME AllAt, NEW s \in Stocks, NEW u \in Crafter, NEW j \in Slots,
           NEW item \in Stuff
    PROVE  LET t == [s EXCEPT !.inv[u][j] = item]
           IN  /\ t \in Stocks /\ t.hand = s.hand /\ t.bench = s.bench
               /\ t.ground = s.ground /\ t.leftover = s.leftover /\ t.most = s.most
               /\ t.inv[u] = [s.inv[u] EXCEPT ![j] = item]
               /\ \A v \in Crafter \ {u} : t.inv[v] = s.inv[v]
               /\ j # 0 => TotalWorth(t) = TotalWorth(s) - ItemWorth(s.inv[u][j]) + ItemWorth(item)
  <1> DEFINE t == [s EXCEPT !.inv[u][j] = item]
  <1>1. t \in Stocks /\ t.hand = s.hand /\ t.bench = s.bench
        /\ t.ground = s.ground /\ t.leftover = s.leftover /\ t.most = s.most
        /\ t.inv[u] = [s.inv[u] EXCEPT ![j] = item]
        /\ \A v \in Crafter \ {u} : t.inv[v] = s.inv[v]
    BY DEF Stocks
  <1>2. t.inv[u][j] = item /\ (\A i \in Slots \ {j} : t.inv[u][i] = s.inv[u][i])
        /\ s.inv[u][j] \in Stuff
    BY <1>1 DEF Stocks
  <1> HIDE DEF t
  <1>3. ASSUME j # 0
        PROVE  TotalWorth(t) = TotalWorth(s) - ItemWorth(s.inv[u][j]) + ItemWorth(item)
    <2>0. j \in Slots \ {0}
      BY <1>3
    <2>1. OwnWorth(t, u) = OwnWorth(s, u) - ItemWorth(s.inv[u][j])
              + ItemWorth(item) - ItemWorth(s.hand[u]) + ItemWorth(s.hand[u])
      <3>1. t \in Stocks /\ (u \in t.leftover <=> u \in s.leftover)
        BY <1>1
      <3>2. OwnWorth(t, u) = OwnWorth(s, u) - ItemWorth(s.inv[u][j])
                + ItemWorth(t.inv[u][j]) - ItemWorth(s.hand[u]) + ItemWorth(t.hand[u])
        BY <1>2, <2>0, <3>1, OwnChange
      <3>3. QED
        BY <1>1, <1>2, <3>2
    <2>2. BenchesWorth(t) = BenchesWorth(s) /\ GroundWorth(t) = GroundWorth(s)
      BY <1>1 DEF BenchesWorth, GroundWorth
    <2>3. \A v \in Crafter \ {u} : OwnWorth(t, v) = OwnWorth(s, v)
      BY <1>1, OthersWorth
    <2>4. TotalWorth(s) \in Int
          /\ TotalWorth(t) = TotalWorth(s) + (OwnWorth(t, u) - OwnWorth(s, u))
                             + (BenchesWorth(t) - BenchesWorth(s))
                             + (GroundWorth(t) - GroundWorth(s))
      BY <1>1, <2>3, TotalChange DEF AllAt
    <2>5. /\ OwnWorth(s, u) \in Int /\ BenchesWorth(s) \in Int /\ GroundWorth(s) \in Int
          /\ ItemWorth(s.inv[u][j]) \in Int /\ ItemWorth(s.hand[u]) \in Int
          /\ ItemWorth(item) \in Int
      BY <1>2, WorthNumbers, StuffFacts
    <2>6. QED
      BY <2>1, <2>2, <2>4, <2>5
  <1>4. QED
    BY <1>1, <1>3 DEF t

(* Another item in a slot of a workbench.                                  *)
LEMMA PutBench ==
    ASSUME AllAt, NEW s \in Stocks, NEW b \in Bench, NEW j \in {0} \cup Cell(BenchGrid),
           NEW item \in Stuff
    PROVE  LET t == [s EXCEPT !.bench[b][j] = item]
           IN  /\ t \in Stocks /\ t.hand = s.hand /\ t.inv = s.inv
               /\ t.ground = s.ground /\ t.leftover = s.leftover /\ t.most = s.most
               /\ t.bench[b] = [s.bench[b] EXCEPT ![j] = item]
               /\ \A c \in Bench \ {b} : t.bench[c] = s.bench[c]
               /\ (\E u : u \in Crafter)
                     => TotalWorth(t) = IF j = 0 THEN TotalWorth(s)
                                        ELSE TotalWorth(s) - ItemWorth(s.bench[b][j]) + ItemWorth(item)
  <1> DEFINE t == [s EXCEPT !.bench[b][j] = item]
  <1>1. t \in Stocks /\ t.hand = s.hand /\ t.inv = s.inv
        /\ t.ground = s.ground /\ t.leftover = s.leftover /\ t.most = s.most
        /\ t.bench[b] = [s.bench[b] EXCEPT ![j] = item]
        /\ \A c \in Bench \ {b} : t.bench[c] = s.bench[c]
    BY DEF Stocks
  <1>2. t.bench[b][j] = item
        /\ (\A i \in Cell(BenchGrid) \ {j} : t.bench[b][i] = s.bench[b][i])
        /\ s.bench[b][j] \in Stuff /\ (\A i \in Cell(BenchGrid) : s.bench[b][i] \in Stuff)
    BY <1>1 DEF Stocks
  <1> HIDE DEF t
  <1>3. InvWorth(t.bench[b], Cell(BenchGrid))
            = IF j = 0 THEN InvWorth(s.bench[b], Cell(BenchGrid))
              ELSE InvWorth(s.bench[b], Cell(BenchGrid)) - ItemWorth(s.bench[b][j]) + ItemWorth(item)
    <2>1. CASE j = 0
      <3>1. \A i \in Cell(BenchGrid) : t.bench[b][i] = s.bench[b][i]
        BY <1>2, <2>1, SlotNumbers
      <3>2. QED
        BY <1>2, <2>1, <3>1, SlotNumbers, SlotsWorth
    <2>2. CASE j # 0
      <3>1. j \in Cell(BenchGrid)
        BY <2>2
      <3>2. QED
        BY <1>2, <2>2, <3>1, SlotNumbers, SlotsWorth
    <2>3. QED
      BY <2>1, <2>2
  <1>4. ASSUME NEW u \in Crafter
        PROVE  TotalWorth(t) = IF j = 0 THEN TotalWorth(s)
                               ELSE TotalWorth(s) - ItemWorth(s.bench[b][j]) + ItemWorth(item)
    <2>1. BenchesWorth(t) = BenchesWorth(s) - InvWorth(s.bench[b], Cell(BenchGrid))
                            + InvWorth(t.bench[b], Cell(BenchGrid))
      BY <1>1, BenchChange
    <2>2. GroundWorth(t) = GroundWorth(s)
      BY <1>1 DEF GroundWorth
    <2>3. \A v \in Crafter : OwnWorth(t, v) = OwnWorth(s, v)
      BY <1>1, OthersWorth
    <2>4. TotalWorth(s) \in Int
          /\ TotalWorth(t) = TotalWorth(s) + (OwnWorth(t, u) - OwnWorth(s, u))
                             + (BenchesWorth(t) - BenchesWorth(s))
                             + (GroundWorth(t) - GroundWorth(s))
      BY <1>1, <2>3, TotalChange DEF AllAt
    <2>5. /\ OwnWorth(s, u) \in Int /\ BenchesWorth(s) \in Int /\ GroundWorth(s) \in Int
          /\ ItemWorth(s.bench[b][j]) \in Int /\ ItemWorth(item) \in Int
          /\ InvWorth(s.bench[b], Cell(BenchGrid)) \in Int
      BY <1>2, WorthNumbers, StuffFacts
    <2>6. QED
      BY <1>3, <2>1, <2>2, <2>3, <2>4, <2>5
  <1>5. QED
    BY <1>1, <1>4 DEF t

(* Nothing but slot x and the toolbar of a player are different.           *)
Beside(s, t, u, x) ==
    /\ \A v \in Crafter, i \in Slots :
          v # u \/ (x # <<"inv", i>> /\ i # Toolbar) => t.inv[v][i] = s.inv[v][i]
    /\ \A b \in Bench, i \in {0} \cup Cell(BenchGrid) :
          x # <<"bench", i>> \/ b # opened[u] => t.bench[b][i] = s.bench[b][i]

(* Another item in a slot of a window.                                     *)
LEMMA PutStock ==
    ASSUME AllAt, NEW s \in Stocks, NEW u \in Crafter, NEW x \in Places(u), x[2] # 0,
           NEW item \in Stuff
    PROVE  LET t == Put(s, u, x, item)
           IN  /\ t \in Stocks /\ t.hand = s.hand
               /\ t.ground = s.ground /\ t.leftover = s.leftover /\ t.most = s.most
               /\ Beside(s, t, u, x)
               /\ At(s, u, x) \in Stuff
               /\ TotalWorth(t) = TotalWorth(s) - ItemWorth(At(s, u, x)) + ItemWorth(item)
  <1>1. CASE x[1] = "inv"
    <2> DEFINE j == x[2]
               t == [s EXCEPT !.inv[u][j] = item]
    <2>1. Put(s, u, x, item) = t /\ At(s, u, x) = s.inv[u][j]
      BY <1>1 DEF Put, At
    <2>2. j \in Slots /\ j # 0 /\ x = <<"inv", j>>
      BY <1>1, PlaceFacts
    <2> HIDE DEF j
    <2>3. /\ t \in Stocks /\ t.hand = s.hand /\ t.bench = s.bench
          /\ t.ground = s.ground /\ t.leftover = s.leftover /\ t.most = s.most
          /\ t.inv[u] = [s.inv[u] EXCEPT ![j] = item]
          /\ \A v \in Crafter \ {u} : t.inv[v] = s.inv[v]
          /\ TotalWorth(t) = TotalWorth(s) - ItemWorth(s.inv[u][j]) + ItemWorth(item)
      BY <2>2, PutOwn
    <2> HIDE DEF t
    <2>4. s.inv[u][j] \in Stuff /\ s.inv[u] \in [Slots -> Stuff]
      BY <2>2 DEF Stocks
    <2>5. \A v \in Crafter, i \in Slots :
             v # u \/ x # <<"inv", i>> => t.inv[v][i] = s.inv[v][i]
      BY <2>2, <2>3, <2>4
    <2>6. Beside(s, t, u, x)
      BY <2>2, <2>3, <2>5 DEF Beside
    <2>7. QED
      BY <2>1, <2>3, <2>4, <2>6
  <1>2. CASE x[1] # "inv"
    <2> DEFINE j == x[2]
               b == opened[u]
               t == [s EXCEPT !.bench[b][j] = item]
    <2>1. Put(s, u, x, item) = t /\ At(s, u, x) = s.bench[b][j]
      BY <1>2 DEF Put, At
    <2>2. j \in {0} \cup Cell(BenchGrid) /\ j # 0 /\ x = <<"bench", j>> /\ b \in Bench
      BY <1>2, PlaceFacts
    <2> HIDE DEF j, b
    <2>3. /\ t \in Stocks /\ t.hand = s.hand /\ t.inv = s.inv
          /\ t.ground = s.ground /\ t.leftover = s.leftover /\ t.most = s.most
          /\ t.bench[b] = [s.bench[b] EXCEPT ![j] = item]
          /\ \A c \in Bench \ {b} : t.bench[c] = s.bench[c]
          /\ TotalWorth(t) = TotalWorth(s) - ItemWorth(s.bench[b][j]) + ItemWorth(item)
      BY <2>2, PutBench
    <2> HIDE DEF t
    <2>4. s.bench[b][j] \in Stuff /\ s.bench[b] \in [{0} \cup Cell(BenchGrid) -> Stuff]
      BY <2>2 DEF Stocks
    <2>5. \A c \in Bench, i \in {0} \cup Cell(BenchGrid) :
             x # <<"bench", i>> \/ c # b => t.bench[c][i] = s.bench[c][i]
      BY <2>2, <2>3, <2>4
    <2>6. Beside(s, t, u, x)
      BY <2>2, <2>3, <2>5 DEF Beside, b
    <2>7. QED
      BY <2>1, <2>3, <2>4, <2>6 DEF b
  <1>3. QED
    BY <1>1, <1>2

-----------------------------------------------------------------------------
(* Steps that concern one player or one workbench.                         *)

(* What all there is is worth is a number.                                 *)
LEMMA TotalIsInt ==
    ASSUME AllAt, NEW s \in Stocks
    PROVE  TotalWorth(s) \in Int
  <1> DEFINE f == [v \in Crafter |-> OwnWorth(s, v)]
  <1>1. f \in [Crafter -> Int]
    BY WorthNumbers
  <1>2. TotalWorth(s) = GroundWorth(s) + BenchesWorth(s) + SumFunction(f)
    BY DEF TotalWorth
  <1> HIDE DEF f
  <1>3. SumFunction(f) \in Int
    BY <1>1, SumIsInt DEF AllAt
  <1>4. QED
    BY <1>2, <1>3, WorthNumbers

(* The worth of all when the slots of one player change.                   *)
LEMMA OwnTotal ==
    ASSUME AllAt, NEW s \in Stocks, NEW t \in Stocks, NEW u \in Crafter,
           t.ground = s.ground, t.bench = s.bench,
           \A v \in Crafter \ {u} : /\ t.inv[v] = s.inv[v] /\ t.hand[v] = s.hand[v]
                                    /\ v \in t.leftover <=> v \in s.leftover
    PROVE  TotalWorth(t) = TotalWorth(s) - OwnWorth(s, u) + OwnWorth(t, u)
  <1>1. BenchesWorth(t) = BenchesWorth(s) /\ GroundWorth(t) = GroundWorth(s)
    BY DEF BenchesWorth, GroundWorth
  <1>2. \A v \in Crafter \ {u} : OwnWorth(t, v) = OwnWorth(s, v)
    BY OthersWorth
  <1>3. TotalWorth(s) \in Int
        /\ TotalWorth(t) = TotalWorth(s) + (OwnWorth(t, u) - OwnWorth(s, u))
                           + (BenchesWorth(t) - BenchesWorth(s))
                           + (GroundWorth(t) - GroundWorth(s))
    BY <1>2, TotalChange DEF AllAt
  <1>4. OwnWorth(s, u) \in Int /\ OwnWorth(t, u) \in Int
        /\ BenchesWorth(s) \in Int /\ GroundWorth(s) \in Int
    BY WorthNumbers
  <1>5. QED
    BY <1>1, <1>3, <1>4

(* The worth of all when one workbench changes.                            *)
LEMMA BenchTotal ==
    ASSUME AllAt, NEW s \in Stocks, NEW t \in Stocks, NEW b \in Bench, NEW u \in Crafter,
           t.ground = s.ground, t.inv = s.inv, t.hand = s.hand, t.leftover = s.leftover,
           \A c \in Bench \ {b} : t.bench[c] = s.bench[c]
    PROVE  TotalWorth(t) = TotalWorth(s) - InvWorth(s.bench[b], Cell(BenchGrid))
                           + InvWorth(t.bench[b], Cell(BenchGrid))
  <1>1. GroundWorth(t) = GroundWorth(s)
    BY DEF GroundWorth
  <1>2. \A v \in Crafter : OwnWorth(t, v) = OwnWorth(s, v)
    BY OthersWorth
  <1>3. TotalWorth(s) \in Int
        /\ TotalWorth(t) = TotalWorth(s) + (OwnWorth(t, u) - OwnWorth(s, u))
                           + (BenchesWorth(t) - BenchesWorth(s))
                           + (GroundWorth(t) - GroundWorth(s))
    BY <1>2, TotalChange DEF AllAt
  <1>4. OwnWorth(s, u) \in Int /\ BenchesWorth(s) \in Int /\ GroundWorth(s) \in Int
        /\ InvWorth(s.bench[b], Cell(BenchGrid)) \in Int
        /\ InvWorth(t.bench[b], Cell(BenchGrid)) \in Int
    BY WorthNumbers
  <1>5. BenchesWorth(t) = BenchesWorth(s) - InvWorth(s.bench[b], Cell(BenchGrid))
                          + InvWorth(t.bench[b], Cell(BenchGrid))
    BY BenchChange
  <1>6. QED
    BY <1>1, <1>2, <1>3, <1>4, <1>5

(* What is on offer is what a grid makes.                                  *)
BenchOk(s, b) == s.bench[b][0] = DoCraft(s.bench[b], BenchGrid)
OwnOk(s, u) ==
    u \in s.leftover \/ s.inv[u][0] \in {Empty, DoCraft(s.inv[u], OwnGrid)}
Current(s) ==
    (\A b \in Bench : BenchOk(s, b)) /\ (\A u \in Crafter : OwnOk(s, u))
NotDearer(s, t) == WholeStacks \/ TotalWorth(t) <= TotalWorth(s)

(* It stays so where nothing changes.                                      *)
LEMMA OffersSame ==
    ASSUME NEW s, NEW t
    PROVE  /\ \A b : /\ \A i \in {0} \cup Cell(BenchGrid) : t.bench[b][i] = s.bench[b][i]
                     /\ BenchOk(s, b)
                     => BenchOk(t, b)
           /\ \A u : /\ \A i \in {0} \cup Cell(OwnGrid) : t.inv[u][i] = s.inv[u][i]
                     /\ u \in s.leftover => u \in t.leftover
                     /\ OwnOk(s, u)
                     => OwnOk(t, u)
  <1>1. OwnGrid \in Nat \X Nat /\ BenchGrid \in Nat \X Nat
    BY GridsAssumption
  <1>2. ASSUME NEW b, \A i \in {0} \cup Cell(BenchGrid) : t.bench[b][i] = s.bench[b][i],
               BenchOk(s, b)
        PROVE  BenchOk(t, b)
    <2>1. DoCraft(t.bench[b], BenchGrid) = DoCraft(s.bench[b], BenchGrid)
      BY <1>1, <1>2, DoCraftSame
    <2>2. QED
      BY <1>2, <2>1 DEF BenchOk
  <1>3. ASSUME NEW u, \A i \in {0} \cup Cell(OwnGrid) : t.inv[u][i] = s.inv[u][i],
               u \in s.leftover => u \in t.leftover, OwnOk(s, u)
        PROVE  OwnOk(t, u)
    <2>1. DoCraft(t.inv[u], OwnGrid) = DoCraft(s.inv[u], OwnGrid)
      BY <1>1, <1>3, DoCraftSame
    <2>2. t.inv[u][0] = s.inv[u][0]
      BY <1>3
    <2>3. QED
      BY <1>3, <2>1, <2>2 DEF OwnOk
  <1>4. QED
    BY <1>2, <1>3

(* A workbench's output is made anew.                                      *)
LEMMA RecraftBench ==
    ASSUME AllAt, NEW s \in Stocks, NEW u \in Crafter, NEW x \in Places(u), x[1] = "bench"
    PROVE  LET t == Recraft(s, u, x)
           IN  /\ t \in Stocks /\ t.hand = s.hand /\ t.inv = s.inv
               /\ t.ground = s.ground /\ t.leftover = s.leftover /\ t.most = s.most
               /\ \A b \in Bench, i \in {0} \cup Cell(BenchGrid) :
                     b # opened[u] \/ i # 0 => t.bench[b][i] = s.bench[b][i]
               /\ BenchOk(t, opened[u])
               /\ TotalWorth(t) = TotalWorth(s)
  <1> DEFINE b == opened[u]
             made == DoCraft(s.bench[b], BenchGrid)
             t == [s EXCEPT !.bench[b][0] = made]
  <1>1. Recraft(s, u, x) = t
    BY DEF Recraft
  <1>2. b \in Bench
    BY PlaceFacts
  <1>3. made \in Stuff
    BY GridsAssumption, DoCraftStuff
  <1> HIDE DEF b, made
  <1>4. /\ t \in Stocks /\ t.hand = s.hand /\ t.inv = s.inv
        /\ t.ground = s.ground /\ t.leftover = s.leftover /\ t.most = s.most
        /\ t.bench[b] = [s.bench[b] EXCEPT ![0] = made]
        /\ \A c \in Bench \ {b} : t.bench[c] = s.bench[c]
        /\ TotalWorth(t) = TotalWorth(s)
    <2>1. 0 \in {0} \cup Cell(BenchGrid)
      OBVIOUS
    <2>2. QED
      BY <1>2, <1>3, <2>1, PutBench
  <1> HIDE DEF t
  <1>5. s.bench[b] \in [{0} \cup Cell(BenchGrid) -> Stuff]
    BY <1>2 DEF Stocks
  <1>6. \A c \in Bench, i \in {0} \cup Cell(BenchGrid) :
            c # b \/ i # 0 => t.bench[c][i] = s.bench[c][i]
    BY <1>4, <1>5
  <1>7. BenchOk(t, b)
    <2>1. t.bench[b][0] = made
      BY <1>4, <1>5
    <2>2. \A i \in Cell(BenchGrid) : t.bench[b][i] = s.bench[b][i]
      BY <1>2, <1>6, SlotNumbers
    <2>3. DoCraft(t.bench[b], BenchGrid) = made
      BY <2>2, GridsAssumption, DoCraftSame DEF made
    <2>4. QED
      BY <2>1, <2>3 DEF BenchOk
  <1>8. QED
    BY <1>1, <1>4, <1>6, <1>7 DEF b

(* A player's own output is made anew; nothing is left over then.          *)
LEMMA RecraftOwn ==
    ASSUME AllAt, NEW s \in Stocks, NEW u \in Crafter, NEW x, x[1] # "bench"
    PROVE  LET t == Recraft(s, u, x)
           IN  /\ t \in Stocks /\ t.hand = s.hand /\ t.bench = s.bench
               /\ t.ground = s.ground /\ t.leftover = s.leftover \ {u} /\ t.most = s.most
               /\ \A v \in Crafter, i \in Slots :
                     v # u \/ i # 0 => t.inv[v][i] = s.inv[v][i]
               /\ OwnOk(t, u)
               /\ TotalWorth(t) = TotalWorth(s)
                     - (IF u \in s.leftover THEN ItemWorth(s.inv[u][0]) ELSE 0)
  <1> DEFINE made == DoCraft(s.inv[u], OwnGrid)
             t == Recraft(s, u, x)
  <1>1. t = [s EXCEPT !.inv[u][0] = made, !.leftover = @ \ {u}]
    BY DEF Recraft
  <1>2. made \in Stuff
    BY GridsAssumption, DoCraftStuff
  <1>3. 0 \in Slots /\ 0 \notin Kept /\ Kept \subseteq Slots
        /\ 0 \notin Cell(OwnGrid) /\ Cell(OwnGrid) \subseteq Slots
        /\ IsFiniteSet(Cell(OwnGrid)) /\ IsFiniteSet(Kept)
    BY SlotNumbers
  <1> HIDE DEF made
  <1>4. /\ t \in Stocks /\ t.hand = s.hand /\ t.bench = s.bench
        /\ t.ground = s.ground /\ t.leftover = s.leftover \ {u} /\ t.most = s.most
        /\ t.inv = [s.inv EXCEPT ![u][0] = made]
    <2> DEFINE r == [s EXCEPT !.inv[u][0] = made]
    <2>1. r \in Stocks /\ r.hand = s.hand /\ r.bench = s.bench
          /\ r.ground = s.ground /\ r.leftover = s.leftover /\ r.most = s.most
          /\ r.inv = [s.inv EXCEPT ![u][0] = made]
      BY <1>2, <1>3 DEF Stocks
    <2>2. t = [r EXCEPT !.leftover = @ \ {u}]
      BY <1>1 DEF Stocks
    <2> HIDE DEF t, r
    <2>3. t \in Stocks /\ t.hand = r.hand /\ t.bench = r.bench /\ t.inv = r.inv
          /\ t.ground = r.ground /\ t.leftover = r.leftover \ {u} /\ t.most = r.most
      BY <2>1, <2>2 DEF Stocks
    <2>4. QED
      BY <2>1, <2>3
  <1> HIDE DEF t
  <1>5. s.inv \in [Crafter -> [Slots -> Stuff]] /\ s.leftover \subseteq Crafter
    BY DEF Stocks
  <1>6. /\ \A v \in Crafter, i \in Slots : v # u \/ i # 0 => t.inv[v][i] = s.inv[v][i]
        /\ \A v \in Crafter \ {u} : t.inv[v] = s.inv[v]
        /\ t.inv[u][0] = made
    BY <1>3, <1>4, <1>5
  <1>7. OwnOk(t, u)
    <2>1. \A i \in Cell(OwnGrid) : t.inv[u][i] = s.inv[u][i]
      BY <1>3, <1>6
    <2>2. DoCraft(t.inv[u], OwnGrid) = made
      BY <2>1, GridsAssumption, DoCraftSame DEF made
    <2>3. QED
      BY <1>6, <2>2 DEF OwnOk
  <1>8. TotalWorth(t) = TotalWorth(s) - OwnWorth(s, u) + OwnWorth(t, u)
    <2>1. \A v \in Crafter \ {u} : /\ t.inv[v] = s.inv[v] /\ t.hand[v] = s.hand[v]
                                   /\ v \in t.leftover <=> v \in s.leftover
      BY <1>4, <1>6
    <2>2. t \in Stocks /\ t.ground = s.ground /\ t.bench = s.bench
      BY <1>4
    <2>3. QED
      BY <2>1, <2>2, OwnTotal
  <1>9. OwnWorth(t, u) = OwnWorth(s, u)
            - (IF u \in s.leftover THEN ItemWorth(s.inv[u][0]) ELSE 0)
    <2>1. InvWorth(t.inv[u], Cell(OwnGrid)) = InvWorth(s.inv[u], Cell(OwnGrid))
      <3>1. /\ \A i \in Cell(OwnGrid) : t.inv[u][i] = s.inv[u][i]
            /\ \A i \in Cell(OwnGrid) : s.inv[u][i] \in Stuff
        BY <1>3, <1>5, <1>6
      <3>2. QED
        BY <1>3, <3>1, SlotsWorth
    <2>2. InvWorth(t.inv[u], Kept) = InvWorth(s.inv[u], Kept)
      <3>1. /\ \A i \in Kept : t.inv[u][i] = s.inv[u][i]
            /\ \A i \in Kept : s.inv[u][i] \in Stuff
        BY <1>3, <1>5, <1>6
      <3>2. QED
        BY <1>3, <3>1, SlotsWorth
    <2>3. u \notin t.leftover /\ t.hand[u] = s.hand[u]
      BY <1>4
    <2>4. QED
      BY <2>1, <2>2, <2>3, WorthNumbers DEF OwnWorth
  <1>10. TotalWorth(s) \in Int /\ OwnWorth(s, u) \in Int /\ ItemWorth(s.inv[u][0]) \in Int
    BY TotalIsInt, WorthNumbers
  <1>11. TotalWorth(t) = TotalWorth(s)
            - (IF u \in s.leftover THEN ItemWorth(s.inv[u][0]) ELSE 0)
    BY <1>8, <1>9, <1>10
  <1>12. QED
    BY <1>4, <1>6, <1>7, <1>11 DEF t

-----------------------------------------------------------------------------
(* Taking what is made.                                                    *)

Spent(cells, S) == SumFunction([i \in S |-> Worth(cells[i].kind)])

(* What is spent is a natural number.                                      *)
LEMMA SpentNat ==
    ASSUME NEW S, IsFiniteSet(S), NEW cells, \A i \in S : cells[i] \in Stuff
    PROVE  Spent(cells, S) \in Nat
  <1> DEFINE f == [i \in S |-> Worth(cells[i].kind)]
  <1>1. f \in [S -> Int] /\ \A i \in S : f[i] >= 0
    BY StuffFacts
  <1>2. Spent(cells, S) = SumFunction(f)
    BY DEF Spent
  <1> HIDE DEF f
  <1>3. SumFunction(f) \in Int /\ SumFunction(f) >= 0
    BY <1>1, SumIsInt, SumOfNaturals
  <1>4. QED
    BY <1>2, <1>3

(* The ingredients in a workbench are paid.                                *)
LEMMA ConsumeBench ==
    ASSUME AllAt, NEW s \in Stocks, NEW u \in Crafter, NEW x \in Places(u), x[1] = "bench"
    PROVE  LET t == Consume(s, u, x)
               b == opened[u]
           IN  /\ t \in Stocks /\ t.hand = s.hand /\ t.inv = s.inv
               /\ t.ground = s.ground /\ t.leftover = s.leftover /\ t.most = s.most
               /\ \A c \in Bench \ {b} : t.bench[c] = s.bench[c]
               /\ TotalWorth(t) = TotalWorth(s) - Spent(s.bench[b], Cell(BenchGrid))
               /\ Spent(s.bench[b], Cell(BenchGrid)) \in Nat
  <1> DEFINE b == opened[u]
             cells == s.bench[b]
             t == [s EXCEPT !.bench[b] = Paid(@)]
  <1>1. Consume(s, u, x) = t /\ t = [s EXCEPT !.bench[b] = Paid(cells)]
    BY DEF Consume
  <1>2. b \in Bench
    BY PlaceFacts
  <1>3. cells \in [{0} \cup Cell(BenchGrid) -> Stuff] /\ 0 \notin Cell(BenchGrid)
        /\ IsFiniteSet(Cell(BenchGrid)) /\ Cell(BenchGrid) \subseteq DOMAIN cells
        /\ \A i \in Cell(BenchGrid) : cells[i] \in Stuff
    <2>1. cells \in [{0} \cup Cell(BenchGrid) -> Stuff]
      BY <1>2 DEF Stocks
    <2> HIDE DEF cells, t
    <2>2. QED
      BY <2>1, SlotNumbers
  <1>b. /\ \A c \in Bench \ {b} : s.bench[c] = s.bench[c]
        /\ s.bench[b] = cells
    OBVIOUS
  <1> HIDE DEF b, cells
  <1>4. /\ \A i \in Cell(BenchGrid) : Paid(cells)[i] \in Stuff
        /\ InvWorth(Paid(cells), Cell(BenchGrid))
              = InvWorth(cells, Cell(BenchGrid)) - Spent(cells, Cell(BenchGrid))
    BY <1>3, PaidWorth DEF Spent
  <1>5. Paid(cells) \in [{0} \cup Cell(BenchGrid) -> Stuff]
    BY <1>3, <1>4 DEF Paid
  <1>6. /\ t \in Stocks /\ t.hand = s.hand /\ t.inv = s.inv
        /\ t.ground = s.ground /\ t.leftover = s.leftover /\ t.most = s.most
        /\ t.bench[b] = Paid(cells)
        /\ \A c \in Bench \ {b} : t.bench[c] = s.bench[c]
    BY <1>1, <1>2, <1>5 DEF Stocks
  <1> HIDE DEF t
  <1>7. TotalWorth(t) = TotalWorth(s) - InvWorth(cells, Cell(BenchGrid))
                        + InvWorth(Paid(cells), Cell(BenchGrid))
    BY <1>2, <1>6, <1>b, BenchTotal
  <1>8. TotalWorth(s) \in Int /\ InvWorth(cells, Cell(BenchGrid)) \in Int
        /\ Spent(cells, Cell(BenchGrid)) \in Nat
    BY <1>2, <1>3, <1>b, TotalIsInt, WorthNumbers, SpentNat
  <1>9. TotalWorth(t) = TotalWorth(s) - Spent(cells, Cell(BenchGrid))
    BY <1>4, <1>7, <1>8
  <1>10. QED
    BY <1>1, <1>6, <1>8, <1>9 DEF b, cells

(* The ingredients in a player's own grid are paid.                        *)
LEMMA ConsumeOwn ==
    ASSUME AllAt, NEW s \in Stocks, NEW u \in Crafter, NEW x, x[1] # "bench"
    PROVE  LET t == Consume(s, u, x)
           IN  /\ t \in Stocks /\ t.hand = s.hand /\ t.bench = s.bench
               /\ t.ground = s.ground /\ t.leftover = s.leftover /\ t.most = s.most
               /\ \A v \in Crafter \ {u} : t.inv[v] = s.inv[v]
               /\ t.inv[u][0] = s.inv[u][0]
               /\ TotalWorth(t) = TotalWorth(s) - Spent(s.inv[u], Cell(OwnGrid))
               /\ Spent(s.inv[u], Cell(OwnGrid)) \in Nat
  <1> DEFINE cells == s.inv[u]
             C == Cell(OwnGrid)
             paid == [i \in Slots |-> IF i \in C THEN Paid(cells)[i] ELSE cells[i]]
             t == [s EXCEPT !.inv[u] = paid]
  <1>1. Consume(s, u, x) = t
    BY DEF Consume
  <1>3. /\ cells \in [Slots -> Stuff] /\ 0 \notin C /\ IsFiniteSet(C)
        /\ C \subseteq DOMAIN cells /\ C \subseteq Slots
        /\ C \cap Kept = {} /\ Kept \subseteq Slots /\ IsFiniteSet(Kept) /\ 0 \in Slots
        /\ \A i \in C : cells[i] \in Stuff
    <2>1. cells \in [Slots -> Stuff]
      BY DEF Stocks
    <2> HIDE DEF cells, t, paid
    <2>2. QED
      BY <2>1, SlotNumbers
  <1>b. s.inv[u] = cells
    OBVIOUS
  <1> HIDE DEF C, cells
  <1>4. /\ \A i \in C : Paid(cells)[i] \in Stuff
        /\ InvWorth(Paid(cells), C) = InvWorth(cells, C) - Spent(cells, C)
    BY <1>3, PaidWorth DEF Spent
  <1>5. /\ paid \in [Slots -> Stuff] /\ paid[0] = cells[0]
        /\ \A i \in C : paid[i] = Paid(cells)[i]
        /\ \A i \in Kept : paid[i] = cells[i]
    BY <1>3, <1>4
  <1> HIDE DEF paid
  <1>6. /\ t \in Stocks /\ t.hand = s.hand /\ t.bench = s.bench
        /\ t.ground = s.ground /\ t.leftover = s.leftover /\ t.most = s.most
        /\ t.inv[u] = paid
        /\ \A v \in Crafter \ {u} : t.inv[v] = s.inv[v]
    BY <1>5 DEF Stocks
  <1> HIDE DEF t
  <1>7. TotalWorth(t) = TotalWorth(s) - OwnWorth(s, u) + OwnWorth(t, u)
    BY <1>6, OwnTotal
  <1>8. /\ InvWorth(paid, C) = InvWorth(Paid(cells), C)
        /\ InvWorth(paid, Kept) = InvWorth(cells, Kept)
    <2>1. InvWorth(paid, C) = InvWorth(Paid(cells), C)
      BY <1>3, <1>4, <1>5, SlotsWorth
    <2>2. \A i \in Kept : cells[i] \in Stuff
      BY <1>3
    <2>3. InvWorth(paid, Kept) = InvWorth(cells, Kept)
      BY <1>3, <1>5, <2>2, SlotsWorth
    <2>4. QED
      BY <2>1, <2>3
  <1>9. /\ TotalWorth(s) \in Int /\ InvWorth(cells, C) \in Int /\ Spent(cells, C) \in Nat
        /\ InvWorth(cells, Kept) \in Int /\ ItemWorth(cells[0]) \in Int
        /\ ItemWorth(s.hand[u]) \in Int
    BY <1>3, <1>b, TotalIsInt, WorthNumbers, SpentNat DEF C
  <1>10. /\ OwnWorth(s, u) = ItemWorth(s.hand[u]) + InvWorth(cells, C) + InvWorth(cells, Kept)
                + (IF u \in s.leftover THEN ItemWorth(cells[0]) ELSE 0)
         /\ OwnWorth(t, u) = ItemWorth(s.hand[u]) + InvWorth(paid, C) + InvWorth(paid, Kept)
                + (IF u \in s.leftover THEN ItemWorth(cells[0]) ELSE 0)
    BY <1>5, <1>6, <1>b DEF OwnWorth, C
  <1>11. TotalWorth(t) = TotalWorth(s) - Spent(cells, C)
    BY <1>4, <1>7, <1>8, <1>9, <1>10
  <1>12. QED
    BY <1>1, <1>5, <1>6, <1>9, <1>11 DEF cells, C

(* What is made joins what is held.                                        *)
LEMMA Gathered ==
    ASSUME NEW held \in Stuff, NEW made \in Stuff, made # Empty,
           held = Empty \/ held.kind = made.kind
    PROVE  /\ Of(made.kind, held.n + made.n) \in Stuff
           /\ ItemWorth(Of(made.kind, held.n + made.n)) = ItemWorth(held) + ItemWorth(made)
  <1>1. /\ held.n \in Nat /\ made.n \in Nat /\ made.n >= 1 /\ made.kind \in Goods
        /\ Worth(made.kind) \in Nat /\ Empty.kind \notin Goods
        /\ ItemWorth(made) = made.n * Worth(made.kind)
    BY StuffFacts, GoodsAssumption DEF ItemWorth
  <1>2. ItemWorth(held) = held.n * Worth(made.kind)
    <2>1. CASE held = Empty
      <3>1. held.n = 0 /\ ItemWorth(held) = 0
        BY <2>1, StuffFacts
      <3>2. QED
        BY <1>1, <3>1
    <2>2. CASE held.kind = made.kind
      BY <2>2 DEF ItemWorth
    <2>3. QED
      BY <2>1, <2>2
  <1>3. (held.n + made.n) * Worth(made.kind)
            = held.n * Worth(made.kind) + made.n * Worth(made.kind)
    <2>1. \A a, b, c \in Int : (a + b) * c = a * c + b * c
      OBVIOUS
    <2>2. QED
      BY <1>1, <2>1
  <1>4. held.n + made.n \in Int /\ held.n + made.n >= 0
    BY <1>1
  <1>5. QED
    BY <1>1, <1>2, <1>3, <1>4, OfStuff

Fine(s, t) == t \in Stocks /\ Current(t) /\ TotalWorth(t) <= TotalWorth(s)

(* Whoever takes what a workbench makes has paid as much for it.           *)
LEMMA TakenBench ==
    ASSUME AllAt, NEW s \in Stocks, Current(s), NEW u \in Crafter, NEW x \in Places(u),
           x = <<"bench", 0>>
    PROVE  Fine(s, TakeOutput(s, u, x))
  <1> DEFINE b == opened[u]
             held == s.hand[u]
             made == s.bench[b][0]
             item == Of(made.kind, held.n + made.n)
             s1 == Hold(s, u, item)
             s2 == Consume(s1, u, x)
             s3 == Recraft(s2, u, x)
             paid == Spent(s.bench[b], Cell(BenchGrid))
  <1>0. b \in Bench /\ x[1] = "bench" /\ At(s, u, x) = made /\ held \in Stuff
    BY PlaceFacts DEF At, Stocks
  <1>1. made = DoCraft(s.bench[b], BenchGrid) /\ made \in Stuff
    BY <1>0, GridsAssumption, DoCraftStuff DEF Current, BenchOk
  <1>2. ItemWorth(made) <= paid
    <2>1. \A i \in Cell(BenchGrid) : s.bench[b][i] \in Stuff
      BY <1>0 DEF Stocks
    <2>2. IsFiniteSet(Cell(BenchGrid)) /\ BenchGrid \in Nat \X Nat
      BY SlotNumbers, GridsAssumption
    <2>3. ItemWorth(DoCraft(s.bench[b], BenchGrid)) <= paid
      BY <2>1, <2>2, DoCraftPaid DEF Spent
    <2>4. QED
      BY <1>1, <2>3
  <1>3. TakeOutput(s, u, x) = s
        \/ /\ TakeOutput(s, u, x) = s3 /\ made # Empty
           /\ held = Empty \/ held.kind = made.kind
    BY <1>0 DEF TakeOutput
  <1>4. CASE TakeOutput(s, u, x) = s
    BY <1>4, TotalIsInt DEF Fine
  <1>5. ASSUME made # Empty, held = Empty \/ held.kind = made.kind PROVE Fine(s, s3)
    <2>1. item \in Stuff /\ ItemWorth(item) = ItemWorth(held) + ItemWorth(made)
      BY <1>0, <1>1, <1>5, Gathered
    <2>2. /\ s1 \in Stocks /\ s1.inv = s.inv /\ s1.bench = s.bench
          /\ s1.leftover = s.leftover
          /\ TotalWorth(s1) = TotalWorth(s) - ItemWorth(held) + ItemWorth(item)
          /\ TotalWorth(s) \in Int
      <3> HIDE DEF item
      <3>1. QED
        BY <2>1, HoldStock
    <2> HIDE DEF s1, item
    <2>3. /\ s2 \in Stocks /\ s2.inv = s1.inv /\ s2.leftover = s1.leftover
          /\ \A c \in Bench \ {b} : s2.bench[c] = s1.bench[c]
          /\ TotalWorth(s2) = TotalWorth(s1) - paid /\ paid \in Nat
      <3>1. s1.bench[b] = s.bench[b]
        BY <2>2
      <3>2. QED
        BY <1>0, <2>2, <3>1, ConsumeBench
    <2> HIDE DEF s2, paid
    <2>4. /\ s3 \in Stocks /\ s3.inv = s2.inv /\ s3.leftover = s2.leftover
          /\ \A c \in Bench, i \in {0} \cup Cell(BenchGrid) :
                c # b \/ i # 0 => s3.bench[c][i] = s2.bench[c][i]
          /\ BenchOk(s3, b) /\ TotalWorth(s3) = TotalWorth(s2)
      BY <1>0, <2>3, RecraftBench
    <2> HIDE DEF s3
    <2>5. TotalWorth(s3) <= TotalWorth(s)
      <3>1. ItemWorth(held) \in Int /\ ItemWorth(made) \in Int
        BY <1>0, <1>1, StuffFacts
      <3>2. QED
        BY <1>2, <2>1, <2>2, <2>3, <2>4, <3>1
    <2>6. Current(s3)
      <3>1. ASSUME NEW c \in Bench PROVE BenchOk(s3, c)
        <4>1. CASE c # b
          <5>1. /\ \A i \in {0} \cup Cell(BenchGrid) : s3.bench[c][i] = s.bench[c][i]
                /\ BenchOk(s, c)
            BY <2>2, <2>3, <2>4, <4>1 DEF Current
          <5>2. QED
            BY <5>1, OffersSame
        <4>2. QED
          BY <2>4, <4>1
      <3>2. ASSUME NEW v \in Crafter PROVE OwnOk(s3, v)
        <4>1. s3.inv = s.inv /\ s3.leftover = s.leftover /\ OwnOk(s, v)
          BY <2>2, <2>3, <2>4 DEF Current
        <4>2. QED
          BY <4>1, OffersSame
      <3>3. QED
        BY <3>1, <3>2 DEF Current
    <2>7. QED
      BY <2>4, <2>5, <2>6 DEF Fine
  <1>6. QED
    BY <1>3, <1>4, <1>5

(* So has whoever takes what the own grid makes, or what was left over.    *)
LEMMA TakenOwn ==
    ASSUME AllAt, NEW s \in Stocks, Current(s), NEW u \in Crafter, NEW x,
           x = <<"inv", 0>>
    PROVE  Fine(s, TakeOutput(s, u, x))
  <1> DEFINE held == s.hand[u]
             made == s.inv[u][0]
             item == Of(made.kind, held.n + made.n)
             s1 == Hold(s, u, item)
             s2 == Consume(s1, u, x)
             s3 == Recraft(s2, u, x)
             paid == Spent(s.inv[u], Cell(OwnGrid))
  <1>0. x[1] # "bench" /\ x[1] = "inv" /\ At(s, u, x) = made /\ held \in Stuff
        /\ made \in Stuff
    <2>1. 0 \in Slots
      BY SlotNumbers
    <2>2. QED
      BY <2>1 DEF At, Stocks
  <1>2. ASSUME u \notin s.leftover, made # Empty PROVE ItemWorth(made) <= paid
    <2>1. \A i \in Cell(OwnGrid) : s.inv[u][i] \in Stuff
      BY SlotNumbers DEF Stocks
    <2>2. IsFiniteSet(Cell(OwnGrid)) /\ OwnGrid \in Nat \X Nat
      BY SlotNumbers, GridsAssumption
    <2>3. ItemWorth(DoCraft(s.inv[u], OwnGrid)) <= paid
      BY <2>1, <2>2, DoCraftPaid DEF Spent
    <2>4. made = DoCraft(s.inv[u], OwnGrid)
      BY <1>2 DEF Current, OwnOk
    <2>5. QED
      BY <2>3, <2>4
  <1>3. TakeOutput(s, u, x) = s
        \/ /\ TakeOutput(s, u, x) = s3 /\ made # Empty
           /\ held = Empty \/ held.kind = made.kind
    BY <1>0 DEF TakeOutput
  <1>4. CASE TakeOutput(s, u, x) = s
    BY <1>4, TotalIsInt DEF Fine
  <1>5. ASSUME made # Empty, held = Empty \/ held.kind = made.kind PROVE Fine(s, s3)
    <2>1. item \in Stuff /\ ItemWorth(item) = ItemWorth(held) + ItemWorth(made)
      BY <1>0, <1>5, Gathered
    <2>2. /\ s1 \in Stocks /\ s1.inv = s.inv /\ s1.bench = s.bench
          /\ s1.leftover = s.leftover
          /\ TotalWorth(s1) = TotalWorth(s) - ItemWorth(held) + ItemWorth(item)
          /\ TotalWorth(s) \in Int
      <3> HIDE DEF item
      <3>1. QED
        BY <2>1, HoldStock
    <2> HIDE DEF s1, item
    <2>3. /\ s2 \in Stocks /\ s2.bench = s1.bench /\ s2.leftover = s1.leftover
          /\ \A v \in Crafter \ {u} : s2.inv[v] = s1.inv[v]
          /\ s2.inv[u][0] = made
          /\ TotalWorth(s2) = TotalWorth(s1) - paid /\ paid \in Nat
      <3>1. s1.inv[u] = s.inv[u]
        BY <2>2
      <3>2. /\ s2 \in Stocks /\ s2.bench = s1.bench /\ s2.leftover = s1.leftover
            /\ \A v \in Crafter \ {u} : s2.inv[v] = s1.inv[v]
            /\ s2.inv[u][0] = s1.inv[u][0]
            /\ TotalWorth(s2) = TotalWorth(s1) - Spent(s1.inv[u], Cell(OwnGrid))
            /\ Spent(s1.inv[u], Cell(OwnGrid)) \in Nat
        <4>1. AllAt /\ s1 \in Stocks /\ u \in Crafter /\ x[1] # "bench"
          BY <1>0, <2>2
        <4>2. QED
          BY ONLY <4>1, ConsumeOwn
      <3> HIDE DEF s2
      <3>3. QED
        BY <3>1, <3>2
    <2> HIDE DEF s2, paid
    <2>4. /\ s3 \in Stocks /\ s3.bench = s2.bench /\ s3.leftover = s2.leftover \ {u}
          /\ \A v \in Crafter, i \in Slots : v # u \/ i # 0 => s3.inv[v][i] = s2.inv[v][i]
          /\ OwnOk(s3, u)
          /\ TotalWorth(s3) = TotalWorth(s2)
                - (IF u \in s2.leftover THEN ItemWorth(s2.inv[u][0]) ELSE 0)
      BY <1>0, <2>3, RecraftOwn
    <2> HIDE DEF s3
    <2>5. TotalWorth(s3) <= TotalWorth(s)
      <3>1. ItemWorth(held) \in Int /\ ItemWorth(made) \in Int
        BY <1>0, StuffFacts
      <3>2. u \in s2.leftover <=> u \in s.leftover
        BY <2>2, <2>3
      <3>3. CASE u \in s.leftover
        BY <2>1, <2>2, <2>3, <2>4, <3>1, <3>2, <3>3
      <3>4. CASE u \notin s.leftover
        BY <1>2, <1>5, <2>1, <2>2, <2>3, <2>4, <3>1, <3>2, <3>4
      <3>5. QED
        BY <3>3, <3>4
    <2>6. Current(s3)
      <3>1. ASSUME NEW c \in Bench PROVE BenchOk(s3, c)
        <4>1. s3.bench = s.bench /\ BenchOk(s, c)
          BY <2>2, <2>3, <2>4 DEF Current
        <4>2. QED
          BY <4>1, OffersSame
      <3>2. ASSUME NEW v \in Crafter PROVE OwnOk(s3, v)
        <4>1. CASE v # u
          <5>1. /\ \A i \in {0} \cup Cell(OwnGrid) : s3.inv[v][i] = s.inv[v][i]
                /\ v \in s.leftover => v \in s3.leftover
                /\ OwnOk(s, v)
            BY <2>2, <2>3, <2>4, <4>1, SlotNumbers DEF Current
          <5>2. QED
            BY <5>1, OffersSame
        <4>2. QED
          BY <2>4, <4>1
      <3>3. QED
        BY <3>1, <3>2 DEF Current
    <2>7. QED
      BY <2>4, <2>5, <2>6 DEF Fine
  <1>6. QED
    BY <1>3, <1>4, <1>5

-----------------------------------------------------------------------------
(* Clicks.                                                                 *)

(* An exchange between the hand and a slot of a window.                    *)
LEMMA Swapped ==
    ASSUME AllAt, NEW s \in Stocks, NEW u \in Crafter, NEW x \in Places(u), x[2] # 0,
           NEW a \in Stuff, NEW b \in Stuff,
           ItemWorth(a) + ItemWorth(b) = ItemWorth(At(s, u, x)) + ItemWorth(s.hand[u])
    PROVE  LET t == Hold(Put(s, u, x, a), u, b)
           IN  /\ t \in Stocks /\ t.leftover = s.leftover
               /\ Beside(s, t, u, x)
               /\ TotalWorth(t) = TotalWorth(s)
  <1> DEFINE at == At(s, u, x)
             held == s.hand[u]
             put == Put(s, u, x, a)
             t == Hold(put, u, b)
  <1>1. held \in Stuff
    BY DEF Stocks
  <1>2. /\ put \in Stocks /\ put.hand = s.hand /\ put.leftover = s.leftover
        /\ Beside(s, put, u, x)
        /\ at \in Stuff
        /\ TotalWorth(put) = TotalWorth(s) - ItemWorth(at) + ItemWorth(a)
    BY PutStock
  <1>b. ItemWorth(a) + ItemWorth(b) = ItemWorth(at) + ItemWorth(held)
    OBVIOUS
  <1> HIDE DEF put, at
  <1>3. /\ t \in Stocks /\ t.inv = put.inv /\ t.bench = put.bench
        /\ t.leftover = put.leftover
        /\ TotalWorth(t) = TotalWorth(put) - ItemWorth(held) + ItemWorth(b)
    BY <1>2, HoldStock
  <1> HIDE DEF t
  <1>4. TotalWorth(t) = TotalWorth(s)
    <2>1. /\ TotalWorth(s) \in Int /\ ItemWorth(at) \in Int /\ ItemWorth(held) \in Int
          /\ ItemWorth(a) \in Int /\ ItemWorth(b) \in Int
      BY <1>1, <1>2, TotalIsInt, StuffFacts
    <2>2. QED
      BY ONLY <1>2, <1>3, <1>b, <2>1
  <1>5. Beside(s, t, u, x)
    BY <1>2, <1>3 DEF Beside
  <1>6. QED
    BY <1>2, <1>3, <1>4, <1>5 DEF t, put

(* A click on another slot changes that slot, the toolbar and the hand;
   addItems aside, what they are worth together does not change.           *)
LEMMA Clicked ==
    ASSUME AllAt, NEW s \in Stocks, NEW u \in Crafter, NEW x \in Places(u), x[2] # 0,
           NEW button
    PROVE  LET t == ClickSlot(s, u, x, button)
           IN  /\ t \in Stocks /\ t.leftover = s.leftover
               /\ Beside(s, t, u, x)
               /\ NotDearer(s, t)
  <1> DEFINE at == At(s, u, x)
             held == s.hand[u]
             moved == I!Moved(at, held, button)
             t1 == Hold(Put(s, u, x, moved.slot), u, moved.hand)
             t2 == ClickShift(s, u, x)
  <1>1. at \in Stuff /\ held \in Stuff
    <2>1. at \in Stuff
      BY StuffFacts, PutStock
    <2>2. QED
      BY <2>1 DEF Stocks
  <1>2. ASSUME NEW t, t = t1
        PROVE  /\ t \in Stocks /\ t.leftover = s.leftover
               /\ Beside(s, t, u, x)
               /\ NotDearer(s, t)
    <2>1. /\ moved.slot \in Stuff /\ moved.hand \in Stuff
          /\ ItemWorth(moved.slot) + ItemWorth(moved.hand) = ItemWorth(at) + ItemWorth(held)
      BY <1>1, MovedStuff
    <2> HIDE DEF moved
    <2>2. /\ t1 \in Stocks /\ t1.leftover = s.leftover
          /\ Beside(s, t1, u, x)
          /\ TotalWorth(t1) = TotalWorth(s)
      BY <2>1, Swapped
    <2> HIDE DEF t1
    <2>3. QED
      BY <1>2, <2>2, TotalIsInt DEF NotDearer
  <1>3. ASSUME NEW t, t = t2, at # Empty, WholeStacks \/ at.n = 1
        PROVE  /\ t \in Stocks /\ t.leftover = s.leftover
               /\ Beside(s, t, u, x)
               /\ NotDearer(s, t)
    <2>0. s.inv[u] \in [Slots -> Stuff] /\ Toolbar \in Slots /\ Toolbar # 0
      BY SlotNumbers DEF Stocks
    <2>1. PICK w \in Stuff :
              /\ I!AddItems(s.inv[u], PackOrder, at) = [s.inv[u] EXCEPT ![Toolbar] = w]
              /\ at.n = 1 => ItemWorth(w) <= ItemWorth(s.inv[u][Toolbar]) + ItemWorth(at)
      BY <1>1, <1>3, <2>0, AddedStuff
    <2> DEFINE s1 == [s EXCEPT !.inv[u][Toolbar] = w]
    <2>2. [s EXCEPT !.inv[u] = I!AddItems(@, PackOrder, at)] = s1
      BY <2>1
    <2>3. t2 = Put(s1, u, x, Empty)
      BY <2>2 DEF ClickShift
    <2>4. /\ s1 \in Stocks /\ s1.hand = s.hand /\ s1.bench = s.bench
          /\ s1.leftover = s.leftover
          /\ s1.inv[u] = [s.inv[u] EXCEPT ![Toolbar] = w]
          /\ \A v \in Crafter \ {u} : s1.inv[v] = s.inv[v]
          /\ TotalWorth(s1) = TotalWorth(s) - ItemWorth(s.inv[u][Toolbar]) + ItemWorth(w)
      BY <2>0, PutOwn, SMTT(30)
    <2> HIDE DEF s1
    <2> DEFINE r == Put(s1, u, x, Empty)
               was == At(s1, u, x)
    <2>5. /\ r \in Stocks /\ r.leftover = s1.leftover
          /\ Beside(s1, r, u, x)
          /\ was \in Stuff
          /\ TotalWorth(r) = TotalWorth(s1) - ItemWorth(was) + ItemWorth(Empty)
      <3>1. AllAt /\ s1 \in Stocks /\ u \in Crafter /\ x \in Places(u) /\ x[2] # 0
            /\ Empty \in Stuff
        BY <2>4, StuffFacts
      <3>2. QED
        BY ONLY <3>1, PutStock
    <2>6. \/ was = at
          \/ was = w /\ at = s.inv[u][Toolbar]
      <3>1. CASE x[1] = "inv"
        <4>1. was = s1.inv[u][x[2]] /\ at = s.inv[u][x[2]] /\ x[2] \in Slots
          BY <3>1, PlaceFacts DEF At
        <4>2. QED
          BY <2>0, <2>4, <4>1
      <3>2. CASE x[1] # "inv"
        BY <2>4, <3>2 DEF At
      <3>3. QED
        BY <3>1, <3>2
    <2> HIDE DEF r, was, at
    <2>7. Beside(s, r, u, x)
      <3>1. \A v \in Crafter, i \in Slots :
                v # u \/ i # Toolbar => s1.inv[v][i] = s.inv[v][i]
        BY <2>0, <2>4
      <3>2. QED
        BY <2>4, <2>5, <3>1 DEF Beside
    <2>8. at.n = 1 => TotalWorth(r) <= TotalWorth(s)
      <3>1. /\ TotalWorth(s) \in Int /\ ItemWorth(at) \in Nat /\ ItemWorth(was) \in Nat
            /\ ItemWorth(w) \in Nat /\ ItemWorth(s.inv[u][Toolbar]) \in Nat
            /\ ItemWorth(Empty) = 0
        BY <1>1, <2>0, <2>5, TotalIsInt, StuffFacts
      <3>2. CASE was = at
        BY <2>1, <2>4, <2>5, <3>1, <3>2
      <3>3. CASE was = w /\ at = s.inv[u][Toolbar]
        BY <2>1, <2>4, <2>5, <3>1, <3>3
      <3>4. QED
        BY <2>6, <3>2, <3>3
    <2>9. t = r
      BY <1>3, <2>3 DEF r
    <2> HIDE DEF t2
    <2>10. QED
      BY <1>3, <2>4, <2>5, <2>7, <2>8, <2>9 DEF NotDearer
  <1>4. ClickSlot(s, u, x, button)
            = IF I!Shifted(s.inv[u], Rows, at, held, button) /\ (WholeStacks \/ at.n = 1)
              THEN t2 ELSE t1
    BY DEF ClickSlot
  <1>5. I!Shifted(s.inv[u], Rows, at, held, button) => at # Empty
    BY StuffFacts DEF I!Shifted
  <1> HIDE DEF t1, t2, at
  <1>6. QED
    BY <1>2, <1>3, <1>4, <1>5

(* Armour is put on, taken off or changed.                                 *)
LEMMA ClickedArmour ==
    ASSUME AllAt, NEW s \in Stocks, NEW u \in Crafter, NEW x \in Places(u),
           x = <<"inv", Armour>>
    PROVE  LET t == ClickArmour(s, u, x)
           IN  /\ t \in Stocks /\ t.leftover = s.leftover /\ Beside(s, t, u, x)
               /\ TotalWorth(t) <= TotalWorth(s)
  <1> DEFINE worn == At(s, u, x)
             held == s.hand[u]
             t == ClickArmour(s, u, x)
             OK(r) == /\ r \in Stocks /\ r.leftover = s.leftover /\ Beside(s, r, u, x)
                      /\ TotalWorth(r) <= TotalWorth(s)
  <1>0. x[1] = "inv" /\ x[2] = Armour /\ Armour \in Slots /\ x[2] # 0
        /\ held \in Stuff /\ worn \in Stuff
    <2>1. Armour \in Slots /\ Armour # 0
      BY SlotNumbers
    <2>2. QED
      BY <2>1 DEF At, Stocks
  <1>1. ASSUME NEW a \in Stuff, NEW b \in Stuff,
               ItemWorth(a) + ItemWorth(b) = ItemWorth(worn) + ItemWorth(held)
        PROVE  OK(Hold(Put(s, u, x, a), u, b))
    BY <1>0, <1>1, Swapped, TotalIsInt
  <1>2. CASE worn = Empty /\ held # Empty /\ held.kind \in Hats
    <2> DEFINE a == Of(held.kind, 1)
               b == I!Less(held)
    <2>1. held.kind \in Goods /\ held.n \in Nat /\ held.n >= 1 /\ Worth(held.kind) \in Nat
          /\ Empty.kind \notin Goods /\ ItemWorth(held) = held.n * Worth(held.kind)
      BY <1>0, <1>2, StuffFacts, GoodsAssumption DEF ItemWorth
    <2>2. a \in Stuff /\ ItemWorth(a) = 1 * Worth(held.kind)
      BY <2>1, OfStuff
    <2>3. b \in Stuff /\ ItemWorth(b) = (held.n - 1) * Worth(held.kind)
      <3>1. b = Of(held.kind, held.n - 1)
        BY <2>1, OfStuff DEF I!Less
      <3> HIDE DEF b
      <3>2. QED
        BY <2>1, <3>1, OfStuff
    <2>4. 1 * Worth(held.kind) + (held.n - 1) * Worth(held.kind) = held.n * Worth(held.kind)
      <3>1. \A n, w \in Int : 1 * w + (n - 1) * w = n * w
        OBVIOUS
      <3>2. QED
        BY <2>1, <3>1
    <2>5. t = Hold(Put(s, u, x, a), u, b)
      BY <1>2 DEF ClickArmour
    <2> HIDE DEF a, b
    <2>6. ItemWorth(a) + ItemWorth(b) = ItemWorth(worn) + ItemWorth(held)
      <3>1. ItemWorth(worn) = 0
        BY <1>2, StuffFacts
      <3>2. ItemWorth(held) \in Int
        BY <1>0, StuffFacts
      <3>3. QED
        BY <2>1, <2>2, <2>3, <2>4, <3>1, <3>2
    <2> HIDE DEF t, worn, held, OK
    <2>7. OK(t)
      BY <1>1, <2>2, <2>3, <2>5, <2>6
    <2>8. QED
      BY <2>7 DEF OK, t
  <1>3. CASE ~(worn = Empty /\ held # Empty /\ held.kind \in Hats)
    <2>1. t = Hold(Put(s, u, x, held), u, worn) \/ t = s
      BY <1>3 DEF ClickArmour
    <2>2. ItemWorth(held) + ItemWorth(worn) = ItemWorth(worn) + ItemWorth(held)
      BY <1>0, StuffFacts
    <2>3. OK(s)
      BY TotalIsInt DEF Beside
    <2> HIDE DEF t, worn, held, OK
    <2>4. OK(t)
      BY <1>0, <1>1, <2>1, <2>2, <2>3
    <2>5. QED
      BY <2>4 DEF OK, t
  <1>4. QED
    BY <1>2, <1>3

(* What offers a click leaves as they were.                                *)
LEMMA BesideOk ==
    ASSUME AllAt, NEW s \in Stocks, Current(s), NEW t \in Stocks, t.leftover = s.leftover,
           NEW u \in Crafter, NEW x \in Places(u), x[2] # 0, Beside(s, t, u, x)
    PROVE  /\ \A b \in Bench : b # opened[u] \/ x[1] # "bench" => BenchOk(t, b)
           /\ \A v \in Crafter : v # u \/ x[1] # "inv" \/ x[2] \notin Cell(OwnGrid)
                                    => OwnOk(t, v)
  <1>1. ASSUME NEW b \in Bench, b # opened[u] \/ x[1] # "bench" PROVE BenchOk(t, b)
    <2>1. \A i \in {0} \cup Cell(BenchGrid) : t.bench[b][i] = s.bench[b][i]
      BY <1>1 DEF Beside
    <2>2. QED
      BY <2>1, OffersSame DEF Current
  <1>2. ASSUME NEW v \in Crafter, v # u \/ x[1] # "inv" \/ x[2] \notin Cell(OwnGrid)
        PROVE  OwnOk(t, v)
    <2>1. ASSUME NEW i \in {0} \cup Cell(OwnGrid) PROVE t.inv[v][i] = s.inv[v][i]
      <3>1. i \in Slots /\ i # Toolbar
        BY SlotNumbers
      <3>2. v # u \/ x # <<"inv", i>>
        BY <1>2
      <3>3. QED
        BY <3>1, <3>2 DEF Beside
    <2>2. QED
      BY <2>1, OffersSame DEF Current
  <1>3. QED
    BY <1>1, <1>2

(* A new output is right, if all the others are.                           *)
LEMMA RecraftOk ==
    ASSUME AllAt, NEW s \in Stocks, NEW u \in Crafter, NEW x \in Places(u),
           \A b \in Bench : b # opened[u] \/ x[1] # "bench" => BenchOk(s, b),
           \A v \in Crafter : v # u \/ x[1] = "bench" => OwnOk(s, v)
    PROVE  LET t == Recraft(s, u, x)
           IN  t \in Stocks /\ Current(t) /\ TotalWorth(t) <= TotalWorth(s)
  <1> DEFINE t == Recraft(s, u, x)
  <1>0. TotalWorth(s) \in Int /\ ItemWorth(s.inv[u][0]) \in Nat
    BY TotalIsInt, WorthNumbers
  <1>1. CASE x[1] = "bench"
    <2>1. /\ t \in Stocks /\ t.inv = s.inv /\ t.leftover = s.leftover
          /\ \A b \in Bench, i \in {0} \cup Cell(BenchGrid) :
                b # opened[u] \/ i # 0 => t.bench[b][i] = s.bench[b][i]
          /\ BenchOk(t, opened[u]) /\ TotalWorth(t) = TotalWorth(s)
      BY <1>1, RecraftBench
    <2> HIDE DEF t
    <2>2. ASSUME NEW b \in Bench PROVE BenchOk(t, b)
      <3>1. CASE b # opened[u]
        <4>1. \A i \in {0} \cup Cell(BenchGrid) : t.bench[b][i] = s.bench[b][i]
          BY <2>1, <3>1
        <4>2. QED
          BY <3>1, <4>1, OffersSame
      <3>2. QED
        BY <2>1, <3>1
    <2>3. ASSUME NEW v \in Crafter PROVE OwnOk(t, v)
      BY <1>1, <2>1, OffersSame
    <2>4. QED
      BY <1>0, <2>1, <2>2, <2>3 DEF Current, t
  <1>2. CASE x[1] # "bench"
    <2>1. /\ t \in Stocks /\ t.bench = s.bench /\ t.leftover = s.leftover \ {u}
          /\ \A v \in Crafter, i \in Slots : v # u \/ i # 0 => t.inv[v][i] = s.inv[v][i]
          /\ OwnOk(t, u)
          /\ TotalWorth(t) = TotalWorth(s)
                - (IF u \in s.leftover THEN ItemWorth(s.inv[u][0]) ELSE 0)
      BY <1>2, RecraftOwn
    <2> HIDE DEF t
    <2>2. ASSUME NEW b \in Bench PROVE BenchOk(t, b)
      BY <1>2, <2>1, OffersSame
    <2>3. ASSUME NEW v \in Crafter PROVE OwnOk(t, v)
      <3>1. CASE v # u
        <4>1. /\ \A i \in {0} \cup Cell(OwnGrid) : t.inv[v][i] = s.inv[v][i]
              /\ v \in s.leftover => v \in t.leftover
          BY <2>1, <3>1, SlotNumbers
        <4>2. QED
          BY <3>1, <4>1, OffersSame
      <3>2. QED
        BY <2>1, <3>1
    <2>4. TotalWorth(t) <= TotalWorth(s)
      BY <1>0, <2>1
    <2>5. QED
      BY <2>1, <2>2, <2>3, <2>4 DEF Current, t
  <1>3. QED
    BY <1>1, <1>2

(* What a step of the game keeps.                                          *)
Lawful(s, t) == t \in Stocks /\ Current(t) /\ NotDearer(s, t)

(* It is kept by two steps if it is kept by each.                          *)
LEMMA Steps ==
    ASSUME AllAt, NEW s \in Stocks
    PROVE  /\ \A t, r : Lawful(s, t) /\ Lawful(t, r) => Lawful(s, r)
           /\ \A t : Fine(s, t) => Lawful(s, t)
           /\ Current(s) => Lawful(s, s)
  <1>1. ASSUME NEW t, NEW r, Lawful(s, t), Lawful(t, r) PROVE Lawful(s, r)
    <2>1. t \in Stocks /\ r \in Stocks
      BY <1>1 DEF Lawful
    <2>2. TotalWorth(s) \in Int /\ TotalWorth(t) \in Int /\ TotalWorth(r) \in Int
      BY <2>1, TotalIsInt
    <2>3. QED
      BY <1>1, <2>2 DEF Lawful, NotDearer
  <1>2. \A t : Fine(s, t) => Lawful(s, t)
    BY DEF Fine, Lawful, NotDearer
  <1>3. Current(s) => Lawful(s, s)
    BY TotalIsInt DEF Lawful, NotDearer
  <1>4. QED
    BY <1>1, <1>2, <1>3

(* A window shows slots of its player, of those only the rows when it is a
   workbench's.                                                            *)
LEMMA ShownFacts ==
    ASSUME AllAt, NEW u \in Crafter, NEW x \in Shown(u)
    PROVE  /\ x \in Places(u)
           /\ x[1] = "inv" /\ opened[u] # None => x[2] \in Rows
           /\ opened[u] # None => opened[u] \in Bench
  BY SlotNumbers DEF Shown, Places, AllAt

(* Whatever is clicked in a window, offers stay right and nothing is had for
   nothing.                                                                *)
LEMMA ClickOk ==
    ASSUME AllAt, NEW s \in Stocks, Current(s), NEW u \in Crafter, NEW x \in Shown(u),
           NEW button
    PROVE  Lawful(s, OnWindowClick(s, u, x, button))
  <1> DEFINE s1 == ClickSlot(s, u, x, button)
             t == OnWindowClick(s, u, x, button)
  <1>0. /\ x \in Places(u) /\ x = <<x[1], x[2]>>
        /\ x[1] = "inv" /\ opened[u] # None => x[2] \in Rows
        /\ x[1] = "inv" \/ x[1] = "bench"
        /\ x[1] = "bench" => opened[u] # None
    BY ShownFacts, PlaceFacts
  <1>1. CASE x[2] = 0 /\ x[1] = "bench"
    <2> DEFINE r == TakeOutput(s, u, x)
    <2>1. t = Recraft(r, u, x)
      BY <1>1 DEF OnWindowClick
    <2>2. Fine(s, r)
      BY <1>0, <1>1, TakenBench
    <2> HIDE DEF r, t
    <2>3. r \in Stocks /\ Current(r)
      BY <2>2 DEF Fine
    <2>4. t \in Stocks /\ Current(t) /\ TotalWorth(t) <= TotalWorth(r)
      BY <1>0, <2>1, <2>3, RecraftOk DEF Current
    <2>5. Lawful(s, r) /\ Lawful(r, t)
      BY <2>2, <2>3, <2>4, Steps DEF Fine
    <2>6. QED
      BY <2>5, Steps DEF t
  <1>2. CASE x[2] = 0 /\ x[1] = "inv"
    <2>1. t = TakeOutput(s, u, x)
      BY <1>2 DEF OnWindowClick
    <2>2. QED
      BY <1>0, <1>2, <2>1, TakenOwn, Steps
  <1>3. CASE x[2] # 0
    <2>1. /\ s1 \in Stocks /\ s1.leftover = s.leftover /\ Beside(s, s1, u, x)
          /\ NotDearer(s, s1)
      BY <1>0, <1>3, Clicked
    <2>2. CASE x = <<"inv", Armour>>
      <3> DEFINE r == ClickArmour(s, u, x)
      <3>1. t = r
        BY <1>3, <2>2 DEF OnWindowClick
      <3>2. /\ r \in Stocks /\ r.leftover = s.leftover /\ Beside(s, r, u, x)
            /\ TotalWorth(r) <= TotalWorth(s)
        BY <1>0, <2>2, ClickedArmour
      <3>3. x[2] \notin Cell(OwnGrid)
        BY <2>2, SlotNumbers
      <3> HIDE DEF r, t
      <3>4. Current(r)
        BY <1>0, <1>3, <2>2, <3>2, <3>3, BesideOk DEF Current
      <3>5. Fine(s, r)
        BY <3>2, <3>4 DEF Fine
      <3>6. QED
        BY <3>1, <3>5, Steps DEF t
    <2>3. CASE x # <<"inv", Armour>> /\ x[1] = "inv" /\ opened[u] = None
      <3>1. CASE x[2] \in Cell(OwnGrid)
        <4>1. t = Recraft(s1, u, x)
          BY <1>3, <2>3, <3>1 DEF OnWindowClick
        <4> HIDE DEF s1, t
        <4>2. /\ \A b \in Bench : BenchOk(s1, b)
              /\ \A v \in Crafter : v # u => OwnOk(s1, v)
          BY <1>0, <1>3, <2>1, <2>3, BesideOk
        <4>3. t \in Stocks /\ Current(t) /\ TotalWorth(t) <= TotalWorth(s1)
          BY <1>0, <2>1, <2>3, <4>1, <4>2, RecraftOk
        <4>4. TotalWorth(s) \in Int /\ TotalWorth(s1) \in Int /\ TotalWorth(t) \in Int
          BY <2>1, <4>3, TotalIsInt
        <4>5. QED
          BY <2>1, <4>3, <4>4 DEF Lawful, NotDearer, t
      <3>2. CASE x[2] \notin Cell(OwnGrid)
        <4>1. t = s1
          BY <1>3, <2>3, <3>2 DEF OnWindowClick
        <4> HIDE DEF s1, t
        <4>2. Current(s1)
          BY <1>0, <1>3, <2>1, <2>3, <3>2, BesideOk DEF Current
        <4>3. QED
          BY <2>1, <4>1, <4>2 DEF Lawful, t
      <3>3. QED
        BY <3>1, <3>2
    <2>4. CASE x # <<"inv", Armour>> /\ ~(x[1] = "inv" /\ opened[u] = None)
      <3> DEFINE y == <<"bench", x[2]>>
                 z == <<"bench", 0>>
      <3>1. t = Recraft(s1, u, y) /\ y[1] = "bench" /\ z[1] = "bench" /\ z \in Places(u)
        BY <1>0, <1>3, <2>4 DEF OnWindowClick, Places
      <3>2. Recraft(s1, u, y) = Recraft(s1, u, z)
        BY <3>1 DEF Recraft
      <3>3. x[1] = "inv" => x[2] \notin Cell(OwnGrid)
        BY <1>0, <2>4, SlotNumbers
      <3> HIDE DEF s1, t, y, z
      <3>4. /\ \A b \in Bench : b # opened[u] => BenchOk(s1, b)
            /\ \A v \in Crafter : OwnOk(s1, v)
        BY <1>0, <1>3, <2>1, <3>3, BesideOk
      <3>5. t \in Stocks /\ Current(t) /\ TotalWorth(t) <= TotalWorth(s1)
        BY <2>1, <3>1, <3>2, <3>4, RecraftOk
      <3>6. TotalWorth(s) \in Int /\ TotalWorth(s1) \in Int /\ TotalWorth(t) \in Int
        BY <2>1, <3>5, TotalIsInt
      <3>7. QED
        BY <2>1, <3>5, <3>6 DEF Lawful, NotDearer, t
    <2>5. QED
      BY <2>2, <2>3, <2>4
  <1>4. QED
    BY <1>0, <1>1, <1>2, <1>3

-----------------------------------------------------------------------------
(* Drags and number keys.                                                  *)

(* What the hand holds has nothing to do with offers.                      *)
LEMMA HoldOk ==
    ASSUME AllAt, NEW s \in Stocks, Current(s), NEW u \in Crafter, NEW item \in Stuff
    PROVE  Current(Hold(s, u, item))
  <1>1. Hold(s, u, item).inv = s.inv /\ Hold(s, u, item).bench = s.bench
        /\ Hold(s, u, item).leftover = s.leftover
    BY HoldStock
  <1>2. QED
    BY <1>1, OffersSame DEF Current

\* A drag as the function by which Dealt goes through the slots.
Deal(s, u, xs, share, m, g) ==
    g = [n \in 0 .. m |-> IF n = 0 THEN s
                          ELSE OnWindowClick(Hold(g[n - 1], u, share), u, xs[n], "left")]

(* This function exists.                                                   *)
LEMMA DealExists ==
    ASSUME NEW s, NEW u, NEW xs, NEW share
    PROVE  \A m \in Nat : \E g : Deal(s, u, xs, share, m, g)
  <1> DEFINE Bad == {m \in Nat : ~ \E g : Deal(s, u, xs, share, m, g)}
             next(v, n) == OnWindowClick(Hold(v, u, share), u, xs[n], "left")
  <1>1. Bad = {}
    <2> SUFFICES ASSUME Bad # {} PROVE FALSE
      OBVIOUS
    <2>1. PICK m \in Bad : \A n \in Bad : m <= n
      BY LeastNatural
    <2>2. m # 0
      <3> DEFINE g == [n \in 0 .. 0 |-> s]
      <3>1. Deal(s, u, xs, share, 0, g)
        BY DEF Deal
      <3>2. QED
        BY <3>1, <2>1
    <2>3. PICK g : Deal(s, u, xs, share, m - 1, g)
      BY <2>1, <2>2
    <2> DEFINE h == [n \in 0 .. m |-> IF n = 0 THEN s ELSE next(g[n - 1], n)]
    <2>4. ASSUME NEW n \in 0 .. m - 1 PROVE h[n] = g[n]
      BY <2>1, <2>3 DEF Deal
    <2>5. ASSUME NEW n \in 0 .. m, n # 0 PROVE h[n - 1] = g[n - 1]
      <3>1. n - 1 \in 0 .. m - 1
        BY <2>1, <2>5
      <3> HIDE DEF h
      <3>2. QED
        BY <2>4, <3>1
    <2>6. Deal(s, u, xs, share, m, h)
      <3>1. ASSUME NEW n \in 0 .. m
            PROVE  h[n] = IF n = 0 THEN s ELSE next(h[n - 1], n)
        <4>1. h[n] = IF n = 0 THEN s ELSE next(g[n - 1], n)
          OBVIOUS
        <4> HIDE DEF h, next
        <4>2. QED
          BY <2>5, <4>1
      <3>2. h = [n \in 0 .. m |-> h[n]]
        OBVIOUS
      <3> HIDE DEF h
      <3>3. QED
        BY <3>1, <3>2 DEF Deal
    <2>7. QED
      BY <2>1, <2>6
  <1>2. QED
    BY <1>1

(* Dealing puts no more into the slots than what is dealt.                 *)
LEMMA DealtOk ==
    ASSUME AllAt, NEW s \in Stocks, Current(s), NEW u \in Crafter,
           NEW xs \in Seq(Shown(u)), NEW share \in Stuff
    PROVE  LET t == Dealt(s, u, xs, share)
           IN  /\ t \in Stocks /\ Current(t)
               /\ \/ WholeStacks
                  \/ TotalWorth(t) - ItemWorth(t.hand[u])
                        <= TotalWorth(s) - ItemWorth(s.hand[u]) + Len(xs) * ItemWorth(share)
  <1> DEFINE L == Len(xs)
             worth == ItemWorth(share)
             rest(t) == TotalWorth(t) - ItemWorth(t.hand[u])
             g == CHOOSE h : Deal(s, u, xs, share, L, h)
             OK(n) == /\ g[n] \in Stocks /\ Current(g[n])
                      /\ WholeStacks \/ rest(g[n]) <= rest(s) + n * worth
             Bad == {n \in 0 .. L : ~OK(n)}
  <1>1. L \in Nat /\ worth \in Int /\ \A n \in 1 .. L : xs[n] \in Shown(u)
    BY StuffFacts
  <1>2. Deal(s, u, xs, share, L, g)
    BY <1>1, DealExists
  <1>3. Dealt(s, u, xs, share) = g[L]
    BY DEF Dealt, Deal
  <1>4. ASSUME NEW t \in Stocks
        PROVE  rest(t) \in Int /\ TotalWorth(t) \in Int /\ rest(t) <= TotalWorth(t)
    <2>1. TotalWorth(t) \in Int /\ ItemWorth(t.hand[u]) \in Nat
      BY TotalIsInt, WorthNumbers
    <2>2. QED
      BY <2>1
  <1> HIDE DEF L, worth, g
  <1>5. g[0] = s
    BY <1>1, <1>2 DEF Deal
  <1>6. \A n \in 1 .. L : g[n] = OnWindowClick(Hold(g[n - 1], u, share), u, xs[n], "left")
    BY <1>1, <1>2 DEF Deal
  <1>7. OK(0)
    <2>1. 0 * worth = 0
      BY <1>1
    <2>2. QED
      BY <1>4, <1>5, <2>1
  <1>8. ASSUME NEW n \in 1 .. L, OK(n - 1) PROVE OK(n)
    <2> DEFINE t == g[n - 1]
               held == Hold(t, u, share)
    <2>1. held \in Stocks /\ TotalWorth(held) = rest(t) + worth /\ Current(held)
      BY <1>8, HoldStock, HoldOk DEF worth
    <2>2. Lawful(held, g[n])
      <3> HIDE DEF held, t
      <3>1. g[n] = OnWindowClick(held, u, xs[n], "left") /\ xs[n] \in Shown(u)
        BY <1>1, <1>6 DEF held, t
      <3>2. QED
        BY <2>1, <3>1, ClickOk
    <2>3. g[n] \in Stocks /\ Current(g[n])
          /\ (WholeStacks \/ TotalWorth(g[n]) <= TotalWorth(held))
      BY <2>2 DEF Lawful, NotDearer
    <2>4. ASSUME ~WholeStacks PROVE rest(g[n]) <= rest(s) + n * worth
      <3>1. t \in Stocks /\ rest(t) <= rest(s) + (n - 1) * worth
        BY <1>8, <2>4
      <3>2. rest(g[n]) <= TotalWorth(g[n]) /\ TotalWorth(g[n]) \in Int /\ rest(t) \in Int
            /\ rest(s) \in Int /\ rest(g[n]) \in Int
        <4> HIDE DEF rest, t, held
        <4>1. QED
          BY <1>4, <2>3, <3>1
      <3>3. (n - 1) * worth + worth = n * worth /\ (n - 1) * worth \in Int
        <4>1. \A a, b \in Int : (a - 1) * b + b = a * b /\ (a - 1) * b \in Int
          OBVIOUS
        <4>2. QED
          BY <1>1, <4>1
      <3> HIDE DEF rest, t, held
      <3>4. QED
        BY <1>1, <2>1, <2>3, <2>4, <3>1, <3>2, <3>3
    <2>5. QED
      BY <2>3, <2>4
  <1> HIDE DEF OK
  <1>9. Bad = {}
    <2> SUFFICES ASSUME Bad # {} PROVE FALSE
      OBVIOUS
    <2>1. PICK n \in Bad : \A m \in Bad : n <= m
      <3>1. Bad \in SUBSET Nat
        BY <1>1
      <3> HIDE DEF Bad
      <3>2. QED
        BY <3>1, LeastNatural
    <2>2. n # 0 /\ n \in 1 .. L /\ n - 1 \in 0 .. L
      BY <1>1, <1>7, <2>1
    <2>3. OK(n - 1)
      BY <2>1, <2>2
    <2>4. QED
      BY <1>8, <2>1, <2>2, <2>3
  <1>10. OK(L)
    BY <1>1, <1>9
  <1>11. QED
    BY <1>3, <1>10 DEF OK, L, worth

(* A drag gives away at most what was held.                                *)
LEMMA DragOk ==
    ASSUME AllAt, NEW s \in Stocks, Current(s), NEW u \in Crafter,
           NEW xs \in Seq(Shown(u)), xs # << >>, NEW button
    PROVE  Lawful(s, HandleDrag(s, u, xs, button))
  <1> DEFINE held == s.hand[u]
             L == Len(xs)
             n == IF button = "left" THEN held.n \div L ELSE 1
             share == Of(held.kind, n)
             rest == Of(held.kind, held.n - n * L)
             r == Dealt(s, u, xs, share)
             t == Hold(r, u, rest)
             W == Worth(held.kind)
  <1>1. HandleDrag(s, u, xs, button) = IF L > held.n THEN s ELSE t
    BY DEF HandleDrag
  <1>2. L \in Nat /\ L >= 1 /\ held \in Stuff /\ held.n \in Nat
    <2>1. held \in Stuff
      BY DEF Stocks
    <2>2. QED
      BY <2>1, StuffFacts
  <1>3. CASE L > held.n
    BY <1>1, <1>3, Steps
  <1>4. CASE ~ L > held.n
    <2>1. /\ held # Empty /\ held.kind \in Goods /\ W \in Nat /\ Empty.kind \notin Goods
          /\ ItemWorth(held) = held.n * W
      BY <1>2, <1>4, StuffFacts, GoodsAssumption DEF ItemWorth
    <2>2. n \in Nat /\ n * L <= held.n /\ n * L \in Nat
      <3>1. CASE button = "left"
        <4>1. \A a, b \in Nat : b >= 1 => a \div b \in Nat /\ (a \div b) * b <= a
                                          /\ (a \div b) * b \in Nat
          OBVIOUS
        <4>2. n = held.n \div L
          BY <3>1
        <4> HIDE DEF n, held, L
        <4>3. held.n \div L \in Nat /\ (held.n \div L) * L <= held.n
              /\ (held.n \div L) * L \in Nat
          BY <1>2, <4>1
        <4>4. QED
          BY <4>2, <4>3
      <3>2. CASE button # "left"
        <4>1. n = 1 /\ 1 * L = L
          BY <1>2, <3>2
        <4> HIDE DEF n, held, L
        <4>2. QED
          BY <1>2, <1>4, <4>1
      <3>3. QED
        BY <3>1, <3>2
    <2> HIDE DEF n
    <2>3. share \in Stuff /\ ItemWorth(share) = n * W
      BY <2>1, <2>2, OfStuff
    <2>4. rest \in Stuff /\ ItemWorth(rest) = (held.n - n * L) * W
      <3>1. held.n - n * L \in Int /\ held.n - n * L >= 0
        BY <1>2, <2>2
      <3>2. QED
        BY <2>1, <3>1, OfStuff
    <2> HIDE DEF share, rest
    <2>5. /\ r \in Stocks /\ Current(r)
          /\ \/ WholeStacks
             \/ TotalWorth(r) - ItemWorth(r.hand[u])
                   <= TotalWorth(s) - ItemWorth(s.hand[u]) + Len(xs) * ItemWorth(share)
      BY <2>3, DealtOk
    <2> HIDE DEF r
    <2>6. t \in Stocks /\ Current(t)
          /\ TotalWorth(t) = TotalWorth(r) - ItemWorth(r.hand[u]) + ItemWorth(rest)
      BY <2>4, <2>5, HoldStock, HoldOk
    <2>7. ASSUME ~WholeStacks PROVE TotalWorth(t) <= TotalWorth(s)
      <3>1. TotalWorth(r) \in Int /\ ItemWorth(r.hand[u]) \in Int /\ TotalWorth(s) \in Int
        BY <2>5, TotalIsInt, WorthNumbers
      <3>2. L * (n * W) + (held.n - n * L) * W = held.n * W
            /\ L * (n * W) \in Int /\ (held.n - n * L) * W \in Int /\ held.n * W \in Int
        <4>1. \A a, b, c, w \in Int : a * (b * w) + (c - b * a) * w = c * w
                  /\ a * (b * w) \in Int /\ (c - b * a) * w \in Int /\ c * w \in Int
          OBVIOUS
        <4>2. QED
          BY <1>2, <2>1, <2>2, <4>1
      <3>3. TotalWorth(r) - ItemWorth(r.hand[u]) <= TotalWorth(s) - held.n * W + L * (n * W)
        BY <2>1, <2>3, <2>5, <2>7
      <3> HIDE DEF t, held, L, W
      <3>4. QED
        BY <2>4, <2>6, <3>1, <3>2, <3>3
    <2>8. HandleDrag(s, u, xs, button) = t
      BY <1>1, <1>4
    <2> HIDE DEF t
    <2>9. QED
      BY <2>6, <2>7, <2>8 DEF Lawful, NotDearer
  <1>5. QED
    BY <1>3, <1>4

(* A number key is three clicks.                                           *)
LEMMA NumberOk ==
    ASSUME AllAt, NEW s \in Stocks, Current(s), NEW u \in Crafter, NEW x \in Shown(u)
    PROVE  Lawful(s, HandleNumber(s, u, x))
  <1> DEFINE hot == <<"inv", Toolbar>>
             s1 == OnWindowClick(s, u, hot, "left")
             s2 == OnWindowClick(s1, u, x, "left")
             s3 == OnWindowClick(s2, u, hot, "left")
  <1>1. hot \in Shown(u)
    BY SlotNumbers DEF Shown, Rows
  <1> HIDE DEF hot
  <1>2. Lawful(s, s1)
    BY <1>1, ClickOk
  <1>3. s1 \in Stocks /\ Current(s1)
    BY <1>2 DEF Lawful
  <1>4. HandleNumber(s, u, x) \in {s, s2, s3}
    BY DEF HandleNumber, hot
  <1> HIDE DEF s1
  <1>5. Lawful(s1, s2)
    BY <1>3, ClickOk
  <1>6. s2 \in Stocks /\ Current(s2)
    BY <1>5 DEF Lawful
  <1> HIDE DEF s2
  <1>7. Lawful(s2, s3)
    BY <1>1, <1>6, ClickOk
  <1> HIDE DEF s3
  <1>8. Lawful(s, s2) /\ Lawful(s, s3) /\ Lawful(s, s)
    BY <1>2, <1>3, <1>5, <1>6, <1>7, Steps
  <1>9. QED
    BY <1>4, <1>8

-----------------------------------------------------------------------------
(* What falls to the ground, and what is left behind.                      *)

(* The worth of all when there is another number of a kind on the ground.  *)
LEMMA GroundStock ==
    ASSUME AllAt, NEW s \in Stocks, NEW u \in Crafter, NEW k \in Goods, NEW m \in Nat
    PROVE  LET t == [s EXCEPT !.ground[k] = m]
           IN  /\ t \in Stocks /\ t.inv = s.inv /\ t.bench = s.bench /\ t.hand = s.hand
               /\ t.leftover = s.leftover /\ t.most = s.most
               /\ TotalWorth(t) = TotalWorth(s) - s.ground[k] * Worth(k) + m * Worth(k)
               /\ TotalWorth(s) \in Int /\ s.ground[k] * Worth(k) \in Nat
               /\ m * Worth(k) \in Nat
  <1> DEFINE t == [s EXCEPT !.ground[k] = m]
             f == [j \in Goods |-> s.ground[j] * Worth(j)]
             h == [j \in Goods |-> t.ground[j] * Worth(j)]
             v == m * Worth(k)
  <1>1. s.ground \in [Goods -> Nat] /\ IsFiniteSet(Goods) /\ Worth(k) \in Nat
    BY GoodsAssumption DEF Stocks
  <1>2. /\ t \in Stocks /\ t.inv = s.inv /\ t.bench = s.bench /\ t.hand = s.hand
        /\ t.leftover = s.leftover /\ t.most = s.most
        /\ t.ground = [s.ground EXCEPT ![k] = m]
    BY DEF Stocks
  <1> HIDE DEF t
  <1>3. f[k] \in Nat /\ v \in Nat /\ f[k] = s.ground[k] * Worth(k)
    <2>1. \A a, b \in Nat : a * b \in Nat
      OBVIOUS
    <2>2. s.ground[k] \in Nat
      BY <1>1
    <2>3. QED
      BY <1>1, <2>1, <2>2
  <1>4. f \in [Goods -> Int] /\ GroundWorth(s) = SumFunction(f)
        /\ GroundWorth(t) = SumFunction(h)
    BY <1>2, WorthNumbers DEF GroundWorth
  <1>5. h = [f EXCEPT ![k] = v]
    <2>1. ASSUME NEW j \in Goods PROVE t.ground[j] = IF j = k THEN m ELSE s.ground[j]
      BY <1>1, <1>2
    <2>2. QED
      BY <2>1
  <1> HIDE DEF f, h, v
  <1>6. SumFunction([f EXCEPT ![k] = v]) = SumFunction(f) - f[k] + v
    <2>1. IsFiniteSet(Goods) /\ f \in [Goods -> Int] /\ k \in Goods /\ v \in Int
      BY <1>1, <1>3, <1>4
    <2>2. QED
      BY ONLY <2>1, SumChanges
  <1>7. GroundWorth(t) = GroundWorth(s) - f[k] + v /\ GroundWorth(s) \in Int
    BY <1>4, <1>5, <1>6, WorthNumbers
  <1>8. \A x \in Crafter : OwnWorth(t, x) = OwnWorth(s, x)
    BY <1>2, OthersWorth
  <1>9. BenchesWorth(t) = BenchesWorth(s)
    BY <1>2 DEF BenchesWorth
  <1>10. TotalWorth(t) = TotalWorth(s) + (OwnWorth(t, u) - OwnWorth(s, u))
                         + (BenchesWorth(t) - BenchesWorth(s))
                         + (GroundWorth(t) - GroundWorth(s))
    BY <1>2, <1>8, TotalChange DEF AllAt
  <1>11. TotalWorth(s) \in Int /\ OwnWorth(s, u) \in Int /\ BenchesWorth(s) \in Int
    BY TotalIsInt, WorthNumbers
  <1>12. TotalWorth(t) = TotalWorth(s) - f[k] + v
    BY <1>3, <1>7, <1>8, <1>9, <1>10, <1>11
  <1>13. QED
    BY <1>2, <1>3, <1>11, <1>12 DEF t, v

(* An item on the ground is worth what it was.                             *)
LEMMA FallenStock ==
    ASSUME AllAt, NEW s \in Stocks, NEW u \in Crafter, NEW item \in Stuff
    PROVE  LET t == Fallen(s, item)
           IN  /\ t \in Stocks /\ t.inv = s.inv /\ t.bench = s.bench /\ t.hand = s.hand
               /\ t.leftover = s.leftover /\ t.most = s.most
               /\ TotalWorth(t) = TotalWorth(s) + ItemWorth(item)
               /\ TotalWorth(s) \in Int
  <1> DEFINE k == item.kind
             m == s.ground[k] + item.n
             t == [s EXCEPT !.ground[k] = m]
  <1>1. CASE item = Empty
    <2>1. Fallen(s, item) = s /\ ItemWorth(item) = 0
      BY <1>1, StuffFacts DEF Fallen
    <2>2. QED
      BY <2>1, TotalIsInt
  <1>2. CASE item # Empty
    <2>1. k \in Goods /\ item.n \in Nat /\ Worth(k) \in Nat
          /\ ItemWorth(item) = item.n * Worth(k) /\ ItemWorth(item) \in Nat
      BY <1>2, StuffFacts DEF ItemWorth
    <2>2. s.ground[k] \in Nat
      BY <2>1 DEF Stocks
    <2>3. Fallen(s, item) = t
      BY <1>2, <2>1 DEF Fallen, Stocks
    <2>4. m * Worth(k) = s.ground[k] * Worth(k) + ItemWorth(item)
      <3>1. \A a, b, c \in Int : (a + b) * c = a * c + b * c
        OBVIOUS
      <3> HIDE DEF k
      <3>2. QED
        BY <2>1, <2>2, <3>1
    <2>5. m \in Nat
      BY <2>1, <2>2
    <2> HIDE DEF k, m
    <2>6. /\ t \in Stocks /\ t.inv = s.inv /\ t.bench = s.bench /\ t.hand = s.hand
          /\ t.leftover = s.leftover /\ t.most = s.most
          /\ TotalWorth(t) = TotalWorth(s) - s.ground[k] * Worth(k) + m * Worth(k)
          /\ TotalWorth(s) \in Int /\ s.ground[k] * Worth(k) \in Nat
      BY <2>1, <2>5, GroundStock
    <2> HIDE DEF t
    <2>7. TotalWorth(t) = TotalWorth(s) + ItemWorth(item)
      BY <2>1, <2>4, <2>6
    <2>8. QED
      BY <2>3, <2>6, <2>7
  <1>3. QED
    BY <1>1, <1>2

(* What is dropped from the hand is not lost.                              *)
LEMMA HandDroppedOk ==
    ASSUME AllAt, NEW s \in Stocks, Current(s), NEW u \in Crafter
    PROVE  LET t == HandDropped(s, u)
           IN  /\ t \in Stocks /\ Current(t) /\ TotalWorth(t) <= TotalWorth(s)
               /\ t.inv = s.inv /\ t.bench = s.bench /\ t.leftover = s.leftover
  <1> DEFINE held == s.hand[u]
             r == Fallen(s, held)
             t == Hold(r, u, Empty)
  <1>1. held \in Stuff /\ Empty \in Stuff /\ ItemWorth(Empty) = 0
    BY StuffFacts DEF Stocks
  <1>2. /\ r \in Stocks /\ r.inv = s.inv /\ r.bench = s.bench /\ r.hand = s.hand
        /\ r.leftover = s.leftover
        /\ TotalWorth(r) = TotalWorth(s) + ItemWorth(held) /\ TotalWorth(s) \in Int
    BY <1>1, FallenStock
  <1>3. HandDropped(s, u) = t
    BY DEF HandDropped
  <1> HIDE DEF r
  <1>4. Current(r)
    BY <1>2, OffersSame DEF Current
  <1>5. /\ t \in Stocks /\ t.inv = r.inv /\ t.bench = r.bench /\ t.leftover = r.leftover
        /\ TotalWorth(t) = TotalWorth(r) - ItemWorth(r.hand[u]) + ItemWorth(Empty)
    BY <1>1, <1>2, HoldStock
  <1>6. Current(t)
    BY <1>1, <1>2, <1>4, HoldOk
  <1> HIDE DEF t, held
  <1>7. ItemWorth(held) \in Int
    BY <1>1, StuffFacts
  <1>8. TotalWorth(t) <= TotalWorth(s)
    BY <1>1, <1>2, <1>5, <1>7 DEF held
  <1>9. QED
    BY <1>2, <1>3, <1>5, <1>6, <1>8

(* Empty slots are worth nothing.                                          *)
LEMMA NoWorth ==
    ASSUME NEW S, IsFiniteSet(S), NEW cells, \A i \in S : cells[i] = Empty
    PROVE  InvWorth(cells, S) = 0
  <1> DEFINE f == [i \in S |-> ItemWorth(cells[i])]
  <1>1. f \in [S -> Int] /\ \A i \in S : f[i] = 0
    BY StuffFacts
  <1>2. f = Part(f, {})
    BY <1>1 DEF Part
  <1>3. InvWorth(cells, S) = SumFunction(f)
    BY DEF InvWorth
  <1> HIDE DEF f
  <1>4. SumFunction(Part(f, {})) = 0
    BY <1>1, SumOfPart
  <1>5. QED
    BY <1>2, <1>3, <1>4

(* What falls out of slots is worth on the ground what it was in them.     *)
LEMMA EmptiedStock ==
    ASSUME AllAt, NEW s \in Stocks, NEW u \in Crafter, NEW D, IsFiniteSet(D),
           NEW cells \in [D -> Stuff]
    PROVE  LET t == Emptied(s, cells)
           IN  /\ t \in Stocks /\ t.inv = s.inv /\ t.bench = s.bench /\ t.hand = s.hand
               /\ t.leftover = s.leftover /\ t.most = s.most
               /\ TotalWorth(t) = TotalWorth(s) + InvWorth(cells, D \ {0})
               /\ TotalWorth(s) \in Int /\ InvWorth(cells, D \ {0}) \in Int
  <1> DEFINE S == D \ {0}
             of(k) == [i \in S |-> IF cells[i].kind = k THEN cells[i].n ELSE 0]
             g == [k \in Goods |-> s.ground[k] + SumFunction(of(k))]
             t == Emptied(s, cells)
             f == [k \in Goods |-> s.ground[k] * Worth(k)]
             p == [k \in Goods |-> SumFunction(of(k)) * Worth(k)]
             h == [k \in Goods |-> g[k] * Worth(k)]
             n == [i \in S |-> cells[i].n]
             kind == [i \in S |-> cells[i].kind]
             w == [k \in Goods |-> Worth(k)]
             v == [i \in S |-> ItemWorth(cells[i])]
  <1>1. IsFiniteSet(S) /\ (\A i \in S : cells[i] \in Stuff) /\ IsFiniteSet(Goods)
        /\ DOMAIN cells \ {0} = S
    BY FS_RemoveElement, GoodsAssumption
  <1>2. t = [s EXCEPT !.ground = g]
    <2>1. s.ground \in [Goods -> Nat]
      BY DEF Stocks
    <2>2. QED
      BY <1>1 DEF Emptied
  <1>3. ASSUME NEW k \in Goods
        PROVE  /\ SumFunction(of(k)) \in Nat /\ s.ground[k] \in Nat /\ Worth(k) \in Nat
               /\ g[k] = s.ground[k] + SumFunction(of(k))
    <2> DEFINE o == of(k)
    <2>1. o \in [S -> Int] /\ \A i \in S : o[i] >= 0
      BY <1>1, StuffFacts
    <2>2. s.ground[k] \in Nat /\ Worth(k) \in Nat
      BY GoodsAssumption DEF Stocks
    <2>3. SumFunction(o) \in Nat
      <3> HIDE DEF o, S
      <3>1. SumFunction(o) \in Int /\ SumFunction(o) >= 0
        BY <1>1, <2>1, SumIsInt, SumOfNaturals
      <3>2. QED
        BY <3>1
    <2>4. QED
      BY <2>2, <2>3
  <1>4. g \in [Goods -> Nat]
    <2>1. g = [k \in Goods |-> g[k]]
      OBVIOUS
    <2> HIDE DEF g, of
    <2>2. \A k \in Goods : g[k] \in Nat
      BY <1>3
    <2>3. QED
      BY <2>1, <2>2
  <1>5. /\ t \in Stocks /\ t.inv = s.inv /\ t.bench = s.bench /\ t.hand = s.hand
        /\ t.leftover = s.leftover /\ t.most = s.most /\ t.ground = g
    <2> HIDE DEF g, t
    <2>1. QED
      BY <1>2, <1>4 DEF Stocks
  <1>6. GroundWorth(s) = SumFunction(f) /\ GroundWorth(t) = SumFunction(h)
    <2> HIDE DEF g, t
    <2>1. QED
      BY <1>5 DEF GroundWorth
  <1>7. f \in [Goods -> Int] /\ p \in [Goods -> Int] /\ h = [k \in Goods |-> f[k] + p[k]]
    <2>1. ASSUME NEW k \in Goods
          PROVE  f[k] \in Int /\ p[k] \in Int /\ h[k] = f[k] + p[k]
      <3>1. \A a, b, c \in Int : (a + b) * c = a * c + b * c /\ a * c \in Int
        OBVIOUS
      <3>2. f[k] = s.ground[k] * Worth(k) /\ p[k] = SumFunction(of(k)) * Worth(k)
            /\ h[k] = (s.ground[k] + SumFunction(of(k))) * Worth(k)
        BY <1>3
      <3> HIDE DEF f, p, h, of
      <3>3. QED
        BY <1>3, <3>1, <3>2
    <2>2. QED
      BY <2>1
  <1>8. SumFunction(p) = SumFunction(v)
    <2>1. /\ n \in [S -> Int] /\ w \in [Goods -> Int] /\ v \in [S -> Int]
      <3>1. \A i \in S : cells[i].n \in Int /\ ItemWorth(cells[i]) \in Int
        BY <1>1, StuffFacts
      <3>2. \A k \in Goods : Worth(k) \in Int
        BY GoodsAssumption
      <3> HIDE DEF S
      <3>3. n \in [S -> Int]
        BY <3>1
      <3>4. v \in [S -> Int]
        BY <3>1
      <3>5. w \in [Goods -> Int]
        BY <3>2
      <3>6. QED
        BY <3>3, <3>4, <3>5
    <2>2. ASSUME NEW i \in S
          PROVE  \/ kind[i] \in Goods /\ v[i] = n[i] * w[kind[i]]
                 \/ kind[i] \notin Goods /\ v[i] = 0
      <3>1. CASE cells[i] = Empty
        BY <3>1, StuffFacts, GoodsAssumption
      <3>2. CASE cells[i] # Empty
        <4>1. cells[i].kind \in Goods
          BY <1>1, <3>2, StuffFacts
        <4>2. QED
          BY <4>1 DEF ItemWorth
      <3>3. QED
        BY <3>1, <3>2
    <2>3. p = ByKind(S, Goods, n, kind, w)
      <3>1. ASSUME NEW k \in Goods
            PROVE  /\ of(k) = [i \in S |-> IF kind[i] = k THEN n[i] ELSE 0]
                   /\ w[k] = Worth(k)
        OBVIOUS
      <3>2. QED
        BY <3>1 DEF ByKind
    <2> HIDE DEF S, n, w, v, kind, p, of
    <2>4. QED
      BY <1>1, <2>1, <2>2, <2>3, SumByKind
  <1>9. InvWorth(cells, S) = SumFunction(v) /\ SumFunction(v) \in Int
    <2>1. v \in [S -> Int]
      BY <1>1, StuffFacts
    <2>2. InvWorth(cells, S) = SumFunction(v)
      BY DEF InvWorth
    <2> HIDE DEF v, S
    <2>3. QED
      BY <1>1, <2>1, <2>2, SumIsInt
  <1> HIDE DEF f, p, h, v, t, S
  <1>10. SumFunction(h) = SumFunction(f) + SumFunction(p)
    BY <1>1, <1>7, SumAdds
  <1>11. GroundWorth(t) = GroundWorth(s) + InvWorth(cells, S)
    BY <1>6, <1>8, <1>9, <1>10
  <1>12. \A x \in Crafter : OwnWorth(t, x) = OwnWorth(s, x)
    BY <1>5, OthersWorth
  <1>13. BenchesWorth(t) = BenchesWorth(s)
    BY <1>5 DEF BenchesWorth
  <1>14. TotalWorth(t) = TotalWorth(s) + (OwnWorth(t, u) - OwnWorth(s, u))
                         + (BenchesWorth(t) - BenchesWorth(s))
                         + (GroundWorth(t) - GroundWorth(s))
    BY <1>5, <1>12, TotalChange DEF AllAt
  <1>15. OwnWorth(s, u) \in Int /\ BenchesWorth(s) \in Int /\ GroundWorth(s) \in Int
         /\ TotalWorth(s) \in Int
    BY WorthNumbers, TotalIsInt
  <1>16. TotalWorth(t) = TotalWorth(s) + InvWorth(cells, S)
    BY <1>9, <1>11, <1>12, <1>13, <1>14, <1>15
  <1>17. QED
    BY <1>5, <1>9, <1>15, <1>16 DEF t, S

(* Who leaves a workbench alone leaves it clean, and what lay on it on the
   ground.                                                                 *)
LEMMA BenchLeftOk ==
    ASSUME AllAt, NEW s \in Stocks, Current(s), NEW u \in Crafter
    PROVE  LET t == BenchLeft(s, u)
           IN  /\ t \in Stocks /\ Current(t) /\ TotalWorth(t) <= TotalWorth(s)
               /\ t.inv = s.inv /\ t.leftover = s.leftover
  <1> DEFINE b == opened[u]
             cells == s.bench[b]
             r == Emptied(s, cells)
             t == [r EXCEPT !.bench[b] = CleanBench]
             S == Cell(BenchGrid)
  <1>1. BenchLeft(s, u) = s \/ (BenchLeft(s, u) = t /\ b # None)
    BY DEF BenchLeft
  <1>2. CASE BenchLeft(s, u) = s
    BY <1>2, TotalIsInt
  <1>3. CASE BenchLeft(s, u) = t /\ b # None
    <2>1. b \in Bench /\ cells \in [{0} \cup S -> Stuff] /\ IsFiniteSet({0} \cup S)
          /\ IsFiniteSet(S) /\ ({0} \cup S) \ {0} = S
      <3>1. b \in Bench
        BY <1>3 DEF AllAt
      <3>2. cells \in [{0} \cup S -> Stuff]
        BY <3>1 DEF Stocks
      <3>3. IsFiniteSet(S) /\ 0 \notin S
        BY SlotNumbers
      <3>4. IsFiniteSet(S \cup {0}) /\ S \cup {0} = {0} \cup S
        BY <3>3, FS_AddElement
      <3> HIDE DEF b, cells, S
      <3>5. QED
        BY <3>1, <3>2, <3>3, <3>4
    <2>2. CleanBench \in [{0} \cup S -> Stuff] /\ \A i \in {0} \cup S : CleanBench[i] = Empty
      BY StuffFacts DEF CleanBench
    <2>c. InvWorth(cells, S) = InvWorth(s.bench[b], S) /\ S = Cell(BenchGrid)
      OBVIOUS
    <2> HIDE DEF b, cells, S
    <2>3. /\ r \in Stocks /\ r.inv = s.inv /\ r.bench = s.bench /\ r.hand = s.hand
          /\ r.leftover = s.leftover
          /\ TotalWorth(r) = TotalWorth(s) + InvWorth(cells, S)
          /\ TotalWorth(s) \in Int /\ InvWorth(cells, S) \in Int
      <3>1. AllAt /\ s \in Stocks /\ u \in Crafter /\ IsFiniteSet({0} \cup S)
            /\ cells \in [{0} \cup S -> Stuff]
        BY <2>1
      <3>2. LET D == {0} \cup S
            IN  /\ r \in Stocks /\ r.inv = s.inv /\ r.bench = s.bench /\ r.hand = s.hand
                /\ r.leftover = s.leftover
                /\ TotalWorth(r) = TotalWorth(s) + InvWorth(cells, D \ {0})
                /\ TotalWorth(s) \in Int /\ InvWorth(cells, D \ {0}) \in Int
        BY ONLY <3>1, EmptiedStock
      <3>3. QED
        BY <2>1, <3>2
    <2> HIDE DEF r
    <2>4. /\ t \in Stocks /\ t.inv = r.inv /\ t.hand = r.hand /\ t.leftover = r.leftover
          /\ t.ground = r.ground /\ t.bench[b] = CleanBench
          /\ \A c \in Bench \ {b} : t.bench[c] = r.bench[c]
      BY <2>1, <2>2, <2>3 DEF Stocks, S
    <2> HIDE DEF t
    <2>5. TotalWorth(t) = TotalWorth(r) - InvWorth(r.bench[b], Cell(BenchGrid))
                          + InvWorth(t.bench[b], Cell(BenchGrid))
      BY <2>1, <2>3, <2>4, BenchTotal
    <2>6. InvWorth(t.bench[b], Cell(BenchGrid)) = 0
      BY <2>1, <2>2, <2>4, <2>c, NoWorth
    <2>7. TotalWorth(t) <= TotalWorth(s)
      BY <2>3, <2>5, <2>6, <2>c
    <2>8. ASSUME NEW c \in Bench PROVE BenchOk(t, c)
      <3>1. CASE c = b
        <4>1. DoCraft(CleanBench, BenchGrid) = Empty
          BY <2>2, <2>c, GridsAssumption, DoCraftNothing
        <4>2. QED
          BY <2>2, <2>4, <3>1, <4>1 DEF BenchOk
      <3>2. CASE c # b
        <4>1. t.bench[c] = s.bench[c] /\ BenchOk(s, c)
          BY <2>3, <2>4, <3>2 DEF Current
        <4>2. QED
          BY <4>1, OffersSame
      <3>3. QED
        BY <3>1, <3>2
    <2>9. ASSUME NEW v \in Crafter PROVE OwnOk(t, v)
      <3>1. t.inv = s.inv /\ t.leftover = s.leftover /\ OwnOk(s, v)
        BY <2>3, <2>4 DEF Current
      <3>2. QED
        BY <3>1, OffersSame
    <2>10. QED
      BY <1>3, <2>3, <2>4, <2>7, <2>8, <2>9 DEF Current
  <1>4. QED
    BY <1>1, <1>2, <1>3

(* What a player's file keeps is what was in the slots, without the output. *)
LEMMA FileKeeps ==
    ASSUME NEW inv \in [Slots -> Stuff]
    PROVE  LoadData(SaveData(inv)) = [i \in Slots |-> IF i = 0 THEN Empty ELSE inv[i]]
  <1> DEFINE file == SaveData(inv)
             found(i) == {e \in file : i \in SlotOf(e.slot)}
  <1>1. Slots \subseteq (0 .. 4) \cup {5, 9, 36}
    <2>1. Cell(OwnGrid) \subseteq 1 .. 4
      <3>1. OwnGrid[1] * OwnGrid[2] \in Nat /\ OwnGrid[1] * OwnGrid[2] < 5
        <4>1. \A a, b \in Nat : a * b \in Nat
          OBVIOUS
        <4>2. QED
          BY <4>1, GridsAssumption DEF Armour
      <3>2. QED
        BY <3>1 DEF Cell
    <2>2. QED
      BY <2>1 DEF Slots, Kept, Armour, Upper, Toolbar
  <1>2. ASSUME NEW i \in Slots, NEW f, NEW j \in Slots, j # 0,
               f \in FileSlot(j), i \in SlotOf(f)
        PROVE  i = j
    <2>1. j \in 1 .. 4 \/ j = 5 \/ j = 9 \/ j = 36
      BY <1>1, <1>2
    <2>2. \/ j \in 1 .. 4 /\ f = 79 + j
          \/ j = 5 /\ f \in {84, 103}
          \/ j = 9 /\ f = 0
          \/ j = 36 /\ f = 27
      BY <1>2, <2>1 DEF FileSlot, Upper, Armour
    <2>3. QED
      BY <1>2, <2>2 DEF SlotOf, Upper
  <1>3. ASSUME NEW j \in Slots, j # 0 PROVE \E f \in FileSlot(j) : j \in SlotOf(f)
    <2>1. j \in 1 .. 4 \/ j = 5 \/ j = 9 \/ j = 36
      BY <1>1, <1>3
    <2>2. CASE j \in 1 .. 4
      <3>1. 79 + j \in FileSlot(j) /\ j \in SlotOf(79 + j)
        BY <2>2 DEF FileSlot, SlotOf, Upper, Armour
      <3>2. QED
        BY <3>1
    <2>3. CASE j = 5
      <3>1. 103 \in FileSlot(j) /\ j \in SlotOf(103)
        BY <2>3 DEF FileSlot, SlotOf, Upper, Armour
      <3>2. QED
        BY <3>1
    <2>4. CASE j = 9 \/ j = 36
      <3>1. j - 9 \in FileSlot(j) /\ j \in SlotOf(j - 9)
        BY <2>4 DEF FileSlot, SlotOf, Upper, Armour
      <3>2. QED
        BY <3>1
    <2>5. QED
      BY <2>1, <2>2, <2>3, <2>4
  <1>4. ASSUME NEW e \in file
        PROVE  \E j \in Slots : j # 0 /\ inv[j] # Empty /\ e.slot \in FileSlot(j)
                                /\ e.item = inv[j]
    BY DEF SaveData
  <1>5. ASSUME NEW j \in Slots, j # 0, inv[j] # Empty, NEW f \in FileSlot(j)
        PROVE  [slot |-> f, item |-> inv[j]] \in file
    BY <1>5 DEF SaveData
  <1>6. LoadData(file) = [i \in Slots |-> IF found(i) = {} THEN Empty
                                          ELSE (CHOOSE e \in found(i) : TRUE).item]
    BY DEF LoadData
  <1>7. ASSUME NEW i \in Slots
        PROVE  (IF found(i) = {} THEN Empty ELSE (CHOOSE e \in found(i) : TRUE).item)
                  = IF i = 0 THEN Empty ELSE inv[i]
    <2>1. ASSUME NEW e \in found(i) PROVE i # 0 /\ inv[i] # Empty /\ e.item = inv[i]
      <3>1. e \in file /\ i \in SlotOf(e.slot)
        OBVIOUS
      <3>2. PICK j \in Slots : j # 0 /\ inv[j] # Empty /\ e.slot \in FileSlot(j)
                               /\ e.item = inv[j]
        BY <1>4, <3>1
      <3>3. i = j
        BY <1>2, <3>1, <3>2
      <3>4. QED
        BY <3>2, <3>3
    <2>2. i # 0 /\ inv[i] # Empty => found(i) # {}
      <3>1. ASSUME i # 0, inv[i] # Empty PROVE found(i) # {}
        <4>1. PICK f \in FileSlot(i) : i \in SlotOf(f)
          BY <1>3, <3>1
        <4>2. [slot |-> f, item |-> inv[i]] \in file
          BY <1>5, <3>1
        <4> HIDE DEF file
        <4>3. [slot |-> f, item |-> inv[i]] \in found(i)
          BY <4>1, <4>2
        <4>4. QED
          BY <4>3
      <3>2. QED
        BY <3>1
    <2>3. CASE found(i) = {}
      BY <2>2, <2>3
    <2>4. CASE found(i) # {}
      <3>1. (CHOOSE e \in found(i) : TRUE) \in found(i)
        BY <2>4
      <3> HIDE DEF found
      <3>2. QED
        BY <2>1, <2>4, <3>1
    <2>5. QED
      BY <2>3, <2>4
  <1> HIDE DEF file, found
  <1>8. LoadData(file) = [i \in Slots |-> IF i = 0 THEN Empty ELSE inv[i]]
    BY <1>6, <1>7
  <1>9. QED
    BY <1>8 DEF file

(* A player who closes the window loses nothing, and gains nothing.        *)
LEMMA ClosedOk ==
    ASSUME AllAt, NEW s \in Stocks, Current(s), NEW u \in Crafter
    PROVE  LET t == BenchLeft(HandDropped(s, u), u)
           IN  /\ t \in Stocks /\ Current(t) /\ TotalWorth(t) <= TotalWorth(s)
               /\ t.inv = s.inv /\ t.leftover = s.leftover
  <1> DEFINE r == HandDropped(s, u)
             t == BenchLeft(r, u)
  <1>1. /\ r \in Stocks /\ Current(r) /\ TotalWorth(r) <= TotalWorth(s)
        /\ r.inv = s.inv /\ r.leftover = s.leftover
    BY HandDroppedOk
  <1> HIDE DEF r
  <1>2. /\ t \in Stocks /\ Current(t) /\ TotalWorth(t) <= TotalWorth(r)
        /\ t.inv = r.inv /\ t.leftover = r.leftover
    BY <1>1, BenchLeftOk
  <1> HIDE DEF t
  <1>3. TotalWorth(s) \in Int /\ TotalWorth(t) \in Int /\ TotalWorth(r) \in Int
    BY <1>1, <1>2, TotalIsInt
  <1>4. QED
    BY <1>1, <1>2, <1>3 DEF r, t

WithOwn(s, u, inv, left) == [s EXCEPT !.inv[u] = inv, !.leftover = left]

(* A player's slots and what counts as left over, set at once.             *)
LEMMA SetOwn ==
    ASSUME AllAt, NEW s \in Stocks, NEW u \in Crafter, NEW inv \in [Slots -> Stuff],
           NEW left \in SUBSET Crafter, left \ {u} = s.leftover \ {u}
    PROVE  LET t == WithOwn(s, u, inv, left)
           IN  /\ t \in Stocks /\ t.hand = s.hand /\ t.bench = s.bench
               /\ t.ground = s.ground /\ t.leftover = left /\ t.most = s.most
               /\ t.inv[u] = inv
               /\ \A v \in Crafter \ {u} : t.inv[v] = s.inv[v]
               /\ TotalWorth(t) = TotalWorth(s) - OwnWorth(s, u) + OwnWorth(t, u)
               /\ Current(s) /\ OwnOk(t, u) => Current(t)
  <1> DEFINE r == [s EXCEPT !.inv[u] = inv]
             t == WithOwn(s, u, inv, left)
  <1>1. r \in Stocks /\ r.hand = s.hand /\ r.bench = s.bench
        /\ r.ground = s.ground /\ r.leftover = s.leftover /\ r.most = s.most
        /\ r.inv = [s.inv EXCEPT ![u] = inv]
    BY DEF Stocks
  <1>2. t = [r EXCEPT !.leftover = left]
    BY DEF Stocks, WithOwn
  <1> HIDE DEF r, t
  <1>3. t \in Stocks /\ t.hand = r.hand /\ t.bench = r.bench /\ t.inv = r.inv
        /\ t.ground = r.ground /\ t.leftover = left /\ t.most = r.most
    BY <1>1, <1>2 DEF Stocks
  <1>4. s.inv \in [Crafter -> [Slots -> Stuff]]
    BY DEF Stocks
  <1>5. t.inv[u] = inv /\ \A v \in Crafter \ {u} : t.inv[v] = s.inv[v]
    BY <1>1, <1>3, <1>4
  <1>6. \A v \in Crafter \ {u} : /\ t.inv[v] = s.inv[v] /\ t.hand[v] = s.hand[v]
                                 /\ v \in t.leftover <=> v \in s.leftover
    BY <1>1, <1>3, <1>5
  <1>7. t \in Stocks /\ t.ground = s.ground /\ t.bench = s.bench
    BY <1>1, <1>3
  <1>8. TotalWorth(t) = TotalWorth(s) - OwnWorth(s, u) + OwnWorth(t, u)
    BY <1>6, <1>7, OwnTotal
  <1>9. ASSUME Current(s), OwnOk(t, u) PROVE Current(t)
    <2>1. \A b \in Bench : BenchOk(t, b)
      BY <1>7, <1>9, OffersSame DEF Current
    <2>2. \A v \in Crafter \ {u} : OwnOk(t, v)
      BY <1>6, <1>9, OffersSame DEF Current
    <2>3. QED
      BY <1>9, <2>1, <2>2 DEF Current
  <1>10. QED
    BY <1>1, <1>3, <1>5, <1>8, <1>9 DEF t

(* A player who comes back has what the file kept: no result.              *)
LEMMA RejoinOk ==
    ASSUME AllAt, NEW s \in Stocks, Current(s), NEW u \in Crafter
    PROVE  Fine(s, [BenchLeft(HandDropped(s, u), u) EXCEPT
                       !.inv[u] = LoadData(SaveData(s.inv[u])),
                       !.leftover = @ \ {u}])
  <1> DEFINE r == BenchLeft(HandDropped(s, u), u)
             inv == LoadData(SaveData(s.inv[u]))
             left == r.leftover \ {u}
             t == WithOwn(r, u, inv, left)
  <1>1. /\ r \in Stocks /\ Current(r) /\ TotalWorth(r) <= TotalWorth(s)
        /\ r.inv = s.inv /\ r.leftover = s.leftover
    BY ClosedOk
  <1>2. t = [r EXCEPT !.inv[u] = inv, !.leftover = @ \ {u}]
    BY <1>1 DEF Stocks, WithOwn
  <1>3. inv = [i \in Slots |-> IF i = 0 THEN Empty ELSE s.inv[u][i]]
        /\ s.inv[u] \in [Slots -> Stuff]
    BY FileKeeps DEF Stocks
  <1>4. inv \in [Slots -> Stuff] /\ inv[0] = Empty
        /\ \A i \in Slots \ {0} : inv[i] = s.inv[u][i]
    BY <1>3, StuffFacts, SlotNumbers
  <1>5. left \in SUBSET Crafter /\ left \ {u} = r.leftover \ {u} /\ u \notin left
    BY <1>1 DEF Stocks
  <1> HIDE DEF r, inv, left
  <1>6. /\ t \in Stocks /\ t.hand = r.hand /\ t.leftover = left
        /\ t.inv[u] = inv
        /\ TotalWorth(t) = TotalWorth(r) - OwnWorth(r, u) + OwnWorth(t, u)
        /\ Current(r) /\ OwnOk(t, u) => Current(t)
    <2>1. /\ AllAt /\ r \in Stocks /\ u \in Crafter /\ inv \in [Slots -> Stuff]
          /\ left \in SUBSET Crafter /\ left \ {u} = r.leftover \ {u}
      BY <1>1, <1>4, <1>5
    <2>2. QED
      BY ONLY <2>1, SetOwn
  <1> HIDE DEF t
  <1>7. OwnOk(t, u)
    BY <1>4, <1>6 DEF OwnOk
  <1>8. OwnWorth(t, u) <= OwnWorth(r, u)
    <2>1. InvWorth(t.inv[u], Cell(OwnGrid)) = InvWorth(r.inv[u], Cell(OwnGrid))
      <3>1. \A i \in Cell(OwnGrid) : t.inv[u][i] = r.inv[u][i] /\ r.inv[u][i] \in Stuff
        BY <1>1, <1>3, <1>4, <1>6, SlotNumbers
      <3>2. QED
        BY <3>1, SlotNumbers, SlotsWorth
    <2>2. InvWorth(t.inv[u], Kept) = InvWorth(r.inv[u], Kept)
      <3>1. \A i \in Kept : t.inv[u][i] = r.inv[u][i] /\ r.inv[u][i] \in Stuff
        BY <1>1, <1>3, <1>4, <1>6, SlotNumbers
      <3>2. QED
        BY <3>1, SlotNumbers, SlotsWorth
    <2>3. u \notin t.leftover /\ t.hand[u] = r.hand[u]
      BY <1>5, <1>6
    <2>4. QED
      BY <1>1, <2>1, <2>2, <2>3, WorthNumbers DEF OwnWorth
  <1>9. /\ TotalWorth(s) \in Int /\ TotalWorth(r) \in Int
        /\ OwnWorth(r, u) \in Int /\ OwnWorth(t, u) \in Int
    BY <1>1, <1>6, TotalIsInt, WorthNumbers
  <1>10. TotalWorth(t) <= TotalWorth(s)
    BY <1>1, <1>6, <1>8, <1>9
  <1>11. Fine(s, t)
    BY <1>1, <1>6, <1>7, <1>10 DEF Fine
  <1>12. QED
    BY <1>2, <1>11 DEF r, inv

(* A player who respawns has dropped all but the output, which is left over. *)
LEMMA RespawnOk ==
    ASSUME AllAt, NEW s \in Stocks, Current(s), NEW u \in Crafter
    PROVE  LET t == [Emptied(s, s.inv[u]) EXCEPT
                        !.inv[u] = [i \in Slots |-> IF i = 0 THEN s.inv[u][0] ELSE Empty],
                        !.leftover = IF s.inv[u][0] = Empty THEN @ ELSE @ \cup {u}]
           IN  /\ t \in Stocks /\ Current(t)
               /\ t.leftover = s.leftover => TotalWorth(t) <= TotalWorth(s)
  <1> DEFINE had == s.inv[u]
             r == Emptied(s, had)
             inv == [i \in Slots |-> IF i = 0 THEN s.inv[u][0] ELSE Empty]
             left == IF s.inv[u][0] = Empty THEN r.leftover ELSE r.leftover \cup {u}
             t == WithOwn(r, u, inv, left)
  <1>1. /\ had \in [Slots -> Stuff] /\ IsFiniteSet(Slots) /\ 0 \in Slots
        /\ Slots \ {0} = Cell(OwnGrid) \cup Kept /\ Cell(OwnGrid) \cap Kept = {}
        /\ IsFiniteSet(Cell(OwnGrid)) /\ IsFiniteSet(Kept)
    <2>1. IsFiniteSet(Cell(OwnGrid) \cup Kept)
      BY SlotNumbers, FS_Union
    <2>2. IsFiniteSet((Cell(OwnGrid) \cup Kept) \cup {0})
      BY <2>1, FS_AddElement
    <2>3. Slots = (Cell(OwnGrid) \cup Kept) \cup {0}
      BY SlotNumbers
    <2>4. had \in [Slots -> Stuff]
      BY DEF Stocks
    <2> HIDE DEF had
    <2>5. Slots \ {0} = Cell(OwnGrid) \cup Kept /\ 0 \in Slots
      BY SlotNumbers
    <2>6. QED
      BY <2>2, <2>3, <2>4, <2>5, SlotNumbers
  <1>2. [Emptied(s, s.inv[u]) EXCEPT
            !.inv[u] = [i \in Slots |-> IF i = 0 THEN s.inv[u][0] ELSE Empty],
            !.leftover = IF s.inv[u][0] = Empty THEN @ ELSE @ \cup {u}] = t
    BY DEF WithOwn
  <1>3. inv \in [Slots -> Stuff] /\ inv[0] = had[0]
        /\ \A i \in Slots \ {0} : inv[i] = Empty
    BY <1>1, StuffFacts
  <1>4. had = s.inv[u]
    OBVIOUS
  <1> HIDE DEF had
  <1>5. /\ r \in Stocks /\ r.inv = s.inv /\ r.bench = s.bench /\ r.hand = s.hand
        /\ r.leftover = s.leftover
        /\ TotalWorth(r) = TotalWorth(s) + InvWorth(had, Slots \ {0})
        /\ TotalWorth(s) \in Int /\ InvWorth(had, Slots \ {0}) \in Int
    <2>1. AllAt /\ s \in Stocks /\ u \in Crafter /\ IsFiniteSet(Slots)
          /\ had \in [Slots -> Stuff]
      BY <1>1
    <2>2. QED
      BY ONLY <2>1, EmptiedStock
  <1>6. Current(r)
    BY <1>5, OffersSame DEF Current
  <1>7. left \in SUBSET Crafter /\ left \ {u} = r.leftover \ {u}
        /\ (had[0] # Empty => u \in left) /\ r.leftover \subseteq left
    BY <1>4, <1>5 DEF Stocks
  <1> HIDE DEF r, inv, left
  <1>8. /\ t \in Stocks /\ t.hand = r.hand /\ t.leftover = left
        /\ t.inv[u] = inv
        /\ TotalWorth(t) = TotalWorth(r) - OwnWorth(r, u) + OwnWorth(t, u)
        /\ Current(r) /\ OwnOk(t, u) => Current(t)
    <2>1. /\ AllAt /\ r \in Stocks /\ u \in Crafter /\ inv \in [Slots -> Stuff]
          /\ left \in SUBSET Crafter /\ left \ {u} = r.leftover \ {u}
      BY <1>3, <1>5, <1>7
    <2>2. QED
      BY ONLY <2>1, SetOwn
  <1> HIDE DEF t
  <1>9. OwnOk(t, u)
    BY <1>3, <1>7, <1>8 DEF OwnOk
  <1>10. ASSUME t.leftover = s.leftover PROVE TotalWorth(t) <= TotalWorth(s)
    <2>1. InvWorth(had, Slots \ {0}) = InvWorth(had, Cell(OwnGrid)) + InvWorth(had, Kept)
      <3> DEFINE S == Cell(OwnGrid)
                 T == Kept
                 f == [i \in S \cup T |-> ItemWorth(had[i])]
      <3>1. f \in [S \cup T -> Int] /\ S \cap T = {} /\ IsFiniteSet(S) /\ IsFiniteSet(T)
        <4>1. \A i \in S \cup T : ItemWorth(had[i]) \in Int
          BY <1>1, StuffFacts
        <4>2. QED
          BY <1>1, <4>1
      <3>2. /\ InvWorth(had, Slots \ {0}) = SumFunction(f)
            /\ InvWorth(had, S) = SumFunction([i \in S |-> f[i]])
            /\ InvWorth(had, T) = SumFunction([i \in T |-> f[i]])
        <4>1. [i \in S |-> f[i]] = [i \in S |-> ItemWorth(had[i])]
              /\ [i \in T |-> f[i]] = [i \in T |-> ItemWorth(had[i])]
          OBVIOUS
        <4>2. Slots \ {0} = S \cup T
          BY <1>1
        <4>3. QED
          BY <4>1, <4>2 DEF InvWorth
      <3> HIDE DEF S, T, f
      <3>3. SumFunction(f) = SumFunction([i \in S |-> f[i]]) + SumFunction([i \in T |-> f[i]])
        BY ONLY <3>1, SumSplits
      <3>4. QED
        BY <3>2, <3>3 DEF S, T
    <2>2. InvWorth(t.inv[u], Cell(OwnGrid)) = 0 /\ InvWorth(t.inv[u], Kept) = 0
      <3>1. (\A i \in Cell(OwnGrid) : t.inv[u][i] = Empty)
            /\ \A i \in Kept : t.inv[u][i] = Empty
        BY <1>1, <1>3, <1>8
      <3>2. QED
        BY <1>1, <3>1, NoWorth
    <2>3. /\ t.inv[u][0] = r.inv[u][0] /\ t.hand[u] = r.hand[u] /\ r.inv[u] = had
          /\ u \in t.leftover <=> u \in r.leftover
      BY <1>3, <1>4, <1>5, <1>8, <1>10
    <2>4. /\ ItemWorth(r.hand[u]) \in Int /\ ItemWorth(r.inv[u][0]) \in Int
          /\ InvWorth(had, Cell(OwnGrid)) \in Int /\ InvWorth(had, Kept) \in Int
      BY <1>5, <2>3, WorthNumbers
    <2>5. OwnWorth(t, u) = OwnWorth(r, u) - InvWorth(had, Slots \ {0})
      BY <2>1, <2>2, <2>3, <2>4 DEF OwnWorth
    <2>6. OwnWorth(t, u) \in Int /\ OwnWorth(r, u) \in Int
      BY <1>5, <1>8, WorthNumbers
    <2>7. QED
      BY <1>5, <1>8, <2>5, <2>6
  <1>11. QED
    BY <1>2, <1>6, <1>8, <1>9, <1>10 DEF t

-----------------------------------------------------------------------------
(* The hand in the world.                                                  *)

(* The toolbar is not looked at for what is made.                          *)
LEMMA ToolbarOk ==
    ASSUME AllAt, NEW s \in Stocks, Current(s), NEW u \in Crafter, NEW item \in Stuff
    PROVE  LET t == [s EXCEPT !.inv[u][Toolbar] = item]
           IN  /\ t \in Stocks /\ Current(t) /\ t.ground = s.ground
               /\ TotalWorth(t) = TotalWorth(s) - ItemWorth(s.inv[u][Toolbar]) + ItemWorth(item)
               /\ TotalWorth(s) \in Int /\ TotalWorth(t) \in Int
               /\ ItemWorth(s.inv[u][Toolbar]) \in Nat /\ ItemWorth(item) \in Nat
  <1> DEFINE t == [s EXCEPT !.inv[u][Toolbar] = item]
  <1>1. Toolbar \in Slots /\ Toolbar # 0 /\ Toolbar \notin {0} \cup Cell(OwnGrid)
        /\ {0} \cup Cell(OwnGrid) \subseteq Slots
    BY SlotNumbers
  <1>2. /\ t \in Stocks /\ t.bench = s.bench /\ t.leftover = s.leftover
        /\ t.ground = s.ground
        /\ t.inv[u] = [s.inv[u] EXCEPT ![Toolbar] = item]
        /\ \A v \in Crafter \ {u} : t.inv[v] = s.inv[v]
        /\ TotalWorth(t) = TotalWorth(s) - ItemWorth(s.inv[u][Toolbar]) + ItemWorth(item)
    BY <1>1, PutOwn
  <1> HIDE DEF t
  <1>3. s.inv[u] \in [Slots -> Stuff]
    BY DEF Stocks
  <1>4. ASSUME NEW v \in Crafter, NEW i \in {0} \cup Cell(OwnGrid)
        PROVE  t.inv[v][i] = s.inv[v][i]
    BY <1>1, <1>2, <1>3
  <1>5. Current(t)
    <2>1. \A b \in Bench : BenchOk(t, b)
      BY <1>2, OffersSame DEF Current
    <2>2. \A v \in Crafter : OwnOk(t, v)
      BY <1>2, <1>4, OffersSame DEF Current
    <2>3. QED
      BY <2>1, <2>2 DEF Current
  <1>6. QED
    BY <1>1, <1>2, <1>3, <1>5, TotalIsInt, StuffFacts DEF t

(* What is dropped from the toolbar lies on the ground.                    *)
LEMMA DropItemOk ==
    ASSUME AllAt, NEW s \in Stocks, Current(s), NEW u \in Crafter,
           s.inv[u][Toolbar] # Empty
    PROVE  LET item == s.inv[u][Toolbar]
           IN  Fine(s, [Fallen(s, Of(item.kind, 1)) EXCEPT !.inv[u][Toolbar] = I!Less(item)])
  <1> DEFINE item == s.inv[u][Toolbar]
             one == Of(item.kind, 1)
             rest == I!Less(item)
             r == Fallen(s, one)
             t == [r EXCEPT !.inv[u][Toolbar] = rest]
  <1>1. item \in Stuff /\ item # Empty /\ item.n \in Nat /\ item.n >= 1 /\ item.kind \in Goods
        /\ item.kind # Empty.kind /\ Worth(item.kind) \in Nat
    BY SlotNumbers, StuffFacts DEF Stocks
  <1>2. one \in Stuff /\ ItemWorth(one) = Worth(item.kind)
    <2>1. 1 * Worth(item.kind) = Worth(item.kind)
      BY <1>1
    <2>2. QED
      BY <1>1, <2>1, OfStuff
  <1>3. rest \in Stuff /\ ItemWorth(rest) = ItemWorth(item) - Worth(item.kind)
    <2>1. item.n - 1 \in Int /\ item.n - 1 >= 0
      BY <1>1
    <2>2. rest = Of(item.kind, item.n - 1)
      BY DEF I!Less, Of
    <2>3. rest \in Stuff /\ ItemWorth(rest) = (item.n - 1) * Worth(item.kind)
      BY <1>1, <2>1, <2>2, OfStuff
    <2>4. \A a, b \in Int : (a - 1) * b = a * b - b
      OBVIOUS
    <2>5. QED
      BY <1>1, <2>3, <2>4 DEF ItemWorth
  <1>4. item = s.inv[u][Toolbar]
    OBVIOUS
  <1> HIDE DEF item, one, rest
  <1>5. /\ r \in Stocks /\ r.inv = s.inv /\ r.bench = s.bench
        /\ r.leftover = s.leftover
        /\ TotalWorth(r) = TotalWorth(s) + ItemWorth(one)
        /\ TotalWorth(s) \in Int
    BY <1>2, FallenStock
  <1> HIDE DEF r
  <1>6. Current(r)
    BY <1>5, OffersSame DEF Current
  <1>7. /\ t \in Stocks /\ Current(t)
        /\ TotalWorth(t) = TotalWorth(r) - ItemWorth(r.inv[u][Toolbar]) + ItemWorth(rest)
        /\ ItemWorth(r.inv[u][Toolbar]) \in Nat
    BY <1>3, <1>5, <1>6, ToolbarOk
  <1> HIDE DEF t
  <1>8. TotalWorth(t) <= TotalWorth(s)
    BY <1>1, <1>2, <1>3, <1>4, <1>5, <1>7
  <1>9. Fine(s, t)
    BY <1>7, <1>8 DEF Fine
  <1>10. QED
    BY <1>9 DEF t, r, item, one, rest

(* What is picked up was on the ground: one item, unless whole stacks are
   taken.                                                                  *)
LEMMA PickUpOk ==
    ASSUME AllAt, NEW s \in Stocks, Current(s), NEW u \in Crafter, NEW k \in Goods,
           s.ground[k] > 0, NEW n \in Nat, n <= s.ground[k], n > 0, ~WholeStacks => n = 1
    PROVE  Lawful(s, [s EXCEPT !.ground[k] = @ - n,
                             !.inv[u] = I!AddItems(@, PackOrder, Of(k, n))])
  <1> DEFINE m == s.ground[k] - n
             item == Of(k, n)
             r == [s EXCEPT !.ground[k] = m]
             t(v) == [r EXCEPT !.inv[u][Toolbar] = v]
  <1>1. s.ground[k] \in Nat /\ m \in Nat /\ Worth(k) \in Nat /\ k # Empty.kind
    BY GoodsAssumption DEF Stocks
  <1>2. item \in Stuff /\ item # Empty /\ item.n = n /\ ItemWorth(item) = n * Worth(k)
    <2>1. item \in Stuff /\ ItemWorth(item) = n * Worth(k)
      BY <1>1, OfStuff
    <2>2. item = [kind |-> k, n |-> n]
      BY DEF Of, I!Of
    <2>3. QED
      BY <1>1, <2>1, <2>2
  <1> HIDE DEF item
  <1>3. s.inv \in [Crafter -> [Slots -> Stuff]] /\ s.inv[u] \in [Slots -> Stuff]
    BY DEF Stocks
  <1>4. PICK v \in Stuff :
              /\ I!AddItems(s.inv[u], PackOrder, item) = [s.inv[u] EXCEPT ![Toolbar] = v]
              /\ item.n = 1 => ItemWorth(v) <= ItemWorth(s.inv[u][Toolbar]) + ItemWorth(item)
    BY <1>2, <1>3, AddedStuff
  <1>5. [s EXCEPT !.ground[k] = @ - n,
                  !.inv[u] = I!AddItems(@, PackOrder, Of(k, n))] = t(v)
    <2>1. t(v) = [s EXCEPT !.ground[k] = m, !.inv[u] = [s.inv[u] EXCEPT ![Toolbar] = v]]
      BY <1>3 DEF Stocks
    <2>2. [s EXCEPT !.ground[k] = @ - n,
                    !.inv[u] = I!AddItems(@, PackOrder, Of(k, n))]
            = [s EXCEPT !.ground[k] = m,
                        !.inv[u] = I!AddItems(s.inv[u], PackOrder, Of(k, n))]
      BY DEF Stocks
    <2>3. QED
      BY <1>4, <2>1, <2>2 DEF item
  <1> HIDE DEF m
  <1>6. /\ r \in Stocks /\ r.inv = s.inv /\ r.bench = s.bench /\ r.leftover = s.leftover
        /\ TotalWorth(r) = TotalWorth(s) - s.ground[k] * Worth(k) + m * Worth(k)
        /\ TotalWorth(s) \in Int /\ s.ground[k] * Worth(k) \in Nat /\ m * Worth(k) \in Nat
    BY <1>1, GroundStock
  <1> HIDE DEF r
  <1>7. Current(r)
    BY <1>6, OffersSame DEF Current
  <1>8. /\ t(v) \in Stocks /\ Current(t(v))
        /\ TotalWorth(t(v)) = TotalWorth(r) - ItemWorth(r.inv[u][Toolbar]) + ItemWorth(v)
        /\ ItemWorth(r.inv[u][Toolbar]) \in Nat /\ ItemWorth(v) \in Nat
    BY <1>4, <1>6, <1>7, ToolbarOk
  <1> HIDE DEF t
  <1>9. ASSUME ~WholeStacks PROVE TotalWorth(t(v)) <= TotalWorth(s)
    <2>1. m = s.ground[k] - 1 /\ ItemWorth(item) = Worth(k) /\ item.n = 1
      <3>1. 1 * Worth(k) = Worth(k)
        BY <1>1
      <3>2. QED
        BY <1>2, <1>9, <3>1 DEF m
    <2>2. m * Worth(k) = s.ground[k] * Worth(k) - Worth(k)
      <3>1. \A a, b \in Int : (a - 1) * b = a * b - b
        OBVIOUS
      <3>2. QED
        BY <1>1, <2>1, <3>1
    <2>3. ItemWorth(v) <= ItemWorth(r.inv[u][Toolbar]) + Worth(k)
      BY <1>4, <1>6, <2>1
    <2>4. QED
      BY <1>1, <1>6, <1>8, <2>2, <2>3
  <1>10. Lawful(s, t(v))
    BY <1>8, <1>9 DEF Lawful, NotDearer
  <1>11. QED
    BY <1>5, <1>10

(* A tool that has been used is worth no more.                             *)
LEMMA WornTool ==
    ASSUME NEW item \in Stuff, item.kind \in Range(Tools), NEW right \in BOOLEAN
    PROVE  Worn(item, right) \in Stuff /\ ItemWorth(Worn(item, right)) <= ItemWorth(item)
  <1> DEFINE Tool(i) == i \in Stuff /\ (i = Empty \/ i.kind \in Range(Tools))
  <1>1. \A a, b, c \in Nat : b <= c => a * b <= a * c
    OBVIOUS
  <1>2. Tools \in Seq(Goods) /\ Len(Tools) \in Nat /\ Len(Tools) >= 1
        /\ DOMAIN Tools = 1 .. Len(Tools) /\ Last(Tools) = Tools[Len(Tools)]
    BY ToolsAssumption DEF Last
  <1>3. ASSUME NEW i, Tool(i) PROVE Tool(Dented(i)) /\ ItemWorth(Dented(i)) <= ItemWorth(i)
    <2>1. CASE i = Empty \/ i.kind = Last(Tools)
      <3>1. Dented(i) = Empty
        BY <2>1 DEF Dented
      <3>2. QED
        BY <1>3, <3>1, StuffFacts
    <2>2. CASE ~(i = Empty \/ i.kind = Last(Tools))
      <3> DEFINE x == CHOOSE j \in DOMAIN Tools : Tools[j] = i.kind
                 k == Tools[1 + x]
      <3>1. \E j \in DOMAIN Tools : Tools[j] = i.kind
        BY <1>3, <2>2 DEF Range
      <3>2. x \in DOMAIN Tools /\ Tools[x] = i.kind
        BY <3>1
      <3>3. Dented(i) = Of(k, i.n)
        BY <2>2 DEF Dented
      <3> HIDE DEF x
      <3>4. x \in 1 .. Len(Tools) /\ x # Len(Tools)
        BY <1>2, <2>2, <3>2
      <3>5. 1 + x \in DOMAIN Tools \ {1} /\ (1 + x) - 1 = x
        <4>1. \A l \in Nat : \A j \in 1 .. l :
                 j # l => 1 + j \in (1 .. l) \ {1} /\ (1 + j) - 1 = j
          OBVIOUS
        <4>2. 1 + x \in (1 .. Len(Tools)) \ {1} /\ (1 + x) - 1 = x
          BY <1>2, <3>4, <4>1
        <4>3. QED
          BY <1>2, <4>2
      <3>6. k \in Goods /\ k \in Range(Tools) /\ Worth(k) <= Worth(i.kind)
        <4>1. k \in Goods /\ k \in Range(Tools)
          BY <1>2, <3>5 DEF Range
        <4>2. Worth(Tools[1 + x]) <= Worth(Tools[(1 + x) - 1])
          BY <3>5, ToolsAssumption
        <4>3. QED
          BY <3>2, <3>5, <4>1, <4>2
      <3> HIDE DEF k
      <3>7. i \in Stuff /\ i.n \in Nat /\ i.n >= 1 /\ Worth(i.kind) \in Nat /\ Worth(k) \in Nat
            /\ k # Empty.kind
        BY <1>3, <2>2, <3>6, StuffFacts, GoodsAssumption
      <3>8. Of(k, i.n) \in Stuff /\ Of(k, i.n).kind = k /\ ItemWorth(Of(k, i.n)) = i.n * Worth(k)
        BY <3>6, <3>7, OfStuff
      <3>9. i.n * Worth(k) <= i.n * Worth(i.kind)
        BY <1>1, <3>6, <3>7
      <3>10. QED
        BY <3>3, <3>6, <3>8, <3>9 DEF ItemWorth
    <2>3. QED
      BY <2>1, <2>2
  <1> DEFINE used == IF right THEN Dented(item) ELSE Dented(Dented(item))
  <1>4. Tool(used) /\ ItemWorth(used) <= ItemWorth(item)
    <2>1. Tool(item)
      OBVIOUS
    <2> HIDE DEF Tool
    <2>2. Tool(Dented(item)) /\ ItemWorth(Dented(item)) <= ItemWorth(item)
      BY <1>3, <2>1
    <2>3. Tool(Dented(Dented(item))) /\ ItemWorth(Dented(Dented(item))) <= ItemWorth(Dented(item))
      BY <1>3, <2>2
    <2>4. ItemWorth(item) \in Nat /\ ItemWorth(Dented(item)) \in Nat
          /\ ItemWorth(Dented(Dented(item))) \in Nat
      BY <2>2, <2>3, StuffFacts DEF Tool
    <2>5. QED
      BY <2>2, <2>3, <2>4
  <1>5. Worn(item, right) = IF used.kind = Last(Tools) THEN I!Less(used) ELSE used
    BY DEF Worn
  <1> HIDE DEF used
  <1>6. CASE used.kind = Last(Tools)
    <2>1. used \in Stuff /\ used.kind \in Goods
      BY <1>2, <1>4, <1>6
    <2>2. used # Empty /\ used.n \in Nat /\ used.n >= 1 /\ Worth(used.kind) \in Nat
      BY <2>1, StuffFacts, GoodsAssumption
    <2>3. I!Less(used) = Of(used.kind, used.n - 1)
      BY DEF I!Less, Of
    <2>4. Of(used.kind, used.n - 1) \in Stuff
          /\ ItemWorth(Of(used.kind, used.n - 1)) = (used.n - 1) * Worth(used.kind)
      <3>1. used.n - 1 \in Int /\ used.n - 1 >= 0 /\ used.kind # Empty.kind
        BY <2>1, <2>2, GoodsAssumption
      <3>2. QED
        BY <2>1, <3>1, OfStuff
    <2>5. \A a, b \in Int : (a - 1) * b = a * b - b /\ a * b \in Int
      OBVIOUS
    <2>6. (used.n - 1) * Worth(used.kind) = ItemWorth(used) - Worth(used.kind)
      BY <2>2, <2>5 DEF ItemWorth
    <2>7. ItemWorth(used) \in Nat /\ ItemWorth(item) \in Nat
      BY <2>1, StuffFacts
    <2>8. QED
      BY <1>4, <1>5, <1>6, <2>2, <2>3, <2>4, <2>6, <2>7
  <1>7. QED
    BY <1>4, <1>5, <1>6

(* A tool that is used stays in the toolbar.                               *)
LEMMA UseToolOk ==
    ASSUME AllAt, NEW s \in Stocks, Current(s), NEW u \in Crafter, NEW right \in BOOLEAN,
           s.inv[u][Toolbar].kind \in Range(Tools)
    PROVE  Fine(s, [s EXCEPT !.inv[u][Toolbar] = Worn(s.inv[u][Toolbar], right)])
  <1> DEFINE item == s.inv[u][Toolbar]
             worn == Worn(item, right)
             t == [s EXCEPT !.inv[u][Toolbar] = worn]
  <1>1. item \in Stuff
    BY SlotNumbers DEF Stocks
  <1>2. worn \in Stuff /\ ItemWorth(worn) <= ItemWorth(item)
    BY <1>1, WornTool
  <1> HIDE DEF worn
  <1>3. /\ t \in Stocks /\ Current(t)
        /\ TotalWorth(t) = TotalWorth(s) - ItemWorth(item) + ItemWorth(worn)
        /\ TotalWorth(s) \in Int /\ TotalWorth(t) \in Int
        /\ ItemWorth(item) \in Nat /\ ItemWorth(worn) \in Nat
    BY <1>2, ToolbarOk
  <1> HIDE DEF t, item
  <1>4. Fine(s, t)
    BY <1>2, <1>3 DEF Fine
  <1>5. QED
    BY <1>4 DEF t, item, worn

-----------------------------------------------------------------------------
(* The specification.                                                      *)

(* Players and what they are at, what there is of items, and that offers are
   right.                                                                  *)
WindowIInv == AllAt /\ items \in Stocks /\ Current(items)

(* Players begin with empty slots but for the toolbar.                     *)
LEMMA WindowsBegin == ASSUME WindowsInit PROVE WindowIInv
  <1>1. PICK party \in Parties : WindowsStart(party)
    BY DEF WindowsInit
  <1> DEFINE who == DOMAIN party.bag
             s == ItemsStart(party)
  <1>2. IsFiniteSet(who) /\ party.most \in Nat /\ party.bag \in [who -> Stuff]
    BY PartiesAssumption
  <1>3. items = s /\ opened = [u \in who |-> None] /\ Crafter = who
    BY <1>1 DEF WindowsStart, Crafter
  <1>4. AllAt
    BY <1>2, <1>3 DEF AllAt
  <1>5. CleanBench \in [{0} \cup Cell(BenchGrid) -> Stuff]
        /\ \A i \in {0} \cup Cell(BenchGrid) : CleanBench[i] = Empty
    BY StuffFacts DEF CleanBench
  <1>6. /\ s.inv = [u \in who |->
                       [i \in Slots |-> IF i = Toolbar THEN party.bag[u] ELSE Empty]]
        /\ s.bench = [b \in Bench |-> CleanBench]
        /\ s.leftover = {}
    BY DEF ItemsStart
  <1>7. s \in Stocks
    BY <1>2, <1>3, <1>5, StuffFacts DEF Stocks, ItemsStart
  <1> HIDE DEF who, s
  <1>8. ASSUME NEW b \in Bench PROVE BenchOk(s, b)
    <2>1. DoCraft(CleanBench, BenchGrid) = Empty
      BY <1>5, GridsAssumption, DoCraftNothing
    <2>2. QED
      BY <1>5, <1>6, <2>1 DEF BenchOk
  <1>9. ASSUME NEW u \in Crafter PROVE OwnOk(s, u)
    BY <1>3, <1>6, SlotNumbers DEF OwnOk
  <1>10. QED
    BY <1>3, <1>4, <1>7, <1>8, <1>9 DEF WindowIInv, Current

(* Whatever a player does, offers stay right, and nothing is had for nothing
   but by who respawns with a result in the output slot.                   *)
LEMMA WindowsStep ==
    ASSUME WindowIInv, WindowsNext
    PROVE  /\ opened' \in [Crafter -> Bench \cup {None}]
           /\ items' \in Stocks /\ Current(items')
           /\ NotDearer(items, items') \/ items'.leftover # items.leftover
  <1>1. AllAt /\ items \in Stocks /\ Current(items)
    BY DEF WindowIInv
  <1>2. PICK u \in Crafter :
            \/ Click(u) \/ Drag(u) \/ NumberKey(u)
            \/ ClickOutside(u) \/ CloseWindow(u) \/ Rejoin(u) \/ Respawn(u)
            \/ DropItem(u) \/ UseTool(u)
            \/ \E b \in Bench : OpenBench(u, b)
            \/ \E k \in Goods : PickUp(u, k)
    BY DEF WindowsNext
  <1>3. opened' \in [Crafter -> Bench \cup {None}]
    BY <1>1, <1>2 DEF AllAt, Click, Drag, NumberKey, ClickOutside, CloseWindow, Rejoin,
                      Respawn, DropItem, UseTool, OpenBench, PickUp
  <1>4. ASSUME NEW t, Fine(items, t) PROVE Lawful(items, t)
    BY <1>1, <1>4, Steps
  <1>5. CASE Click(u)
    <2>1. PICK x \in Shown(u), button \in {"left", "right", "shift"} :
              items' = OnWindowClick(items, u, x, button)
      BY <1>5 DEF Click
    <2>2. Lawful(items, OnWindowClick(items, u, x, button))
      BY <1>1, ClickOk
    <2>3. QED
      BY <1>3, <2>1, <2>2 DEF Lawful
  <1>6. CASE Drag(u)
    <2>1. PICK k \in 1 .. MaxDrag : \E xs \in [1 .. k -> Shown(u)] :
              \E button \in {"left", "right"} : items' = HandleDrag(items, u, xs, button)
      BY <1>6 DEF Drag
    <2>2. PICK xs \in [1 .. k -> Shown(u)], button \in {"left", "right"} :
              items' = HandleDrag(items, u, xs, button)
      BY <2>1
    <2>3. k \in Nat /\ k >= 1
      BY GridsAssumption
    <2>4. xs \in Seq(Shown(u)) /\ xs # << >>
      BY <2>3
    <2>5. Lawful(items, HandleDrag(items, u, xs, button))
      BY <1>1, <2>4, DragOk
    <2>6. QED
      BY <1>3, <2>2, <2>5 DEF Lawful
  <1>7. CASE NumberKey(u)
    <2>1. PICK x \in Shown(u) : items' = HandleNumber(items, u, x)
      BY <1>7 DEF NumberKey
    <2>2. Lawful(items, HandleNumber(items, u, x))
      BY <1>1, NumberOk
    <2>3. QED
      BY <1>3, <2>1, <2>2 DEF Lawful
  <1>8. CASE ClickOutside(u)
    <2>1. Lawful(items, HandDropped(items, u))
      BY <1>1, <1>4, HandDroppedOk DEF Fine
    <2>2. QED
      BY <1>3, <1>8, <2>1 DEF ClickOutside, Lawful
  <1>9. CASE CloseWindow(u)
    <2>1. Lawful(items, BenchLeft(HandDropped(items, u), u))
      BY <1>1, <1>4, ClosedOk DEF Fine
    <2>2. QED
      BY <1>3, <1>9, <2>1 DEF CloseWindow, Lawful
  <1>10. CASE Rejoin(u)
    <2>1. Lawful(items, [BenchLeft(HandDropped(items, u), u) EXCEPT
                          !.inv[u] = LoadData(SaveData(items.inv[u])),
                          !.leftover = @ \ {u}])
      BY <1>1, <1>4, RejoinOk
    <2>2. QED
      BY <1>3, <1>10, <2>1 DEF Rejoin, Lawful
  <1>11. CASE Respawn(u)
    <2> DEFINE t == [Emptied(items, items.inv[u]) EXCEPT
                        !.inv[u] = [i \in Slots |-> IF i = 0 THEN items.inv[u][0] ELSE Empty],
                        !.leftover = IF items.inv[u][0] = Empty THEN @ ELSE @ \cup {u}]
    <2>1. /\ t \in Stocks /\ Current(t)
          /\ t.leftover = items.leftover => TotalWorth(t) <= TotalWorth(items)
      BY <1>1, RespawnOk
    <2>2. items' = t
      BY <1>11 DEF Respawn
    <2> HIDE DEF t
    <2>3. QED
      BY <1>3, <2>1, <2>2 DEF NotDearer
  <1>12. CASE DropItem(u)
    <2> DEFINE item == items.inv[u][Toolbar]
               t == [Fallen(items, Of(item.kind, 1)) EXCEPT !.inv[u][Toolbar] = I!Less(item)]
    <2>1. Lawful(items, t)
      BY <1>1, <1>4, <1>12, DropItemOk DEF DropItem
    <2>2. items' = t
      BY <1>12 DEF DropItem
    <2> HIDE DEF t
    <2>3. QED
      BY <1>3, <2>1, <2>2 DEF Lawful
  <1>13. CASE UseTool(u)
    <2>1. PICK right \in BOOLEAN :
              items' = [items EXCEPT !.inv[u][Toolbar] = Worn(items.inv[u][Toolbar], right)]
      BY <1>13 DEF UseTool
    <2>2. items.inv[u][Toolbar].kind \in Range(Tools)
      BY <1>13 DEF UseTool
    <2>3. Lawful(items, [items EXCEPT !.inv[u][Toolbar] = Worn(items.inv[u][Toolbar], right)])
      BY <1>1, <1>4, <2>2, UseToolOk
    <2>4. QED
      BY <1>3, <2>1, <2>3 DEF Lawful
  <1>14. CASE \E b \in Bench : OpenBench(u, b)
    <2>1. Lawful(items, BenchLeft(items, u))
      BY <1>1, <1>4, BenchLeftOk DEF Fine
    <2>2. QED
      BY <1>3, <1>14, <2>1 DEF OpenBench, Lawful
  <1>15. CASE \E k \in Goods : PickUp(u, k)
    <2>1. PICK k \in Goods : PickUp(u, k)
      BY <1>15
    <2> DEFINE n == IF WholeStacks THEN items.ground[k] ELSE 1
               t == [items EXCEPT !.ground[k] = @ - n,
                                  !.inv[u] = I!AddItems(@, PackOrder, Of(k, n))]
    <2>2. items' = t /\ items.ground[k] > 0
      BY <2>1 DEF PickUp
    <2>3. items.ground[k] \in Nat
      BY <1>1 DEF Stocks
    <2>4. n \in Nat /\ n <= items.ground[k] /\ n > 0 /\ (~WholeStacks => n = 1)
      BY <2>2, <2>3
    <2> HIDE DEF n
    <2>5. Lawful(items, t)
      BY <1>1, <2>2, <2>4, PickUpOk
    <2> HIDE DEF t
    <2>6. QED
      BY <1>3, <2>2, <2>5 DEF Lawful
  <1>16. QED
    BY <1>2, <1>5, <1>6, <1>7, <1>8, <1>9, <1>10, <1>11, <1>12, <1>13, <1>14, <1>15

(* The invariant is kept.                                                  *)
LEMMA WindowsKept == WindowIInv /\ [WindowsNext]_windowVars => WindowIInv'
  <1>1. CASE WindowIInv /\ WindowsNext
    <2>1. /\ opened' \in [Crafter -> Bench \cup {None}]
          /\ items' \in Stocks /\ Current(items') /\ IsFiniteSet(Crafter)
      BY <1>1, WindowsStep DEF WindowIInv, AllAt
    <2>2. Crafter' = Crafter
      BY <2>1 DEF Crafter
    <2>3. QED
      BY <2>1, <2>2 DEF WindowIInv, AllAt, Stocks, Current, OwnOk, BenchOk
  <1>2. CASE WindowIInv /\ UNCHANGED windowVars
    BY <1>2 DEF windowVars, WindowIInv, AllAt, Stocks, Crafter, Current, OwnOk, BenchOk
  <1>3. QED
    BY <1>1, <1>2

(* The invariant holds of every behaviour.                                 *)
THEOREM WindowsInvariance == WindowsSpec => []WindowIInv
  <1>1. WindowsInit => WindowIInv
    BY WindowsBegin
  <1>2. QED
    BY <1>1, WindowsKept, PTL DEF WindowsSpec

(* An output slot offers what its grid makes (OutputIsCurrent).            *)
THEOREM ResultsCurrent == WindowsSpec => []OutputIsCurrent
  <1>1. WindowIInv => OutputIsCurrent
    BY DEF WindowIInv, Current, BenchOk, OwnOk, OutputIsCurrent
  <1>2. QED
    BY <1>1, WindowsInvariance, PTL

(* Nothing is had for nothing, when what is shifted or picked up are single
   items (CraftIsPaid).                                                    *)
THEOREM NothingForNothing ==
    ASSUME ~WholeStacks
    PROVE  WindowsSpec => CraftIsPaid
  <1>1. WindowIInv /\ [WindowsNext]_windowVars
            => [\/ UNCHANGED items
                \/ TotalWorth(items') <= TotalWorth(items)
                \/ items'.leftover # items.leftover]_windowVars
    <2>1. CASE WindowIInv /\ WindowsNext
      BY <2>1, WindowsStep DEF NotDearer
    <2>2. QED
      BY <2>1
  <1>2. QED
    BY <1>1, WindowsInvariance, PTL DEF WindowsSpec, CraftIsPaid

-----------------------------------------------------------------------------
(* Mobs.                                                                   *)

MobType ==
    [kind : Breeds, health : 0 .. 30, spawned : BOOLEAN, x : Int, y : Int,
     shorn : BOOLEAN, beef : {0, 1}, wool : {0, 1}, fell : BOOLEAN]

\* What a player has and where it stands does not matter here.
IsKeeper(k) ==
    \E V : k \in [logged : BOOLEAN, x : V, strayed : BOOLEAN, sight : V, pocket : V]

Gives(mob) ==
    /\ mob.beef = (IF mob.health = 0 /\ DropsAtDeath(mob.kind) THEN 1 ELSE 0)
    /\ mob.wool = (IF mob.shorn THEN 1 ELSE 0)

Shows(k, h, p) ==
    k.logged /\ ~k.strayed =>
        /\ DOMAIN k.sight = DOMAIN p
        /\ \A id \in DOMAIN p : h[id].fell \/ k.sight[id] = Place(h[id])

\* A mob is driven by the plugin as long as it is spawned: what sendLoginInfo
\* goes by is what timer200 goes by.
Driven(h, p) ==
    /\ DOMAIN p \subseteq DOMAIN h
    /\ \A id \in DOMAIN h : h[id].spawned <=> id \in DOMAIN p

Sound(h, p, ks) ==
    /\ h \in Seq(MobType)
    /\ \A id \in DOMAIN h : Gives(h[id])
    /\ Driven(h, p)
    /\ \A u \in DOMAIN ks : IsKeeper(ks[u]) /\ Shows(ks[u], h, p)

IInv == Sound(herd, pets, keepers)

-----------------------------------------------------------------------------
(* One mob. *)

(* moveTo changes the place of a mob, and whether it fell too far. *)
LEMMA MovedMob ==
    ASSUME NEW mob \in MobType, NEW x \in Int, NEW y \in Int
    PROVE  LET moved == MoveTo(mob, x, y)
           IN  /\ moved \in MobType
               /\ Gives(mob) => Gives(moved)
               /\ moved.spawned = mob.spawned
               /\ Place(moved) = <<x, y>>
               /\ moved.fell = (mob.fell \/ Wrap(x - mob.x) # x - mob.x
                                         \/ Wrap(y - mob.y) # y - mob.y)
  <1> DEFINE fell == mob.fell \/ Wrap(x - mob.x) # x - mob.x
                              \/ Wrap(y - mob.y) # y - mob.y
  <1>1. fell \in BOOLEAN
    BY DEF MobType
  <1>2. MoveTo(mob, x, y) = [mob EXCEPT !.x = x, !.y = y, !.fell = fell]
    BY DEF MoveTo, MobType
  <1> HIDE DEF fell
  <1>3. QED
    BY <1>1, <1>2 DEF MobType, Gives, Place, fell

(* A client that shows a spawned mob where it is follows it when it moves,
   unless the mob falls too far for a byte. *)
LEMMA MovedSight ==
    ASSUME NEW mob \in MobType, mob.spawned, NEW at, NEW x \in Int, NEW y \in Int,
           mob.fell \/ at = Place(mob)
    PROVE  LET moved == MoveTo(mob, x, y)
           IN  moved.fell \/ MoveShown(at, mob, x, y) = Place(moved)
  <1> SUFFICES ASSUME ~MoveTo(mob, x, y).fell
               PROVE  MoveShown(at, mob, x, y) = <<x, y>>
    BY MovedMob
  <1>1. /\ ~mob.fell /\ Wrap(x - mob.x) = x - mob.x /\ Wrap(y - mob.y) = y - mob.y
    BY MovedMob
  <1>2. at[1] = mob.x /\ at[2] = mob.y
    BY <1>1 DEF Place
  <1>3. mob.x \in Int /\ mob.y \in Int
    BY DEF MobType
  <1>4. at[1] + Wrap(x - mob.x) = x /\ at[2] + Wrap(y - mob.y) = y
    BY <1>1, <1>2, <1>3
  <1>5. QED
    BY <1>4 DEF MoveShown

(* A step of a mob ends on a column of the map. *)
LEMMA StepInColumns ==
    ASSUME NEW mob \in MobType, NEW dx \in {-1, 0, 1}
    PROVE  Step(mob, dx)[1] \in Int /\ Step(mob, dx)[2] \in Int
  <1>1. mob.x \in Int /\ mob.y \in Int
    BY DEF MobType
  <1>2. CASE mob.x + dx \in Columns /\ Ground[mob.x + dx] < mob.y
    <2>1. Step(mob, dx) = <<mob.x + dx, Ground[mob.x + dx] + 1>>
      BY <1>2 DEF Step
    <2>2. Ground[mob.x + dx] \in Int
      BY <1>2, GroundAssumption DEF Columns
    <2>3. QED
      BY <1>1, <2>1, <2>2
  <1>3. CASE ~(mob.x + dx \in Columns /\ Ground[mob.x + dx] < mob.y)
    BY <1>1, <1>3 DEF Step, Place
  <1>4. QED
    BY <1>2, <1>3

(* A mob is born alive, and has given nothing. *)
LEMMA NewMobGives ==
    ASSUME NEW kind \in Breeds
    PROVE  LET born == SetHealth(NewMob(kind, 0), DefaultHealth(kind))
           IN  born \in MobType /\ Gives(born)
  <1> DEFINE health == DefaultHealth(kind)
  <1>1. health \in {4, 10}
    BY DEF DefaultHealth
  <1> HIDE DEF health
  <1>2. SetHealth(NewMob(kind, 0), health) = [NewMob(kind, 0) EXCEPT !.health = health]
    BY <1>1 DEF SetHealth
  <1>3. NewMob(kind, 0) \in MobType
    BY DEF NewMob, MobType
  <1>4. [NewMob(kind, 0) EXCEPT !.health = health] \in MobType
    BY <1>1, <1>3 DEF MobType
  <1>5. Gives([NewMob(kind, 0) EXCEPT !.health = health])
    BY <1>1 DEF Gives, NewMob
  <1>6. QED
    BY <1>2, <1>4, <1>5 DEF health

(* A blow at a living mob makes it give what it drops if and only if it dies. *)
LEMMA HitMob ==
    ASSUME NEW mob \in MobType, Gives(mob), mob.health > 0, NEW hurt \in Nat \ {0}
    PROVE  LET left == mob.health - hurt
               drop == left <= 0 /\ DropsAtDeath(mob.kind)
               hit == [SetHealth(mob, left) EXCEPT !.beef = @ + IF drop THEN 1 ELSE 0]
           IN  /\ hit \in MobType /\ Gives(hit)
               /\ hit.spawned = mob.spawned /\ hit.fell = mob.fell
               /\ Place(hit) = Place(mob)
  <1> DEFINE left == mob.health - hurt
             drop == left <= 0 /\ DropsAtDeath(mob.kind)
             h == IF left < 0 THEN 0 ELSE left
             hit == [SetHealth(mob, left) EXCEPT !.beef = @ + IF drop THEN 1 ELSE 0]
  <1>1. mob.health \in 0 .. 30 /\ mob.beef = 0
    BY DEF MobType, Gives
  <1>2. h \in 0 .. 30 /\ left \in Int /\ left < 30 /\ (h = 0 <=> left <= 0)
    BY <1>1
  <1>3. SetHealth(mob, left) = [mob EXCEPT !.health = h]
    BY <1>2 DEF SetHealth
  <1>4. drop \in BOOLEAN /\ (drop <=> h = 0 /\ DropsAtDeath(mob.kind))
    BY <1>2 DEF DropsAtDeath
  <1> HIDE DEF left, drop, h
  <1> DEFINE beef == IF drop THEN 1 ELSE 0
  <1>a. [mob EXCEPT !.health = h].beef + beef = beef
    BY <1>1 DEF MobType
  <1>b. beef \in {0, 1} /\ (beef = 1 <=> drop)
    BY <1>4
  <1>c. hit = [[mob EXCEPT !.health = h] EXCEPT !.beef = beef]
    BY <1>3, <1>a
  <1> HIDE DEF beef
  <1>5. hit = [mob EXCEPT !.health = h, !.beef = beef]
    BY <1>c DEF MobType
  <1>6. hit \in MobType
    BY <1>2, <1>b, <1>5 DEF MobType
  <1>7. Gives(hit)
    BY <1>1, <1>2, <1>4, <1>b, <1>5 DEF MobType, Gives
  <1>8. hit.spawned = mob.spawned /\ hit.fell = mob.fell /\ Place(hit) = Place(mob)
    BY <1>5 DEF MobType, Place
  <1>9. QED
    BY <1>6, <1>7, <1>8 DEF left, drop


-----------------------------------------------------------------------------
(* All of them. *)

(* Nobody is born twice: a mob that spawns is a new one, which every client
   that is there is sent. *)
LEMMA SpawnedSound ==
    ASSUME IInv, NEW kind \in Breeds, NEW x \in Grass
    PROVE  LET s == Spawned(Animals, kind, x) IN Sound(s.herd, s.pets, s.keepers)
  <1> DEFINE n == Len(herd) + 1
             born == SetHealth(NewMob(kind, 0), DefaultHealth(kind))
             moved == MoveTo(born, x, Ground[x] + 1)
             live == [moved EXCEPT !.fell = FALSE, !.spawned = TRUE]
             h == Append(herd, live)
             p == With(pets, n, 0)
             ks == [u \in DOMAIN keepers |->
                       IF keepers[u].logged
                       THEN [keepers[u] EXCEPT !.sight = With(keepers[u].sight, n, Place(live))]
                       ELSE keepers[u]]
  <1>1. x \in Int /\ Ground[x] + 1 \in Int
    BY GroundAssumption
  <1>2. born \in MobType /\ Gives(born)
    BY NewMobGives
  <1> HIDE DEF born
  <1>3. moved \in MobType /\ Gives(moved)
    BY <1>1, <1>2, MovedMob
  <1> HIDE DEF moved
  <1>4. live \in MobType /\ Gives(live) /\ live.spawned
    BY <1>3 DEF MobType, Gives
  <1>5. herd \in Seq(MobType) /\ n \in Nat
    BY DEF IInv, Sound
  <1>6. /\ DOMAIN h = DOMAIN herd \cup {n} /\ n \notin DOMAIN herd
        /\ \A id \in DOMAIN herd : h[id] = herd[id]
        /\ h[n] = live /\ h \in Seq(MobType)
    BY <1>4, <1>5
  <1>7. Spawned(Animals, kind, x) = [herd |-> h, pets |-> p, keepers |-> ks]
    BY DEF Spawned, Animals, SpawnToAll, SendAll, moved, born
  <1> HIDE DEF live, h, p
  <1>9. /\ DOMAIN p = DOMAIN pets \cup {n}
        /\ DOMAIN pets \subseteq DOMAIN herd
        /\ \A id \in DOMAIN herd : herd[id].spawned <=> id \in DOMAIN pets
    BY DEF p, With, IInv, Sound, Driven
  <1>10. Driven(h, p)
    BY <1>4, <1>6, <1>9 DEF Driven
  <1>11. \A id \in DOMAIN h : Gives(h[id])
    BY <1>4, <1>6 DEF IInv, Sound
  <1>12. ASSUME NEW u \in DOMAIN keepers PROVE IsKeeper(ks[u]) /\ Shows(ks[u], h, p)
    <2>1. IsKeeper(keepers[u]) /\ Shows(keepers[u], herd, pets)
      BY DEF IInv, Sound
    <2>2. CASE ~keepers[u].logged
      BY <2>1, <2>2 DEF Shows
    <2>3. CASE keepers[u].logged
      <3> DEFINE sight == With(keepers[u].sight, n, Place(live))
      <3>1. ks[u] = [keepers[u] EXCEPT !.sight = sight]
        BY <2>3
      <3>2. PICK V : keepers[u] \in
                [logged : BOOLEAN, x : V, strayed : BOOLEAN, sight : V, pocket : V]
        BY <2>1 DEF IsKeeper
      <3> HIDE DEF sight
      <3>3. ks[u] \in [logged : BOOLEAN, x : V \cup {sight}, strayed : BOOLEAN,
                       sight : V \cup {sight}, pocket : V \cup {sight}]
        BY <3>1, <3>2
      <3>4. ks[u].sight = sight /\ ks[u].strayed = keepers[u].strayed
        BY <3>1, <3>2
      <3>5. /\ DOMAIN sight = DOMAIN keepers[u].sight \cup {n}
            /\ sight[n] = Place(live)
            /\ \A id \in DOMAIN keepers[u].sight : id # n => sight[id] = keepers[u].sight[id]
        BY <1>4 DEF sight, With
      <3>6. Shows(ks[u], h, p)
        BY <1>6, <1>9, <2>1, <2>3, <3>4, <3>5 DEF Shows
      <3>7. QED
        BY <3>3, <3>6 DEF IsKeeper
    <2>4. QED
      BY <2>2, <2>3
  <1>13. Sound(h, p, ks)
    BY <1>6, <1>10, <1>11, <1>12 DEF Sound
  <1>14. QED
    BY <1>7, <1>13

(* The turns of the mobs keep what is shown of each of them. *)
LEMMA TurnsSound ==
    ASSUME NEW s, Sound(s.herd, s.pets, s.keepers),
           NEW steps \in [DOMAIN s.pets -> {-1, 0, 1}]
    PROVE  LET t == Turns(s, steps) IN Sound(t.herd, t.pets, t.keepers)
  <1> DEFINE gone == {id \in DOMAIN s.pets : Leaves(s, id)}
             walking == {id \in DOMAIN s.pets \ gone : s.herd[id].health # 0}
             to == [id \in walking |-> Step(s.herd[id], steps[id])]
             h == [id \in DOMAIN s.herd |->
                      IF id \in gone THEN [s.herd[id] EXCEPT !.spawned = FALSE]
                      ELSE IF id \in walking THEN MoveTo(s.herd[id], to[id][1], to[id][2])
                      ELSE s.herd[id]]
             p == [id \in DOMAIN s.pets \ gone |->
                      IF id \in walking THEN 0 ELSE s.pets[id] + 1]
             Seen(sight) ==
                 [id \in DOMAIN sight \ gone |->
                     IF id \in walking
                     THEN MoveShown(sight[id], s.herd[id], to[id][1], to[id][2])
                     ELSE sight[id]]
             ks == [u \in DOMAIN s.keepers |->
                       IF s.keepers[u].logged
                       THEN [s.keepers[u] EXCEPT !.sight = Seen(s.keepers[u].sight)]
                       ELSE s.keepers[u]]
  <1>1. Turns(s, steps) = [herd |-> h, pets |-> p, keepers |-> ks]
    BY DEF Turns, SendAll
  <1>2. gone \subseteq DOMAIN s.pets /\ walking \subseteq DOMAIN s.pets \ gone
    OBVIOUS
  <1>3. \A id \in walking : to[id] = Step(s.herd[id], steps[id])
    OBVIOUS
  <1> HIDE DEF gone, walking, to
  <1>4. /\ s.herd \in Seq(MobType) /\ DOMAIN s.herd = 1 .. Len(s.herd)
        /\ \A id \in DOMAIN s.herd : s.herd[id] \in MobType /\ Gives(s.herd[id])
        /\ Driven(s.herd, s.pets)
    BY DEF Sound
  <1>5. ASSUME NEW id \in walking
        PROVE  /\ h[id] = MoveTo(s.herd[id], to[id][1], to[id][2])
               /\ to[id][1] \in Int /\ to[id][2] \in Int
               /\ s.herd[id] \in MobType /\ s.herd[id].spawned
    <2>1. id \in DOMAIN s.pets /\ id \in DOMAIN s.herd /\ s.herd[id].spawned /\ id \notin gone
      BY <1>2, <1>4 DEF Driven
    <2>2. to[id][1] \in Int /\ to[id][2] \in Int
      BY <1>3, <1>4, <2>1, StepInColumns
    <2>3. QED
      BY <1>4, <2>1, <2>2
  <1>6. ASSUME NEW id \in DOMAIN s.herd
        PROVE  /\ h[id] \in MobType /\ Gives(h[id])
               /\ h[id].spawned <=> s.herd[id].spawned /\ id \notin gone
    <2>1. CASE id \in gone
      <3>1. h[id] = [s.herd[id] EXCEPT !.spawned = FALSE]
        BY <2>1
      <3>2. QED
        BY <1>4, <2>1, <3>1 DEF MobType, Gives
    <2>2. CASE id \in walking
      <3>1. id \notin gone
        BY <1>2, <2>2
      <3>2. QED
        <4> DEFINE x == to[id][1]
                   y == to[id][2]
        <4>1. x \in Int /\ y \in Int /\ h[id] = MoveTo(s.herd[id], x, y)
          BY <1>5, <2>2
        <4> HIDE DEF x, y, h
        <4>2. s.herd[id] \in MobType /\ Gives(s.herd[id])
          BY <1>4
        <4>3. /\ MoveTo(s.herd[id], x, y) \in MobType
              /\ Gives(MoveTo(s.herd[id], x, y))
              /\ MoveTo(s.herd[id], x, y).spawned = s.herd[id].spawned
          BY <4>1, <4>2, MovedMob
        <4>4. s.herd[id].spawned
          BY <1>5, <2>2
        <4>5. QED
          BY <3>1, <4>1, <4>3, <4>4
    <2>3. CASE id \notin gone /\ id \notin walking
      BY <1>4, <2>3
    <2>4. QED
      BY <2>1, <2>2, <2>3
  <1>7. h \in Seq(MobType) /\ DOMAIN h = DOMAIN s.herd
    <2>1. DOMAIN h = 1 .. Len(s.herd) /\ Len(s.herd) \in Nat
      BY <1>4
    <2>2. h \in [1 .. Len(s.herd) -> MobType]
      BY <1>4, <1>6
    <2>3. QED
      BY <1>4, <2>1, <2>2, SeqDef
  <1>8. DOMAIN p = DOMAIN s.pets \ gone
    OBVIOUS
  <1>9. Driven(h, p)
    BY <1>2, <1>4, <1>6, <1>7, <1>8 DEF Driven
  <1>10. ASSUME NEW u \in DOMAIN s.keepers PROVE IsKeeper(ks[u]) /\ Shows(ks[u], h, p)
    <2>1. IsKeeper(s.keepers[u]) /\ Shows(s.keepers[u], s.herd, s.pets)
      BY DEF Sound
    <2>2. CASE ~s.keepers[u].logged
      BY <2>1, <2>2 DEF Shows
    <2>3. CASE s.keepers[u].logged
      <3> DEFINE old == s.keepers[u].sight
                 sight == Seen(old)
      <3>1. ks[u] = [s.keepers[u] EXCEPT !.sight = sight]
        BY <2>3
      <3>2. /\ DOMAIN sight = DOMAIN old \ gone
            /\ \A id \in DOMAIN sight :
                   sight[id] = IF id \in walking
                               THEN MoveShown(old[id], s.herd[id], to[id][1], to[id][2])
                               ELSE old[id]
        OBVIOUS
      <3>3. PICK V : s.keepers[u] \in
                [logged : BOOLEAN, x : V, strayed : BOOLEAN, sight : V, pocket : V]
        BY <2>1 DEF IsKeeper
      <3> HIDE DEF sight, ks
      <3>4. ks[u] \in [logged : BOOLEAN, x : V \cup {sight}, strayed : BOOLEAN,
                       sight : V \cup {sight}, pocket : V \cup {sight}]
        BY <3>1, <3>3
      <3>5. ks[u].sight = sight /\ ks[u].strayed = s.keepers[u].strayed
        BY <3>1, <3>3
      <3>6. ASSUME ~s.keepers[u].strayed, NEW id \in DOMAIN p
            PROVE  h[id].fell \/ sight[id] = Place(h[id])
        <4>1. /\ id \in DOMAIN s.pets /\ id \notin gone /\ id \in DOMAIN s.herd
              /\ id \in DOMAIN old /\ id \in DOMAIN sight
              /\ s.herd[id].fell \/ old[id] = Place(s.herd[id])
          BY <1>4, <1>8, <2>1, <2>3, <3>2, <3>6 DEF Driven, Shows
        <4>2. CASE id \in walking
          <5> DEFINE x == to[id][1]
                     y == to[id][2]
          <5>1. /\ x \in Int /\ y \in Int /\ h[id] = MoveTo(s.herd[id], x, y)
                /\ s.herd[id] \in MobType /\ s.herd[id].spawned
                /\ sight[id] = MoveShown(old[id], s.herd[id], x, y)
            BY <1>5, <3>2, <4>1, <4>2
          <5> HIDE DEF x, y, h, old
          <5>2. QED
            BY <4>1, <5>1, MovedSight
        <4>3. CASE id \notin walking
          BY <3>2, <4>1, <4>3
        <4>4. QED
          BY <4>2, <4>3
      <3>7. ~s.keepers[u].strayed => DOMAIN sight = DOMAIN p
        BY <1>8, <2>1, <2>3, <3>2 DEF Shows
      <3>8. Shows(ks[u], h, p)
        BY <3>5, <3>6, <3>7 DEF Shows
      <3>9. QED
        BY <3>4, <3>8 DEF IsKeeper
    <2>4. QED
      BY <2>2, <2>3
  <1>11. Sound(h, p, ks)
    BY <1>6, <1>7, <1>9, <1>10 DEF Sound
  <1>12. QED
    BY <1>1, <1>11


-----------------------------------------------------------------------------
(* The actions. *)

(* There are no mobs at first, and nobody who is logged in. *)
LEMMA InitIInv == MobsInit => IInv
  <1> SUFFICES ASSUME NEW pen \in Pens, MobsStart(pen) PROVE IInv
    BY DEF MobsInit
  <1>1. herd = << >> /\ pets = << >> /\ DOMAIN herd = {} /\ DOMAIN pets = {}
    BY DEF MobsStart
  <1>2. ASSUME NEW u \in DOMAIN keepers PROVE IsKeeper(keepers[u]) /\ ~keepers[u].logged
    <2> DEFINE pocket == [i \in PocketSlots |-> IF i = 1 THEN pen.hand[u] ELSE Nothing]
               k == [logged |-> FALSE, x |-> pen.x[u], strayed |-> FALSE, sight |-> << >>,
                     pocket |-> pocket]
    <2>1. keepers[u] = k
      BY DEF MobsStart, NewKeeper
    <2> HIDE DEF pocket
    <2>2. k \in [logged : BOOLEAN, x : {pen.x[u], << >>, pocket}, strayed : BOOLEAN,
                 sight : {pen.x[u], << >>, pocket}, pocket : {pen.x[u], << >>, pocket}]
      OBVIOUS
    <2>3. QED
      BY <2>1, <2>2 DEF IsKeeper
  <1>3. QED
    BY <1>1, <1>2 DEF IInv, Sound, Shows, Driven

(* timer200: at most one mob spawns, and then each has its turn. *)
LEMMA TimerIInv == IInv /\ Timer200 => IInv'
  <1> SUFFICES ASSUME IInv, NEW s \in Spawns(Animals),
                      NEW steps \in [DOMAIN s.pets -> {-1, 0, 1}],
                      Becomes(Turns(s, steps))
               PROVE  IInv'
    BY DEF Timer200
  <1>1. Sound(s.herd, s.pets, s.keepers)
    <2>1. CASE s = Animals
      BY <2>1 DEF IInv, Animals
    <2>2. CASE s # Animals
      <3>1. PICK kind \in Breeds, x \in Grass : s = Spawned(Animals, kind, x)
        BY <2>2 DEF Spawns
      <3>2. QED
        BY <3>1, SpawnedSound
    <2>3. QED
      BY <2>1, <2>2
  <1> DEFINE t == Turns(s, steps)
  <1>2. Sound(t.herd, t.pets, t.keepers)
    BY <1>1, TurnsSound
  <1>3. herd' = t.herd /\ pets' = t.pets /\ keepers' = t.keepers
    BY DEF Becomes
  <1> HIDE DEF t
  <1>4. QED
    BY <1>2, <1>3 DEF IInv

(* What one player does to itself concerns the others only if it is shown
   something else than they are. *)
LEMMA KeeperChanges ==
    ASSUME IInv, NEW u \in Keeper, NEW k, IsKeeper(k), Shows(k, herd, pets),
           keepers' = [keepers EXCEPT ![u] = k], UNCHANGED <<herd, pets>>
    PROVE  IInv'
  <1>1. DOMAIN keepers' = DOMAIN keepers
    OBVIOUS
  <1>2. \A v \in DOMAIN keepers : keepers'[v] = IF v = u THEN k ELSE keepers[v]
    OBVIOUS
  <1>3. ASSUME NEW v \in DOMAIN keepers'
        PROVE  IsKeeper(keepers'[v]) /\ Shows(keepers'[v], herd, pets)
    BY <1>1, <1>2 DEF IInv, Sound
  <1>4. QED
    BY <1>3 DEF IInv, Sound

(* The mobs of the world that are spawned are those the plugin drives. *)
LEMMA LogInIInv == ASSUME IInv, NEW u \in Keeper, LogIn(u) PROVE IInv'
  <1> DEFINE sight == [id \in MobsAtLogin(u) |-> Place(herd[id])]
             k == [keepers[u] EXCEPT !.logged = TRUE, !.sight = sight]
  <1>1. keepers' = [keepers EXCEPT ![u] = k] /\ UNCHANGED <<herd, pets>>
    BY DEF LogIn
  <1>2. IsKeeper(keepers[u])
    BY DEF IInv, Sound, Keeper
  <1>3. PICK V : keepers[u] \in
            [logged : BOOLEAN, x : V, strayed : BOOLEAN, sight : V, pocket : V]
    BY <1>2 DEF IsKeeper
  <1>4. /\ DOMAIN sight = MobsAtLogin(u)
        /\ \A id \in MobsAtLogin(u) : sight[id] = Place(herd[id])
    OBVIOUS
  <1>5. ~keepers[u].strayed => MobsAtLogin(u) = DOMAIN pets
    BY DEF MobsAtLogin, IInv, Sound, Driven
  <1> HIDE DEF sight
  <1>6. k.sight = sight /\ k.strayed = keepers[u].strayed
    BY <1>3
  <1>7. k \in [logged : BOOLEAN, x : V \cup {sight}, strayed : BOOLEAN,
               sight : V \cup {sight}, pocket : V \cup {sight}]
    BY <1>3
  <1> HIDE DEF k
  <1>8. Shows(k, herd, pets)
    BY <1>4, <1>5, <1>6 DEF Shows
  <1>9. IsKeeper(k)
    BY <1>7 DEF IsKeeper
  <1>10. QED
    BY <1>1, <1>8, <1>9, KeeperChanges

(* Who left is shown nothing. *)
LEMMA LogOutIInv == ASSUME IInv, NEW u \in Keeper, LogOut(u) PROVE IInv'
  <1> DEFINE k == [keepers[u] EXCEPT !.logged = FALSE, !.sight = << >>]
  <1>1. keepers' = [keepers EXCEPT ![u] = k] /\ UNCHANGED <<herd, pets>>
    BY DEF LogOut
  <1>2. IsKeeper(keepers[u])
    BY DEF IInv, Sound, Keeper
  <1>3. PICK V : keepers[u] \in
            [logged : BOOLEAN, x : V, strayed : BOOLEAN, sight : V, pocket : V]
    BY <1>2 DEF IsKeeper
  <1>4. k \in [logged : BOOLEAN, x : V \cup {<< >>}, strayed : BOOLEAN,
               sight : V \cup {<< >>}, pocket : V \cup {<< >>}] /\ ~k.logged
    BY <1>3
  <1> HIDE DEF k
  <1>5. IsKeeper(k) /\ Shows(k, herd, pets)
    BY <1>4 DEF IsKeeper, Shows
  <1>6. QED
    BY <1>1, <1>5, KeeperChanges

(* Who walks is shown what it was shown; who is in another world does not
   count. *)
LEMMA WanderIInv == ASSUME IInv, NEW u \in Keeper, Wander(u) PROVE IInv'
  <1>1. IsKeeper(keepers[u]) /\ Shows(keepers[u], herd, pets)
    BY DEF IInv, Sound, Keeper
  <1>2. PICK V : keepers[u] \in
            [logged : BOOLEAN, x : V, strayed : BOOLEAN, sight : V, pocket : V]
    BY <1>1 DEF IsKeeper
  <1>3. ASSUME NEW x, keepers' = [keepers EXCEPT ![u].x = x], UNCHANGED <<herd, pets>>
        PROVE  IInv'
    <2> DEFINE k == [keepers[u] EXCEPT !.x = x]
    <2>1. /\ k \in [logged : BOOLEAN, x : V \cup {x}, strayed : BOOLEAN,
                    sight : V \cup {x}, pocket : V \cup {x}]
          /\ k.logged = keepers[u].logged /\ k.strayed = keepers[u].strayed
          /\ k.sight = keepers[u].sight
      BY <1>2
    <2>2. keepers' = [keepers EXCEPT ![u] = k]
      BY <1>3
    <2> HIDE DEF k
    <2>3. IsKeeper(k) /\ Shows(k, herd, pets)
      BY <1>1, <2>1 DEF IsKeeper, Shows
    <2>4. QED
      BY <1>3, <2>2, <2>3, KeeperChanges
  <1>4. ASSUME keepers' = [keepers EXCEPT ![u].strayed = TRUE], UNCHANGED <<herd, pets>>
        PROVE  IInv'
    <2> DEFINE k == [keepers[u] EXCEPT !.strayed = TRUE]
    <2>1. /\ k \in [logged : BOOLEAN, x : V, strayed : BOOLEAN, sight : V, pocket : V]
          /\ k.strayed
      BY <1>2
    <2>2. keepers' = [keepers EXCEPT ![u] = k]
      BY <1>4
    <2> HIDE DEF k
    <2>3. IsKeeper(k) /\ Shows(k, herd, pets)
      BY <2>1 DEF IsKeeper, Shows
    <2>4. QED
      BY <1>4, <2>2, <2>3, KeeperChanges
  <1>5. QED
    BY <1>3, <1>4 DEF Wander

(* A mob that changes but for its place and whether it is spawned is shown as
   it was. *)
LEMMA MobChanges ==
    ASSUME IInv, NEW id \in DOMAIN herd, NEW mob \in MobType, Gives(mob),
           mob.spawned = herd[id].spawned, mob.fell = herd[id].fell,
           Place(mob) = Place(herd[id]),
           herd' = [herd EXCEPT ![id] = mob], UNCHANGED <<pets, keepers>>
    PROVE  IInv'
  <1>1. herd \in Seq(MobType) /\ herd' \in Seq(MobType) /\ DOMAIN herd' = DOMAIN herd
    BY DEF IInv, Sound
  <1>2. \A i \in DOMAIN herd : herd'[i] = IF i = id THEN mob ELSE herd[i]
    BY <1>1
  <1>3. ASSUME NEW i \in DOMAIN herd
        PROVE  /\ Gives(herd'[i]) /\ herd'[i].spawned = herd[i].spawned
               /\ herd'[i].fell = herd[i].fell /\ Place(herd'[i]) = Place(herd[i])
    BY <1>2 DEF IInv, Sound
  <1>4. Driven(herd', pets)
    BY <1>1, <1>3 DEF IInv, Sound, Driven
  <1>5. DOMAIN pets \subseteq DOMAIN herd
    BY DEF IInv, Sound, Driven
  <1>6. ASSUME NEW u \in DOMAIN keepers
        PROVE  IsKeeper(keepers[u]) /\ Shows(keepers[u], herd', pets)
    BY <1>3, <1>5 DEF IInv, Sound, Shows
  <1>7. QED
    BY <1>1, <1>3, <1>4, <1>6 DEF IInv, Sound

(* Every weapon hurts. *)
LEMMA DamageHurts == ASSUME NEW item PROVE DefaultDamage(item) \in Nat \ {0}
  BY DEF DefaultDamage

(* gotAttacked: whoever hits a mob that died before gets nothing. *)
LEMMA AttackIInv ==
    ASSUME IInv, NEW u \in Keeper, NEW id \in DOMAIN herd,
           Becomes(GotAttacked(Animals, u, id))
    PROVE  IInv'
  <1> DEFINE hurt == DefaultDamage(keepers[u].pocket[1])
             left == herd[id].health - hurt
             drop == left <= 0 /\ DropsAtDeath(herd[id].kind)
             hit == [SetHealth(herd[id], left) EXCEPT !.beef = @ + IF drop THEN 1 ELSE 0]
  <1>1. herd[id] \in MobType /\ Gives(herd[id])
    BY DEF IInv, Sound
  <1>2. CASE herd[id].health <= 0
    <2>1. UNCHANGED mobVars
      BY <1>2 DEF Becomes, GotAttacked, Animals, mobVars
    <2>2. QED
      BY <2>1 DEF IInv, mobVars
  <1>3. CASE ~(herd[id].health <= 0)
    <2>1. herd' = [herd EXCEPT ![id] = hit] /\ UNCHANGED <<pets, keepers>>
      BY <1>3 DEF Becomes, GotAttacked, Animals
    <2>2. hurt \in Nat \ {0} /\ herd[id].health > 0
      BY <1>1, <1>3, DamageHurts DEF MobType
    <2> HIDE DEF hurt
    <2>3. /\ hit \in MobType /\ Gives(hit) /\ hit.spawned = herd[id].spawned
          /\ hit.fell = herd[id].fell /\ Place(hit) = Place(herd[id])
      BY <1>1, <2>2, HitMob
    <2> HIDE DEF hit
    <2>4. QED
      BY <2>1, <2>3, MobChanges
  <1>4. QED
    BY <1>2, <1>3

(* interact: a sheep that is shorn gives no more. *)
LEMMA InteractIInv ==
    ASSUME IInv, NEW u \in Keeper, NEW id \in DOMAIN herd,
           Becomes(Interact(Animals, u, id))
    PROVE  IInv'
  <1> DEFINE pocket == keepers[u].pocket
             hand == pocket[1]
             wool == /\ herd[id].health > 0 /\ herd[id].kind = "sheep"
                     /\ hand.kind = "shears" /\ ~herd[id].shorn
             milk == /\ herd[id].health > 0 /\ ~wool
                     /\ herd[id].kind = "cow" /\ hand.kind = "bucket"
  <1>1. herd[id] \in MobType /\ Gives(herd[id])
    BY DEF IInv, Sound
  <1>2. CASE wool
    <2> DEFINE mob == [herd[id] EXCEPT !.wool = 1, !.shorn = TRUE]
    <2>1. herd[id].wool + 1 = 1 /\ ~(herd[id].health <= 0)
      BY <1>1, <1>2 DEF MobType, Gives
    <2>2. /\ herd' = [herd EXCEPT ![id].wool = @ + 1, ![id].shorn = TRUE]
          /\ UNCHANGED <<pets, keepers>>
      BY <1>2, <2>1 DEF Becomes, Interact, Animals
    <2>3. [[herd EXCEPT ![id].wool = @ + 1] EXCEPT ![id].shorn = TRUE]
              = [herd EXCEPT ![id] = mob]
      BY <2>1
    <2>4. herd' = [herd EXCEPT ![id] = mob]
      BY <2>2, <2>3
    <2>5. /\ mob \in MobType /\ Gives(mob) /\ mob.spawned = herd[id].spawned
          /\ mob.fell = herd[id].fell /\ Place(mob) = Place(herd[id])
      BY <1>1 DEF MobType, Gives, Place
    <2> HIDE DEF mob
    <2>6. QED
      BY <2>2, <2>4, <2>5, MobChanges
  <1>3. CASE milk
    <2>1. ~(herd[id].health <= 0)
      BY <1>1, <1>3 DEF MobType
    <2>2. PICK bag : /\ keepers' = [keepers EXCEPT ![u].pocket = bag]
                     /\ UNCHANGED <<herd, pets>>
      BY <1>3, <2>1 DEF Becomes, Interact, Animals
    <2> DEFINE k == [keepers[u] EXCEPT !.pocket = bag]
    <2>3. IsKeeper(keepers[u]) /\ Shows(keepers[u], herd, pets)
      BY DEF IInv, Sound, Keeper
    <2>4. PICK V : keepers[u] \in
              [logged : BOOLEAN, x : V, strayed : BOOLEAN, sight : V, pocket : V]
      BY <2>3 DEF IsKeeper
    <2>5. /\ k \in [logged : BOOLEAN, x : V \cup {bag}, strayed : BOOLEAN,
                    sight : V \cup {bag}, pocket : V \cup {bag}]
          /\ k.logged = keepers[u].logged /\ k.strayed = keepers[u].strayed
          /\ k.sight = keepers[u].sight
      BY <2>4
    <2>6. keepers' = [keepers EXCEPT ![u] = k]
      BY <2>2
    <2> HIDE DEF k
    <2>7. IsKeeper(k) /\ Shows(k, herd, pets)
      BY <2>3, <2>5 DEF IsKeeper, Shows
    <2>8. QED
      BY <2>2, <2>6, <2>7, KeeperChanges
  <1>4. CASE ~wool /\ ~milk
    <2>1. UNCHANGED mobVars
      BY <1>1, <1>4 DEF Becomes, Interact, Animals, mobVars, MobType
    <2>2. QED
      BY <2>1 DEF IInv, mobVars
  <1>5. QED
    BY <1>2, <1>3, <1>4

(* No step shows a client a mob that is not, or makes a mob give twice. *)
LEMMA NextIInv == IInv /\ [MobsNext]_mobVars => IInv'
  <1> SUFFICES ASSUME IInv, [MobsNext]_mobVars PROVE IInv'
    OBVIOUS
  <1>1. CASE Timer200
    BY <1>1, TimerIInv
  <1>2. ASSUME NEW u \in Keeper, LogIn(u) \/ LogOut(u) \/ Wander(u) \/ UseEntity(u)
        PROVE  IInv'
    <2>1. CASE LogIn(u)
      BY <2>1, LogInIInv
    <2>2. CASE LogOut(u)
      BY <2>2, LogOutIInv
    <2>3. CASE Wander(u)
      BY <2>3, WanderIInv
    <2>4. CASE UseEntity(u)
      BY <2>4, AttackIInv, InteractIInv DEF UseEntity
    <2>5. QED
      BY <1>2, <2>1, <2>2, <2>3, <2>4
  <1>3. CASE UNCHANGED mobVars
    BY <1>3 DEF IInv, mobVars
  <1>4. QED
    BY <1>1, <1>2, <1>3 DEF MobsNext

-----------------------------------------------------------------------------
(* The theorems. *)

(* The invariant holds all the time. *)
THEOREM MobsInvariance == MobsSpec => []IInv
  <1>1. QED
    BY InitIInv, NextIInv, PTL DEF MobsSpec

(* A mob gives what it drops when it dies, once, and a sheep its wool once
   (gotAttacked, drop and interact of passiveMobs), for any number of players,
   kinds of mobs and any ground. *)
THEOREM DropsGivenOnce == MobsSpec => []DropsOnce
  <1>1. IInv => DropsOnce
    BY DEF IInv, Sound, Gives, DropsOnce
  <1>2. QED
    BY <1>1, MobsInvariance, PTL

(* Who is logged in and in the world of the mobs is shown the mobs the plugin
   drives, where they are (timer200, sendLoginInfo, moveTo). *)
THEOREM DrivenAreSeen == MobsSpec => []MobsSeen
  <1>1. IInv => MobsSeen
    BY DEF IInv, Sound, Shows, MobsSeen, Keeper
  <1>2. QED
    BY <1>1, MobsInvariance, PTL
=============================================================================
