----------------------------- MODULE ChestsProofs -----------------------------
(* Theorems about Chests, for any number of players and any finite set of
   places: joined chests point at each other, everybody sees what is in them,
   and no item is lost or made, whatever is placed, broken, opened, clicked on
   and loaded. The lemmas follow the operators of Chests: what finding a
   partner, breaking, placing and clicking do to a room, then the invariant. *)
EXTENDS Chests, NumberFacts

-----------------------------------------------------------------------------
(* Types, and what finding data and joining do to them.                    *)

Item == {NoItem} \cup [kind : Kinds, n : Nat \ {0}]
Half == [conn : {<< >>} \cup Spots, gone : BOOLEAN, top : BOOLEAN,
         checked : BOOLEAN, item : Item, listed : BOOLEAN]
Rooms == [block : SUBSET Spots, data : [Spots -> Half],
          window : [Visitor -> [p : {<< >>} \cup Spots, large : BOOLEAN]],
          hand : [Visitor -> Item], pack : [Visitor -> Item],
          ground : Nat, down : BOOLEAN, tangled : BOOLEAN, altered : BOOLEAN]

(* A place has four neighbours, is none of them, and is a neighbour of
   each.                                                                   *)
LEMMA BesideFacts ==
    ASSUME NEW p \in Spots
    PROVE  /\ DOMAIN Beside(p) = 1 .. 4
           /\ Range(Beside(p)) = {<<p[1] - 1, p[2]>>, <<p[1] + 1, p[2]>>,
                                  <<p[1], p[2] - 1>>, <<p[1], p[2] + 1>>}
           /\ p \notin Range(Beside(p))
           /\ p # << >>
           /\ \A q \in Spots : q \in Range(Beside(p)) => p \in Range(Beside(q))
  <1> DEFINE N(q) == {<<q[1] - 1, q[2]>>, <<q[1] + 1, q[2]>>,
                      <<q[1], q[2] - 1>>, <<q[1], q[2] + 1>>}
  <1>1. ASSUME NEW q \in Spots
        PROVE  DOMAIN Beside(q) = 1 .. 4 /\ Range(Beside(q)) = N(q)
    BY DEF Beside, Range
  <1>2. \A q \in Spots : q = <<q[1], q[2]>> /\ q[1] \in Int /\ q[2] \in Int
    BY SpotsAssumption
  <1>3. p \notin N(p) /\ \A q \in Spots : q \in N(p) => p \in N(q)
    BY <1>2
  <1>4. p # << >>
    BY <1>2
  <1>5. QED
    BY <1>1, <1>3, <1>4

(* findConnectedChest finds a chest, and finds it next door.               *)
LEMMA NearestFacts ==
    ASSUME NEW s \in Rooms, NEW p \in Spots, Joinable(s, p) # {}
    PROVE  Nearest(s, p) \in s.block \cap Range(Beside(p))
  <1>1. Joinable(s, p) \subseteq 1 .. 4
    BY BesideFacts DEF Joinable
  <1>2. Joinable(s, p) \in SUBSET Nat
    BY <1>1
  <1>3. \E i \in Joinable(s, p) : \A j \in Joinable(s, p) : i <= j
    BY <1>2, LeastNatural
  <1>4. Min(Joinable(s, p)) \in Joinable(s, p)
    BY <1>3 DEF Min
  <1>5. QED
    BY <1>4 DEF Joinable, Nearest, Range

(* A chest next door is found.                                             *)
LEMMA Neighbour ==
    ASSUME NEW s \in Rooms, NEW p \in Spots, NEW q \in s.block, q \in Range(Beside(p))
    PROVE  Joinable(s, p) # {}
  BY DEF Joinable, Range

(* No item, no data and new data are of the types.                        *)
LEMMA NoHalf == NoItem \in Item /\ NoData \in Half /\ NewData \in Half
  BY DEF NoData, NewData, Item, Half

\* Only the data and tangled may differ.
Frame(s, t) ==
    /\ t.block = s.block /\ t.window = s.window /\ t.hand = s.hand
    /\ t.pack = s.pack /\ t.ground = s.ground /\ t.down = s.down
    /\ t.altered = s.altered

(* What is framed twice is framed.                                           *)
LEMMA FrameChain == \A s, t, u : Frame(s, t) /\ Frame(t, u) => Frame(s, u)
  BY DEF Frame

(* Known adds data where there is none, and changes nothing else.          *)
LEMMA KnownEffect ==
    ASSUME NEW s \in Rooms, NEW p \in Spots
    PROVE  /\ Known(s, p) \in Rooms /\ Frame(s, Known(s, p))
           /\ Known(s, p).tangled = s.tangled
           /\ Known(s, p).data =
                [s.data EXCEPT ![p] = IF s.data[p].listed THEN @ ELSE NewData]
  BY NoHalf DEF Known, HasData, Rooms, Frame

Linked(h, q, top) ==
    [h EXCEPT !.conn = q, !.gone = FALSE, !.top = top, !.checked = TRUE]

(* The other half is a half.                                              *)
LEMMA Opposite == \A b \in BOOLEAN : (~b) \in BOOLEAN
  OBVIOUS

(* connect changes one chestData, unless it is connected already.          *)
LEMMA ConnectEffect ==
    ASSUME NEW s \in Rooms, NEW p \in Spots, NEW q \in Spots, NEW top \in BOOLEAN
    PROVE  /\ Connect(s, p, q, top) \in Rooms /\ Frame(s, Connect(s, p, q, top))
           /\ Connect(s, p, q, top).tangled = s.tangled
           /\ Connect(s, p, q, top).data =
                [s.data EXCEPT ![p] = IF Large(s, p) THEN @ ELSE Linked(@, q, top)]
  <1>1. Linked(s.data[p], q, top) \in Half
    <2>1. s.data[p] \in Half
      BY DEF Rooms
    <2>2. \A h \in Half : Linked(h, q, top) \in Half
      BY DEF Linked, Half
    <2>3. QED
      BY <2>1, <2>2
  <1>2. QED
    BY <1>1 DEF Connect, Rooms, Frame, Linked

(* Joining changes the two chestData, each of them if it is alone.         *)
LEMMA JoinedEffect ==
    ASSUME NEW s \in Rooms, NEW p \in Spots, NEW q \in Spots, p # q,
           NEW top \in BOOLEAN
    PROVE  LET t == Joined(s, p, q, top)
           IN  /\ t \in Rooms /\ Frame(s, t) /\ t.tangled = s.tangled
               /\ t.data = [x \in Spots |->
                     IF x = p /\ ~Large(s, p) THEN Linked(s.data[p], q, ~top)
                     ELSE IF x = q /\ ~Large(s, q) THEN Linked(s.data[q], p, top)
                     ELSE s.data[x]]
  <1> DEFINE s1 == Connect(s, q, p, top)
             low == ~top
             t == Connect(s1, p, q, low)
  <1>1. /\ s1 \in Rooms /\ Frame(s, s1) /\ s1.tangled = s.tangled
        /\ s1.data = [s.data EXCEPT ![q] = IF Large(s, q) THEN @ ELSE Linked(@, p, top)]
    BY ConnectEffect
  <1>2. /\ t \in Rooms /\ Frame(s1, t) /\ t.tangled = s1.tangled
        /\ t.data = [s1.data EXCEPT ![p] = IF Large(s1, p) THEN @ ELSE Linked(@, q, low)]
    <2>1. low \in BOOLEAN
      BY Opposite
    <2> HIDE DEF s1, low
    <2>2. QED
      BY <1>1, <2>1, ConnectEffect
  <1>3. s.data \in [Spots -> Half]
    BY DEF Rooms
  <1> HIDE DEF s1, low, t
  <1>4. s1.data[p] = s.data[p] /\ (Large(s1, p) <=> Large(s, p))
    BY <1>1, <1>3 DEF Large
  <1>5. t.data = [x \in Spots |->
                     IF x = p /\ ~Large(s, p) THEN Linked(s.data[p], q, low)
                     ELSE IF x = q /\ ~Large(s, q) THEN Linked(s.data[q], p, top)
                     ELSE s.data[x]]
    BY <1>1, <1>2, <1>3, <1>4
  <1>6. QED
    BY <1>1, <1>2, <1>5 DEF Frame, Joined, s1, low, t

-----------------------------------------------------------------------------
(* Items.                                                                  *)

(* The sums of Items are those of Chests: both are of the library.         *)
LEMMA OtherSum == \A f : C!SumFunction(f) = SumFunction(f)
  BY DEF SumFunction, SumFunctionOnSet, FoldFunctionOnSet, MapThenFoldSet,
         C!SumFunction, C!SumFunctionOnSet, C!FoldFunctionOnSet, C!MapThenFoldSet

(* A count below 1 is nothing, another is a stack.                         *)
LEMMA OfItem ==
    ASSUME NEW k, NEW n \in Int, n < 1 \/ k \in Kinds
    PROVE  /\ C!Of(k, n) \in Item
           /\ n >= 0 => C!Of(k, n).n = n
  <1>1. NoItem \in Item /\ NoItem.n = 0
    BY DEF Item, NoItem, C!Empty
  <1>2. CASE n < 1
    BY <1>1, <1>2 DEF C!Of, NoItem
  <1>3. CASE ~ n < 1
    BY <1>3 DEF C!Of, Item
  <1>4. QED
    BY <1>2, <1>3

(* What is not nothing has a kind and a number.                           *)
LEMMA ItemFacts ==
    /\ NoItem \in Item /\ NoItem.n = 0 /\ C!Empty = NoItem
    /\ NoItem.kind \notin Kinds
    /\ \A i \in Item : /\ i.n \in Nat
                       /\ i # NoItem => i.kind \in Kinds /\ i.n >= 1
  <1>1. NoItem = [kind |-> "none", n |-> 0] /\ NoItem = C!Empty
    BY DEF NoItem, C!Empty
  <1>2. NoItem.n = 0 /\ NoItem.kind \notin Kinds
    BY <1>1 DEF Kinds
  <1>3. \A i \in Item : i = NoItem \/ (i.kind \in Kinds /\ i.n \in Nat \ {0})
    BY DEF Item
  <1>4. QED
    BY <1>1, <1>2, <1>3 DEF Item

(* A click moves items between the slot and the hand and keeps their
   number.                                                                 *)
LEMMA MovedItems ==
    ASSUME NEW slot \in Item, NEW held \in Item, NEW button
    PROVE  LET m == C!Moved(slot, held, button)
           IN  /\ m.slot \in Item /\ m.hand \in Item
               /\ m.slot.n + m.hand.n = slot.n + held.n
  <1> DEFINE m == C!Moved(slot, held, button)
  <1>1. /\ slot.n \in Nat /\ held.n \in Nat
        /\ slot # NoItem => slot.kind \in Kinds /\ slot.n >= 1
        /\ held # NoItem => held.kind \in Kinds /\ held.n >= 1
        /\ C!Empty = NoItem /\ NoItem.n = 0
    BY ItemFacts
  <1>2. PairStack \in Nat
    BY PurseAssumption
  <1>a. ASSUME NEW k, NEW n \in Nat, n < 1 \/ k \in Kinds,
               NEW i, i = C!Of(k, n)
        PROVE  i \in Item /\ i.n = n
    BY <1>a, OfItem
  <1>3. CASE C!Merges(slot, held)
    <2> DEFINE n == C!Added(slot, held, button)
    <2>1. held # NoItem /\ (slot = NoItem \/ slot.n < PairStack)
      BY <1>1, <1>3 DEF C!Merges
    <2>2. n \in Int /\ n >= 0 /\ n <= held.n
      BY <1>1, <1>2, <2>1 DEF C!Added, C!Room
    <2> HIDE DEF n
    <2>3. /\ m.slot = C!Of(held.kind, slot.n + n)
          /\ m.hand = C!Of(held.kind, held.n - n)
      BY <1>3 DEF C!Moved, n
    <2>4. slot.n + n \in Nat /\ held.n - n \in Nat
      BY <1>1, <2>2
    <2> HIDE DEF m
    <2>5. m.slot \in Item /\ m.slot.n = slot.n + n
      BY <1>1, <2>1, <2>3, <2>4, <1>a
    <2>6. m.hand \in Item /\ m.hand.n = held.n - n
      BY <1>1, <2>1, <2>3, <2>4, <1>a
    <2>7. QED
      BY <1>1, <2>2, <2>5, <2>6 DEF m
  <1>4. CASE ~C!Merges(slot, held) /\ held = C!Empty
    <2> DEFINE n == C!Taken(slot, button)
    <2>1. n \in Nat /\ n <= slot.n
      BY <1>1 DEF C!Taken
    <2> HIDE DEF n
    <2>2. /\ m.slot = C!Of(slot.kind, slot.n - n)
          /\ m.hand = C!Of(slot.kind, n)
      BY <1>4 DEF C!Moved, n
    <2>3. slot.n - n \in Nat /\ (slot = NoItem => n = 0)
      BY <1>1, <2>1
    <2> HIDE DEF m
    <2>4. m.slot \in Item /\ m.slot.n = slot.n - n
      <3>1. slot.n - n < 1 \/ slot.kind \in Kinds
        BY <1>1, <2>3
      <3>2. QED
        BY <1>1, <2>2, <2>3, <3>1, <1>a
    <2>5. m.hand \in Item /\ m.hand.n = n
      <3>1. n < 1 \/ slot.kind \in Kinds
        BY <1>1, <2>3
      <3>2. QED
        BY <1>1, <2>1, <2>2, <3>1, <1>a
    <2>6. QED
      BY <1>1, <1>4, <2>1, <2>4, <2>5 DEF m
  <1>5. CASE ~C!Merges(slot, held) /\ held # C!Empty
    <2>1. m.slot = held /\ m.hand = slot
      BY <1>5 DEF C!Moved
    <2>2. QED
      BY <1>1, <2>1
  <1>6. QED
    BY <1>3, <1>4, <1>5

PileOn(item, base, s) == IF s = {} THEN base ELSE C!Pile(item, base, 1)

(* A fold over one slot is one step.                                       *)
LEMMA PileOnce ==
    ASSUME NEW item, NEW base
    PROVE  C!FoldLeft(LAMBDA a, s : C!Pile(item, a, s), base, <<1>>)
              = C!Pile(item, base, 1)
  <1> DEFINE step(s, g) == IF s = {} THEN base
                           ELSE LET x == C!Max(s) IN C!Pile(item, g[s \ {x}], <<1>>[x])
             g == [s \in SUBSET {1} |-> PileOn(item, base, s)]
             f == CHOOSE h : h = [s \in SUBSET {1} |-> step(s, h)]
  <1>1. C!Max({1}) = 1
    BY DEF C!Max
  <1>2. ASSUME NEW h, h = [s \in SUBSET {1} |-> step(s, h)]
        PROVE  h[{1}] = C!Pile(item, base, 1)
    <2>1. h[{}] = base
      BY <1>2
    <2>2. h[{1}] = C!Pile(item, h[{1} \ {1}], 1)
      <3>1. h[{1}] = step({1}, h)
        BY <1>2
      <3>2. <<1>>[1] = 1 /\ {1} # {}
        OBVIOUS
      <3>3. QED
        BY <1>1, <3>1, <3>2
    <2>3. {1} \ {1} = {}
      OBVIOUS
    <2>4. QED
      BY <2>1, <2>2, <2>3
  <1>3. g = [s \in SUBSET {1} |-> step(s, g)]
    <2>1. ASSUME NEW s \in SUBSET {1} PROVE PileOn(item, base, s) = step(s, g)
      <3>1. CASE s = {}
        BY <3>1 DEF PileOn
      <3>2. CASE s = {1}
        <4>1. g[{1} \ {1}] = base
          BY DEF PileOn
        <4>2. QED
          BY <1>1, <3>2, <4>1 DEF PileOn
      <3>3. QED
        BY <3>1, <3>2
    <2>2. QED
      BY <2>1
  <1>4. f = [s \in SUBSET {1} |-> step(s, f)]
    BY <1>3
  <1>5. C!FoldLeft(LAMBDA a, s : C!Pile(item, a, s), base, <<1>>) = f[{1}]
    <2>1. DOMAIN <<1>> = {1}
      OBVIOUS
    <2>2. QED
      BY <2>1 DEF C!FoldLeft, C!MapThenFoldSet
  <1>6. QED
    BY <1>2, <1>4, <1>5

(* If isSpace finds room in one slot, it is empty or of the kind and not
   too full.                                                               *)
LEMMA RoomForIt ==
    ASSUME NEW pack \in Item, NEW item \in Item, item # NoItem,
           C!IsSpace([x \in {1} |-> pack], {1}, item)
    PROVE  pack = NoItem \/ (pack.kind = item.kind /\ C!Room(pack) >= item.n)
  <1> DEFINE own == [x \in {1} |-> pack]
             rows == {r \in {1} : /\ OneKind(own[r].kind, item.kind)
                                  /\ C!Room(own[r]) > 0}
             f == [s \in rows |-> C!Room(own[s])]
  <1>1. /\ pack.n \in Nat /\ item.n \in Nat /\ item.n >= 1 /\ C!Empty = NoItem
        /\ C!Room(pack) \in Int /\ PairStack \in Nat
    BY ItemFacts, PurseAssumption DEF C!Room
  <1>2. own[1] = C!Empty \/ C!SumFunction(f) >= item.n
    BY DEF C!IsSpace
  <1>3. own[1] = pack
    OBVIOUS
  <1>4. CASE pack # NoItem
    <2>1. SumFunction(f) >= item.n
      BY <1>1, <1>2, <1>3, <1>4, OtherSum
    <2>2. DOMAIN f = rows
      OBVIOUS
    <2>3. rows # {}
      <3>1. rows = {} => SumFunction(f) = 0
        <4> HIDE DEF rows, f
        <4>1. QED
          BY <2>2, SumOfNone
      <3>2. QED
        BY <1>1, <2>1, <3>1
    <2>4. rows = {1} /\ pack.kind = item.kind
      BY <1>3, <2>3 DEF OneKind
    <2>5. f[1] = C!Room(pack)
      BY <1>3, <2>4
    <2>6. SumFunction(f) = f[1]
      <3> HIDE DEF f, rows
      <3>1. QED
        BY <1>1, <2>2, <2>4, <2>5, SumOfOne
    <2>7. QED
      BY <2>1, <2>4, <2>5, <2>6
  <1>5. QED
    BY <1>4

(* addItems puts all of a stack into a slot that isSpace found room in.    *)
LEMMA ShiftedItems ==
    ASSUME NEW pack \in Item, NEW item \in Item, item # NoItem,
           C!IsSpace([x \in {1} |-> pack], {1}, item)
    PROVE  LET a == C!AddItems([x \in {1} |-> pack], <<1>>, item)[1]
           IN  a \in Item /\ a.n = pack.n + item.n
  <1> DEFINE own == [x \in {1} |-> pack]
             base == [inv |-> own, left |-> item.n, done |-> FALSE]
             acc == C!Pile(item, base, 1)
             free == {i \in DOMAIN <<1>> : acc.inv[<<1>>[i]] = C!Empty}
             added == IF acc.left = 0 \/ free = {} THEN acc.inv
                      ELSE [acc.inv EXCEPT ![<<1>>[C!Min(free)]] = C!Of(item.kind, acc.left)]
  <1>1. /\ pack.n \in Nat /\ item.n \in Nat /\ item.n >= 1 /\ C!Empty = NoItem
        /\ C!Room(pack) \in Int /\ PairStack \in Nat /\ item.kind \in Kinds
        /\ NoItem.kind \notin Kinds /\ NoItem.n = 0
    BY ItemFacts, PurseAssumption DEF C!Room
  <1>2. C!AddItems(own, <<1>>, item) = added
    BY PileOnce DEF C!AddItems
  <1>3. /\ base.inv = own /\ base.left = item.n /\ ~base.done /\ own[1] = pack
        /\ DOMAIN <<1>> = {1} /\ <<1>>[1] = 1
    OBVIOUS
  <1>4. CASE pack = NoItem
    <2>1. acc = base
      BY <1>1, <1>3, <1>4 DEF C!Pile
    <2>2. free = {1} /\ acc.left # 0 /\ acc.inv = own
      BY <1>1, <1>3, <1>4, <2>1
    <2>3. C!Min({1}) = 1
      BY DEF C!Min
    <2>4. added = [own EXCEPT ![1] = C!Of(item.kind, item.n)]
      BY <1>3, <2>1, <2>2, <2>3
    <2>5. added[1] = C!Of(item.kind, item.n)
      BY <2>4
    <2> HIDE DEF added
    <2>6. added[1] \in Item /\ added[1].n = item.n
      BY <1>1, <2>5, OfItem
    <2>7. QED
      BY <1>1, <1>2, <1>4, <2>6
  <1>5. CASE pack # NoItem
    <2>1. pack.kind = item.kind /\ C!Room(pack) >= item.n
      BY <1>5, RoomForIt
    <2> DEFINE new == [pack EXCEPT !.n = @ + item.n]
    <2>2. /\ acc.inv = [own EXCEPT ![1].n = @ + item.n]
      BY <1>1, <1>3, <2>1 DEF C!Pile
    <2>3. acc.inv[1] = new
      BY <1>3, <2>2
    <2>4. pack \in [kind : Kinds, n : Nat \ {0}]
      BY <1>5 DEF Item
    <2>5. new \in Item /\ new.n = pack.n + item.n /\ new # NoItem
      BY <1>1, <2>4 DEF Item
    <2> HIDE DEF new, acc
    <2>6. free = {}
      BY <1>1, <1>3, <2>3, <2>5
    <2>7. added[1] = new
      BY <2>3, <2>6
    <2>8. QED
      BY <1>2, <2>5, <2>7
  <1>6. QED
    BY <1>4, <1>5

-----------------------------------------------------------------------------
(* Tested. A place without data has NoData.                                *)

Fresh(s, p) == IF s.data[p].listed THEN s.data[p] ELSE NewData
Cleared(s) == \A p \in Spots : ~s.data[p].listed => s.data[p] = NoData
Alone(s, p) == Large(s, p) \/ s.data[p].checked \/ Joinable(s, p) = {}
Paired(s, p, q, top) ==
    [x \in Spots |->
        IF x = p THEN Linked(Fresh(s, p), q, ~top)
        ELSE IF x = q /\ ~Large(s, q) THEN Linked(Fresh(s, q), p, top)
        ELSE s.data[x]]

(* What the quick connection test does: it marks the chest, or joins it to
   the nearest.                                                            *)
LEMMA TestedEffect ==
    ASSUME NEW s \in Rooms, NEW p \in Spots, NEW breaking \in BOOLEAN, Cleared(s)
    PROVE  LET t == Tested(s, p, breaking)
               q == Nearest(s, p)
           IN  /\ t \in Rooms /\ Frame(s, t)
               /\ Alone(s, p) =>
                      /\ t.tangled = s.tangled
                      /\ t.data = [s.data EXCEPT ![p] =
                                      [Fresh(s, p) EXCEPT !.checked = TRUE]]
               /\ ~Alone(s, p) =>
                      /\ t.tangled = (s.tangled \/ Large(s, q))
                      /\ \E top \in BOOLEAN : t.data = Paired(s, p, q, top)
  <1> DEFINE s1 == Known(s, p)
             q == Nearest(s1, p)
             s2 == Known(s1, q)
             alone == Large(s1, p) \/ s1.data[p].checked \/ Joinable(s1, p) = {}
             top == breaking \/ Before(q, p)
             s4 == [s2 EXCEPT !.tangled = @ \/ Large(s2, q)]
             s3 == IF alone THEN s1 ELSE Joined(s4, p, q, top)
             t == [s3 EXCEPT !.data[p].checked = TRUE]
  <1>0. t = Tested(s, p, breaking)
    BY DEF Tested
  <1>1. /\ s1 \in Rooms /\ Frame(s, s1) /\ s1.tangled = s.tangled
        /\ s1.data = [s.data EXCEPT ![p] = Fresh(s, p)]
    BY KnownEffect DEF Fresh
  <1>2. s.data \in [Spots -> Half] /\ s1.data \in [Spots -> Half] /\ s.tangled \in BOOLEAN
    BY <1>1 DEF Rooms
  <1>3. q = Nearest(s, p) /\ Joinable(s1, p) = Joinable(s, p)
    BY <1>1 DEF Frame, Nearest, Joinable
  <1>4. /\ Fresh(s, p).conn = s.data[p].conn
        /\ Fresh(s, p).checked = s.data[p].checked
    BY DEF Cleared, Fresh, NoData, NewData
  <1>5. alone <=> Alone(s, p)
    BY <1>1, <1>2, <1>3, <1>4 DEF Large, Alone
  <1>6. Fresh(s, p) \in Half /\ Fresh(s, p).listed
    BY <1>2, NoHalf DEF Fresh, NewData
  <1>7. CASE Alone(s, p)
    <2>1. s3 = s1
      BY <1>5, <1>7
    <2> HIDE DEF s1, q, alone, s3
    <2>2. /\ t.tangled = s1.tangled /\ Frame(s1, t) /\ t \in Rooms
          /\ t.data = [s1.data EXCEPT ![p].checked = TRUE]
      <3>1. [s1.data[p] EXCEPT !.checked = TRUE] \in Half
        <4>1. \A h \in Half : [h EXCEPT !.checked = TRUE] \in Half
          BY DEF Half
        <4>2. QED
          BY <4>1, <1>2
      <3>2. QED
        BY <1>1, <2>1, <3>1 DEF Rooms, Frame
    <2>3. t.data = [s.data EXCEPT ![p] = [Fresh(s, p) EXCEPT !.checked = TRUE]]
      BY <1>1, <1>2, <2>2
    <2>4. QED
      BY <1>0, <1>1, <1>7, <2>2, <2>3 DEF Frame
  <1>8. CASE ~Alone(s, p)
    <2>1. q \in s.block /\ q \in Spots /\ q # p
      <3>1. Joinable(s, p) # {} /\ s.block \subseteq Spots
        BY <1>8 DEF Alone, Rooms
      <3> HIDE DEF q
      <3>2. QED
        BY <1>3, <3>1, NearestFacts, BesideFacts
    <2>2. top \in BOOLEAN
      BY DEF Before
    <2>3. /\ s2 \in Rooms /\ Frame(s1, s2) /\ s2.tangled = s1.tangled
          /\ s2.data = [s1.data EXCEPT ![q] = IF s1.data[q].listed THEN @ ELSE NewData]
      <3> HIDE DEF s1, q
      <3>1. QED
        BY <1>1, <2>1, KnownEffect
    <2>4. s3 = Joined(s4, p, q, top)
      BY <1>5, <1>8
    <2> HIDE DEF s1, q, s2, alone, top, s3
    <2>5. /\ s4 \in Rooms /\ Frame(s2, s4) /\ s4.data = s2.data
          /\ s4.tangled = (s2.tangled \/ Large(s2, q))
      BY <2>3 DEF Rooms, Frame
    <2>6. s2.data \in [Spots -> Half]
      BY <2>3 DEF Rooms
    <2>7. /\ s2.data[p] = Fresh(s, p) /\ s2.data[q] = Fresh(s, q)
          /\ \A x \in Spots \ {p, q} : s2.data[x] = s.data[x]
      BY <1>1, <1>2, <2>1, <2>3 DEF Fresh
    <2>8. ~Large(s4, p) /\ (Large(s4, q) <=> Large(s, q))
          /\ (Large(s2, q) <=> Large(s, q))
      <3>1. Fresh(s, q).conn = s.data[q].conn
        BY <2>1 DEF Cleared, Fresh, NoData, NewData
      <3>2. QED
        BY <1>4, <1>8, <2>5, <2>7, <3>1 DEF Large, Alone
    <2> HIDE DEF s4
    <2>9. /\ s3 \in Rooms /\ Frame(s4, s3) /\ s3.tangled = s4.tangled
          /\ s3.data = [x \in Spots |->
                     IF x = p /\ ~Large(s4, p) THEN Linked(s4.data[p], q, ~top)
                     ELSE IF x = q /\ ~Large(s4, q) THEN Linked(s4.data[q], p, top)
                     ELSE s4.data[x]]
      BY <2>1, <2>2, <2>4, <2>5, JoinedEffect
    <2>10. /\ s3.data[p] = Linked(Fresh(s, p), q, ~top)
           /\ s3.data[q] = IF Large(s, q) THEN s.data[q]
                           ELSE Linked(Fresh(s, q), p, top)
           /\ \A x \in Spots \ {p, q} : s3.data[x] = s.data[x]
           /\ s3.data \in [Spots -> Half]
      <3>1. Large(s, q) => Fresh(s, q) = s.data[q]
        BY <2>1 DEF Fresh, Cleared, Large, NoData, NewData
      <3>2. s3.data \in [Spots -> Half]
        BY <2>9 DEF Rooms
      <3>3. QED
        BY <2>1, <2>5, <2>7, <2>8, <2>9, <3>1, <3>2
    <2>11. /\ t.tangled = s3.tangled /\ Frame(s3, t) /\ t \in Rooms
           /\ t.data = s3.data
      <3>1. s3.data[p].checked = TRUE /\ DOMAIN s3.data[p] = DOMAIN Fresh(s, p)
        BY <2>10, <1>6 DEF Linked, Half
      <3>2. s3.data[p] \in Half
        BY <2>10
      <3>3. [s3.data[p] EXCEPT !.checked = TRUE] = s3.data[p]
        BY <3>1, <3>2 DEF Half
      <3>4. [s3.data EXCEPT ![p].checked = TRUE] = s3.data
        BY <3>3, <2>10
      <3>5. QED
        BY <3>4, <2>9 DEF Rooms, Frame
    <2>12. t.data = Paired(s, p, q, top)
      BY <2>1, <2>10, <2>11 DEF Paired
    <2>13. t.tangled = (s.tangled \/ Large(s, q))
      BY <1>1, <2>3, <2>5, <2>8, <2>9, <2>11
    <2>14. Frame(s, t)
      <3>1. Frame(s, s1) /\ Frame(s1, s2) /\ Frame(s2, s4) /\ Frame(s4, s3) /\ Frame(s3, t)
        BY <1>1, <2>3, <2>5, <2>9, <2>11
      <3> HIDE DEF t
      <3>2. QED
        BY <3>1, FrameChain
    <2>15. QED
      BY <1>0, <1>3, <1>8, <2>2, <2>11, <2>12, <2>13, <2>14
  <1>9. QED
    BY <1>7, <1>8

-----------------------------------------------------------------------------
(* What holds of a room also when chests are tangled: who is connected was
   tested, a partner that is not gone is there, and partners touch. *)
Checked(s) ==
    \A p \in Spots : /\ Large(s, p) => s.data[p].checked
                     /\ s.data[p].gone => Large(s, p)
Live(s) ==
    \A p \in Spots : Large(s, p) /\ ~s.data[p].gone =>
        s.data[s.data[p].conn].listed /\ s.data[s.data[p].conn].checked
Touching(s) == \A p \in Spots : Large(s, p) => s.data[p].conn \in Range(Beside(p))
Sound(s) == Cleared(s) /\ Checked(s) /\ Live(s) /\ Touching(s)
\* Data is where a chest is.
Standing(s, B) == \A p \in Spots : s.data[p].listed => p \in B


\* What holds when they are not: partners point at each other, and a chest
\* that was tested and is alone has no neighbour that is alone too.
Mirror(s, p) ==
    LET q == s.data[p].conn
    IN  /\ q \in Range(Beside(p)) /\ s.data[q].listed
        /\ s.data[q].conn = p /\ ~s.data[q].gone
        /\ s.data[q].top # s.data[p].top
Mirrored(s) == \A p \in Spots : Large(s, p) => Mirror(s, p)
Settled(s) ==
    \A p \in Spots : s.data[p].listed /\ s.data[p].checked /\ ~Large(s, p) =>
        \A q \in Range(Beside(p)) \cap s.block : Large(s, q)
SameItems(s, t) == \A p \in Spots : t.data[p].item = s.data[p].item

(* The test keeps a room sound, moves no item, leaves connected chests as they
   are and joins nobody to a third.                                         *)
LEMMA TestedSound ==
    ASSUME NEW s \in Rooms, NEW p \in Spots, NEW breaking \in BOOLEAN, Sound(s)
    PROVE  LET t == Tested(s, p, breaking)
           IN  /\ t \in Rooms /\ Frame(s, t) /\ Sound(t)
               /\ t.data[p].listed /\ t.data[p].checked
               /\ SameItems(s, t)
               /\ \A B : s.block \cup {p} \subseteq B /\ Standing(s, B) => Standing(t, B)
               /\ \A x \in Spots : Large(s, x) =>
                      /\ t.data[x].conn = s.data[x].conn
                      /\ t.data[x].top = s.data[x].top
                      /\ t.data[x].gone = s.data[x].gone
               /\ \A x \in Spots : x # p /\ Large(t, x) /\ ~Large(s, x) =>
                      /\ ~Large(s, p) /\ x \in Range(Beside(p)) /\ t.data[x].conn = p
                      /\ ~s.data[p].checked
               /\ \A x \in Spots : t.data[x].listed /\ ~s.data[x].listed =>
                      x = p \/ t.data[p].conn = x
               /\ s.data[p].checked => t.data = s.data /\ t.tangled = s.tangled
               /\ t.data[p].gone => Large(s, p)
               /\ s.tangled => t.tangled
               /\ \A x \in Spots : /\ s.data[x].listed => t.data[x].listed
                                   /\ s.data[x].checked => t.data[x].checked
  <1> DEFINE t == Tested(s, p, breaking)
             q == Nearest(s, p)
  <1>0. s.data \in [Spots -> Half]
    BY DEF Rooms
  <1>1. Cleared(s)
    BY DEF Sound
  <1>2. /\ t \in Rooms /\ Frame(s, t) /\ (s.tangled => t.tangled)
        /\ Alone(s, p) =>
              /\ t.tangled = s.tangled
              /\ t.data = [s.data EXCEPT ![p] = [Fresh(s, p) EXCEPT !.checked = TRUE]]
        /\ ~Alone(s, p) => \E top \in BOOLEAN : t.data = Paired(s, p, q, top)
    <2>1. /\ t \in Rooms /\ Frame(s, t)
          /\ Alone(s, p) =>
                /\ t.tangled = s.tangled
                /\ t.data = [s.data EXCEPT ![p] = [Fresh(s, p) EXCEPT !.checked = TRUE]]
          /\ ~Alone(s, p) =>
                /\ t.tangled = (s.tangled \/ Large(s, q))
                /\ \E top \in BOOLEAN : t.data = Paired(s, p, q, top)
      BY <1>1, TestedEffect
    <2> HIDE DEF t, q
    <2>2. s.tangled => t.tangled
      BY <2>1
    <2>3. QED
      BY <2>1, <2>2
  <1> HIDE DEF t
  <1>3. ASSUME NEW x \in Spots
        PROVE  /\ Fresh(s, x) \in Half /\ Fresh(s, x).listed
               /\ Fresh(s, x).conn = s.data[x].conn
               /\ Fresh(s, x).gone = s.data[x].gone
               /\ Fresh(s, x).top = s.data[x].top
               /\ Fresh(s, x).checked = s.data[x].checked
               /\ Fresh(s, x).item = s.data[x].item
    BY <1>0, <1>1, NoHalf, ZenonT(60) DEF Fresh, Cleared, NoData, NewData
  <1>4. CASE Alone(s, p)
    <2>1. /\ t.data \in [Spots -> Half]
          /\ t.data[p] = [Fresh(s, p) EXCEPT !.checked = TRUE]
          /\ \A x \in Spots \ {p} : t.data[x] = s.data[x]
      BY <1>0, <1>2, <1>4 DEF Rooms
    <2>2. /\ t.data[p].listed /\ t.data[p].checked
          /\ t.data[p].conn = s.data[p].conn /\ t.data[p].gone = s.data[p].gone
          /\ t.data[p].top = s.data[p].top /\ t.data[p].item = s.data[p].item
      BY <1>3, <2>1 DEF Half
    <2>3. \A x \in Spots : Large(t, x) <=> Large(s, x)
      BY <2>1, <2>2 DEF Large
    <2>4. Cleared(t) /\ Checked(t)
      BY <1>1, <2>1, <2>2, <2>3 DEF Cleared, Checked, Sound
    <2>5. Live(t)
      <3> SUFFICES ASSUME NEW x \in Spots, Large(t, x), ~t.data[x].gone
                   PROVE  t.data[t.data[x].conn].listed /\ t.data[t.data[x].conn].checked
        BY DEF Live
      <3>1. t.data[x].conn = s.data[x].conn /\ ~s.data[x].gone /\ Large(s, x)
        BY <2>1, <2>2, <2>3
      <3>2. s.data[x].conn \in Spots
        BY <3>1, <1>0 DEF Large, Half
      <3>3. s.data[s.data[x].conn].listed /\ s.data[s.data[x].conn].checked
        BY <3>1 DEF Sound, Live
      <3>4. CASE s.data[x].conn = p
        BY <3>1, <3>4, <2>2
      <3>5. CASE s.data[x].conn # p
        <4>1. t.data[s.data[x].conn] = s.data[s.data[x].conn]
          BY <3>2, <3>5, <2>1
        <4>2. QED
          BY <3>1, <3>3, <4>1
      <3>6. QED
        BY <3>4, <3>5
    <2>6. SameItems(s, t) /\ \A B : s.block \cup {p} \subseteq B /\ Standing(s, B) => Standing(t, B)
      BY <2>1, <2>2 DEF SameItems, Standing
    <2>7. Touching(t)
      BY <2>1, <2>2, <2>3 DEF Sound, Touching
    <2>8. t.data[p].gone => Large(s, p)
      BY <2>2 DEF Sound, Checked
    <2>9. s.data[p].checked => t.data = s.data
      <3> SUFFICES ASSUME s.data[p].checked PROVE t.data = s.data
        OBVIOUS
      <3>1. s.data[p].listed
        BY <1>1 DEF Cleared, NoData, NewData
      <3>2. s.data[p].checked = TRUE
        BY <1>0 DEF Half
      <3>3. [s.data[p] EXCEPT !.checked = TRUE] = s.data[p]
        BY <1>0, <3>2 DEF Half
      <3>4. t.data[p] = s.data[p]
        BY <2>1, <3>1, <3>3 DEF Fresh
      <3>5. QED
        BY <1>0, <2>1, <3>4
    <2>10. t.tangled = s.tangled
      BY <1>2, <1>4
    <2>11. \A x \in Spots : /\ s.data[x].listed => t.data[x].listed
                            /\ s.data[x].checked => t.data[x].checked
      BY <2>1, <2>2
    <2>12. QED
      BY <1>2, <2>1, <2>2, <2>3, <2>4, <2>5, <2>6, <2>7, <2>8, <2>9, <2>10, <2>11 DEF Sound, t
  <1>5. CASE ~Alone(s, p)
    <2>1. q \in s.block /\ q \in Spots /\ q # p /\ q \in Range(Beside(p))
      <3>1. Joinable(s, p) # {} /\ s.block \subseteq Spots
        BY <1>5 DEF Alone, Rooms
      <3> HIDE DEF q
      <3>2. QED
        BY <3>1, NearestFacts, BesideFacts DEF q
    <2> HIDE DEF q
    <2>2. PICK top \in BOOLEAN : t.data = Paired(s, p, q, top)
      BY <1>2, <1>5
    <2>3. /\ t.data \in [Spots -> Half]
          /\ t.data[p] = Linked(Fresh(s, p), q, ~top)
          /\ t.data[q] = IF Large(s, q) THEN s.data[q]
                         ELSE Linked(Fresh(s, q), p, top)
          /\ \A x \in Spots \ {p, q} : t.data[x] = s.data[x]
      BY <1>2, <2>1, <2>2 DEF Paired, Rooms
    <2>4. /\ t.data[p].listed /\ t.data[p].checked /\ t.data[p].conn = q
          /\ t.data[p].item = s.data[p].item
      BY <1>3, <2>3 DEF Linked, Half
    <2>5. Large(s, q) => s.data[q].listed /\ s.data[q].checked
      BY <2>1, <1>1 DEF Sound, Checked, Cleared, Large, NoData, NewData
    <2>6. /\ t.data[q].listed /\ t.data[q].checked
          /\ t.data[q].conn = IF Large(s, q) THEN s.data[q].conn ELSE p
          /\ t.data[q].item = s.data[q].item
      BY <1>3, <2>1, <2>3, <2>5 DEF Linked, Half
    <2>7. ~Large(s, p) /\ ~s.data[p].checked
      BY <1>5 DEF Alone
    <2>8. \A x \in Spots \ {p, q} : Large(t, x) <=> Large(s, x)
      BY <2>3 DEF Large
    <2>9. Cleared(t) /\ Checked(t)
      <3>1. ~t.data[p].gone
        BY <1>3, <2>3 DEF Linked, Half
      <3>2. Large(t, q)
        BY <2>1, <2>6, BesideFacts DEF Large
      <3>3. Large(t, p)
        BY <2>1, <2>4, BesideFacts DEF Large
      <3>4. QED
        BY <1>1, <2>3, <2>4, <2>6, <2>8, <3>1, <3>2, <3>3 DEF Cleared, Checked, Sound
    <2>10. \A x \in Spots : s.data[x].listed => t.data[x].listed
      BY <2>3, <2>4, <2>6
    <2>11. \A x \in Spots : s.data[x].checked => t.data[x].checked
      BY <2>3, <2>4, <2>6
    <2>12. Live(t)
      <3> SUFFICES ASSUME NEW x \in Spots, Large(t, x), ~t.data[x].gone
                   PROVE  t.data[t.data[x].conn].listed /\ t.data[t.data[x].conn].checked
        BY DEF Live
      <3>1. CASE t.data[x].conn \in {p, q}
        BY <3>1, <2>4, <2>6
      <3>2. CASE t.data[x].conn \notin {p, q}
        <4>1. t.data[x].conn = s.data[x].conn /\ t.data[x].gone = s.data[x].gone
          BY <3>2, <2>1, <2>3, <2>4, <2>6
        <4>2. s.data[x].conn \in Spots
          BY <4>1, <1>0 DEF Large, Half
        <4>3. s.data[s.data[x].conn].listed /\ s.data[s.data[x].conn].checked
          BY <4>1 DEF Sound, Live, Large
        <4>4. QED
          BY <4>1, <4>2, <4>3, <2>10, <2>11
      <3>3. QED
        BY <3>1, <3>2
    <2>13. SameItems(s, t) /\ \A B : s.block \cup {p} \subseteq B /\ Standing(s, B) => Standing(t, B)
      BY <2>1, <2>3, <2>4, <2>6 DEF SameItems, Standing
    <2>14. \A x \in Spots : Large(s, x) => t.data[x] = s.data[x]
      BY <2>1, <2>3, <2>7
    <2>15. \A x \in Spots : x # p /\ Large(t, x) /\ ~Large(s, x) =>
                  x = q /\ t.data[x].conn = p
      BY <2>6, <2>8
    <2>16. Touching(t)
      BY <2>1, <2>3, <2>4, <2>6, <2>8, BesideFacts DEF Sound, Touching
    <2>17. ~t.data[p].gone
      BY <1>3, <2>3 DEF Linked, Half
    <2>18. \A x \in Spots : t.data[x].listed /\ ~s.data[x].listed =>
                      x = p \/ t.data[p].conn = x
      BY <2>3, <2>4
    <2>19. QED
      BY <1>2, <2>1, <2>4, <2>7, <2>9, <2>10, <2>11, <2>12, <2>13,
         <2>14, <2>15, <2>16, <2>17, <2>18 DEF Sound, t
  <1>6. QED
    BY <1>4, <1>5

(* If the test does not tangle the chests, partners stay each other's and
   nobody is left next to a chest it should have joined.                    *)
LEMMA TestedCalm ==
    ASSUME NEW s \in Rooms, NEW p \in Spots, NEW breaking \in BOOLEAN,
           Sound(s), Standing(s, s.block), p \in s.block,
           ~Tested(s, p, breaking).tangled
    PROVE  LET t == Tested(s, p, breaking)
           IN  /\ ~s.tangled
               /\ Mirrored(s) => Mirrored(t)
               /\ Mirrored(s) /\ Settled(s) => Settled(t)
  <1> DEFINE t == Tested(s, p, breaking)
             q == Nearest(s, p)
  <1>0. s.data \in [Spots -> Half] /\ s.block \subseteq Spots
    BY DEF Rooms
  <1>1. Cleared(s)
    BY DEF Sound
  <1>2. /\ t \in Rooms /\ Frame(s, t)
        /\ Alone(s, p) =>
              /\ t.tangled = s.tangled
              /\ t.data = [s.data EXCEPT ![p] = [Fresh(s, p) EXCEPT !.checked = TRUE]]
        /\ ~Alone(s, p) =>
              /\ t.tangled = (s.tangled \/ Large(s, q))
              /\ \E top \in BOOLEAN : t.data = Paired(s, p, q, top)
    BY <1>1, TestedEffect
  <1>3. ~t.tangled
    OBVIOUS
  <1> HIDE DEF t
  <1>4. ASSUME NEW x \in Spots
        PROVE  /\ Fresh(s, x) \in Half /\ Fresh(s, x).listed
               /\ Fresh(s, x).conn = s.data[x].conn
               /\ Fresh(s, x).gone = s.data[x].gone
               /\ Fresh(s, x).top = s.data[x].top
               /\ Fresh(s, x).checked = s.data[x].checked
    BY <1>0, <1>1, NoHalf DEF Fresh, Cleared, NoData, NewData
  <1>5. t.data \in [Spots -> Half] /\ t.block = s.block
    BY <1>2 DEF Rooms, Frame
  <1>6. ASSUME NEW x \in Spots, Large(s, x)
        PROVE  s.data[x].listed /\ s.data[x].conn \in Spots
    BY <1>0, <1>1, <1>6 DEF Cleared, Large, NoData, NewData, Half
  <1>7. CASE Alone(s, p)
    <2>1. /\ t.data[p] = [Fresh(s, p) EXCEPT !.checked = TRUE]
          /\ \A x \in Spots \ {p} : t.data[x] = s.data[x]
      BY <1>0, <1>2, <1>7
    <2>2. /\ t.data[p].listed /\ t.data[p].checked
          /\ t.data[p].conn = s.data[p].conn /\ t.data[p].gone = s.data[p].gone
          /\ t.data[p].top = s.data[p].top
      BY <1>4, <2>1 DEF Half
    <2>3. \A x \in Spots : Large(t, x) <=> Large(s, x)
      BY <2>1, <2>2 DEF Large
    <2>4. ASSUME Mirrored(s), NEW x \in Spots, Large(t, x) PROVE Mirror(t, x)
      <3>1. Large(s, x) /\ Mirror(s, x) /\ s.data[x].conn \in Spots
        BY <2>3, <2>4, <1>6 DEF Mirrored
      <3>2. ASSUME NEW y \in Spots
            PROVE  /\ t.data[y].conn = s.data[y].conn /\ t.data[y].gone = s.data[y].gone
                   /\ t.data[y].top = s.data[y].top
                   /\ s.data[y].listed => t.data[y].listed
        BY <2>1, <2>2
      <3>3. QED
        BY <3>1, <3>2 DEF Mirror
    <2>5. ASSUME Settled(s), NEW x \in Spots,
                 t.data[x].listed, t.data[x].checked, ~Large(t, x),
                 NEW y \in Range(Beside(x)) \cap t.block
          PROVE  Large(t, y)
      <3>1. CASE x # p
        <4>1. Large(s, y)
          BY <3>1, <2>1, <2>3, <2>5, <1>5 DEF Settled
        <4>2. QED
          BY <4>1, <2>3, <1>5, <1>0
      <3>2. CASE x = p
        <4>1. Joinable(s, p) # {}
          BY <3>2, <2>5, <1>5, Neighbour
        <4>2. s.data[p].checked
          BY <4>1, <1>7, <2>3, <2>5, <3>2 DEF Alone
        <4>3. s.data[p].listed
          BY <4>2, <1>1 DEF Cleared, NoData, NewData
        <4>4. Large(s, y)
          BY <4>2, <4>3, <3>2, <2>3, <2>5, <1>5 DEF Settled
        <4>5. QED
          BY <4>4, <2>3, <1>5, <1>0
      <3>3. QED
        BY <3>1, <3>2
    <2>6. QED
      BY <1>2, <1>3, <1>7, <2>4, <2>5 DEF Mirrored, Settled, t
  <1>8. CASE ~Alone(s, p)
    <2>1. q \in s.block /\ q \in Spots /\ q # p /\ q \in Range(Beside(p))
      <3>1. Joinable(s, p) # {}
        BY <1>8 DEF Alone
      <3> HIDE DEF q
      <3>2. QED
        BY <3>1, <1>0, NearestFacts, BesideFacts DEF q
    <2>2. p \in Range(Beside(q))
      BY <2>1, BesideFacts
    <2> HIDE DEF q
    <2>3. ~s.tangled /\ ~Large(s, q) /\ ~Large(s, p)
      BY <1>2, <1>3, <1>8 DEF Alone
    <2>4. PICK top \in BOOLEAN : t.data = Paired(s, p, q, top)
      BY <1>2, <1>8
    <2>5. /\ t.data[p] = Linked(Fresh(s, p), q, ~top)
          /\ t.data[q] = Linked(Fresh(s, q), p, top)
          /\ \A x \in Spots \ {p, q} : t.data[x] = s.data[x]
      BY <1>2, <2>1, <2>3, <2>4 DEF Paired
    <2>6. /\ t.data[p].listed /\ t.data[p].conn = q /\ ~t.data[p].gone
          /\ t.data[p].top = ~top
      BY <1>4, <2>5 DEF Linked, Half
    <2>7. /\ t.data[q].listed /\ t.data[q].conn = p /\ ~t.data[q].gone
          /\ t.data[q].top = top
      BY <1>4, <2>1, <2>5 DEF Linked, Half
    <2>8. Large(t, p) /\ Large(t, q)
      BY <2>1, <2>6, <2>7, BesideFacts DEF Large
    <2>9. \A x \in Spots \ {p, q} : Large(t, x) <=> Large(s, x)
      BY <2>5 DEF Large
    <2>10. ASSUME Mirrored(s), NEW x \in Spots, Large(t, x) PROVE Mirror(t, x)
      <3>1. CASE x = p
        BY <3>1, <2>1, <2>6, <2>7 DEF Mirror
      <3>2. CASE x = q
        BY <3>2, <2>2, <2>6, <2>7 DEF Mirror
      <3>3. CASE x \notin {p, q}
        <4>1. Large(s, x) /\ t.data[x] = s.data[x] /\ s.data[x].conn \in Spots
          BY <3>3, <2>5, <2>9, <2>10, <1>6
        <4>2. Mirror(s, x)
          BY <4>1, <2>10 DEF Mirrored
        <4>3. s.data[x].conn \notin {p, q}
          BY <4>1, <4>2, <2>3, BesideFacts DEF Mirror, Large
        <4>4. t.data[s.data[x].conn] = s.data[s.data[x].conn]
          BY <4>1, <4>3, <2>5
        <4>5. QED
          BY <4>1, <4>2, <4>4 DEF Mirror
      <3>4. QED
        BY <3>1, <3>2, <3>3
    <2>11. ASSUME Settled(s), NEW x \in Spots,
                  t.data[x].listed, t.data[x].checked, ~Large(t, x),
                  NEW y \in Range(Beside(x)) \cap t.block
           PROVE  Large(t, y)
      <3>1. x \notin {p, q} /\ ~Large(s, x) /\ t.data[x] = s.data[x]
        BY <2>5, <2>8, <2>9, <2>11
      <3>2. Large(s, y)
        BY <3>1, <2>11, <1>5 DEF Settled
      <3>3. QED
        BY <3>2, <2>8, <2>9, <1>0, <1>5
    <2>12. QED
      BY <2>3, <2>10, <2>11 DEF Mirrored, Settled, t
  <1>9. QED
    BY <1>7, <1>8

-----------------------------------------------------------------------------
(* Breaking.                                                               *)

Listed(s) == {p \in Spots : s.data[p].listed}
Stored(s) == [p \in Spots |-> s.data[p].item.n]
Held(s) == s.ground + SumFunction(Stored(s))

(* Numbers of items; fresh data holds none.                               *)
LEMMA ItemCount == /\ \A i \in Item : i.n \in Nat
                   /\ NoItem.n = 0 /\ NoData.item = NoItem /\ NewData.item = NoItem
  BY DEF Item, NoItem, C!Empty, NoData, NewData

(* What the chests hold can be summed up.                                 *)
LEMMA StoredType ==
    ASSUME NEW s \in Rooms
    PROVE  /\ Stored(s) \in [Spots -> Nat] /\ Stored(s) \in [Spots -> Int]
           /\ SumFunction(Stored(s)) \in Int
           /\ Held(s) \in Int
  <1>1. \A p \in Spots : s.data[p].item.n \in Nat
    BY ItemCount DEF Rooms, Half
  <1>2. Stored(s) \in [Spots -> Nat] /\ Stored(s) \in [Spots -> Int]
    BY <1>1 DEF Stored
  <1>3. SumFunction(Stored(s)) \in Int
    BY <1>2, SumIsInt, SpotsAssumption
  <1>4. QED
    BY <1>2, <1>3 DEF Held, Rooms

(* Erased takes the data of one chest away and puts its items on the
   ground.                                                                 *)
LEMMA ErasedEffect ==
    ASSUME NEW s \in Rooms, NEW p \in Spots
    PROVE  LET t == Erased(s, p)
           IN  /\ t \in Rooms
               /\ t.block = s.block /\ t.window = s.window /\ t.hand = s.hand
               /\ t.pack = s.pack /\ t.down = s.down /\ t.altered = s.altered
               /\ t.tangled = s.tangled
               /\ t.data[p] = NoData
               /\ \A x \in Spots \ {p} :
                      t.data[x] = IF s.data[x].conn = p
                                  THEN [s.data[x] EXCEPT !.gone = TRUE] ELSE s.data[x]
               /\ Held(t) = Held(s)
  <1> DEFINE t == Erased(s, p)
             D == [q \in Spots |->
                      IF q = p THEN NoData
                      ELSE IF s.data[q].conn = p
                      THEN [s.data[q] EXCEPT !.gone = TRUE]
                      ELSE s.data[q]]
  <1>1. s.data \in [Spots -> Half] /\ s.ground \in Nat
    BY DEF Rooms
  <1>2. D \in [Spots -> Half]
    <2>1. \A h \in Half : [h EXCEPT !.gone = TRUE] \in Half
      BY DEF Half
    <2>2. QED
      BY <1>1, <2>1, NoHalf
  <1>3. s.ground + s.data[p].item.n \in Nat
    BY <1>1, ItemCount DEF Half
  <1>4. /\ t = [s EXCEPT !.ground = s.ground + s.data[p].item.n, !.data = D]
        /\ t.ground = s.ground + s.data[p].item.n
        /\ t.data = D /\ t \in Rooms
        /\ t.block = s.block /\ t.window = s.window /\ t.hand = s.hand
        /\ t.pack = s.pack /\ t.down = s.down /\ t.altered = s.altered
        /\ t.tangled = s.tangled
    <2>1. t = [s EXCEPT !.ground = s.ground + s.data[p].item.n, !.data = D]
      BY DEF Erased
    <2> HIDE DEF t, D
    <2>2. QED
      BY <1>2, <1>3, <2>1 DEF Rooms
  <1> HIDE DEF t
  <1>5. /\ t.data[p] = NoData
        /\ \A x \in Spots \ {p} :
              t.data[x] = IF s.data[x].conn = p
                          THEN [s.data[x] EXCEPT !.gone = TRUE] ELSE s.data[x]
    BY <1>4
  <1>6. t.ground = s.ground + s.data[p].item.n
    BY <1>4
  <1>7. ASSUME NEW x \in Spots \ {p}
        PROVE  t.data[x].item = s.data[x].item
    <2>1. \A h \in Half : [h EXCEPT !.gone = TRUE].item = h.item
      BY DEF Half
    <2>2. QED
      BY <1>1, <1>5, <2>1
  <1> HIDE DEF D
  <1>8. Stored(t) = [Stored(s) EXCEPT ![p] = 0]
    BY <1>5, <1>7, ItemCount DEF Stored
  <1>9. SumFunction(Stored(t)) = SumFunction(Stored(s)) - Stored(s)[p] + 0
    <2> DEFINE f == Stored(s)
    <2>1. f \in [Spots -> Int] /\ IsFiniteSet(Spots) /\ 0 \in Int
      BY StoredType, SpotsAssumption
    <2>2. Stored(t) = [f EXCEPT ![p] = 0]
      BY <1>8
    <2> HIDE DEF f
    <2>3. SumFunction([f EXCEPT ![p] = 0]) = SumFunction(f) - f[p] + 0
      BY <2>1, SumChanges
    <2>4. QED
      BY <2>2, <2>3 DEF f
  <1>10. Stored(s)[p] = s.data[p].item.n /\ Stored(s)[p] \in Int
    BY StoredType DEF Stored
  <1>11. Held(t) = Held(s)
    BY <1>1, <1>6, <1>9, <1>10, StoredType DEF Held
  <1>12. /\ t \in Rooms
         /\ t.block = s.block /\ t.window = s.window /\ t.hand = s.hand
         /\ t.pack = s.pack /\ t.down = s.down /\ t.altered = s.altered
         /\ t.tangled = s.tangled
    BY <1>4
  <1>13. QED
    BY <1>5, <1>11, <1>12 DEF t

(* The same items are as many.                                            *)
LEMMA SameItemsSameSum ==
    ASSUME NEW s \in Rooms, NEW t \in Rooms, SameItems(s, t), t.ground = s.ground
    PROVE  Held(t) = Held(s)
  <1>1. Stored(t) = Stored(s)
    BY DEF Stored, SameItems
  <1>2. QED
    BY <1>1 DEF Held

\* The next to break stands there and has no partner left.
Final(r) ==
    /\ r.at \in Spots /\ r.s.data[r.at].listed /\ r.s.data[r.at].checked
    /\ ~Large(r.s, r.at)


\* Between two calls; r.at may have lost its block to an earlier one.
RunOK(s0, r) ==
    /\ r = [s |-> r.s, at |-> r.at, air |-> r.air]
    /\ r.s \in Rooms /\ Sound(r.s)
    /\ r.s.block = s0.block /\ r.s.window = s0.window /\ r.s.hand = s0.hand
    /\ r.s.pack = s0.pack /\ r.s.down = s0.down /\ r.s.altered = s0.altered
    /\ Held(r.s) = Held(s0)
    /\ r.at \in {<< >>} \cup Spots /\ r.air \subseteq Spots
    /\ \A x \in Listed(r.s) : x = r.at \/ x \in s0.block \ r.air

(* One call of onBroken: what falls is counted, and either it was the last
   call, or the next is, or there is a chest less.                          *)
LEMMA OneBrokenStep ==
    ASSUME NEW s0 \in Rooms, NEW r, RunOK(s0, r), r.at # << >>
    PROVE  LET w == OneBroken(r)
           IN  /\ RunOK(s0, w)
               /\ Final(r) => w.at = << >>
               /\ r.s.tangled => Tested(r.s, r.at, TRUE).tangled
               /\ Tested(r.s, r.at, TRUE).tangled => w.s.tangled
               /\ \/ w.at = << >>
                  \/ Final(w)
                  \/ r.at \in Listed(r.s) /\ Listed(w.s) = Listed(r.s) \ {r.at}
  <1> DEFINE p == r.at
             s == r.s
             breaking == TRUE
             t == Tested(s, p, breaking)
             q == t.data[p].conn
             out == Erased(t, p)
             new == IF q = << >> \/ t.data[p].gone THEN out
                    ELSE [out EXCEPT !.data[q].conn = << >>, !.data[q].gone = FALSE]
             w == OneBroken(r)
  <1>1. /\ w = [s |-> new, at |-> q, air |-> r.air \cup {p}]
        /\ w.s = new /\ w.at = q /\ w.air = r.air \cup {p}
    BY DEF OneBroken
  <1>2. /\ s \in Rooms /\ p \in Spots /\ Sound(s)
        /\ \A x \in Listed(s) : x = p \/ x \in s0.block \ r.air
        /\ p # << >> /\ Held(s) = Held(s0) /\ r.air \subseteq Spots
        /\ s.block = s0.block /\ s.window = s0.window /\ s.hand = s0.hand
        /\ s.pack = s0.pack /\ s.down = s0.down /\ s.altered = s0.altered
    BY DEF RunOK
  <1>a. p = r.at /\ s = r.s /\ (Final(r) => s.data[p].checked /\ ~Large(s, p))
    BY DEF Final
  <1>3. breaking \in BOOLEAN
    OBVIOUS
  <1> HIDE DEF p, s, breaking
  <1>4. /\ t \in Rooms /\ Frame(s, t) /\ Sound(t)
        /\ t.data[p].listed /\ t.data[p].checked
        /\ SameItems(s, t)
        /\ \A x \in Spots : t.data[x].listed /\ ~s.data[x].listed => x = p \/ q = x
        /\ s.data[p].checked => t.data = s.data
        /\ t.data[p].gone => Large(s, p)
        /\ s.tangled => t.tangled
    BY <1>2, <1>3, TestedSound
  <1> HIDE DEF t
  <1>5. /\ out \in Rooms
        /\ out.block = t.block /\ out.window = t.window /\ out.hand = t.hand
        /\ out.pack = t.pack /\ out.down = t.down /\ out.altered = t.altered
        /\ out.data[p] = NoData
        /\ \A x \in Spots \ {p} :
              out.data[x] = IF t.data[x].conn = p
                            THEN [t.data[x] EXCEPT !.gone = TRUE] ELSE t.data[x]
        /\ Held(out) = Held(t) /\ out.tangled = t.tangled
    BY <1>2, <1>4, ErasedEffect
  <1> HIDE DEF out
  <1>6. /\ s.data \in [Spots -> Half] /\ t.data \in [Spots -> Half]
        /\ out.data \in [Spots -> Half]
    BY <1>2, <1>4, <1>5 DEF Rooms
  <1>7. ASSUME NEW x \in Spots \ {p}
        PROVE  /\ out.data[x].conn = t.data[x].conn /\ out.data[x].item = t.data[x].item
               /\ out.data[x].listed = t.data[x].listed
               /\ out.data[x].checked = t.data[x].checked
               /\ t.data[x].conn = p => out.data[x].gone
               /\ t.data[x].conn # p => out.data[x] = t.data[x]
    <2>1. CASE t.data[x].conn # p
      BY <1>5, <2>1
    <2>2. CASE t.data[x].conn = p
      <3>1. out.data[x] = [t.data[x] EXCEPT !.gone = TRUE] /\ t.data[x] \in Half
        BY <1>5, <1>6, <2>2
      <3>2. QED
        BY <2>2, <3>1 DEF Half
    <2>3. QED
      BY <2>1, <2>2
  <1>8. q \in {<< >>} \cup Spots /\ q # p
    <2>1. q \in {<< >>} \cup Spots
      BY <1>2, <1>6 DEF Half
    <2>2. q # << >> => q \in Range(Beside(p))
      BY <1>2, <1>4 DEF Sound, Touching, Large
    <2>3. QED
      BY <1>2, <2>1, <2>2, BesideFacts
  <1>9. /\ Held(t) = Held(s) /\ t.block = s.block /\ t.window = s.window
        /\ t.hand = s.hand /\ t.pack = s.pack /\ t.down = s.down
        /\ t.altered = s.altered
    BY <1>2, <1>4, SameItemsSameSum DEF Frame
  <1>10. Sound(out)
    <2>1. ~NoData.listed /\ NoData.conn = << >> /\ ~NoData.gone
      BY DEF NoData, NewData
    <2>2. \A x \in Spots : Large(out, x) => x # p /\ Large(t, x)
      BY <1>5, <1>7, <2>1 DEF Large
    <2>3. Cleared(out)
      <3> SUFFICES ASSUME NEW x \in Spots, ~out.data[x].listed, x # p
                   PROVE  out.data[x] = NoData
        BY <1>5 DEF Cleared
      <3>1. t.data[x] = NoData
        BY <1>4, <1>7 DEF Sound, Cleared
      <3>2. QED
        BY <1>2, <1>7, <2>1, <3>1
    <2>4. Checked(out)
      <3> SUFFICES ASSUME NEW x \in Spots
                   PROVE  /\ Large(out, x) => out.data[x].checked
                          /\ out.data[x].gone => Large(out, x)
        BY DEF Checked
      <3>1. Large(out, x) => out.data[x].checked
        BY <1>4, <1>7, <2>2 DEF Sound, Checked
      <3>2. CASE x = p
        BY <1>5, <2>1, <2>2, <3>1, <3>2
      <3>3. CASE x # p
        BY <1>2, <1>4, <1>7, <3>1, <3>3 DEF Sound, Checked, Large
      <3>4. QED
        BY <3>2, <3>3
    <2>5. Touching(out)
      BY <1>4, <1>7, <2>2 DEF Sound, Touching
    <2>6. Live(out)
      <3> SUFFICES ASSUME NEW x \in Spots, Large(out, x), ~out.data[x].gone
                   PROVE  /\ out.data[out.data[x].conn].listed
                          /\ out.data[out.data[x].conn].checked
        BY DEF Live
      <3>1. x # p /\ Large(t, x) /\ out.data[x] = t.data[x] /\ t.data[x].conn # p
        BY <2>2, <1>7
      <3>2. t.data[t.data[x].conn].listed /\ t.data[t.data[x].conn].checked
        BY <1>4, <3>1 DEF Sound, Live
      <3>3. t.data[x].conn \in Spots
        BY <3>1, <1>6 DEF Half, Large
      <3>4. QED
        BY <1>7, <3>1, <3>2, <3>3
    <2>7. QED
      BY <2>3, <2>4, <2>5, <2>6 DEF Sound
  <1>11. Listed(out) = Listed(t) \ {p}
    BY <1>5, <1>7 DEF Listed, NoData, NewData
  <1>12. CASE q = << >> \/ t.data[p].gone
    <2>1. new = out
      BY <1>12
    <2>2. \A x \in Listed(out) : x = q \/ x \in s0.block \ (r.air \cup {p})
      BY <1>2, <1>4, <1>11 DEF Listed
    <2>3. RunOK(s0, w)
      <3>1. /\ w = [s |-> w.s, at |-> w.at, air |-> w.air]
            /\ w.s = out /\ w.at = q /\ w.air = r.air \cup {p}
        BY <1>1, <2>1
      <3>2. /\ out.block = s0.block /\ out.window = s0.window /\ out.hand = s0.hand
            /\ out.pack = s0.pack /\ out.down = s0.down /\ out.altered = s0.altered
            /\ Held(out) = Held(s0)
        BY <1>2, <1>5, <1>9
      <3>3. r.air \cup {p} \subseteq Spots
        BY <1>2
      <3> HIDE DEF w, q, new
      <3>4. QED
        BY <1>5, <1>8, <1>10, <2>2, <3>1, <3>2, <3>3 DEF RunOK
    <2>4. q # << >> => r.at \in Listed(r.s) /\ Listed(w.s) = Listed(r.s) \ {r.at}
      <3> HIDE DEF q, new, w
      <3> SUFFICES ASSUME q # << >>
                   PROVE  p \in Listed(s) /\ Listed(out) = Listed(s) \ {p}
        BY <1>1, <1>a, <2>1
      <3>1. Large(s, p)
        BY <1>12, <1>4
      <3>2. p \in Listed(s) /\ s.data[p].checked
        BY <1>2, <3>1 DEF Sound, Cleared, Checked, Large, Listed, NoData, NewData
      <3>3. Listed(t) = Listed(s)
        BY <1>4, <3>2 DEF Listed
      <3>4. QED
        BY <1>11, <3>2, <3>3
    <2>5. Final(r) => w.at = << >>
      <3>1. Final(r) => q = s.data[p].conn
        BY <1>a, <1>4
      <3>2. QED
        BY <1>1, <1>a, <3>1 DEF Large
    <2>6. s.tangled => t.tangled
      BY <1>4
    <2>7. t.tangled => w.s.tangled
      BY <1>1, <1>5, <2>1
    <2>8. QED
      BY <1>1, <1>a, <2>3, <2>4, <2>5, <2>6, <2>7 DEF t, breaking
  <1>13. CASE ~(q = << >> \/ t.data[p].gone)
    <2> DEFINE h == [out.data[q] EXCEPT !.conn = << >>, !.gone = FALSE]
    <2>1. q \in Spots /\ q # p /\ Large(t, p) /\ ~t.data[p].gone
      BY <1>8, <1>13 DEF Large
    <2>2. t.data[q].listed /\ t.data[q].checked
      BY <1>2, <1>4, <2>1 DEF Sound, Live
    <2>3. out.data[q].listed /\ out.data[q].checked
      BY <1>7, <2>1, <2>2
    <2>4. h \in Half /\ h.conn = << >> /\ ~h.gone /\ h.listed /\ h.checked
          /\ h.item = out.data[q].item
      BY <1>6, <2>1, <2>3 DEF Half
    <2>5. new = [out EXCEPT !.data[q].conn = << >>, !.data[q].gone = FALSE]
      BY <1>13
    <2>6. /\ new \in Rooms /\ new.data = [out.data EXCEPT ![q] = h]
          /\ new.block = out.block /\ new.window = out.window /\ new.hand = out.hand
          /\ new.pack = out.pack /\ new.down = out.down /\ new.altered = out.altered
          /\ new.ground = out.ground /\ new.tangled = out.tangled
      <3> HIDE DEF new
      <3>1. QED
        BY <1>5, <1>6, <2>1, <2>4, <2>5 DEF Rooms
    <2> HIDE DEF new, h
    <2>7. /\ new.data \in [Spots -> Half] /\ new.data[q] = h
          /\ \A x \in Spots \ {q} : new.data[x] = out.data[x]
      BY <1>6, <2>1, <2>4, <2>6
    <2>8. \A x \in Spots : Large(new, x) => x # q /\ Large(out, x)
      BY <2>4, <2>7 DEF Large
    <2>9. Cleared(new) /\ Checked(new) /\ Touching(new)
      <3>1. Cleared(new)
        BY <1>10, <2>4, <2>7 DEF Sound, Cleared
      <3>2. Checked(new)
        BY <1>10, <2>4, <2>7, <2>8 DEF Sound, Checked, Large
      <3>3. Touching(new)
        BY <1>10, <2>7, <2>8 DEF Sound, Touching
      <3>4. QED
        BY <3>1, <3>2, <3>3
    <2>10. Live(new)
      <3> SUFFICES ASSUME NEW x \in Spots, Large(new, x), ~new.data[x].gone
                   PROVE  /\ new.data[new.data[x].conn].listed
                          /\ new.data[new.data[x].conn].checked
        BY DEF Live
      <3>1. x # q /\ Large(out, x) /\ new.data[x] = out.data[x]
        BY <2>7, <2>8
      <3>2. out.data[out.data[x].conn].listed /\ out.data[out.data[x].conn].checked
        BY <1>10, <3>1 DEF Sound, Live
      <3>3. out.data[x].conn \in Spots
        BY <3>1, <1>6 DEF Half, Large
      <3>4. QED
        BY <2>4, <2>7, <3>1, <3>2, <3>3
    <2>11. SameItems(out, new) /\ Listed(new) = Listed(out)
      BY <2>3, <2>4, <2>7 DEF SameItems, Listed
    <2>12. Held(new) = Held(s0)
      BY <1>2, <1>5, <1>9, <2>6, <2>11, SameItemsSameSum
    <2>13. \A x \in Listed(new) : x = q \/ x \in s0.block \ (r.air \cup {p})
      BY <1>2, <1>4, <1>11, <2>11 DEF Listed
    <2>14. RunOK(s0, w)
      BY <1>1, <1>2, <1>5, <1>8, <1>9, <2>6, <2>9, <2>10, <2>12, <2>13 DEF RunOK, Sound
    <2>15. Final(w)
      BY <1>1, <2>1, <2>4, <2>7 DEF Final, Large
    <2>16. Final(r) => w.at = << >>
      <3>1. Final(r) => q = s.data[p].conn
        BY <1>a, <1>4
      <3>2. QED
        BY <1>1, <1>a, <3>1 DEF Large
    <2>17. s.tangled => t.tangled
      BY <1>4
    <2>18. t.tangled => w.s.tangled
      BY <1>1, <1>5, <2>6
    <2>19. QED
      BY <1>a, <2>14, <2>15, <2>16, <2>17, <2>18 DEF t, breaking
  <1>14. QED
    BY <1>12, <1>13

-----------------------------------------------------------------------------
(* The calls that Broken makes: they exist, and they come to an end.       *)
Start(s, p) == [s |-> s, at |-> p, air |-> {}]
Chain(s, p, m, g) ==
    g = [n \in 0 .. m |-> IF n = 0 THEN Start(s, p) ELSE OneBroken(g[n - 1])]

(* The function by which Broken repeats the call exists.                   *)
LEMMA ChainExists ==
    ASSUME NEW s, NEW p
    PROVE  \A m \in Nat : \E g : Chain(s, p, m, g)
  <1> DEFINE Bad == {m \in Nat : ~ \E g : Chain(s, p, m, g)}
  <1>1. Bad = {}
    <2> SUFFICES ASSUME Bad # {} PROVE FALSE
      OBVIOUS
    <2>1. PICK m \in Bad : \A n \in Bad : m <= n
      BY LeastNatural
    <2>2. m # 0
      <3> DEFINE g == [n \in 0 .. 0 |-> Start(s, p)]
      <3>1. Chain(s, p, 0, g)
        BY DEF Chain
      <3>2. QED
        BY <3>1, <2>1
    <2>3. PICK g : Chain(s, p, m - 1, g)
      BY <2>1, <2>2
    <2> DEFINE h == [n \in 0 .. m |-> IF n = 0 THEN Start(s, p) ELSE OneBroken(g[n - 1])]
    <2>4. ASSUME NEW n \in 0 .. m - 1 PROVE h[n] = g[n]
      BY <2>1, <2>3 DEF Chain
    <2>5. ASSUME NEW n \in 0 .. m, n # 0 PROVE h[n - 1] = g[n - 1]
      <3>1. n - 1 \in 0 .. m - 1
        BY <2>1, <2>5
      <3> HIDE DEF h
      <3>2. QED
        BY <2>4, <3>1
    <2>6. Chain(s, p, m, h)
      <3>1. ASSUME NEW n \in 0 .. m
            PROVE  h[n] = IF n = 0 THEN Start(s, p) ELSE OneBroken(h[n - 1])
        BY <2>5
      <3>2. QED
        BY <3>1 DEF Chain
    <2>7. QED
      BY <2>1, <2>6
  <1>2. QED
    BY <1>1

(* Broken is the last room of such a function.                             *)
LEMMA BrokenChain ==
    ASSUME NEW s, NEW p
    PROVE  \E g : /\ Chain(s, p, MaxChain, g)
                  /\ Broken(s, p) = [g[MaxChain].s EXCEPT
                                        !.block = @ \ g[MaxChain].air]
  <1> DEFINE g == CHOOSE h : Chain(s, p, MaxChain, h)
  <1>1. MaxChain \in Nat
    BY SpotsAssumption, FS_CardinalityType DEF MaxChain
  <1>2. Chain(s, p, MaxChain, g)
    BY <1>1, ChainExists
  <1>3. Broken(s, p) = [g[MaxChain].s EXCEPT !.block = @ \ g[MaxChain].air]
    BY DEF Broken, Chain, Start
  <1>4. QED
    BY <1>2, <1>3

\* A call too many does nothing.
LEMMA ChainStays ==
    ASSUME NEW s, NEW p, NEW m \in Nat, NEW g, Chain(s, p, m, g),
           NEW k \in 0 .. m, g[k].at = << >>
    PROVE  g[m] = g[k]
  <1> DEFINE Bad == {n \in Nat : k <= n /\ n <= m /\ g[n] # g[k]}
  <1>1. Bad = {}
    <2> SUFFICES ASSUME Bad # {} PROVE FALSE
      OBVIOUS
    <2>1. PICK n \in Bad : \A l \in Bad : n <= l
      BY LeastNatural
    <2>2. n # k /\ n - 1 \in 0 .. m /\ k <= n - 1 /\ n \in 0 .. m /\ n # 0
      BY <2>1
    <2>3. g[n - 1] = g[k]
      BY <2>1, <2>2
    <2>4. g[n] = OneBroken(g[n - 1])
      BY <2>2 DEF Chain
    <2>5. g[n] = g[n - 1]
      BY <2>3, <2>4 DEF OneBroken
    <2>6. QED
      BY <2>1, <2>3, <2>5
  <1>2. QED
    BY <1>1

(* onBroken comes to an end within MaxChain calls, as each but two of them
   takes away a chest: the recursion of the code ends, also when the chests
   are tangled.                                                             *)
LEMMA ChainEnds ==
    ASSUME NEW s0 \in Rooms, NEW p \in Spots, Sound(s0), p \in s0.block,
           Standing(s0, s0.block), NEW g, Chain(s0, p, MaxChain, g)
    PROVE  /\ g[MaxChain].at = << >>
           /\ RunOK(s0, g[MaxChain])
           /\ Tested(s0, p, TRUE).tangled => g[MaxChain].s.tangled
           /\ s0.tangled => g[MaxChain].s.tangled
  <1> DEFINE K == Cardinality(Spots)
             Count(r) == Cardinality(Listed(r.s))
             tangled == Tested(s0, p, TRUE).tangled
             OK(n) == /\ RunOK(s0, g[n])
                      /\ s0.tangled => g[n].s.tangled
                      /\ n > 0 /\ tangled => g[n].s.tangled
                      /\ \/ g[n].at = << >>
                         \/ Final(g[n]) /\ n <= K + 1
                         \/ Count(g[n]) + n <= K
             Bad == {n \in 0 .. MaxChain : ~OK(n)}
  <1>1. K \in Nat /\ MaxChain = K + 2
    BY SpotsAssumption, FS_CardinalityType DEF MaxChain
  <1>2. ASSUME NEW r
        PROVE  /\ IsFiniteSet(Listed(r.s)) /\ Count(r) \in Nat /\ Count(r) <= K
               /\ \A x \in Listed(r.s) : Cardinality(Listed(r.s) \ {x}) = Count(r) - 1
    <2>1. Listed(r.s) \subseteq Spots
      BY DEF Listed
    <2>2. QED
      BY <2>1, SpotsAssumption, FS_Subset, FS_CardinalityType, FS_RemoveElement
  <1>0. 0 .. MaxChain \subseteq Nat /\ MaxChain \in 0 .. MaxChain /\ 0 \in 0 .. MaxChain
    BY <1>1
  <1>b. g[0].s = s0 /\ g[0].at = p
    BY <1>0 DEF Chain, Start
  <1> HIDE DEF K, Count
  <1>3. ASSUME 0 \in Bad PROVE FALSE
    <2>1. g[0] = Start(s0, p)
      BY <1>1 DEF Chain
    <2>2. /\ g[0].s = s0 /\ g[0].at = p /\ g[0].air = {}
          /\ g[0] = [s |-> g[0].s, at |-> g[0].at, air |-> g[0].air]
      BY <2>1 DEF Start
    <2>3. RunOK(s0, g[0])
      BY <2>2 DEF RunOK, Listed, Standing
    <2>4. Count(g[0]) + 0 <= K
      BY <1>1, <1>2
    <2>5. QED
      BY <1>3, <2>2, <2>3, <2>4
  <1>4. ASSUME NEW n \in Bad, \A l \in Bad : n <= l PROVE FALSE
    <2>1. n # 0 /\ n \in 0 .. MaxChain /\ n \in Nat /\ ~OK(n)
      <3> HIDE DEF OK
      <3>1. QED
        BY <1>0, <1>3
    <2>a. n - 1 \in 0 .. MaxChain /\ MaxChain \in Nat
      BY <1>1, <2>1
    <2>2. OK(n - 1)
      <3>1. ~ n <= n - 1
        BY <2>1
      <3> HIDE DEF OK
      <3>2. QED
        BY <1>4, <2>a, <3>1
    <2>3. g[n] = OneBroken(g[n - 1])
      BY <2>1 DEF Chain
    <2>4. CASE g[n - 1].at = << >>
      <3>1. g[n] = g[n - 1]
        BY <2>3, <2>4 DEF OneBroken
      <3>2. n - 1 = 0 => g[n - 1].at = p
        BY <1>b, <2>1
      <3>3. n - 1 > 0
        BY <2>1, <2>4, <3>2, BesideFacts
      <3>4. QED
        BY <2>2, <2>4, <3>1, <3>3
    <2>5. CASE g[n - 1].at # << >>
      <3> DEFINE r == g[n - 1]
                 w == g[n]
      <3>1. /\ RunOK(s0, w)
            /\ Final(r) => w.at = << >>
            /\ r.s.tangled => Tested(r.s, r.at, TRUE).tangled
            /\ Tested(r.s, r.at, TRUE).tangled => w.s.tangled
            /\ \/ w.at = << >>
               \/ Final(w)
               \/ r.at \in Listed(r.s) /\ Listed(w.s) = Listed(r.s) \ {r.at}
        BY <2>2, <2>3, <2>5, OneBrokenStep
      <3>2. s0.tangled => w.s.tangled
        BY <2>2, <3>1
      <3>3. n > 0 /\ tangled => w.s.tangled
        <4>1. CASE n - 1 = 0
          <5>1. r.s = s0 /\ r.at = p
            BY <1>b, <2>1, <4>1
          <5>2. QED
            BY <3>1, <5>1
        <4>2. CASE n - 1 # 0
          <5>1. n - 1 > 0
            BY <2>1, <4>2
          <5>2. tangled => r.s.tangled
            BY <2>2, <5>1
          <5> HIDE DEF r, w, tangled
          <5>3. QED
            BY <3>1, <5>2
        <4>3. QED
          BY <4>1, <4>2
      <3>4. \/ w.at = << >>
            \/ Final(w) /\ n <= K + 1
            \/ Count(w) + n <= K
        <4>1. CASE w.at # << >> /\ ~Final(r)
          <5>1. Count(r) + (n - 1) <= K
            BY <2>2, <2>5, <4>1
          <5>2. n <= K + 1
            BY <1>1, <1>2, <2>1, <5>1
          <5>3. r.at \in Listed(r.s) /\ Listed(w.s) = Listed(r.s) \ {r.at}
                => Count(w) = Count(r) - 1
            BY <1>2 DEF Count
          <5>4. Count(r) \in Nat
            BY <1>2
          <5>5. QED
            BY <1>1, <2>1, <3>1, <4>1, <5>1, <5>2, <5>3, <5>4
        <4>2. QED
          BY <3>1, <4>1
      <3>5. QED
        BY <2>1, <3>1, <3>2, <3>3, <3>4
    <2>6. QED
      BY <2>4, <2>5
  <1>5. Bad = {}
    <2> HIDE DEF OK
    <2>1. Bad \in SUBSET Nat
      BY <1>0
    <2> HIDE DEF Bad
    <2>2. QED
      BY <1>4, <2>1, LeastNatural
  <1>6. OK(MaxChain)
    <2> HIDE DEF OK
    <2>1. QED
      BY <1>0, <1>5
  <1>7. MaxChain > 0 /\ ~ (MaxChain <= K + 1) /\ ~ (Count(g[MaxChain]) + MaxChain <= K)
    BY <1>1, <1>2
  <1>8. QED
    BY <1>6, <1>7

(* A broken chest leaves a sound room, and its items are on the ground.    *)
LEMMA BrokenEffect ==
    ASSUME NEW s \in Rooms, NEW p \in s.block, Sound(s), Standing(s, s.block)
    PROVE  LET w == Broken(s, p)
           IN  /\ w \in Rooms /\ Sound(w) /\ Standing(w, w.block)
               /\ w.window = s.window /\ w.hand = s.hand /\ w.pack = s.pack
               /\ w.down = s.down /\ w.altered = s.altered
               /\ Held(w) = Held(s)
  <1>1. p \in Spots
    BY DEF Rooms
  <1>2. PICK g : /\ Chain(s, p, MaxChain, g)
                 /\ Broken(s, p) = [g[MaxChain].s EXCEPT !.block = @ \ g[MaxChain].air]
    BY BrokenChain
  <1> DEFINE r == g[MaxChain]
             w == Broken(s, p)
  <1>3. r.at = << >> /\ RunOK(s, r)
    BY <1>1, <1>2, ChainEnds
  <1> HIDE DEF r
  <1>4. w = [r.s EXCEPT !.block = @ \ r.air]
    BY <1>2 DEF r
  <1> HIDE DEF w
  <1>5. r.s \in Rooms /\ Sound(r.s)
    BY <1>3 DEF RunOK
  <1>6. /\ w \in Rooms /\ w.data = r.s.data /\ w.block = r.s.block \ r.air
        /\ w.window = r.s.window /\ w.hand = r.s.hand /\ w.pack = r.s.pack
        /\ w.down = r.s.down /\ w.altered = r.s.altered /\ w.ground = r.s.ground
    BY <1>4, <1>5 DEF Rooms
  <1>7. Sound(w)
    BY <1>5, <1>6 DEF Sound, Cleared, Checked, Live, Touching, Large
  <1>8. Standing(w, w.block)
    <2>1. ASSUME NEW x \in Listed(r.s) PROVE x \in s.block \ r.air
      <3>1. x \in Spots /\ x # << >>
        BY BesideFacts DEF Listed
      <3>2. QED
        BY <1>3, <3>1 DEF RunOK
    <2>2. r.s.block = s.block
      BY <1>3 DEF RunOK
    <2>3. QED
      BY <1>6, <2>1, <2>2 DEF Listed, Standing
  <1>9. Held(w) = Held(r.s)
    BY <1>5, <1>6, SameItemsSameSum DEF SameItems
  <1>10. /\ r.s.window = s.window /\ r.s.hand = s.hand /\ r.s.pack = s.pack
         /\ r.s.down = s.down /\ r.s.altered = s.altered /\ Held(r.s) = Held(s)
    BY <1>3 DEF RunOK
  <1>11. QED
    BY <1>6, <1>7, <1>8, <1>9, <1>10 DEF w

(* What a window that looks into x sees of two rooms.                      *)
Views(s, t, x) ==
    /\ t.data[x].listed /\ t.data[x].checked
    /\ Large(t, x) <=> Large(s, x)
    /\ Content(t, x) = Content(s, x)

(* What a chest shows depends on its data and its partner's items.         *)
LEMMA SameContent ==
    ASSUME NEW s \in Rooms, NEW t \in Rooms, NEW x \in Spots,
           t.data[x].conn = s.data[x].conn, t.data[x].item = s.data[x].item,
           Large(s, x) => /\ t.data[x].top = s.data[x].top
                          /\ t.data[s.data[x].conn].item = s.data[s.data[x].conn].item
    PROVE  /\ Large(t, x) <=> Large(s, x)
           /\ Content(t, x) = Content(s, x)
  <1>1. Large(t, x) <=> Large(s, x)
    BY DEF Large
  <1>2. CASE ~Large(s, x)
    <2>1. Halves(s, x) = <<x>> /\ Halves(t, x) = <<x>>
      BY <1>1, <1>2 DEF Halves
    <2>2. DOMAIN <<x>> = {1} /\ <<x>>[1] = x
      OBVIOUS
    <2>3. QED
      BY <1>1, <2>1, <2>2 DEF Content
  <1>3. CASE Large(s, x)
    <2> DEFINE y == s.data[x].conn
    <2>1. /\ Halves(s, x) = Halves(t, x)
          /\ Halves(s, x) = <<x, y>> \/ Halves(s, x) = <<y, x>>
      BY <1>1, <1>3 DEF Halves
    <2>2. \A a, b : /\ DOMAIN <<a, b>> = {1, 2} /\ <<a, b>>[1] = a /\ <<a, b>>[2] = b
      OBVIOUS
    <2>3. \A i \in DOMAIN Halves(s, x) : Halves(s, x)[i] = x \/ Halves(s, x)[i] = y
      <3> HIDE DEF y
      <3>1. QED
        BY <2>1, <2>2
    <2>4. \A i \in DOMAIN Halves(s, x) :
              t.data[Halves(s, x)[i]].item = s.data[Halves(s, x)[i]].item
      BY <1>3, <2>3
    <2>5. QED
      BY <1>1, <2>1, <2>4 DEF Content
  <1>4. QED
    BY <1>2, <1>3

(* Who looks into a chest that was tested sees the same when another is.   *)
LEMMA TestedViews ==
    ASSUME NEW s \in Rooms, NEW p \in s.block, NEW breaking \in BOOLEAN, Sound(s),
           Standing(s, s.block), NEW x \in Spots, s.data[x].listed, s.data[x].checked,
           Settled(s) \/ x \notin Range(Beside(p))
    PROVE  Views(s, Tested(s, p, breaking), x)
  <1> DEFINE t == Tested(s, p, breaking)
  <1>1. s.data \in [Spots -> Half] /\ p \in Spots
    BY DEF Rooms
  <1>2. /\ t \in Rooms /\ SameItems(s, t)
        /\ t.data[x].listed /\ t.data[x].checked
        /\ Large(s, x) => /\ t.data[x].conn = s.data[x].conn
                          /\ t.data[x].top = s.data[x].top
        /\ x # p /\ Large(t, x) /\ ~Large(s, x) =>
                  ~Large(s, p) /\ x \in Range(Beside(p))
        /\ s.data[p].checked => t.data = s.data
    BY <1>1, TestedSound
  <1> HIDE DEF t
  <1>3. ~Large(s, x) => ~Large(t, x)
    <2> SUFFICES ASSUME ~Large(s, x), Large(t, x) PROVE FALSE
      OBVIOUS
    <2>1. x # p
      BY <1>2 DEF Large
    <2>2. ~Large(s, p) /\ x \in Range(Beside(p))
      BY <1>2, <2>1
    <2>3. p \in Range(Beside(x)) \cap s.block
      BY <1>1, <2>2, BesideFacts
    <2>4. QED
      BY <2>2, <2>3 DEF Settled
  <1>4. t.data[x].conn = s.data[x].conn
    BY <1>2, <1>3 DEF Large
  <1>5. Large(s, x) => s.data[x].conn \in Spots
    BY <1>1 DEF Large, Half
  <1>6. Views(s, t, x)
    BY <1>2, <1>4, <1>5, SameContent DEF SameItems, Views
  <1>7. QED
    BY <1>6 DEF t

(* What is left when the chests D of a room with data d are broken.        *)
Falling(t, p) == IF Large(t, p) THEN {p, t.data[p].conn} ELSE {p}
Without(d, D) == [x \in Spots |-> IF x \in D THEN NoData ELSE d[x]]

(* Taking away a chest with its partner leaves the others joined as they
   were.                                                                   *)
LEMMA WithoutCalm ==
    ASSUME NEW t \in Rooms, NEW w \in Rooms, NEW p \in Spots, Mirrored(t),
           NEW D, D = Falling(t, p),
           w.data = Without(t.data, D), w.block = t.block \ D
    PROVE  /\ Mirrored(w) /\ (Settled(t) => Settled(w))
           /\ \A x \in Spots \ D :
                  /\ w.data[x] = t.data[x]
                  /\ Large(t, x) => w.data[t.data[x].conn] = t.data[t.data[x].conn]
  <1>1. /\ t.data \in [Spots -> Half] /\ t.block \subseteq Spots
        /\ w.block \subseteq Spots
    BY DEF Rooms
  <1>2. \A x \in Spots : Large(w, x) => x \notin D /\ Large(t, x)
    BY DEF Without, Large, NoData, NewData
  <1>3. \A x \in Spots \ D : w.data[x] = t.data[x]
    BY DEF Without
  <1>4. ASSUME NEW x \in Spots \ D, Large(t, x)
        PROVE  w.data[t.data[x].conn] = t.data[t.data[x].conn] /\ Mirror(t, x)
    <2>1. Mirror(t, x) /\ t.data[x].conn \in Spots
      BY <1>1, <1>4 DEF Mirrored, Large, Half
    <2>2. Large(t, p) => t.data[t.data[p].conn].conn = p
      BY DEF Mirrored, Mirror
    <2>3. t.data[t.data[x].conn].conn = x /\ x # << >> /\ x # p
      <3>1. p \in D
        BY DEF Falling
      <3>2. QED
        BY <2>1, <1>4, <3>1, BesideFacts DEF Mirror
    <2>4. t.data[x].conn \notin D
      BY <1>4, <2>3, <2>2 DEF Large, Falling
    <2>5. QED
      BY <1>3, <2>1, <2>4
  <1>a. ASSUME NEW x \in Spots, Large(w, x) PROVE Mirror(w, x)
    <2>1. x \in Spots \ D /\ Large(t, x) /\ w.data[x] = t.data[x]
      BY <1>2, <1>3, <1>a
    <2>2. w.data[w.data[x].conn] = t.data[t.data[x].conn] /\ Mirror(t, x)
      BY <1>4, <2>1
    <2>3. QED
      BY <2>1, <2>2 DEF Mirror
  <1>5. ASSUME Settled(t), NEW x \in Spots,
               w.data[x].listed, w.data[x].checked, ~Large(w, x),
               NEW y \in Range(Beside(x)) \cap w.block
        PROVE  Large(w, y)
    <2>1. x \notin D
      BY <1>5 DEF Without, NoData, NewData
    <2>2. ~Large(t, x) /\ w.data[x] = t.data[x]
      BY <1>3, <1>5, <2>1 DEF Large
    <2>3. Large(t, y) /\ y \in Spots \ D
      BY <1>1, <1>5, <2>2 DEF Settled
    <2>4. QED
      BY <1>3, <2>3 DEF Large
  <1>6. QED
    BY <1>3, <1>4, <1>a, <1>5 DEF Mirrored, Settled

(* If nothing is tangled, breaking takes away a chest and its partner and
   nothing else, and windows onto other chests show what they did.          *)
LEMMA BrokenCalm ==
    ASSUME NEW s \in Rooms, NEW p \in s.block, Sound(s), Standing(s, s.block),
           ~Broken(s, p).tangled
    PROVE  LET w == Broken(s, p)
           IN  /\ ~s.tangled
               /\ Mirrored(s) => Mirrored(w)
               /\ Mirrored(s) /\ Settled(s) => Settled(w)
               /\ Mirrored(s) => \A x \in Spots \ ({p} \cup Range(Beside(p))) :
                      s.data[x].listed /\ s.data[x].checked => Views(s, w, x)
  <1> DEFINE breaking == TRUE
             t == Tested(s, p, breaking)
             q == t.data[p].conn
             D == IF Large(t, p) THEN {p, q} ELSE {p}
             w == Broken(s, p)
             out == Erased(t, p)
  <1>0. breaking \in BOOLEAN /\ p \in Spots
    BY DEF Rooms
  <1>1. PICK g : /\ Chain(s, p, MaxChain, g)
                 /\ w = [g[MaxChain].s EXCEPT !.block = @ \ g[MaxChain].air]
    BY BrokenChain
  <1>2. /\ g[MaxChain].at = << >> /\ RunOK(s, g[MaxChain])
        /\ t.tangled => g[MaxChain].s.tangled
        /\ s.tangled => g[MaxChain].s.tangled
    BY <1>0, <1>1, ChainEnds
  <1>3. w.tangled = g[MaxChain].s.tangled
    BY <1>1, <1>2 DEF RunOK, Rooms
  <1>4. ~t.tangled /\ ~s.tangled
    BY <1>2, <1>3
  <1>5. w \in Rooms
    BY BrokenEffect
  <1> HIDE DEF w
  <1>6. MaxChain \in Nat /\ 0 \in 0 .. MaxChain /\ 1 \in 0 .. MaxChain
        /\ 2 \in 0 .. MaxChain
    BY SpotsAssumption, FS_CardinalityType DEF MaxChain
  <1>7. g[0] = [s |-> s, at |-> p, air |-> {}]
    BY <1>1, <1>6 DEF Chain, Start
  <1>8. g[1] = OneBroken(g[0]) /\ g[2] = OneBroken(g[1])
    BY <1>1, <1>6 DEF Chain
  <1>9. g[1] = [s |-> IF q = << >> \/ t.data[p].gone THEN out
                      ELSE [out EXCEPT !.data[q].conn = << >>, !.data[q].gone = FALSE],
                at |-> q, air |-> {p}]
    <2>1. g[0].s = s /\ g[0].at = p /\ g[0].air = {} /\ p # << >>
      BY <1>0, <1>7, BesideFacts
    <2>2. QED
      BY <1>8, <2>1 DEF OneBroken
  <1> HIDE DEF breaking, t, out
  <1>10. /\ t \in Rooms /\ Frame(s, t) /\ Sound(t)
         /\ t.data[p].listed /\ t.data[p].checked
    BY <1>0, TestedSound DEF t
  <1>11. /\ Mirrored(s) => Mirrored(t)
         /\ Mirrored(s) /\ Settled(s) => Settled(t)
    BY <1>0, <1>4, TestedCalm DEF t
  <1>12. /\ out \in Rooms /\ out.block = t.block
         /\ out.data[p] = NoData
         /\ \A x \in Spots \ {p} :
                out.data[x] = IF t.data[x].conn = p
                              THEN [t.data[x] EXCEPT !.gone = TRUE] ELSE t.data[x]
    BY <1>0, <1>10, ErasedEffect DEF out
  <1>13. t.data \in [Spots -> Half] /\ out.data \in [Spots -> Half]
    BY <1>10, <1>12 DEF Rooms
  <1>14. ASSUME Mirrored(t) PROVE w.data = Without(t.data, D) /\ w.block = t.block \ D
    <2>1. CASE ~Large(t, p)
      <3>1. q = << >>
        BY <2>1 DEF Large
      <3>2. g[1] = [s |-> out, at |-> << >>, air |-> {p}]
        BY <1>9, <3>1
      <3>3. g[MaxChain] = g[1]
        BY <1>1, <1>6, <3>2, ChainStays
      <3>4. w = [out EXCEPT !.block = @ \ {p}]
        BY <1>1, <3>2, <3>3
      <3>5. w.data = out.data /\ w.block = t.block \ {p}
        BY <1>12, <3>4 DEF Rooms
      <3>6. \A x \in Spots : t.data[x].conn # p
        BY <1>0, <1>14, <2>1, BesideFacts DEF Mirrored, Mirror, Large
      <3>7. QED
        BY <1>12, <1>13, <2>1, <3>5, <3>6 DEF Without
    <2>2. CASE Large(t, p)
      <3>1. q \in Spots /\ q # p /\ q # << >>
        BY <1>0, <1>13, <1>14, <2>2, BesideFacts DEF Mirrored, Mirror, Large, Half
      <3>2. /\ t.data[q].conn = p /\ ~t.data[q].gone /\ t.data[q].listed
            /\ \A x \in Spots : t.data[x].conn = p => x = q
            /\ \A x \in Spots : t.data[x].conn = q => x = p
            /\ ~t.data[p].gone
        BY <1>0, <1>14, <2>2, <3>1, BesideFacts DEF Mirrored, Mirror, Large
      <3> DEFINE h == [out.data[q] EXCEPT !.conn = << >>, !.gone = FALSE]
                 s1 == [out EXCEPT !.data[q].conn = << >>, !.data[q].gone = FALSE]
      <3>3. g[1] = [s |-> s1, at |-> q, air |-> {p}]
        BY <1>9, <3>1, <3>2
      <3>4. h \in Half /\ h.conn = << >>
        <4>1. \A k \in Half : /\ [k EXCEPT !.conn = << >>, !.gone = FALSE] \in Half
                             /\ [k EXCEPT !.conn = << >>, !.gone = FALSE].conn = << >>
          BY DEF Half
        <4>2. QED
          BY <1>13, <3>1, <4>1
      <3>5. /\ s1 \in Rooms /\ s1.data = [out.data EXCEPT ![q] = h]
            /\ s1.block = out.block
        BY <1>12, <1>13, <3>1, <3>4 DEF Rooms
      <3>6. RunOK(s, g[1]) /\ s1.data[q].checked
        <4>1. RunOK(s, g[0])
          <5>1. g[0].s = s /\ g[0].at = p /\ g[0].air = {}
            BY <1>7
          <5>2. QED
            BY <1>0, <1>7, <5>1 DEF RunOK, Listed, Standing
        <4>2. RunOK(s, g[1])
          <5>1. g[0].at = p /\ p # << >>
            BY <1>0, <1>7, BesideFacts
          <5>2. RunOK(s, OneBroken(g[0]))
            BY <4>1, <5>1, OneBrokenStep
          <5>3. QED
            BY <1>8, <5>2
        <4>3. out.data[q].checked /\ h.checked = out.data[q].checked
          <5>1. t.data[q].checked
            BY <1>10, <3>1, <3>2, BesideFacts, <1>0 DEF Sound, Checked, Large
          <5>2. QED
            BY <1>12, <1>13, <3>1, <5>1 DEF Half
        <4>4. QED
          BY <3>1, <3>5, <4>2, <4>3, <1>13
      <3>7. Sound(s1)
        <4>1. g[1].s = s1
          BY <3>3
        <4>2. QED
          BY <3>6, <4>1 DEF RunOK
      <3> HIDE DEF h, s1
      <3> DEFINE t1 == Tested(s1, q, breaking)
      <3>8. t1 \in Rooms /\ Frame(s1, t1) /\ t1.data = s1.data
        <4> HIDE DEF q
        <4>1. s1 \in Rooms /\ q \in Spots /\ breaking \in BOOLEAN /\ Sound(s1)
          BY <1>0, <3>1, <3>5, <3>7
        <4>2. /\ t1 \in Rooms /\ Frame(s1, t1)
              /\ s1.data[q].checked => t1.data = s1.data /\ t1.tangled = s1.tangled
          BY <4>1, TestedSound
        <4>3. QED
          BY <3>6, <4>2
      <3>9. g[2] = [s |-> Erased(t1, q), at |-> << >>, air |-> {p, q}]
        <4>1. t1.data[q].conn = << >>
          BY <1>13, <3>1, <3>4, <3>5, <3>8
        <4>2. g[1].s = s1 /\ g[1].at = q /\ g[1].air = {p}
          BY <3>3
        <4>3. QED
          BY <1>8, <3>1, <4>1, <4>2 DEF OneBroken, breaking
      <3> HIDE DEF t1
      <3>10. LET u == Erased(t1, q)
             IN  /\ u \in Rooms /\ u.block = t1.block /\ u.data[q] = NoData
                 /\ \A x \in Spots \ {q} :
                        u.data[x] = IF t1.data[x].conn = q
                                    THEN [t1.data[x] EXCEPT !.gone = TRUE]
                                    ELSE t1.data[x]
        BY <3>1, <3>8, ErasedEffect
      <3> DEFINE u == Erased(t1, q)
      <3>y. \A x \in Spots \ {q} : t1.data[x].conn # q => u.data[x] = t1.data[x]
        BY <3>10
      <3>11. g[MaxChain] = g[2]
        BY <1>1, <1>6, <3>9, ChainStays
      <3>12. w = [u EXCEPT !.block = @ \ {p, q}]
        BY <1>1, <3>9, <3>11
      <3> HIDE DEF u
      <3>13. w.data = u.data /\ w.block = t.block \ {p, q}
        <4>1. u \in Rooms /\ u.block = t1.block
          BY <3>10 DEF u
        <4>2. w.data = u.data /\ w.block = u.block \ {p, q}
          BY <3>12, <4>1 DEF Rooms
        <4>3. t1.block = s1.block
          BY <3>8 DEF Frame
        <4>4. s1.block = t.block
          BY <1>12, <3>5 DEF Frame
        <4>5. QED
          BY <4>1, <4>2, <4>3, <4>4
      <3>14. ASSUME NEW x \in Spots
             PROVE  w.data[x] = IF x \in {p, q} THEN NoData ELSE t.data[x]
        <4>1. CASE x = q
          BY <3>10, <3>13, <4>1 DEF u
        <4>2. CASE x # q
          <5>1. t1.data[x] = out.data[x]
            BY <1>13, <3>5, <3>8, <4>2
          <5>2. CASE x = p
            <6>1. out.data[x] = NoData /\ x # q /\ NoData.conn # q
              BY <1>12, <3>1, <5>2 DEF NoData, NewData
            <6>2. u.data[x] = NoData
              BY <3>y, <5>1, <6>1, <4>2
            <6>3. QED
              BY <3>13, <5>2, <6>2
          <5>3. CASE x # p
            <6>1. out.data[x] = t.data[x]
              BY <1>12, <3>2, <4>2, <5>3
            <6>2. QED
              BY <3>2, <3>10, <3>13, <4>2, <5>1, <5>3, <6>1, ZenonT(60) DEF u
          <5>4. QED
            BY <5>2, <5>3
        <4>3. QED
          BY <4>1, <4>2
      <3>15. w.data \in [Spots -> Half]
        BY <1>5 DEF Rooms
      <3>16. QED
        BY <2>2, <3>13, <3>14, <3>15 DEF Without
    <2>3. QED
      BY <2>1, <2>2
  <1>a. D \subseteq {p} \cup Range(Beside(p))
    BY <1>0, <1>10 DEF Sound, Touching
  <1> HIDE DEF D
  <1>15. ASSUME Mirrored(t)
         PROVE  /\ Mirrored(w) /\ (Settled(t) => Settled(w))
                /\ \A x \in Spots \ D :
                       /\ w.data[x] = t.data[x]
                       /\ Large(t, x) => w.data[t.data[x].conn] = t.data[t.data[x].conn]
    <2>1. D = Falling(t, p)
      BY DEF D, Falling
    <2>2. /\ t \in Rooms /\ w \in Rooms /\ p \in Spots
          /\ w.data = Without(t.data, D) /\ w.block = t.block \ D
      BY <1>0, <1>5, <1>10, <1>14, <1>15
    <2>3. QED
      BY <1>15, <2>1, <2>2, WithoutCalm
  <1>16. ASSUME Mirrored(s), NEW x \in Spots \ ({p} \cup Range(Beside(p))),
                s.data[x].listed, s.data[x].checked
         PROVE  Views(s, w, x)
    <2>1. Views(s, t, x)
      BY <1>0, <1>16, TestedViews DEF t
    <2>2. /\ w.data[x] = t.data[x]
          /\ Large(t, x) => w.data[t.data[x].conn] = t.data[t.data[x].conn]
      BY <1>a, <1>11, <1>15, <1>16
    <2>3. (Large(w, x) <=> Large(t, x)) /\ Content(w, x) = Content(t, x)
      BY <1>5, <1>10, <2>2, SameContent
    <2>4. QED
      BY <2>1, <2>2, <2>3 DEF Views
  <1>17. QED
    BY <1>4, <1>11, <1>15, <1>16 DEF w

-----------------------------------------------------------------------------
(* A new chest joins its neighbour or is refused; no other chest changes.  *)
LEMMA PlacedEffect ==
    ASSUME NEW s \in Rooms, NEW p \in Spots \ s.block, Sound(s), Standing(s, s.block)
    PROVE  LET w == Placed(s, p)
           IN  /\ w \in Rooms /\ Sound(w) /\ Standing(w, w.block)
               /\ w.window = s.window /\ w.hand = s.hand /\ w.pack = s.pack
               /\ w.down = s.down /\ w.altered = s.altered /\ w.ground = s.ground
               /\ w.tangled = s.tangled
               /\ SameItems(s, w)
               /\ \A x \in Spots \ ({p} \cup Range(Beside(p))) : w.data[x] = s.data[x]
               /\ Mirrored(s) => Mirrored(w)
               /\ Mirrored(s) /\ Settled(s) => Settled(w)
  <1> DEFINE w == Placed(s, p)
             q == Nearest(s, p)
             alone == Joinable(s, p) = {}
             s1 == [s EXCEPT !.block = @ \cup {p}, !.data[p] = NewData]
             s2 == Known(s1, q)
             top == Before(q, p)
             low == ~top
             s3 == IF alone THEN s1 ELSE Joined(s2, p, q, top)
             refused == ~alone /\ HasData(s, q) /\ Large(s, q)
             placed == [s3 EXCEPT !.data[p].checked = TRUE]
  <1>0. /\ s.data \in [Spots -> Half] /\ s.block \subseteq Spots /\ p \in Spots
        /\ \A x \in Spots : ~s.data[x].listed => s.data[x] = NoData
        /\ \A x \in Spots : s.data[x].listed => x \in s.block
        /\ s.data[p] = NoData
    BY DEF Rooms, Sound, Cleared, Standing
  <1>1. w = IF refused THEN s ELSE placed
    BY DEF Placed
  <1>2. /\ s1 \in Rooms /\ s1.block = s.block \cup {p}
        /\ s1.data = [s.data EXCEPT ![p] = NewData]
        /\ s1.window = s.window /\ s1.hand = s.hand /\ s1.pack = s.pack
        /\ s1.down = s.down /\ s1.altered = s.altered /\ s1.ground = s.ground
        /\ s1.tangled = s.tangled
    BY <1>0, NoHalf DEF Rooms
  <1>3. ASSUME ~alone PROVE q \in s.block /\ q \in Spots /\ q # p /\ q \in Range(Beside(p))
    <2> HIDE DEF q
    <2>1. QED
      BY <1>0, <1>3, NearestFacts DEF q
  <1>4. /\ NewData.conn = << >> /\ ~NewData.gone /\ NewData.listed /\ ~NewData.checked
        /\ NoData.conn = << >> /\ ~NoData.gone /\ ~NoData.listed /\ ~NoData.checked
        /\ NewData.item = NoData.item
    BY DEF NewData, NoData
  <1> HIDE DEF w, q, s1, placed
  <1>5. CASE refused
    BY <1>0, <1>1, <1>5 DEF SameItems, w
  <1>6. CASE ~refused /\ alone
    <2> DEFINE new == [NewData EXCEPT !.checked = TRUE]
    <2>1. /\ new \in Half /\ new.conn = << >> /\ ~new.gone /\ new.listed /\ new.checked
          /\ new.item = NoData.item
      BY NoHalf, <1>4 DEF NewData, Half
    <2>2. w = [s1 EXCEPT !.data[p].checked = TRUE]
      BY <1>1, <1>6 DEF placed
    <2>3. /\ w \in Rooms /\ w.block = s.block \cup {p}
          /\ w.data = [s.data EXCEPT ![p] = new]
          /\ w.window = s.window /\ w.hand = s.hand /\ w.pack = s.pack
          /\ w.down = s.down /\ w.altered = s.altered /\ w.ground = s.ground
          /\ w.tangled = s.tangled
      <3> HIDE DEF new
      <3>1. s1.data[p] = NewData /\ [NewData EXCEPT !.checked = TRUE] = new
        BY <1>0, <1>2 DEF new
      <3>2. w = [s1 EXCEPT !.data = [s.data EXCEPT ![p] = new]]
        <4>1. [s1.data EXCEPT ![p].checked = TRUE] = [s.data EXCEPT ![p] = new]
          BY <1>0, <1>2, <3>1
        <4>2. QED
          BY <2>2, <4>1
      <3>3. [s.data EXCEPT ![p] = new] \in [Spots -> Half]
        BY <1>0, <2>1
      <3>4. QED
        BY <1>2, <3>2, <3>3 DEF Rooms
    <2> HIDE DEF new
    <2>4. /\ w.data[p] = new
          /\ \A x \in Spots \ {p} : w.data[x] = s.data[x]
      BY <1>0, <2>3
    <2>5. \A x \in Spots : Large(w, x) => Large(s, x) /\ x # p
      BY <2>1, <2>4 DEF Large
    <2>6. \A x \in Spots : Large(s, x) => Large(w, x) /\ x # p
      BY <1>0, <1>4, <2>4 DEF Large
    <2>7. Sound(w)
      <3>1. Cleared(w) /\ Checked(w) /\ Touching(w)
        BY <2>1, <2>4, <2>5 DEF Sound, Cleared, Checked, Touching, Large
      <3>2. Live(w)
        <4> SUFFICES ASSUME NEW x \in Spots, Large(w, x), ~w.data[x].gone
                     PROVE  w.data[w.data[x].conn].listed /\ w.data[w.data[x].conn].checked
          BY DEF Live
        <4>1. w.data[x] = s.data[x] /\ Large(s, x)
          BY <2>4, <2>5
        <4>2. s.data[s.data[x].conn].listed /\ s.data[s.data[x].conn].checked
              /\ s.data[x].conn \in Spots
          BY <1>0, <4>1 DEF Sound, Live, Large, Half
        <4>3. s.data[x].conn # p
          BY <1>0, <1>4, <4>2
        <4>4. QED
          BY <2>4, <4>1, <4>2, <4>3
      <3>3. QED
        BY <3>1, <3>2 DEF Sound
    <2>8. Standing(w, w.block) /\ SameItems(s, w)
      BY <1>0, <2>1, <2>3, <2>4 DEF Standing, SameItems
    <2>9. ASSUME Mirrored(s), NEW x \in Spots, Large(w, x) PROVE Mirror(w, x)
      <3>1. Large(s, x) /\ x # p /\ Mirror(s, x) /\ w.data[x] = s.data[x]
        BY <2>4, <2>5, <2>9 DEF Mirrored
      <3>2. s.data[x].conn \in Spots /\ s.data[x].conn # p
        BY <1>0, <1>4, <3>1 DEF Mirror, Large, Half
      <3>3. QED
        BY <2>4, <3>1, <3>2 DEF Mirror
    <2>10. ASSUME Settled(s), NEW x \in Spots,
                  w.data[x].listed, w.data[x].checked, ~Large(w, x),
                  NEW y \in Range(Beside(x)) \cap w.block
           PROVE  Large(w, y)
      <3>0. y \in Spots /\ y \in s.block \cup {p}
        BY <1>0, <2>3
      <3>1. CASE x = p
        <4>1. y \in s.block
          BY <3>0, <3>1, BesideFacts
        <4>2. QED
          BY <3>1, <4>1, <1>6, Neighbour
      <3>2. CASE x # p /\ y = p
        <4>1. x \in Range(Beside(p)) /\ x \in s.block
          BY <1>0, <2>4, <2>10, <3>2, BesideFacts
        <4>2. QED
          BY <4>1, <1>6, Neighbour
      <3>3. CASE x # p /\ y # p
        <4>1. Large(s, y)
          BY <2>4, <2>6, <2>10, <3>0, <3>3 DEF Settled
        <4>2. QED
          BY <2>6, <3>0, <4>1
      <3>4. QED
        BY <3>1, <3>2, <3>3
    <2>11. QED
      BY <2>3, <2>4, <2>7, <2>8, <2>9, <2>10 DEF Mirrored, Settled, w
  <1>7. CASE ~refused /\ ~alone
    <2>1. q \in s.block /\ q \in Spots /\ q # p /\ q \in Range(Beside(p))
          /\ p \in Range(Beside(q))
      BY <1>0, <1>3, <1>7, BesideFacts
    <2>2. top \in BOOLEAN
      BY DEF Before
    <2>3. ~Large(s, q)
      BY <1>0, <1>4, <1>7, <2>1 DEF HasData, Large
    <2>4. /\ s2 \in Rooms /\ Frame(s1, s2) /\ s2.tangled = s1.tangled
          /\ s2.data = [s1.data EXCEPT ![q] = IF s1.data[q].listed THEN @ ELSE NewData]
      BY <1>2, <2>1, KnownEffect
    <2> HIDE DEF s2, top
    <2>5. s2.data \in [Spots -> Half] /\ s2.data[p] = NewData
          /\ s2.data[q] = Fresh(s, q)
          /\ \A x \in Spots \ {p, q} : s2.data[x] = s.data[x]
      BY <1>0, <1>2, <2>1, <2>4 DEF Rooms, Fresh
    <2>6. /\ Fresh(s, q) \in Half /\ Fresh(s, q).conn = s.data[q].conn
          /\ Fresh(s, q).item = s.data[q].item
      BY <1>0, <1>4, <2>1, NoHalf DEF Fresh
    <2>7. ~Large(s2, p) /\ ~Large(s2, q)
      BY <1>4, <2>3, <2>5, <2>6 DEF Large
    <2>8. s3 = Joined(s2, p, q, top)
      BY <1>7
    <2> HIDE DEF s3
    <2>9. /\ s3 \in Rooms /\ Frame(s2, s3) /\ s3.tangled = s2.tangled
          /\ s3.data = [x \in Spots |->
                IF x = p /\ ~Large(s2, p) THEN Linked(s2.data[p], q, low)
                ELSE IF x = q /\ ~Large(s2, q) THEN Linked(s2.data[q], p, top)
                ELSE s2.data[x]]
      <3>1. s2 \in Rooms /\ p \in Spots /\ q \in Spots /\ p # q /\ top \in BOOLEAN
        BY <1>0, <2>1, <2>2, <2>4
      <3>2. QED
        BY <2>8, <3>1, JoinedEffect
    <2>a. low \in BOOLEAN
      BY <2>2
    <2> HIDE DEF low
    <2>10. /\ s3.data[p] = Linked(NewData, q, low)
           /\ s3.data[q] = Linked(Fresh(s, q), p, top)
           /\ \A x \in Spots \ {p, q} : s3.data[x] = s.data[x]
           /\ s3.data \in [Spots -> Half]
      BY <1>0, <2>1, <2>5, <2>7, <2>9 DEF Rooms
    <2>11. /\ s3.data[p].conn = q /\ ~s3.data[p].gone /\ s3.data[p].listed
           /\ s3.data[p].checked = TRUE /\ s3.data[p].item = s.data[p].item
           /\ s3.data[p].top = low
      BY <1>0, <1>4, <2>10, NoHalf DEF Linked, NewData
    <2>12. /\ s3.data[q].conn = p /\ ~s3.data[q].gone /\ s3.data[q].listed
           /\ s3.data[q].checked /\ s3.data[q].item = s.data[q].item
           /\ s3.data[q].top = top
      <3>1. Fresh(s, q).listed
        BY <1>4 DEF Fresh
      <3>2. QED
        BY <2>6, <2>10, <3>1 DEF Linked, Half
    <2>13. /\ w \in Rooms /\ w.data = s3.data /\ w.block = s3.block
           /\ w.window = s3.window /\ w.hand = s3.hand /\ w.pack = s3.pack
           /\ w.down = s3.down /\ w.altered = s3.altered /\ w.ground = s3.ground
           /\ w.tangled = s3.tangled
      <3>1. w = [s3 EXCEPT !.data[p].checked = TRUE]
        BY <1>1, <1>7 DEF placed
      <3>2. s3.data[p] \in Half
        BY <1>0, <2>10
      <3>3. [s3.data[p] EXCEPT !.checked = TRUE] = s3.data[p]
        BY <2>11, <3>2 DEF Half
      <3>4. [s3.data EXCEPT ![p].checked = TRUE] = s3.data
        BY <1>0, <2>10, <3>3
      <3>5. QED
        BY <2>9, <3>1, <3>4 DEF Rooms
    <2>14. /\ w.block = s.block \cup {p}
           /\ w.window = s.window /\ w.hand = s.hand /\ w.pack = s.pack
           /\ w.down = s.down /\ w.altered = s.altered /\ w.ground = s.ground
           /\ w.tangled = s.tangled
      BY <1>2, <2>4, <2>9, <2>13 DEF Frame
    <2>15. Large(w, p) /\ Large(w, q) /\ ~Large(s, p)
           /\ \A x \in Spots \ {p, q} : w.data[x] = s.data[x] /\ (Large(w, x) <=> Large(s, x))
      BY <1>0, <1>4, <2>1, <2>10, <2>11, <2>12, <2>13, BesideFacts DEF Large
    <2>16. Sound(w)
      <3>1. Cleared(w) /\ Checked(w)
        BY <2>11, <2>12, <2>13, <2>15 DEF Sound, Cleared, Checked
      <3>2. Touching(w)
        BY <2>1, <2>11, <2>12, <2>13, <2>15 DEF Sound, Touching
      <3>3. Live(w)
        <4> SUFFICES ASSUME NEW x \in Spots, Large(w, x), ~w.data[x].gone
                     PROVE  w.data[w.data[x].conn].listed /\ w.data[w.data[x].conn].checked
          BY DEF Live
        <4>1. CASE w.data[x].conn \in {p, q}
          BY <2>11, <2>12, <2>13, <4>1
        <4>2. CASE w.data[x].conn \notin {p, q}
          <5>1. x \notin {p, q} /\ w.data[x] = s.data[x] /\ Large(s, x)
            BY <2>11, <2>12, <2>13, <2>15, <4>2
          <5>2. s.data[s.data[x].conn].listed /\ s.data[s.data[x].conn].checked
                /\ s.data[x].conn \in Spots
            BY <1>0, <5>1 DEF Sound, Live, Large, Half
          <5>3. QED
            BY <2>15, <4>2, <5>1, <5>2
        <4>3. QED
          BY <4>1, <4>2
      <3>4. QED
        BY <3>1, <3>2, <3>3 DEF Sound
    <2>17. Standing(w, w.block) /\ SameItems(s, w)
      BY <1>0, <2>1, <2>11, <2>12, <2>13, <2>14, <2>15 DEF Standing, SameItems
    <2>18. ASSUME Mirrored(s), NEW x \in Spots, Large(w, x) PROVE Mirror(w, x)
      <3>1. CASE x = p
        BY <2>1, <2>2, <2>11, <2>12, <2>13, <3>1 DEF Mirror, low
      <3>2. CASE x = q
        BY <2>1, <2>2, <2>11, <2>12, <2>13, <3>2 DEF Mirror, low
      <3>3. CASE x \notin {p, q}
        <4>1. Large(s, x) /\ Mirror(s, x) /\ w.data[x] = s.data[x]
          BY <2>15, <2>18, <3>3 DEF Mirrored
        <4>2. s.data[x].conn \in Spots /\ s.data[x].conn \notin {p, q}
          BY <1>0, <1>4, <2>3, <4>1, BesideFacts DEF Mirror, Large, Half
        <4>3. QED
          BY <2>15, <4>1, <4>2 DEF Mirror
      <3>4. QED
        BY <3>1, <3>2, <3>3
    <2>19. ASSUME Settled(s), NEW x \in Spots,
                  w.data[x].listed, w.data[x].checked, ~Large(w, x),
                  NEW y \in Range(Beside(x)) \cap w.block
           PROVE  Large(w, y)
      <3>1. x \notin {p, q} /\ ~Large(s, x) /\ w.data[x] = s.data[x]
            /\ y \in Spots /\ y \in s.block \cup {p}
        BY <1>0, <2>14, <2>15, <2>19
      <3>2. CASE y = p
        BY <2>15, <3>2
      <3>3. CASE y # p
        BY <2>15, <2>19, <3>1, <3>3 DEF Settled
      <3>4. QED
        BY <3>2, <3>3
    <2>20. QED
      BY <2>1, <2>13, <2>14, <2>15, <2>16, <2>17, <2>18, <2>19 DEF Mirrored, Settled, w
  <1>8. QED
    BY <1>5, <1>6, <1>7

-----------------------------------------------------------------------------
(* The invariant.                                                          *)

RoomOK(s) ==
    /\ s \in Rooms /\ Sound(s) /\ Standing(s, s.block)
    /\ ~s.tangled => Mirrored(s) /\ Settled(s)
Seen(s, w, c) ==
    /\ w.p \in Spots /\ s.data[w.p].listed /\ s.data[w.p].checked
    /\ w.large <=> Large(s, w.p)
    /\ c = Content(s, w.p)
Watched(s, sh) ==
    ~s.tangled /\ ~s.altered /\ ~s.down =>
        \A u \in Visitor : s.window[u] # NoWindow => Seen(s, s.window[u], sh[u])

(* The inductive invariant: the room is in order, and what each window shows
   is what a window onto that chest should show.                             *)
ChestIInv ==
    /\ RoomOK(chests)
    /\ shown = [u \in Visitor |-> shown[u]]
    /\ Watched(chests, shown)

Counts(f) == [u \in Visitor |-> f[u].n]
Total(s) == Held(s) + SumFunction(Counts(s.hand)) + SumFunction(Counts(s.pack))

(* What RoomOK and Seen say depends on the data and the blocks.            *)
LEMMA SameData ==
    ASSUME NEW s \in Rooms, NEW t \in Rooms, RoomOK(s), t.data = s.data,
           t.block = s.block, ~t.tangled => ~s.tangled
    PROVE  /\ RoomOK(t)
           /\ \A w, c : Seen(s, w, c) => Seen(t, w, c)
  <1>1. \A x : Large(t, x) <=> Large(s, x)
    BY DEF Large
  <1>2. ASSUME NEW x PROVE Content(t, x) = Content(s, x)
    <2>1. Halves(t, x) = Halves(s, x)
      BY <1>1 DEF Halves
    <2>2. QED
      BY <2>1 DEF Content
  <1>3. Sound(t)
    BY <1>1 DEF RoomOK, Sound, Cleared, Checked, Live, Touching
  <1>4. Standing(t, t.block)
    BY DEF RoomOK, Standing
  <1>5. Mirrored(s) => Mirrored(t)
    <2>1. \A x : Mirror(s, x) => Mirror(t, x)
      BY DEF Mirror
    <2>2. QED
      BY <1>1, <2>1 DEF Mirrored
  <1>6. Settled(s) => Settled(t)
    BY <1>1 DEF Settled
  <1>7. QED
    BY <1>1, <1>2, <1>3, <1>4, <1>5, <1>6 DEF RoomOK, Seen

(* A window shows what it showed if its chest has what it had.            *)
LEMMA SeenViews ==
    ASSUME NEW s \in Rooms, NEW t \in Rooms, NEW w, NEW c, Seen(s, w, c),
           Views(s, t, w.p)
    PROVE  Seen(t, w, c)
  BY DEF Seen, Views

(* What chests and ground hold decides, if nobody else has anything new.  *)
LEMMA TotalParts ==
    ASSUME NEW s \in Rooms, NEW t \in Rooms, Held(t) = Held(s), t.hand = s.hand,
           t.pack = s.pack
    PROVE  Total(t) = Total(s)
  BY DEF Total

(* The sum over players when one of them has something else.               *)
LEMMA CountChanges ==
    ASSUME NEW f \in [Visitor -> Item], NEW u \in Visitor, NEW i \in Item
    PROVE  /\ SumFunction(Counts(f)) \in Int
           /\ f[u].n \in Nat /\ i.n \in Nat
           /\ SumFunction(Counts([f EXCEPT ![u] = i]))
                 = SumFunction(Counts(f)) - f[u].n + i.n
  <1> DEFINE c == Counts(f)
  <1>1. c \in [Visitor -> Int] /\ i.n \in Nat /\ f[u].n \in Nat /\ i.n \in Int
        /\ IsFiniteSet(Visitor)
    BY ItemFacts, PurseAssumption DEF Counts
  <1>2. Counts([f EXCEPT ![u] = i]) = [c EXCEPT ![u] = i.n] /\ c[u] = f[u].n
    BY DEF Counts
  <1> HIDE DEF c
  <1>3. SumFunction(c) \in Int
        /\ SumFunction([c EXCEPT ![u] = i.n]) = SumFunction(c) - c[u] + i.n
    BY <1>1, SumIsInt, SumChanges
  <1>4. QED
    BY <1>1, <1>2, <1>3 DEF c

(* The sum over places when one value changes.                            *)
LEMMA StoredSum ==
    ASSUME NEW c \in [Spots -> Int], NEW h \in Spots, NEW v \in Int
    PROVE  /\ SumFunction(c) \in Int /\ c[h] \in Int
           /\ SumFunction([c EXCEPT ![h] = v]) = SumFunction(c) - c[h] + v
  BY SpotsAssumption, SumIsInt, SumChanges

(* The sum over chests when one of them has something else in it.          *)
LEMMA StoredChanges ==
    ASSUME NEW s \in Rooms, NEW t \in Rooms, NEW h \in Spots, NEW i \in Item,
           t.data = [s.data EXCEPT ![h].item = i], t.ground = s.ground
    PROVE  Held(t) = Held(s) - s.data[h].item.n + i.n
  <1> DEFINE c == Stored(s)
  <1>0. s.data \in [Spots -> Half] /\ s.ground \in Nat
    BY DEF Rooms
  <1>1. c \in [Spots -> Int] /\ i.n \in Nat /\ i.n \in Int /\ IsFiniteSet(Spots)
    BY ItemFacts, StoredType, SpotsAssumption
  <1>2. Stored(t) = [c EXCEPT ![h] = i.n] /\ c[h] = s.data[h].item.n
    <2>1. \A k \in Half : [k EXCEPT !.item = i].item = i
      BY DEF Half
    <2>2. t.data[h].item = i /\ \A x \in Spots \ {h} : t.data[x] = s.data[x]
      BY <1>0, <2>1
    <2>3. \A x \in Spots : t.data[x].item.n = IF x = h THEN i.n ELSE s.data[x].item.n
      BY <2>2
    <2>4. QED
      BY <2>3 DEF Stored
  <1> HIDE DEF c
  <1>3. /\ SumFunction(c) \in Int /\ c[h] \in Int
        /\ SumFunction([c EXCEPT ![h] = i.n]) = SumFunction(c) - c[h] + i.n
    BY <1>1, StoredSum
  <1>4. Held(s) = s.ground + SumFunction(c)
        /\ Held(t) = s.ground + SumFunction([c EXCEPT ![h] = i.n])
    BY <1>2 DEF Held, c
  <1>5. QED
    BY <1>0, <1>1, <1>2, <1>3, <1>4

(* Placing a chest.                                                        *)
LEMMA PlaceIInv ==
    ASSUME ChestIInv, NEW p \in Spots, PlaceChest(p)
    PROVE  ChestIInv' /\ Total(chests') = Total(chests)
  <1> DEFINE s == chests
             w == Placed(s, p)
             altered == w.altered \/ LookedInto(p)
             t == [w EXCEPT !.altered = altered]
  <1>1. RoomOK(s) /\ s \in Rooms /\ p \in Spots \ s.block
        /\ Sound(s) /\ Standing(s, s.block)
    BY DEF ChestIInv, RoomOK, PlaceChest
  <1>2. chests' = t /\ shown' = shown
    BY DEF PlaceChest
  <1>3. \A u \in Visitor : s.window[u].p \in {p} \cup Range(Beside(p)) => LookedInto(p)
    BY DEF LookedInto
  <1>4. Watched(s, shown) /\ shown = [u \in Visitor |-> shown[u]]
    BY DEF ChestIInv
  <1> HIDE DEF s
  <1>5. /\ w \in Rooms /\ Sound(w) /\ Standing(w, w.block)
        /\ w.window = s.window /\ w.hand = s.hand /\ w.pack = s.pack
        /\ w.down = s.down /\ w.altered = s.altered /\ w.ground = s.ground
        /\ w.tangled = s.tangled
        /\ SameItems(s, w)
        /\ \A x \in Spots \ ({p} \cup Range(Beside(p))) : w.data[x] = s.data[x]
        /\ Mirrored(s) => Mirrored(w)
        /\ Mirrored(s) /\ Settled(s) => Settled(w)
    BY <1>1, PlacedEffect
  <1> HIDE DEF w
  <1>6. RoomOK(w)
    BY <1>1, <1>5 DEF RoomOK
  <1>7. altered \in BOOLEAN
    OBVIOUS
  <1>8. ~altered => ~s.altered /\ ~LookedInto(p)
    BY <1>5
  <1> HIDE DEF altered
  <1>9. /\ t \in Rooms /\ t.data = w.data /\ t.block = w.block
        /\ t.tangled = w.tangled /\ t.window = w.window /\ t.hand = w.hand
        /\ t.pack = w.pack /\ t.ground = w.ground /\ t.down = w.down
        /\ t.altered = altered
    BY <1>5, <1>7 DEF Rooms
  <1> HIDE DEF t
  <1>10. RoomOK(t)
    BY <1>5, <1>6, <1>9, SameData
  <1>11. ASSUME ~t.tangled, ~t.altered, ~t.down, NEW u \in Visitor,
                t.window[u] # NoWindow
         PROVE  Seen(t, t.window[u], shown[u])
    <2> DEFINE x == s.window[u].p
    <2>1. Seen(s, s.window[u], shown[u]) /\ t.window[u] = s.window[u]
      BY <1>4, <1>5, <1>8, <1>9, <1>11 DEF Watched
    <2>2. x \in Spots \ ({p} \cup Range(Beside(p)))
      BY <1>3, <1>8, <1>9, <1>11, <2>1 DEF Seen
    <2>3. t.data[x].conn = s.data[x].conn /\ t.data[x].item = s.data[x].item
          /\ t.data[x].top = s.data[x].top /\ t.data[x].listed = s.data[x].listed
          /\ t.data[x].checked = s.data[x].checked
      BY <1>5, <1>9, <2>2
    <2>4. Large(s, x) => s.data[x].conn \in Spots
      BY <1>1, <2>2 DEF Rooms, Half, Large
    <2>5. /\ Large(t, x) <=> Large(s, x)
          /\ Content(t, x) = Content(s, x)
      <3>1. Large(s, x) => t.data[s.data[x].conn].item = s.data[s.data[x].conn].item
        BY <1>5, <1>9, <2>4 DEF SameItems
      <3> HIDE DEF x
      <3>2. QED
        BY <1>1, <1>9, <2>2, <2>3, <3>1, SameContent
    <2>6. Views(s, t, x)
      BY <2>1, <2>3, <2>5 DEF Views, Seen
    <2>7. QED
      BY <1>1, <1>9, <2>1, <2>6, SeenViews
  <1>12. Total(t) = Total(s)
    <2>1. Held(w) = Held(s)
      BY <1>1, <1>5, SameItemsSameSum
    <2>2. Held(t) = Held(w)
      BY <1>5, <1>9, SameItemsSameSum DEF SameItems
    <2>3. QED
      BY <1>1, <1>5, <1>9, <2>1, <2>2, TotalParts
  <1>13. QED
    BY <1>2, <1>4, <1>10, <1>11, <1>12 DEF ChestIInv, Watched, s

(* Breaking a chest.                                                       *)
LEMMA BreakIInv ==
    ASSUME ChestIInv, NEW p \in Spots, BreakChest(p)
    PROVE  ChestIInv' /\ Total(chests') = Total(chests)
  <1> DEFINE s == chests
             w == Broken(s, p)
             altered == w.altered \/ LookedInto(p)
             t == [w EXCEPT !.altered = altered]
  <1>1. RoomOK(s) /\ s \in Rooms /\ p \in s.block
        /\ Sound(s) /\ Standing(s, s.block)
    BY DEF ChestIInv, RoomOK, BreakChest
  <1>2. chests' = t /\ shown' = shown
    BY DEF BreakChest
  <1>3. \A u \in Visitor : s.window[u].p \in {p} \cup Range(Beside(p)) => LookedInto(p)
    BY DEF LookedInto
  <1>4. Watched(s, shown) /\ shown = [u \in Visitor |-> shown[u]]
    BY DEF ChestIInv
  <1> HIDE DEF s
  <1>5. /\ w \in Rooms /\ Sound(w) /\ Standing(w, w.block)
        /\ w.window = s.window /\ w.hand = s.hand /\ w.pack = s.pack
        /\ w.down = s.down /\ w.altered = s.altered
        /\ Held(w) = Held(s)
    BY <1>1, BrokenEffect
  <1>a. ~w.tangled =>
          /\ ~s.tangled
          /\ Mirrored(s) => Mirrored(w)
          /\ Mirrored(s) /\ Settled(s) => Settled(w)
          /\ Mirrored(s) => \A x \in Spots \ ({p} \cup Range(Beside(p))) :
                 s.data[x].listed /\ s.data[x].checked => Views(s, w, x)
    BY <1>1, BrokenCalm
  <1> HIDE DEF w
  <1>6. RoomOK(w)
    BY <1>1, <1>5, <1>a DEF RoomOK
  <1>7. altered \in BOOLEAN
    OBVIOUS
  <1>8. ~altered => ~s.altered /\ ~LookedInto(p)
    BY <1>5
  <1> HIDE DEF altered
  <1>9. /\ t \in Rooms /\ t.data = w.data /\ t.block = w.block
        /\ t.tangled = w.tangled /\ t.window = w.window /\ t.hand = w.hand
        /\ t.pack = w.pack /\ t.ground = w.ground /\ t.down = w.down
        /\ t.altered = altered
    BY <1>5, <1>7 DEF Rooms
  <1> HIDE DEF t
  <1>10. RoomOK(t) /\ \A v, c : Seen(w, v, c) => Seen(t, v, c)
    BY <1>5, <1>6, <1>9, SameData
  <1>11. ASSUME ~t.tangled, ~t.altered, ~t.down, NEW u \in Visitor,
                t.window[u] # NoWindow
         PROVE  Seen(t, t.window[u], shown[u])
    <2> DEFINE x == s.window[u].p
    <2>0. ~w.tangled /\ ~s.tangled /\ Mirrored(s)
      BY <1>1, <1>9, <1>11, <1>a DEF RoomOK
    <2>1. Seen(s, s.window[u], shown[u]) /\ t.window[u] = s.window[u]
      BY <1>4, <1>5, <1>8, <1>9, <1>11, <2>0 DEF Watched
    <2>2. x \in Spots \ ({p} \cup Range(Beside(p)))
      BY <1>3, <1>8, <1>9, <1>11, <2>1 DEF Seen
    <2>3. Views(s, w, x)
      BY <1>a, <2>0, <2>1, <2>2 DEF Seen
    <2>4. Seen(w, s.window[u], shown[u])
      BY <1>1, <1>5, <2>1, <2>3, SeenViews
    <2>5. QED
      BY <1>10, <2>1, <2>4
  <1>12. Total(t) = Total(s)
    <2>1. Held(t) = Held(w)
      BY <1>5, <1>9, SameItemsSameSum DEF SameItems
    <2>2. QED
      BY <1>1, <1>5, <1>9, <2>1, TotalParts
  <1>13. QED
    BY <1>2, <1>4, <1>10, <1>11, <1>12 DEF ChestIInv, Watched, s

(* Opening a chest.                                                        *)
LEMMA OpenIInv ==
    ASSUME ChestIInv, NEW u \in Visitor, NEW p \in Spots, OpenChest(u, p)
    PROVE  ChestIInv' /\ Total(chests') = Total(chests)
  <1> DEFINE s == chests
             breaking == FALSE
             t == Tested(s, p, breaking)
             big == Large(t, p)
             open == [p |-> p, large |-> big]
  <1>1. RoomOK(s) /\ s \in Rooms /\ p \in s.block /\ s.window[u] = NoWindow
        /\ Sound(s) /\ Standing(s, s.block)
    BY DEF ChestIInv, RoomOK, OpenChest
  <1>2. /\ t.data[p].gone =>
              chests' = [t EXCEPT !.down = TRUE] /\ shown' = shown
        /\ ~t.data[p].gone =>
              /\ chests' = [t EXCEPT !.window[u] = open]
              /\ shown' = [shown EXCEPT ![u] = Content(t, p)]
    BY DEF OpenChest
  <1>3. Watched(s, shown) /\ shown = [v \in Visitor |-> shown[v]]
    BY DEF ChestIInv
  <1>4. breaking \in BOOLEAN
    OBVIOUS
  <1> HIDE DEF s, breaking
  <1>5. /\ t \in Rooms /\ Frame(s, t) /\ Sound(t)
        /\ t.data[p].listed /\ t.data[p].checked
        /\ SameItems(s, t)
        /\ \A B : s.block \cup {p} \subseteq B /\ Standing(s, B) => Standing(t, B)
    BY <1>1, <1>4, TestedSound
  <1>6. ~t.tangled => /\ ~s.tangled
                      /\ Mirrored(s) => Mirrored(t)
                      /\ Mirrored(s) /\ Settled(s) => Settled(t)
    BY <1>1, <1>4, TestedCalm
  <1>7. ASSUME NEW x \in Spots, s.data[x].listed, s.data[x].checked, Settled(s)
        PROVE  Views(s, t, x)
    BY <1>1, <1>4, <1>7, TestedViews
  <1> HIDE DEF t
  <1>8. RoomOK(t)
    <2>1. Standing(t, s.block)
      BY <1>1, <1>5
    <2>2. QED
      BY <1>1, <1>5, <1>6, <2>1 DEF RoomOK, Frame
  <1>9. Total(t) = Total(s)
    <2>1. Held(t) = Held(s)
      BY <1>1, <1>5, SameItemsSameSum DEF Frame
    <2>2. QED
      BY <1>1, <1>5, <2>1, TotalParts DEF Frame
  <1>10. CASE t.data[p].gone
    <2> DEFINE w == [t EXCEPT !.down = TRUE]
    <2>1. /\ w \in Rooms /\ w.data = t.data /\ w.block = t.block
          /\ w.tangled = t.tangled /\ w.hand = t.hand /\ w.pack = t.pack
          /\ w.ground = t.ground /\ w.down
      BY <1>5 DEF Rooms
    <2>2. chests' = w /\ shown' = shown
      BY <1>2, <1>10
    <2> HIDE DEF w
    <2>3. RoomOK(w) /\ Watched(w, shown)
      BY <1>5, <1>8, <2>1, SameData DEF Watched
    <2>4. Held(w) = Held(t)
      BY <1>5, <2>1, SameItemsSameSum DEF SameItems
    <2>5. Total(w) = Total(t)
      BY <1>5, <2>1, <2>4, TotalParts
    <2>6. QED
      BY <1>3, <1>9, <2>2, <2>3, <2>5 DEF ChestIInv, s
  <1>11. CASE ~t.data[p].gone
    <2> DEFINE w == [t EXCEPT !.window[u] = open]
               sh == [shown EXCEPT ![u] = Content(t, p)]
    <2>1. big \in BOOLEAN /\ (big <=> Large(t, p))
      BY DEF Large
    <2> HIDE DEF big
    <2>2. open \in [p : {<< >>} \cup Spots, large : BOOLEAN]
          /\ open.p = p /\ open.large = big
      BY <2>1
    <2> HIDE DEF open
    <2>3. /\ w \in Rooms /\ w.data = t.data /\ w.block = t.block
          /\ w.tangled = t.tangled /\ w.hand = t.hand /\ w.pack = t.pack
          /\ w.ground = t.ground /\ w.down = t.down /\ w.altered = t.altered
          /\ w.window[u] = open
          /\ \A v \in Visitor \ {u} : w.window[v] = t.window[v]
      BY <1>5, <2>2 DEF Rooms
    <2>4. chests' = w /\ shown' = sh
      BY <1>2, <1>11
    <2>5. /\ sh = [v \in Visitor |-> sh[v]]
          /\ sh[u] = Content(t, p) /\ \A v \in Visitor \ {u} : sh[v] = shown[v]
      BY <1>3
    <2> HIDE DEF w, sh
    <2>6. RoomOK(w) /\ \A v, c : Seen(t, v, c) => Seen(w, v, c)
      BY <1>5, <1>8, <2>3, SameData
    <2>7. ASSUME ~w.tangled, ~w.altered, ~w.down, NEW v \in Visitor,
                 w.window[v] # NoWindow
          PROVE  Seen(w, w.window[v], sh[v])
      <3>1. CASE v = u
        <4>1. Seen(t, open, Content(t, p))
          BY <1>5, <2>1, <2>2 DEF Seen
        <4>2. QED
          BY <2>3, <2>5, <2>6, <3>1, <4>1
      <3>2. CASE v # u
        <4>1. ~s.tangled /\ Settled(s) /\ ~s.altered /\ ~s.down
          BY <1>1, <1>5, <1>6, <2>3, <2>7 DEF RoomOK, Frame
        <4>2. s.window[v] = w.window[v] /\ sh[v] = shown[v]
          BY <1>5, <2>3, <2>5, <3>2 DEF Frame
        <4>3. Seen(s, s.window[v], shown[v])
          BY <1>3, <2>7, <4>1, <4>2 DEF Watched
        <4>4. Views(s, t, s.window[v].p)
          BY <1>7, <4>1, <4>3 DEF Seen
        <4>5. Seen(t, s.window[v], shown[v])
          BY <1>1, <1>5, <4>3, <4>4, SeenViews
        <4>6. QED
          BY <2>6, <4>2, <4>5
      <3>3. QED
        BY <3>1, <3>2
    <2>8. Held(w) = Held(t)
      BY <1>5, <2>3, SameItemsSameSum DEF SameItems
    <2>9. Total(w) = Total(t)
      BY <1>5, <2>3, <2>8, TotalParts
    <2>10. QED
      BY <1>9, <2>4, <2>5, <2>6, <2>7, <2>9 DEF ChestIInv, Watched, s
  <1>12. QED
    BY <1>10, <1>11

(* Closing a window: what the hand held is on the ground.                  *)
LEMMA CloseIInv ==
    ASSUME ChestIInv, NEW u \in Visitor, CloseChest(u)
    PROVE  ChestIInv' /\ Total(chests') = Total(chests)
  <1> DEFINE s == chests
             others == \E v \in Visitor \ {u} : s.window[v] # NoWindow
             altered == s.altered /\ others
             t == [s EXCEPT !.window[u] = NoWindow, !.ground = @ + s.hand[u].n,
                            !.hand[u] = NoItem, !.altered = altered]
             sh == [shown EXCEPT ![u] = << >>]
  <1>1. RoomOK(s) /\ s \in Rooms
    BY DEF ChestIInv, RoomOK
  <1>2. chests' = t /\ shown' = sh
    BY DEF CloseChest
  <1>3. Watched(s, shown) /\ shown = [v \in Visitor |-> shown[v]]
    BY DEF ChestIInv
  <1>4. /\ sh = [v \in Visitor |-> sh[v]]
        /\ \A v \in Visitor \ {u} : sh[v] = shown[v]
    BY <1>3
  <1> HIDE DEF s, sh
  <1>5. altered \in BOOLEAN /\ (~altered => ~s.altered \/ ~others)
    OBVIOUS
  <1>6. others <=> \E v \in Visitor \ {u} : s.window[v] # NoWindow
    OBVIOUS
  <1> HIDE DEF altered, others
  <1>7. /\ NoWindow \in [p : {<< >>} \cup Spots, large : BOOLEAN]
        /\ NoItem \in Item /\ NoItem.n = 0
        /\ s.hand \in [Visitor -> Item] /\ s.hand[u] \in Item
        /\ s.hand[u].n \in Nat /\ s.ground \in Nat
        /\ s.ground + s.hand[u].n \in Nat
    BY <1>1, ItemFacts DEF NoWindow, Rooms
  <1>8. /\ t \in Rooms /\ t.data = s.data /\ t.block = s.block
        /\ t.tangled = s.tangled /\ t.hand = [s.hand EXCEPT ![u] = NoItem]
        /\ t.pack = s.pack /\ t.ground = s.ground + s.hand[u].n
        /\ t.down = s.down /\ t.altered = altered
        /\ t.window[u] = NoWindow
        /\ \A v \in Visitor \ {u} : t.window[v] = s.window[v]
    BY <1>1, <1>5, <1>7 DEF Rooms
  <1> HIDE DEF t
  <1>9. RoomOK(t) /\ \A v, c : Seen(s, v, c) => Seen(t, v, c)
    BY <1>1, <1>8, SameData
  <1>10. ASSUME ~t.tangled, ~t.altered, ~t.down, NEW v \in Visitor,
                t.window[v] # NoWindow
         PROVE  Seen(t, t.window[v], sh[v])
    <2>1. v # u /\ s.window[v] # NoWindow /\ t.window[v] = s.window[v]
      BY <1>8, <1>10
    <2>2. ~s.altered
      BY <1>5, <1>6, <1>8, <1>10, <2>1
    <2>3. Seen(s, s.window[v], shown[v])
      BY <1>3, <1>8, <1>10, <2>1, <2>2 DEF Watched
    <2>4. QED
      BY <1>4, <1>9, <2>1, <2>3
  <1>11. Total(t) = Total(s)
    <2>1. Stored(t) = Stored(s) /\ SumFunction(Stored(s)) \in Int
      BY <1>1, <1>8, StoredType DEF Stored
    <2>2. Held(t) = Held(s) + s.hand[u].n /\ Held(s) \in Int
      BY <1>1, <1>7, <1>8, <2>1, StoredType DEF Held
    <2>3. /\ SumFunction(Counts(s.hand)) \in Int
          /\ SumFunction(Counts(t.hand)) = SumFunction(Counts(s.hand)) - s.hand[u].n + 0
      BY <1>7, <1>8, CountChanges
    <2>4. SumFunction(Counts(s.pack)) \in Int
      <3>1. s.pack \in [Visitor -> Item]
        BY <1>1 DEF Rooms
      <3>2. QED
        BY <1>7, <3>1, CountChanges
    <2>5. QED
      BY <1>7, <1>8, <2>2, <2>3, <2>4 DEF Total
  <1>12. QED
    BY <1>2, <1>4, <1>9, <1>10, <1>11 DEF ChestIInv, Watched, s

(* Saving and loading the chunk: no chest is joined, all of them keep their
   items.                                                                  *)
LEMMA ReloadIInv ==
    ASSUME ChestIInv, ReloadChunk
    PROVE  ChestIInv' /\ Total(chests') = Total(chests)
  <1> DEFINE s == chests
             D == [p \in Spots |-> IF s.data[p].listed
                                   THEN [NewData EXCEPT !.item = s.data[p].item]
                                   ELSE NoData]
             t == [s EXCEPT !.data = D, !.tangled = FALSE]
  <1>1. RoomOK(s) /\ s \in Rooms
    BY DEF ChestIInv, RoomOK
  <1>2. chests' = t /\ shown' = shown /\ \A u \in Visitor : s.window[u] = NoWindow
    BY DEF ReloadChunk
  <1>3. shown = [v \in Visitor |-> shown[v]]
    BY DEF ChestIInv
  <1> HIDE DEF s
  <1>4. s.data \in [Spots -> Half]
    BY <1>1 DEF Rooms
  <1>5. ASSUME NEW p \in Spots
        PROVE  /\ D[p] \in Half /\ D[p].conn = << >> /\ ~D[p].gone /\ ~D[p].checked
               /\ D[p].listed = s.data[p].listed
               /\ D[p].item = s.data[p].item
               /\ ~D[p].listed => D[p] = NoData
    <2>1. CASE s.data[p].listed
      <3>1. s.data[p].item \in Item /\ s.data[p].listed = TRUE
        BY <1>4, <2>1 DEF Half
      <3>2. D[p] = [NewData EXCEPT !.item = s.data[p].item]
        BY <2>1
      <3>3. \A i \in Item : LET k == [NewData EXCEPT !.item = i]
                            IN  /\ k \in Half /\ k.conn = << >> /\ ~k.gone /\ ~k.checked
                                /\ k.listed = TRUE /\ k.item = i
        BY DEF NewData, Half
      <3> HIDE DEF D
      <3>4. QED
        BY <3>1, <3>2, <3>3
    <2>2. CASE ~s.data[p].listed
      <3>1. s.data[p] = NoData
        BY <1>1, <2>2 DEF RoomOK, Sound, Cleared
      <3>2. D[p] = NoData
        BY <2>2
      <3>3. QED
        BY <3>1, <3>2, NoHalf DEF NoData, NewData
    <2>3. QED
      BY <2>1, <2>2
  <1>6. D \in [Spots -> Half]
    BY <1>5
  <1> HIDE DEF D
  <1>7. /\ t \in Rooms /\ t.data = D /\ t.block = s.block
        /\ t.hand = s.hand /\ t.pack = s.pack /\ t.ground = s.ground
        /\ t.window = s.window
    BY <1>1, <1>6 DEF Rooms
  <1> HIDE DEF t
  <1>8. \A x \in Spots : ~Large(t, x)
    BY <1>5, <1>7 DEF Large
  <1>9. Sound(t)
    BY <1>5, <1>7, <1>8 DEF Sound, Cleared, Checked, Live, Touching
  <1>10. Standing(t, t.block)
    BY <1>1, <1>5, <1>7 DEF Standing, RoomOK
  <1>11. Mirrored(t) /\ Settled(t)
    BY <1>5, <1>7, <1>8 DEF Mirrored, Settled
  <1>12. Total(t) = Total(s)
    <2>1. Held(t) = Held(s)
      BY <1>1, <1>5, <1>7, SameItemsSameSum DEF SameItems
    <2>2. QED
      BY <1>1, <1>7, <2>1, TotalParts
  <1>13. Watched(t, shown)
    BY <1>2, <1>7 DEF Watched
  <1>14. QED
    BY <1>2, <1>3, <1>7, <1>9, <1>10, <1>11, <1>12, <1>13 DEF ChestIInv, RoomOK, s
(* The slots of a window are different chests.                             *)
LEMMA HalvesFacts ==
    ASSUME NEW s \in Rooms, NEW x \in Spots, Sound(s)
    PROVE  /\ Large(s, x) => s.data[x].conn \in Spots /\ s.data[x].conn # x
           /\ DOMAIN Halves(s, x) = IF Large(s, x) THEN {1, 2} ELSE {1}
           /\ DOMAIN Content(s, x) = DOMAIN Halves(s, x)
           /\ Falling(s, x) \subseteq Spots
           /\ \A i \in DOMAIN Halves(s, x) : Halves(s, x)[i] \in Falling(s, x)
           /\ \A i, j \in DOMAIN Halves(s, x) :
                  Halves(s, x)[i] = Halves(s, x)[j] => i = j
  <1>1. Large(s, x) => s.data[x].conn \in Spots /\ s.data[x].conn # x
    <2>1. s.data[x].conn \in {<< >>} \cup Spots
      BY DEF Rooms, Half
    <2>2. Large(s, x) => s.data[x].conn \in Range(Beside(x))
      BY DEF Sound, Touching
    <2>3. QED
      BY <2>1, <2>2, BesideFacts DEF Large
  <1>2. Falling(s, x) \subseteq Spots
    BY <1>1 DEF Falling
  <1>3. DOMAIN Content(s, x) = DOMAIN Halves(s, x)
    BY DEF Content
  <1>4. CASE ~Large(s, x)
    <2>1. Halves(s, x) = <<x>> /\ Falling(s, x) = {x}
      BY <1>4 DEF Halves, Falling
    <2>2. QED
      BY <1>1, <1>2, <1>3, <1>4, <2>1
  <1>5. CASE Large(s, x)
    <2> DEFINE y == s.data[x].conn
    <2>1. Falling(s, x) = {x, y}
      BY <1>5 DEF Falling
    <2>2. Halves(s, x) = <<x, y>> \/ Halves(s, x) = <<y, x>>
      BY <1>5 DEF Halves
    <2>3. y # x
      BY <1>1, <1>5
    <2> HIDE DEF y
    <2>4. /\ DOMAIN Halves(s, x) = {1, 2}
          /\ \A i \in {1, 2} : Halves(s, x)[i] \in {x, y}
          /\ Halves(s, x)[1] # Halves(s, x)[2]
      BY <2>2, <2>3
    <2>5. QED
      BY <1>1, <1>2, <1>3, <1>5, <2>1, <2>4
  <1>6. QED
    BY <1>4, <1>5

(* Partners have the same window.                                          *)
LEMMA SameHalves ==
    ASSUME NEW s \in Rooms, NEW x \in Spots, Sound(s), Mirrored(s), Large(s, x)
    PROVE  LET y == s.data[x].conn
           IN  /\ y \in Spots /\ Large(s, y) /\ s.data[y].conn = x
               /\ Halves(s, y) = Halves(s, x)
  <1> DEFINE y == s.data[x].conn
  <1>1. y \in Spots /\ x # << >>
    BY HalvesFacts, BesideFacts
  <1>2. s.data[y].conn = x /\ s.data[y].top # s.data[x].top
    BY DEF Mirrored, Mirror
  <1>3. Large(s, y)
    BY <1>1, <1>2 DEF Large
  <1>4. s.data[y].top \in BOOLEAN /\ s.data[x].top \in BOOLEAN
    BY <1>1 DEF Rooms, Half
  <1>5. Halves(s, y) = Halves(s, x)
    <2>1. CASE s.data[x].top
      <3>1. ~s.data[y].top
        BY <1>2, <1>4, <2>1
      <3>2. QED
        BY <1>2, <1>3, <2>1, <3>1 DEF Halves
    <2>2. CASE ~s.data[x].top
      <3>1. s.data[y].top
        BY <1>2, <1>4, <2>2
      <3>2. QED
        BY <1>2, <1>3, <2>2, <3>1 DEF Halves
    <2>3. QED
      BY <2>1, <2>2
  <1>6. QED
    BY <1>1, <1>2, <1>3, <1>5

(* Windows of chests that are not partners have no slot in common.         *)
LEMMA Apart ==
    ASSUME NEW s \in Rooms, NEW p \in Spots, NEW x \in Spots, Sound(s), Mirrored(s),
           x # p, x # s.data[p].conn
    PROVE  \A h \in Falling(s, p) : h \notin Falling(s, x)
  <1>1. Large(s, x) => s.data[x].conn # p
    <2> SUFFICES ASSUME Large(s, x), s.data[x].conn = p PROVE FALSE
      OBVIOUS
    <2>1. s.data[p].conn = x
      BY SameHalves
    <2>2. QED
      BY <2>1
  <1>2. ASSUME Large(s, x), Large(s, p) PROVE s.data[x].conn # s.data[p].conn
    <2>1. s.data[s.data[x].conn].conn = x /\ s.data[s.data[p].conn].conn = p
      BY <1>2, SameHalves
    <2>2. QED
      BY <2>1
  <1>3. QED
    BY <1>1, <1>2 DEF Falling

-----------------------------------------------------------------------------
(* Clicks.                                                                 *)

Put(d, h, i) == [d EXCEPT ![h].item = i]
PutContent(H, c, h, i) == [j \in DOMAIN H |-> IF H[j] = h THEN i ELSE c[j]]
Retold(c, slot, i) == [c EXCEPT ![slot] = i]

(* Who sees a half in one slot sees its new items there.                  *)
LEMMA PutSlot ==
    ASSUME NEW H, NEW c, NEW slot \in DOMAIN H, NEW h, NEW i,
           \A j \in DOMAIN H : H[j] = h <=> j = slot,
           c = [j \in DOMAIN H |-> c[j]]
    PROVE  PutContent(H, c, h, i) = Retold(c, slot, i)
  BY DEF PutContent, Retold

(* Other items in a chest change what its window shows, and nothing else.  *)
LEMMA ItemPut ==
    ASSUME NEW s \in Rooms, NEW t \in Rooms, NEW h \in Spots, NEW i \in Item,
           RoomOK(s), t.block = s.block, t.tangled = s.tangled,
           s.data[h].listed, t.data = Put(s.data, h, i)
    PROVE  /\ RoomOK(t)
           /\ \A x \in Spots :
                  /\ t.data[x].listed = s.data[x].listed
                  /\ t.data[x].checked = s.data[x].checked
                  /\ Large(t, x) <=> Large(s, x)
                  /\ Content(t, x) = PutContent(Halves(s, x), Content(s, x), h, i)
  <1>0. s.data \in [Spots -> Half] /\ Sound(s) /\ Standing(s, s.block)
    BY DEF Rooms, RoomOK
  <1>1. ASSUME NEW x \in Spots
        PROVE  /\ t.data[x].conn = s.data[x].conn /\ t.data[x].gone = s.data[x].gone
               /\ t.data[x].top = s.data[x].top /\ t.data[x].checked = s.data[x].checked
               /\ t.data[x].listed = s.data[x].listed
               /\ t.data[x].item = IF x = h THEN i ELSE s.data[x].item
    <2>1. CASE x # h
      <3>1. t.data[x] = s.data[x]
        BY <1>0, <2>1 DEF Put
      <3>2. QED
        BY <2>1, <3>1
    <2>2. CASE x = h
      <3> DEFINE k == s.data[x]
                 m == t.data[x]
      <3>1. m = [k EXCEPT !.item = i] /\ k \in Half
        BY <1>0, <2>2 DEF Put
      <3> HIDE DEF k, m
      <3>2. /\ m.conn = k.conn /\ m.gone = k.gone /\ m.top = k.top
            /\ m.checked = k.checked /\ m.listed = k.listed /\ m.item = i
        BY <3>1 DEF Half
      <3>3. QED
        BY <2>2, <3>2 DEF k, m
    <2>3. QED
      BY <2>1, <2>2
  <1>2. \A x \in Spots : Large(t, x) <=> Large(s, x)
    BY <1>1 DEF Large
  <1>3. \A x \in Spots : Halves(t, x) = Halves(s, x)
    BY <1>1, <1>2 DEF Halves
  <1>4. \A x \in Spots : Large(s, x) => s.data[x].conn \in Spots
    BY <1>0, HalvesFacts
  <1>5. Sound(t)
    <2>1. Cleared(t)
      <3> SUFFICES ASSUME NEW x \in Spots, ~t.data[x].listed PROVE t.data[x] = NoData
        BY DEF Cleared
      <3>1. x # h /\ ~s.data[x].listed
        BY <1>1
      <3>2. t.data[x] = s.data[x]
        BY <1>0, <3>1 DEF Put
      <3>3. QED
        BY <1>0, <3>1, <3>2 DEF Sound, Cleared
    <2>2. Checked(t) /\ Touching(t)
      BY <1>0, <1>1, <1>2 DEF Sound, Checked, Touching
    <2>3. Live(t)
      BY <1>0, <1>1, <1>2, <1>4 DEF Sound, Live
    <2>4. QED
      BY <2>1, <2>2, <2>3 DEF Sound
  <1>6. Standing(t, t.block)
    BY <1>0, <1>1 DEF Standing
  <1>7. ~t.tangled => Mirrored(t) /\ Settled(t)
    <2> SUFFICES ASSUME ~t.tangled PROVE Mirrored(t) /\ Settled(t)
      OBVIOUS
    <2>1. Mirrored(s) /\ Settled(s)
      BY DEF RoomOK
    <2>2. Mirrored(t)
      BY <1>1, <1>2, <1>4, <2>1 DEF Mirrored, Mirror
    <2>3. s.block \subseteq Spots
      BY DEF Rooms
    <2>4. Settled(t)
      BY <1>1, <1>2, <2>1, <2>3 DEF Settled
    <2>5. QED
      BY <2>2, <2>4
  <1>8. ASSUME NEW x \in Spots
        PROVE  Content(t, x) = PutContent(Halves(s, x), Content(s, x), h, i)
    <2>1. \A j \in DOMAIN Halves(s, x) : Halves(s, x)[j] \in Spots
      BY <1>0, HalvesFacts
    <2>2. QED
      BY <1>1, <1>3, <2>1 DEF Content, PutContent
  <1>9. QED
    BY <1>1, <1>2, <1>5, <1>6, <1>7, <1>8 DEF RoomOK
(* A sum is as large as before if as much is put in as is taken out.      *)
LEMMA PutSum ==
    ASSUME NEW s \in Rooms, NEW t \in Rooms, NEW h \in Spots, NEW u \in Visitor,
           NEW i \in Item, NEW hand \in Item, NEW pack \in Item,
           t.data = [s.data EXCEPT ![h].item = i], t.ground = s.ground,
           t.hand = [s.hand EXCEPT ![u] = hand], t.pack = [s.pack EXCEPT ![u] = pack],
           i.n + hand.n + pack.n = s.data[h].item.n + s.hand[u].n + s.pack[u].n
    PROVE  Total(t) = Total(s)
  <1>1. Held(t) = Held(s) - s.data[h].item.n + i.n /\ Held(s) \in Int
    BY StoredChanges, StoredType
  <1>2. s.hand \in [Visitor -> Item] /\ s.pack \in [Visitor -> Item]
    BY DEF Rooms
  <1>3. /\ SumFunction(Counts(s.hand)) \in Int
        /\ s.hand[u].n \in Nat /\ hand.n \in Nat
        /\ SumFunction(Counts(t.hand)) = SumFunction(Counts(s.hand)) - s.hand[u].n + hand.n
    BY <1>2, CountChanges
  <1>4. /\ SumFunction(Counts(s.pack)) \in Int
        /\ s.pack[u].n \in Nat /\ pack.n \in Nat
        /\ SumFunction(Counts(t.pack)) = SumFunction(Counts(s.pack)) - s.pack[u].n + pack.n
    BY <1>2, CountChanges
  <1>5. i.n \in Nat /\ s.data[h].item.n \in Nat
    BY ItemFacts DEF Rooms, Half
  <1>6. i.n + hand.n + pack.n = s.data[h].item.n + s.hand[u].n + s.pack[u].n
    OBVIOUS
  <1>7. QED
    BY ONLY <1>1, <1>3, <1>4, <1>5, <1>6 DEF Total

(* What is clicked on is a chest with data: the one of the window or its
   partner.                                                                *)
LEMMA ClickedListed ==
    ASSUME NEW s \in Rooms, NEW u \in Visitor, NEW slot, RoomOK(s), ~Void(s, u, slot),
           slot \in IF s.window[u].large THEN {1, 2} ELSE {1}
    PROVE  LET p == s.window[u].p
               h == Clicked(s, u, slot)
           IN  /\ p \in Spots /\ s.data[p].listed
               /\ s.window[u].large => Large(s, p)
               /\ h \in Falling(s, p) /\ h \in Spots /\ s.data[h].listed
               /\ Large(s, p) = s.window[u].large => h = Halves(s, p)[slot]
  <1> DEFINE p == s.window[u].p
             y == s.data[p].conn
  <1>1. p \in Spots /\ s.data[p].listed /\ Sound(s)
    BY DEF Void, HasData, RoomOK
  <1>2. CASE ~s.window[u].large
    <2>1. Clicked(s, u, slot) = p /\ slot = 1
      BY <1>2 DEF Clicked
    <2>2. ~Large(s, p) => Halves(s, p)[1] = p
      BY DEF Halves
    <2>3. QED
      BY <1>1, <1>2, <2>1, <2>2 DEF Falling
  <1>3. CASE s.window[u].large
    <2>1. Large(s, p)
      BY <1>3 DEF Void
    <2>2. slot \in {1, 2} /\ Clicked(s, u, slot) = Halves(s, p)[slot]
      BY <1>3 DEF Clicked
    <2>3. y \in Spots
      BY <1>1, <2>1, HalvesFacts
    <2>4. s.data[p].top \in BOOLEAN
      BY <1>1 DEF Rooms, Half
    <2>a. s.data[p].gone => (slot = 1 <=> s.data[p].top)
      <3> DEFINE b == s.data[p].top
                 c == (slot = 1)
      <3>1. s.data[p].gone => ~(c # b)
        BY <1>3 DEF Void
      <3>2. c \in BOOLEAN /\ b \in BOOLEAN
        BY <2>4
      <3>3. c <=> slot = 1
        OBVIOUS
      <3> HIDE DEF b, c
      <3>4. s.data[p].gone => (c <=> b)
        BY <3>1, <3>2
      <3>5. QED
        BY <3>3, <3>4 DEF b
    <2>5. s.data[p].gone => Clicked(s, u, slot) = p
      <3>1. CASE s.data[p].top
        <4>1. Halves(s, p) = <<p, y>>
          BY <2>1, <3>1 DEF Halves
        <4>2. QED
          BY <2>2, <2>a, <3>1, <4>1
      <3>2. CASE ~s.data[p].top
        <4>1. Halves(s, p) = <<y, p>>
          BY <2>1, <3>2 DEF Halves
        <4>2. QED
          BY <2>2, <2>a, <3>2, <4>1
      <3>3. QED
        BY <3>1, <3>2
    <2>6. Clicked(s, u, slot) \in {p, y}
      <3>1. CASE s.data[p].top
        BY <2>1, <2>2, <3>1 DEF Halves
      <3>2. CASE ~s.data[p].top
        BY <2>1, <2>2, <3>2 DEF Halves
      <3>3. QED
        BY <3>1, <3>2
    <2>7. ~s.data[p].gone => s.data[y].listed
      BY <1>1, <2>1 DEF Sound, Live
    <2> HIDE DEF y
    <2>8. Falling(s, p) = {p, y}
      BY <2>1 DEF Falling, y
    <2>9. QED
      BY <1>1, <2>1, <2>2, <2>3, <2>5, <2>6, <2>7, <2>8
  <1>4. QED
    BY <1>2, <1>3

(* A click where no chest is ends the server.                              *)
LEMMA DownIInv ==
    ASSUME ChestIInv, chests' = [chests EXCEPT !.down = TRUE], shown' = shown
    PROVE  ChestIInv' /\ Total(chests') = Total(chests)
  <1> DEFINE s == chests
             t == [s EXCEPT !.down = TRUE]
  <1>1. RoomOK(s) /\ s \in Rooms /\ shown = [v \in Visitor |-> shown[v]]
    BY DEF ChestIInv, RoomOK
  <1>2. chests' = t /\ shown' = shown
    OBVIOUS
  <1> HIDE DEF s
  <1>3. /\ t \in Rooms /\ t.data = s.data /\ t.block = s.block
        /\ t.tangled = s.tangled /\ t.hand = s.hand /\ t.pack = s.pack
        /\ t.ground = s.ground /\ t.down
    BY <1>1 DEF Rooms
  <1> HIDE DEF t
  <1>4. RoomOK(t) /\ Watched(t, shown)
    BY <1>1, <1>3, SameData DEF Watched
  <1>5. Held(t) = Held(s)
    BY <1>1, <1>3, SameItemsSameSum DEF SameItems
  <1>6. Total(t) = Total(s)
    BY <1>1, <1>3, <1>5, TotalParts
  <1>7. QED
    BY <1>1, <1>2, <1>4, <1>6 DEF ChestIInv, s

\* What is left in the slot, and what the hand and the pack are then.
Shift(pack, held, item, button) ==
    C!Shifted([x \in {1} |-> pack], {1}, item, held, button)
LeftOf(pack, held, item, button) ==
    IF Shift(pack, held, item, button) THEN NoItem
    ELSE C!Moved(item, held, button).slot
HandOf(pack, held, item, button) ==
    IF Shift(pack, held, item, button) THEN held
    ELSE C!Moved(item, held, button).hand
PackOf(pack, held, item, button) ==
    IF Shift(pack, held, item, button)
    THEN C!AddItems([x \in {1} |-> pack], <<1>>, item)[1] ELSE pack

(* Whatever the button, a click keeps the number of items.                 *)
LEMMA ClickItems ==
    ASSUME NEW pack \in Item, NEW held \in Item, NEW item \in Item, NEW button
    PROVE  LET left == LeftOf(pack, held, item, button)
               hand == HandOf(pack, held, item, button)
               rest == PackOf(pack, held, item, button)
           IN  /\ left \in Item /\ hand \in Item /\ rest \in Item
               /\ left.n + hand.n + rest.n = item.n + held.n + pack.n
  <1> DEFINE own == [x \in {1} |-> pack]
             shift == C!Shifted(own, {1}, item, held, button)
             moved == C!Moved(item, held, button)
             rest == C!AddItems(own, <<1>>, item)[1]
  <1>1. item.n \in Nat /\ held.n \in Nat /\ pack.n \in Nat /\ NoItem \in Item
        /\ NoItem.n = 0 /\ C!Empty = NoItem
    BY ItemFacts
  <1>2. CASE shift
    <2>1. item # NoItem /\ C!IsSpace(own, {1}, item)
      BY <1>1, <1>2 DEF C!Shifted
    <2>2. rest \in Item /\ rest.n = pack.n + item.n
      BY <2>1, ShiftedItems
    <2> HIDE DEF rest, shift
    <2>3. QED
      BY <1>1, <1>2, <2>2 DEF rest, shift, Shift, LeftOf, HandOf, PackOf
  <1>3. CASE ~shift
    <2>1. /\ moved.slot \in Item /\ moved.hand \in Item
          /\ moved.slot.n + moved.hand.n = item.n + held.n
      BY MovedItems
    <2>2. moved.slot.n \in Nat /\ moved.hand.n \in Nat
      BY <2>1, ItemFacts
    <2> HIDE DEF moved, shift
    <2>3. QED
      BY <1>1, <1>3, <2>1, <2>2 DEF moved, shift, Shift, LeftOf, HandOf, PackOf
  <1>4. QED
    BY <1>2, <1>3
Shows(w) == IF w.large THEN {1, 2} ELSE {1}
ToldBy(s, u) ==
    {v \in Told(s, s.window[u].p) : s.window[v].large = s.window[u].large} \cup {u}

(* After a click everybody who looks into the chest is shown what is in
   it.                                                                     *)
LEMMA WatchedPut ==
    ASSUME NEW s \in Rooms, NEW t \in Rooms, NEW u \in Visitor, NEW i \in Item,
           NEW slot, NEW h, NEW sh, NEW sh2, RoomOK(s), Watched(s, sh),
           s.window[u] # NoWindow, ~Void(s, u, slot),
           slot \in Shows(s.window[u]),
           h = Clicked(s, u, slot), t.data = Put(s.data, h, i),
           t.block = s.block, t.tangled = s.tangled, t.window = s.window,
           t.altered = s.altered, t.down = s.down,
           \A v \in ToldBy(s, u) : sh2[v] = Retold(sh[v], slot, i),
           \A v \in Visitor \ ToldBy(s, u) : sh2[v] = sh[v]
    PROVE  Watched(t, sh2)
  <1> DEFINE p == s.window[u].p
  <1> SUFFICES ASSUME ~t.tangled, ~t.altered, ~t.down, NEW v \in Visitor,
                      t.window[v] # NoWindow
               PROVE  Seen(t, t.window[v], sh2[v])
    BY DEF Watched
  <1>1. Sound(s) /\ Mirrored(s)
    BY DEF RoomOK
  <1>e. slot \in IF s.window[u].large THEN {1, 2} ELSE {1}
    BY DEF Shows
  <1>2. /\ p \in Spots /\ s.data[p].listed
        /\ h \in Falling(s, p) /\ h \in Spots /\ s.data[h].listed
        /\ Large(s, p) = s.window[u].large => h = Halves(s, p)[slot]
    BY <1>e, ClickedListed
  <1> DEFINE x == s.window[v].p
             c == sh[v]
  <1>3. Seen(s, s.window[v], c) /\ Seen(s, s.window[u], sh[u])
    BY DEF Watched
  <1>4. /\ x \in Spots /\ s.data[x].listed /\ s.data[x].checked
        /\ s.window[v].large <=> Large(s, x)
        /\ c = Content(s, x)
        /\ s.window[u].large <=> Large(s, p)
    BY <1>3 DEF Seen
  <1>5. v \in ToldBy(s, u) <=>
            \/ v = u
            \/ /\ x = p \/ x = s.data[p].conn
               /\ s.window[v].large = s.window[u].large
    BY DEF Told, ToldBy
  <1>a. /\ s.window[v].large \in BOOLEAN /\ s.window[u].large \in BOOLEAN
        /\ Large(s, p) \in BOOLEAN /\ Large(s, x) \in BOOLEAN
    BY DEF Rooms, Large
  <1>b. h = Halves(s, p)[slot]
    <2> DEFINE a == s.window[u].large
               b == Large(s, p)
    <2>1. a \in BOOLEAN /\ b \in BOOLEAN /\ (a <=> b)
      BY <1>4, <1>a
    <2> HIDE DEF a, b
    <2>2. b = a
      BY <2>1
    <2>3. QED
      BY <1>2, <2>2 DEF a, b
  <1>6. /\ v \in ToldBy(s, u) => sh2[v] = Retold(c, slot, i)
        /\ v \notin ToldBy(s, u) => sh2[v] = c
    OBVIOUS
  <1>7. slot \in IF Large(s, p) THEN {1, 2} ELSE {1}
    BY <1>4, <1>e
  <1>c. t.window[v] = s.window[v]
    OBVIOUS
  <1>d. (Large(s, x) <=> Large(s, p)) => s.window[v].large = s.window[u].large
    <2> DEFINE a == s.window[u].large
               b == s.window[v].large
    <2>1. a \in BOOLEAN /\ b \in BOOLEAN /\ ((Large(s, x) <=> Large(s, p)) => (a <=> b))
      BY <1>4, <1>a
    <2> HIDE DEF a, b
    <2>2. QED
      BY <2>1 DEF a, b
  <1> HIDE DEF x, c, p
  <1>8. /\ t.data[x].listed = s.data[x].listed
        /\ t.data[x].checked = s.data[x].checked
        /\ Large(t, x) <=> Large(s, x)
        /\ Content(t, x) = PutContent(Halves(s, x), Content(s, x), h, i)
    <2>1. /\ h \in Spots /\ s.data[h].listed /\ x \in Spots /\ RoomOK(s)
          /\ t.block = s.block /\ t.tangled = s.tangled
          /\ t.data = Put(s.data, h, i) /\ s \in Rooms /\ t \in Rooms /\ i \in Item
      BY <1>2, <1>4
    <2>2. QED
      BY ONLY <2>1, ItemPut
  <1>9. CASE x = p \/ x = s.data[p].conn
    <2>1. Halves(s, x) = Halves(s, p) /\ (Large(s, x) <=> Large(s, p))
      <3>1. CASE x = p
        BY <3>1
      <3>2. CASE x # p
        <4>1. x = s.data[p].conn
          BY <1>9, <3>2
        <4>2. Large(s, p)
          BY <1>4, <4>1, BesideFacts DEF Large
        <4>3. Large(s, x) /\ Halves(s, x) = Halves(s, p)
          BY <1>1, <1>2, <4>1, <4>2, SameHalves
        <4>4. QED
          BY <4>2, <4>3
      <3>3. QED
        BY <3>1, <3>2
    <2>2. v \in ToldBy(s, u)
      BY <1>5, <1>9, <1>d, <2>1
    <2>3. sh2[v] = Retold(Content(s, x), slot, i)
      BY <1>4, <1>6, <2>2
    <2>4. /\ slot \in DOMAIN Halves(s, p)
          /\ \A j \in DOMAIN Halves(s, p) : Halves(s, p)[j] = h <=> j = slot
          /\ DOMAIN Content(s, x) = DOMAIN Halves(s, p)
          /\ Content(s, x) = [j \in DOMAIN Content(s, x) |-> Content(s, x)[j]]
      <3>1. /\ DOMAIN Halves(s, p) = IF Large(s, p) THEN {1, 2} ELSE {1}
            /\ \A j, k \in DOMAIN Halves(s, p) :
                   Halves(s, p)[j] = Halves(s, p)[k] => j = k
        BY <1>1, <1>2, HalvesFacts
      <3>2. DOMAIN Content(s, x) = DOMAIN Halves(s, x)
        BY DEF Content
      <3>3. Content(s, x) = [j \in DOMAIN Content(s, x) |-> Content(s, x)[j]]
        BY DEF Content
      <3>4. QED
        BY <1>7, <1>b, <2>1, <3>1, <3>2, <3>3
    <2>5. Content(t, x) = Retold(Content(s, x), slot, i)
      <3> DEFINE H == Halves(s, p)
                 d == Content(s, x)
      <3>1. /\ slot \in DOMAIN H /\ d = [j \in DOMAIN H |-> d[j]]
            /\ \A j \in DOMAIN H : H[j] = h <=> j = slot
            /\ Content(t, x) = PutContent(H, d, h, i)
        BY <1>8, <2>1, <2>4
      <3> HIDE DEF H, d
      <3>2. PutContent(H, d, h, i) = Retold(d, slot, i)
        BY <3>1, PutSlot
      <3>3. QED
        BY <3>1, <3>2 DEF d
    <2>6. QED
      BY <1>4, <1>8, <1>c, <2>3, <2>5 DEF Seen, x
  <1>10. CASE ~(x = p \/ x = s.data[p].conn)
    <2>1. v \notin ToldBy(s, u)
      BY <1>5, <1>10 DEF p, x
    <2>2. h \notin Falling(s, x)
      BY <1>1, <1>2, <1>4, <1>10, Apart
    <2>3. \A j \in DOMAIN Halves(s, x) : Halves(s, x)[j] # h
      BY <1>1, <1>4, <2>2, HalvesFacts
    <2>4. /\ DOMAIN Content(s, x) = DOMAIN Halves(s, x)
          /\ Content(s, x) = [j \in DOMAIN Content(s, x) |-> Content(s, x)[j]]
      BY DEF Content
    <2>5. Content(t, x) = Content(s, x)
      BY <1>8, <2>3, <2>4 DEF PutContent
    <2>6. QED
      BY <1>4, <1>6, <1>8, <1>c, <2>1, <2>5 DEF Seen, x
  <1>11. QED
    BY <1>9, <1>10

(* A click on a slot of the chest.                                         *)
LEMMA ClickChestIInv ==
    ASSUME ChestIInv, NEW u \in Visitor, chests.window[u] # NoWindow,
           NEW slot \in SlotsOf(u), NEW button, ClickChest(u, slot, button)
    PROVE  ChestIInv' /\ Total(chests') = Total(chests)
  <1> DEFINE s == chests
             h == Clicked(s, u, slot)
             item == s.data[h].item
             own == [x \in {1} |-> s.pack[u]]
             shift == C!Shifted(own, {1}, item, s.hand[u], button)
             moved == C!Moved(item, s.hand[u], button)
             left == IF shift THEN NoItem ELSE moved.slot
             hand == IF shift THEN s.hand[u] ELSE moved.hand
             pack == IF shift THEN C!AddItems(own, <<1>>, item)[1] ELSE s.pack[u]
             t == [s EXCEPT !.data[h].item = left, !.hand[u] = hand, !.pack[u] = pack]
             sh == [v \in Visitor |-> IF v \in ToldBy(s, u)
                                      THEN [shown[v] EXCEPT ![slot] = left]
                                      ELSE shown[v]]
  <1>1. RoomOK(s) /\ s \in Rooms /\ Watched(s, shown)
    BY DEF ChestIInv, RoomOK
  <1>2. CASE Void(s, u, slot)
    BY <1>2, DownIInv DEF ClickChest
  <1>3. CASE ~Void(s, u, slot)
    <2>1. chests' = t /\ shown' = sh
      BY <1>3 DEF ClickChest, ToldBy
    <2>2. slot \in IF s.window[u].large THEN {1, 2} ELSE {1}
      BY DEF SlotsOf
    <2>c. slot \in Shows(s.window[u])
      BY <2>2 DEF Shows
    <2>3. s.window[u] # NoWindow
      OBVIOUS
    <2> HIDE DEF s
    <2>4. h \in Spots /\ s.data[h].listed
      BY <1>1, <1>3, <2>2, ClickedListed
    <2>5. /\ s.data \in [Spots -> Half] /\ s.hand \in [Visitor -> Item]
          /\ s.pack \in [Visitor -> Item]
      BY <1>1 DEF Rooms
    <2>6. item \in Item /\ s.hand[u] \in Item /\ s.pack[u] \in Item
      BY <2>4, <2>5 DEF Half
    <2>7. /\ left \in Item /\ hand \in Item /\ pack \in Item
          /\ left.n + hand.n + pack.n = item.n + s.hand[u].n + s.pack[u].n
      <3> DEFINE held == s.hand[u]
                 mine == s.pack[u]
      <3>1. item \in Item /\ held \in Item /\ mine \in Item
        BY <2>6
      <3> HIDE DEF item, held, mine
      <3>2. LET i == LeftOf(mine, held, item, button)
                j == HandOf(mine, held, item, button)
                k == PackOf(mine, held, item, button)
            IN  /\ i \in Item /\ j \in Item /\ k \in Item
                /\ i.n + j.n + k.n = item.n + held.n + mine.n
        BY ONLY <3>1, ClickItems
      <3>3. /\ left = LeftOf(mine, held, item, button)
            /\ hand = HandOf(mine, held, item, button)
            /\ pack = PackOf(mine, held, item, button)
        BY DEF Shift, LeftOf, HandOf, PackOf, held, mine
      <3> HIDE DEF left, hand, pack
      <3>4. QED
        BY <3>2, <3>3 DEF held, mine
    <2>8. /\ \A v \in ToldBy(s, u) : sh[v] = Retold(shown[v], slot, left)
          /\ \A v \in Visitor \ ToldBy(s, u) : sh[v] = shown[v]
      <3>1. ToldBy(s, u) \subseteq Visitor
        BY DEF ToldBy, Told
      <3> HIDE DEF left
      <3>2. QED
        BY <3>1 DEF Retold
    <2>9. sh = [v \in Visitor |-> sh[v]]
      OBVIOUS
    <2> HIDE DEF left, hand, pack, sh
    <2>10. [s.data EXCEPT ![h].item = left] \in [Spots -> Half]
      <3>1. \A k \in Half : [k EXCEPT !.item = left] \in Half
        BY <2>7 DEF Half
      <3> HIDE DEF h
      <3>2. QED
        BY <2>4, <2>5, <3>1
    <2> HIDE DEF h, item
    <2>11. /\ t \in Rooms /\ t.data = [s.data EXCEPT ![h].item = left]
           /\ t.hand = [s.hand EXCEPT ![u] = hand]
           /\ t.pack = [s.pack EXCEPT ![u] = pack]
           /\ t.block = s.block /\ t.tangled = s.tangled /\ t.window = s.window
           /\ t.altered = s.altered /\ t.down = s.down /\ t.ground = s.ground
      BY <1>1, <2>5, <2>7, <2>10 DEF Rooms
    <2> HIDE DEF t
    <2>a. h = Clicked(s, u, slot)
      BY DEF h
    <2>b. t.data = Put(s.data, h, left)
      BY <2>11 DEF Put
    <2>12. RoomOK(t)
      BY <1>1, <2>4, <2>7, <2>11, <2>b, ItemPut
    <2>13. Watched(t, sh)
      BY <1>1, <1>3, <2>c, <2>3, <2>7, <2>8, <2>11, <2>a, <2>b, WatchedPut
    <2>14. Total(t) = Total(s)
      BY <1>1, <2>4, <2>7, <2>11, PutSum DEF item
    <2>15. QED
      BY <2>1, <2>9, <2>12, <2>13, <2>14 DEF ChestIInv, s
  <1>4. QED
    BY <1>2, <1>3
(* A click on the player's own slot.                                       *)
LEMMA ClickOwnIInv ==
    ASSUME ChestIInv, NEW u \in Visitor, NEW button, ClickOwn(u, button)
    PROVE  ChestIInv' /\ Total(chests') = Total(chests)
  <1> DEFINE s == chests
             moved == C!Moved(s.pack[u], s.hand[u], button)
             pack == moved.slot
             hand == moved.hand
             t == [s EXCEPT !.pack[u] = pack, !.hand[u] = hand]
  <1>1. RoomOK(s) /\ s \in Rooms /\ Watched(s, shown)
        /\ shown = [v \in Visitor |-> shown[v]]
    BY DEF ChestIInv, RoomOK
  <1>2. CASE ~HasData(s, s.window[u].p)
    BY <1>2, DownIInv DEF ClickOwn
  <1>3. CASE HasData(s, s.window[u].p)
    <2>1. chests' = t /\ shown' = shown
      BY <1>3 DEF ClickOwn
    <2> HIDE DEF s
    <2>2. s.hand \in [Visitor -> Item] /\ s.pack \in [Visitor -> Item]
      BY <1>1 DEF Rooms
    <2>3. /\ pack \in Item /\ hand \in Item
          /\ pack.n + hand.n = s.pack[u].n + s.hand[u].n
      BY <2>2, MovedItems
    <2> HIDE DEF pack, hand
    <2>4. /\ t \in Rooms /\ t.data = s.data
          /\ t.hand = [s.hand EXCEPT ![u] = hand]
          /\ t.pack = [s.pack EXCEPT ![u] = pack]
          /\ t.block = s.block /\ t.tangled = s.tangled /\ t.window = s.window
          /\ t.altered = s.altered /\ t.down = s.down /\ t.ground = s.ground
      BY <1>1, <2>2, <2>3 DEF Rooms
    <2> HIDE DEF t
    <2>5. RoomOK(t) /\ \A v, c : Seen(s, v, c) => Seen(t, v, c)
      BY <1>1, <2>4, SameData
    <2>6. Watched(t, shown)
      BY <1>1, <2>4, <2>5 DEF Watched
    <2>7. Held(t) = Held(s) /\ Held(s) \in Int
      BY <1>1, <2>4, SameItemsSameSum, StoredType DEF SameItems
    <2>8. /\ SumFunction(Counts(s.hand)) \in Int
          /\ s.hand[u].n \in Nat /\ hand.n \in Nat
          /\ SumFunction(Counts(t.hand)) = SumFunction(Counts(s.hand)) - s.hand[u].n + hand.n
      BY <2>2, <2>3, <2>4, CountChanges
    <2>9. /\ SumFunction(Counts(s.pack)) \in Int
          /\ s.pack[u].n \in Nat /\ pack.n \in Nat
          /\ SumFunction(Counts(t.pack)) = SumFunction(Counts(s.pack)) - s.pack[u].n + pack.n
      BY <2>2, <2>3, <2>4, CountChanges
    <2>10. Total(t) = Total(s)
      BY <2>3, <2>7, <2>8, <2>9 DEF Total
    <2>11. QED
      BY <1>1, <2>1, <2>5, <2>6, <2>10 DEF ChestIInv, s
  <1>4. QED
    BY <1>2, <1>3

(* Every step keeps the invariant and the number of items.                 *)
LEMMA ChestNextIInv ==
    ASSUME ChestIInv, ChestsNext
    PROVE  ChestIInv' /\ Total(chests') = Total(chests)
  <1>1. CASE \E p \in Spots : PlaceChest(p) \/ BreakChest(p)
    BY <1>1, PlaceIInv, BreakIInv
  <1>2. CASE \E u \in Visitor, p \in Spots : OpenChest(u, p)
    BY <1>2, OpenIInv
  <1>3. CASE \E u \in Visitor : ClickWindow(u)
    BY <1>3, ClickChestIInv, ClickOwnIInv DEF ClickWindow
  <1>4. CASE \E u \in Visitor : CloseChest(u)
    BY <1>4, CloseIInv
  <1>5. CASE ReloadChunk
    BY <1>5, ReloadIInv
  <1>6. QED
    BY <1>1, <1>2, <1>3, <1>4, <1>5 DEF ChestsNext

(* The map is loaded with chests that have no data yet.                    *)
LEMMA ChestInitIInv ==
    ASSUME ChestsInit
    PROVE  ChestIInv
  <1> PICK standing \in SUBSET Spots : ChestsStart(standing)
    BY DEF ChestsInit
  <1> DEFINE s == chests
  <1>1. s = Room(standing) /\ shown = [u \in Visitor |-> << >>]
    BY DEF ChestsStart
  <1>2. /\ s.block = standing /\ s.data = [p \in Spots |-> NoData]
        /\ s.window = [u \in Visitor |-> NoWindow]
        /\ s.hand = [u \in Visitor |-> NoItem] /\ s.pack = Purse
        /\ s.ground = 0 /\ s.down = FALSE /\ s.tangled = FALSE /\ s.altered = FALSE
        /\ s = [block |-> s.block, data |-> s.data, window |-> s.window,
                hand |-> s.hand, pack |-> s.pack, ground |-> s.ground,
                down |-> s.down, tangled |-> s.tangled, altered |-> s.altered]
    BY <1>1 DEF Room
  <1> HIDE DEF s
  <1>3. s \in Rooms
    <2>1. NoWindow \in [p : {<< >>} \cup Spots, large : BOOLEAN]
      BY DEF NoWindow
    <2>2. Purse \in [Visitor -> Item]
      BY PurseAssumption DEF Item
    <2>3. s.block \in SUBSET Spots /\ s.data \in [Spots -> Half]
      BY <1>2, NoHalf
    <2>4. s.hand \in [Visitor -> Item] /\ s.pack \in [Visitor -> Item]
      BY <1>2, <2>2, NoHalf
    <2>5. s.window \in [Visitor -> [p : {<< >>} \cup Spots, large : BOOLEAN]]
      BY <1>2, <2>1
    <2>6. s.ground \in Nat
      BY <1>2
    <2>7. s.down \in BOOLEAN /\ s.tangled \in BOOLEAN /\ s.altered \in BOOLEAN
      BY <1>2, Zenon
    <2>8. QED
      BY <1>2, <2>3, <2>4, <2>5, <2>6, <2>7 DEF Rooms
  <1>4. \A p \in Spots : s.data[p] = NoData /\ ~Large(s, p)
    BY <1>2 DEF Large, NoData, NewData
  <1>5. ~NoData.listed /\ ~NoData.gone
    BY DEF NoData, NewData
  <1>6. Sound(s) /\ Standing(s, s.block) /\ Mirrored(s) /\ Settled(s)
    BY <1>4, <1>5 DEF Sound, Cleared, Checked, Live, Touching, Standing, Mirrored, Settled
  <1>7. Watched(s, shown)
    BY <1>2 DEF Watched
  <1>8. QED
    BY <1>1, <1>3, <1>6, <1>7 DEF ChestIInv, RoomOK, s

(* The sum of the property is the one the lemmas are about.               *)
LEMMA ChestTotal == ChestItems = Total(chests)
  BY DEF ChestItems, Total, Held, Stored, Counts

-----------------------------------------------------------------------------
(* The theorems.                                                           *)

(* The inductive invariant holds, for any places and players.              *)
THEOREM ChestsInvariance == ChestsSpec => []ChestIInv
  <1>1. ChestIInv /\ UNCHANGED chestVars => ChestIInv'
    BY DEF ChestIInv, chestVars, Watched
  <1>2. QED
    BY <1>1, ChestInitIInv, ChestNextIInv, PTL DEF ChestsSpec

(* PairsMirror: connected_chest of a chest points at a neighbour that points back,
   is there, and is the other half, unless loaded chests are tangled.       *)
THEOREM ChestsMirror == ChestsSpec => []PairsMirror
  <1>1. ChestIInv => PairsMirror
    <2> SUFFICES ASSUME ChestIInv, ~chests.tangled, NEW p \in Spots,
                        HasData(chests, p), chests.data[p].conn # << >>
                 PROVE  LET q == chests.data[p].conn
                        IN  /\ q \in Range(Beside(p)) /\ HasData(chests, q)
                            /\ chests.data[q].conn = p /\ ~chests.data[q].gone
                            /\ chests.data[q].top # chests.data[p].top
      BY DEF PairsMirror
    <2>1. Mirror(chests, p)
      BY DEF ChestIInv, RoomOK, Mirrored, Large
    <2>2. chests.data[p].conn \in Spots
      BY DEF ChestIInv, RoomOK, Rooms, Half
    <2>3. QED
      BY <2>1, <2>2 DEF Mirror, HasData
  <1>2. QED
    BY <1>1, ChestsInvariance, PTL

(* WatchersAgree: whoever looks into a chest, by either half, sees what is in it,
   as onwindowClick tells all of them.                                      *)
THEOREM ChestsAgree == ChestsSpec => []WatchersAgree
  <1>1. ChestIInv => WatchersAgree
    <2> SUFFICES ASSUME ChestIInv, ~chests.tangled, ~chests.altered, ~chests.down,
                        NEW u \in Visitor, HasData(chests, chests.window[u].p)
                 PROVE  shown[u] = Content(chests, chests.window[u].p)
      BY DEF WatchersAgree
    <2>1. chests.window[u] # NoWindow
      BY BesideFacts DEF HasData, NoWindow
    <2>2. QED
      BY <2>1 DEF ChestIInv, Watched, Seen
  <1>2. QED
    BY <1>1, ChestsInvariance, PTL

(* ChestsKeepItems: no item is lost or made by placing, breaking, joining, clicks
   and loading.                                                             *)
THEOREM ChestsKeep == ChestsSpec => ChestsKeepItems
  <1>1. ChestIInv /\ [ChestsNext]_chestVars => [ChestItems' = ChestItems]_chestVars
    <2>1. ASSUME ChestIInv, ChestsNext PROVE ChestItems' = ChestItems
      <3>1. ChestItems' = Total(chests')
        BY DEF ChestItems, Total, Held, Stored, Counts
      <3>2. QED
        BY <2>1, <3>1, ChestTotal, ChestNextIInv
    <2>2. QED
      BY <2>1
  <1>2. QED
    BY <1>1, ChestsInvariance, PTL DEF ChestsSpec, ChestsKeepItems
=============================================================================
