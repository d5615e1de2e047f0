---------------------------- MODULE FurnaceProofs ----------------------------
(* Theorems about Furnace, whatever players click and break.  First, what can
   cook is served: what the slots hold is of no matter for it; what matters is
   which data the Furnace in the manager's list works on.  Then, nothing comes
   from nothing: what all slots, hands and fires hold, by any fair weights of
   ingredients, results, fuel and fire, never grows.                         *)
EXTENDS Furnace, NumberFacts

\* Data and sites, whatever the items in the slots (V) and the data (D) are.
DataOf(V) == [items : [Slot -> V], burn : Nat, cook : Nat]
IsData(d) == \E V : d \in DataOf(V)

SiteOf(D) == [block : {"air", "furnace", "burning"}, data : D,
              active : {"no", "chunk", "orphan"}, orphan : D, lit : BOOLEAN]
IsSite(f) == \E D : f \in SiteOf(D)

\* A Furnace in the list works on data: on the chunk's, or on data of its own.
RunsOnData(f) ==
    /\ f.active = "chunk" => IsData(f.data)
    /\ f.active = "orphan" => IsData(f.orphan)
    /\ f.data # None => IsData(f.data)

\* Data that was made where an orphan works is in its shadow.
Shadowed(f, shadow) == f.active = "orphan" /\ f.data # None => shadow

Served(f) == f.data # None /\ CanCook(f.data) => f.active = "chunk"

Good(f, shadow) ==
    IsSite(f) /\ RunsOnData(f) /\ Shadowed(f, shadow) /\ (~shadow => Served(f))

IInv == /\ \E F : site \in [Place -> F]
        /\ \A p \in Place : Good(site[p], p \in eclipsed)

(* There is no furnace at first. *)
LEMMA InitIInv == Init => IInv
  <1> SUFFICES ASSUME Init PROVE IInv
    OBVIOUS
  <1>1. site \in [Place -> {NoSite}]
    BY DEF Init
  <1>2. NoSite \in SiteOf({None}) /\ NoSite.active = "no" /\ NoSite.data = None
    BY DEF NoSite, SiteOf
  <1>3. ASSUME NEW p \in Place PROVE Good(site[p], p \in eclipsed)
    <2>1. site[p] = NoSite
      BY <1>1
    <2>2. QED
      BY <1>2, <2>1 DEF Good, IsSite, RunsOnData, Shadowed, Served
  <1>4. QED
    BY <1>1, <1>3 DEF IInv

-----------------------------------------------------------------------------
(* One round of update *)

(* A second burns a second. *)
LEMMA BurntData ==
    ASSUME NEW d, IsData(d)
    PROVE  IsData(Burnt(d))
  <1>1. PICK V : d \in DataOf(V)
    BY DEF IsData
  <1>2. Burnt(d) \in DataOf(V)
    BY <1>1 DEF DataOf, Burnt
  <1>3. QED
    BY <1>2 DEF IsData

(* A Furnace with something to smelt burns after it was refuelled, if there
   was fuel.                                                                *)
LEMMA RefuelledData ==
    ASSUME NEW d, IsData(d)
    PROVE  /\ IsData(Refuelled(d))
           /\ ~IsBurningFuel(Refuelled(d)) => ~CanCook(Refuelled(d))
  <1>1. CASE ~IsBurningFuel(d) /\ HasValidIngredient(d) /\ d.items["fuel"].kind = "coal"
    <2>1. PICK V : d \in DataOf(V)
      BY DEF IsData
    <2> DEFINE i == [d.items EXCEPT !["fuel"] = Less(@)]
               W == V \cup {Less(d.items["fuel"])}
               b == d.burn + FuelTime
    <2>2. i \in [Slot -> W]
      BY <2>1 DEF DataOf
    <2>3. Refuelled(d) = [d EXCEPT !.burn = b, !.items = i]
      BY <1>1, <2>1 DEF Refuelled, ConsumeFuel, DataOf
    <2>4. b \in Nat /\ b > 0
      BY <2>1, FurnaceAssumption DEF DataOf
    <2> HIDE DEF i, W, b
    <2>5. Refuelled(d) \in DataOf(W)
      BY <2>1, <2>2, <2>3, <2>4 DEF DataOf
    <2>6. Refuelled(d).burn = b
      BY <2>1, <2>3 DEF DataOf
    <2>7. QED
      BY <2>4, <2>5, <2>6 DEF IsData, IsBurningFuel
  <1>2. CASE ~(~IsBurningFuel(d) /\ HasValidIngredient(d) /\ d.items["fuel"].kind = "coal")
    <2>1. Refuelled(d) = d
      BY <1>2 DEF Refuelled, ConsumeFuel
    <2>2. QED
      BY <1>2, <2>1 DEF CanCook
  <1>3. QED
    BY <1>1, <1>2

(* Smelting changes the items only. *)
LEMMA SmeltData ==
    ASSUME NEW d, IsData(d), NEW garbage
    PROVE  IsData(Smelt(d, garbage)) /\ Smelt(d, garbage).burn = d.burn
  <1>1. PICK V : d \in DataOf(V)
    BY DEF IsData
  <1>2. ASSUME NEW a, NEW b
        PROVE  LET e == [d EXCEPT !.items["output"] = a, !.items["input"] = b, !.cook = 0]
               IN  IsData(e) /\ e.burn = d.burn
    <2> DEFINE i == [d.items EXCEPT !["output"] = a, !["input"] = b]
               e == [d EXCEPT !.items["output"] = a, !.items["input"] = b, !.cook = 0]
               W == V \cup {a, b}
    <2>1. i \in [Slot -> W]
      BY <1>1 DEF DataOf
    <2>2. e = [d EXCEPT !.items = i, !.cook = 0]
      BY <1>1 DEF DataOf
    <2> HIDE DEF i, W, e
    <2>3. e \in DataOf(W) /\ e.burn = d.burn
      BY <1>1, <2>1, <2>2 DEF DataOf
    <2>4. IsData(e)
      BY <2>3 DEF IsData
    <2>5. QED
      BY <2>3, <2>4 DEF e
  <1>3. QED
    BY <1>2 DEF Smelt

(* Cooking burns nothing, and nothing cooks without fire. *)
LEMMA CookedData ==
    ASSUME NEW d, IsData(d), NEW garbage
    PROVE  /\ IsData(Cooked(d, garbage))
           /\ Cooked(d, garbage).burn = d.burn
           /\ ~IsBurningFuel(d) => Cooked(d, garbage) = d
  <1>1. PICK V : d \in DataOf(V)
    BY DEF IsData
  <1>2. CASE ~IsCooking(d)
    BY <1>2 DEF Cooked
  <1>3. CASE IsCooking(d) /\ d.cook + 1 < CookTime
    <2>1. Cooked(d, garbage) = [d EXCEPT !.cook = @ + 1]
      BY <1>3 DEF Cooked
    <2>2. Cooked(d, garbage) \in DataOf(V) /\ Cooked(d, garbage).burn = d.burn
      BY <1>1, <2>1 DEF DataOf
    <2>3. QED
      BY <1>3, <2>2 DEF IsData, IsCooking
  <1>4. CASE IsCooking(d) /\ ~(d.cook + 1 < CookTime)
    <2> DEFINE e == [d EXCEPT !.cook = CookTime]
    <2>1. e \in DataOf(V) /\ e.burn = d.burn
      BY <1>1, FurnaceAssumption DEF DataOf
    <2>2. Cooked(d, garbage) = Smelt(e, garbage)
      BY <1>4 DEF Cooked
    <2> HIDE DEF e
    <2>3. IsData(e)
      BY <2>1 DEF IsData
    <2>4. QED
      BY <1>4, <2>1, <2>2, <2>3, SmeltData DEF IsCooking
  <1>5. QED
    BY <1>2, <1>3, <1>4

(* What the operations on a site leave. *)
LEMMA WithRunningSite ==
    ASSUME NEW f, IsSite(f), NEW d
    PROVE  /\ IsSite(WithRunning(f, d)) /\ WithRunning(f, d).active = f.active
           /\ IF f.active = "orphan"
              THEN WithRunning(f, d).orphan = d /\ WithRunning(f, d).data = f.data
              ELSE WithRunning(f, d).data = d /\ WithRunning(f, d).orphan = f.orphan
  <1>1. PICK D : f \in SiteOf(D)
    BY DEF IsSite
  <1>2. WithRunning(f, d) \in SiteOf(D \cup {d})
    BY <1>1 DEF SiteOf, WithRunning
  <1>3. IsSite(WithRunning(f, d))
    BY <1>2 DEF IsSite
  <1>4. QED
    BY <1>1, <1>3 DEF SiteOf, WithRunning

(* updateBlock changes the block and nothing it is decided by. *)
LEMMA UpdateBlockSite ==
    ASSUME NEW f, IsSite(f)
    PROVE  /\ IsSite(UpdateBlock(f)) /\ UpdateBlock(f).active = f.active
           /\ UpdateBlock(f).data = f.data /\ UpdateBlock(f).orphan = f.orphan
  <1>1. PICK D : f \in SiteOf(D)
    BY DEF IsSite
  <1>2. CASE IsBurningFuel(Running(f)) = f.lit
    BY <1>2 DEF UpdateBlock
  <1>3. ASSUME NEW fire \in BOOLEAN, NEW block \in {"furnace", "burning"}
        PROVE  LET g == [f EXCEPT !.lit = fire, !.block = block]
               IN  IsSite(g) /\ g.active = f.active /\ g.data = f.data /\ g.orphan = f.orphan
    <2> DEFINE g == [f EXCEPT !.lit = fire, !.block = block]
    <2>1. /\ g \in SiteOf(D)
          /\ g.active = f.active /\ g.data = f.data /\ g.orphan = f.orphan
      BY <1>1 DEF SiteOf
    <2>2. QED
      BY <2>1 DEF IsSite
  <1>4. IsBurningFuel(Running(f)) \in BOOLEAN
    BY DEF IsBurningFuel
  <1>5. CASE IsBurningFuel(Running(f)) # f.lit
    <2> DEFINE fire == IsBurningFuel(Running(f))
               block == IF fire THEN "burning" ELSE "furnace"
    <2>1. UpdateBlock(f) = [f EXCEPT !.lit = fire, !.block = block]
      BY <1>5 DEF UpdateBlock
    <2>2. block \in {"furnace", "burning"} /\ fire \in BOOLEAN
      BY <1>4
    <2> HIDE DEF fire, block
    <2>3. QED
      BY <1>3, <2>1, <2>2
  <1>6. QED
    BY <1>2, <1>5

(* A Furnace that leaves the list leaves the data of the chunk as it is. *)
LEMMA StoppedSite ==
    ASSUME NEW f, IsSite(f)
    PROVE  /\ IsSite(Stopped(f)) /\ Stopped(f).active = "no"
           /\ Stopped(f).data = f.data /\ Stopped(f).orphan = None
  <1>1. PICK D : f \in SiteOf(D)
    BY DEF IsSite
  <1>2. Stopped(f) \in SiteOf(D \cup {None})
    BY <1>1 DEF SiteOf, Stopped
  <1>3. IsSite(Stopped(f))
    BY <1>2 DEF IsSite
  <1>4. QED
    BY <1>1, <1>3 DEF SiteOf, Stopped

(* A Furnace that works on its data goes out of the list only when there is
   nothing left for it to do.                                               *)
LEMMA UpdatedGood ==
    ASSUME NEW f, NEW shadow, NEW garbage, Good(f, shadow), f.active # "no"
    PROVE  Good(Updated(f, garbage), shadow)
  <1> DEFINE d == Cooked(Refuelled(Burnt(Running(f))), garbage)
             r == Refuelled(Burnt(Running(f)))
             g == UpdateBlock(WithRunning(f, d))
             n == Updated(f, garbage)
  <1>1. IsSite(f) /\ RunsOnData(f) /\ f.active \in {"chunk", "orphan"}
    BY DEF Good, IsSite, SiteOf
  <1>2. IsData(Running(f))
    BY <1>1 DEF RunsOnData, Running
  <1>3. IsData(r) /\ (~IsBurningFuel(r) => ~CanCook(r))
    BY <1>2, BurntData, RefuelledData
  <1>4. IsData(d) /\ (~IsBurningFuel(d) => ~CanCook(d))
    <2> HIDE DEF r
    <2>1. d = Cooked(r, garbage)
      BY DEF r
    <2> HIDE DEF d
    <2>2. IsData(d) /\ d.burn = r.burn /\ (~IsBurningFuel(r) => d = r)
      BY <1>3, <2>1, CookedData
    <2>3. QED
      BY <1>3, <2>2 DEF IsBurningFuel
  <1>5. n = IF IsBurningFuel(d) THEN g ELSE Stopped(g)
    BY DEF Updated
  <1> HIDE DEF d, n
  <1>6. /\ IsSite(g) /\ g.active = f.active
        /\ f.active = "chunk" => g.data = d /\ g.orphan = f.orphan
        /\ f.active = "orphan" => g.orphan = d /\ g.data = f.data
    <2>1. IsSite(WithRunning(f, d))
      BY <1>1, WithRunningSite
    <2>2. QED
      BY <1>1, <2>1, WithRunningSite, UpdateBlockSite
  <1> HIDE DEF g
  <1>7. CASE IsBurningFuel(d)
    <2>1. n = g
      BY <1>5, <1>7
    <2>2. RunsOnData(n)
      BY <1>1, <1>4, <1>6, <2>1 DEF RunsOnData
    <2>3. Shadowed(n, shadow) /\ (~shadow => Served(n))
      BY <1>1, <1>6, <2>1 DEF Good, Shadowed, Served
    <2>4. QED
      BY <1>6, <2>1, <2>2, <2>3 DEF Good, n
  <1>8. CASE ~IsBurningFuel(d)
    <2>1. /\ IsSite(n) /\ n.active = "no" /\ n.data = g.data
      BY <1>5, <1>6, <1>8, StoppedSite
    <2>2. RunsOnData(n) /\ Shadowed(n, shadow)
      BY <1>1, <1>4, <1>6, <2>1 DEF RunsOnData, Shadowed
    <2>3. ~shadow => Served(n)
      BY <1>1, <1>4, <1>6, <1>8, <2>1 DEF Good, Shadowed, Served
    <2>4. QED
      BY <2>1, <2>2, <2>3 DEF Good, n
  <1>9. QED
    BY <1>7, <1>8

-----------------------------------------------------------------------------
(* Blocks and clicks *)

(* Breaking or placing a furnace leaves its Furnace with data of its own. *)
LEMMA ForgottenGood ==
    ASSUME NEW f, NEW shadow, Good(f, shadow),
           NEW block \in {"air", "furnace"}
    PROVE  Good([Forgotten(f) EXCEPT !.block = block], FALSE)
  <1> DEFINE n == [Forgotten(f) EXCEPT !.block = block]
  <1>1. PICK D : f \in SiteOf(D)
    BY DEF Good, IsSite
  <1> DEFINE o == IF f.active = "chunk" THEN f.data ELSE f.orphan
             a == IF f.active = "chunk" THEN "orphan" ELSE f.active
  <1>2. Forgotten(f) = [f EXCEPT !.data = None, !.orphan = o, !.active = a]
    BY <1>1 DEF Forgotten, SiteOf
  <1>3. o \in D \cup {None} /\ a \in {"no", "orphan"}
    BY <1>1 DEF SiteOf
  <1>4. a = "orphan" => IsData(o)
    BY <1>1 DEF Good, RunsOnData, SiteOf
  <1> HIDE DEF o, a
  <1>5. n = [f EXCEPT !.data = None, !.orphan = o, !.active = a, !.block = block]
    BY <1>2
  <1> HIDE DEF n
  <1>6. /\ n \in SiteOf(D \cup {None})
        /\ n.data = None /\ n.active = a /\ n.orphan = o
    BY <1>1, <1>3, <1>5 DEF SiteOf
  <1>7. IsSite(n)
    BY <1>6 DEF IsSite
  <1>8. RunsOnData(n) /\ Shadowed(n, FALSE) /\ Served(n)
    BY <1>3, <1>4, <1>6 DEF RunsOnData, Shadowed, Served
  <1>9. QED
    BY <1>7, <1>8 DEF Good, n

(* The constructor takes the data as it is. *)
LEMMA NewFurnaceSite ==
    ASSUME NEW f, IsSite(f)
    PROVE  /\ IsSite(NewFurnace(f)) /\ NewFurnace(f).active = "chunk"
           /\ NewFurnace(f).data = f.data /\ NewFurnace(f).orphan = f.orphan
  <1>1. PICK D : f \in SiteOf(D)
    BY DEF IsSite
  <1> DEFINE lit == f.block = "burning"
             g == [f EXCEPT !.active = "chunk", !.lit = lit]
  <1>2. lit \in BOOLEAN
    OBVIOUS
  <1>3. NewFurnace(f) = UpdateBlock(g)
    BY DEF NewFurnace
  <1> HIDE DEF lit
  <1>4. /\ g \in SiteOf(D) /\ g.active = "chunk"
        /\ g.data = f.data /\ g.orphan = f.orphan
    BY <1>1, <1>2 DEF SiteOf
  <1> HIDE DEF g
  <1>5. IsSite(g)
    BY <1>4 DEF IsSite
  <1>6. QED
    BY <1>3, <1>4, <1>5, UpdateBlockSite

(* Data without a valid ingredient stops cooking, and keeps its items. *)
LEMMA UpdateItemsData ==
    ASSUME NEW d, IsData(d)
    PROVE  /\ IsData(UpdateItems(d)) /\ UpdateItems(d).items = d.items
           /\ UpdateItems(d).burn = d.burn
  <1>1. PICK V : d \in DataOf(V)
    BY DEF IsData
  <1>2. /\ UpdateItems(d) \in DataOf(V) /\ UpdateItems(d).items = d.items
        /\ UpdateItems(d).burn = d.burn
    BY <1>1 DEF DataOf, UpdateItems
  <1>3. QED
    BY <1>2 DEF IsData

(* After a click on the input or the fuel the Furnace is in the list if there
   is something to cook.                                                    *)
LEMMA HandleActivityGood ==
    ASSUME NEW f, NEW shadow, IsSite(f), RunsOnData(f), IsData(f.data),
           Shadowed(f, shadow)
    PROVE  Good(HandleActivity(f), shadow)
  <1> DEFINE g == IF f.active = "no" THEN NewFurnace(f)
                  ELSE WithRunning(f, UpdateItems(Running(f)))
             n == HandleActivity(f)
             works == (IsBurningFuel(Running(g)) \/ Running(g).items["fuel"].n > 0)
                      /\ HasValidIngredient(Running(g))
  <1>1. f.active \in {"no", "chunk", "orphan"}
    BY DEF IsSite, SiteOf
  <1>2. n = IF works THEN g ELSE Stopped(g)
    BY DEF HandleActivity
  <1> HIDE DEF works, n
  \* In each case what is then cooked is the data, or an orphan's.
  <1>3. /\ IsSite(g) /\ RunsOnData(g) /\ IsData(g.data)
        /\ g.active = (IF f.active = "no" THEN "chunk" ELSE f.active)
        /\ f.active = "orphan" => g.data = f.data
    <2>1. CASE f.active = "no"
      <3>1. g = NewFurnace(f)
        BY <2>1
      <3> HIDE DEF g
      <3>2. QED
        BY <2>1, <3>1, NewFurnaceSite DEF RunsOnData
    <2>2. CASE f.active # "no"
      <3>1. g = WithRunning(f, UpdateItems(Running(f)))
        BY <2>2
      <3>2. IsData(Running(f))
        BY <1>1, <2>2 DEF RunsOnData, Running
      <3>3. IsData(UpdateItems(Running(f)))
        BY <3>2, UpdateItemsData
      <3> HIDE DEF g
      <3>4. QED
        BY <1>1, <2>2, <3>1, <3>3, WithRunningSite DEF RunsOnData
    <2>3. QED
      BY <2>1, <2>2
  <1> HIDE DEF g
  <1>4. CASE works
    <2>1. n = g
      BY <1>2, <1>4
    <2>2. Shadowed(n, shadow) /\ (~shadow => Served(n))
      BY <1>1, <1>3, <2>1 DEF Shadowed, Served
    <2>3. QED
      BY <1>3, <2>1, <2>2 DEF Good, n
  <1>5. CASE ~works
    <2>1. IsSite(n) /\ n.active = "no" /\ n.data = g.data
      BY <1>2, <1>3, <1>5, StoppedSite
    <2>2. RunsOnData(n) /\ Shadowed(n, shadow)
      BY <1>3, <2>1 DEF RunsOnData, Shadowed
    <2>3. g.active = "chunk" => ~CanCook(g.data)
      BY <1>5 DEF works, CanCook, Running
    <2>4. ~shadow => Served(n)
      BY <1>1, <1>3, <2>1, <2>3 DEF Served, Shadowed
    <2>5. QED
      BY <2>1, <2>2, <2>4 DEF Good, n
  <1>6. QED
    BY <1>4, <1>5

(* Data that was just made has nothing to cook. *)
LEMMA NewDataIsData == IsData(NewData) /\ ~CanCook(NewData)
  <1>1. NewData \in DataOf({Empty})
    BY DEF NewData, DataOf
  <1>2. NewData.items["input"] = Empty
    BY DEF NewData, Slot
  <1>3. QED
    BY <1>1, <1>2 DEF IsData, CanCook, HasValidIngredient, Empty

(* Any item may come into any slot of the data. *)
LEMMA SlotChanged ==
    ASSUME NEW d, IsData(d), NEW s \in Slot, NEW item
    PROVE  /\ IsData([d EXCEPT !.items[s] = item])
           /\ s = "output" =>
                CanCook([d EXCEPT !.items[s] = item]) = CanCook(d)
  <1>1. PICK V : d \in DataOf(V)
    BY DEF IsData
  <1> DEFINE i == [d.items EXCEPT ![s] = item]
             e == [d EXCEPT !.items[s] = item]
             W == V \cup {item}
  <1>2. i \in [Slot -> W]
    BY <1>1 DEF DataOf
  <1>3. e = [d EXCEPT !.items = i]
    BY <1>1 DEF DataOf
  <1>4. s = "output" => i["input"] = d.items["input"] /\ i["fuel"] = d.items["fuel"]
    BY <1>1 DEF DataOf, Slot
  <1> HIDE DEF i, W, e
  <1>5. e \in DataOf(W) /\ e.items = i /\ e.burn = d.burn
    BY <1>1, <1>2, <1>3 DEF DataOf
  <1>6. s = "output" => CanCook(e) = CanCook(d)
    BY <1>4, <1>5 DEF CanCook, HasValidIngredient, IsBurningFuel
  <1>7. IsData(e)
    BY <1>5 DEF IsData
  <1>8. QED
    BY <1>6, <1>7 DEF e

(* A click on a slot of a site's data, which is made if it is not there. *)
LEMMA ClickedGood ==
    ASSUME NEW f, NEW shadow \in BOOLEAN, Good(f, shadow), NEW s \in Slot, NEW item
    PROVE  LET d == IF f.data = None THEN NewData ELSE f.data
               g == [f EXCEPT !.data = [d EXCEPT !.items[s] = item]]
           IN  Good(IF s = "output" THEN g ELSE HandleActivity(g),
                    shadow \/ (f.data = None /\ f.active = "orphan"))
  <1> DEFINE d == IF f.data = None THEN NewData ELSE f.data
             e == [d EXCEPT !.items[s] = item]
             g == [f EXCEPT !.data = e]
             new == shadow \/ (f.data = None /\ f.active = "orphan")
  <1>1. PICK D : f \in SiteOf(D)
    BY DEF Good, IsSite
  <1>2. IsData(d)
    BY NewDataIsData DEF Good, RunsOnData
  <1>3. f.data = None => ~CanCook(d)
    BY NewDataIsData
  <1>4. f.data # None => d = f.data
    OBVIOUS
  <1> HIDE DEF d
  <1>5. IsData(e) /\ (s = "output" => CanCook(e) = CanCook(d))
    BY <1>2, SlotChanged
  <1> HIDE DEF e
  <1>6. /\ g \in SiteOf(D \cup {e}) /\ g.data = e
        /\ g.active = f.active /\ g.orphan = f.orphan
    BY <1>1 DEF SiteOf
  <1> HIDE DEF g
  <1>7. IsSite(g) /\ RunsOnData(g) /\ Shadowed(g, new)
    BY <1>5, <1>6 DEF IsSite, RunsOnData, Shadowed, Good
  <1>8. CASE s = "output"
    <2>1. ~new => Served(g)
      BY <1>3, <1>4, <1>5, <1>6, <1>8 DEF Good, Served
    <2>2. Good(g, new)
      BY <1>7, <2>1 DEF Good
    <2>3. QED
      BY <1>8, <2>2 DEF g, e, d
  <1>9. CASE s # "output"
    <2> HIDE DEF new
    <2>1. Good(HandleActivity(g), new)
      BY <1>5, <1>6, <1>7, HandleActivityGood
    <2>2. QED
      BY <1>9, <2>1 DEF g, e, d, new
  <1>10. QED
    BY <1>8, <1>9

-----------------------------------------------------------------------------
(* The steps *)

(* Replacing one site. *)
LEMMA OneSite ==
    ASSUME IInv, NEW p \in Place, NEW f, site' = [site EXCEPT ![p] = f],
           Good(f, p \in eclipsed'),
           \A q \in Place \ {p} : q \in eclipsed' <=> q \in eclipsed
    PROVE  IInv'
  <1>1. PICK F : site \in [Place -> F]
    BY DEF IInv
  <1>2. site' \in [Place -> F \cup {f}]
    BY <1>1
  <1>3. ASSUME NEW q \in Place PROVE Good(site'[q], q \in eclipsed')
    <2>1. CASE q = p
      BY <1>1, <2>1
    <2>2. CASE q # p
      <3>1. site'[q] = site[q] /\ ((q \in eclipsed') = (q \in eclipsed))
        BY <1>1, <2>2
      <3>2. QED
        BY <3>1 DEF IInv
    <2>3. QED
      BY <2>1, <2>2
  <1>4. QED
    BY <1>2, <1>3 DEF IInv

(* A round of the manager serves or stops each Furnace in its list. *)
LEMMA UpdateIInv == ASSUME IInv, Update PROVE IInv'
  <1>1. PICK garbage \in [Place -> {"cooked", "odd"}] :
          site' = [p \in Place |->
                       IF site[p].active = "no" THEN site[p]
                       ELSE Updated(site[p], garbage[p])]
    BY DEF Update
  <1>2. eclipsed' = eclipsed
    BY DEF Update
  <1>3. ASSUME NEW p \in Place PROVE Good(site'[p], p \in eclipsed')
    <2>1. Good(site[p], p \in eclipsed)
      BY DEF IInv
    <2>2. CASE site[p].active = "no"
      <3>1. site'[p] = site[p]
        BY <1>1, <2>2
      <3>2. QED
        BY <1>2, <2>1, <3>1
    <2>3. CASE site[p].active # "no"
      <3>1. site'[p] = Updated(site[p], garbage[p])
        BY <1>1, <2>3
      <3>2. Good(Updated(site[p], garbage[p]), p \in eclipsed)
        BY <2>1, <2>3, UpdatedGood
      <3>3. QED
        BY <1>2, <3>1, <3>2
    <2>4. QED
      BY <2>2, <2>3
  <1>4. \E F : site' \in [Place -> F]
    <2> DEFINE F == {site'[p] : p \in Place}
    <2>1. site' \in [Place -> F]
      BY <1>1
    <2>2. QED
      BY <2>1
  <1>5. QED
    BY <1>3, <1>4 DEF IInv

(* Placing or breaking the block forgets the data. *)
LEMMA BlockIInv ==
    ASSUME IInv, NEW p \in Place, OnPlace(p) \/ OnBroken(p)
    PROVE  IInv'
  <1>1. PICK block \in {"air", "furnace"} :
          /\ site' = [site EXCEPT ![p] = [Forgotten(@) EXCEPT !.block = block]]
          /\ eclipsed' = eclipsed \ {p}
    BY DEF OnPlace, OnBroken
  <1> DEFINE f == [Forgotten(site[p]) EXCEPT !.block = block]
  <1>2. site' = [site EXCEPT ![p] = f]
    BY <1>1
  <1>3. Good(f, FALSE)
    <2>1. Good(site[p], p \in eclipsed)
      BY DEF IInv
    <2>2. QED
      BY <2>1, ForgottenGood
  <1> HIDE DEF f
  <1>4. (p \in eclipsed') = FALSE
    BY <1>1
  <1>5. Good(f, p \in eclipsed')
    BY <1>3, <1>4
  <1>6. \A q \in Place \ {p} : q \in eclipsed' <=> q \in eclipsed
    BY <1>1
  <1>7. QED
    BY <1>2, <1>5, <1>6, OneSite

(* A click at a slot ends with handleActivity, unless it is the output. *)
LEMMA ClickFurnaceIInv ==
    ASSUME IInv, NEW u \in User, open[u] \in Place, NEW s \in Slot, NEW button,
           ClickFurnace(u, s, button)
    PROVE  IInv'
  <1> DEFINE p == open[u]
             d == IF site[p].data = None THEN NewData ELSE site[p].data
             slot == d.items[s]
             shift == Shifted(pack[u], Pack, slot, hand[u], button)
             item == IF shift THEN Empty ELSE Moved(slot, hand[u], button).slot
             g == [site[p] EXCEPT !.data = [d EXCEPT !.items[s] = item]]
             f == IF s = "output" THEN g ELSE HandleActivity(g)
             new == p \in eclipsed \/ (site[p].data = None /\ site[p].active = "orphan")
  <1>1. /\ site' = [site EXCEPT ![p] = f]
        /\ eclipsed' = IF site[p].data = None /\ site[p].active = "orphan"
                       THEN eclipsed \cup {p} ELSE eclipsed
    BY DEF ClickFurnace
  <1>2. Good(f, new)
    <2>1. Good(site[p], p \in eclipsed) /\ (p \in eclipsed) \in BOOLEAN
      BY DEF IInv
    <2> HIDE DEF item, p
    <2>2. QED
      BY <2>1, ClickedGood
  <1> HIDE DEF f
  <1>3. /\ p \in eclipsed' <=> new
        /\ \A q \in Place \ {p} : q \in eclipsed' <=> q \in eclipsed
    BY <1>1
  <1>4. Good(f, p \in eclipsed')
    <2>1. (p \in eclipsed') = new
      BY <1>3
    <2> HIDE DEF new
    <2>2. QED
      BY <1>2, <2>1
  <1> HIDE DEF p, new
  <1>5. p \in Place
    BY DEF p
  <1>6. QED
    BY <1>1, <1>3, <1>4, <1>5, OneSite

\* A window shows a furnace.
OpenType == open \in [User -> Place \cup {None}]

(* The windows lead to places; clicks do not change which are open. *)
LEMMA NextOpen == ASSUME OpenType, [Next]_vars PROVE OpenType'
  <1>1. CASE UNCHANGED open
    BY <1>1 DEF OpenType
  <1>2. ASSUME NEW u \in User, WindowClose(u) \/ \E p \in Place : OnWindowOpen(u, p)
        PROVE  OpenType'
    BY <1>2 DEF OpenType, WindowClose, OnWindowOpen
  <1>3. CASE Update
    BY <1>1, <1>3 DEF Update
  <1>4. ASSUME NEW p \in Place, OnPlace(p) \/ OnBroken(p) PROVE OpenType'
    BY <1>1, <1>4 DEF OnPlace, OnBroken
  <1>5. ASSUME NEW u \in User, OnWindowClick(u) PROVE OpenType'
    <2>1. PICK button \in Button : \/ \E s \in Pack : ClickPack(u, s, button)
                                   \/ \E s \in Slot : ClickFurnace(u, s, button)
      BY <1>5 DEF OnWindowClick
    <2>2. CASE \E s \in Pack : ClickPack(u, s, button)
      BY <1>1, <2>2 DEF ClickPack
    <2>3. CASE \E s \in Slot : ClickFurnace(u, s, button)
      BY <1>1, <2>3 DEF ClickFurnace
    <2>4. QED
      BY <2>1, <2>2, <2>3
  <1>6. CASE UNCHANGED vars
    BY <1>1, <1>6 DEF vars
  <1>7. QED
    BY <1>2, <1>3, <1>4, <1>5, <1>6 DEF Next

(* The cases together. *)
LEMMA NextIInv == ASSUME IInv, OpenType, [Next]_vars PROVE IInv'
  <1>1. CASE UNCHANGED <<site, eclipsed>>
    BY <1>1 DEF IInv
  <1>2. CASE Update
    BY <1>2, UpdateIInv
  <1>3. ASSUME NEW p \in Place, OnPlace(p) \/ OnBroken(p) PROVE IInv'
    BY <1>3, BlockIInv
  <1>4. ASSUME NEW u \in User, OnWindowClick(u) PROVE IInv'
    <2>1. open[u] \in Place
      BY <1>4 DEF OpenType, OnWindowClick
    <2>2. PICK button \in Button : \/ \E s \in Pack : ClickPack(u, s, button)
                                   \/ \E s \in Slot : ClickFurnace(u, s, button)
      BY <1>4 DEF OnWindowClick
    <2>3. CASE \E s \in Pack : ClickPack(u, s, button)
      BY <1>1, <2>3 DEF ClickPack
    <2>4. CASE \E s \in Slot : ClickFurnace(u, s, button)
      BY <2>1, <2>4, ClickFurnaceIInv
    <2>5. QED
      BY <2>2, <2>3, <2>4
  <1>5. ASSUME NEW u \in User, WindowClose(u) \/ \E p \in Place : OnWindowOpen(u, p)
        PROVE  IInv'
    BY <1>1, <1>5 DEF WindowClose, OnWindowOpen
  <1>6. UNCHANGED vars => IInv'
    BY <1>1 DEF vars
  <1>7. QED
    BY <1>2, <1>3, <1>4, <1>5, <1>6 DEF Next

(* The inductive invariant holds throughout. *)
THEOREM FurnaceInvariance == Spec => [](IInv /\ OpenType)
  <1>1. Init => IInv /\ OpenType
    BY InitIInv DEF Init, OpenType
  <1>2. IInv /\ OpenType /\ [Next]_vars => IInv' /\ OpenType'
    BY NextIInv, NextOpen
  <1>3. QED
    BY <1>1, <1>2, PTL DEF Spec

(* A furnace that has something to smelt and fire or fuel for it is served
   every second, for any number of players, furnaces and slots and whatever
   is in them; or its data was made while the Furnace of a broken one was
   still at work in its place (handleActivity, update, onBroken).            *)
THEOREM CookableIsServed == Spec => []CookableIsActive
  <1>1. IInv => CookableIsActive
    <2> SUFFICES ASSUME IInv, NEW p \in Place \ eclipsed,
                        site[p].data # None /\ CanCook(site[p].data)
                 PROVE  site[p].active = "chunk"
      BY DEF CookableIsActive
    <2>1. Good(site[p], p \in eclipsed)
      BY DEF IInv
    <2>2. ~(p \in eclipsed)
      OBVIOUS
    <2>3. QED
      BY <2>1, <2>2 DEF Good, Served
  <1>2. QED
    BY FurnaceInvariance, <1>1, PTL

-----------------------------------------------------------------------------
(* Items, and what they are worth *)

\* Weights that let neither smelting nor burning add anything: a result of
\* either type is worth the same, all the results of an ingredient are worth no
\* more than it, nor all the fire of a piece of fuel.
Fair(w) ==
    /\ w \in [Thing -> Nat]
    /\ w["odd"] = w["cooked"]
    /\ Yield * w["cooked"] <= w["raw"] /\ w["cooked"] <= w["raw"]
    /\ FuelTime * w["flame"] <= w["coal"]

(* Results and seconds of fire are such weights. *)
LEMMA FairWeights == Fair(Results) /\ Fair(Seconds)
  <1>1. Results \in [Thing -> Nat] /\ Seconds \in [Thing -> Nat]
    BY FurnaceAssumption DEF Results, Seconds
  <1>2. {"raw", "cooked", "odd", "coal", "flame"} \subseteq Thing
    BY DEF Thing, Kind
  <1>3. /\ Results["raw"] = Yield /\ Results["cooked"] = 1 /\ Results["odd"] = 1
        /\ Results["coal"] = 0 /\ Results["flame"] = 0
    BY <1>2 DEF Results
  <1>4. /\ Seconds["raw"] = 0 /\ Seconds["cooked"] = 0 /\ Seconds["odd"] = 0
        /\ Seconds["coal"] = FuelTime /\ Seconds["flame"] = 1
    BY <1>2 DEF Seconds
  <1>5. Yield \in Nat /\ Yield >= 1 /\ FuelTime \in Nat
    BY FurnaceAssumption
  <1>6. QED
    BY <1>1, <1>3, <1>4, <1>5 DEF Fair

(* Nothing has no number; what is something has a kind and a number. *)
LEMMA ItemFacts ==
    /\ Empty \in Item /\ Empty.n = 0 /\ Empty.kind = "none"
    /\ \A i \in Item : /\ i.n \in 0 .. Byte - 1 /\ i.kind \in Kind \cup {"none"}
                       /\ i # Empty => i.kind \in Kind /\ i.n >= 1
                       /\ i.kind = "none" => i = Empty
  <1>1. Empty = [kind |-> "none", n |-> 0] /\ Byte \in Nat /\ Byte > 0
    BY FurnaceAssumption DEF Empty
  <1>2. Empty \in Item /\ Empty.n = 0 /\ Empty.kind = "none"
    BY <1>1 DEF Item
  <1>3. ASSUME NEW i \in Item
        PROVE  /\ i.n \in 0 .. Byte - 1 /\ i.kind \in Kind \cup {"none"}
               /\ i # Empty => i.kind \in Kind /\ i.n >= 1
               /\ i.kind = "none" => i = Empty
    <2>1. i = Empty \/ (i.kind \in Kind /\ i.n \in 1 .. Byte - 1)
      BY <1>1 DEF Item
    <2>2. QED
      BY <1>1, <2>1 DEF Kind
  <1>4. QED
    BY <1>2, <1>3

(* What an item is worth is a number. *)
LEMMA ItemNumbers ==
    ASSUME NEW w, Fair(w)
    PROVE  /\ \A k \in Thing : w[k] \in Nat
           /\ Kind \cup {"none", "flame"} = Thing
           /\ InItem(w, Empty) = 0
           /\ \A i \in Item : InItem(w, i) \in Nat
  <1>1. \A k \in Thing : w[k] \in Nat
    BY DEF Fair
  <1>2. Kind \cup {"none", "flame"} = Thing
    BY DEF Thing
  <1>3. \A a, b \in Nat : a * b \in Nat /\ 0 * b = 0
    OBVIOUS
  <1>4. ASSUME NEW i \in Item PROVE InItem(w, i) \in Nat
    <2>1. i.n \in 0 .. Byte - 1 /\ i.kind \in Kind \cup {"none"} /\ Byte \in Nat
      BY ItemFacts, FurnaceAssumption
    <2>2. i.n \in Nat /\ w[i.kind] \in Nat
      BY <1>1, <1>2, <2>1
    <2>3. QED
      BY <1>3, <2>2 DEF InItem
  <1>5. InItem(w, Empty) = 0
    <2>1. w["none"] \in Nat
      BY <1>1, <1>2
    <2>2. QED
      BY <1>3, <2>1, ItemFacts DEF InItem
  <1>6. QED
    BY <1>1, <1>2, <1>4, <1>5

(* A count below 1 is nothing, another is a stack. *)
LEMMA OfItem ==
    ASSUME NEW w, Fair(w), NEW k \in Kind \cup {"none"}, NEW n \in Int,
           n < Byte, k = "none" => n < 1
    PROVE  /\ Of(k, n) \in Item
           /\ n >= 0 => InItem(w, Of(k, n)) = n * w[k]
           /\ n < 0 => InItem(w, Of(k, n)) = 0
  <1>1. CASE n < 1
    <2>1. Of(k, n) = Empty
      BY <1>1 DEF Of
    <2>2. w[k] \in Nat
      BY ItemNumbers
    <2>3. n >= 0 => n * w[k] = 0
      <3>1. n >= 0 => n = 0
        BY <1>1
      <3>2. QED
        BY <2>2, <3>1
    <2>4. QED
      BY <2>1, <2>3, ItemFacts, ItemNumbers
  <1>2. CASE ~ n < 1
    <2>1. Of(k, n) = [kind |-> k, n |-> n] /\ k \in Kind
      BY <1>2 DEF Of
    <2>2. QED
      BY <1>2, <2>1, FurnaceAssumption DEF Item, InItem
  <1>3. QED
    BY <1>1, <1>2

(* One less of a stack is worth one less. *)
LEMMA LessItem ==
    ASSUME NEW w, Fair(w), NEW i \in Item, i # Empty
    PROVE  Less(i) \in Item /\ InItem(w, Less(i)) = InItem(w, i) - w[i.kind]
  <1>1. i.n \in 1 .. Byte - 1 /\ i.kind \in Kind /\ Byte \in Nat /\ w[i.kind] \in Nat
    BY ItemFacts, ItemNumbers, FurnaceAssumption
  <1>2. /\ Of(i.kind, i.n - 1) \in Item
        /\ InItem(w, Of(i.kind, i.n - 1)) = (i.n - 1) * w[i.kind]
    <2>1. i.n - 1 \in Int /\ i.n - 1 < Byte /\ i.n - 1 >= 0 /\ i.kind # "none"
      BY <1>1 DEF Kind
    <2>2. QED
      BY <1>1, <2>1, OfItem
  <1>3. \A a, b \in Int : (a - 1) * b = a * b - b
    OBVIOUS
  <1>4. (i.n - 1) * w[i.kind] = InItem(w, i) - w[i.kind]
    BY <1>1, <1>3 DEF InItem
  <1>5. QED
    BY <1>2, <1>4 DEF Less

(* A click moves items between the slot and the hand: what both are worth
   does not change. *)
LEMMA MovedItems ==
    ASSUME NEW w, Fair(w), NEW slot \in Item, NEW held \in Item, NEW button
    PROVE  LET m == Moved(slot, held, button)
           IN  /\ m.slot \in Item /\ m.hand \in Item
               /\ InItem(w, m.slot) + InItem(w, m.hand)
                     = InItem(w, slot) + InItem(w, held)
  <1> DEFINE m == Moved(slot, held, button)
  <1>0. /\ slot.n \in Nat /\ held.n \in Nat /\ Stack \in Nat \ {0} /\ Byte \in Nat
        /\ slot.n < Byte /\ held.n < Byte /\ Stack < Byte
        /\ w[slot.kind] \in Nat /\ w[held.kind] \in Nat
        /\ InItem(w, slot) = slot.n * w[slot.kind]
        /\ InItem(w, held) = held.n * w[held.kind]
        /\ slot.kind \in Kind \cup {"none"} /\ held.kind \in Kind \cup {"none"}
        /\ Empty.n = 0 /\ InItem(w, Empty) = 0
    <2>1. Stack \in Nat \ {0} /\ Byte \in Nat /\ Stack < Byte
      BY FurnaceAssumption
    <2>2. /\ slot.n \in 0 .. Byte - 1 /\ held.n \in 0 .. Byte - 1
          /\ slot.kind \in Kind \cup {"none"} /\ held.kind \in Kind \cup {"none"}
          /\ Empty.n = 0
      BY ItemFacts
    <2>3. /\ w[slot.kind] \in Nat /\ w[held.kind] \in Nat /\ InItem(w, Empty) = 0
      BY <2>2, ItemNumbers
    <2>4. /\ InItem(w, slot) = slot.n * w[slot.kind]
          /\ InItem(w, held) = held.n * w[held.kind]
      BY DEF InItem
    <2>5. QED
      BY <2>1, <2>2, <2>3, <2>4
  <1>d. \A a, b, c \in Int : (a + b) * c = a * c + b * c /\ (a - b) * c = a * c - b * c
    OBVIOUS
  <1>1. CASE Merges(slot, held)
    <2> DEFINE n == Added(slot, held, button)
    <2>1. held # Empty /\ held.kind \in Kind /\ held.n >= 1
          /\ (slot = Empty \/ (slot.kind = held.kind /\ slot.n < Stack))
      BY <1>0, <1>1, ItemFacts DEF Merges
    <2>2. n \in Nat /\ n <= held.n /\ slot.n + n <= Stack
      BY <1>0, <2>1 DEF Added, Room
    <2>3. m = [slot |-> Of(held.kind, slot.n + n), hand |-> Of(held.kind, held.n - n)]
      BY <1>1 DEF Moved
    <2> HIDE DEF n
    <2>4. /\ m.slot \in Item /\ m.hand \in Item
          /\ InItem(w, m.slot) = (slot.n + n) * w[held.kind]
          /\ InItem(w, m.hand) = (held.n - n) * w[held.kind]
      <3>1. /\ slot.n + n \in Int /\ slot.n + n >= 0 /\ slot.n + n < Byte
            /\ held.n - n \in Int /\ held.n - n >= 0 /\ held.n - n < Byte
            /\ held.kind # "none"
        BY <1>0, <2>1, <2>2 DEF Kind
      <3>2. QED
        BY <2>1, <2>3, <3>1, OfItem
    <2>5. InItem(w, slot) = slot.n * w[held.kind]
      BY <1>0, <2>1
    <2>6. (slot.n + n) * w[held.kind] + (held.n - n) * w[held.kind]
             = slot.n * w[held.kind] + held.n * w[held.kind]
      <3>1. \A a, b, c, v \in Int : (a + b) * v + (c - b) * v = a * v + c * v
        BY <1>d
      <3>2. QED
        BY <1>0, <2>2, <3>1
    <2> HIDE DEF m
    <2>7. QED
      BY <1>0, <2>4, <2>5, <2>6 DEF m
  <1>2. CASE ~Merges(slot, held) /\ held = Empty
    <2> DEFINE n == Taken(slot, button)
    <2>1. n \in Nat /\ n <= slot.n
      BY <1>0 DEF Taken
    <2>2. m = [slot |-> Of(slot.kind, slot.n - n), hand |-> Of(slot.kind, n)]
      BY <1>0, <1>2 DEF Moved
    <2> HIDE DEF n
    <2>3. /\ m.slot \in Item /\ m.hand \in Item
          /\ InItem(w, m.slot) = (slot.n - n) * w[slot.kind]
          /\ InItem(w, m.hand) = n * w[slot.kind]
      <3>1. slot.kind = "none" => slot.n = 0
        BY <1>0, ItemFacts
      <3>2. slot.n - n \in Int /\ slot.n - n >= 0 /\ n \in Int /\ n >= 0
            /\ slot.n - n < Byte /\ n < Byte
            /\ (slot.kind = "none" => slot.n - n < 1 /\ n < 1)
        BY <1>0, <2>1, <3>1
      <3>3. /\ Of(slot.kind, slot.n - n) \in Item
            /\ InItem(w, Of(slot.kind, slot.n - n)) = (slot.n - n) * w[slot.kind]
        BY <1>0, <3>2, OfItem
      <3>4. /\ Of(slot.kind, n) \in Item
            /\ InItem(w, Of(slot.kind, n)) = n * w[slot.kind]
        BY <1>0, <3>2, OfItem
      <3>5. m.slot = Of(slot.kind, slot.n - n) /\ m.hand = Of(slot.kind, n)
        BY <2>2
      <3> HIDE DEF m
      <3>6. QED
        BY <3>3, <3>4, <3>5
    <2>4. (slot.n - n) * w[slot.kind] + n * w[slot.kind] = slot.n * w[slot.kind]
      <3>1. \A a, b, v \in Int : (a - b) * v + b * v = a * v
        BY <1>d
      <3>2. QED
        BY <1>0, <2>1, <3>1
    <2> HIDE DEF m
    <2>5. QED
      BY <1>0, <1>2, <2>3, <2>4 DEF m
  <1>3. CASE ~Merges(slot, held) /\ held # Empty
    <2>1. m.slot = held /\ m.hand = slot
      BY <1>0, <1>3 DEF Moved
    <2>2. QED
      BY <1>0, <2>1
  <1>4. QED
    BY <1>1, <1>2, <1>3

-----------------------------------------------------------------------------
(* The data of a furnace *)

\* Data with other items or another fire.
DataIs(d, in, fuel, out, burn) ==
    /\ d.items["input"] = in /\ d.items["fuel"] = fuel /\ d.items["output"] = out
    /\ d.burn = burn

Content(w, in, fuel, out, burn) ==
    InItem(w, in) + InItem(w, fuel) + InItem(w, out) + burn * w["flame"]

(* What data is worth. *)
LEMMA DataFacts ==
    ASSUME NEW w, Fair(w), NEW d \in Data
    PROVE  /\ d # None
           /\ \A s \in Slot : d.items[s] \in Item
           /\ d.items["input"] \in Item /\ d.items["fuel"] \in Item
           /\ d.items["output"] \in Item
           /\ d.burn \in 0 .. FuelTime /\ d.cook \in 0 .. CookTime
           /\ InData(w, d) \in Nat
           /\ \A in, fuel, out, burn :
                 DataIs(d, in, fuel, out, burn)
                    => InData(w, d) = Content(w, in, fuel, out, burn)
           /\ InData(w, None) = 0
  <1>1. /\ \A s \in Slot : d.items[s] \in Item
        /\ d.items["input"] \in Item /\ d.items["fuel"] \in Item
        /\ d.items["output"] \in Item
        /\ d.burn \in 0 .. FuelTime /\ d.cook \in 0 .. CookTime
    BY DEF Data, Slot
  <1>2. d # None
    BY NoneAssumption
  <1>3. InData(w, d) = InItem(w, d.items["input"]) + InItem(w, d.items["fuel"])
                       + InItem(w, d.items["output"]) + d.burn * w["flame"]
    BY <1>2 DEF InData
  <1>4. InData(w, d) \in Nat
    <2>1. /\ InItem(w, d.items["input"]) \in Nat /\ InItem(w, d.items["fuel"]) \in Nat
          /\ InItem(w, d.items["output"]) \in Nat
      BY <1>1, ItemNumbers
    <2>2. d.burn \in Nat /\ w["flame"] \in Nat
      BY <1>1, ItemNumbers, FurnaceAssumption
    <2>3. \A a, b \in Nat : a * b \in Nat
      OBVIOUS
    <2>4. d.burn * w["flame"] \in Nat
      BY <2>2, <2>3
    <2>5. QED
      BY <1>3, <2>1, <2>4
  <1>5. \A in, fuel, out, burn :
           DataIs(d, in, fuel, out, burn) => InData(w, d) = Content(w, in, fuel, out, burn)
    BY <1>3 DEF DataIs, Content
  <1>6. InData(w, None) = 0
    BY DEF InData
  <1>7. QED
    BY <1>1, <1>2, <1>4, <1>5, <1>6

(* Data that was just made holds nothing. *)
LEMMA NewDataHolds ==
    ASSUME NEW w, Fair(w)
    PROVE  NewData \in Data /\ InData(w, NewData) = 0
  <1>1. NewData \in Data
    BY ItemFacts, FurnaceAssumption DEF NewData, Data
  <1>2. DataIs(NewData, Empty, Empty, Empty, 0)
    BY DEF DataIs, NewData, Slot
  <1>3. InData(w, NewData) = Content(w, Empty, Empty, Empty, 0)
    BY <1>1, <1>2, DataFacts
  <1>4. w["flame"] \in Nat /\ InItem(w, Empty) = 0
    BY ItemNumbers
  <1>5. QED
    BY <1>1, <1>3, <1>4 DEF Content

(* Another item in one slot. *)
LEMMA SlotHolds ==
    ASSUME NEW w, Fair(w), NEW d \in Data, NEW s \in Slot, NEW item \in Item
    PROVE  LET e == [d EXCEPT !.items[s] = item]
           IN  /\ e \in Data
               /\ InData(w, e) = InData(w, d) - InItem(w, d.items[s]) + InItem(w, item)
               /\ e.burn = d.burn /\ e.cook = d.cook
               /\ e.items[s] = item /\ \A r \in Slot \ {s} : e.items[r] = d.items[r]
  <1> DEFINE i == [d.items EXCEPT ![s] = item]
             e == [d EXCEPT !.items[s] = item]
  <1>1. i \in [Slot -> Item] /\ i[s] = item /\ \A r \in Slot \ {s} : i[r] = d.items[r]
    BY DEF Data
  <1>2. e = [d EXCEPT !.items = i]
    BY DEF Data
  <1> HIDE DEF i, e
  <1>3. e \in Data /\ e.items = i /\ e.burn = d.burn /\ e.cook = d.cook
    BY <1>1, <1>2 DEF Data
  <1>4. /\ InData(w, e) = Content(w, i["input"], i["fuel"], i["output"], d.burn)
        /\ InData(w, d) = Content(w, d.items["input"], d.items["fuel"], d.items["output"], d.burn)
    <2>1. DataIs(e, i["input"], i["fuel"], i["output"], d.burn)
      BY <1>3 DEF DataIs
    <2>2. DataIs(d, d.items["input"], d.items["fuel"], d.items["output"], d.burn)
      BY DEF DataIs
    <2>3. QED
      BY <1>3, <2>1, <2>2, DataFacts
  <1>5. /\ InItem(w, d.items["input"]) \in Nat /\ InItem(w, d.items["fuel"]) \in Nat
        /\ InItem(w, d.items["output"]) \in Nat /\ InItem(w, item) \in Nat
        /\ d.burn * w["flame"] \in Int
    <2>1. /\ d.items["input"] \in Item /\ d.items["fuel"] \in Item
          /\ d.items["output"] \in Item /\ d.burn \in Int /\ w["flame"] \in Int
      BY DataFacts, ItemNumbers, FurnaceAssumption
    <2>2. \A a, b \in Int : a * b \in Int
      OBVIOUS
    <2>3. QED
      BY <2>1, <2>2, ItemNumbers
  <1>6. s \in {"input", "fuel", "output"} /\ Slot = {"input", "fuel", "output"}
    BY DEF Slot
  <1>7. InData(w, e) = InData(w, d) - InItem(w, d.items[s]) + InItem(w, item)
    <2>1. CASE s = "input"
      BY <1>1, <1>4, <1>5, <1>6, <2>1 DEF Content
    <2>2. CASE s = "fuel"
      BY <1>1, <1>4, <1>5, <1>6, <2>2 DEF Content
    <2>3. CASE s = "output"
      BY <1>1, <1>4, <1>5, <1>6, <2>3 DEF Content
    <2>4. QED
      BY <1>6, <2>1, <2>2, <2>3
  <1>8. QED
    BY <1>1, <1>3, <1>7 DEF e

\* Data with another fire, and cooked for another time.
Timed(d, b, c) == [d EXCEPT !.burn = b, !.cook = c]

(* Another fire, or another time. *)
LEMMA TimesHold ==
    ASSUME NEW w, Fair(w), NEW d \in Data, NEW b \in 0 .. FuelTime, NEW c \in 0 .. CookTime
    PROVE  /\ Timed(d, b, c) \in Data /\ Timed(d, b, c).items = d.items
           /\ Timed(d, b, c).burn = b /\ Timed(d, b, c).cook = c
           /\ InData(w, Timed(d, b, c)) = InData(w, d) + (b - d.burn) * w["flame"]
  <1> DEFINE e == Timed(d, b, c)
  <1>1. e \in Data /\ e.items = d.items /\ e.burn = b /\ e.cook = c
    BY DEF Data, Timed
  <1> HIDE DEF e
  <1>2. /\ InData(w, e) = Content(w, d.items["input"], d.items["fuel"], d.items["output"], b)
        /\ InData(w, d) = Content(w, d.items["input"], d.items["fuel"], d.items["output"], d.burn)
    <2>1. DataIs(e, d.items["input"], d.items["fuel"], d.items["output"], b)
      BY <1>1 DEF DataIs
    <2>2. DataIs(d, d.items["input"], d.items["fuel"], d.items["output"], d.burn)
      BY DEF DataIs
    <2>3. QED
      BY <1>1, <2>1, <2>2, DataFacts
  <1>3. /\ d.items["input"] \in Item /\ d.items["fuel"] \in Item
        /\ d.items["output"] \in Item /\ d.burn \in Int /\ w["flame"] \in Int /\ b \in Int
    BY DataFacts, ItemNumbers, FurnaceAssumption
  <1>4. /\ InItem(w, d.items["input"]) \in Nat /\ InItem(w, d.items["fuel"]) \in Nat
        /\ InItem(w, d.items["output"]) \in Nat
    BY <1>3, ItemNumbers
  <1>5. \A x, y, z \in Int : x * z \in Int /\ y * z \in Int /\ (x - y) * z = x * z - y * z
    OBVIOUS
  <1>6. /\ b * w["flame"] \in Int /\ d.burn * w["flame"] \in Int
        /\ (b - d.burn) * w["flame"] = b * w["flame"] - d.burn * w["flame"]
    BY <1>3, <1>5
  <1>7. InData(w, e) = InData(w, d) + (b - d.burn) * w["flame"]
    BY <1>2, <1>4, <1>6 DEF Content
  <1>8. QED
    BY <1>1, <1>7 DEF e

(* A second burns a second. *)
LEMMA BurntHolds ==
    ASSUME NEW w, Fair(w), NEW d \in Data
    PROVE  Burnt(d) \in Data /\ InData(w, Burnt(d)) <= InData(w, d)
  <1> DEFINE b == IF d.burn > 0 THEN d.burn - 1 ELSE d.burn
  <1>1. d.burn \in 0 .. FuelTime /\ d.cook \in 0 .. CookTime /\ InData(w, d) \in Nat
    BY DataFacts
  <1>2. b \in 0 .. FuelTime /\ b \in Int /\ b - d.burn \in {0, 0 - 1}
    BY <1>1, FurnaceAssumption
  <1>3. Burnt(d) = Timed(d, b, d.cook)
    BY DEF Burnt, Data, Timed
  <1> HIDE DEF b
  <1>4. /\ Burnt(d) \in Data
        /\ InData(w, Burnt(d)) = InData(w, d) + (b - d.burn) * w["flame"]
    BY <1>1, <1>2, <1>3, TimesHold
  <1>5. w["flame"] \in Nat
    BY ItemNumbers
  <1>6. \A v \in Nat : \A x \in {0, 0 - 1} : x * v <= 0 /\ x * v \in Int
    OBVIOUS
  <1>7. QED
    BY <1>1, <1>2, <1>4, <1>5, <1>6

(* A piece of fuel becomes the fire it is good for. *)
LEMMA RefuelledHolds ==
    ASSUME NEW w, Fair(w), NEW d \in Data
    PROVE  Refuelled(d) \in Data /\ InData(w, Refuelled(d)) <= InData(w, d)
  <1> DEFINE fuel == d.items["fuel"]
  <1>0. /\ d.burn \in 0 .. FuelTime /\ d.cook \in 0 .. CookTime /\ InData(w, d) \in Nat
        /\ fuel \in Item /\ FuelTime \in Nat
    BY DataFacts, FurnaceAssumption
  <1>1. CASE ~IsBurningFuel(d) /\ HasValidIngredient(d) /\ fuel.kind = "coal"
    <2>1. d.burn = 0
      BY <1>0, <1>1 DEF IsBurningFuel
    <2> DEFINE e == [d EXCEPT !.items["fuel"] = Less(fuel)]
               r == Timed(e, FuelTime, e.cook)
    <2>2. fuel # Empty
      BY <1>1, ItemFacts
    <2>3. Less(fuel) \in Item /\ InItem(w, Less(fuel)) = InItem(w, fuel) - w["coal"]
      BY <1>0, <1>1, <2>2, LessItem
    <2>4. e \in Data /\ e.burn = d.burn
          /\ InData(w, e) = InData(w, d) - InItem(w, fuel) + InItem(w, Less(fuel))
      BY <2>3, SlotHolds DEF Slot
    <2>5. Refuelled(d) = r
      <3>1. Refuelled(d) = [d EXCEPT !.burn = d.burn + FuelTime, !.items["fuel"] = Less(fuel)]
        BY <1>1 DEF Refuelled, ConsumeFuel
      <3>2. d.burn + FuelTime = FuelTime
        BY <1>0, <2>1
      <3>3. QED
        BY <3>1, <3>2 DEF Data, Timed
    <2> HIDE DEF e
    <2>6. e.cook \in 0 .. CookTime /\ FuelTime \in 0 .. FuelTime
      BY <1>0, <2>4, DataFacts
    <2>7. /\ r \in Data
          /\ InData(w, r) = InData(w, e) + (FuelTime - e.burn) * w["flame"]
      BY <2>4, <2>6, TimesHold
    <2>8. FuelTime - e.burn = FuelTime
      BY <1>0, <2>1, <2>4
    <2>9. /\ FuelTime * w["flame"] <= w["coal"] /\ w["coal"] \in Nat /\ w["flame"] \in Nat
          /\ InItem(w, fuel) \in Nat /\ FuelTime * w["flame"] \in Int
      <3>1. w["coal"] \in Nat /\ w["flame"] \in Nat /\ InItem(w, fuel) \in Nat
        BY <1>0, ItemNumbers DEF Kind
      <3>2. \A a, b \in Int : a * b \in Int
        OBVIOUS
      <3>3. QED
        BY <1>0, <3>1, <3>2 DEF Fair
    <2> HIDE DEF fuel, r
    <2>10. InData(w, r) <= InData(w, d)
      BY <1>0, <2>3, <2>4, <2>7, <2>8, <2>9
    <2>11. QED
      BY <2>5, <2>7, <2>10
  <1>2. CASE ~(~IsBurningFuel(d) /\ HasValidIngredient(d) /\ fuel.kind = "coal")
    <2>1. Refuelled(d) = d
      BY <1>2 DEF Refuelled, ConsumeFuel
    <2>2. QED
      BY <1>0, <2>1
  <1>3. QED
    BY <1>1, <1>2

(* Data without a valid ingredient stops cooking. *)
LEMMA UpdateItemsHolds ==
    ASSUME NEW w, Fair(w), NEW d \in Data
    PROVE  UpdateItems(d) \in Data /\ InData(w, UpdateItems(d)) <= InData(w, d)
  <1>1. d.burn \in 0 .. FuelTime /\ 0 \in 0 .. CookTime /\ InData(w, d) \in Nat
    BY DataFacts, FurnaceAssumption
  <1>2. d.burn - d.burn = 0 /\ w["flame"] \in Nat
    BY <1>1, ItemNumbers, FurnaceAssumption
  <1>3. UpdateItems(d) = d \/ UpdateItems(d) = Timed(d, d.burn, 0)
    BY DEF UpdateItems, Data, Timed
  <1>4. Timed(d, d.burn, 0) \in Data
        /\ InData(w, Timed(d, d.burn, 0)) = InData(w, d) + (d.burn - d.burn) * w["flame"]
    BY <1>1, TimesHold
  <1>5. QED
    BY <1>1, <1>2, <1>3, <1>4

(* The byte of a count never shows more than the count. *)
LEMMA WrappedFacts ==
    ASSUME NEW n \in Nat, n < 2 * Byte
    PROVE  Wrapped(n) \in Int /\ Wrapped(n) < Byte /\ Wrapped(n) <= n
  <1>1. Byte \in Nat /\ Byte > 0
    BY FurnaceAssumption
  <1>2. \A b \in Nat \ {0} : \A x \in Nat : x < b => x % b = x
    OBVIOUS
  <1>3. \A b \in Nat \ {0} : \A x \in Nat : x >= b /\ x < b + b => x % b = x - b
    OBVIOUS
  <1>4. 2 * Byte \in Nat \ {0} /\ n + Byte \in Nat
    BY <1>1
  <1>5. CASE n + Byte < 2 * Byte
    <2>1. (n + Byte) % (2 * Byte) = n + Byte
      BY <1>2, <1>4, <1>5
    <2>2. QED
      BY <1>1, <1>5, <2>1 DEF Wrapped
  <1>6. CASE n + Byte >= 2 * Byte
    <2>1. (n + Byte) % (2 * Byte) = n + Byte - 2 * Byte
      BY <1>1, <1>3, <1>4, <1>6
    <2>2. QED
      BY <1>1, <1>6, <2>1 DEF Wrapped
  <1>7. QED
    BY <1>1, <1>5, <1>6

\* The two slots that smelting changes.
Smelted(d, in, out) ==
    [d EXCEPT !.items["output"] = out, !.items["input"] = in, !.cook = 0]

(* What smelting leaves is worth what both slots then hold. *)
LEMMA SmeltedHolds ==
    ASSUME NEW w, Fair(w), NEW d \in Data, NEW in \in Item, NEW out \in Item
    PROVE  /\ Smelted(d, in, out) \in Data
           /\ InData(w, Smelted(d, in, out))
                = InData(w, d) - InItem(w, d.items["input"]) - InItem(w, d.items["output"])
                  + InItem(w, in) + InItem(w, out)
  <1> DEFINE e == [d EXCEPT !.items["output"] = out]
             g == [e EXCEPT !.items["input"] = in]
             h == Timed(g, g.burn, 0)
  <1>1. /\ e \in Data /\ e.items["input"] = d.items["input"]
        /\ InData(w, e) = InData(w, d) - InItem(w, d.items["output"]) + InItem(w, out)
    BY SlotHolds DEF Slot
  <1>2. Smelted(d, in, out) = h
    BY DEF Smelted, Timed, Data
  <1> HIDE DEF e
  <1>3. /\ g \in Data
        /\ InData(w, g) = InData(w, e) - InItem(w, e.items["input"]) + InItem(w, in)
    BY <1>1, SlotHolds DEF Slot
  <1> HIDE DEF g
  <1>4. g.burn \in 0 .. FuelTime /\ 0 \in 0 .. CookTime
    BY <1>3, DataFacts, FurnaceAssumption
  <1>5. h \in Data /\ InData(w, h) = InData(w, g) + (g.burn - g.burn) * w["flame"]
    BY <1>3, <1>4, TimesHold
  <1> HIDE DEF h
  <1>6. g.burn - g.burn = 0 /\ w["flame"] \in Nat
    BY <1>4, ItemNumbers, FurnaceAssumption
  <1>7. /\ InData(w, d) \in Nat /\ InData(w, g) \in Nat
        /\ InItem(w, d.items["input"]) \in Nat /\ InItem(w, d.items["output"]) \in Nat
        /\ InItem(w, in) \in Nat /\ InItem(w, out) \in Nat
    BY <1>3, DataFacts, ItemNumbers
  <1>8. InData(w, h) = InData(w, g)
    BY <1>5, <1>6, <1>7
  <1>9. QED
    BY <1>1, <1>2, <1>3, <1>5, <1>7, <1>8

(* Smelting takes an ingredient that is worth as much as what it gives,
   whatever becomes of the count and the damage value of the result. *)
LEMMA SmeltHolds ==
    ASSUME NEW w, Fair(w), NEW d \in Data, HasValidIngredient(d),
           NEW garbage \in {"cooked", "odd"}
    PROVE  Smelt(d, garbage) \in Data /\ InData(w, Smelt(d, garbage)) <= InData(w, d)
  <1> DEFINE in == d.items["input"]
             out == d.items["output"]
             v == w["cooked"]
  <1>0. /\ in \in Item /\ out \in Item /\ in.kind = "raw" /\ in # Empty
        /\ InData(w, d) \in Nat /\ InItem(w, in) \in Nat /\ InItem(w, out) \in Nat
        /\ v \in Nat /\ w["raw"] \in Nat /\ v <= w["raw"] /\ w["odd"] = v
        /\ Yield * v <= w["raw"] /\ Yield \in Nat /\ Byte \in Nat /\ Yield < Byte
    <2>1. in \in Item /\ out \in Item /\ InData(w, d) \in Nat
      BY DataFacts
    <2>2. in.kind = "raw" /\ in # Empty
      BY ItemFacts DEF HasValidIngredient
    <2>3. v \in Nat /\ w["raw"] \in Nat
      BY ItemNumbers DEF Kind
    <2>4. InItem(w, in) \in Nat /\ InItem(w, out) \in Nat
      BY <2>1, ItemNumbers
    <2>5. QED
      BY <2>1, <2>2, <2>3, <2>4, FurnaceAssumption DEF Fair
  <1>1. Less(in) \in Item /\ InItem(w, Less(in)) = InItem(w, in) - w["raw"]
    BY <1>0, LessItem
  <1>2. ASSUME NEW new \in Item, InItem(w, new) <= InItem(w, out) + w["raw"]
        PROVE  Smelted(d, Less(in), new) \in Data
               /\ InData(w, Smelted(d, Less(in), new)) <= InData(w, d)
    <2>1. /\ Smelted(d, Less(in), new) \in Data
          /\ InData(w, Smelted(d, Less(in), new))
               = InData(w, d) - InItem(w, in) - InItem(w, out) + InItem(w, Less(in)) + InItem(w, new)
      BY <1>1, SmeltedHolds
    <2>2. InItem(w, new) \in Nat
      BY ItemNumbers
    <2> HIDE DEF in, out
    <2>3. QED
      BY <1>0, <1>1, <1>2, <2>1, <2>2
  <1>3. CASE out.n # Stack /\ out = Empty
    <2>1. Smelt(d, garbage) = Smelted(d, Less(in), Of("cooked", 1))
      BY <1>3 DEF Smelt, Smelted
    <2>2. Of("cooked", 1) \in Item /\ InItem(w, Of("cooked", 1)) = 1 * v
      <3>1. 1 < Byte
        BY <1>0, FurnaceAssumption
      <3>2. QED
        BY <3>1, OfItem DEF Kind
    <2>3. InItem(w, Of("cooked", 1)) <= InItem(w, out) + w["raw"]
      BY <1>0, <2>2
    <2> HIDE DEF in, out
    <2>4. QED
      BY <1>2, <2>1, <2>2, <2>3
  <1>4. CASE out.n # Stack /\ out # Empty /\ Alike(out.kind, "cooked")
    <2> DEFINE k == IF in.n = 1 THEN garbage ELSE "cooked"
               n == Wrapped(out.n + Yield)
    <2>1. Smelt(d, garbage) = Smelted(d, Less(in), Of(k, n))
      BY <1>4 DEF Smelt, Smelted
    <2>2. k \in {"cooked", "odd"} /\ w[k] = v
      BY <1>0
    <2>3. out.kind \in {"cooked", "odd"} /\ w[out.kind] = v
      BY <1>0, <1>4 DEF Alike
    <2>4. out.n \in Nat /\ out.n < Byte
      BY <1>0, ItemFacts
    <2>5. n \in Int /\ n < Byte /\ n <= out.n + Yield
      <3>1. out.n + Yield \in Nat /\ out.n + Yield < 2 * Byte
        BY <1>0, <2>4
      <3>2. QED
        BY <3>1, WrappedFacts
    <2> HIDE DEF k, n
    <2>6. /\ Of(k, n) \in Item
          /\ n >= 0 => InItem(w, Of(k, n)) = n * v
          /\ n < 0 => InItem(w, Of(k, n)) = 0
      BY <2>2, <2>5, OfItem DEF Kind
    <2>7. InItem(w, out) = out.n * v
      BY <2>3 DEF InItem
    <2>8. InItem(w, Of(k, n)) <= InItem(w, out) + w["raw"]
      <3>1. CASE n < 0
        BY <1>0, <2>6, <3>1
      <3>2. CASE n >= 0
        <4>1. \A a, b, c, x \in Nat : a <= b + c => a * x <= b * x + c * x
          <5>1. ASSUME NEW a \in Nat, NEW b \in Nat, NEW c \in Nat, NEW x \in Nat, a <= b + c
                PROVE  a * x <= b * x + c * x
            <6>1. b + c - a \in Nat
              BY <5>1
            <6>2. \A p, q \in Nat : p * q >= 0
              OBVIOUS
            <6>3. (b + c - a) * x >= 0
              BY <6>1, <6>2
            <6>4. (b + c - a) * x = b * x + c * x - a * x
              OBVIOUS
            <6>5. QED
              BY <6>3, <6>4
          <5>2. QED
            BY <5>1
        <4>2. n \in Nat
          BY <2>5, <3>2
        <4> HIDE DEF out, v
        <4>3. n * v <= out.n * v + Yield * v
          BY <1>0, <2>4, <2>5, <4>1, <4>2
        <4>4. n * v \in Int /\ out.n * v \in Int /\ Yield * v \in Int
          <5>1. \A p, q \in Nat : p * q \in Int
            OBVIOUS
          <5>2. QED
            BY <1>0, <2>4, <4>2, <5>1
        <4>5. QED
          BY <1>0, <2>6, <2>7, <3>2, <4>3, <4>4
      <3>3. QED
        BY <2>5, <3>1, <3>2
    <2> HIDE DEF in, out
    <2>9. QED
      BY <1>2, <2>1, <2>6, <2>8
  <1>5. CASE ~(out.n # Stack /\ out = Empty) /\ ~(out.n # Stack /\ out # Empty /\ Alike(out.kind, "cooked"))
    <2>1. Smelt(d, garbage) = d
      BY <1>5 DEF Smelt
    <2>2. QED
      BY <1>0, <2>1
  <1>6. QED
    BY <1>3, <1>4, <1>5

(* Cooking takes time, then smelts. *)
LEMMA CookedHolds ==
    ASSUME NEW w, Fair(w), NEW d \in Data, NEW garbage \in {"cooked", "odd"}
    PROVE  Cooked(d, garbage) \in Data /\ InData(w, Cooked(d, garbage)) <= InData(w, d)
  <1>0. /\ d.burn \in 0 .. FuelTime /\ d.cook \in 0 .. CookTime /\ InData(w, d) \in Nat
        /\ CookTime \in Nat /\ d.burn - d.burn = 0 /\ w["flame"] \in Nat
    BY DataFacts, ItemNumbers, FurnaceAssumption
  <1>1. ASSUME NEW c \in 0 .. CookTime
        PROVE  /\ Timed(d, d.burn, c) \in Data
               /\ InData(w, Timed(d, d.burn, c)) = InData(w, d)
               /\ Timed(d, d.burn, c).items = d.items
    <2>1. /\ Timed(d, d.burn, c) \in Data /\ Timed(d, d.burn, c).items = d.items
          /\ InData(w, Timed(d, d.burn, c)) = InData(w, d) + (d.burn - d.burn) * w["flame"]
      BY <1>0, TimesHold
    <2>2. QED
      BY <1>0, <2>1
  <1>2. CASE ~IsCooking(d)
    BY <1>0, <1>2 DEF Cooked
  <1>3. CASE IsCooking(d) /\ d.cook + 1 < CookTime
    <2>1. Cooked(d, garbage) = Timed(d, d.burn, d.cook + 1)
      BY <1>3 DEF Cooked, Timed, Data
    <2>2. d.cook + 1 \in 0 .. CookTime
      BY <1>0, <1>3
    <2>3. QED
      BY <1>0, <1>1, <2>1, <2>2
  <1>4. CASE IsCooking(d) /\ ~(d.cook + 1 < CookTime)
    <2> DEFINE e == Timed(d, d.burn, CookTime)
    <2>1. Cooked(d, garbage) = Smelt(e, garbage)
      BY <1>4 DEF Cooked, Timed, Data
    <2>2. CookTime \in 0 .. CookTime
      BY <1>0
    <2>3. e \in Data /\ InData(w, e) = InData(w, d) /\ e.items = d.items
      BY <1>1, <2>2
    <2> HIDE DEF e
    <2>4. HasValidIngredient(e)
      BY <1>4, <2>3 DEF IsCooking, HasValidIngredient
    <2>5. QED
      BY <2>1, <2>3, <2>4, SmeltHolds
  <1>5. QED
    BY <1>2, <1>3, <1>4

-----------------------------------------------------------------------------
(* The sites *)

\* A site whose Furnace, if it is in the list, works on data.
Working(f) ==
    /\ IsSite(f)
    /\ f.data \in Data \cup {None} /\ f.orphan \in Data \cup {None}
    /\ f.active = "chunk" => f.data # None
    /\ f.active = "orphan" => f.orphan # None

(* What a site is worth, and what its Furnace works on. *)
LEMMA SiteFacts ==
    ASSUME NEW w, Fair(w), NEW f, Working(f)
    PROVE  /\ InData(w, f.data) \in Nat /\ InData(w, f.orphan) \in Nat
           /\ InSite(w, f) = InData(w, f.data) + InData(w, f.orphan)
           /\ InSite(w, f) \in Nat
           /\ f.active \in {"no", "chunk", "orphan"}
           /\ f.active # "no" => Running(f) \in Data
  <1>1. f.active \in {"no", "chunk", "orphan"}
    BY DEF Working, IsSite, SiteOf
  <1>2. InData(w, None) = 0
    BY DEF InData
  <1>3. InData(w, f.data) \in Nat /\ InData(w, f.orphan) \in Nat
    BY <1>2, DataFacts DEF Working
  <1>4. f.active # "no" => Running(f) \in Data
    BY <1>1 DEF Working, Running
  <1>5. QED
    BY <1>1, <1>3, <1>4 DEF InSite

(* The Furnace changes what it works on, and nothing else. *)
LEMMA WithRunningHolds ==
    ASSUME NEW w, Fair(w), NEW f, Working(f), f.active # "no",
           NEW d \in Data, InData(w, d) <= InData(w, Running(f))
    PROVE  /\ Working(WithRunning(f, d)) /\ WithRunning(f, d).active = f.active
           /\ InSite(w, WithRunning(f, d)) <= InSite(w, f)
           /\ Running(WithRunning(f, d)) = d
  <1> DEFINE g == WithRunning(f, d)
  <1>1. /\ IsSite(g) /\ g.active = f.active
        /\ IF f.active = "orphan" THEN g.orphan = d /\ g.data = f.data
                                  ELSE g.data = d /\ g.orphan = f.orphan
    BY WithRunningSite DEF Working
  <1>2. d # None
    BY NoneAssumption
  <1>3. /\ InData(w, f.data) \in Nat /\ InData(w, f.orphan) \in Nat /\ InData(w, d) \in Nat
        /\ InSite(w, f) = InData(w, f.data) + InData(w, f.orphan)
    BY SiteFacts, DataFacts
  <1> HIDE DEF g
  <1>4. Working(g)
    BY <1>1, <1>2 DEF Working
  <1>5. Running(g) = d
    BY <1>1 DEF Running
  <1>6. InSite(w, g) <= InSite(w, f)
    <2>1. CASE f.active = "orphan"
      BY <1>1, <1>3, <2>1 DEF InSite, Running
    <2>2. CASE f.active # "orphan"
      BY <1>1, <1>3, <2>2 DEF InSite, Running
    <2>3. QED
      BY <2>1, <2>2
  <1>7. QED
    BY <1>1, <1>4, <1>5, <1>6 DEF g

(* updateBlock moves no items. *)
LEMMA UpdateBlockHolds ==
    ASSUME NEW w, NEW f, Working(f)
    PROVE  /\ Working(UpdateBlock(f)) /\ InSite(w, UpdateBlock(f)) = InSite(w, f)
           /\ UpdateBlock(f).active = f.active
  <1>1. /\ IsSite(UpdateBlock(f)) /\ UpdateBlock(f).active = f.active
        /\ UpdateBlock(f).data = f.data /\ UpdateBlock(f).orphan = f.orphan
    BY UpdateBlockSite DEF Working
  <1>2. QED
    BY <1>1 DEF Working, InSite

(* With a Furnace that leaves the list its own data goes. *)
LEMMA StoppedHolds ==
    ASSUME NEW w, Fair(w), NEW f, Working(f)
    PROVE  Working(Stopped(f)) /\ InSite(w, Stopped(f)) <= InSite(w, f)
  <1>1. /\ IsSite(Stopped(f)) /\ Stopped(f).active = "no"
        /\ Stopped(f).data = f.data /\ Stopped(f).orphan = None
    BY StoppedSite DEF Working
  <1>2. Working(Stopped(f))
    BY <1>1 DEF Working
  <1>3. InData(w, None) = 0
    BY DEF InData
  <1>4. InSite(w, Stopped(f)) <= InSite(w, f)
    BY <1>1, <1>3, SiteFacts DEF InSite
  <1>5. QED
    BY <1>2, <1>4

(* One round of update adds nothing. *)
LEMMA UpdatedHolds ==
    ASSUME NEW w, Fair(w), NEW f, Working(f), f.active # "no",
           NEW garbage \in {"cooked", "odd"}
    PROVE  Working(Updated(f, garbage)) /\ InSite(w, Updated(f, garbage)) <= InSite(w, f)
  <1> DEFINE r == Running(f)
             b == Burnt(r)
             l == Refuelled(b)
             d == Cooked(l, garbage)
             h == WithRunning(f, d)
             g == UpdateBlock(h)
  <1>1. Updated(f, garbage) = g \/ Updated(f, garbage) = Stopped(g)
    BY DEF Updated
  <1>2. r \in Data
    BY SiteFacts
  <1> HIDE DEF r
  <1>3. b \in Data /\ InData(w, b) <= InData(w, r)
    BY <1>2, BurntHolds
  <1> HIDE DEF b
  <1>4. l \in Data /\ InData(w, l) <= InData(w, b)
    BY <1>3, RefuelledHolds
  <1> HIDE DEF l
  <1>5. d \in Data /\ InData(w, d) <= InData(w, l)
    BY <1>4, CookedHolds
  <1>6. /\ InData(w, r) \in Nat /\ InData(w, b) \in Nat /\ InData(w, l) \in Nat
        /\ InData(w, d) \in Nat
    BY <1>2, <1>3, <1>4, <1>5, DataFacts
  <1> HIDE DEF d
  <1>7. InData(w, d) <= InData(w, Running(f))
    BY <1>3, <1>4, <1>5, <1>6 DEF r
  <1>8. Working(h) /\ InSite(w, h) <= InSite(w, f)
    BY <1>5, <1>7, WithRunningHolds
  <1> HIDE DEF h
  <1>9. Working(g) /\ InSite(w, g) = InSite(w, h)
    BY <1>8, UpdateBlockHolds
  <1> HIDE DEF g
  <1>10. Working(Stopped(g)) /\ InSite(w, Stopped(g)) <= InSite(w, g)
    BY <1>9, StoppedHolds
  <1>11. /\ InSite(w, f) \in Nat /\ InSite(w, g) \in Nat /\ InSite(w, h) \in Nat
         /\ InSite(w, Stopped(g)) \in Nat
    BY <1>8, <1>9, <1>10, SiteFacts
  <1>12. QED
    BY <1>1, <1>8, <1>9, <1>10, <1>11

(* The items of a block that is broken stay with its Furnace, if it has one,
   and are otherwise lost. *)
LEMMA ForgottenHolds ==
    ASSUME NEW w, Fair(w), NEW f, Working(f), NEW block \in {"air", "furnace"}
    PROVE  /\ Working([Forgotten(f) EXCEPT !.block = block])
           /\ InSite(w, [Forgotten(f) EXCEPT !.block = block]) <= InSite(w, f)
  <1> DEFINE n == [Forgotten(f) EXCEPT !.block = block]
             o == IF f.active = "chunk" THEN f.data ELSE f.orphan
             a == IF f.active = "chunk" THEN "orphan" ELSE f.active
  <1>1. PICK D : f \in SiteOf(D)
    BY DEF Working, IsSite
  <1>2. Forgotten(f) = [f EXCEPT !.data = None, !.orphan = o, !.active = a]
    BY <1>1 DEF Forgotten, SiteOf
  <1>3. /\ o \in D \cup {None} /\ a \in {"no", "orphan"}
        /\ o \in Data \cup {None} /\ (a = "orphan" => o # None)
    BY <1>1 DEF SiteOf, Working
  <1>4. InData(w, o) <= InData(w, f.data) + InData(w, f.orphan) /\ InData(w, o) \in Nat
    BY SiteFacts
  <1> HIDE DEF o, a
  <1>5. n = [f EXCEPT !.data = None, !.orphan = o, !.active = a, !.block = block]
    BY <1>2
  <1> HIDE DEF n
  <1>6. /\ n \in SiteOf(D \cup {None})
        /\ n.data = None /\ n.active = a /\ n.orphan = o
    BY <1>1, <1>3, <1>5 DEF SiteOf
  <1>7. Working(n)
    BY <1>3, <1>6 DEF Working, IsSite
  <1>8. InData(w, None) = 0
    BY DEF InData
  <1>9. InSite(w, n) <= InSite(w, f)
    BY <1>4, <1>6, <1>8, SiteFacts DEF InSite
  <1>10. QED
    BY <1>7, <1>9 DEF n

(* A click on a furnace starts or stops it, and that moves no items. *)
LEMMA HandleActivityHolds ==
    ASSUME NEW w, Fair(w), NEW f, Working(f), f.data # None
    PROVE  Working(HandleActivity(f)) /\ InSite(w, HandleActivity(f)) <= InSite(w, f)
  <1> DEFINE g == IF f.active = "no" THEN NewFurnace(f)
                  ELSE WithRunning(f, UpdateItems(Running(f)))
  <1>1. HandleActivity(f) = g \/ HandleActivity(f) = Stopped(g)
    BY DEF HandleActivity
  <1>2. Working(g) /\ InSite(w, g) <= InSite(w, f)
    <2>1. CASE f.active = "no"
      <3>1. g = NewFurnace(f)
        BY <2>1
      <3> HIDE DEF g
      <3>2. /\ IsSite(g) /\ g.active = "chunk" /\ g.data = f.data /\ g.orphan = f.orphan
        BY <3>1, NewFurnaceSite DEF Working
      <3>3. Working(g) /\ InSite(w, g) = InSite(w, f)
        BY <3>2 DEF Working, InSite
      <3>4. QED
        BY <3>3, SiteFacts
    <2>2. CASE f.active # "no"
      <3> DEFINE d == UpdateItems(Running(f))
      <3>1. g = WithRunning(f, d)
        BY <2>2
      <3>2. Running(f) \in Data
        BY <2>2, SiteFacts
      <3>3. d \in Data /\ InData(w, d) <= InData(w, Running(f))
        BY <3>2, UpdateItemsHolds
      <3> HIDE DEF g, d
      <3>4. QED
        BY <2>2, <3>1, <3>3, WithRunningHolds
    <2>3. QED
      BY <2>1, <2>2
  <1> HIDE DEF g
  <1>3. Working(Stopped(g)) /\ InSite(w, Stopped(g)) <= InSite(w, g)
    BY <1>2, StoppedHolds
  <1>4. InSite(w, f) \in Nat /\ InSite(w, g) \in Nat /\ InSite(w, Stopped(g)) \in Nat
    BY <1>2, <1>3, SiteFacts
  <1>5. QED
    BY <1>1, <1>2, <1>3, <1>4

\* The data a window shows, and the site when one slot of it has another item.
Shown(f) == IF f.data = None THEN NewData ELSE f.data
Filled(f, s, item) == [f EXCEPT !.data = [Shown(f) EXCEPT !.items[s] = item]]

(* A click changes the site by what it changes in the slot. *)
LEMMA FilledHolds ==
    ASSUME NEW w, Fair(w), NEW f, Working(f), NEW s \in Slot, NEW item \in Item
    PROVE  LET g == IF s = "output" THEN Filled(f, s, item)
                    ELSE HandleActivity(Filled(f, s, item))
           IN  /\ Working(g) /\ Shown(f).items[s] \in Item
               /\ InSite(w, g) <= InSite(w, f) - InItem(w, Shown(f).items[s]) + InItem(w, item)
  <1> DEFINE d == Shown(f)
             e == [d EXCEPT !.items[s] = item]
             g == Filled(f, s, item)
  <1>1. d \in Data /\ InData(w, d) = InData(w, f.data)
    <2>1. InData(w, None) = 0
      BY DEF InData
    <2>2. QED
      BY <2>1, NewDataHolds DEF Shown, Working
  <1> HIDE DEF d
  <1>2. /\ e \in Data
        /\ InData(w, e) = InData(w, d) - InItem(w, d.items[s]) + InItem(w, item)
    BY <1>1, SlotHolds
  <1>3. e # None /\ d.items[s] \in Item
    BY <1>1, <1>2, NoneAssumption, DataFacts
  <1>4. PICK D : f \in SiteOf(D)
    BY DEF Working, IsSite
  <1>5. g = [f EXCEPT !.data = e]
    BY DEF Filled, d
  <1> HIDE DEF e, g
  <1>6. /\ g \in SiteOf(D \cup {e}) /\ g.data = e
        /\ g.active = f.active /\ g.orphan = f.orphan
    BY <1>4, <1>5 DEF SiteOf
  <1>7. Working(g)
    BY <1>2, <1>3, <1>6 DEF Working, IsSite
  <1>8. /\ InData(w, f.data) \in Nat /\ InData(w, f.orphan) \in Nat
        /\ InSite(w, f) = InData(w, f.data) + InData(w, f.orphan)
        /\ InItem(w, item) \in Nat /\ InItem(w, d.items[s]) \in Nat
        /\ InSite(w, g) \in Nat
    BY <1>3, <1>7, SiteFacts, ItemNumbers
  <1>9. InSite(w, g) = InSite(w, f) - InItem(w, d.items[s]) + InItem(w, item)
    BY <1>1, <1>2, <1>6, <1>8 DEF InSite
  <1>10. /\ Working(HandleActivity(g)) /\ InSite(w, HandleActivity(g)) <= InSite(w, g)
         /\ InSite(w, HandleActivity(g)) \in Nat
    <2>1. Working(HandleActivity(g)) /\ InSite(w, HandleActivity(g)) <= InSite(w, g)
      BY <1>3, <1>6, <1>7, HandleActivityHolds
    <2>2. QED
      BY <2>1, SiteFacts
  <1>11. QED
    BY <1>3, <1>7, <1>8, <1>9, <1>10 DEF d, g

-----------------------------------------------------------------------------
(* All that there is *)

\* The slots hold items, the Furnaces in the list work on data, and a window
\* shows a furnace.
Sound ==
    /\ \E F : site \in [Place -> F]
    /\ \A p \in Place : Working(site[p])
    /\ hand \in [User -> Item]
    /\ pack \in [User -> [Pack -> Item]]
    /\ OpenType

(* What a player has is a number. *)
LEMMA UserNumbers ==
    ASSUME NEW w, Fair(w), NEW held \in Item, NEW inv \in [Pack -> Item]
    PROVE  /\ InUser(w, held, inv) \in Int
           /\ SumFunction([s \in Pack |-> InItem(w, inv[s])]) \in Int
           /\ \A s \in Pack : \A item \in Item :
                 InUser(w, held, [inv EXCEPT ![s] = item])
                    = InUser(w, held, inv) - InItem(w, inv[s]) + InItem(w, item)
           /\ \A h \in Item : InUser(w, h, inv)
                    = InUser(w, held, inv) - InItem(w, held) + InItem(w, h)
  <1> DEFINE v == [s \in Pack |-> InItem(w, inv[s])]
  <1>1. \A i \in Item : InItem(w, i) \in Int
    BY ItemNumbers
  <1>2. v \in [Pack -> Int] /\ IsFiniteSet(Pack)
    BY <1>1, FurnaceAssumption
  <1>3. SumFunction(v) \in Int
    <2> HIDE DEF v
    <2>1. QED
      BY <1>2, SumIsInt
  <1>4. \A h : InUser(w, h, inv) = InItem(w, h) + SumFunction(v)
    BY DEF InUser
  <1>5. ASSUME NEW s \in Pack, NEW item \in Item
        PROVE  InUser(w, held, [inv EXCEPT ![s] = item])
                  = InUser(w, held, inv) - InItem(w, inv[s]) + InItem(w, item)
    <2> DEFINE e == [v EXCEPT ![s] = InItem(w, item)]
               x == InItem(w, item)
    <2>1. [r \in Pack |-> InItem(w, [inv EXCEPT ![s] = item][r])] = e
      OBVIOUS
    <2>2. v[s] = InItem(w, inv[s]) /\ x \in Int /\ v[s] \in Int /\ InItem(w, held) \in Int
      BY <1>1
    <2>3. SumFunction(e) = SumFunction(v) - v[s] + x
      <3> HIDE DEF v, x
      <3>1. SumFunction([v EXCEPT ![s] = x]) = SumFunction(v) - v[s] + x
        BY <1>2, <2>2, SumChanges
      <3>2. QED
        BY <3>1 DEF x
    <2>4. InUser(w, held, [inv EXCEPT ![s] = item]) = InItem(w, held) + SumFunction(e)
      BY <2>1 DEF InUser
    <2> HIDE DEF v, e
    <2>5. QED
      BY <1>3, <1>4, <2>2, <2>3, <2>4 DEF x
  <1> HIDE DEF v
  <1>6. \A h \in Item : InUser(w, h, inv) = InUser(w, held, inv) - InItem(w, held) + InItem(w, h)
    BY <1>1, <1>3, <1>4
  <1>7. QED
    BY <1>1, <1>3, <1>4, <1>5, <1>6 DEF v

(* What there is is a number. *)
LEMMA StateNumbers ==
    ASSUME NEW w, Fair(w), Sound
    PROVE  /\ \A p \in Place : Working(site[p]) /\ InSite(w, site[p]) \in Int
           /\ \A u \in User : InUser(w, hand[u], pack[u]) \in Int
           /\ InAll(w) \in Int
  <1> DEFINE a == [p \in Place |-> InSite(w, site[p])]
             b == [u \in User |-> InUser(w, hand[u], pack[u])]
  <1>1. ASSUME NEW p \in Place PROVE Working(site[p]) /\ InSite(w, site[p]) \in Int
    <2>1. Working(site[p])
      BY DEF Sound
    <2>2. InSite(w, site[p]) \in Nat
      BY <2>1, SiteFacts
    <2>3. QED
      BY <2>1, <2>2
  <1>2. ASSUME NEW u \in User PROVE InUser(w, hand[u], pack[u]) \in Int
    <2>1. hand[u] \in Item /\ pack[u] \in [Pack -> Item]
      BY DEF Sound
    <2>2. QED
      BY <2>1, UserNumbers
  <1>3. a \in [Place -> Int] /\ b \in [User -> Int]
        /\ IsFiniteSet(Place) /\ IsFiniteSet(User)
    BY <1>1, <1>2, FurnaceAssumption
  <1>4. InAll(w) = SumFunction(a) + SumFunction(b)
    BY DEF InAll
  <1> HIDE DEF a, b
  <1>5. SumFunction(a) \in Int /\ SumFunction(b) \in Int
    BY <1>3, SumIsInt
  <1>6. QED
    BY <1>1, <1>2, <1>4, <1>5

(* A step of one player at one place. *)
LEMMA OneOfEach ==
    ASSUME NEW w, Fair(w), Sound, NEW p \in Place, NEW u \in User,
           NEW f, Working(f), NEW held \in Item, NEW inv \in [Pack -> Item],
           site' = [site EXCEPT ![p] = f],
           hand' = [hand EXCEPT ![u] = held],
           pack' = [pack EXCEPT ![u] = inv],
           OpenType',
           InSite(w, f) + InUser(w, held, inv)
              <= InSite(w, site[p]) + InUser(w, hand[u], pack[u])
    PROVE  Sound' /\ InAll(w)' <= InAll(w)
  <1> DEFINE a == [q \in Place |-> InSite(w, site[q])]
             b == [v \in User |-> InUser(w, hand[v], pack[v])]
             x == InSite(w, f)
             y == InUser(w, held, inv)
  <1>1. /\ DOMAIN site = Place /\ \A q \in Place : Working(site[q])
        /\ hand \in [User -> Item] /\ pack \in [User -> [Pack -> Item]]
    BY DEF Sound
  <1>2. /\ \A q \in Place : site'[q] = IF q = p THEN f ELSE site[q]
        /\ \A v \in User : hand'[v] = IF v = u THEN held ELSE hand[v]
        /\ \A v \in User : pack'[v] = IF v = u THEN inv ELSE pack[v]
    BY <1>1
  <1>3. Sound'
    <2>1. DOMAIN site' = Place /\ \A q \in Place : Working(site'[q])
      BY <1>1, <1>2
    <2>2. hand' \in [User -> Item] /\ pack' \in [User -> [Pack -> Item]]
      BY <1>1
    <2>3. site' = [q \in Place |-> site'[q]]
      BY <1>1
    <2>4. site' \in [Place -> {site'[q] : q \in Place}]
      BY <2>3
    <2>5. QED
      BY <2>1, <2>2, <2>4 DEF Sound
  <1>4. \A g : Working(g) => InSite(w, g) \in Int
    BY SiteFacts
  <1>5. a \in [Place -> Int] /\ IsFiniteSet(Place) /\ x \in Int
    BY <1>1, <1>4, FurnaceAssumption
  <1>6. b \in [User -> Int] /\ IsFiniteSet(User) /\ y \in Int
    <2>1. \A v \in User : InUser(w, hand[v], pack[v]) \in Int
      BY <1>1, UserNumbers
    <2>2. QED
      BY <2>1, UserNumbers, FurnaceAssumption
  <1>7. /\ [q \in Place |-> InSite(w, site'[q])] = [a EXCEPT ![p] = x]
        /\ [v \in User |-> InUser(w, hand'[v], pack'[v])] = [b EXCEPT ![u] = y]
    <2>0. \A q \in Place : InSite(w, site'[q]) = IF q = p THEN x ELSE a[q]
      BY <1>2
    <2>1. [q \in Place |-> InSite(w, site'[q])] = [a EXCEPT ![p] = x]
      BY <2>0
    <2>2. \A v \in User : InUser(w, hand'[v], pack'[v]) = IF v = u THEN y ELSE b[v]
      BY <1>2
    <2>3. [v \in User |-> InUser(w, hand'[v], pack'[v])] = [b EXCEPT ![u] = y]
      BY <2>2
    <2>4. QED
      BY <2>1, <2>3
  <1>8. /\ InAll(w) = SumFunction(a) + SumFunction(b)
        /\ InAll(w)' = SumFunction([a EXCEPT ![p] = x]) + SumFunction([b EXCEPT ![u] = y])
    <2>1. InAll(w) = SumFunction(a) + SumFunction(b)
      BY DEF InAll
    <2>2. InAll(w)' = SumFunction([q \in Place |-> InSite(w, site'[q])])
                      + SumFunction([v \in User |-> InUser(w, hand'[v], pack'[v])])
      BY DEF InAll
    <2>3. QED
      BY <1>7, <2>1, <2>2
  <1>9. a[p] = InSite(w, site[p]) /\ b[u] = InUser(w, hand[u], pack[u])
    OBVIOUS
  <1>10. x + y <= a[p] + b[u] /\ a[p] \in Int /\ b[u] \in Int
    BY <1>5, <1>6, <1>9
  <1> HIDE DEF a, b, x, y
  <1>11. SumFunction([a EXCEPT ![p] = x]) = SumFunction(a) - a[p] + x
    BY <1>5, SumChanges
  <1>12. SumFunction([b EXCEPT ![u] = y]) = SumFunction(b) - b[u] + y
    BY <1>6, SumChanges
  <1>13. SumFunction(a) \in Int /\ SumFunction(b) \in Int
    BY <1>5, <1>6, SumIsInt
  <1>14. InAll(w)' <= InAll(w)
    BY <1>5, <1>6, <1>8, <1>10, <1>11, <1>12, <1>13
  <1>15. QED
    BY <1>3, <1>14

(* A round of update. *)
LEMMA UpdateHolds ==
    ASSUME NEW w, Fair(w), Sound, OpenType', Update
    PROVE  Sound' /\ InAll(w)' <= InAll(w)
  <1>1. PICK garbage \in [Place -> {"cooked", "odd"}] :
          site' = [p \in Place |->
                       IF site[p].active = "no" THEN site[p]
                       ELSE Updated(site[p], garbage[p])]
    BY DEF Update
  <1>2. UNCHANGED <<hand, pack>>
    BY DEF Update
  <1>3. ASSUME NEW p \in Place
        PROVE  Working(site'[p]) /\ InSite(w, site'[p]) <= InSite(w, site[p])
               /\ InSite(w, site'[p]) \in Int /\ InSite(w, site[p]) \in Int
    <2>1. Working(site[p])
      BY DEF Sound
    <2>2. site'[p] = IF site[p].active = "no" THEN site[p] ELSE Updated(site[p], garbage[p])
      BY <1>1
    <2>3. garbage[p] \in {"cooked", "odd"}
      OBVIOUS
    <2>4. CASE site[p].active = "no"
      BY <2>1, <2>2, <2>4, SiteFacts
    <2>5. CASE site[p].active # "no"
      <3> DEFINE g == Updated(site[p], garbage[p])
      <3>1. Working(g) /\ InSite(w, g) <= InSite(w, site[p])
        BY <2>1, <2>3, <2>5, UpdatedHolds
      <3>2. site'[p] = g
        BY <2>2, <2>5
      <3> HIDE DEF g
      <3>3. QED
        BY <2>1, <3>1, <3>2, SiteFacts
    <2>6. QED
      BY <2>4, <2>5
  <1>4. Sound'
    <2>1. site' = [p \in Place |-> site'[p]]
      BY <1>1
    <2>2. site' \in [Place -> {site'[q] : q \in Place}]
      BY <2>1
    <2>3. QED
      BY <1>2, <1>3, <2>2 DEF Sound
  <1> DEFINE a == [p \in Place |-> InSite(w, site[p])]
             c == [p \in Place |-> InSite(w, site'[p])]
             k == SumFunction([u \in User |-> InUser(w, hand[u], pack[u])])
  <1>5. /\ a \in [Place -> Int] /\ c \in [Place -> Int] /\ IsFiniteSet(Place)
        /\ \A p \in Place : c[p] <= a[p]
    BY <1>3, FurnaceAssumption
  <1>6. k \in Int
    <2> DEFINE b == [u \in User |-> InUser(w, hand[u], pack[u])]
    <2>1. \A u \in User : InUser(w, hand[u], pack[u]) \in Int
      BY UserNumbers DEF Sound
    <2>2. b \in [User -> Int] /\ IsFiniteSet(User)
      BY <2>1, FurnaceAssumption
    <2> HIDE DEF b
    <2>3. SumFunction(b) \in Int
      BY <2>2, SumIsInt
    <2>4. QED
      BY <2>3 DEF b
  <1>7. InAll(w) = SumFunction(a) + k /\ InAll(w)' = SumFunction(c) + k
    BY <1>2 DEF InAll
  <1> HIDE DEF a, c, k
  <1>8. SumFunction(c) <= SumFunction(a) /\ SumFunction(c) \in Int /\ SumFunction(a) \in Int
    BY <1>5, SumGrows, SumIsInt
  <1>9. InAll(w)' <= InAll(w)
    BY <1>6, <1>7, <1>8
  <1>10. QED
    BY <1>4, <1>9

(* A player who puts down a block, breaks one, or closes a window. *)
LEMMA OthersHold ==
    ASSUME NEW w, Fair(w), Sound, OpenType',
           \/ \E p \in Place : OnPlace(p) \/ OnBroken(p)
           \/ \E u \in User : WindowClose(u)
    PROVE  Sound' /\ InAll(w)' <= InAll(w)
  <1>1. /\ \A p \in Place : Working(site[p]) /\ InSite(w, site[p]) \in Int
        /\ \A p \in Place : site = [site EXCEPT ![p] = site[p]]
        /\ \A u \in User : hand[u] \in Item /\ pack[u] \in [Pack -> Item]
        /\ \A u \in User : pack = [pack EXCEPT ![u] = pack[u]]
        /\ \A u \in User : hand = [hand EXCEPT ![u] = hand[u]]
        /\ \A u \in User : InUser(w, hand[u], pack[u]) \in Int
    <2>1. /\ \A p \in Place : Working(site[p]) /\ InSite(w, site[p]) \in Int
          /\ \A u \in User : InUser(w, hand[u], pack[u]) \in Int
      BY StateNumbers
    <2>2. /\ \A p \in Place : site = [site EXCEPT ![p] = site[p]]
          /\ \A u \in User : pack = [pack EXCEPT ![u] = pack[u]]
          /\ \A u \in User : hand = [hand EXCEPT ![u] = hand[u]]
          /\ \A u \in User : hand[u] \in Item /\ pack[u] \in [Pack -> Item]
      BY DEF Sound
    <2>3. QED
      BY <2>1, <2>2
  <1>2. ASSUME NEW p \in Place, OnPlace(p) \/ OnBroken(p)
        PROVE  Sound' /\ InAll(w)' <= InAll(w)
    <2>1. PICK block \in {"air", "furnace"} :
            site' = [site EXCEPT ![p] = [Forgotten(@) EXCEPT !.block = block]]
      BY <1>2 DEF OnPlace, OnBroken
    <2> DEFINE f == [Forgotten(site[p]) EXCEPT !.block = block]
    <2>2. site' = [site EXCEPT ![p] = f]
      BY <2>1
    <2>3. Working(f) /\ InSite(w, f) <= InSite(w, site[p])
      BY <1>1, ForgottenHolds
    <2> HIDE DEF f
    <2>4. InSite(w, f) \in Int
      BY <2>3, SiteFacts
    <2>5. PICK u \in User : TRUE
      BY <1>2 DEF OnPlace, OnBroken
    <2>6. hand' = [hand EXCEPT ![u] = hand[u]] /\ pack' = [pack EXCEPT ![u] = pack[u]]
      BY <1>1, <1>2 DEF OnPlace, OnBroken
    <2>7. InSite(w, f) + InUser(w, hand[u], pack[u])
             <= InSite(w, site[p]) + InUser(w, hand[u], pack[u])
      BY <1>1, <2>3, <2>4
    <2>8. hand[u] \in Item /\ pack[u] \in [Pack -> Item]
      BY <1>1
    <2>9. QED
      BY <2>2, <2>3, <2>6, <2>7, <2>8, OneOfEach
  <1>3. ASSUME NEW u \in User, WindowClose(u)
        PROVE  Sound' /\ InAll(w)' <= InAll(w)
    <2> DEFINE p == open[u]
    <2>1. p \in Place
      BY <1>3 DEF WindowClose, Sound, OpenType
    <2> HIDE DEF p
    <2>2. /\ site' = [site EXCEPT ![p] = site[p]] /\ pack' = [pack EXCEPT ![u] = pack[u]]
          /\ hand' = [hand EXCEPT ![u] = Empty]
      BY <1>1, <1>3, <2>1 DEF WindowClose
    <2>3. /\ Empty \in Item /\ InItem(w, Empty) = 0 /\ InItem(w, hand[u]) \in Nat
          /\ hand[u] \in Item /\ pack[u] \in [Pack -> Item]
      BY <1>1, ItemFacts, ItemNumbers
    <2>4. InUser(w, Empty, pack[u])
             = InUser(w, hand[u], pack[u]) - InItem(w, hand[u]) + InItem(w, Empty)
      BY <2>3, UserNumbers
    <2>5. InSite(w, site[p]) + InUser(w, Empty, pack[u])
             <= InSite(w, site[p]) + InUser(w, hand[u], pack[u])
      BY <1>1, <2>1, <2>3, <2>4
    <2>6. Working(site[p])
      BY <1>1, <2>1
    <2>7. QED
      BY <2>1, <2>2, <2>3, <2>5, <2>6, OneOfEach
  <1>4. QED
    BY <1>2, <1>3

(* Without shift-clicks, a click moves items between a slot and the hand. *)
LEMMA ClickHolds ==
    ASSUME NEW w, Fair(w), ~ShiftClicks, Sound, OpenType',
           NEW u \in User, OnWindowClick(u)
    PROVE  Sound' /\ InAll(w)' <= InAll(w)
  <1> DEFINE p == open[u]
             held == hand[u]
             inv == pack[u]
             f == site[p]
  <1>1. PICK button \in Button : \/ \E s \in Pack : ClickPack(u, s, button)
                                 \/ \E s \in Slot : ClickFurnace(u, s, button)
    BY DEF OnWindowClick
  <1>2. button # "shift"
    BY DEF Button
  <1>3. /\ p \in Place /\ Working(f) /\ held \in Item /\ inv \in [Pack -> Item]
        /\ site = [site EXCEPT ![p] = f]
        /\ pack = [pack EXCEPT ![u] = inv]
    BY DEF OnWindowClick, Sound, OpenType
  <1>4. InSite(w, f) \in Int /\ InUser(w, held, inv) \in Int
    BY <1>3, StateNumbers
  <1>5. ASSUME NEW s \in Pack, ClickPack(u, s, button)
        PROVE  Sound' /\ InAll(w)' <= InAll(w)
    <2> DEFINE m == Moved(inv[s], held, button)
               new == [inv EXCEPT ![s] = m.slot]
    <2>1. /\ pack' = [pack EXCEPT ![u] = new]
          /\ hand' = [hand EXCEPT ![u] = m.hand]
          /\ site' = site
      <3>1. ~Shifted(pack[u], Pack, pack[u][s], hand[u], button)
        BY <1>2 DEF Shifted
      <3>2. /\ pack' = [pack EXCEPT ![u][s] = m.slot]
            /\ hand' = [hand EXCEPT ![u] = m.hand] /\ site' = site
        BY <1>5, <3>1 DEF ClickPack
      <3>3. QED
        BY <3>2
    <2>2. /\ m.slot \in Item /\ m.hand \in Item
          /\ InItem(w, m.slot) + InItem(w, m.hand) = InItem(w, inv[s]) + InItem(w, held)
      <3>1. inv[s] \in Item
        BY <1>3
      <3> HIDE DEF inv, held
      <3>2. QED
        BY <1>3, <3>1, MovedItems
    <2> HIDE DEF m, held, inv, f, p
    <2>3. new \in [Pack -> Item]
      BY <1>3, <2>2
    <2>4. /\ InUser(w, m.hand, new) = InUser(w, held, new) - InItem(w, held) + InItem(w, m.hand)
          /\ InUser(w, held, new) = InUser(w, held, inv) - InItem(w, inv[s]) + InItem(w, m.slot)
      <3>1. InUser(w, held, new) = InUser(w, held, inv) - InItem(w, inv[s]) + InItem(w, m.slot)
        <4>1. \A r \in Pack : \A item \in Item :
                 InUser(w, held, [inv EXCEPT ![r] = item])
                    = InUser(w, held, inv) - InItem(w, inv[r]) + InItem(w, item)
          BY <1>3, UserNumbers
        <4>2. QED
          BY <2>2, <4>1
      <3> HIDE DEF new
      <3>2. QED
        BY <1>3, <2>2, <2>3, <3>1, UserNumbers, ZenonT(60)
    <2>5. /\ InItem(w, m.slot) \in Int /\ InItem(w, m.hand) \in Int /\ InItem(w, held) \in Int
          /\ InItem(w, inv[s]) \in Int
      BY <1>3, <2>2, ItemNumbers
    <2>6. InSite(w, f) + InUser(w, m.hand, new) <= InSite(w, f) + InUser(w, held, inv)
      <3> HIDE DEF new
      <3>1. QED
        BY <1>4, <2>2, <2>4, <2>5
    <2> HIDE DEF new
    <2>7. site' = [site EXCEPT ![p] = f]
      BY <1>3, <2>1
    <2>8. InSite(w, f) + InUser(w, m.hand, new) <= InSite(w, site[p]) + InUser(w, hand[u], pack[u])
      BY <2>6 DEF f, held, inv
    <2>9. QED
      BY <1>3, <2>1, <2>2, <2>3, <2>7, <2>8, OneOfEach
  <1>6. ASSUME NEW s \in Slot, ClickFurnace(u, s, button)
        PROVE  Sound' /\ InAll(w)' <= InAll(w)
    <2> DEFINE slot == Shown(f).items[s]
               m == Moved(slot, held, button)
               g == IF s = "output" THEN Filled(f, s, m.slot)
                    ELSE HandleActivity(Filled(f, s, m.slot))
    <2>1. /\ site' = [site EXCEPT ![p] = g] /\ hand' = [hand EXCEPT ![u] = m.hand]
          /\ pack' = [pack EXCEPT ![u] = inv]
      <3>1. ~Shifted(pack[u], Pack, Shown(f).items[s], hand[u], button)
        BY <1>2 DEF Shifted
      <3>2. /\ site' = [site EXCEPT ![p] = g] /\ hand' = [hand EXCEPT ![u] = m.hand]
            /\ pack' = [pack EXCEPT ![u] = @]
        BY <1>6, <3>1 DEF ClickFurnace, Shown, Filled
      <3>3. QED
        BY <1>3, <3>2
    <2> HIDE DEF p, held, inv, f
    <2>2. slot \in Item
      BY <1>3, FilledHolds, ItemFacts
    <2> HIDE DEF slot
    <2>3. /\ m.slot \in Item /\ m.hand \in Item
          /\ InItem(w, m.slot) + InItem(w, m.hand) = InItem(w, slot) + InItem(w, held)
      BY <1>3, <2>2, MovedItems
    <2> HIDE DEF m
    <2>4. Working(g) /\ InSite(w, g) <= InSite(w, f) - InItem(w, slot) + InItem(w, m.slot)
      BY <1>3, <2>3, FilledHolds DEF slot
    <2> HIDE DEF g
    <2>5. InUser(w, m.hand, inv) = InUser(w, held, inv) - InItem(w, held) + InItem(w, m.hand)
      BY <1>3, <2>3, UserNumbers, ZenonT(60)
    <2>6. /\ InItem(w, m.slot) \in Int /\ InItem(w, m.hand) \in Int /\ InItem(w, held) \in Int
          /\ InItem(w, slot) \in Int /\ InSite(w, g) \in Int
      BY <1>3, <2>2, <2>3, <2>4, ItemNumbers, SiteFacts
    <2>7. InSite(w, g) + InUser(w, m.hand, inv) <= InSite(w, f) + InUser(w, held, inv)
      BY <1>4, <2>3, <2>4, <2>5, <2>6
    <2>8. InSite(w, g) + InUser(w, m.hand, inv) <= InSite(w, site[p]) + InUser(w, hand[u], pack[u])
      BY <2>7 DEF f, held, inv
    <2>9. QED
      BY <1>3, <2>1, <2>3, <2>4, <2>8, OneOfEach
  <1>7. QED
    BY <1>1, <1>5, <1>6

(* Nobody has anything but what was there at first. *)
LEMMA InitSound == Init => Sound
  <1> SUFFICES ASSUME Init PROVE Sound
    OBVIOUS
  <1>1. site \in [Place -> {NoSite}]
    BY DEF Init
  <1>2. Working(NoSite)
    <2>1. NoSite \in SiteOf({None}) /\ NoSite.active = "no"
          /\ NoSite.data = None /\ NoSite.orphan = None
      BY DEF NoSite, SiteOf
    <2>2. QED
      BY <2>1 DEF Working, IsSite
  <1>3. hand \in [User -> Item] /\ pack \in [User -> [Pack -> Item]] /\ OpenType
    BY ItemFacts, FurnaceAssumption DEF Init, OpenType
  <1>4. QED
    BY <1>1, <1>2, <1>3 DEF Sound

(* No step adds to what there is, by any weights that are fair. *)
LEMMA NextHolds ==
    ASSUME ~ShiftClicks, NEW w, Fair(w), Sound, [Next]_vars
    PROVE  Sound' /\ InAll(w)' <= InAll(w)
  <1>1. OpenType'
    BY NextOpen DEF Sound
  <1>2. CASE UNCHANGED <<site, hand, pack>>
    <2>1. Sound'
      BY <1>1, <1>2 DEF Sound
    <2>2. InAll(w)' = InAll(w)
      BY <1>2 DEF InAll
    <2>3. InAll(w) \in Int
      BY StateNumbers
    <2>4. QED
      BY <2>1, <2>2, <2>3
  <1>3. CASE Update
    BY <1>1, <1>3, UpdateHolds
  <1>4. CASE \/ \E p \in Place : OnPlace(p) \/ OnBroken(p)
             \/ \E u \in User : WindowClose(u)
    BY <1>1, <1>4, OthersHold
  <1>5. ASSUME NEW u \in User, OnWindowClick(u) PROVE Sound' /\ InAll(w)' <= InAll(w)
    BY <1>1, <1>5, ClickHolds
  <1>6. ASSUME NEW u \in User, NEW p \in Place, OnWindowOpen(u, p)
        PROVE  Sound' /\ InAll(w)' <= InAll(w)
    BY <1>2, <1>6 DEF OnWindowOpen
  <1>7. UNCHANGED vars => Sound' /\ InAll(w)' <= InAll(w)
    BY <1>2 DEF vars
  <1>8. QED
    BY <1>3, <1>4, <1>5, <1>6, <1>7 DEF Next

(* The slots hold items, no count is beyond its byte, and the Furnaces in the
   list work on data: the invariant of the next theorem, without shift-clicks
   as it is. *)
THEOREM SlotsHoldItems ==
    ASSUME ~ShiftClicks
    PROVE  Spec => []Sound
  <1>1. Sound /\ [Next]_vars => Sound'
    BY FairWeights, NextHolds
  <1>2. QED
    BY <1>1, InitSound, PTL DEF Spec

(* Neither results nor fire come from nothing (NothingFromNothing), whatever
   recipes yield and fuels burn, however full the stacks, and however players
   click, place, break and leave: a recipe that steps over the stack and a
   count that wraps lose results and make none (smelt, consumeFuel,
   onwindowClick, update). Shift-clicks are left out, since addItems does
   add to stacks. *)
THEOREM NothingIsMade ==
    ASSUME ~ShiftClicks
    PROVE  Spec => NothingFromNothing
  <1>1. Sound /\ [Next]_vars
            => [InAll(Results)' <= InAll(Results) /\ InAll(Seconds)' <= InAll(Seconds)]_vars
    BY FairWeights, NextHolds
  <1>2. QED
    BY <1>1, SlotsHoldItems, PTL DEF Spec, NothingFromNothing
=============================================================================
