-------------------------------- MODULE Physics --------------------------------
(***************************************************************************)
(* Water and lava (physics.cpp update, blocks/liquid.cpp).  A list of       *)
(* places is gone through every 200 ms: a liquid falls, fills up what is    *)
(* below, spreads, and levels out, and every place that changed is told to  *)
(* the players afterwards.  A metadata of 0 is a full block.                *)
(***************************************************************************)
EXTENDS World

CONSTANTS
    Pools,        \* what there is at first: kinds, metas, and what is in the hand
    MaxPours,     \* uses of the hand (bound)
    MaxRounds     \* updates after which the liquids have come to rest

VARIABLES pool, hand, pours, rounds
poolVars == <<pool, hand, pours, rounds>>

PhysicsStart(s) == pool = Room(s.kinds, s.metas) /\ hand = s.hand /\ pours = 0 /\ rounds = 0
PhysicsInit == \E s \in Pools : PhysicsStart(s)

MayFallThrough == {"air", "water", "snow"}

-----------------------------------------------------------------------------
(* Physics::update.  A pass is a record: the world w, the places to add and  *)
(* to remove (add, rem), those to be sent (chg), whether the place that is   *)
(* looked at did anything (used) and is done with (over).                    *)

Wrote(pass, p, k, m) == [pass EXCEPT !.w = SetBlock(@, p, k, m)]
Sent(pass, p) == [pass EXCEPT !.chg = @ \union {p}]
ToAdd(pass, p) == [pass EXCEPT !.add = Append(@, p)]
ToRem(pass, p) == [pass EXCEPT !.rem = Append(@, p)]
Acted(pass) == [pass EXCEPT !.used = TRUE]
Over(pass) == [pass EXCEPT !.over = TRUE]

Mixes(block, new) == (block = new /\ block \in Liquids) \/ (block \in Liquids /\ new \in MayFallThrough)

\* It falls into a cell without liquid, as it is.
Drop(pass, p, q, k, m) ==
    Acted(ToAdd(ToRem(Sent(Sent(Wrote(Wrote(pass, q, k, m), p, "air", 0), q), p), p), q))

\* It falls on liquid: what fits goes down.  Lava of less than half a block is
\* gone.  The players are told of the upper cell only.
Pour(pass, p, q, k, m, n) ==
    LET volume == (8 - m) + (8 - n)
        top == IF volume > 8 THEN volume - 8 ELSE 0
        bottom == volume - top
        asked == ToAdd(pass, q)
        stays == 8 - top < (IF k = "water" THEN 8 ELSE 4)
        upper == IF stays THEN Wrote(asked, p, k, 8 - top) ELSE Wrote(asked, p, "air", 0)
    IN  IF top = 8 - m /\ bottom = 8 - n THEN ToRem(ToRem(asked, p), q)
        ELSE Sent(ToAdd(ToAdd(Acted(Wrote(upper, q, k, 8 - bottom)), q), p), p)

\* The weakest flow does not spread.
Spent(k, m) == (k = "water" /\ m = 7) \/ (k = "lava" /\ m >= 3)

\* It spreads: the cell itself keeps its level.
Spread(pass, q, k, m) ==
    LET wet == Acted(Sent(Wrote(pass, q, k, m + 1), q))
    IN  IF m + 1 < 8 THEN ToAdd(wet, q) ELSE wet

\* A higher level gives one to a lower one.
LevelOut(pass, p, q, k, m, n) ==
    LET lower == Acted(ToAdd(Sent(Wrote(pass, q, k, n - 1), q), q))
    IN  IF m + 1 < 8 THEN Sent(Wrote(lower, p, k, m + 1), p)
        ELSE ToRem(Sent(Wrote(lower, p, "air", 0), p), p)

\* One direction of the place p.
Flow(pass, p, q, falling) ==
    LET k == KindAt(pass.w, p)
        m == MetaAt(pass.w, p)
        new == KindAt(pass.w, q)
        n == MetaAt(pass.w, q)
    IN  CASE pass.over -> pass
          [] ~pass.over /\ k \notin Liquids -> Over(ToRem(pass, p))
          [] ~pass.over /\ k \in Liquids /\ ~Mixes(k, new) -> pass
          [] ~pass.over /\ k \in Liquids /\ Mixes(k, new) ->
                CASE falling /\ new \notin Liquids -> Drop(pass, p, q, k, m)
                  [] falling /\ new \in Liquids -> Pour(pass, p, q, k, m, n)
                  [] ~falling /\ new \notin Liquids ->
                        IF Spent(k, m) THEN Over(ToRem(pass, p)) ELSE Spread(pass, q, k, m)
                  [] ~falling /\ new \in Liquids ->
                        IF m < n - 1 THEN LevelOut(pass, p, q, k, m, n) ELSE pass

\* Faulty: a place that rests is kept.
RestingKept(pass, p) == pass

Resting(pass, p) == IF pass.used THEN pass ELSE ToRem(pass, p)

\* The five directions, down first.
Looked(pass, p) ==
    LET start == [pass EXCEPT !.used = FALSE, !.over = FALSE]
        sides == <<Shift(p, 1, 0, 0), Shift(p, -1, 0, 0), Shift(p, 0, 0, 1), Shift(p, 0, 0, -1)>>
    IN  Resting(FoldLeft(LAMBDA s, q : Flow(s, p, q, FALSE), Flow(start, p, Below(p), TRUE), sides), p)

RemoveSimulation(w, p) ==
    [w EXCEPT !.flows = SelectSeq(@, LAMBDA q : q # p)]

\* What is in the cells by now is sent.
SendMultiBlocks(w, changed) ==
    FoldSet(LAMBDA p, v : SendBlockChange(v, p, KindAt(v, p), MetaAt(v, p)), w, changed)

PhysicsUpdate ==
    /\ pool.flows # <<>>
    /\ LET first == [w |-> pool, add |-> <<>>, rem |-> <<>>, chg |-> {},
                     used |-> FALSE, over |-> FALSE]
           pass == FoldLeft(Looked, first, pool.flows)
           removed == FoldLeft(RemoveSimulation, pass.w, pass.rem)
           added == FoldLeft(AddSimulation, removed, pass.add)
       IN  pool' = SendMultiBlocks(added, pass.chg)
    /\ rounds' = IF rounds <= MaxRounds THEN rounds + 1 ELSE rounds
    /\ UNCHANGED <<hand, pours>>

-----------------------------------------------------------------------------
(* The player *)

Bucketful(k) == IF k = "water" THEN "waterbucket" ELSE "lavabucket"

\* onPlace of a bucket or of a liquid block; the item changes here, as the packet
\* ends with the handler.
LiquidPlaced(p, dir) ==
    LET q == TranslateDirection(pool, p, dir)
        k == KindAt(pool, q)
    IN  IF hand = "bucket" /\ MetaAt(pool, q) = 0 /\ k \in Liquids
        THEN pool' = Clear(pool, q) /\ hand' = Bucketful(k)
        ELSE /\ hand \in {"waterbucket", "lavabucket"} /\ k = "air"
             /\ LET liquid == IF hand = "waterbucket" THEN "water" ELSE "lava"
                IN  pool' = AddSimulation(Change(pool, q, liquid, 0), q)
             /\ hand' = "bucket"

Aimed(p) == KindAt(pool, p) # "air" /\ pours < MaxPours

UseBucket(p, dir) ==
    /\ Aimed(p) /\ Moved(p, dir) \in Cells(pool)
    /\ LiquidPlaced(p, dir)
    /\ pours' = pours + 1 /\ rounds' = 0

\* A block is dug: liquids around begin to flow.
DigAway(p) ==
    /\ Aimed(p) /\ p \in Cells(pool) /\ KindAt(pool, p) \notin Liquids
    /\ pool' = Notified(Clear(pool, p), p, LAMBDA w, q, dir : AddSimulation(w, q))
    /\ pours' = pours + 1 /\ rounds' = 0
    /\ UNCHANGED hand

\* A block is put where liquid is or was: the liquid stays (only handlers of
\* liquids replace), or the block takes its place.
PutBlock(p, dir) ==
    LET q == Moved(p, dir) IN
    /\ Aimed(p) /\ KindAt(pool, p) = "stone" /\ q \in Cells(pool) /\ IsBlockEmpty(pool, q)
    /\ pool' = CheckSurrounding(Change(pool, q, "stone", 0), p)
    /\ pours' = pours + 1 /\ rounds' = 0
    /\ UNCHANGED hand

PhysicsNext ==
    \/ PhysicsUpdate
    \/ \E p \in Cells(pool), dir \in BOTTOM..TOP : UseBucket(p, dir) \/ PutBlock(p, dir)
    \/ \E p \in Cells(pool) : DigAway(p)

PhysicsSpec == PhysicsInit /\ [][PhysicsNext]_poolVars

-----------------------------------------------------------------------------
(* Properties *)

\* The liquids come to rest: when the player does nothing, the list of places is
\* empty after MaxRounds updates.
ComesToRest == rounds > MaxRounds => pool.flows = <<>>

\* Where the players see liquid there is liquid, and the other way round; its
\* level may be an old one, as the lower one of two cells is not sent.
LiquidIsSeen ==
    \A p \in Cells(pool) : (pool.shown[p][1] \in Liquids) = (KindAt(pool, p) \in Liquids)
=============================================================================
