-------------------------------- MODULE Items --------------------------------
(***************************************************************************)
(* Stacks of items and what every window does with them: Item's counts,    *)
(* isSpace and addItems of Inventory, and the common part of the click     *)
(* handlers, which the classes of windows each repeat.                     *)
(***************************************************************************)
EXTENDS Integers, Sequences, FiniteSets, FiniteSetsExt, SequencesExt

CONSTANTS
    Stack,           \* items that fit one slot (64)
    Byte,            \* the count of an Item wraps at Byte (128)
    SameType(_, _)   \* kinds that differ in their damage value at most

Empty == [kind |-> "none", n |-> 0]

\* Item::setCount and Item::decCount: nothing is left of a stack below 1.
Of(k, n) == IF n < 1 THEN Empty ELSE [kind |-> k, n |-> n]
Wrapped(n) == ((n + Byte) % (2 * Byte)) - Byte
Less(item) == Of(item.kind, item.n - 1)
Room(item) == Stack - item.n

\* isSpace: an empty slot, or room on stacks of the type.
IsSpace(inv, rows, item) ==
    \/ \E s \in rows : inv[s] = Empty
    \/ SumFunction([s \in {r \in rows : /\ SameType(inv[r].kind, item.kind)
                                        /\ Room(inv[r]) > 0}
                       |-> Room(inv[s])]) >= item.n

\* addItems, first loop: onto the stacks of the same kind. acc.left is count,
\* which is decremented, not cleared, when all of it found a place.
Pile(item, acc, s) ==
    LET room == Room(acc.inv[s])
    IN  IF acc.done \/ acc.inv[s].kind # item.kind THEN acc
        ELSE IF room >= acc.left
        THEN [inv |-> [acc.inv EXCEPT ![s].n = @ + acc.left],
              left |-> acc.left - 1, done |-> TRUE]
        ELSE IF room > 0
        THEN [acc EXCEPT !.inv[s].n = Stack, !.left = @ - room]
        ELSE acc

\* addItems, second loop: what is left goes to the first empty slot, and
\* is lost if there is none.
AddItems(inv, order, item) ==
    LET acc == FoldLeft(LAMBDA a, s : Pile(item, a, s),
                        [inv |-> inv, left |-> item.n, done |-> FALSE],
                        order)
        free == {i \in DOMAIN order : acc.inv[order[i]] = Empty}
    IN  IF acc.left = 0 \/ free = {} THEN acc.inv
        ELSE [acc.inv EXCEPT ![order[Min(free)]] = Of(item.kind, acc.left)]

\* What a click makes of the slot and of the hand.
Added(slot, held, button) ==
    IF button = "right" THEN 1
    ELSE IF Room(slot) >= held.n THEN held.n ELSE Room(slot)

Taken(slot, button) ==
    IF button = "right" THEN slot.n - slot.n \div 2 ELSE slot.n

Merges(slot, held) ==
    /\ held # Empty
    /\ slot = Empty \/ (slot.kind = held.kind /\ slot.n < Stack)

\* Faulty: half a stack is rounded up on both sides.
MovedHalf(slot, held, button) ==
    IF held = Empty /\ button = "right"
    THEN LET n == slot.n - slot.n \div 2
         IN  [slot |-> Of(slot.kind, n), hand |-> Of(slot.kind, n)]
    ELSE IF Merges(slot, held)
    THEN LET n == Added(slot, held, button)
         IN  [slot |-> Of(held.kind, slot.n + n),
              hand |-> Of(held.kind, held.n - n)]
    ELSE [slot |-> held, hand |-> slot]

Moved(slot, held, button) ==
    IF Merges(slot, held)
    THEN LET n == Added(slot, held, button)
         IN  [slot |-> Of(held.kind, slot.n + n),
              hand |-> Of(held.kind, held.n - n)]
    ELSE IF held = Empty
    THEN LET n == Taken(slot, button)
         IN  [slot |-> Of(slot.kind, slot.n - n), hand |-> Of(slot.kind, n)]
    ELSE [slot |-> held, hand |-> slot]

\* The item goes to the player's own slots if it seems to fit.
Shifted(inv, rows, slot, held, button) ==
    button = "shift" /\ held = Empty /\ slot # Empty
                     /\ IsSpace(inv, rows, slot)
=============================================================================
