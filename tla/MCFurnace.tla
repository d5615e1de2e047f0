------------------------------ MODULE MCFurnace ------------------------------
(* Furnaces on small instances: one furnace, two players or one.           *)
EXTENDS Furnace

Items(k, n) == [kind |-> k, n |-> n]

Slot1 == <<1>>
Slots12 == <<1, 2>>

\* One player has the fuel, the other the ingredients.
Miner == CHOOSE u \in User : TRUE
Halves ==
    [u \in User |-> [s \in Pack |->
        IF u = Miner THEN Items("coal", 2) ELSE Items("raw", 2)]]

\* One player has both, in two slots: with shift-clicks and stacks of 4 this
\* is where addItems multiplies them.
Both ==
    [u \in User |-> [s \in Pack |->
        IF s = 1 THEN Items("coal", 1) ELSE Items("raw", 3)]]
=============================================================================
