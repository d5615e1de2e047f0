--------------------------------- MODULE Rails ---------------------------------
(***************************************************************************)
(* Minecart tracks, which shape themselves and the tracks around them when  *)
(* they are laid (blocks/tracks.cpp), and the carts on them (physics.cpp    *)
(* updateMinecart).  The carts move from block to block; fractions of a     *)
(* block are left out.                                                      *)
(***************************************************************************)
EXTENDS World

CONSTANTS
    Grounds,       \* what there is at first: kinds, a function from Cells
    MaxTracks,     \* tracks that are laid (bound)
    MaxMoves       \* moves of the cart (bound)

\* land: the world; cart: none yet, or where it is, its speed, and the last track
\* it was turned on.
VARIABLES land, cart, laid, moves
railVars == <<land, cart, laid, moves>>

NoCart == [at |-> <<>>, speed |-> <<0, 0>>, last |-> <<>>]

RailsStart(g) ==
    land = Room(g, [p \in DOMAIN g |-> 0]) /\ cart = NoCart /\ laid = 0 /\ moves = 0
RailsInit == \E g \in Grounds : RailsStart(g)

FLAT_NS == 0
FLAT_EW == 1
ASCEND_W == 2
ASCEND_E == 3
ASCEND_S == 4
ASCEND_N == 5
CORNER_SE == 6
CORNER_SW == 7
CORNER_NW == 8
CORNER_NE == 9
Corners == CORNER_SE..CORNER_NE

-----------------------------------------------------------------------------
(* Tracks *)

\* Where the two ends of a track lead.
Ends(p, meta) ==
    CASE meta = FLAT_EW -> {Shift(p, -1, 0, 0), Shift(p, 1, 0, 0)}
      [] meta = FLAT_NS -> {Shift(p, 0, 0, -1), Shift(p, 0, 0, 1)}
      [] meta = CORNER_SE -> {Shift(p, 1, 0, 0), Shift(p, 0, 0, 1)}
      [] meta = CORNER_SW -> {Shift(p, 0, 0, 1), Shift(p, -1, 0, 0)}
      [] meta = CORNER_NE -> {Shift(p, 1, 0, 0), Shift(p, 0, 0, -1)}
      [] meta = CORNER_NW -> {Shift(p, -1, 0, 0), Shift(p, 0, 0, -1)}
      [] meta = ASCEND_E -> {Shift(p, -1, 1, 0), Shift(p, 1, 0, 0)}
      [] meta = ASCEND_N -> {Shift(p, 0, 1, 1), Shift(p, 0, 0, -1)}
      [] meta = ASCEND_S -> {Shift(p, 0, 1, -1), Shift(p, 0, 0, 1)}
      [] meta = ASCEND_W -> {Shift(p, 1, 1, 0), Shift(p, -1, 0, 0)}
      [] OTHER -> {p}

IsTrack(w, p) == KindAt(w, p) = "tracks"

\* At least one end is free; asked of whatever is in p.
IsStartPiece(w, p) == \E q \in Ends(p, MetaAt(w, p)) : ~IsTrack(w, q)

\* How much higher the track next to it is: 1, -1 or 0, in this order; the
\* metadata is that of the cell that was looked at last.
SearchTrack(w, p) ==
    CASE IsTrack(w, Above(p)) -> [found |-> TRUE, rise |-> 1, meta |-> MetaAt(w, Above(p))]
      [] ~IsTrack(w, Above(p)) /\ IsTrack(w, Below(p)) ->
            [found |-> TRUE, rise |-> -1, meta |-> MetaAt(w, Below(p))]
      [] OTHER -> [found |-> IsTrack(w, p), rise |-> 0, meta |-> MetaAt(w, p)]

Lay(w, p, meta) == Change(w, p, "tracks", meta)

\* One record for each of the four branches of onPlace: where the other track is
\* looked for, the straight metadata, the ones for going up (of the new track)
\* and down (of the other one), what the other one becomes when it is joined to
\* a track on either side, and what the new one becomes then.
WestOf ==
    [d |-> <<1, 0>>, flat |-> FLAT_EW, up |-> ASCEND_W, down |-> ASCEND_E,
     turns |-> <<[d |-> <<0, -1>>, meta |-> CORNER_NW], [d |-> <<0, 1>>, meta |-> CORNER_SW]>>,
     own |-> <<[d |-> <<0, -1>>, meta |-> CORNER_NE], [d |-> <<0, 1>>, meta |-> CORNER_SE]>>]
EastOf ==
    [d |-> <<-1, 0>>, flat |-> FLAT_EW, up |-> ASCEND_E, down |-> ASCEND_W,
     turns |-> <<[d |-> <<0, -1>>, meta |-> CORNER_NE], [d |-> <<0, 1>>, meta |-> CORNER_SE]>>,
     own |-> <<[d |-> <<0, -1>>, meta |-> CORNER_NW], [d |-> <<0, 1>>, meta |-> CORNER_SW]>>]
SouthOf ==
    [d |-> <<0, -1>>, flat |-> FLAT_NS, up |-> ASCEND_S, down |-> ASCEND_N,
     turns |-> <<[d |-> <<-1, 0>>, meta |-> CORNER_SW], [d |-> <<1, 0>>, meta |-> CORNER_SE]>>,
     own |-> <<[d |-> <<1, 0>>, meta |-> CORNER_NE], [d |-> <<-1, 0>>, meta |-> CORNER_NW]>>]
NorthOf ==
    [d |-> <<0, 1>>, flat |-> FLAT_NS, up |-> ASCEND_N, down |-> ASCEND_S,
     turns |-> <<[d |-> <<1, 0>>, meta |-> CORNER_NE], [d |-> <<-1, 0>>, meta |-> CORNER_NW]>>,
     own |-> <<[d |-> <<1, 0>>, meta |-> CORNER_SE], [d |-> <<-1, 0>>, meta |-> CORNER_SW]>>]
Branches4 == <<WestOf, EastOf, SouthOf, NorthOf>>

Side(p, d) == Shift(p, d[1], 0, d[2])
Reachable(w, p, b) == SearchTrack(w, Side(p, b.d)).found /\ IsStartPiece(w, Side(p, b.d))

\* The other track is made straight towards the new one.
Straightened(w, p, b) ==
    LET other == SearchTrack(w, Side(p, b.d))
    IN  IF other.rise = 0 /\ other.meta = (IF b.flat = FLAT_EW THEN FLAT_NS ELSE FLAT_EW)
        THEN Lay(w, Side(p, b.d), b.flat) ELSE w

\* A track higher up or further down: the new track rises, or the other one is
\* made to rise.  The second branch flattens the higher track on top of that, and
\* the fourth one looks down first.
Sloped(w, p, b) ==
    LET high == Above(Side(p, b.d))
        low == Below(Side(p, b.d))
        up == IsTrack(w, high) /\ IsStartPiece(w, high)
        down == IsTrack(w, low) /\ IsStartPiece(w, low)
        downfirst == b.d = <<0, 1>>
    IN  IF up /\ ~(downfirst /\ down)
        THEN [w |-> IF b.d = <<-1, 0>> THEN Lay(w, high, FLAT_EW) ELSE w, meta |-> b.up]
        ELSE [w |-> IF down THEN Lay(w, low, b.down) ELSE w, meta |-> b.flat]

\* The other track becomes a corner if there is a third one beside it.  The height
\* is kept in an unsigned byte: for a lower track this writes 255 blocks too
\* high, outside the map.
Turned4(w, p, b, rise) ==
    FoldLeft(LAMBDA v, t :
                 LET third == SearchTrack(v, Side(Side(p, b.d), t.d))
                 IN  IF third.found /\ IsStartPiece(v, Side(p, b.d)) /\ third.meta # b.flat
                     THEN IF rise < 0 THEN v ELSE Lay(v, Shift(p, b.d[1], rise, b.d[2]), t.meta)
                     ELSE v,
             w, b.turns)

\* The new one becomes a corner if there is a track on its own side.
OwnCorner(w, p, b, meta) ==
    FoldLeft(LAMBDA m, t : IF IsTrack(w, Side(p, t.d)) /\ IsStartPiece(w, Side(p, t.d))
                           THEN t.meta ELSE m,
             meta, b.own)

\* onPlace: the first branch that finds a track with a free end.
Joined(w, p) ==
    LET hits == {i \in 1..4 : Reachable(w, p, Branches4[i])} IN
    IF hits = {} THEN Lay(w, p, FLAT_NS)
    ELSE LET b == Branches4[Min(hits)]
             rise == SearchTrack(w, Side(p, b.d)).rise
             sloped == Sloped(Straightened(w, p, b), p, b)
             turned == Turned4(sloped.w, p, b, rise)
         IN  Lay(turned, p, OwnCorner(turned, p, b, sloped.meta))

LayTrack(p) ==
    /\ laid < MaxTracks /\ laid' = laid + 1
    /\ IsBlockEmpty(land, p) /\ IsBlockStackable(KindAt(land, Below(p)))
    /\ land' = Joined(land, p)
    /\ UNCHANGED <<cart, moves>>

\* A track is dug; the ones around stay as they are.
DigTrack(p) ==
    /\ laid < MaxTracks /\ laid' = laid + 1 /\ IsTrack(land, p)
    /\ land' = ClearAndDrop(land, p)
    /\ UNCHANGED <<cart, moves>>

-----------------------------------------------------------------------------
(* Carts *)

\* player_block_placement of a cart.
PlaceCart(p) ==
    /\ cart = NoCart /\ IsTrack(land, p)
    /\ cart' = [at |-> p, speed |-> <<0, 0>>, last |-> <<>>]
    /\ UNCHANGED <<land, laid, moves>>

\* use_entity: whoever gets in sets it moving to positive x, and stops it on
\* getting off.
UseEntity(speed) ==
    /\ cart # NoCart /\ moves < MaxMoves
    /\ cart' = [cart EXCEPT !.speed = speed]
    /\ UNCHANGED <<land, laid, moves>>

\* Faulty: two of the turns are swapped.
TurnSwapped(s, meta) ==
    CASE s[1] > 0 /\ meta = CORNER_NW -> <<0, s[1]>>
      [] s[1] > 0 /\ meta = CORNER_SW -> <<0, -s[1]>>
      [] OTHER -> s

\* The speed after a corner.
Turn(s, meta) ==
    CASE s[1] > 0 /\ meta = CORNER_NW -> <<0, -s[1]>>
      [] s[1] > 0 /\ meta = CORNER_SW -> <<0, s[1]>>
      [] s[1] < 0 /\ meta = CORNER_NE -> <<0, s[1]>>
      [] s[1] < 0 /\ meta = CORNER_SE -> <<0, -s[1]>>
      [] s[1] = 0 /\ s[2] > 0 /\ meta = CORNER_NW -> <<-s[2], 0>>
      [] s[1] = 0 /\ s[2] > 0 /\ meta = CORNER_NE -> <<s[2], 0>>
      [] s[1] = 0 /\ s[2] < 0 /\ meta = CORNER_SE -> <<-s[2], 0>>
      [] s[1] = 0 /\ s[2] < 0 /\ meta = CORNER_SW -> <<s[2], 0>>
      [] OTHER -> s

\* updateMinecart: to the next block or not yet, and round a corner that it was
\* not turned on before.  In the air it falls by a block and is put back at once.
UpdateMinecart(far) ==
    /\ cart # NoCart /\ cart.speed # <<0, 0>> /\ moves < MaxMoves
    /\ LET s == cart.speed
           at == IF far THEN Shift(cart.at, s[1], 0, s[2]) ELSE cart.at
           new == IsTrack(land, at) /\ cart.last # at
       IN  cart' = [at |-> at, last |-> IF new THEN at ELSE cart.last,
                    speed |-> IF new THEN Turn(s, MetaAt(land, at)) ELSE s]
    /\ moves' = moves + 1
    /\ UNCHANGED <<land, laid>>

RailsNext ==
    \/ \E p \in Cells(land) : LayTrack(p) \/ DigTrack(p) \/ PlaceCart(p)
    \/ \E speed \in {<<1, 0>>, <<0, 0>>} : UseEntity(speed)
    \/ \E far \in BOOLEAN : UpdateMinecart(far)

RailsSpec == RailsInit /\ [][RailsNext]_railVars

-----------------------------------------------------------------------------
(* Properties *)

\* A cart that comes to a corner through one of its ends goes on through the
\* other one, whatever shapes the laying of tracks gave the corners.
RoundTheCorner ==
    [][(/\ cart'.at # cart.at /\ cart.at # <<>>
        /\ IsTrack(land, cart'.at) /\ MetaAt(land, cart'.at) \in Corners
        /\ cart.at \in Ends(cart'.at, MetaAt(land, cart'.at)))
       => Side(cart'.at, cart'.speed) \in Ends(cart'.at, MetaAt(land, cart'.at)) \ {cart.at}
      ]_railVars

=============================================================================
