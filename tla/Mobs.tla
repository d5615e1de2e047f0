---------------------------------- MODULE Mobs ----------------------------------
(***************************************************************************)
(* Animals: Mob and Mobs, the functions mob_* and user_* of the plugin     *)
(* interface, use_entity, and the plugin passiveMobs that drives them.     *)
(*                                                                         *)
(* A mob lives on a strip of columns, on the ground of its column. Ids are *)
(* indices of m_moblist, which keeps every mob there ever was.             *)
(***************************************************************************)
EXTENDS Integers, Sequences, FiniteSets, SequencesExt

CONSTANTS
    Ground,      \* column -> height of its highest block
    Grass,       \* columns whose highest block is grass or snow
    Breeds,      \* kinds of mobs that spawn
    Pens,        \* [x, hand]: where players are at first, and with what
    MaxMobs,     \* maxMobs (15)
    Linger,      \* turns a dead mob is kept (12)
    Reach,       \* how far a mob may be from the nearest player (200)
    NearMove,    \* longest move sent as a relative one (4)
    ByteMove,    \* relative moves wrap here
    PocketSlots, \* slots of a player: 1 is the one in the hand
    PocketStack, \* items that fit one slot (64)
    MaxMade      \* bound: mobs ever made, by the number of players

\* Mobs walk on whole blocks, and spawn on grass of columns there are.
ASSUME GroundAssumption ==
    /\ DOMAIN Ground \subseteq Int /\ \A x \in DOMAIN Ground : Ground[x] \in Int
    /\ Grass \subseteq DOMAIN Ground

VARIABLES
    herd,     \* m_moblist
    pets,     \* MyMobs: an id -> the turns since its death
    keepers   \* the players, and what their clients show

mobVars == <<herd, pets, keepers>>

Columns == DOMAIN Ground
Keeper == DOMAIN keepers
Nothing == [kind |-> "none", n |-> 0]

\* beef: items dropped at death; wool: times it was shorn.
NewMob(kind, x) ==
    [kind |-> kind, health |-> 0, spawned |-> FALSE, x |-> x, y |-> 0,
     shorn |-> FALSE, beef |-> 0, wool |-> 0, fell |-> FALSE]

\* strayed: is in another world than the mobs.
NewKeeper(x, item) ==
    [logged |-> FALSE, x |-> x, strayed |-> FALSE, sight |-> << >>,
     pocket |-> [s \in PocketSlots |-> IF s = 1 THEN item ELSE Nothing]]

MobsStart(pen) ==
    /\ herd = << >> /\ pets = << >>
    /\ keepers = [u \in DOMAIN pen.x |-> NewKeeper(pen.x[u], pen.hand[u])]
MobsInit == \E pen \in Pens : MobsStart(pen)

DefaultHealth(kind) == IF kind = "chicken" THEN 4 ELSE 10
DefaultDamage(item) ==
    CASE item.kind = "wooden sword" -> 5 [] item.kind = "stone sword" -> 7
      [] item.kind = "iron sword" -> 9 [] item.kind = "diamond sword" -> 11
      [] OTHER -> 2
DropsAtDeath(kind) == kind \in {"pig", "cow", "chicken"}

------------------------------------------------------------------------------
(* Mob. s is [herd, pets, keepers]; sight maps the id of a mob a client    *)
(* knows to the place where it shows it.                                   *)

Animals == [herd |-> herd, pets |-> pets, keepers |-> keepers]
Becomes(s) == herd' = s.herd /\ pets' = s.pets /\ keepers' = s.keepers

\* Every client that is logged in is sent the same.
SendAll(crowd, Show(_)) ==
    [u \in DOMAIN crowd |->
        IF crowd[u].logged THEN [crowd[u] EXCEPT !.sight = Show(crowd[u].sight)]
        ELSE crowd[u]]

Place(mob) == <<mob.x, mob.y>>
With(f, id, value) == [i \in DOMAIN f \cup {id} |-> IF i = id THEN value ELSE f[i]]

SpawnToAll(crowd, id, mob) ==
    SendAll(crowd, LAMBDA sight : With(sight, id, Place(mob)))

\* sethealth; what the client shows of it is left out.
SetHealth(mob, h) ==
    [mob EXCEPT !.health = IF h < 0 THEN 0 ELSE IF h > 30 THEN 30 ELSE h]

\* A relative move is a byte; only moves upwards or to higher coordinates
\* are found to be too far for it.
Wrap(d) == ((d + ByteMove) % (2 * ByteMove)) - ByteMove
IsNear(mob, x, y) == x - mob.x <= NearMove /\ y - mob.y <= NearMove

MoveTo(mob, x, y) ==
    [mob EXCEPT !.x = x, !.y = y,
                !.fell = @ \/ Wrap(x - mob.x) # x - mob.x \/ Wrap(y - mob.y) # y - mob.y]

\* Where a client that shows the mob at `at` shows it after moveTo.
MoveShown(at, mob, x, y) ==
    IF IsNear(mob, x, y) THEN <<at[1] + Wrap(x - mob.x), at[2] + Wrap(y - mob.y)>>
    ELSE IF mob.spawned THEN <<x, y>> ELSE at

------------------------------------------------------------------------------
(* Players.                                                                *)

\* Faulty: mobs that were despawned are shown as well.
MobsAtLoginAll(u) == IF keepers[u].strayed THEN {} ELSE DOMAIN herd

\* sendLoginInfo sends the mobs of the world that are spawned.
MobsAtLogin(u) ==
    IF keepers[u].strayed THEN {} ELSE {id \in DOMAIN herd : herd[id].spawned}

LogIn(u) ==
    /\ ~keepers[u].logged
    /\ keepers' = [keepers EXCEPT ![u] =
          [@ EXCEPT !.logged = TRUE,
                    !.sight = [id \in MobsAtLogin(u) |-> Place(herd[id])]]]
    /\ UNCHANGED <<herd, pets>>

LogOut(u) ==
    /\ keepers[u].logged
    /\ keepers' = [keepers EXCEPT ![u] = [@ EXCEPT !.logged = FALSE, !.sight = << >>]]
    /\ UNCHANGED <<herd, pets>>

\* Nothing is sent about mobs when a player moves or changes world.
Wander(u) ==
    /\ keepers[u].logged
    /\ \/ \E x \in Columns \ {keepers[u].x} : keepers' = [keepers EXCEPT ![u].x = x]
       \/ ~keepers[u].strayed /\ keepers' = [keepers EXCEPT ![u].strayed = TRUE]
    /\ UNCHANGED <<herd, pets>>

\* user_addItem: from slot to slot, a stack with room or an empty slot.
AddItem(pocket, kind, n) ==
    LET Fill(acc, s) ==
            LET slot == acc.pocket[s]
                room == IF slot.kind = kind THEN PocketStack - slot.n
                        ELSE IF slot = Nothing THEN PocketStack ELSE 0
                put == IF acc.left < room THEN acc.left ELSE room
            IN  IF put = 0 THEN acc
                ELSE [pocket |-> [acc.pocket EXCEPT ![s] = [kind |-> kind, n |-> slot.n + put]],
                      left |-> acc.left - put]
    IN  FoldLeft(Fill, [pocket |-> pocket, left |-> n],
                 SetToSortSeq(PocketSlots, <)).pocket

\* user_setItemInHand: no item is left of a count of 0.
SetItemInHand(pocket, item) ==
    [pocket EXCEPT ![1] = IF item.n = 0 THEN Nothing ELSE item]

------------------------------------------------------------------------------
(* The plugin.                                                             *)

\* No player of the world is near.
Far(s, x) ==
    \A u \in Keeper :
        \/ ~s.keepers[u].logged \/ s.keepers[u].strayed
        \/ s.keepers[u].x - x \notin -Reach .. Reach

\* createMob, setHealth, moveMob and spawnMob, near a player.
Spawned(s, kind, x) ==
    LET id == Len(s.herd) + 1
        born == SetHealth(NewMob(kind, 0), DefaultHealth(kind))
        mob == [MoveTo(born, x, Ground[x] + 1) EXCEPT !.fell = FALSE, !.spawned = TRUE]
    IN  [herd |-> Append(s.herd, mob), pets |-> With(s.pets, id, 0),
         keepers |-> SpawnToAll(s.keepers, id, mob)]

Spawns(s) ==
    {s} \cup
    (IF Cardinality(DOMAIN s.pets) < MaxMobs /\ Len(s.herd) < MaxMade[Cardinality(Keeper)]
     THEN {Spawned(s, kind, x) : kind \in Breeds, x \in {c \in Grass : ~Far(s, c)}}
     ELSE {})

\* moveSuitable, fallMob: a step into a column that is not higher, and down.
Step(mob, dx) ==
    LET x == mob.x + dx
    IN  IF x \in Columns /\ Ground[x] < mob.y THEN <<x, Ground[x] + 1>> ELSE Place(mob)

\* timer200 despawns and forgets the dead that lingered and the far.
Leaves(s, id) ==
    IF s.herd[id].health = 0 THEN s.pets[id] >= Linger ELSE Far(s, s.herd[id].x)

\* The loop of timer200: the dead linger, the others walk. A turn reads and
\* writes one mob and what is shown of it, so the order of them is immaterial.
Turns(s, steps) ==
    LET gone == {id \in DOMAIN s.pets : Leaves(s, id)}
        walking == {id \in DOMAIN s.pets \ gone : s.herd[id].health # 0}
        to == [id \in walking |-> Step(s.herd[id], steps[id])]
    IN  [herd |-> [id \in DOMAIN s.herd |->
             IF id \in gone THEN [s.herd[id] EXCEPT !.spawned = FALSE]
             ELSE IF id \in walking THEN MoveTo(s.herd[id], to[id][1], to[id][2])
             ELSE s.herd[id]],
         pets |-> [id \in DOMAIN s.pets \ gone |->
             IF id \in walking THEN 0 ELSE s.pets[id] + 1],
         keepers |-> SendAll(s.keepers, LAMBDA sight :
             [id \in DOMAIN sight \ gone |->
                 IF id \in walking THEN MoveShown(sight[id], s.herd[id], to[id][1], to[id][2])
                 ELSE sight[id]])]

Timer200 ==
    \E s \in Spawns(Animals) : \E steps \in [DOMAIN s.pets -> {-1, 0, 1}] :
        Becomes(Turns(s, steps))

\* Faulty: a dead mob can be hit.
GotAttackedDead(s, u, id) ==
    LET left == s.herd[id].health - DefaultDamage(s.keepers[u].pocket[1])
        drop == left <= 0 /\ DropsAtDeath(s.herd[id].kind)
        hit == SetHealth(s.herd[id], left)
    IN  [s EXCEPT !.herd[id] = [hit EXCEPT !.beef = @ + IF drop THEN 1 ELSE 0]]

\* gotAttacked, drop
GotAttacked(s, u, id) ==
    LET left == s.herd[id].health - DefaultDamage(s.keepers[u].pocket[1])
        drop == left <= 0 /\ DropsAtDeath(s.herd[id].kind)
        hit == SetHealth(s.herd[id], left)
    IN  IF s.herd[id].health <= 0 THEN s
        ELSE [s EXCEPT !.herd[id] = [hit EXCEPT !.beef = @ + IF drop THEN 1 ELSE 0]]

\* interact: wool from a sheep, milk from a cow.
Interact(s, u, id) ==
    LET pocket == s.keepers[u].pocket
        hand == pocket[1]
        mob == s.herd[id]
    IN  IF mob.health <= 0 THEN s
        ELSE IF mob.kind = "sheep" /\ hand.kind = "shears" /\ ~mob.shorn
        THEN [s EXCEPT !.herd[id].wool = @ + 1, !.herd[id].shorn = TRUE]
        ELSE IF mob.kind = "cow" /\ hand.kind = "bucket"
        THEN [s EXCEPT !.keepers[u].pocket =
                 AddItem(SetItemInHand(pocket, [hand EXCEPT !.n = @ - 1]), "milk", 1)]
        ELSE s

\* use_entity names a mob by its UID, also one that was despawned since the
\* client sent it.
UseEntity(u) ==
    /\ keepers[u].logged
    /\ \E id \in DOMAIN herd :
           Becomes(GotAttacked(Animals, u, id)) \/ Becomes(Interact(Animals, u, id))

MobsNext ==
    Timer200 \/ \E u \in Keeper : LogIn(u) \/ LogOut(u) \/ Wander(u) \/ UseEntity(u)

MobsSpec == MobsInit /\ [][MobsNext]_mobVars

------------------------------------------------------------------------------
(* Properties.                                                             *)

\* A mob gives what it drops when it dies, once, whoever hits it how often
\* and whether it was despawned meanwhile, and a sheep its wool once while it
\* lives (gotAttacked, drop, interact).
DropsOnce ==
    \A id \in DOMAIN herd :
        LET mob == herd[id]
        IN  /\ mob.beef = (IF mob.health = 0 /\ DropsAtDeath(mob.kind) THEN 1 ELSE 0)
            /\ mob.wool = (IF mob.shorn THEN 1 ELSE 0)

\* Whoever is in the world of the mobs sees the mobs the plugin
\* drives, and no other, and where they are, unless one fell so far that the
\* byte of a relative move does not hold it (timer200, sendLoginInfo, moveTo).
MobsSeen ==
    \A u \in Keeper : keepers[u].logged /\ ~keepers[u].strayed =>
        /\ DOMAIN keepers[u].sight = DOMAIN pets
        /\ \A id \in DOMAIN pets :
               herd[id].fell \/ keepers[u].sight[id] = Place(herd[id])
=============================================================================
