------------------------------ MODULE ChunkView ------------------------------
(***************************************************************************)
(* Which chunks each player has been sent: the queues of a User (user.cpp) *)
(* and the sets of viewers kept by the chunks (sChunk::users), as players  *)
(* log in, walk, teleport, change world and leave, while timed_1s sends    *)
(* and unloads chunks and timed_10s releases those nobody views.           *)
(*                                                                         *)
(* mapKnown and mapQueue are searched before they are added to and their   *)
(* order is immaterial (mapQueue is sorted when used), so they are sets;   *)
(* mapRemoveQueue is not searched and is emptied at one go, so it is a     *)
(* count of entries per chunk.                                             *)
(***************************************************************************)
EXTENDS Integers, FiniteSets, FiniteSetsExt

CONSTANTS
    User,
    World,         \* the maps
    Chunk,         \* chunk coordinates <<x, z>> of a world
    Start, Spawn,  \* the world and the chunk a new User is in
    Broken,        \* chunks loadMap cannot provide: their region file fails
    ViewDistance,  \* viewDistance (10)
    PushCount,     \* chunks one pushMap sends at most (5)
    IteratorSurvives, \* is a released chunk's map node still readable?
    MaxRemove      \* bound on the entries of one chunk in mapRemoveQueue

ASSUME ViewAssumption ==
    /\ IsFiniteSet(Chunk) /\ Chunk \subseteq Int \X Int
    /\ Broken \subseteq Chunk
    /\ Start \in World /\ Spawn \in Chunk
    /\ ViewDistance \in Nat /\ PushCount \in Nat /\ MaxRemove \in Nat
    /\ IteratorSurvives \in BOOLEAN

VARIABLES
    online,    \* players logged in
    world,     \* pos.map
    pos,       \* the chunk each player is in
    queue,     \* mapQueue
    known,     \* mapKnown
    removing,  \* mapRemoveQueue: number of entries for each chunk
    viewers,   \* sChunk::users, by world and chunk
    loaded,    \* chunks in memory, by world
    client,    \* what the player's client has (it sees packets only)
    doubled    \* was some chunk ever queued for removal twice? (history)

player == <<online, world, pos>>
lists == <<queue, known, removing, client>>
chunks == <<viewers, loaded>>
vars == <<player, lists, chunks, doubled>>

Distance(a, b) == IF a > b THEN a - b ELSE b - a

\* withinViewDistance on both axes: strictly closer than the view distance.
InView(c, p) ==
    Distance(c[1], p[1]) < ViewDistance /\ Distance(c[2], p[2]) < ViewDistance

\* The square the loops over -viewDistance .. viewDistance walk, both ends
\* included.
Square(p) ==
    {c \in Chunk : Distance(c[1], p[1]) <= ViewDistance
                   /\ Distance(c[2], p[2]) <= ViewDistance}

SquareDistance(c, p) ==
    (c[1] - p[1]) * (c[1] - p[1]) + (c[2] - p[2]) * (c[2] - p[2])

NoRemoval == [c \in Chunk |-> 0]

Init ==
    /\ online = {}
    /\ world = [u \in User |-> Start]
    /\ pos = [u \in User |-> Spawn]
    /\ queue = [u \in User |-> {}]
    /\ known = [u \in User |-> {}]
    /\ removing = [u \in User |-> NoRemoval]
    /\ viewers = [w \in World |-> [c \in Chunk |-> {}]]
    /\ loaded = [w \in World |-> {}]
    /\ client = [u \in User |-> {}]
    /\ doubled = FALSE

-----------------------------------------------------------------------------
(* The lists of one player: v is a record of queue, known, removing, client *)

Lists(u) == [queue |-> queue[u], known |-> known[u], removing |-> removing[u],
             client |-> client[u]]

SetLists(u, v) ==
    /\ queue' = [queue EXCEPT ![u] = v.queue]
    /\ known' = [known EXCEPT ![u] = v.known]
    /\ removing' = [removing EXCEPT ![u] = v.removing]
    /\ client' = [client EXCEPT ![u] = v.client]
    /\ doubled' = (doubled \/ \E c \in Chunk : v.removing[c] > 1)

\* Faulty: known chunks are queued as well.
AddQueueAll(v, S) ==
    [v EXCEPT !.removing = [c \in Chunk |-> IF c \in S /\ @[c] > 0 THEN @[c] - 1
                                            ELSE @[c]],
              !.queue = @ \cup S]

\* Faulty: the removal queue is not looked at.
AddQueueOnly(v, S) == [v EXCEPT !.queue = @ \cup (S \ v.known)]

\* addQueue, for every chunk of S: one entry of the removal queue is dropped,
\* and the chunk is queued unless it is known.
AddQueue(v, S) ==
    [v EXCEPT !.removing = [c \in Chunk |-> IF c \in S /\ @[c] > 0 THEN @[c] - 1
                                            ELSE @[c]],
              !.queue = @ \cup (S \ v.known)]

\* Faulty: only queued chunks are removed.
AddRemoveQueued(v, p) ==
    [v EXCEPT !.removing = [c \in Chunk |->
                  @[c] + (IF c \in v.queue /\ ~InView(c, p) THEN 1 ELSE 0)],
              !.queue = {c \in @ : InView(c, p)}]

\* addRemoveQueue, for every chunk of v.known and v.queue out of view of p: it
\* leaves the queue and gets another entry in the removal queue.
AddRemoveQueue(v, p) ==
    [v EXCEPT !.removing = [c \in Chunk |->
                  @[c] + (IF c \in v.known /\ ~InView(c, p) THEN 1 ELSE 0)
                       + (IF c \in v.queue /\ ~InView(c, p) THEN 1 ELSE 0)],
              !.queue = {c \in @ : InView(c, p)}]

\* The chunks n rounds of pushMap at p may take from queue q: the nearest.
Nearest(q, p, n) ==
    {S \in SUBSET q :
        /\ Cardinality(S) = (IF Cardinality(q) < n THEN Cardinality(q) ELSE n)
        /\ \A a \in S, b \in q \ S : SquareDistance(a, p) <= SquareDistance(b, p)}

\* Faulty: a chunk that does not load stays in the queue, to be tried again.
PushMapRetry(v, S) ==
    [v EXCEPT !.queue = @ \ (S \ Broken),
              !.known = @ \cup (S \ Broken),
              !.client = @ \cup (S \ Broken)]

\* pushMap: the chunks of S are sent and known, but for those that do not load.
PushMap(v, S) ==
    [v EXCEPT !.queue = @ \ S,
              !.known = @ \cup (S \ Broken),
              !.client = @ \cup (S \ Broken)]

\* popMap: whatever is in the removal queue is forgotten and unloaded.
PopMap(v) ==
    LET out == {c \in Chunk : v.removing[c] > 0}
    IN [v EXCEPT !.known = @ \ out, !.client = @ \ out, !.removing = NoRemoval]

\* updatePos from p to q, another chunk.
UpdatePos(v, p, q) ==
    AddQueue(AddRemoveQueue(v, q), {c \in Square(q) : ~InView(c, p)})

\* addKnown for the chunks of `in', delKnown for those of `out', in world w.
Register(u, w, in, out) ==
    viewers' = [viewers EXCEPT ![w] = [c \in Chunk |->
                    IF c \in out THEN @[c] \ {u}
                    ELSE IF c \in in THEN @[c] \cup {u} ELSE @[c]]]

Load(w, S) == loaded' = [loaded EXCEPT ![w] = @ \cup (S \ Broken)]

-----------------------------------------------------------------------------
(* sendLoginInfo: the square around the player is queued; one pushMap, and
   the three of the closing teleport, send the first chunks.              *)
Login(u) ==
    /\ u \notin online
    /\ online' = online \cup {u}
    /\ world' = [world EXCEPT ![u] = Start]
    /\ \E p \in Chunk :
         LET v == AddQueue(Lists(u), Square(p))
         IN /\ pos' = [pos EXCEPT ![u] = p]
            /\ \E S \in Nearest(v.queue, p, 4 * PushCount) :
                 /\ SetLists(u, PushMap(v, S))
                 /\ Register(u, Start, S \ Broken, {})
                 /\ Load(Start, S \cup {p})

\* updatePos across a chunk border.  When a chunk cannot be loaded the player
\* stays where it was.
Walk(u) ==
    /\ u \in online
    /\ pos[u] \notin Broken
    /\ \E p \in Chunk \ (Broken \cup {pos[u]}) :
         /\ SetLists(u, UpdatePos(Lists(u), pos[u], p))
         /\ pos' = [pos EXCEPT ![u] = p]
         /\ Load(world[u], {p, pos[u]})
    /\ \A c \in Chunk : removing'[u][c] <= MaxRemove
    /\ UNCHANGED <<online, world, viewers>>

\* teleport within the world: updatePos, then three pushMaps.
Teleport(u) ==
    /\ u \in online
    /\ pos[u] \notin Broken
    /\ \E p \in Chunk \ (Broken \cup {pos[u]}) :
         LET v == UpdatePos(Lists(u), pos[u], p)
         IN \E S \in Nearest(v.queue, p, 3 * PushCount) :
              /\ SetLists(u, PushMap(v, S))
              /\ Register(u, world[u], S \ Broken, {})
              /\ pos' = [pos EXCEPT ![u] = p]
              /\ Load(world[u], S \cup {p, pos[u]})
    /\ \A c \in Chunk : removing'[u][c] <= MaxRemove
    /\ UNCHANGED <<online, world>>

\* The chunks of world w the loop of updatePosM visits to erase the player.
\* A chunk left without users is released under the loop's iterator: what the
\* loop does after the first such chunk depends on the freed node.
Visited(u, w) ==
    IF IteratorSurvives THEN {loaded[w]}
    ELSE {S \in SUBSET loaded[w] :
            S = loaded[w] \/ \E c \in S : viewers[w][c] \subseteq {u}}

\* teleport to another world: updatePosM erases the player from the chunks of
\* the old one; the three pushMaps send what was queued, now in the new one.
ChangeWorld(u) ==
    /\ u \in online
    /\ \E w \in World \ {world[u]}, p \in Chunk, erased \in Visited(u, world[u]) :
         \E S \in Nearest(queue[u], p, 3 * PushCount) :
           LET old == world[u]
               left == {c \in erased : viewers[old][c] \subseteq {u}}
           IN /\ viewers' = [viewers EXCEPT
                     ![old] = [c \in Chunk |-> IF c \in erased THEN @[c] \ {u}
                                               ELSE @[c]],
                     ![w] = [c \in Chunk |-> IF c \in S \ Broken THEN @[c] \cup {u}
                                             ELSE @[c]]]
              /\ loaded' = [loaded EXCEPT
                     ![old] = @ \ left, ![w] = @ \cup ((S \cup {p}) \ Broken)]
              /\ SetLists(u, PushMap(Lists(u), S))
              /\ world' = [world EXCEPT ![u] = w]
              /\ pos' = [pos EXCEPT ![u] = p]
    /\ UNCHANGED online

\* The player's share of timed_1s: pushMap, then popMap.
Serve(u) ==
    /\ u \in online
    /\ \E S \in Nearest(queue[u], pos[u], PushCount) :
         LET v == PushMap(Lists(u), S)
         IN /\ SetLists(u, PopMap(v))
            /\ Register(u, world[u], S \ Broken,
                        {c \in Chunk : v.removing[c] > 0})
            /\ Load(world[u], S)
    /\ UNCHANGED player

\* Faulty: the player stays among the users of its chunks.
LogoutRegistered(u) ==
    /\ u \in online
    /\ online' = online \ {u}
    /\ SetLists(u, [queue |-> {}, known |-> {}, removing |-> NoRemoval,
                    client |-> {}])
    /\ UNCHANGED <<world, pos, chunks>>

\* ~User: the player is erased from the chunks it knows.
Logout(u) ==
    /\ u \in online
    /\ online' = online \ {u}
    /\ Register(u, world[u], {}, known[u])
    /\ SetLists(u, [queue |-> {}, known |-> {}, removing |-> NoRemoval,
                    client |-> {}])
    /\ UNCHANGED <<world, pos, loaded>>

\* Faulty: released by age alone.
ReleaseUsed(w, c) ==
    /\ c \in loaded[w]
    /\ loaded' = [loaded EXCEPT ![w] = @ \ {c}]
    /\ UNCHANGED <<player, lists, viewers, doubled>>

\* timed_10s: a chunk without users, not used for a while, is released.
Release(w, c) ==
    /\ c \in loaded[w]
    /\ viewers[w][c] = {}
    /\ loaded' = [loaded EXCEPT ![w] = @ \ {c}]
    /\ UNCHANGED <<player, lists, viewers, doubled>>

Next ==
    \/ \E u \in User : \/ Login(u) \/ Walk(u) \/ Teleport(u) \/ ChangeWorld(u)
                       \/ Serve(u) \/ Logout(u)
    \/ \E w \in World, c \in Chunk : Release(w, c)

Spec == Init /\ [][Next]_vars

\* The timer serves every player in the game.
FairSpec == Spec /\ \A u \in User : WF_vars(Serve(u))

-----------------------------------------------------------------------------
(* Properties *)

\* The variables have their types.
TypeOK ==
    /\ online \subseteq User
    /\ world \in [User -> World]
    /\ pos \in [User -> Chunk]
    /\ queue \in [User -> SUBSET Chunk]
    /\ known \in [User -> SUBSET Chunk]
    /\ removing \in [User -> [Chunk -> Nat]]
    /\ viewers \in [World -> [Chunk -> SUBSET User]]
    /\ loaded \in [World -> SUBSET Chunk]
    /\ client \in [User -> SUBSET Chunk]
    /\ doubled \in BOOLEAN

\* "make sure no user pointers are left" (user.cpp): a chunk's users are
\* players of its world that know it, so that the destructor, which erases
\* the player from the chunks it knows in its world, leaves no pointer to it.
NoStaleViewer ==
    \A w \in World, c \in Chunk : \A u \in viewers[w][c] :
        u \in online /\ world[u] = w /\ c \in known[u]

\* A chunk with viewers stays in memory.
ViewedChunkLoaded ==
    \A w \in World, c \in Chunk : viewers[w][c] # {} => c \in loaded[w]

\* A chunk is not queued again while it is known: it is sent once.
QueuedNotKnown == \A u \in User : queue[u] \cap known[u] = {}

\* While a player stays in one world and no chunk was queued for removal
\* twice: every chunk in view is known or about to be sent, and stays.
ViewComplete ==
    ~doubled => \A u \in online : \A c \in Chunk \ Broken :
        InView(c, pos[u]) => /\ c \in known[u] \cup queue[u]
                             /\ removing[u][c] = 0

\* A client holds no chunk out of view that is not about to be unloaded,
\* but for the border of the square.
FarChunkUnloaded ==
    \A u \in online : \A c \in known[u] \ Square(pos[u]) : removing[u][c] > 0

\* A player that stays in its chunk gets all that was queued for it.
QueueDrains ==
    \A u \in User : []<>(queue[u] = {}) \/ []<><<pos'[u] # pos[u]>>_vars

=============================================================================
