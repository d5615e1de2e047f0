--------------------------- MODULE ChunkViewProofs ---------------------------
(* Theorems about ChunkView: no chunk keeps a pointer to a player that left
   or went to another world, and viewed chunks stay in memory.  That the loop
   of updatePosM survives releasing a chunk is an assumption of theirs.     *)
EXTENDS ChunkView, TLAPS

IInv ==
    /\ TypeOK
    /\ QueuedNotKnown
    /\ NoStaleViewer
    /\ ViewedChunkLoaded

ListsType ==
    [queue : SUBSET Chunk, known : SUBSET Chunk, removing : [Chunk -> Nat],
     client : SUBSET Chunk]

(* What the operations on one player's lists return. *)
LEMMA ListsOfPlayer ==
    ASSUME TypeOK, NEW u \in User
    PROVE  /\ Lists(u) \in ListsType
           /\ Lists(u).queue = queue[u] /\ Lists(u).known = known[u]
  BY DEF TypeOK, Lists, ListsType

(* addQueue queues what is not known. *)
LEMMA AddQueueLists ==
    ASSUME NEW v \in ListsType, NEW S \in SUBSET Chunk
    PROVE  /\ AddQueue(v, S) \in ListsType
           /\ AddQueue(v, S).known = v.known
           /\ AddQueue(v, S).queue = v.queue \cup (S \ v.known)
  <1>1. [c \in Chunk |-> IF c \in S /\ v.removing[c] > 0 THEN v.removing[c] - 1
                         ELSE v.removing[c]] \in [Chunk -> Nat]
    BY DEF ListsType
  <1>2. QED
    BY <1>1 DEF ListsType, AddQueue

(* addRemoveQueue takes chunks out of the queue and marks known ones. *)
LEMMA AddRemoveQueueLists ==
    ASSUME NEW v \in ListsType, NEW p \in Chunk
    PROVE  /\ AddRemoveQueue(v, p) \in ListsType
           /\ AddRemoveQueue(v, p).known = v.known
           /\ AddRemoveQueue(v, p).queue \subseteq v.queue
  <1>1. [c \in Chunk |->
            v.removing[c] + (IF c \in v.known /\ ~InView(c, p) THEN 1 ELSE 0)
                          + (IF c \in v.queue /\ ~InView(c, p) THEN 1 ELSE 0)]
          \in [Chunk -> Nat]
    BY DEF ListsType
  <1>2. {c \in v.queue : InView(c, p)} \in SUBSET Chunk
    BY DEF ListsType
  <1>3. QED
    BY <1>1, <1>2 DEF ListsType, AddRemoveQueue

(* updatePos keeps queued and known chunks apart. *)
LEMMA UpdatePosLists ==
    ASSUME NEW v \in ListsType, NEW p \in Chunk, NEW q \in Chunk,
           v.queue \cap v.known = {}
    PROVE  LET n == UpdatePos(v, p, q)
           IN /\ n \in ListsType
              /\ n.known = v.known
              /\ n.queue \cap n.known = {}
  <1> DEFINE S == {c \in Square(q) : ~InView(c, p)}
             m == AddRemoveQueue(v, q)
  <1>1. S \in SUBSET Chunk
    BY DEF Square
  <1>2. m \in ListsType /\ m.known = v.known /\ m.queue \subseteq v.queue
    BY AddRemoveQueueLists
  <1>3. /\ AddQueue(m, S) \in ListsType /\ AddQueue(m, S).known = m.known
        /\ AddQueue(m, S).queue = m.queue \cup (S \ m.known)
    BY <1>1, <1>2, AddQueueLists
  <1>4. UpdatePos(v, p, q) = AddQueue(m, S)
    BY DEF UpdatePos
  <1>5. QED
    BY <1>2, <1>3, <1>4

(* pushMap makes known what it takes out of the queue and could load. *)
LEMMA PushMapLists ==
    ASSUME NEW v \in ListsType, NEW S \in SUBSET v.queue, v.queue \cap v.known = {}
    PROVE  LET n == PushMap(v, S)
           IN /\ n \in ListsType
              /\ n.known = v.known \cup (S \ Broken)
              /\ n.removing = v.removing
              /\ n.queue \cap n.known = {}
  BY DEF ListsType, PushMap

(* popMap forgets what is marked. *)
LEMMA PopMapLists ==
    ASSUME NEW v \in ListsType, v.queue \cap v.known = {}
    PROVE  LET n == PopMap(v)
           IN /\ n \in ListsType
              /\ n.known = v.known \ {c \in Chunk : v.removing[c] > 0}
              /\ n.queue \cap n.known = {}
  BY DEF ListsType, PopMap, NoRemoval

(* The chunks sent first are some of those that are queued. *)
LEMMA NearestSubset ==
    ASSUME NEW q, NEW p, NEW n, NEW S \in Nearest(q, p, n)
    PROVE  S \in SUBSET q
  BY DEF Nearest

(* Replacing one player's lists by lists that are well formed. *)
LEMMA SetListsTyped ==
    ASSUME TypeOK, QueuedNotKnown, NEW u \in User, NEW v \in ListsType, SetLists(u, v),
           v.queue \cap v.known = {}
    PROVE  /\ queue' \in [User -> SUBSET Chunk]
           /\ known' \in [User -> SUBSET Chunk]
           /\ removing' \in [User -> [Chunk -> Nat]]
           /\ client' \in [User -> SUBSET Chunk]
           /\ doubled' \in BOOLEAN
           /\ QueuedNotKnown'
           /\ known' = [known EXCEPT ![u] = v.known]
  BY DEF TypeOK, SetLists, ListsType, QueuedNotKnown

(* A player registers with the chunks pushed to it and leaves those popped,
   in its own world, and its known chunks change accordingly.               *)
LEMMA Registered ==
    ASSUME IInv, NEW u \in User, NEW w \in World, NEW in \in SUBSET Chunk,
           NEW out \in SUBSET Chunk, NEW load \in SUBSET Chunk,
           Register(u, w, in, out), Load(w, load), in \subseteq load \ Broken,
           u \in online', world' \in [User -> World], world'[u] = w,
           \A x \in User \ {u} : (x \in online => x \in online') /\ world'[x] = world[x],
           \A y \in World, c \in Chunk : u \in viewers[y][c] => y = w,
           known' = [known EXCEPT ![u] = (known[u] \cup in) \ out]
    PROVE  /\ viewers' \in [World -> [Chunk -> SUBSET User]]
           /\ loaded' \in [World -> SUBSET Chunk]
           /\ NoStaleViewer'
           /\ ViewedChunkLoaded'
  <1>1. /\ viewers \in [World -> [Chunk -> SUBSET User]]
        /\ loaded \in [World -> SUBSET Chunk] /\ known \in [User -> SUBSET Chunk]
    BY DEF IInv, TypeOK
  <1>2. /\ viewers' \in [World -> [Chunk -> SUBSET User]]
        /\ loaded' \in [World -> SUBSET Chunk]
    BY <1>1 DEF Register, Load
  <1>3. \A y \in World, c \in Chunk :
          viewers'[y][c] = IF y # w THEN viewers[y][c]
                           ELSE IF c \in out THEN viewers[y][c] \ {u}
                           ELSE IF c \in in THEN viewers[y][c] \cup {u}
                           ELSE viewers[y][c]
    BY <1>1 DEF Register
  <1>3a. \A y \in World, c \in Chunk : \A x :
           x \in viewers'[y][c] <=>
             IF y = w /\ x = u THEN c \notin out /\ (c \in in \/ x \in viewers[y][c])
             ELSE x \in viewers[y][c]
    <2> SUFFICES ASSUME NEW y \in World, NEW c \in Chunk, NEW x
                 PROVE  x \in viewers'[y][c] <=>
                          IF y = w /\ x = u
                          THEN c \notin out /\ (c \in in \/ x \in viewers[y][c])
                          ELSE x \in viewers[y][c]
      OBVIOUS
    <2>1. CASE y # w
      BY <1>3, <2>1
    <2>2. CASE y = w /\ c \in out
      <3>1. viewers'[y][c] = viewers[y][c] \ {u}
        BY <1>3, <2>2
      <3>2. QED
        BY <3>1, <2>2
    <2>3. CASE y = w /\ c \notin out /\ c \in in
      <3>1. viewers'[y][c] = viewers[y][c] \cup {u}
        BY <1>3, <2>3
      <3>2. QED
        BY <3>1, <2>3
    <2>4. CASE y = w /\ c \notin out /\ c \notin in
      <3>1. viewers'[y][c] = viewers[y][c]
        BY <1>3, <2>4
      <3>2. QED
        BY <3>1, <2>4
    <2>5. QED
      BY <2>1, <2>2, <2>3, <2>4
  <1>4. \A y \in World : loaded[y] \subseteq loaded'[y] /\ in \subseteq loaded'[w]
    BY <1>1 DEF Load
  <1>5. /\ known'[u] = (known[u] \cup in) \ out
        /\ \A x \in User \ {u} : known'[x] = known[x]
    BY <1>1
  <1>6. NoStaleViewer'
    <2>1. ASSUME NEW y \in World, NEW c \in Chunk, NEW x \in viewers'[y][c]
          PROVE  x \in online' /\ world'[x] = y /\ c \in known'[x]
      <3>0. x \in User
        BY <1>2
      <3>1. CASE x # u
        <4>1. x \in viewers[y][c]
          BY <1>3a, <2>1, <3>1
        <4>2. x \in online /\ world[x] = y /\ c \in known[x]
          BY <4>1 DEF IInv, NoStaleViewer
        <4>3. known'[x] = known[x]
          BY <1>5, <3>0, <3>1
        <4>4. x \in online' /\ world'[x] = world[x]
          BY <3>0, <3>1, <4>2
        <4>5. QED
          BY <4>2, <4>3, <4>4
      <3>2. CASE x = u
        <4>1. u \in viewers'[y][c]
          BY <3>2
        <4>2. y = w
          BY <1>3a, <4>1
        <4>3. c \notin out /\ (c \in in \/ u \in viewers[y][c])
          BY <1>3a, <4>1, <4>2
        <4>4. c \in known[u] \cup in
          BY <4>3 DEF IInv, NoStaleViewer
        <4>5. QED
          BY <1>5, <3>2, <4>2, <4>3, <4>4
      <3>3. QED
        BY <3>1, <3>2
    <2>2. QED
      BY <2>1 DEF NoStaleViewer
  <1>7. ViewedChunkLoaded'
    <2>1. ASSUME NEW y \in World, NEW c \in Chunk, viewers'[y][c] # {}
          PROVE  c \in loaded'[y]
      <3>1. CASE y = w /\ c \in in
        BY <1>4, <3>1
      <3>2. CASE y # w \/ c \notin in
        <4>1. viewers[y][c] # {}
          BY <1>3, <2>1, <3>2
        <4>2. QED
          BY <1>4, <4>1 DEF IInv, ViewedChunkLoaded
      <3>3. QED
        BY <3>1, <3>2
    <2>2. QED
      BY <2>1 DEF ViewedChunkLoaded
  <1>8. QED
    BY <1>2, <1>6, <1>7

(* Nobody has lists, and no chunk is loaded. *)
LEMMA InitIInv == Init => IInv
  <1> SUFFICES ASSUME Init PROVE IInv
    OBVIOUS
  <1>1. TypeOK
    BY ViewAssumption DEF Init, TypeOK, NoRemoval
  <1>2. \A w \in World, c \in Chunk : viewers[w][c] = {}
    BY DEF Init
  <1>3. QueuedNotKnown
    BY DEF Init, QueuedNotKnown
  <1>4. NoStaleViewer /\ ViewedChunkLoaded
    BY <1>2 DEF NoStaleViewer, ViewedChunkLoaded
  <1>5. QED
    BY <1>1, <1>3, <1>4 DEF IInv

(* A player seen in a world is in that world. *)
LEMMA ViewersOfWorld ==
    ASSUME IInv, NEW u \in User
    PROVE  \A y \in World, c \in Chunk : u \in viewers[y][c] => y = world[u]
  BY DEF IInv, NoStaleViewer

(* The chunks sent at login are loaded with the player as a viewer. *)
LEMMA LoginIInv == ASSUME IInv, NEW u \in User, Login(u) PROVE IInv'
  <1>1. PICK p \in Chunk : \E S \in Nearest(AddQueue(Lists(u), Square(p)).queue, p, 4 * PushCount) :
          /\ pos' = [pos EXCEPT ![u] = p]
          /\ SetLists(u, PushMap(AddQueue(Lists(u), Square(p)), S))
          /\ Register(u, Start, S \ Broken, {})
          /\ Load(Start, S \cup {p})
    BY DEF Login
  <1> DEFINE v == AddQueue(Lists(u), Square(p))
  <1>2. PICK S \in Nearest(v.queue, p, 4 * PushCount) :
          /\ pos' = [pos EXCEPT ![u] = p]
          /\ SetLists(u, PushMap(v, S))
          /\ Register(u, Start, S \ Broken, {})
          /\ Load(Start, S \cup {p})
    BY <1>1
  <1>3. /\ v \in ListsType /\ v.known = known[u] /\ v.queue \cap v.known = {}
    <2>1. Square(p) \in SUBSET Chunk
      BY DEF Square
    <2>2. QED
      BY <2>1, ListsOfPlayer, AddQueueLists DEF IInv, QueuedNotKnown
  <1>4. S \in SUBSET v.queue /\ S \in SUBSET Chunk
    BY <1>3, NearestSubset DEF ListsType
  <1> DEFINE n == PushMap(v, S)
  <1>5. n \in ListsType /\ n.known = known[u] \cup (S \ Broken) /\ n.queue \cap n.known = {}
    BY <1>3, <1>4, PushMapLists
  <1> HIDE DEF n, v
  <1>6. /\ queue' \in [User -> SUBSET Chunk] /\ known' \in [User -> SUBSET Chunk]
        /\ removing' \in [User -> [Chunk -> Nat]] /\ client' \in [User -> SUBSET Chunk]
        /\ doubled' \in BOOLEAN /\ QueuedNotKnown'
        /\ known' = [known EXCEPT ![u] = n.known]
    BY <1>2, <1>5, SetListsTyped DEF IInv, n
  <1>7. /\ online' = online \cup {u} /\ u \notin online
        /\ world' = [world EXCEPT ![u] = Start]
    BY DEF Login
  <1>8. /\ world' \in [User -> World] /\ world'[u] = Start
        /\ \A x \in User \ {u} : (x \in online => x \in online') /\ world'[x] = world[x]
        /\ pos' \in [User -> Chunk] /\ online' \subseteq User
    BY <1>2, <1>7, ViewAssumption DEF IInv, TypeOK
  <1>9. \A y \in World, c \in Chunk : u \in viewers[y][c] => y = Start
    BY <1>7 DEF IInv, NoStaleViewer
  <1>10. known' = [known EXCEPT ![u] = (known[u] \cup (S \ Broken)) \ {}]
    BY <1>5, <1>6
  <1>11. /\ viewers' \in [World -> [Chunk -> SUBSET User]]
         /\ loaded' \in [World -> SUBSET Chunk] /\ NoStaleViewer' /\ ViewedChunkLoaded'
    <2>1. /\ S \ Broken \in SUBSET Chunk /\ {} \in SUBSET Chunk
          /\ S \cup {p} \in SUBSET Chunk /\ S \ Broken \subseteq (S \cup {p}) \ Broken
          /\ Start \in World /\ u \in online'
      BY <1>4, <1>7, ViewAssumption
    <2>2. Register(u, Start, S \ Broken, {}) /\ Load(Start, S \cup {p})
      BY <1>2
    <2>3. QED
      BY ZenonT(30), <1>8, <1>9, <1>10, <2>1, <2>2, Registered
  <1>12. QED
    BY <1>6, <1>8, <1>11 DEF IInv, TypeOK

(* A step into another chunk only changes lists. *)
LEMMA WalkIInv == ASSUME IInv, NEW u \in User, Walk(u) PROVE IInv'
  <1>1. PICK p \in Chunk \ (Broken \cup {pos[u]}) :
          /\ SetLists(u, UpdatePos(Lists(u), pos[u], p))
          /\ pos' = [pos EXCEPT ![u] = p]
          /\ Load(world[u], {p, pos[u]})
    BY DEF Walk
  <1> DEFINE n == UpdatePos(Lists(u), pos[u], p)
  <1>2. pos[u] \in Chunk /\ world[u] \in World
    BY DEF IInv, TypeOK
  <1>3. n \in ListsType /\ n.known = known[u] /\ n.queue \cap n.known = {}
    BY <1>2, ListsOfPlayer, UpdatePosLists DEF IInv, QueuedNotKnown
  <1> HIDE DEF n
  <1>4. /\ queue' \in [User -> SUBSET Chunk] /\ known' \in [User -> SUBSET Chunk]
        /\ removing' \in [User -> [Chunk -> Nat]] /\ client' \in [User -> SUBSET Chunk]
        /\ doubled' \in BOOLEAN /\ QueuedNotKnown'
        /\ known' = [known EXCEPT ![u] = n.known]
    BY <1>1, <1>3, SetListsTyped DEF IInv, n
  <1>5. known' = known
    BY <1>3, <1>4 DEF IInv, TypeOK
  <1>6. /\ UNCHANGED <<online, world, viewers>>
        /\ \A y \in World : loaded[y] \subseteq loaded'[y]
        /\ loaded' \in [World -> SUBSET Chunk] /\ pos' \in [User -> Chunk]
    BY <1>1, <1>2 DEF Walk, Load, IInv, TypeOK
  <1>7. NoStaleViewer' /\ ViewedChunkLoaded'
    BY <1>5, <1>6 DEF IInv, NoStaleViewer, ViewedChunkLoaded
  <1>8. QED
    BY <1>4, <1>6, <1>7 DEF IInv, TypeOK

(* A teleport changes lists and sends the chunks around its target. *)
LEMMA TeleportIInv == ASSUME IInv, NEW u \in User, Teleport(u) PROVE IInv'
  <1>1. PICK p \in Chunk \ (Broken \cup {pos[u]}) :
          \E S \in Nearest(UpdatePos(Lists(u), pos[u], p).queue, p, 3 * PushCount) :
            /\ SetLists(u, PushMap(UpdatePos(Lists(u), pos[u], p), S))
            /\ Register(u, world[u], S \ Broken, {})
            /\ pos' = [pos EXCEPT ![u] = p]
            /\ Load(world[u], S \cup {p, pos[u]})
    BY DEF Teleport
  <1> DEFINE v == UpdatePos(Lists(u), pos[u], p)
  <1>2. PICK S \in Nearest(v.queue, p, 3 * PushCount) :
          /\ SetLists(u, PushMap(v, S))
          /\ Register(u, world[u], S \ Broken, {})
          /\ pos' = [pos EXCEPT ![u] = p]
          /\ Load(world[u], S \cup {p, pos[u]})
    BY <1>1
  <1>3. /\ pos[u] \in Chunk /\ world[u] \in World /\ p \in Chunk
        /\ u \in online /\ UNCHANGED <<online, world>>
    BY DEF IInv, TypeOK, Teleport
  <1>4. v \in ListsType /\ v.known = known[u] /\ v.queue \cap v.known = {}
    BY <1>3, ListsOfPlayer, UpdatePosLists DEF IInv, QueuedNotKnown
  <1>5. S \in SUBSET v.queue /\ S \in SUBSET Chunk
    BY <1>4, NearestSubset DEF ListsType
  <1> DEFINE n == PushMap(v, S)
  <1>6. n \in ListsType /\ n.known = known[u] \cup (S \ Broken) /\ n.queue \cap n.known = {}
    BY <1>4, <1>5, PushMapLists
  <1> HIDE DEF n, v
  <1>7. /\ queue' \in [User -> SUBSET Chunk] /\ known' \in [User -> SUBSET Chunk]
        /\ removing' \in [User -> [Chunk -> Nat]] /\ client' \in [User -> SUBSET Chunk]
        /\ doubled' \in BOOLEAN /\ QueuedNotKnown'
        /\ known' = [known EXCEPT ![u] = n.known]
    BY <1>2, <1>6, SetListsTyped DEF IInv, n
  <1>8. known' = [known EXCEPT ![u] = (known[u] \cup (S \ Broken)) \ {}]
    BY <1>6, <1>7
  <1>9. /\ viewers' \in [World -> [Chunk -> SUBSET User]]
        /\ loaded' \in [World -> SUBSET Chunk] /\ NoStaleViewer' /\ ViewedChunkLoaded'
    <2>1. /\ S \ Broken \in SUBSET Chunk /\ {} \in SUBSET Chunk
          /\ S \cup {p, pos[u]} \in SUBSET Chunk
          /\ S \ Broken \subseteq (S \cup {p, pos[u]}) \ Broken
      BY <1>3, <1>5
    <2>2. /\ u \in online' /\ world' \in [User -> World] /\ world'[u] = world[u]
          /\ \A x \in User \ {u} : (x \in online => x \in online') /\ world'[x] = world[x]
      BY <1>3 DEF IInv, TypeOK
    <2>3. Register(u, world[u], S \ Broken, {}) /\ Load(world[u], S \cup {p, pos[u]})
      BY <1>2
    <2>4. \A y \in World, c \in Chunk : u \in viewers[y][c] => y = world[u]
      BY ViewersOfWorld
    <2>5. QED
      BY <1>3, <1>8, <2>1, <2>2, <2>3, <2>4, Registered
  <1>10. pos' \in [User -> Chunk]
    BY <1>2, <1>3 DEF IInv, TypeOK
  <1>11. QED
    BY <1>3, <1>7, <1>9, <1>10 DEF IInv, TypeOK

(* The timer sends some and unloads others, and leaves no viewer behind. *)
LEMMA ServeIInv == ASSUME IInv, NEW u \in User, Serve(u) PROVE IInv'
  <1>1. PICK S \in Nearest(queue[u], pos[u], PushCount) :
          /\ SetLists(u, PopMap(PushMap(Lists(u), S)))
          /\ Register(u, world[u], S \ Broken,
                      {c \in Chunk : PushMap(Lists(u), S).removing[c] > 0})
          /\ Load(world[u], S)
    BY DEF Serve
  <1>2. world[u] \in World /\ u \in online /\ UNCHANGED player
    BY DEF IInv, TypeOK, Serve
  <1>3. /\ Lists(u) \in ListsType /\ Lists(u).known = known[u]
        /\ Lists(u).queue = queue[u] /\ queue[u] \cap known[u] = {}
    BY ListsOfPlayer DEF IInv, QueuedNotKnown
  <1>4. S \in SUBSET queue[u] /\ S \in SUBSET Chunk
    BY <1>3, NearestSubset DEF ListsType
  <1> DEFINE v == PushMap(Lists(u), S)
             out == {c \in Chunk : v.removing[c] > 0}
             n == PopMap(v)
  <1>5. v \in ListsType /\ v.known = known[u] \cup (S \ Broken) /\ v.queue \cap v.known = {}
    BY <1>3, <1>4, PushMapLists
  <1>6. n \in ListsType /\ n.known = v.known \ out /\ n.queue \cap n.known = {}
    BY <1>5, PopMapLists
  <1>7. SetLists(u, n) /\ Register(u, world[u], S \ Broken, out) /\ out \in SUBSET Chunk
    BY <1>1
  <1> HIDE DEF n, out, v
  <1>8. /\ queue' \in [User -> SUBSET Chunk] /\ known' \in [User -> SUBSET Chunk]
        /\ removing' \in [User -> [Chunk -> Nat]] /\ client' \in [User -> SUBSET Chunk]
        /\ doubled' \in BOOLEAN /\ QueuedNotKnown'
        /\ known' = [known EXCEPT ![u] = n.known]
    BY <1>6, <1>7, SetListsTyped DEF IInv
  <1>9. known' = [known EXCEPT ![u] = (known[u] \cup (S \ Broken)) \ out]
    BY <1>5, <1>6, <1>8
  <1>10. /\ viewers' \in [World -> [Chunk -> SUBSET User]]
         /\ loaded' \in [World -> SUBSET Chunk] /\ NoStaleViewer' /\ ViewedChunkLoaded'
    <2>1. /\ S \ Broken \in SUBSET Chunk /\ S \ Broken \subseteq S \ Broken
          /\ Load(world[u], S)
      BY <1>1, <1>4
    <2>2. /\ u \in online' /\ world' \in [User -> World] /\ world'[u] = world[u]
          /\ \A x \in User \ {u} : (x \in online => x \in online') /\ world'[x] = world[x]
      BY <1>2 DEF IInv, TypeOK, player
    <2>3. \A y \in World, c \in Chunk : u \in viewers[y][c] => y = world[u]
      BY ViewersOfWorld
    <2>4. QED
      BY ZenonT(30), <1>2, <1>4, <1>7, <1>9, <2>1, <2>2, <2>3, Registered
  <1>11. QED
    BY <1>2, <1>8, <1>10 DEF IInv, TypeOK, player

(* If the loop of updatePosM survives, it erases the player everywhere. *)
LEMMA ChangeWorldIInv ==
    ASSUME IteratorSurvives, IInv, NEW u \in User, ChangeWorld(u)
    PROVE  IInv'
  <1> DEFINE old == world[u]
             left == {c \in loaded[old] : viewers[old][c] \subseteq {u}}
  <1>1. PICK w \in World \ {old}, p \in Chunk, erased \in Visited(u, old) :
          \E S \in Nearest(queue[u], p, 3 * PushCount) :
            /\ viewers' = [viewers EXCEPT
                  ![old] = [c \in Chunk |-> IF c \in erased THEN @[c] \ {u}
                                            ELSE @[c]],
                  ![w] = [c \in Chunk |-> IF c \in S \ Broken THEN @[c] \cup {u}
                                          ELSE @[c]]]
            /\ loaded' = [loaded EXCEPT
                  ![old] = @ \ {c \in erased : viewers[old][c] \subseteq {u}},
                  ![w] = @ \cup ((S \cup {p}) \ Broken)]
            /\ SetLists(u, PushMap(Lists(u), S))
            /\ world' = [world EXCEPT ![u] = w]
            /\ pos' = [pos EXCEPT ![u] = p]
    BY DEF ChangeWorld
  <1>1a. erased = loaded[old]
    BY DEF Visited
  <1>2. PICK S \in Nearest(queue[u], p, 3 * PushCount) :
            /\ viewers' = [viewers EXCEPT
                  ![old] = [c \in Chunk |-> IF c \in loaded[old] THEN @[c] \ {u}
                                            ELSE @[c]],
                  ![w] = [c \in Chunk |-> IF c \in S \ Broken THEN @[c] \cup {u}
                                          ELSE @[c]]]
            /\ loaded' = [loaded EXCEPT
                  ![old] = @ \ left, ![w] = @ \cup ((S \cup {p}) \ Broken)]
            /\ SetLists(u, PushMap(Lists(u), S))
            /\ world' = [world EXCEPT ![u] = w]
            /\ pos' = [pos EXCEPT ![u] = p]
    BY <1>1, <1>1a
  <1>3. /\ old \in World /\ w \in World /\ w # old
        /\ viewers \in [World -> [Chunk -> SUBSET User]]
        /\ loaded \in [World -> SUBSET Chunk] /\ known \in [User -> SUBSET Chunk]
        /\ u \in online /\ online' = online
    BY DEF IInv, TypeOK, ChangeWorld
  <1>4. /\ Lists(u) \in ListsType /\ Lists(u).known = known[u]
        /\ Lists(u).queue = queue[u] /\ queue[u] \cap known[u] = {}
    BY ListsOfPlayer DEF IInv, QueuedNotKnown
  <1>5. S \in SUBSET queue[u] /\ S \in SUBSET Chunk
    BY <1>4, NearestSubset DEF ListsType
  <1> DEFINE n == PushMap(Lists(u), S)
  <1>6. n \in ListsType /\ n.known = known[u] \cup (S \ Broken) /\ n.queue \cap n.known = {}
    BY <1>4, <1>5, PushMapLists
  <1>7. SetLists(u, n)
    BY <1>2
  <1> HIDE DEF n
  <1>8. /\ queue' \in [User -> SUBSET Chunk] /\ known' \in [User -> SUBSET Chunk]
        /\ removing' \in [User -> [Chunk -> Nat]] /\ client' \in [User -> SUBSET Chunk]
        /\ doubled' \in BOOLEAN /\ QueuedNotKnown'
        /\ known' = [known EXCEPT ![u] = n.known]
    BY <1>6, <1>7, SetListsTyped DEF IInv
  <1>9. /\ viewers' \in [World -> [Chunk -> SUBSET User]]
        /\ loaded' \in [World -> SUBSET Chunk]
        /\ world' \in [User -> World] /\ pos' \in [User -> Chunk]
    BY ZenonT(30), <1>2, <1>3, <1>5 DEF IInv, TypeOK
  \* Who views what after the step: u left the old world and entered w.
  <1>10. /\ \A c \in Chunk : viewers'[old][c] = IF c \in loaded[old]
                                                THEN viewers[old][c] \ {u}
                                                ELSE viewers[old][c]
         /\ \A c \in Chunk : viewers'[w][c] = IF c \in S \ Broken
                                              THEN viewers[w][c] \cup {u}
                                              ELSE viewers[w][c]
         /\ \A y \in World \ {old, w} : viewers'[y] = viewers[y]
    BY <1>2, <1>3
  <1>11. /\ loaded'[old] = loaded[old] \ left
         /\ loaded'[w] = loaded[w] \cup ((S \cup {p}) \ Broken)
         /\ \A y \in World \ {old, w} : loaded'[y] = loaded[y]
    BY <1>2, <1>3
  <1>12. \A y \in World, c \in Chunk : \A x \in viewers'[y][c] :
           IF x = u THEN y = w /\ c \in S \ Broken ELSE x \in viewers[y][c]
    <2> SUFFICES ASSUME NEW y \in World, NEW c \in Chunk, NEW x \in viewers'[y][c]
                 PROVE  IF x = u THEN y = w /\ c \in S \ Broken ELSE x \in viewers[y][c]
      OBVIOUS
    <2>1. x = u /\ x \in viewers[y][c] => y = old /\ c \in loaded[old]
      BY DEF IInv, NoStaleViewer, ViewedChunkLoaded
    <2>2. CASE y = old
      <3>1. viewers'[y][c] = IF c \in loaded[old] THEN viewers[y][c] \ {u}
                             ELSE viewers[y][c]
        BY <1>10, <2>2
      <3>2. x \in viewers[y][c] /\ (c \in loaded[old] => x # u)
        BY <3>1
      <3>3. QED
        BY <2>1, <3>2
    <2>3. CASE y = w
      <3>1. viewers'[y][c] = IF c \in S \ Broken THEN viewers[y][c] \cup {u}
                             ELSE viewers[y][c]
        BY <1>10, <2>3
      <3>2. x \in viewers[y][c] \/ (x = u /\ c \in S \ Broken)
        BY <3>1
      <3>3. QED
        BY <1>3, <2>1, <2>3, <3>2
    <2>4. CASE y \notin {old, w}
      BY <1>10, <2>1, <2>4
    <2>5. QED
      BY <2>2, <2>3, <2>4
  <1>13. NoStaleViewer'
    <2>1. ASSUME NEW y \in World, NEW c \in Chunk, NEW x \in viewers'[y][c]
          PROVE  x \in online' /\ world'[x] = y /\ c \in known'[x]
      <3>1. CASE x = u
        <4>1. y = w /\ c \in S \ Broken
          BY <1>12, <2>1, <3>1
        <4>2. world'[u] = w /\ known'[u] = known[u] \cup (S \ Broken)
          BY <1>2, <1>3, <1>6, <1>8 DEF IInv, TypeOK
        <4>3. QED
          BY <1>3, <3>1, <4>1, <4>2
      <3>2. CASE x # u
        <4>1. x \in viewers[y][c]
          BY <1>12, <2>1, <3>2
        <4>2. x \in online /\ world[x] = y /\ c \in known[x] /\ x \in User
          BY <1>3, <4>1 DEF IInv, NoStaleViewer
        <4>3. world'[x] = world[x] /\ known'[x] = known[x]
          BY <1>2, <1>8, <3>2, <4>2 DEF IInv, TypeOK
        <4>4. QED
          BY <1>3, <4>2, <4>3
      <3>3. QED
        BY <3>1, <3>2
    <2>2. QED
      BY <2>1 DEF NoStaleViewer
  <1>14. ViewedChunkLoaded'
    <2>1. ASSUME NEW y \in World, NEW c \in Chunk, NEW x \in viewers'[y][c]
          PROVE  c \in loaded'[y]
      <3>1. CASE x = u
        BY <1>11, <1>12, <2>1, <3>1
      <3>2. CASE x # u
        <4>1. x \in viewers[y][c]
          BY <1>12, <2>1, <3>2
        <4>2. c \in loaded[y]
          BY <4>1 DEF IInv, ViewedChunkLoaded
        <4>3. y = old => c \notin left
          BY <3>2, <4>1
        <4>4. QED
          BY <1>11, <4>2, <4>3
      <3>3. QED
        BY <3>1, <3>2
    <2>2. QED
      BY <2>1 DEF ViewedChunkLoaded
  <1>15. QED
    BY <1>3, <1>8, <1>9, <1>13, <1>14 DEF IInv, TypeOK

(* ~User erases the player from every chunk of its map. *)
LEMMA LogoutIInv == ASSUME IInv, NEW u \in User, Logout(u) PROVE IInv'
  <1> DEFINE n == [queue |-> {}, known |-> {}, removing |-> NoRemoval, client |-> {}]
  <1>1. /\ online' = online \ {u} /\ SetLists(u, n)
        /\ Register(u, world[u], {}, known[u]) /\ UNCHANGED <<world, pos, loaded>>
    BY DEF Logout
  <1>2. n \in ListsType /\ n.queue \cap n.known = {}
    BY DEF ListsType, NoRemoval
  <1> HIDE DEF n
  <1>3. /\ queue' \in [User -> SUBSET Chunk] /\ known' \in [User -> SUBSET Chunk]
        /\ removing' \in [User -> [Chunk -> Nat]] /\ client' \in [User -> SUBSET Chunk]
        /\ doubled' \in BOOLEAN /\ QueuedNotKnown'
        /\ known' = [known EXCEPT ![u] = n.known]
    BY <1>1, <1>2, SetListsTyped DEF IInv
  <1>4. /\ viewers \in [World -> [Chunk -> SUBSET User]] /\ world[u] \in World
        /\ known \in [User -> SUBSET Chunk]
        /\ viewers' \in [World -> [Chunk -> SUBSET User]]
    BY <1>1 DEF IInv, TypeOK, Register
  <1>5. \A y \in World, c \in Chunk :
          viewers'[y][c] = IF y = world[u] /\ c \in known[u]
                           THEN viewers[y][c] \ {u} ELSE viewers[y][c]
    BY <1>1, <1>4 DEF Register
  <1>6. \A y \in World, c \in Chunk : \A x \in viewers'[y][c] :
          x \in viewers[y][c] /\ x # u
    <2> SUFFICES ASSUME NEW y \in World, NEW c \in Chunk, NEW x \in viewers'[y][c]
                 PROVE  x \in viewers[y][c] /\ x # u
      OBVIOUS
    <2>1. u \in viewers[y][c] => y = world[u] /\ c \in known[u]
      BY DEF IInv, NoStaleViewer
    <2>2. CASE y = world[u] /\ c \in known[u]
      <3>1. viewers'[y][c] = viewers[y][c] \ {u}
        BY <1>5, <2>2
      <3>2. QED
        BY <3>1
    <2>3. CASE ~(y = world[u] /\ c \in known[u])
      <3>1. viewers'[y][c] = viewers[y][c]
        BY <1>5, <2>3
      <3>2. QED
        BY <2>1, <2>3, <3>1
    <2>4. QED
      BY <2>2, <2>3
  <1>7. NoStaleViewer'
    <2>1. ASSUME NEW y \in World, NEW c \in Chunk, NEW x \in viewers'[y][c]
          PROVE  x \in online' /\ world'[x] = y /\ c \in known'[x]
      <3>1. x \in viewers[y][c] /\ x # u
        BY <1>6, <2>1
      <3>2. x \in online /\ world[x] = y /\ c \in known[x] /\ x \in User
        BY <1>4, <3>1 DEF IInv, NoStaleViewer
      <3>3. known'[x] = known[x]
        BY <1>3, <1>4, <3>1, <3>2
      <3>4. QED
        BY <1>1, <3>1, <3>2, <3>3
    <2>2. QED
      BY <2>1 DEF NoStaleViewer
  <1>8. ViewedChunkLoaded'
    BY <1>1, <1>6 DEF IInv, ViewedChunkLoaded
  <1>9. QED
    BY <1>1, <1>3, <1>4, <1>7, <1>8 DEF IInv, TypeOK

(* Only chunks without viewers are released. *)
LEMMA ReleaseIInv ==
    ASSUME IInv, NEW w \in World, NEW d \in Chunk, Release(w, d)
    PROVE  IInv'
  <1>1. /\ viewers[w][d] = {} /\ loaded' = [loaded EXCEPT ![w] = @ \ {d}]
        /\ UNCHANGED <<player, lists, viewers, doubled>>
    BY DEF Release
  <1>2. TypeOK'
    BY <1>1 DEF IInv, TypeOK, player, lists
  <1>3. QueuedNotKnown' /\ NoStaleViewer'
    BY <1>1 DEF IInv, QueuedNotKnown, NoStaleViewer, player, lists
  <1>4. ViewedChunkLoaded'
    BY <1>1 DEF IInv, TypeOK, ViewedChunkLoaded
  <1>5. QED
    BY <1>2, <1>3, <1>4 DEF IInv

(* The cases together. *)
LEMMA NextIInv == ASSUME IteratorSurvives, IInv, [Next]_vars PROVE IInv'
  <1>1. CASE UNCHANGED vars
    BY <1>1 DEF IInv, TypeOK, QueuedNotKnown, NoStaleViewer, ViewedChunkLoaded,
                vars, player, lists, chunks
  <1>2. CASE \E u \in User : Login(u)
    BY <1>2, LoginIInv
  <1>3. CASE \E u \in User : Walk(u)
    BY <1>3, WalkIInv
  <1>4. CASE \E u \in User : Teleport(u)
    BY <1>4, TeleportIInv
  <1>5. CASE \E u \in User : ChangeWorld(u)
    BY <1>5, ChangeWorldIInv
  <1>6. CASE \E u \in User : Serve(u)
    BY <1>6, ServeIInv
  <1>7. CASE \E u \in User : Logout(u)
    BY <1>7, LogoutIInv
  <1>8. CASE \E w \in World, c \in Chunk : Release(w, c)
    BY <1>8, ReleaseIInv
  <1>9. QED
    BY <1>1, <1>2, <1>3, <1>4, <1>5, <1>6, <1>7, <1>8 DEF Next

(* The invariant holds all the time. *)
LEMMA Invariance == IteratorSurvives => (Spec => []IInv)
  <1> SUFFICES ASSUME IteratorSurvives PROVE Spec => []IInv
    OBVIOUS
  <1>1. IInv /\ [Next]_vars => IInv'
    BY NextIInv
  <1>2. QED
    BY InitIInv, <1>1, PTL DEF Spec

(* The lists and the registrations of the players keep their types. *)
THEOREM TypeCorrect == IteratorSurvives => (Spec => []TypeOK)
  <1>1. IInv => TypeOK
    BY DEF IInv
  <1>2. QED
    BY Invariance, <1>1, PTL

(* No chunk keeps a pointer to a player that logged out or changed world, for
   any number of players, worlds and chunks and any view distance, if the
   loop of updatePosM outlives the chunks it releases.                       *)
THEOREM NoPointerLeft == IteratorSurvives => (Spec => []NoStaleViewer)
  <1>1. IInv => NoStaleViewer
    BY DEF IInv
  <1>2. QED
    BY Invariance, <1>1, PTL

(* releaseMap, in timed_10s and in updatePosM, never unloads a chunk that is
   in view of somebody.                                                      *)
THEOREM ViewedStaysLoaded == IteratorSurvives => (Spec => []ViewedChunkLoaded)
  <1>1. IInv => ViewedChunkLoaded
    BY DEF IInv
  <1>2. QED
    BY Invariance, <1>1, PTL

(* pushMap never sends a chunk the client has. *)
THEOREM SentOnce == IteratorSurvives => (Spec => []QueuedNotKnown)
  <1>1. IInv => QueuedNotKnown
    BY DEF IInv
  <1>2. QED
    BY Invariance, <1>1, PTL

-----------------------------------------------------------------------------
(* What one player sees.  As long as nobody changes world the position only
   moves with the queues, and the lists v of a player in chunk p keep close to
   the square around p.                                                     *)

\* What is queued lies in the square.
Near(v, p) == v.queue \subseteq Square(p)

\* What is known beyond the square is about to be unloaded.
Far(v, p) == \A c \in v.known \ Square(p) : v.removing[c] > 0

\* What is in view is known or queued, and stays.
Complete(v, p) ==
    \A c \in Chunk \ Broken :
        InView(c, p) => c \in v.known \cup v.queue /\ v.removing[c] = 0

\* No chunk is in the removal queue twice.
Single(v) == \A c \in Chunk : v.removing[c] <= 1

Sees(v, p, d) == Near(v, p) /\ Far(v, p) /\ (~d => Complete(v, p) /\ Single(v))

NoLists(v) == v.queue = {} /\ v.known = {} /\ v.removing = NoRemoval

ViewInv ==
    /\ IInv
    /\ \A u \in User : IF u \in online THEN Sees(Lists(u), pos[u], doubled)
                       ELSE NoLists(Lists(u))

(* The view is inside the square the loops walk. *)
LEMMA ViewInSquare ==
    ASSUME NEW c \in Chunk, NEW p \in Chunk, InView(c, p)
    PROVE  c \in Square(p)
  <1>1. c[1] \in Int /\ c[2] \in Int /\ p[1] \in Int /\ p[2] \in Int
    BY ViewAssumption
  <1>2. QED
    BY <1>1, ViewAssumption DEF InView, Square, Distance

(* What crossing a border leaves in the removal queue: out of view and known
   or queued, one more entry; entering the square, one less.                *)
LEMMA UpdatePosSees ==
    ASSUME NEW v \in ListsType, NEW p \in Chunk, NEW q \in Chunk, NEW d \in BOOLEAN,
           Sees(v, p, d)
    PROVE  LET n == UpdatePos(v, p, q)
           IN Sees(n, q, d \/ \E c \in Chunk : n.removing[c] > 1)
  <1> DEFINE n == UpdatePos(v, p, q)
             m == AddRemoveQueue(v, q)
             S == {c \in Square(q) : ~InView(c, p)}
  <1>1. S \in SUBSET Chunk /\ S \subseteq Square(q)
    BY DEF Square
  <1>2. /\ m \in ListsType /\ m.known = v.known
        /\ m.queue = {c \in v.queue : InView(c, q)}
        /\ \A c \in Chunk :
             m.removing[c] = v.removing[c]
                 + (IF c \in v.known /\ ~InView(c, q) THEN 1 ELSE 0)
                 + (IF c \in v.queue /\ ~InView(c, q) THEN 1 ELSE 0)
    BY AddRemoveQueueLists DEF AddRemoveQueue, ListsType
  <1>3. /\ n \in ListsType /\ n.known = m.known
        /\ n.queue = m.queue \cup (S \ m.known)
        /\ \A c \in Chunk :
             n.removing[c] = IF c \in S /\ m.removing[c] > 0 THEN m.removing[c] - 1
                             ELSE m.removing[c]
    <2>1. n = AddQueue(m, S)
      BY DEF UpdatePos
    <2>2. /\ n \in ListsType /\ n.known = m.known
          /\ n.queue = m.queue \cup (S \ m.known)
      BY <1>1, <1>2, <2>1, AddQueueLists
    <2>3. n.removing = [c \in Chunk |-> IF c \in S /\ m.removing[c] > 0
                                        THEN m.removing[c] - 1 ELSE m.removing[c]]
      BY <1>2, <2>1 DEF AddQueue, ListsType
    <2>4. QED
      BY <2>2, <2>3
  <1>4. /\ v.known \subseteq Chunk /\ v.queue \subseteq Chunk
        /\ v.removing \in [Chunk -> Nat] /\ m.removing \in [Chunk -> Nat]
        /\ n.removing \in [Chunk -> Nat]
    BY <1>2, <1>3 DEF ListsType
  <1> HIDE DEF n, m
  <1>5. Near(n, q)
    BY <1>1, <1>2, <1>3, <1>4, ViewInSquare DEF Near
  <1>6. Far(n, q)
    <2> SUFFICES ASSUME NEW c \in n.known \ Square(q) PROVE n.removing[c] > 0
      BY DEF Far
    <2>1. c \in Chunk /\ c \in v.known /\ ~InView(c, q) /\ c \notin S
      BY <1>1, <1>2, <1>3, <1>4, ViewInSquare
    <2>2. n.removing[c] = m.removing[c] /\ v.removing[c] \in Nat
      BY <1>3, <1>4, <2>1
    <2>3. QED
      BY <1>2, <2>1, <2>2
  <1> DEFINE e == d \/ \E c \in Chunk : n.removing[c] > 1
  <1>7. ~e => Single(n)
    BY <1>4 DEF Single
  <1>8. ASSUME ~e PROVE Complete(n, q)
    <2> SUFFICES ASSUME NEW c \in Chunk \ Broken, InView(c, q)
                 PROVE  c \in n.known \cup n.queue /\ n.removing[c] = 0
      BY DEF Complete
    <2>1. m.removing[c] = v.removing[c] /\ v.removing[c] \in Nat
      BY <1>2, <1>4
    <2>2. CASE InView(c, p)
      <3>1. c \in v.known \cup v.queue /\ v.removing[c] = 0 /\ c \notin S
        BY <1>8, <2>2 DEF Sees, Complete
      <3>2. QED
        BY <1>2, <1>3, <2>1, <3>1
    <2>3. CASE ~InView(c, p)
      <3>1. c \in S
        BY <2>3, ViewInSquare
      <3>2. v.removing[c] <= 1
        BY <1>8 DEF Sees, Single
      <3>3. QED
        BY <1>2, <1>3, <2>1, <3>1, <3>2
    <2>4. QED
      BY <2>2, <2>3
  <1>9. QED
    BY <1>5, <1>6, <1>7, <1>8 DEF Sees, n

(* Sending queued chunks. *)
LEMMA PushMapSees ==
    ASSUME NEW v \in ListsType, NEW p \in Chunk, NEW d \in BOOLEAN, Sees(v, p, d),
           NEW S \in SUBSET v.queue
    PROVE  Sees(PushMap(v, S), p, d) /\ PushMap(v, S).removing = v.removing
  <1> DEFINE n == PushMap(v, S)
  <1>1. /\ n.queue = v.queue \ S /\ n.known = v.known \cup (S \ Broken)
        /\ n.removing = v.removing
    BY DEF PushMap, ListsType
  <1> HIDE DEF n
  <1>2. Near(n, p) /\ Far(n, p)
    BY <1>1 DEF Sees, Near, Far
  <1>3. ~d => Complete(n, p) /\ Single(n)
    BY <1>1 DEF Sees, Complete, Single
  <1>4. QED
    BY <1>1, <1>2, <1>3 DEF Sees, n

(* Unloading what is in the removal queue. *)
LEMMA PopMapSees ==
    ASSUME NEW v \in ListsType, NEW p \in Chunk, NEW d \in BOOLEAN, Sees(v, p, d)
    PROVE  Sees(PopMap(v), p, d) /\ \A c \in Chunk : PopMap(v).removing[c] = 0
  <1> DEFINE n == PopMap(v)
             out == {c \in Chunk : v.removing[c] > 0}
  <1>1. n.queue = v.queue /\ n.known = v.known \ out /\ n.removing = NoRemoval
    BY DEF PopMap, ListsType
  <1>2. \A c \in Chunk : n.removing[c] = 0
    BY <1>1 DEF NoRemoval
  <1>3. v.known \subseteq Chunk /\ v.removing \in [Chunk -> Nat]
    BY DEF ListsType
  <1> HIDE DEF n
  <1>4. Near(n, p)
    BY <1>1 DEF Sees, Near
  <1>5. Far(n, p)
    BY <1>1, <1>3 DEF Sees, Far
  <1>6. ~d => Complete(n, p) /\ Single(n)
    BY <1>1, <1>2 DEF Sees, Complete, Single
  <1>7. QED
    BY <1>2, <1>4, <1>5, <1>6 DEF Sees, n

(* The square queued at a login, when the lists are empty. *)
LEMMA FirstSees ==
    ASSUME NEW v \in ListsType, NEW p \in Chunk, NEW d \in BOOLEAN, NoLists(v)
    PROVE  Sees(AddQueue(v, Square(p)), p, d)
           /\ \A c \in Chunk : AddQueue(v, Square(p)).removing[c] = 0
  <1> DEFINE n == AddQueue(v, Square(p))
  <1>1. n.queue = Square(p) /\ n.known = {}
    BY DEF AddQueue, ListsType, NoLists
  <1>2. \A c \in Chunk : n.removing[c] = 0
    BY DEF AddQueue, ListsType, NoLists, NoRemoval
  <1> HIDE DEF n
  <1>3. Near(n, p) /\ Far(n, p) /\ Complete(n, p) /\ Single(n)
    BY <1>1, <1>2, ViewInSquare DEF Near, Far, Complete, Single
  <1>4. QED
    BY <1>2, <1>3 DEF Sees, n

(* Changing one player's lists leaves the others as they are. *)
LEMMA OthersSee ==
    ASSUME ViewInv, NEW u \in User, NEW n \in ListsType, SetLists(u, n),
           \A x \in User \ {u} : pos'[x] = pos[x] /\ (x \in online' <=> x \in online),
           IF u \in online' THEN Sees(n, pos'[u], doubled') ELSE NoLists(n)
    PROVE  \A x \in User : IF x \in online' THEN Sees(Lists(x)', pos'[x], doubled')
                           ELSE NoLists(Lists(x)')
  <1>1. /\ queue \in [User -> SUBSET Chunk] /\ known \in [User -> SUBSET Chunk]
        /\ removing \in [User -> [Chunk -> Nat]] /\ client \in [User -> SUBSET Chunk]
        /\ doubled \in BOOLEAN
    BY DEF ViewInv, IInv, TypeOK
  <1>2. doubled => doubled'
    BY DEF SetLists
  <1>3. Lists(u)' = n
    BY <1>1 DEF SetLists, Lists, ListsType
  <1>4. \A x \in User \ {u} : Lists(x)' = Lists(x)
    BY <1>1 DEF SetLists, Lists
  <1>5. ASSUME NEW x \in User \ {u}
        PROVE  IF x \in online' THEN Sees(Lists(x)', pos'[x], doubled')
               ELSE NoLists(Lists(x)')
    <2>1. IF x \in online THEN Sees(Lists(x), pos[x], doubled) ELSE NoLists(Lists(x))
      BY DEF ViewInv
    <2>2. Sees(Lists(x), pos[x], doubled) => Sees(Lists(x), pos[x], doubled')
      BY <1>2 DEF Sees
    <2>3. QED
      BY <1>4, <2>1, <2>2
  <1>6. QED
    BY <1>3, <1>5

(* Around a new player everything is queued or sent. *)
LEMMA LoginSees == ASSUME ViewInv, NEW u \in User, Login(u) PROVE ViewInv'
  <1>0. PICK p \in Chunk : \E S \in Nearest(AddQueue(Lists(u), Square(p)).queue, p, 4 * PushCount) :
          /\ pos' = [pos EXCEPT ![u] = p]
          /\ SetLists(u, PushMap(AddQueue(Lists(u), Square(p)), S))
    BY DEF Login
  <1> DEFINE v == AddQueue(Lists(u), Square(p))
  <1>1. PICK S \in Nearest(v.queue, p, 4 * PushCount) :
          pos' = [pos EXCEPT ![u] = p] /\ SetLists(u, PushMap(v, S))
    BY <1>0
  <1> DEFINE n == PushMap(v, S)
  <1>2. /\ u \notin online /\ online' = online \cup {u} /\ pos' = [pos EXCEPT ![u] = p]
        /\ pos \in [User -> Chunk] /\ doubled \in BOOLEAN /\ SetLists(u, n)
    BY <1>1 DEF Login, ViewInv, IInv, TypeOK
  <1>3. Lists(u) \in ListsType /\ NoLists(Lists(u)) /\ Square(p) \in SUBSET Chunk
    BY <1>2, ListsOfPlayer DEF ViewInv, IInv, Square
  <1>4. v \in ListsType /\ v.queue \cap v.known = {}
    BY <1>3, AddQueueLists DEF NoLists
  <1>5. Sees(v, p, doubled) /\ \A c \in Chunk : v.removing[c] = 0
    BY <1>2, <1>3, FirstSees
  <1>6. S \in SUBSET v.queue
    BY NearestSubset
  <1> HIDE DEF v
  <1>7. n \in ListsType
    BY <1>4, <1>6, PushMapLists
  <1>8. Sees(n, p, doubled) /\ n.removing = v.removing
    BY <1>2, <1>4, <1>5, <1>6, PushMapSees
  <1> HIDE DEF n
  <1>9. doubled' = doubled
    BY <1>2, <1>5, <1>8 DEF SetLists
  <1>10. Sees(n, pos'[u], doubled')
    BY <1>2, <1>8, <1>9
  <1>11. \A x \in User : IF x \in online' THEN Sees(Lists(x)', pos'[x], doubled')
                         ELSE NoLists(Lists(x)')
    BY <1>2, <1>7, <1>10, OthersSee
  <1>12. IInv'
    BY LoginIInv DEF ViewInv
  <1>13. QED
    BY <1>11, <1>12 DEF ViewInv

(* Walking and the walk that starts a teleport: the lists when the player has
   come from its chunk to p.                                                 *)
LEMMA MovedSees ==
    ASSUME ViewInv, NEW u \in online, NEW p \in Chunk
    PROVE  LET n == UpdatePos(Lists(u), pos[u], p)
           IN /\ n \in ListsType /\ n.queue \cap n.known = {}
              /\ Sees(n, p, doubled \/ \E c \in Chunk : n.removing[c] > 1)
  <1>1. /\ u \in User /\ pos[u] \in Chunk /\ doubled \in BOOLEAN /\ TypeOK
        /\ Sees(Lists(u), pos[u], doubled)
    BY DEF ViewInv, IInv, TypeOK
  <1>2. Lists(u) \in ListsType /\ Lists(u).queue \cap Lists(u).known = {}
    BY <1>1, ListsOfPlayer DEF ViewInv, IInv, QueuedNotKnown
  <1>3. QED
    BY <1>1, <1>2, UpdatePosLists, UpdatePosSees

(* Who walks gets queued what comes into view, and marked what leaves it. *)
LEMMA WalkSees == ASSUME ViewInv, NEW u \in User, Walk(u) PROVE ViewInv'
  <1>1. PICK p \in Chunk : /\ SetLists(u, UpdatePos(Lists(u), pos[u], p))
                           /\ pos' = [pos EXCEPT ![u] = p]
    BY DEF Walk
  <1> DEFINE n == UpdatePos(Lists(u), pos[u], p)
  <1>2. u \in online /\ online' = online /\ pos \in [User -> Chunk]
    BY DEF Walk, ViewInv, IInv, TypeOK
  <1>3. /\ n \in ListsType
        /\ Sees(n, p, doubled \/ \E c \in Chunk : n.removing[c] > 1)
    BY <1>2, MovedSees
  <1>4. SetLists(u, n)
    BY <1>1
  <1> HIDE DEF n
  <1>5. doubled' = (doubled \/ \E c \in Chunk : n.removing[c] > 1)
    BY <1>4 DEF SetLists
  <1>6. Sees(n, pos'[u], doubled')
    BY <1>1, <1>2, <1>3, <1>5
  <1>7. \A x \in User : IF x \in online' THEN Sees(Lists(x)', pos'[x], doubled')
                        ELSE NoLists(Lists(x)')
    BY <1>1, <1>2, <1>3, <1>4, <1>6, OthersSee
  <1>8. IInv'
    BY WalkIInv DEF ViewInv
  <1>9. QED
    BY <1>7, <1>8 DEF ViewInv

(* A teleport does the same over any distance. *)
LEMMA TeleportSees == ASSUME ViewInv, NEW u \in User, Teleport(u) PROVE ViewInv'
  <1>0. PICK p \in Chunk :
          \E S \in Nearest(UpdatePos(Lists(u), pos[u], p).queue, p, 3 * PushCount) :
            /\ SetLists(u, PushMap(UpdatePos(Lists(u), pos[u], p), S))
            /\ pos' = [pos EXCEPT ![u] = p]
    BY DEF Teleport
  <1> DEFINE v == UpdatePos(Lists(u), pos[u], p)
  <1>1. PICK S \in Nearest(v.queue, p, 3 * PushCount) :
          SetLists(u, PushMap(v, S)) /\ pos' = [pos EXCEPT ![u] = p]
    BY <1>0
  <1> DEFINE n == PushMap(v, S)
             d == doubled \/ \E c \in Chunk : v.removing[c] > 1
  <1>2. u \in online /\ online' = online /\ pos \in [User -> Chunk]
    BY DEF Teleport, ViewInv, IInv, TypeOK
  <1>3. v \in ListsType /\ v.queue \cap v.known = {} /\ Sees(v, p, d)
    BY <1>2, MovedSees
  <1>4. SetLists(u, n) /\ S \in SUBSET v.queue
    BY <1>1, NearestSubset
  <1>5. d \in BOOLEAN
    BY DEF ViewInv, IInv, TypeOK
  <1> HIDE DEF v, d
  <1>6. n \in ListsType /\ n.removing = v.removing
    BY <1>3, <1>4, PushMapLists
  <1>7. Sees(n, p, d)
    BY <1>3, <1>4, <1>5, PushMapSees
  <1> HIDE DEF n
  <1>8. doubled' = d
    BY <1>4, <1>6 DEF SetLists, d
  <1>9. Sees(n, pos'[u], doubled')
    BY <1>1, <1>2, <1>7, <1>8
  <1>10. \A x \in User : IF x \in online' THEN Sees(Lists(x)', pos'[x], doubled')
                         ELSE NoLists(Lists(x)')
    BY <1>1, <1>2, <1>4, <1>6, <1>9, OthersSee
  <1>11. IInv'
    BY TeleportIInv DEF ViewInv
  <1>12. QED
    BY <1>10, <1>11 DEF ViewInv

(* The timer moves chunks from the queue to the known ones, and drops the marked. *)
LEMMA ServeSees == ASSUME ViewInv, NEW u \in User, Serve(u) PROVE ViewInv'
  <1>1. PICK S \in Nearest(queue[u], pos[u], PushCount) :
          SetLists(u, PopMap(PushMap(Lists(u), S)))
    BY DEF Serve
  <1> DEFINE v == PushMap(Lists(u), S)
             n == PopMap(v)
  <1>2. /\ u \in online /\ online' = online /\ pos' = pos
        /\ pos \in [User -> Chunk] /\ doubled \in BOOLEAN
    BY DEF Serve, player, ViewInv, IInv, TypeOK
  <1>3. /\ Lists(u) \in ListsType /\ Sees(Lists(u), pos[u], doubled)
        /\ Lists(u).queue \cap Lists(u).known = {} /\ S \in SUBSET Lists(u).queue
    BY <1>2, ListsOfPlayer, NearestSubset DEF ViewInv, IInv, QueuedNotKnown
  <1>4. v \in ListsType /\ v.queue \cap v.known = {}
    BY <1>3, PushMapLists
  <1>5. Sees(v, pos[u], doubled)
    BY <1>2, <1>3, PushMapSees
  <1> HIDE DEF v
  <1>6. n \in ListsType
    BY <1>4, PopMapLists
  <1>7. Sees(n, pos[u], doubled) /\ \A c \in Chunk : n.removing[c] = 0
    BY <1>2, <1>4, <1>5, PopMapSees
  <1>8. SetLists(u, n)
    BY <1>1 DEF v
  <1> HIDE DEF n
  <1>9. doubled' = doubled
    BY <1>2, <1>7, <1>8 DEF SetLists
  <1>10. \A x \in User : IF x \in online' THEN Sees(Lists(x)', pos'[x], doubled')
                         ELSE NoLists(Lists(x)')
    BY <1>2, <1>6, <1>7, <1>8, <1>9, OthersSee
  <1>11. IInv'
    BY ServeIInv DEF ViewInv
  <1>12. QED
    BY <1>10, <1>11 DEF ViewInv

(* Who is gone has no lists. *)
LEMMA LogoutSees == ASSUME ViewInv, NEW u \in User, Logout(u) PROVE ViewInv'
  <1> DEFINE n == [queue |-> {}, known |-> {}, removing |-> NoRemoval, client |-> {}]
  <1>1. n \in ListsType /\ NoLists(n)
    BY DEF ListsType, NoLists, NoRemoval
  <1>2. online' = online \ {u} /\ pos' = pos /\ SetLists(u, n)
    BY DEF Logout
  <1> HIDE DEF n
  <1>3. \A x \in User : IF x \in online' THEN Sees(Lists(x)', pos'[x], doubled')
                        ELSE NoLists(Lists(x)')
    BY <1>1, <1>2, OthersSee
  <1>4. IInv'
    BY LogoutIInv DEF ViewInv
  <1>5. QED
    BY <1>3, <1>4 DEF ViewInv

(* One world: no step but these changes a player's position or lists. *)
LEMMA NextSees == ASSUME World = {Start}, ViewInv, [Next]_vars PROVE ViewInv'
  <1>1. ASSUME UNCHANGED <<online, pos, lists, doubled>>, IInv' PROVE ViewInv'
    BY <1>1 DEF ViewInv, lists, Lists
  <1>2. CASE UNCHANGED vars
    <2>1. IInv'
      BY <1>2 DEF ViewInv, IInv, TypeOK, QueuedNotKnown, NoStaleViewer,
                  ViewedChunkLoaded, vars, player, lists, chunks
    <2>2. QED
      BY <1>1, <1>2, <2>1 DEF vars, player
  <1>3. CASE \E u \in User : Login(u)
    BY <1>3, LoginSees
  <1>4. CASE \E u \in User : Walk(u)
    BY <1>4, WalkSees
  <1>5. CASE \E u \in User : Teleport(u)
    BY <1>5, TeleportSees
  <1>6. CASE \E u \in User : ChangeWorld(u)
    <2>1. PICK u \in User : ChangeWorld(u)
      BY <1>6
    <2>2. world[u] = Start
      BY DEF ViewInv, IInv, TypeOK
    <2>3. World \ {world[u]} # {}
      BY <2>1 DEF ChangeWorld
    <2>4. QED
      BY <2>2, <2>3
  <1>7. CASE \E u \in User : Serve(u)
    BY <1>7, ServeSees
  <1>8. CASE \E u \in User : Logout(u)
    BY <1>8, LogoutSees
  <1>9. CASE \E w \in World, c \in Chunk : Release(w, c)
    <2>1. IInv'
      BY <1>9, ReleaseIInv DEF ViewInv
    <2>2. UNCHANGED <<online, pos, lists, doubled>>
      BY <1>9 DEF Release, player
    <2>3. QED
      BY <1>1, <2>1, <2>2
  <1>10. QED
    BY <1>2, <1>3, <1>4, <1>5, <1>6, <1>7, <1>8, <1>9 DEF Next

(* The strengthened invariant holds all the time, in one map. *)
LEMMA ViewInvariance == World = {Start} => (Spec => []ViewInv)
  <1> SUFFICES ASSUME World = {Start} PROVE Spec => []ViewInv
    OBVIOUS
  <1>1. Init => ViewInv
    BY InitIInv DEF Init, ViewInv, Lists, NoLists
  <1>2. ViewInv /\ [Next]_vars => ViewInv'
    BY NextSees
  <1>3. QED
    BY <1>1, <1>2, PTL DEF Spec

(* On a server with one map, whatever a player walks and teleports, the chunks
   in its view are sent or queued and stay, as long as updatePos has queued no
   chunk for removal twice.                                                   *)
THEOREM ViewStaysComplete == World = {Start} => (Spec => []ViewComplete)
  <1>1. ViewInv => ViewComplete
    BY DEF ViewInv, ViewComplete, Sees, Complete, Lists, IInv, TypeOK
  <1>2. QED
    BY ViewInvariance, <1>1, PTL

(* On a server with one map no client keeps a chunk beyond the square around
   it, unless it is in the removal queue that the next popMap empties.       *)
THEOREM FarIsUnloaded == World = {Start} => (Spec => []FarChunkUnloaded)
  <1>1. ViewInv => FarChunkUnloaded
    BY DEF ViewInv, FarChunkUnloaded, Sees, Far, Lists, IInv, TypeOK
  <1>2. QED
    BY ViewInvariance, <1>1, PTL
=============================================================================
