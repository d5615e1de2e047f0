---------------------------- MODULE SessionProofs ----------------------------
(* Theorems about Session, for every number of addresses, worker threads,
   connections and validations, and for every user limit.                   *)
EXTENDS Session, NumberFacts

-----------------------------------------------------------------------------
(* The inductive invariant *)

Result == [valid : BOOLEAN, uid : Nat]

SessionTypes ==
    /\ users \subseteq Addr
    /\ uid \in [Addr -> Nat]
    /\ gameState \in [Addr -> Nat]
    /\ logged \in [Addr -> BOOLEAN]
    /\ deleting \in [Addr -> BOOLEAN]
    /\ reading \subseteq Addr /\ writing \subseteq Addr
    /\ toRemove \subseteq Addr
    /\ phase \in {"loop", "remove", "validate"}
    /\ cursor \in Addr \cup {0}
    /\ lastUid \in Nat
    /\ issued \in Nat /\ queue \in Seq(Nat)
    /\ held \in [Worker -> Nat \cup {None}]
    /\ taskUser \in Seq(Addr) /\ taskUid \in Seq(Nat)
    /\ validated \in Seq(Result)
    /\ dangling \in BOOLEAN

\* No two users have one UID, and every UID was handed out.
UidsDistinct ==
    /\ \A a \in users : uid[a] \in 1 .. lastUid
    /\ \A a, b \in users : uid[a] = uid[b] => a = b

\* The pool knows no task that was not submitted; each has its user.
TasksKnown ==
    /\ Len(taskUser) = issued /\ Len(taskUid) = issued
    /\ \A i \in 1 .. Len(queue) : queue[i] < issued
    /\ \A w \in Worker : held[w] # None => held[w] < issued
    /\ \A i \in 1 .. issued : taskUid[i] \in 1 .. lastUid

\* While no worker has touched a freed user: a result that says that a player is
\* valid carries the UID of a connection that was confirmed.
ResultsGenuine ==
    ~dangling => \A i \in 1 .. Len(validated) :
        validated[i].valid => validated[i].uid \in genuine

\* Who asked, and so who was confirmed, is past the handshake.
AskersPastHandshake ==
    /\ genuine \subseteq 1 .. lastUid
    /\ \A a \in users :
        \/ gameState[a] > 0
        \/ uid[a] \notin genuine /\ \A i \in 1 .. issued : taskUid[i] # uid[a]

IInv ==
    /\ SessionTypes
    /\ UidsDistinct
    /\ TasksKnown
    /\ ResultsGenuine
    /\ AskersPastHandshake
    /\ NoDoubleDelete
    /\ ConnectionListens
    /\ GenuineLogin
    /\ LimitRespected

-----------------------------------------------------------------------------
(* Lemmas about the operators *)

(* The variables that hold the events and the removals of connections. *)
EventTypes ==
    /\ deleting \in [Addr -> BOOLEAN]
    /\ reading \subseteq Addr /\ writing \subseteq Addr
    /\ toRemove \subseteq Addr

(* What writing to some of the users does: nobody is forgotten. *)
LEMMA WriteEffect ==
    ASSUME SessionTypes, NEW S \in SUBSET users, NEW out \in [S -> Outcome],
           Write(S, out)
    PROVE  /\ deleting' \in [Addr -> BOOLEAN]
           /\ writing' \subseteq Addr /\ toRemove' \subseteq Addr
           /\ writing \subseteq writing'
           /\ toRemove \subseteq toRemove' /\ toRemove' \subseteq toRemove \cup S
           /\ \A a \in Addr : deleting[a] => deleting'[a]
           /\ \A a \in S : deleting[a] \/ out[a] # "error" => deleting'[a] = deleting[a]
           /\ \A a \in S : out[a] = "error" => deleting'[a]
           /\ \A a \in S : ~deleting[a] /\ out[a] = "partial" => a \in writing'
  BY DEF SessionTypes, Write

(* The users that are visited ahead of others have the lowest address. *)
LEMMA MinAhead ==
    ASSUME SessionTypes, Ahead # {}
    PROVE  Min(Ahead) \in toRemove /\ Min(Ahead) \in Nat /\ Min(Ahead) > cursor
  <1>1. Ahead \in SUBSET Nat
    BY SessionAssumption DEF SessionTypes, Ahead
  <1>2. PICK m \in Ahead : \A n \in Ahead : m <= n
    <2> HIDE DEF Ahead
    <2>1. QED
      BY <1>1, LeastNatural
  <1>3. Min(Ahead) \in Ahead
    BY <1>2 DEF Min
  <1>4. QED
    BY <1>1, <1>3 DEF Ahead

-----------------------------------------------------------------------------
(* The invariant: what several actions have in common *)

(* Nobody is connected. *)
LEMMA InitIInv == Init => IInv
  <1> SUFFICES ASSUME Init PROVE IInv
    OBVIOUS
  <1> USE SessionAssumption DEF Init, Pool!Init
  <1>1. SessionTypes
    <2>1. /\ uid \in [Addr -> Nat] /\ gameState \in [Addr -> Nat]
          /\ logged \in [Addr -> BOOLEAN] /\ deleting \in [Addr -> BOOLEAN]
      OBVIOUS
    <2>2. /\ queue \in Seq(Nat) /\ held \in [Worker -> Nat \cup {None}]
          /\ taskUser \in Seq(Addr) /\ taskUid \in Seq(Nat)
          /\ validated \in Seq(Result)
      OBVIOUS
    <2>3. QED
      BY <2>1, <2>2 DEF SessionTypes
  <1>2. UidsDistinct /\ TasksKnown /\ ResultsGenuine /\ AskersPastHandshake
    BY DEF UidsDistinct, TasksKnown, ResultsGenuine, AskersPastHandshake
  <1>3. NoDoubleDelete /\ ConnectionListens /\ GenuineLogin
    BY DEF NoDoubleDelete, ConnectionListens, GenuineLogin
  <1>4. LimitRespected
    <2>1. {a \in users : gameState[a] > 0} = {}
      OBVIOUS
    <2>2. QED
      BY <2>1, FS_EmptySet DEF LimitRespected
  <1>5. QED
    BY <1>1, <1>2, <1>3, <1>4 DEF IInv

(* A step that neither makes, logs in nor validates users keeps who they are. *)
LEMMA PlayersKept ==
    ASSUME IInv,
           UNCHANGED <<users, uid, gameState, logged, lastUid, issued, queue, held,
                       task, validated, history>>
    PROVE  /\ UidsDistinct' /\ TasksKnown' /\ ResultsGenuine' /\ AskersPastHandshake'
           /\ GenuineLogin' /\ LimitRespected'
  BY DEF IInv, UidsDistinct, TasksKnown, ResultsGenuine, AskersPastHandshake,
         GenuineLogin, LimitRespected, task, history

(* The limit holds while nobody gets past the handshake. *)
LEMMA LimitKept ==
    ASSUME IInv, ~dangling' => ~dangling,
           {a \in users : gameState[a] > 0}' \subseteq {a \in users : gameState[a] > 0}
    PROVE  LimitRespected'
  <1> DEFINE players == {a \in users : gameState[a] > 0}
  <1>1. IsFiniteSet(players)
    BY SessionAssumption, FS_Subset DEF IInv, SessionTypes
  <1>2. Cardinality(players') <= Cardinality(players) /\ IsFiniteSet(players')
    BY <1>1, FS_Subset
  <1>3. Cardinality(players) \in Nat /\ Cardinality(players') \in Nat
    BY <1>1, <1>2, FS_CardinalityType
  <1>4. ~dangling => Cardinality(players) <= UserLimit
    BY DEF IInv, LimitRespected
  <1>5. UserLimit \in Nat
    BY SessionAssumption
  <1>6. QED
    BY <1>2, <1>3, <1>4, <1>5 DEF LimitRespected

(* Who is neither made, marked nor heard keeps what events it has. *)
LEMMA EventsKept ==
    ASSUME IInv, UNCHANGED <<users, deleting, event, toRemove, phase, cursor>>
    PROVE  NoDoubleDelete' /\ ConnectionListens'
  BY DEF IInv, NoDoubleDelete, ConnectionListens, event

(* A broadcast while all who are to be removed are known. *)
LEMMA WriteEvents ==
    ASSUME IInv, NEW S \in SUBSET users, NEW out \in [S -> Outcome], Write(S, out),
           UNCHANGED <<users, reading, phase, cursor>>
    PROVE  EventTypes' /\ NoDoubleDelete' /\ ConnectionListens'
  <1>1. SessionTypes
    BY DEF IInv
  <1>2. EventTypes'
    BY <1>1, WriteEffect DEF EventTypes, SessionTypes
  <1>3. NoDoubleDelete'
    BY <1>1, WriteEffect DEF IInv, NoDoubleDelete
  <1>4. ConnectionListens'
    BY <1>1, WriteEffect DEF IInv, ConnectionListens, SessionTypes
  <1>5. QED
    BY <1>2, <1>3, <1>4

(* The answer to a packet: the read event waits until it is written. *)
LEMMA AnswerEvents ==
    ASSUME IInv, NEW u \in Addr, Readable(u),
           \E out \in [{u} -> Outcome] : Write({u}, out) /\ Rearm(u, out),
           UNCHANGED <<users, phase, cursor>>
    PROVE  EventTypes' /\ NoDoubleDelete' /\ ConnectionListens'
  <1>1. PICK out \in [{u} -> Outcome] : Write({u}, out) /\ Rearm(u, out)
    OBVIOUS
  <1>2. SessionTypes /\ {u} \in SUBSET users /\ ~deleting[u]
    BY DEF IInv, Readable
  <1>3. out[u] \in {"sent", "partial", "error"}
    BY SessionAssumption
  <1>4. EventTypes'
    BY <1>1, <1>2, WriteEffect DEF EventTypes, SessionTypes, Rearm
  <1>5. NoDoubleDelete'
    BY ZenonT(60), <1>1, <1>2, WriteEffect DEF IInv, NoDoubleDelete
  <1>6. ConnectionListens'
    <2> SUFFICES ASSUME NEW a \in users, ~deleting'[a]
                 PROVE  a \in reading' \cup writing'
      BY DEF ConnectionListens
    <2>1. CASE a = u
      BY <1>1, <1>2, <1>3, <2>1, WriteEffect DEF Rearm, Readable
    <2>2. CASE a # u
      BY <1>1, <1>2, <2>2, WriteEffect DEF Rearm, IInv, ConnectionListens, SessionTypes
    <2>3. QED
      BY <2>1, <2>2
  <1>7. QED
    BY <1>4, <1>5, <1>6

-----------------------------------------------------------------------------
(* The invariant: one lemma for each action *)

(* A new connection gets a UID that no user, task or result has. *)
LEMMA AcceptIInv ==
    ASSUME IInv, NEW c \in Addr, Accept(c)
    PROVE  IInv'
  <1> USE DEF Accept
  <1>1. /\ c \in Addr \ users /\ lastUid \in Nat
        /\ \A a \in users : uid[a] \in 1 .. lastUid
    BY DEF IInv, SessionTypes, UidsDistinct
  <1>2. /\ uid' \in [Addr -> Nat] /\ gameState' \in [Addr -> Nat]
        /\ uid'[c] = lastUid + 1 /\ gameState'[c] = 0 /\ ~logged'[c] /\ ~deleting'[c]
        /\ \A a \in users : /\ uid'[a] = uid[a] /\ gameState'[a] = gameState[a]
                            /\ logged'[a] = logged[a] /\ deleting'[a] = deleting[a]
    <2>1. /\ users \subseteq Addr /\ uid \in [Addr -> Nat] /\ gameState \in [Addr -> Nat]
          /\ logged \in [Addr -> BOOLEAN] /\ deleting \in [Addr -> BOOLEAN]
      BY DEF IInv, SessionTypes
    <2>2. uid' = [uid EXCEPT ![c] = lastUid + 1] /\ gameState' = [gameState EXCEPT ![c] = 0]
      OBVIOUS
    <2>3. /\ logged' = [logged EXCEPT ![c] = FALSE]
          /\ deleting' = [deleting EXCEPT ![c] = FALSE]
      OBVIOUS
    <2> HIDE DEF Accept
    <2>4. /\ uid' \in [Addr -> Nat] /\ gameState' \in [Addr -> Nat]
          /\ uid'[c] = lastUid + 1 /\ gameState'[c] = 0
          /\ \A a \in users : uid'[a] = uid[a] /\ gameState'[a] = gameState[a]
      BY <1>1, <2>1, <2>2
    <2>5. /\ ~logged'[c] /\ ~deleting'[c]
          /\ \A a \in users : logged'[a] = logged[a] /\ deleting'[a] = deleting[a]
      BY <1>1, <2>1, <2>3
    <2>6. QED
      BY <2>4, <2>5
  <1>3. SessionTypes'
    BY <1>1, <1>2 DEF IInv, SessionTypes, sweep, pool, task, history
  <1>4. UidsDistinct'
    BY <1>1, <1>2 DEF IInv, UidsDistinct
  <1>5. TasksKnown' /\ ResultsGenuine'
    BY <1>1 DEF IInv, TasksKnown, ResultsGenuine, pool, task, history
  <1>6. AskersPastHandshake'
    <2>1. genuine' = genuine /\ issued' = issued /\ taskUid' = taskUid
      BY DEF pool, task, history
    <2>2. lastUid + 1 \notin genuine /\ \A i \in 1 .. issued : taskUid[i] # lastUid + 1
      BY <1>1 DEF IInv, AskersPastHandshake, TasksKnown
    <2>3. genuine \subseteq 1 .. lastUid'
      BY <1>1 DEF IInv, AskersPastHandshake
    <2>4. ASSUME NEW a \in users'
          PROVE  \/ gameState'[a] > 0
                 \/ uid'[a] \notin genuine /\ \A i \in 1 .. issued : taskUid[i] # uid'[a]
      BY <1>1, <1>2, <2>2 DEF IInv, AskersPastHandshake
    <2>5. QED
      BY <2>1, <2>3, <2>4 DEF AskersPastHandshake
  <1>7. NoDoubleDelete' /\ ConnectionListens'
    BY <1>1, <1>2 DEF IInv, NoDoubleDelete, ConnectionListens, sweep
  <1>8. GenuineLogin'
    BY <1>1, <1>2 DEF IInv, GenuineLogin, history
  <1>9. LimitRespected'
    <2>1. {a \in users : gameState[a] > 0}' \subseteq {a \in users : gameState[a] > 0}
      BY <1>2
    <2>2. QED
      BY <2>1, LimitKept DEF history
  <1>10. QED
    BY <1>3, <1>4, <1>5, <1>6, <1>7, <1>8, <1>9 DEF IInv

(* Nothing is read from a user that is being removed. *)
LEMMA DisconnectIInv ==
    ASSUME IInv, NEW u \in Addr, Disconnect(u)
    PROVE  IInv'
  <1> USE DEF Disconnect
  <1>1. SessionTypes'
    BY DEF IInv, SessionTypes, sweep, pool, task, history
  <1>2. NoDoubleDelete' /\ ConnectionListens'
    BY DEF IInv, SessionTypes, NoDoubleDelete, ConnectionListens, sweep, Readable
  <1>3. QED
    BY <1>1, <1>2, PlayersKept DEF IInv, pool

(* An incomplete packet leaves everything as it is. *)
LEMMA FragmentIInv ==
    ASSUME IInv, NEW u \in Addr, Fragment(u)
    PROVE  IInv'
  <1> USE DEF Fragment
  <1>1. SessionTypes'
    BY DEF IInv, SessionTypes, event, sweep, pool, task, history
  <1>2. QED
    BY <1>1, EventsKept, PlayersKept DEF IInv, pool, sweep

(* What was left to write is written: reading goes on. *)
LEMMA WritableIInv ==
    ASSUME IInv, NEW u \in Addr, Writable(u)
    PROVE  IInv'
  <1>1. PICK out \in [{u} -> Outcome] :
           /\ out[u] # "partial"
           /\ deleting' = [deleting EXCEPT ![u] = out[u] = "error"]
           /\ toRemove' = IF out[u] = "error" THEN toRemove \cup {u} ELSE toRemove
           /\ writing' = writing \ {u}
           /\ reading' = IF out[u] = "sent" THEN reading \cup {u} ELSE reading
    BY DEF Writable
  <1>2. out[u] \in {"sent", "error"}
    BY <1>1, SessionAssumption
  <1>3. /\ u \in users /\ u \in writing /\ phase = "loop" /\ ~deleting[u]
        /\ UNCHANGED <<users, uid, gameState, logged, idle, client, lastUid, sweep,
                       pool, task, validated, history>>
    BY DEF Writable
  <1>4. SessionTypes'
    BY <1>1, <1>3 DEF IInv, SessionTypes, sweep, pool, task, history
  <1>5. NoDoubleDelete' /\ ConnectionListens'
    <2>1. NoDoubleDelete'
      BY <1>1, <1>3 DEF IInv, NoDoubleDelete, sweep
    <2>2. ConnectionListens'
      <3> SUFFICES ASSUME NEW a \in users, ~deleting'[a]
                   PROVE  a \in reading' \cup writing'
        BY <1>3 DEF ConnectionListens
      <3>1. CASE a = u
        BY <1>1, <1>2, <3>1 DEF IInv, SessionTypes
      <3>2. CASE a # u
        BY <1>1, <1>3, <3>2 DEF IInv, SessionTypes, ConnectionListens
      <3>3. QED
        BY <3>1, <3>2
    <2>3. QED
      BY <2>1, <2>2
  <1>6. QED
    BY <1>3, <1>4, <1>5, PlayersKept DEF IInv, pool

(* What the handler of a login packet leaves alone, and what it may do. *)
LEMMA AnswerEffect ==
    ASSUME IInv, NEW u \in Addr, NEW n \in Nat, Answer(u, n)
    PROVE  /\ u \in users /\ EventTypes'
           /\ UNCHANGED <<users, uid, lastUid, phase, cursor, validated, genuine, dangling>>
           /\ NoDoubleDelete' /\ ConnectionListens'
  <1>1. /\ Readable(u) /\ \E out \in [{u} -> Outcome] : Write({u}, out) /\ Rearm(u, out)
        /\ UNCHANGED <<users, uid, lastUid, phase, cursor, validated, genuine, dangling>>
    BY DEF Answer, sweep
  <1>2. QED
    BY <1>1, AnswerEvents DEF Readable

(* Past the handshake are no more users than there are. *)
LEMMA HandshakeIInv ==
    ASSUME IInv, NEW u \in Addr, Handshake(u)
    PROVE  IInv'
  <1>1. /\ u \in users /\ EventTypes' /\ NoDoubleDelete' /\ ConnectionListens'
        /\ UNCHANGED <<users, uid, lastUid, phase, cursor, validated, genuine, dangling>>
        /\ UNCHANGED <<logged, issued, queue, held, taskUser, taskUid>>
    BY AnswerEffect DEF Handshake, pool, task
  <1>2. /\ gameState' \in [Addr -> Nat]
        /\ \A a \in users : gameState[a] > 0 => gameState'[a] > 0
        /\ \/ gameState' = gameState
           \/ Cardinality(users) <= UserLimit
    <2>1. gameState \in [Addr -> Nat] /\ gameState[u] = 0
      BY DEF Handshake, IInv, SessionTypes
    <2>2. \/ gameState' = gameState
          \/ /\ Cardinality(users) <= UserLimit
             /\ \E next \in {1, 2} : gameState' = [gameState EXCEPT ![u] = next]
      BY DEF Handshake
    <2>3. \A next \in {1, 2} :
             /\ [gameState EXCEPT ![u] = next] \in [Addr -> Nat]
             /\ \A a \in Addr : gameState[a] > 0 => [gameState EXCEPT ![u] = next][a] > 0
      BY <2>1
    <2>4. users \subseteq Addr
      BY DEF IInv, SessionTypes
    <2>5. QED
      BY <2>1, <2>2, <2>3, <2>4
  <1>3. SessionTypes'
    BY <1>1, <1>2 DEF IInv, SessionTypes, EventTypes
  <1>4. UidsDistinct' /\ TasksKnown' /\ ResultsGenuine' /\ GenuineLogin'
    BY <1>1 DEF IInv, UidsDistinct, TasksKnown, ResultsGenuine, GenuineLogin
  <1>5. AskersPastHandshake'
    BY <1>1, <1>2 DEF IInv, AskersPastHandshake
  <1>6. LimitRespected'
    <2>1. CASE gameState' = gameState
      BY <1>1, <2>1 DEF IInv, LimitRespected
    <2>2. CASE Cardinality(users) <= UserLimit
      <3>1. IsFiniteSet(users)
        BY SessionAssumption, FS_Subset DEF IInv, SessionTypes
      <3>2. {a \in users : gameState'[a] > 0} \in SUBSET users
        OBVIOUS
      <3>3. Cardinality({a \in users : gameState'[a] > 0}) <= Cardinality(users)
            /\ IsFiniteSet({a \in users : gameState'[a] > 0})
        BY <3>1, <3>2, FS_Subset
      <3>4. /\ Cardinality({a \in users : gameState'[a] > 0}) \in Nat
            /\ Cardinality(users) \in Nat
        BY <3>1, <3>3, FS_CardinalityType
      <3>5. QED
        BY <1>1, <2>2, <3>3, <3>4, SessionAssumption DEF LimitRespected
    <2>3. QED
      BY <1>2, <2>1, <2>2
  <1>7. QED
    BY <1>1, <1>3, <1>4, <1>5, <1>6 DEF IInv

(* A login request is answered or refused; nobody enters the game. *)
LEMMA LoginRequestIInv ==
    ASSUME IInv, NEW u \in Addr, LoginRequest(u)
    PROVE  IInv'
  <1>1. /\ EventTypes' /\ NoDoubleDelete' /\ ConnectionListens'
        /\ UNCHANGED <<users, uid, lastUid, phase, cursor, validated, genuine, dangling>>
        /\ UNCHANGED <<gameState, logged, issued, queue, held, taskUser, taskUid>>
    BY AnswerEffect DEF LoginRequest, pool, task
  <1>2. SessionTypes'
    BY <1>1 DEF IInv, SessionTypes, EventTypes
  <1>3. QED
    BY <1>1, <1>2, PlayersKept DEF IInv, task, history

(* Who asks is past the handshake. *)
LEMMA EncryptionResponseIInv ==
    ASSUME IInv, NEW u \in Addr, EncryptionResponse(u)
    PROVE  IInv'
  <1>1. /\ u \in users /\ EventTypes' /\ NoDoubleDelete' /\ ConnectionListens'
        /\ UNCHANGED <<users, uid, lastUid, phase, cursor, validated, genuine, dangling>>
        /\ UNCHANGED <<gameState, logged>>
        /\ gameState[u] > 0
    BY AnswerEffect DEF EncryptionResponse
  <1>2. CASE UNCHANGED <<pool, task>>
    <2>1. SessionTypes'
      BY <1>1, <1>2 DEF IInv, SessionTypes, EventTypes, pool, task
    <2>2. QED
      BY <1>1, <1>2, <2>1, PlayersKept DEF IInv, pool, history
  <1>3. CASE /\ Pool!Submit /\ taskUser' = Append(taskUser, u)
             /\ taskUid' = Append(taskUid, uid[u])
    <2>1. /\ issued' = issued + 1 /\ queue' = Append(queue, issued) /\ held' = held
          /\ taskUser' = Append(taskUser, u) /\ taskUid' = Append(taskUid, uid[u])
      BY <1>3 DEF Pool!Submit
    <2>2. /\ issued \in Nat /\ queue \in Seq(Nat) /\ taskUser \in Seq(Addr)
          /\ taskUid \in Seq(Nat) /\ uid[u] \in Nat /\ held \in [Worker -> Nat \cup {None}]
          /\ Len(taskUser) = issued /\ Len(taskUid) = issued
          /\ uid[u] \in 1 .. lastUid
      BY <1>1 DEF IInv, SessionTypes, TasksKnown, UidsDistinct
    <2>3. /\ issued' \in Nat /\ queue' \in Seq(Nat) /\ taskUser' \in Seq(Addr)
          /\ taskUid' \in Seq(Nat)
      BY <2>1, <2>2
    <2>4. SessionTypes'
      BY <1>1, <2>1, <2>3 DEF IInv, SessionTypes, EventTypes
    <2>5. /\ \A i \in 1 .. issued : taskUid'[i] = taskUid[i]
          /\ taskUid'[issued + 1] = uid[u]
      <3>1. \A s \in Seq(Nat), x \in Nat :
               /\ \A i \in 1 .. Len(s) : Append(s, x)[i] = s[i]
               /\ Append(s, x)[Len(s) + 1] = x
        OBVIOUS
      <3>2. QED
        BY <2>1, <2>2, <3>1
    <2>6. TasksKnown'
      <3>1. \A i \in 1 .. Len(queue') : queue'[i] < issued'
        <4> TAKE i \in 1 .. Len(queue')
        <4>1. CASE i \in 1 .. Len(queue)
          BY <2>1, <2>2, <4>1 DEF IInv, TasksKnown
        <4>2. CASE i = Len(queue) + 1
          BY <2>1, <2>2, <4>2
        <4>3. QED
          BY <2>1, <2>2, <4>1, <4>2
      <3>2. \A w \in Worker : held'[w] # None => held'[w] < issued'
        BY <2>1, <2>2 DEF IInv, TasksKnown
      <3>3. \A i \in 1 .. issued' : taskUid'[i] \in 1 .. lastUid'
        BY <1>1, <2>1, <2>2, <2>5 DEF IInv, TasksKnown
      <3>4. QED
        BY <2>1, <2>2, <3>1, <3>2, <3>3 DEF TasksKnown
    <2>7. AskersPastHandshake'
      <3>1. ASSUME NEW a \in users, gameState[a] = 0
            PROVE  uid[a] \notin genuine /\ \A i \in 1 .. issued' : taskUid'[i] # uid[a]
        <4>1. a # u /\ uid[a] # uid[u]
          BY <1>1, <3>1 DEF IInv, UidsDistinct
        <4>2. QED
          BY <2>1, <2>2, <2>5, <3>1, <4>1 DEF IInv, AskersPastHandshake, SessionTypes
      <3>2. \A a \in users : gameState[a] \in Nat
        BY DEF IInv, SessionTypes
      <3>3. QED
        BY <1>1, <3>1, <3>2 DEF IInv, AskersPastHandshake
    <2>8. UidsDistinct' /\ ResultsGenuine' /\ GenuineLogin' /\ LimitRespected'
      BY <1>1 DEF IInv, UidsDistinct, ResultsGenuine, GenuineLogin, LimitRespected
    <2>9. QED
      BY <1>1, <2>4, <2>6, <2>7, <2>8 DEF IInv
  <1>4. QED
    BY <1>2, <1>3 DEF EncryptionResponse

(* A packet of the game may be answered, or get its sender removed. *)
LEMMA PlayPacketIInv ==
    ASSUME IInv, NEW u \in Addr, PlayPacket(u)
    PROVE  IInv'
  <1> USE DEF PlayPacket
  <1>1. EventTypes' /\ NoDoubleDelete' /\ ConnectionListens'
    BY AnswerEvents DEF sweep
  <1>2. SessionTypes'
    BY <1>1 DEF IInv, SessionTypes, EventTypes, sweep, pool, task, history
  <1>3. QED
    BY <1>1, <1>2, PlayersKept DEF IInv, pool

(* A worker takes the task from the head of the queue. *)
LEMMA TakeIInv ==
    ASSUME IInv, NEW w \in Worker, Take(w)
    PROVE  IInv'
  <1>1. /\ queue # <<>> /\ held' = [held EXCEPT ![w] = Head(queue)] /\ queue' = Tail(queue)
        /\ issued' = issued
        /\ UNCHANGED <<object, event, toRemove, sweep, task, validated, history>>
    BY DEF Take, Pool!Take
  <1>2. /\ queue \in Seq(Nat) /\ held \in [Worker -> Nat \cup {None}] /\ issued \in Nat
        /\ \A i \in 1 .. Len(queue) : queue[i] < issued
    BY DEF IInv, SessionTypes, TasksKnown
  <1>3. /\ queue' \in Seq(Nat) /\ Head(queue) \in Nat /\ Head(queue) < issued
        /\ Len(queue') = Len(queue) - 1 /\ Len(queue) \in Nat
        /\ \A i \in 1 .. Len(queue') : queue'[i] = queue[i + 1]
    BY <1>1, <1>2
  <1>4. SessionTypes'
    BY <1>1, <1>2, <1>3 DEF IInv, SessionTypes, object, event, sweep, task, history
  <1>5. TasksKnown'
    <2>1. \A i \in 1 .. Len(queue') : queue'[i] < issued'
      BY <1>1, <1>2, <1>3
    <2>2. \A v \in Worker : held'[v] # None => held'[v] < issued'
      BY <1>1, <1>2, <1>3 DEF IInv, TasksKnown
    <2>3. QED
      BY <1>1, <2>1, <2>2 DEF IInv, TasksKnown, object, task
  <1>6. UidsDistinct' /\ ResultsGenuine' /\ AskersPastHandshake' /\ GenuineLogin' /\ LimitRespected'
    BY <1>1 DEF IInv, UidsDistinct, ResultsGenuine, AskersPastHandshake, GenuineLogin,
                LimitRespected, object, task, history
  <1>7. QED
    BY <1>1, <1>4, <1>5, <1>6, EventsKept DEF IInv, object, sweep

(* A result is about the connection that asked, if that is still the one the
   task points to; it then is past the handshake.                            *)
LEMMA ValidateIInv ==
    ASSUME IInv, NEW w \in Worker, Validate(w)
    PROVE  IInv'
  <1> DEFINE id == held[w]
             read(garbage) == IF UserOf(id) \in users THEN uid[UserOf(id)] ELSE garbage
  <1>1. /\ id # None
        /\ UNCHANGED <<object, event, toRemove, sweep, task>>
        /\ held' = [held EXCEPT ![w] = None] /\ UNCHANGED <<issued, queue>>
    BY DEF Validate, Pool!Handle
  <1>2. PICK valid \in BOOLEAN, garbage \in Garbage :
           /\ validated' = Append(validated,
                 [valid |-> valid, uid |-> IF valid THEN read(garbage) ELSE garbage])
           /\ genuine' = IF valid /\ Alive(id) THEN genuine \cup {UidOf(id)} ELSE genuine
           /\ dangling' = (dangling \/ ~Alive(id))
    BY DEF Validate
  <1>3. /\ id \in Nat /\ id < issued /\ issued \in Nat
        /\ id + 1 \in 1 .. issued
        /\ UserOf(id) \in Addr /\ UidOf(id) \in 1 .. lastUid /\ lastUid \in Nat
    BY SMTT(30), <1>1 DEF IInv, SessionTypes, TasksKnown, UserOf, UidOf
  <1>4. garbage \in Nat /\ read(garbage) \in Nat
    BY DEF IInv, SessionTypes, Garbage
  <1> DEFINE result == [valid |-> valid, uid |-> IF valid THEN read(garbage) ELSE garbage]
  <1>5. result \in Result
    BY <1>4 DEF Result
  <1> HIDE DEF read, id
  <1>6. /\ validated' \in Seq(Result) /\ Len(validated') = Len(validated) + 1
        /\ Len(validated) \in Nat
        /\ \A i \in 1 .. Len(validated) : validated'[i] = validated[i]
        /\ validated'[Len(validated) + 1] = result
    <2> HIDE DEF result
    <2>1. \A s \in Seq(Result), x \in Result :
             /\ Append(s, x) \in Seq(Result) /\ Len(Append(s, x)) = Len(s) + 1
             /\ Len(s) \in Nat
             /\ \A i \in 1 .. Len(s) : Append(s, x)[i] = s[i]
             /\ Append(s, x)[Len(s) + 1] = x
      OBVIOUS
    <2>2. validated \in Seq(Result) /\ validated' = Append(validated, result)
      BY <1>2 DEF IInv, SessionTypes, result
    <2>3. QED
      BY <1>5, <2>1, <2>2
  <1>7. SessionTypes'
    BY <1>1, <1>2, <1>6 DEF IInv, SessionTypes, object, event, sweep, task
  <1>8. TasksKnown' /\ UidsDistinct'
    <2>1. \A v \in Worker : held'[v] # None => held'[v] < issued'
      BY <1>1 DEF IInv, SessionTypes, TasksKnown
    <2>2. QED
      BY <1>1, <2>1 DEF IInv, TasksKnown, UidsDistinct, object, task
  <1>9. ResultsGenuine'
    <2> SUFFICES ASSUME ~dangling', NEW i \in 1 .. Len(validated'), validated'[i].valid
                 PROVE  validated'[i].uid \in genuine'
      BY DEF ResultsGenuine
    <2>1. ~dangling /\ Alive(id) /\ genuine \subseteq genuine'
      BY <1>2 DEF IInv, SessionTypes
    <2>2. CASE i \in 1 .. Len(validated)
      BY <1>6, <2>1, <2>2 DEF IInv, ResultsGenuine
    <2>3. CASE i = Len(validated) + 1
      <3>1. valid /\ result.uid = read(garbage)
        BY <1>6, <2>3
      <3>2. read(garbage) = UidOf(id)
        BY <2>1 DEF read, Alive, id
      <3>3. QED
        BY <1>2, <1>6, <2>1, <2>3, <3>1, <3>2
    <2>4. QED
      BY <1>6, <2>2, <2>3
  <1>10. AskersPastHandshake'
    <2>1. genuine' \subseteq genuine \cup (IF Alive(id) THEN {UidOf(id)} ELSE {})
      BY <1>2
    <2>2. genuine' \subseteq 1 .. lastUid
      BY <1>3, <2>1 DEF IInv, AskersPastHandshake
    <2>3. ASSUME NEW a \in users, ~(gameState[a] > 0)
          PROVE  uid[a] \notin genuine' /\ \A i \in 1 .. issued : taskUid[i] # uid[a]
      <3>1. uid[a] \notin genuine /\ \A i \in 1 .. issued : taskUid[i] # uid[a]
        BY <2>3 DEF IInv, AskersPastHandshake
      <3>2. UidOf(id) # uid[a]
        BY <1>3, <3>1 DEF UidOf
      <3>3. QED
        BY <2>1, <3>1, <3>2
    <2>4. QED
      BY <1>1, <2>2, <2>3 DEF AskersPastHandshake, object, task
  <1>11. GenuineLogin'
    BY <1>1, <1>2 DEF IInv, SessionTypes, GenuineLogin, object
  <1>12. LimitRespected'
    BY <1>1, <1>2 DEF IInv, SessionTypes, LimitRespected, object
  <1>13. QED
    BY <1>1, <1>7, <1>8, <1>9, <1>10, <1>11, <1>12, EventsKept DEF IInv, object, sweep

(* Every user that times out or cannot be written to still is one. *)
LEMMA SecondIInv ==
    ASSUME IInv, Second
    PROVE  IInv'
  <1>1. /\ phase = "loop" /\ phase' = "remove" /\ cursor' = 0
        /\ UNCHANGED <<users, uid, gameState, logged, client, lastUid, reading, pool,
                       task, validated, history>>
    BY DEF Second
  <1>2. \E out \in SUBSET users, failed \in SUBSET users, late \in SUBSET users :
           /\ deleting' = [a \in Addr |-> deleting[a] \/ a \in failed]
           /\ toRemove' = toRemove \cup out \cup failed
           /\ writing' = writing \cup late
    <2> DEFINE silent == [a \in Addr |-> Silence(a)]
               out == {a \in users : TimedOut(a, silent[a])}
               served == {a \in users \ out : logged[a] /\ ~deleting[a]}
    <2>1. PICK res \in [served -> Outcome] :
             /\ deleting' = [a \in Addr |-> deleting[a] \/ a \in {b \in served : res[b] = "error"}]
             /\ toRemove' = toRemove \cup out \cup {a \in served : res[a] = "error"}
             /\ writing' = writing \cup {a \in served : res[a] = "partial"}
      BY DEF Second
    <2>2. /\ out \in SUBSET users /\ {a \in served : res[a] = "error"} \in SUBSET users
          /\ {a \in served : res[a] = "partial"} \in SUBSET users
      OBVIOUS
    <2> HIDE DEF out, served
    <2>3. QED
      BY <2>1, <2>2
  <1>3. SessionTypes'
    BY <1>1, <1>2 DEF IInv, SessionTypes, pool, task, history
  <1>4. NoDoubleDelete'
    BY <1>1, <1>2 DEF IInv, NoDoubleDelete
  <1>5. ConnectionListens'
    BY <1>1, <1>2 DEF IInv, SessionTypes, ConnectionListens
  <1>6. QED
    BY <1>1, <1>3, <1>4, <1>5, PlayersKept DEF IInv, pool

(* A user is freed; those who cannot be told of it are alive. *)
LEMMA RemoveIInv ==
    ASSUME IInv, Remove
    PROVE  IInv'
  <1> DEFINE u == Min(Ahead)
             told == IF logged[u] THEN Others(u) ELSE {}
  <1>1. /\ phase = "remove" /\ Ahead # {}
        /\ users' = users \ {u} /\ reading' = reading \ {u} /\ cursor' = u
        /\ UNCHANGED <<uid, gameState, logged, idle, client, lastUid, phase, pool, task,
                       validated, history>>
    BY DEF Remove
  <1>2. PICK out \in [told -> Outcome] : Write(told, out)
    BY DEF Remove
  <1>3. SessionTypes
    BY DEF IInv
  <1>4. /\ u \in toRemove /\ u \in Addr /\ u \in Nat /\ u > cursor /\ cursor \in Nat
    <2>1. u \in toRemove /\ u \in Nat /\ u > cursor
      BY <1>1, <1>3, MinAhead
    <2> HIDE DEF u
    <2>2. toRemove \subseteq Addr /\ cursor \in Nat
      BY <1>3, SessionAssumption DEF SessionTypes
    <2>3. QED
      BY <2>1, <2>2
  <1>5. told \in SUBSET users /\ u \notin told
    BY DEF Others
  <1> HIDE DEF u, told
  <1>6. EventTypes'
    BY <1>1, <1>2, <1>3, <1>5, WriteEffect DEF EventTypes, SessionTypes
  <1>7. SessionTypes'
    BY <1>1, <1>3, <1>4, <1>6 DEF SessionTypes, EventTypes, pool, task, history
  <1>8. NoDoubleDelete'
    <2> SUFFICES ASSUME NEW a \in toRemove' PROVE a \in users' \/ a <= u
      BY <1>1 DEF NoDoubleDelete
    <2>1. a \in toRemove \cup told /\ a \in Nat
      BY <1>2, <1>3, <1>5, <1>6, WriteEffect, SessionAssumption DEF EventTypes
    <2>2. CASE a \in told
      BY <1>1, <1>5, <2>2
    <2>3. CASE a \in toRemove
      BY <1>1, <1>4, <2>1, <2>3 DEF IInv, NoDoubleDelete
    <2>4. QED
      BY <2>1, <2>2, <2>3
  <1>9. ConnectionListens'
    BY <1>1, <1>2, <1>3, <1>5, WriteEffect DEF IInv, ConnectionListens, SessionTypes
  <1>10. UidsDistinct' /\ TasksKnown' /\ ResultsGenuine' /\ AskersPastHandshake' /\ GenuineLogin'
    BY <1>1 DEF IInv, UidsDistinct, TasksKnown, ResultsGenuine, AskersPastHandshake,
                GenuineLogin, pool, task, history
  <1>11. LimitRespected'
    <2>1. {a \in users : gameState[a] > 0}' \subseteq {a \in users : gameState[a] > 0}
      BY <1>1
    <2>2. QED
      BY <1>1, <2>1, LimitKept DEF history
  <1>12. QED
    BY <1>7, <1>8, <1>9, <1>10, <1>11 DEF IInv

(* The loop that frees users ends. *)
LEMMA RemovedIInv ==
    ASSUME IInv, Removed
    PROVE  IInv'
  <1> USE DEF Removed
  <1>1. SessionTypes'
    BY DEF IInv, SessionTypes, object, event, pool, task, history
  <1>2. NoDoubleDelete' /\ ConnectionListens'
    BY DEF IInv, NoDoubleDelete, ConnectionListens, object, event
  <1>3. QED
    BY <1>1, <1>2, PlayersKept DEF IInv, object, pool

(* So does the one through the results. *)
LEMMA ValidatedIInv ==
    ASSUME IInv, Validated
    PROVE  IInv'
  <1> USE DEF Validated
  <1>1. SessionTypes'
    BY DEF IInv, SessionTypes, object, event, pool, task, history
  <1>2. NoDoubleDelete' /\ ConnectionListens'
    BY DEF IInv, NoDoubleDelete, ConnectionListens, object, event
  <1>3. QED
    BY <1>1, <1>2, PlayersKept DEF IInv, object, pool

(* The user a result is for was confirmed, unless a freed one was touched. *)
LEMMA ApplyResultIInv ==
    ASSUME IInv, ApplyResult
    PROVE  IInv'
  <1> DEFINE r == Head(validated)
             found == {a \in users : uid[a] = r.uid}
  <1>1. /\ phase = "validate" /\ validated # <<>> /\ validated' = Tail(validated)
        /\ UNCHANGED <<users, uid, idle, client, lastUid, reading, sweep, pool, task,
                       genuine, dangling>>
    BY DEF ApplyResult
  <1>2. /\ validated' \in Seq(Result) /\ r \in Result
        /\ Len(validated) \in Nat \ {0} /\ r = validated[1]
        /\ Len(validated') = Len(validated) - 1
        /\ \A i \in 1 .. Len(validated') : validated'[i] = validated[i + 1]
    BY <1>1 DEF IInv, SessionTypes
  <1>3. ResultsGenuine' /\ (~dangling /\ r.valid => r.uid \in genuine)
    BY <1>1, <1>2 DEF IInv, ResultsGenuine
  <1>4. UidsDistinct' /\ TasksKnown'
    BY <1>1 DEF IInv, UidsDistinct, TasksKnown, pool, task
  <1>5. ASSUME UNCHANGED <<gameState, logged>>,
               EventTypes' /\ NoDoubleDelete' /\ ConnectionListens'
        PROVE  IInv'
    <2>1. SessionTypes'
      BY <1>1, <1>2, <1>5 DEF IInv, SessionTypes, EventTypes, sweep, pool, task
    <2>2. AskersPastHandshake' /\ GenuineLogin' /\ LimitRespected'
      BY <1>1, <1>5 DEF IInv, AskersPastHandshake, GenuineLogin, LimitRespected, pool, task
    <2>3. QED
      BY <1>3, <1>4, <1>5, <2>1, <2>2 DEF IInv
  <1>6. ASSUME NEW S \in SUBSET users, NEW out \in [S -> Outcome], Write(S, out)
        PROVE  EventTypes' /\ NoDoubleDelete' /\ ConnectionListens'
    BY <1>1, <1>6, WriteEvents DEF sweep
  <1>7. CASE UNCHANGED <<gameState, logged, deleting, toRemove, writing>>
    <2>1. EventTypes'
      BY <1>1, <1>7 DEF IInv, SessionTypes, EventTypes
    <2>2. NoDoubleDelete' /\ ConnectionListens'
      BY <1>1, <1>7, EventsKept DEF event, sweep
    <2>3. QED
      BY <1>5, <1>7, <2>1, <2>2
  <1>8. ASSUME NEW u \in found, NEW out \in [{u} -> Outcome], Write({u}, out),
               UNCHANGED <<gameState, logged>>
        PROVE  IInv'
    <2>1. {u} \in SUBSET users
      OBVIOUS
    <2>2. QED
      BY <1>5, <1>6, <1>8, <2>1
  <1>9. ASSUME NEW u \in found, r.valid, SendLoginInfo(u),
               NEW out \in [Others(u) \cup {u} -> Outcome], Write(Others(u) \cup {u}, out)
        PROVE  IInv'
    <2>1. u \in users /\ u \in Addr /\ uid[u] = r.uid
      BY DEF IInv, SessionTypes
    <2>2. EventTypes' /\ NoDoubleDelete' /\ ConnectionListens'
      <3>1. Others(u) \cup {u} \in SUBSET users
        BY <2>1 DEF Others
      <3>2. QED
        BY <1>6, <1>9, <3>1
    <2>3. /\ gameState' \in [Addr -> Nat] /\ logged' \in [Addr -> BOOLEAN]
          /\ \A a \in Addr : a # u => gameState'[a] = gameState[a] /\ logged'[a] = logged[a]
          /\ gameState'[u] > 0 /\ gameState[u] \in Nat
          /\ \A a \in users : gameState[a] > 0 => gameState'[a] > 0
      <3>1. /\ gameState \in [Addr -> Nat] /\ logged \in [Addr -> BOOLEAN]
            /\ users \subseteq Addr
        BY DEF IInv, SessionTypes
      <3>2. /\ gameState' = [gameState EXCEPT ![u] = @ + 1]
            /\ logged' = [logged EXCEPT ![u] = TRUE]
        BY <1>9 DEF SendLoginInfo
      <3>3. QED
        BY <2>1, <3>1, <3>2
    <2>4. SessionTypes'
      BY <1>1, <1>2, <2>2, <2>3 DEF IInv, SessionTypes, EventTypes, sweep, pool, task
    <2>5. AskersPastHandshake'
      BY <1>1, <2>3 DEF IInv, AskersPastHandshake, pool, task
    <2>6. ~dangling => uid[u] \in genuine
      BY <1>3, <1>9, <2>1
    <2>7. GenuineLogin'
      BY <1>1, <2>3, <2>6 DEF IInv, SessionTypes, GenuineLogin
    <2>8. LimitRespected'
      <3>1. CASE dangling
        BY <1>1, <3>1 DEF LimitRespected
      <3>2. CASE ~dangling
        <4>1. gameState[u] > 0
          BY <2>1, <2>6, <3>2 DEF IInv, AskersPastHandshake
        <4>2. {a \in users : gameState[a] > 0}' \subseteq {a \in users : gameState[a] > 0}
          BY <1>1, <2>3, <4>1 DEF IInv, SessionTypes
        <4>3. QED
          BY <1>1, <4>2, LimitKept
      <3>3. QED
        BY <3>1, <3>2
    <2>9. QED
      BY <1>3, <1>4, <2>2, <2>4, <2>5, <2>7, <2>8 DEF IInv
  <1>10. QED
    BY <1>7, <1>8, <1>9 DEF ApplyResult

(* The cases together. *)
LEMMA NextIInv == IInv /\ [Next]_vars => IInv'
  <1> SUFFICES ASSUME IInv, [Next]_vars PROVE IInv'
    OBVIOUS
  <1>1. CASE UNCHANGED vars
    <2>1. SessionTypes' /\ NoDoubleDelete' /\ ConnectionListens'
      BY <1>1 DEF IInv, SessionTypes, NoDoubleDelete, ConnectionListens, vars, object,
                  event, sweep, pool, task, history
    <2>2. QED
      BY <1>1, <2>1, PlayersKept DEF IInv, vars, object, pool
  <1>2. ASSUME NEW u \in Addr, Accept(u) \/ Disconnect(u) \/ Fragment(u) \/ Writable(u)
        PROVE  IInv'
    BY <1>2, AcceptIInv, DisconnectIInv, FragmentIInv, WritableIInv
  <1>3. ASSUME NEW u \in Addr, Packet(u) PROVE IInv'
    BY <1>3, HandshakeIInv, LoginRequestIInv, EncryptionResponseIInv, PlayPacketIInv
    DEF Packet
  <1>4. ASSUME NEW w \in Worker, Take(w) \/ Validate(w) PROVE IInv'
    BY <1>4, TakeIInv, ValidateIInv
  <1>5. CASE Timer
    BY <1>5, SecondIInv, RemoveIInv, RemovedIInv, ApplyResultIInv, ValidatedIInv DEF Timer
  <1>6. QED
    BY <1>1, <1>2, <1>3, <1>4, <1>5 DEF Next

(* The server keeps its account of connections whatever arrives, times out,
   fails to be written or is answered late.                                  *)
THEOREM SessionInvariance == Spec => []IInv
  BY InitIInv, NextIInv, PTL DEF Spec

(* No user is freed twice, although handlers, timeouts and failing broadcasts
   add to usersToRemove() while it is being emptied.                         *)
THEOREM FreedOnce == Spec => []NoDoubleDelete
  BY SessionInvariance, PTL DEF IInv

(* A connection that is not being removed has an event pending.  *)
THEOREM NobodyForgotten == Spec => []ConnectionListens
  BY SessionInvariance, PTL DEF IInv

(* While no worker touches a freed user, whoever is in the game was confirmed
   under its own connection.                                                 *)
THEOREM LoginIsGenuine == Spec => []GenuineLogin
  BY SessionInvariance, PTL DEF IInv

(* While no worker touches a freed user, connections past the handshake do not
   outnumber system.user_limit.                                              *)
THEOREM LimitHolds == Spec => []LimitRespected
  BY SessionInvariance, PTL DEF IInv
=============================================================================
