------------------------------- MODULE Session -------------------------------
(***************************************************************************)
(* The life of a connection: accept_callback and client_callback           *)
(* (sockets.cpp), the handlers of the handshake and login packets          *)
(* (packets.cpp), the user object (user.cpp), the once-a-second sweep      *)
(* timed_1s (mineserver.cpp) and the validation of a player by a worker    *)
(* thread (threadpool.cpp).  The pool is TaskQueue, which ThreadPool       *)
(* implements.                                                             *)
(*                                                                         *)
(* Everything but the workers runs in the event loop's thread, so a        *)
(* handler is one step; timed_1s is cut where a worker's step matters.  A  *)
(* User is known by its address, as in the code: users() and               *)
(* usersToRemove() are sets ordered by address, a freed address may be     *)
(* given to the next connection, and a task keeps the address it was made  *)
(* with.                                                                   *)
(***************************************************************************)
EXTENDS Naturals, Sequences, FiniteSets, FiniteSetsExt

CONSTANTS
    Addr,          \* addresses `new User' may return, ordered as numbers
    Worker,        \* the pool's threads
    None,          \* no task
    UserLimit,     \* system.user_limit
    LoggedLimit,   \* seconds of silence allowed to a player (30)
    LoginLimit,    \* seconds of silence allowed before login (100)
    Resend,        \* may a client send its encryption response again?
    Outcome,       \* what a write to a socket may do
    MaxUid,        \* bound on connections made
    MaxTask        \* bound on validations started

ASSUME SessionAssumption ==
    /\ IsFiniteSet(Addr) /\ Addr \subseteq Nat \ {0}
    /\ None \notin Nat
    /\ {UserLimit, LoggedLimit, LoginLimit, MaxUid, MaxTask} \subseteq Nat
    /\ LoggedLimit <= LoginLimit
    /\ Resend \in BOOLEAN
    /\ Outcome \subseteq {"sent", "partial", "error"}

VARIABLES
    users,      \* addresses of the live User objects: users()
    uid,        \* UID at each address; stale once the object is freed
    gameState,  \* 0 handshake, 1 status, 2 login, 3 play
    logged, deleting,
    idle,       \* seconds since lastData
    reading, writing,  \* users whose read, write event is pending
    client,     \* packets of the login sequence the client has sent
    toRemove,   \* usersToRemove()
    phase,      \* "loop", or the part of timed_1s that runs: "remove", "validate"
    cursor,     \* last address visited by the removal loop
    lastUid,    \* generateEID's counter
    issued, queue, held, handled,  \* the pool
    taskUser,   \* task id -> the address in the ThreadTask
    taskUid,    \* task id -> the connection that asked (history)
    validated,  \* validatedUsers
    genuine,    \* connections the session server confirmed (history)
    dangling    \* a worker used a User that was freed meanwhile (history)

object == <<users, uid, gameState, logged, deleting, idle, client, lastUid>>
event == <<reading, writing>>
sweep == <<phase, cursor>>
pool == <<issued, queue, held, handled>>
task == <<taskUser, taskUid>>
history == <<genuine, dangling>>
vars == <<object, event, toRemove, sweep, pool, task, validated, history>>

Pool == INSTANCE TaskQueue

Init ==
    /\ users = {}
    /\ uid = [a \in Addr |-> 0]
    /\ gameState = [a \in Addr |-> 0]
    /\ logged = [a \in Addr |-> FALSE]
    /\ deleting = [a \in Addr |-> FALSE]
    /\ idle = [a \in Addr |-> 0]
    /\ client = [a \in Addr |-> 0]
    /\ lastUid = 0
    /\ reading = {} /\ writing = {}
    /\ toRemove = {}
    /\ phase = "loop" /\ cursor = 0
    /\ Pool!Init
    /\ taskUser = <<>> /\ taskUid = <<>>
    /\ validated = <<>>
    /\ genuine = {} /\ dangling = FALSE

-----------------------------------------------------------------------------
(* Writing to sockets *)

\* Faulty: an unfinished write does not wait for the write event.
WriteOnce(S, out) ==
    LET live == {a \in S : ~deleting[a]}
        with(o) == {a \in live : out[a] = o}
    IN /\ deleting' = [a \in Addr |-> deleting[a] \/ a \in with("error")]
       /\ toRemove' = toRemove \cup with("error")
       /\ writing' = writing

\* client_write to each user of S, all of them connected: an error schedules
\* the removal of the user, an unfinished write waits for the write event.
\* A user that is being deleted is not written to.
Write(S, out) ==
    LET live == {a \in S : ~deleting[a]}
        with(o) == {a \in live : out[a] = o}
    IN /\ deleting' = [a \in Addr |-> deleting[a] \/ a \in with("error")]
       /\ toRemove' = toRemove \cup with("error")
       /\ writing' = writing \cup with("partial")

\* The other players a broadcast of user u reaches: sendOthers.
Others(u) == {a \in users \ {u} : logged[a]}

\* The end of client_callback for user u: the read event, which has fired, is
\* added again only when everything could be written.
Rearm(u, out) ==
    reading' = IF out[u] = "sent" THEN reading ELSE reading \ {u}

-----------------------------------------------------------------------------
(* Connections *)

\* accept_callback: a new User at a free address, its read event pending.
Accept(a) ==
    /\ phase = "loop"
    /\ a \in Addr \ users
    /\ lastUid < MaxUid
    /\ lastUid' = lastUid + 1
    /\ users' = users \cup {a}
    /\ uid' = [uid EXCEPT ![a] = lastUid + 1]
    /\ gameState' = [gameState EXCEPT ![a] = 0]
    /\ logged' = [logged EXCEPT ![a] = FALSE]
    /\ deleting' = [deleting EXCEPT ![a] = FALSE]
    /\ idle' = [idle EXCEPT ![a] = 0]
    /\ client' = [client EXCEPT ![a] = 0]
    /\ reading' = reading \cup {a}
    /\ writing' = writing \ {a}
    /\ UNCHANGED <<toRemove, sweep, pool, task, validated, history>>

\* client_callback is entered with data: the user is not being deleted.
Readable(u) == phase = "loop" /\ u \in users \cap reading /\ ~deleting[u]

Touch(u) == idle' = [idle EXCEPT ![u] = 0]

\* recv returns 0 or an error.
Disconnect(u) ==
    /\ Readable(u)
    /\ deleting' = [deleting EXCEPT ![u] = TRUE]
    /\ toRemove' = toRemove \cup {u}
    /\ reading' = reading \ {u}
    /\ UNCHANGED <<users, uid, gameState, logged, idle, client, lastUid, writing,
                   sweep, pool, task, validated, history>>

\* Data that does not complete a packet: wait for more.
Fragment(u) ==
    /\ Readable(u)
    /\ Touch(u)
    /\ UNCHANGED <<users, uid, gameState, logged, deleting, client, lastUid, event,
                   toRemove, sweep, pool, task, validated, history>>

\* The write event: what is left in the buffer goes out, and reading resumes
\* once it has gone (another partial write changes nothing).
Writable(u) ==
    /\ phase = "loop"
    /\ u \in users \cap writing /\ ~deleting[u]
    /\ \E out \in [{u} -> Outcome] :
         /\ out[u] # "partial"
         /\ deleting' = [deleting EXCEPT ![u] = out[u] = "error"]
         /\ toRemove' = IF out[u] = "error" THEN toRemove \cup {u} ELSE toRemove
         /\ writing' = writing \ {u}
         /\ reading' = IF out[u] = "sent" THEN reading \cup {u} ELSE reading
    /\ UNCHANGED <<users, uid, gameState, logged, idle, client, lastUid, sweep,
                   pool, task, validated, history>>

-----------------------------------------------------------------------------
(* Login *)

\* User::sendLoginInfo: the user enters the game; others are told of it.
SendLoginInfo(u) ==
    /\ gameState' = [gameState EXCEPT ![u] = @ + 1]
    /\ logged' = [logged EXCEPT ![u] = TRUE]

\* A packet of the login sequence, number n: its handler answers.
Answer(u, n) ==
    /\ Readable(u)
    /\ client[u] \in (n - 1) .. (IF Resend THEN n ELSE n - 1)
    /\ client' = [client EXCEPT ![u] = n]
    /\ Touch(u)
    /\ \E out \in [{u} -> Outcome] : Write({u}, out) /\ Rearm(u, out)
    /\ UNCHANGED <<users, uid, lastUid, sweep, validated, genuine, dangling>>

\* Faulty: the limit is off by one.
HandshakeOneMore(u) ==
    /\ gameState[u] = 0
    /\ Answer(u, 1)
    /\ \/ UNCHANGED gameState
       \/ /\ Cardinality(users) <= UserLimit + 1
          /\ \E next \in {1, 2} : gameState' = [gameState EXCEPT ![u] = next]
    /\ UNCHANGED <<logged, pool, task>>

\* handshake: another protocol version or a full server is refused, otherwise
\* the client is in the state it asks for.  User::kick, here and below, writes a
\* disconnect packet and no more: the connection and the user stay.
Handshake(u) ==
    /\ gameState[u] = 0
    /\ Answer(u, 1)
    /\ \/ UNCHANGED gameState
       \/ /\ Cardinality(users) <= UserLimit
          /\ \E next \in {1, 2} : gameState' = [gameState EXCEPT ![u] = next]
    /\ UNCHANGED <<logged, pool, task>>

\* login_request, with system.protocol_encryption set: a plugin may refuse the
\* name and kick the user, otherwise the answer is an encryption request.
LoginRequest(u) ==
    /\ gameState[u] = 2
    /\ Answer(u, 2)
    /\ UNCHANGED <<gameState, logged, pool, task>>

\* encryption_response, with system.user_validation set: unless the secret is
\* refused, the pool gets the task of asking the session server.
EncryptionResponse(u) ==
    /\ gameState[u] = 2
    /\ Answer(u, 3)
    /\ \/ UNCHANGED <<pool, task>>
       \/ /\ issued < MaxTask
          /\ Pool!Submit
          /\ taskUser' = Append(taskUser, u)
          /\ taskUid' = Append(taskUid, uid[u])
    /\ UNCHANGED <<gameState, logged>>

\* A packet of a player in the game.
PlayPacket(u) ==
    /\ gameState[u] = 3
    /\ Readable(u)
    /\ Touch(u)
    /\ \E out \in [{u} -> Outcome] : Write({u}, out) /\ Rearm(u, out)
    /\ UNCHANGED <<users, uid, gameState, logged, client, lastUid, sweep, pool, task,
                   validated, history>>

-----------------------------------------------------------------------------
(* The worker threads.  Task ids start at 0, sequences at 1. *)

UserOf(id) == taskUser[id + 1]
UidOf(id) == taskUid[id + 1]

\* The User a task points to still is the one that asked.
Alive(id) == UserOf(id) \in users /\ uid[UserOf(id)] = UidOf(id)

Take(w) ==
    /\ Pool!Take(w)
    /\ UNCHANGED <<object, event, toRemove, sweep, task, validated, history>>

\* What an uninitialised or freed UID field may contain: a number in use by
\* some connection, or by none.
Garbage == {0} \cup {uid[a] : a \in users}

\* taskValidateUser, from the session server's answer to its result.  Unless
\* the server confirms the player, the result's UID is never assigned.  The
\* UID is read through the task's pointer, whatever that points to by now.
\* The result is appended under the mutex timed_1s holds while it validates.
Validate(w) ==
    /\ held[w] # None
    /\ phase # "validate"
    /\ \E valid \in BOOLEAN, garbage \in Garbage :
         LET id == held[w]
             read == IF UserOf(id) \in users THEN uid[UserOf(id)] ELSE garbage
         IN /\ validated' = Append(validated,
                   [valid |-> valid, uid |-> IF valid THEN read ELSE garbage])
            /\ genuine' = IF valid /\ Alive(id) THEN genuine \cup {UidOf(id)}
                          ELSE genuine
            /\ dangling' = (dangling \/ ~Alive(id))
    /\ Pool!Handle(w)
    /\ UNCHANGED <<object, event, toRemove, sweep, task>>

-----------------------------------------------------------------------------
(* timed_1s *)

\* Did user u, silent for n seconds, time out?
TimedOut(u, n) == n > (IF logged[u] THEN LoggedLimit ELSE LoginLimit)

\* Faulty: a user being deleted is left alone.
SilenceAlive(u) == IF u \in users /\ ~deleting[u] THEN idle[u] + 1 ELSE idle[u]

\* The seconds user u has been silent, a second later.
Silence(u) == IF u \in users THEN idle[u] + 1 ELSE idle[u]

\* The first loop: users silent for too long are to be removed; the others
\* may be sent chunks.
Second ==
    /\ phase = "loop"
    /\ LET silent == [a \in Addr |-> Silence(a)]
           out == {a \in users : TimedOut(a, silent[a])}
           served == {a \in users \ out : logged[a] /\ ~deleting[a]}
       IN \E res \in [served -> Outcome] :
            LET failed == {a \in served : res[a] = "error"}
            IN /\ idle' = [a \in Addr |-> IF a \in out THEN 0 ELSE silent[a]]
               /\ deleting' = [a \in Addr |-> deleting[a] \/ a \in failed]
               /\ toRemove' = toRemove \cup out \cup failed
               /\ writing' = writing \cup {a \in served : res[a] = "partial"}
    /\ phase' = "remove"
    /\ cursor' = 0
    /\ UNCHANGED <<users, uid, gameState, logged, client, lastUid, reading, pool,
                   task, validated, history>>

\* The users the removal loop has still to visit, in the order of the set.
Ahead == {a \in toRemove : a > cursor}

\* ~User: the object leaves users(); if it was a player, the others are told,
\* and a failure to tell one of them adds that one to usersToRemove, under
\* the iterator of this very loop.
Remove ==
    /\ phase = "remove"
    /\ Ahead # {}
    /\ LET u == Min(Ahead)
           told == IF logged[u] THEN Others(u) ELSE {}
       IN /\ users' = users \ {u}
          /\ reading' = reading \ {u}
          /\ cursor' = u
          /\ \E out \in [told -> Outcome] : Write(told, out)
    /\ UNCHANGED <<uid, gameState, logged, idle, client, lastUid, phase, pool, task,
                   validated, history>>

\* Faulty: usersToRemove() is not cleared.
RemovedUncleared ==
    /\ phase = "remove"
    /\ Ahead = {}
    /\ phase' = "validate"
    /\ cursor' = 0
    /\ UNCHANGED <<object, event, toRemove, pool, task, validated, history>>

\* usersToRemove().clear(); the validation mutex is taken.
Removed ==
    /\ phase = "remove"
    /\ Ahead = {}
    /\ toRemove' = {}
    /\ phase' = "validate"
    /\ cursor' = 0
    /\ UNCHANGED <<object, event, pool, task, validated, history>>

\* Faulty: the result's valid flag is not looked at.
ApplyAnyResult ==
    /\ phase = "validate"
    /\ validated # <<>>
    /\ validated' = Tail(validated)
    /\ LET found == {a \in users : uid[a] = Head(validated).uid}
       IN \/ found = {} /\ UNCHANGED <<gameState, logged, deleting, toRemove, writing>>
          \/ \E u \in found :
               /\ SendLoginInfo(u)
               /\ \E out \in [Others(u) \cup {u} -> Outcome] :
                    Write(Others(u) \cup {u}, out)
    /\ UNCHANGED <<users, uid, idle, client, lastUid, reading, sweep, pool, task,
                   history>>

\* One result: its user is looked up by UID.  Which of the other players
\* sendLoginInfo writes to depends on where they are: any of them.
ApplyResult ==
    /\ phase = "validate"
    /\ validated # <<>>
    /\ validated' = Tail(validated)
    /\ LET r == Head(validated)
           found == {a \in users : uid[a] = r.uid}
       IN \/ found = {} /\ UNCHANGED <<gameState, logged, deleting, toRemove, writing>>
          \/ \E u \in found :
               /\ r.valid
               /\ SendLoginInfo(u)
               /\ \E out \in [Others(u) \cup {u} -> Outcome] :
                    Write(Others(u) \cup {u}, out)
          \/ \E u \in found :
               /\ ~r.valid
               /\ \E out \in [{u} -> Outcome] : Write({u}, out)
               /\ UNCHANGED <<gameState, logged>>
    /\ UNCHANGED <<users, uid, idle, client, lastUid, reading, sweep, pool, task,
                   genuine, dangling>>

\* Faulty: the results are cleared, whether they were applied or not.
ValidatedCleared ==
    /\ phase = "validate"
    /\ phase' = "loop"
    /\ validated' = <<>>
    /\ UNCHANGED <<object, event, toRemove, cursor, pool, task, history>>

\* All results applied: the mutex is released, the event loop goes on.
Validated ==
    /\ phase = "validate"
    /\ validated = <<>>
    /\ phase' = "loop"
    /\ UNCHANGED <<object, event, toRemove, cursor, pool, task, validated, history>>

-----------------------------------------------------------------------------
Packet(u) == Handshake(u) \/ LoginRequest(u) \/ EncryptionResponse(u) \/ PlayPacket(u)

Timer == Second \/ Remove \/ Removed \/ ApplyResult \/ Validated

Next ==
    \/ \E u \in Addr : Accept(u) \/ Disconnect(u) \/ Fragment(u) \/ Writable(u)
    \/ \E u \in Addr : Packet(u)
    \/ \E w \in Worker : Take(w) \/ Validate(w)
    \/ Timer

Spec == Init /\ [][Next]_vars

\* The timer fires every second and timed_1s ends; a worker that has a task, or
\* could take one, goes on.  Nothing is assumed of the clients.
FairSpec ==
    /\ Spec
    /\ WF_vars(Timer)
    /\ \A w \in Worker : WF_vars(Take(w)) /\ SF_vars(Validate(w))

-----------------------------------------------------------------------------
(* Properties *)

\* No user is freed twice: what usersToRemove holds is alive, but for what the
\* removal loop has just visited, although handlers, timeouts and failing
\* broadcasts all insert into it, the last ones during the loop.
NoDoubleDelete ==
    \A a \in toRemove : a \in users \/ (phase = "remove" /\ a <= cursor)

\* A connection that is not being removed has an event pending: no sequence of
\* partial writes, broadcasts and packets leaves it deaf and mute.
ConnectionListens ==
    \A a \in users : ~deleting[a] => a \in reading \cup writing

\* As long as no worker touches a freed user (it may be logged in by a result
\* that is not its own, whatever its state), connections past the handshake
\* never outnumber system.user_limit, although the limit is compared with
\* users(), where the asker and the users about to be removed count too.
LimitRespected ==
    ~dangling => Cardinality({a \in users : gameState[a] > 0}) <= UserLimit

\* As long as no worker touches a freed user, whoever is in the game was
\* confirmed by the session server under its own connection.
GenuineLogin ==
    ~dangling => \A a \in users : logged[a] => uid[a] \in genuine

Connected(n) == \E a \in users : uid[a] = n

\* A connection that failed is freed in the end, even one whose failure was
\* noticed while usersToRemove was being emptied.
FailedConnectionFreed ==
    \A a \in Addr : a \in users /\ deleting[a] ~> a \notin users

\* A confirmed player enters the game, or its connection ends.
ConfirmedPlayerEnters ==
    \A n \in 1 .. MaxUid :
        n \in genuine ~> ~Connected(n) \/ \E a \in users : uid[a] = n /\ logged[a]

\* "To make sure user hasn't timed out or anything while validating"
\* (mineserver.cpp): the user a worker works for is alive.
TaskUserAlive == \A w \in Worker : held[w] # None => Alive(held[w])

=============================================================================
