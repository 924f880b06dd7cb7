--------------------------- MODULE ConnectionPool ---------------------------
(***************************************************************************)
(* The connection pool (connection_pool.py): the threads that borrow and   *)
(* return connections, the health check, the clean-up and the shutdown.    *)
(*                                                                         *)
(* Two things hand a connection over, neither under the pool's lock: the   *)
(* semaphore of permits and, after it, the queue of idle ids.  The queue   *)
(* also keeps ids of connections that are gone.  A thread whose connection *)
(* proves bad asks again inside the lock, and waits with it.  Statistics   *)
(* and the raw connections are left out; what the factory's validate says  *)
(* is a choice.                                                            *)
(***************************************************************************)
EXTENDS Naturals, Sequences, FiniteSets

CONSTANTS
  Threads,
  NoThread,
  MinConns, MaxConns,   \* min_connections, max_connections
  MaxIds                \* bound: connections ever created

ASSUME PoolAssumption ==
  /\ IsFiniteSet(Threads) /\ NoThread \notin Threads
  /\ {MinConns, MaxConns, MaxIds} \subseteq Nat
  /\ MinConns <= MaxConns /\ MinConns <= MaxIds

VARIABLES
  conns,      \* the ids in _connections
  idle,       \* those with is_idle
  active,     \* those with is_active
  counter,    \* _connection_counter
  idleQueue,      \* _idle_queue
  permits,    \* the value of _available
  owner,      \* the thread that waits inside the lock, or NoThread
  poolPhase,      \* the pool is "up", "closing" (_shutdown) or "closed"
  pc,         \* per thread: where it is in get_connection
  conn,       \* per thread: the id it works with, 0 for none
  replaced    \* history: ids made by return_connection for a bad connection

poolTable == <<conns, idle, active, counter>>
poolVars  == <<poolTable, idleQueue, permits, owner, poolPhase, pc, conn, replaced>>

\* The factory may have failed for some of the minimum.
PoolInit ==
  /\ counter \in 0..MinConns
  /\ conns = 1..counter /\ idle = conns /\ active = conns
  /\ idleQueue = [i \in 1..counter |-> i]
  /\ permits = counter
  /\ owner = NoThread /\ poolPhase = "up"
  /\ pc = [t \in Threads |-> "out"] /\ conn = [t \in Threads |-> 0]
  /\ replaced = {}

\* _lock is re-entrant, and apart from a waiting retry held within a step.
HasLock(t) == owner \in {NoThread, t}

\* Mutant of Full: room for one too many.
FullLate == Cardinality(conns) > MaxConns

Full == Cardinality(conns) >= MaxConns

\* _create_connection, when the factory does not fail.
Creates(id) ==
  /\ ~Full /\ id <= MaxIds
  /\ counter' = id
  /\ conns' = conns \cup {id} /\ idle' = idle \cup {id} /\ active' = active \cup {id}

\* _destroy_connection, for each of gone.
Destroys(gone) ==
  /\ conns' = conns \ gone /\ idle' = idle \ gone /\ active' = active \ gone
  /\ UNCHANGED counter

Goes(t, where, id) ==
  /\ pc' = [pc EXCEPT ![t] = where]
  /\ conn' = [conn EXCEPT ![t] = id]

\* The end of get_connection, with a connection or an exception: the lock of a
\* retry is let go.
Leaves(t, where, id) == Goes(t, where, id) /\ owner' = NoThread

-----------------------------------------------------------------------------
(* get_connection. *)

Ask(t) ==
  /\ pc[t] = "out" /\ poolPhase = "up"
  /\ Goes(t, "asking", 0)
  /\ UNCHANGED <<poolTable, idleQueue, permits, owner, poolPhase, replaced>>

Acquire(t) ==
  /\ pc[t] = "asking" /\ permits > 0
  /\ permits' = permits - 1
  /\ Goes(t, "popping", 0)
  /\ UNCHANGED <<poolTable, idleQueue, owner, poolPhase, replaced>>

\* Mutant of GivesUp: waits for a permit for ever.
NeverGivesUp(t) == FALSE

GivesUp(t) == permits = 0

TimeOut(t) ==
  /\ pc[t] = "asking" /\ GivesUp(t)
  /\ Goes(t, "creating", 0)
  /\ UNCHANGED <<poolTable, idleQueue, permits, owner, poolPhase, replaced>>

\* Mutant of Rest: the id is looked at and left in the queue.
Peek(q) == q

Rest(q) == Tail(q)

Pop(t) ==
  /\ pc[t] = "popping" /\ idleQueue # <<>>
  /\ idleQueue' = Rest(idleQueue)
  /\ Goes(t, "popped", Head(idleQueue))
  /\ UNCHANGED <<poolTable, permits, owner, poolPhase, replaced>>

\* A connection that passes its validation is the thread's.
TakePopped(t) ==
  /\ pc[t] = "popped" /\ HasLock(t) /\ conn[t] \in active
  /\ idle' = idle \ {conn[t]}
  /\ Leaves(t, "holding", conn[t])
  /\ UNCHANGED <<conns, active, counter, idleQueue, permits, poolPhase, replaced>>

\* One that fails is destroyed, and get_connection called again within the lock.
Retry(t) ==
  /\ pc[t] = "popped" /\ HasLock(t) /\ conn[t] \in conns
  /\ Destroys({conn[t]})
  /\ IF poolPhase = "up" THEN Goes(t, "asking", 0) /\ owner' = t
                     ELSE Leaves(t, "out", 0)
  /\ UNCHANGED <<idleQueue, permits, poolPhase, replaced>>

\* The connection of a stale id has been destroyed meanwhile.
PoppedStale(t) ==
  /\ pc[t] = "popped" /\ HasLock(t) /\ conn[t] \notin conns
  /\ Goes(t, "creating", 0)
  /\ UNCHANGED <<poolTable, idleQueue, permits, owner, poolPhase, replaced>>

Create(t) ==
  /\ pc[t] = "creating" /\ HasLock(t)
  /\ Creates(counter + 1)
  /\ Goes(t, "created", counter + 1)
  /\ UNCHANGED <<idleQueue, permits, owner, poolPhase, replaced>>

\* No room, or the factory fails: ConnectionTimeoutError.
CreateFails(t) ==
  /\ pc[t] = "creating" /\ HasLock(t)
  /\ Leaves(t, "out", 0)
  /\ UNCHANGED <<poolTable, idleQueue, permits, poolPhase, replaced>>

\* The lock was free between the creation and mark_used, unless this is a retry.
TakeCreated(t) ==
  /\ pc[t] = "created" /\ HasLock(t)
  /\ idle' = idle \ {conn[t]}
  /\ Leaves(t, "holding", conn[t])
  /\ UNCHANGED <<conns, active, counter, idleQueue, permits, poolPhase, replaced>>

-----------------------------------------------------------------------------
(* return_connection. *)

\* Mutant of Requeues: a connection that failed a health check is dropped.
RequeuesHealthy(id) == id \in active

Requeues(id) == TRUE

\* The id is put before the permit is released; in between only an earlier
\* permit could take from the queue, whose oldest id it takes.
ReturnHealthy(t) ==
  /\ pc[t] = "holding" /\ owner = NoThread /\ conn[t] \in conns
  /\ idle' = idle \cup {conn[t]}
  /\ IF Requeues(conn[t])
     THEN idleQueue' = Append(idleQueue, conn[t]) /\ permits' = permits + 1
     ELSE UNCHANGED <<idleQueue, permits>>
  /\ Goes(t, "out", 0)
  /\ UNCHANGED <<conns, active, counter, owner, poolPhase, replaced>>

\* A bad connection is destroyed and, below the minimum, another one created,
\* which is not put into the queue.
ReturnBad(t) ==
  /\ pc[t] = "holding" /\ owner = NoThread /\ conn[t] \in conns
  /\ LET left == conns \ {conn[t]}
     IN  \/ /\ Destroys({conn[t]})
            /\ UNCHANGED replaced
         \/ /\ Cardinality(left) < MinConns /\ counter < MaxIds
            /\ counter' = counter + 1
            /\ conns' = left \cup {counter + 1}
            /\ idle' = (idle \ {conn[t]}) \cup {counter + 1}
            /\ active' = (active \ {conn[t]}) \cup {counter + 1}
            /\ replaced' = replaced \cup {counter + 1}
  /\ Goes(t, "out", 0)
  /\ UNCHANGED <<idleQueue, permits, owner, poolPhase>>

ReturnUnknown(t) ==
  /\ pc[t] = "holding" /\ owner = NoThread /\ conn[t] \notin conns
  /\ Goes(t, "out", 0)
  /\ UNCHANGED <<poolTable, idleQueue, permits, owner, poolPhase, replaced>>

-----------------------------------------------------------------------------
(* Background threads, which look at _shutdown before they sleep, and shutdown. *)

\* _perform_health_checks: bad are the idle connections that fail.
HealthCheck(bad) ==
  /\ owner = NoThread /\ bad # {}
  /\ active' = active \ bad
  /\ UNCHANGED <<conns, idle, counter, idleQueue, permits, owner, poolPhase, pc, conn, replaced>>

\* Mutant of Swept: the ids leave the queue, their permits stay.
SweptToo(q, old) == SelectSeq(q, LAMBDA id : id \notin old)

Swept(q, old) == q

\* _cleanup_idle_connections: old are the ones idle for too long.  The minimum is
\* compared with the number of connections before any is destroyed.
Cleanup(old) ==
  /\ owner = NoThread /\ old # {}
  /\ Cardinality(conns) > MinConns
  /\ Destroys(old)
  /\ idleQueue' = Swept(idleQueue, old)
  /\ UNCHANGED <<permits, owner, poolPhase, pc, conn, replaced>>

ShutdownBegin ==
  /\ poolPhase = "up"
  /\ poolPhase' = "closing"
  /\ UNCHANGED <<poolTable, idleQueue, permits, owner, pc, conn, replaced>>

\* All connections are back, or the time-out is over.
ShutdownEnd ==
  /\ poolPhase = "closing" /\ owner = NoThread
  /\ poolPhase' = "closed"
  /\ Destroys(conns)
  /\ UNCHANGED <<idleQueue, permits, owner, pc, conn, replaced>>

-----------------------------------------------------------------------------
\* The steps of get_connection.
GetStep(t) ==
  \/ Acquire(t) \/ TimeOut(t) \/ Pop(t)
  \/ TakePopped(t) \/ Retry(t) \/ PoppedStale(t)
  \/ Create(t) \/ CreateFails(t) \/ TakeCreated(t)

PoolNext ==
  \/ \E t \in Threads : \/ Ask(t) \/ GetStep(t)
                        \/ ReturnHealthy(t) \/ ReturnBad(t) \/ ReturnUnknown(t)
  \/ \E ids \in SUBSET idle : HealthCheck(ids) \/ Cleanup(ids)
  \/ ShutdownBegin \/ ShutdownEnd

PoolSpec == PoolInit /\ [][PoolNext]_poolVars

\* A thread in get_connection goes on, and one that waits for the lock gets it in
\* the end, however often others take it.  Nobody has to ask, to return, or to
\* shut the pool down.
PoolFairness == \A t \in Threads : SF_poolVars(GetStep(t))

PoolFairSpec == PoolSpec /\ PoolFairness

-----------------------------------------------------------------------------
(* Properties. *)

Queued == {idleQueue[i] : i \in DOMAIN idleQueue}

\* The threads that have a connection's id in hand.
Hands(id) == {t \in Threads : pc[t] \in {"popped", "created", "holding"} /\ conn[t] = id}

TableType ==
  /\ conns \subseteq 1..counter /\ idle \subseteq conns /\ active \subseteq conns
  /\ counter \in Nat /\ Cardinality(conns) <= MaxConns
  /\ replaced \subseteq 1..counter

QueueType == idleQueue \in Seq(Nat) /\ Queued \subseteq 1..counter /\ permits \in Nat

ThreadType ==
  /\ owner \in Threads \cup {NoThread} /\ poolPhase \in {"up", "closing", "closed"}
  /\ pc \in [Threads -> {"out", "asking", "popping", "popped", "creating",
                         "created", "holding"}]
  /\ conn \in [Threads -> 0..counter]
  /\ owner \in Threads => pc[owner] \notin {"out", "holding"}

\* Every variable has its type and the pool never exceeds max_connections; the
\* lock is waited with only inside get_connection.
TypeOK == TableType /\ QueueType /\ ThreadType

\* A connection is in the hands of at most one thread, and while it is, the queue
\* does not offer it to another; nor does the queue hold an id twice.
Exclusive ==
  /\ \A id \in 1..counter : \A t, u \in Hands(id) : t = u
  /\ \A id \in Queued : Hands(id) = {}
  /\ \A i, j \in DOMAIN idleQueue : idleQueue[i] = idleQueue[j] => i = j

Popping == {t \in Threads : pc[t] = "popping"}

\* There is an id in the queue for every permit, taken or not: _idle_queue.get(),
\* which has no time-out and may be called with the lock, never waits.
PermitsBacked == permits + Cardinality(Popping) = Len(idleQueue)

\* No connection is lost: each one is in the queue, in a thread's hands, or one
\* of the replacements made by return_connection, which nobody can borrow.
NothingLost ==
  \A id \in conns : id \in Queued \/ Hands(id) # {} \/ id \in replaced

\* get_connection returns or raises, though it may wait with the lock which the
\* threads need that could return a connection.
GetTerminates ==
  \A t \in Threads : pc[t] = "asking" ~> pc[t] \in {"out", "holding"}
=============================================================================
