-------------------------- MODULE BackgroundTimers --------------------------
(***************************************************************************)
(* Threads that wake by the clock: the refresh timers of materialized      *)
(* views, and the pool of batch_connection_pool.py with its health checks. *)
(***************************************************************************)
EXTENDS Naturals, FiniteSets

(***************************************************************************)
(* Materialized views and the timers that refresh them: the manager of     *)
(* materialized_views.py with the commands of mv_commands.py, and the      *)
(* schedules of batch_materialized_views.py over it.  A refresh finds no   *)
(* data (nothing fills query_cache), so a view is whether it exists and    *)
(* whether it is stale.                                                    *)
(*                                                                         *)
(* A timer that fires runs its task, and the task sets up the timer that   *)
(* follows it: here the same slot is used again.  cancel() stops a timer   *)
(* that has not fired, and leaves a task that runs alone.                  *)
(***************************************************************************)

CONSTANTS
  MVViews,
  MVSlots   \* bound: timers and running tasks at a time

ASSUME MVAssumption == MVSlots \in Nat \ {0}

VARIABLES
  mvStale,    \* of each view: "none" while it does not exist, "stale" or "fresh"
  mvTimer,    \* of each slot: [view, by, at]; by is "manager" or "batch", at is "free",
              \* "waiting" or "running"
  mvManager,  \* _schedules of the manager: the slot of the timer, 0 for none
  mvBatch     \* _schedules of the batch manager

mvVars == <<mvStale, mvTimer, mvManager, mvBatch>>

MVSlot == 1..MVSlots

MVFree == {s \in MVSlot : mvTimer[s].at = "free"}

MVInit ==
  /\ mvStale = [v \in MVViews |-> "none"]
  /\ \E v \in MVViews : mvTimer = [s \in MVSlot |-> [view |-> v, by |-> "manager", at |-> "free"]]
  /\ mvManager = [v \in MVViews |-> 0] /\ mvBatch = [v \in MVViews |-> 0]

MVTimers(v, by, at) == {s \in MVSlot : mvTimer[s] = [view |-> v, by |-> by, at |-> at]}

\* cancel() of the timer in slot s, if it has not fired.
MVCancelled(timer, s) ==
  IF s # 0 /\ timer[s].at = "waiting" THEN [timer EXCEPT ![s].at = "free"] ELSE timer

MVArmed(timer, old, s, v, by) ==
  [MVCancelled(timer, old) EXCEPT ![s] = [view |-> v, by |-> by, at |-> "waiting"]]

\* Mutant of MVForgotten: the schedule's entry is not deleted.
MVForgottenNot(schedules, v) == schedules

MVForgotten(schedules, v) == [schedules EXCEPT ![v] = 0]

\* refresh_view, also when it is called by a task; a view that is gone raises.
MVRefreshed(v) == [mvStale EXCEPT ![v] = IF @ = "none" THEN @ ELSE "fresh"]

-----------------------------------------------------------------------------
(* Commands. *)

\* create_view; _setup_schedule when it is to be refreshed every n minutes.
MVCreate(v, scheduled) ==
  /\ mvStale[v] = "none"
  /\ mvStale' = [mvStale EXCEPT ![v] = "stale"]
  /\ IF scheduled
     THEN \E s \in MVFree : /\ mvTimer' = [mvTimer EXCEPT ![s] = [view |-> v, by |-> "manager", at |-> "waiting"]]
                            /\ mvManager' = [mvManager EXCEPT ![v] = s]
     ELSE UNCHANGED <<mvTimer, mvManager>>
  /\ UNCHANGED mvBatch

\* drop_view cancels the timer the manager knows of; a batch schedule stays.
MVDrop(v) ==
  /\ mvStale[v] # "none"
  /\ mvStale' = [mvStale EXCEPT ![v] = "none"]
  /\ mvTimer' = MVCancelled(mvTimer, mvManager[v])
  /\ mvManager' = MVForgotten(mvManager, v)
  /\ UNCHANGED mvBatch

\* REFRESH of one view or of all; the refresh "concurrently" differs in its lock only.
MVRefresh(views) ==
  /\ \A v \in views : mvStale[v] # "none"
  /\ mvStale' = [v \in MVViews |-> IF v \in views THEN MVRefreshed(v)[v] ELSE mvStale[v]]
  /\ UNCHANGED <<mvTimer, mvManager, mvBatch>>

\* SET REFRESH SCHEDULE: one more timer, and the one before is forgotten, not cancelled.
MVSetSchedule(v) ==
  /\ mvStale[v] # "none"
  /\ \E s \in MVFree : /\ mvTimer' = [mvTimer EXCEPT ![s] = [view |-> v, by |-> "manager", at |-> "waiting"]]
                       /\ mvManager' = [mvManager EXCEPT ![v] = s]
  /\ UNCHANGED <<mvStale, mvBatch>>

\* schedule_refresh.
MVBatchSchedule(v) ==
  /\ mvStale[v] # "none"
  /\ \E s \in MVFree : /\ mvTimer' = MVArmed(mvTimer, mvBatch[v], s, v, "batch")
                       /\ mvBatch' = [mvBatch EXCEPT ![v] = s]
  /\ UNCHANGED <<mvStale, mvManager>>

\* cancel_schedule.
MVBatchCancel(v) ==
  /\ mvBatch[v] # 0
  /\ mvTimer' = MVCancelled(mvTimer, mvBatch[v])
  /\ mvBatch' = MVForgotten(mvBatch, v)
  /\ UNCHANGED <<mvStale, mvManager>>

-----------------------------------------------------------------------------
(* Timers. *)

\* A timer fires: its task refreshes the view, if it is still there.
MVFire(s) ==
  /\ mvTimer[s].at = "waiting"
  /\ mvTimer' = [mvTimer EXCEPT ![s].at = "running"]
  /\ mvStale' = MVRefreshed(mvTimer[s].view)
  /\ UNCHANGED <<mvManager, mvBatch>>

\* Mutant of MVGoesOn: a refresh that failed ends the schedule.
MVGoesOnFresh(s) == mvStale[mvTimer[s].view] # "none"

\* Mutant of MVGoesOn: the task of a cancelled schedule goes on as well.
MVGoesOnAlways(s) == TRUE

\* refresh_task reschedules whatever happened; _scheduled_refresh_callback while the
\* view has a schedule.
MVGoesOn(s) == mvTimer[s].by = "manager" \/ mvBatch[mvTimer[s].view] # 0

\* The task sets up the next timer, and the schedule's timer is that one.
MVRearm(s) ==
  LET v == mvTimer[s].view
  IN  /\ mvTimer[s].at = "running"
      /\ IF ~MVGoesOn(s)
         THEN mvTimer' = [mvTimer EXCEPT ![s].at = "free"] /\ UNCHANGED <<mvManager, mvBatch>>
         ELSE /\ mvTimer' = [mvTimer EXCEPT ![s].at = "waiting"]
              /\ IF mvTimer[s].by = "manager"
                 THEN mvManager' = [mvManager EXCEPT ![v] = s] /\ UNCHANGED mvBatch
                 ELSE mvBatch' = [mvBatch EXCEPT ![v] = IF @ = 0 THEN @ ELSE s] /\ UNCHANGED mvManager
      /\ UNCHANGED mvStale

MVNext ==
  \/ \E v \in MVViews :
       \/ \E scheduled \in BOOLEAN : MVCreate(v, scheduled)
       \/ MVDrop(v) \/ MVSetSchedule(v) \/ MVBatchSchedule(v) \/ MVBatchCancel(v)
  \/ \E views \in SUBSET MVViews : MVRefresh(views)
  \/ \E s \in MVSlot : MVFire(s) \/ MVRearm(s)

\* A timer's minutes pass, and its thread runs.
MVFairness == \A s \in MVSlot : WF_mvVars(MVFire(s)) /\ WF_mvVars(MVRearm(s))

MVSpec == MVInit /\ [][MVNext]_mvVars /\ MVFairness

-----------------------------------------------------------------------------
(* Properties. *)

\* Every variable has its type; a schedule names a slot of its own view and kind.
MVTypeOK ==
  /\ mvStale \in [MVViews -> {"none", "stale", "fresh"}]
  /\ mvTimer \in [MVSlot -> [view : MVViews, by : {"manager", "batch"}, at : {"free", "waiting", "running"}]]
  /\ mvManager \in [MVViews -> 0..MVSlots] /\ mvBatch \in [MVViews -> 0..MVSlots]
  /\ \A v \in MVViews :
       /\ mvManager[v] # 0 => mvTimer[mvManager[v]].view = v /\ mvTimer[mvManager[v]].by = "manager"
       /\ mvBatch[v] # 0 => mvTimer[mvBatch[v]].view = v /\ mvTimer[mvBatch[v]].by = "batch"

\* A schedule is alive: while a view has one, of either kind, the timer it names waits
\* or its task runs, through refreshes that fail, drops, cancellations, and schedules
\* that replace each other.
MVAlive ==
  \A v \in MVViews :
    /\ mvManager[v] # 0 => mvTimer[mvManager[v]].at # "free"
    /\ mvBatch[v] # 0 => mvTimer[mvBatch[v]].at # "free"

\* A cancelled batch schedule ends: its timers that still wait, also the ones a newer
\* schedule lost sight of, fire once more at most.
MVEnds ==
  \A v \in MVViews :
    <>[](mvBatch[v] = 0) => <>[](\A s \in MVSlot : mvTimer[s].at # "free" => mvTimer[s].view # v \/ mvTimer[s].by # "batch")

\* A view with a batch schedule, which nobody replaces any more, is refreshed again and
\* again.
MVKeepsOn ==
  \A v \in MVViews :
    <>[](mvBatch[v] # 0) /\ <>[][~MVBatchSchedule(v)]_mvVars
      => []<>(MVTimers(v, "batch", "running") # {})

-----------------------------------------------------------------------------
(***************************************************************************)
(* batch_connection_pool.py.  PooledConnection is a data class compared by *)
(* its fields, so it has no hash, and acquire, which puts it in a set of   *)
(* active connections, raises TypeError: with the connection already taken *)
(* from the idle ones, or with a new one made, in which case the exception *)
(* is caught and the caller waits.  Nothing is ever active, so nothing is  *)
(* released and nobody is notified.                                        *)
(***************************************************************************)

CONSTANTS
  BPCallers,
  BPMin,   \* min_connections
  BPMax,   \* max_connections
  BPCalls, \* bound: calls of acquire
  BPRounds \* bound: rounds of the maintenance

ASSUME BPAssumption == {BPMin, BPMax, BPCalls, BPRounds} \subseteq Nat /\ BPMin <= BPMax

VARIABLES
  bpIdle,   \* connections in _pool
  bpTotal,  \* total_connections
  bpOpen,   \* connections made and not closed
  bpCaller, \* of each caller: its step in acquire
  bpCalls,
  bpKeeper, \* the maintenance thread: its step, and how many rounds it made
  bpClosed, \* close was called
  bpTaken,  \* history: idle connections that were taken and lost
  bpMade,   \* history: new connections that were lost
  bpLate    \* history: rounds of the maintenance after close

bpVars == <<bpIdle, bpTotal, bpOpen, bpCaller, bpCalls, bpKeeper, bpClosed, bpTaken, bpMade, bpLate>>

\* _initialize_min_connections: the factory may fail each time.
BPInit ==
  /\ bpIdle \in 0..BPMin /\ bpTotal = bpIdle /\ bpOpen = bpIdle
  /\ bpCaller = [c \in BPCallers |-> "out"] /\ bpCalls = 0
  /\ bpKeeper = [at |-> "sleeps", rounds |-> 0]
  /\ bpClosed = FALSE /\ bpTaken = 0 /\ bpMade = 0 /\ bpLate = 0

-----------------------------------------------------------------------------
(* acquire. *)

\* An idle connection is taken, and the TypeError leaves acquire.
BPTake(c, from) ==
  /\ bpCaller[c] = from /\ bpIdle > 0
  /\ bpIdle' = bpIdle - 1 /\ bpTaken' = bpTaken + 1
  /\ bpCaller' = [bpCaller EXCEPT ![c] = "raised"]
  /\ UNCHANGED <<bpTotal, bpOpen, bpKeeper, bpClosed, bpMade, bpLate>>

\* Mutant of BPMadeCounted: the new connection is counted.
BPMadeCountedToo == bpTotal + 1

\* What total_connections is after a connection was made that could not be put in the set.
BPMadeCounted == bpTotal

\* A new connection is made and lost, or the factory fails; then to is taken.
BPMake(c, from, to) ==
  /\ bpCaller[c] = from /\ bpIdle = 0
  /\ \/ bpIdle < BPMax /\ bpOpen' = bpOpen + 1 /\ bpMade' = bpMade + 1 /\ bpTotal' = BPMadeCounted
     \/ UNCHANGED <<bpOpen, bpMade, bpTotal>>
  /\ bpCaller' = [bpCaller EXCEPT ![c] = to]
  /\ UNCHANGED <<bpIdle, bpKeeper, bpClosed, bpTaken, bpLate>>

BPCall(c) ==
  /\ bpCalls < BPCalls /\ bpCalls' = bpCalls + 1
  /\ BPTake(c, "out") \/ BPMake(c, "out", "waiting")

\* Mutant of BPWoken: only a notification wakes.
BPWokenNot == FALSE

\* The wait ends by its timeout: release, the only one to notify, is never reached.
BPWoken == TRUE

\* Once more, and then the deadline has passed.
BPAgain(c) ==
  /\ BPWoken
  /\ BPTake(c, "waiting") \/ BPMake(c, "waiting", "timed out")
  /\ UNCHANGED bpCalls

BPReturn(c) ==
  /\ bpCaller[c] \in {"raised", "timed out"} /\ bpCaller' = [bpCaller EXCEPT ![c] = "out"]
  /\ UNCHANGED <<bpIdle, bpTotal, bpOpen, bpCalls, bpKeeper, bpClosed, bpTaken, bpMade, bpLate>>

-----------------------------------------------------------------------------
(* The maintenance thread and close. *)

\* Mutant of BPLacking: the minimum is made on top of what is there.
BPLackingMore(idle) == BPMin

\* How many connections there are less than the minimum.
BPLacking(idle) == IF idle < BPMin THEN BPMin - idle ELSE 0

\* The thread wakes, closes the stale connections and makes new ones until one fails.
BPRound ==
  /\ bpKeeper.at = "sleeps" /\ bpKeeper.rounds < BPRounds
  /\ \E stale \in 0..bpIdle : \E made \in 0..BPLacking(bpIdle - stale) :
       /\ bpIdle' = (bpIdle - stale) + made /\ bpTotal' = (bpTotal - stale) + made
       /\ bpOpen' = (bpOpen - stale) + made
  /\ bpKeeper' = [at |-> "looks", rounds |-> bpKeeper.rounds + 1]
  /\ bpLate' = IF bpClosed THEN bpLate + 1 ELSE bpLate
  /\ UNCHANGED <<bpCaller, bpCalls, bpClosed, bpTaken, bpMade>>

\* Mutant of BPGoesOn: the loop never ends.
BPGoesOnAlways == TRUE

BPGoesOn == ~bpClosed

BPLook ==
  /\ bpKeeper.at = "looks"
  /\ bpKeeper' = [bpKeeper EXCEPT !.at = IF BPGoesOn THEN "sleeps" ELSE "ended"]
  /\ UNCHANGED <<bpIdle, bpTotal, bpOpen, bpCaller, bpCalls, bpClosed, bpTaken, bpMade, bpLate>>

\* close: it does not wait longer than five seconds for the thread, which sleeps for thirty.
BPClose ==
  /\ ~bpClosed /\ bpClosed' = TRUE
  /\ bpIdle' = 0 /\ bpTotal' = bpTotal - bpIdle /\ bpOpen' = bpOpen - bpIdle
  /\ UNCHANGED <<bpCaller, bpCalls, bpKeeper, bpTaken, bpMade, bpLate>>

BPNext ==
  \/ \E c \in BPCallers : BPCall(c) \/ BPAgain(c) \/ BPReturn(c)
  \/ BPRound \/ BPLook \/ BPClose

BPFairness == \A c \in BPCallers : WF_bpVars(BPAgain(c))

-----------------------------------------------------------------------------
(* Properties. *)

\* Every variable has its type, and there are never more idle connections than the minimum: all
\* that is above it is lost.
BPTypeOK ==
  /\ bpIdle \in 0..BPMin /\ bpClosed \in BOOLEAN /\ bpCalls \in 0..BPCalls
  /\ \A c \in BPCallers : bpCaller[c] \in {"out", "waiting", "raised", "timed out"}
  /\ bpKeeper.at \in {"sleeps", "looks", "ended"}

\* total_connections counts the idle ones and those that were taken and lost, though nobody has
\* them; those that were made and lost are open, and in no count.
BPCounted == bpTotal = bpIdle + bpTaken /\ bpOpen = bpTotal + bpMade

\* After close the maintenance, which slept through it, refills the pool at most once.
BPOnceAfterClose == bpLate <= 1

\* Every call of acquire ends.
BPEnds == \A c \in BPCallers : bpCaller[c] = "waiting" ~> bpCaller[c] # "waiting"
=============================================================================
