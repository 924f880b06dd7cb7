-------------------------- MODULE DependencyOrders --------------------------
(***************************************************************************)
(* What must be done in the order of its dependencies: refreshing all      *)
(* views (batch_materialized_views.py), and running migrations             *)
(* (schema_migration.py).                                                  *)
(***************************************************************************)
EXTENDS Naturals, Sequences, FiniteSets, SequencesExt

(***************************************************************************)
(* REFRESH ALL of the batch manager of materialized views                  *)
(* (batch_materialized_views.py): it takes the names of the views, sorts   *)
(* them so that a view comes after the views it reads, and refreshes one   *)
(* after the other while other clients create and drop views.              *)
(*                                                                         *)
(* A dependency is read from the query's text in lower case, and found     *)
(* only if the view's name is in lower case too.                           *)
(***************************************************************************)

CONSTANTS
  ROViews,
  ROLower    \* the views whose names are in lower case

ASSUME ROAssumption == ROLower \subseteq ROViews /\ IsFiniteSet(ROViews)

VARIABLES
  roReads,   \* the views each view's query names after FROM or JOIN
  roExists,  \* the keys of views, in the order of their creation
  roQueue,   \* the running REFRESH ALL: the views it has still to refresh
  roDone,    \* history: the views it has refreshed
  roStart    \* history: the views that existed when it began, and still do

roVars == <<roReads, roExists, roQueue, roDone, roStart>>

RONames == {roExists[i] : i \in DOMAIN roExists}

ROInit ==
  /\ roReads \in [ROViews -> SUBSET ROViews]
  /\ roExists = <<>> /\ roQueue = <<>> /\ roDone = {} /\ roStart = {}

\* Mutant of ROFound: only the first of a view's dependencies is followed.
ROFoundOne(v) ==
  LET deps == roReads[v] \cap RONames
  IN  IF deps = {} THEN {} ELSE {CHOOSE d \in deps : TRUE}

\* _extract_dependencies, of those in the graph.
ROFound(v) == roReads[v] \cap RONames \cap ROLower

\* Mutant of ROVisited: a view is visited again for everyone that reads it.
ROVisitedNone(v, path, done) == v \in path

\* visit returns at once on a circle, and on a view it has visited.
ROVisited(v, path, done) == v \in path \/ \E i \in DOMAIN done : done[i] = v

\* visit, in _sort_by_dependencies: the dependencies (a set, in some order) first, then
\* the view; path has the views that are being visited, done is result.
ROVisit[v \in ROViews, path \in SUBSET ROViews, done \in Seq(ROViews)] ==
  IF ROVisited(v, path, done) THEN done
  ELSE Append(FoldLeft(LAMBDA acc, d : ROVisit[d, path \cup {v}, acc], done, SetToSeq(ROFound(v))), v)

\* _sort_by_dependencies.
ROSorted == FoldLeft(LAMBDA acc, v : ROVisit[v, {}, acc], <<>>, roExists)

-----------------------------------------------------------------------------
(* Actions. *)

\* Mutant of ROKnown: create_view takes a name that is taken.
ROKnownNot(v) == FALSE

ROKnown(v) == v \in RONames

\* create_view, at the end of the dictionary, which another client may do meanwhile.
ROCreate(v) ==
  /\ ~ROKnown(v)
  /\ roExists' = Append(roExists, v)
  /\ UNCHANGED <<roReads, roQueue, roDone, roStart>>

\* drop_view.
RODrop(v) ==
  /\ ROKnown(v)
  /\ roExists' = SelectSeq(roExists, LAMBDA u : u # v)
  /\ roStart' = roStart \ {v}
  /\ UNCHANGED <<roReads, roQueue, roDone>>

\* refresh_all_views takes the names and sorts them.
ROBegin ==
  /\ roQueue = <<>> /\ roExists # <<>>
  /\ roQueue' = ROSorted
  /\ roDone' = {} /\ roStart' = RONames
  /\ UNCHANGED <<roReads, roExists>>

\* refresh_view of the next name, which fails when the view is gone; the loop goes on.
RORefresh ==
  /\ roQueue # <<>>
  /\ roQueue' = Tail(roQueue)
  /\ roDone' = IF Head(roQueue) \in RONames THEN roDone \cup {Head(roQueue)} ELSE roDone
  /\ UNCHANGED <<roReads, roExists, roStart>>

RONext ==
  \/ \E v \in ROViews : ROCreate(v) \/ RODrop(v)
  \/ ROBegin \/ RORefresh

ROSpec == ROInit /\ [][RONext]_roVars

-----------------------------------------------------------------------------
(* Properties. *)

\* Every variable has its type.
ROTypeOK ==
  /\ roReads \in [ROViews -> SUBSET ROViews]
  /\ roExists \in Seq(ROViews) /\ Len(roExists) = Cardinality(RONames)
  /\ roQueue \in Seq(ROViews) /\ Len(roQueue) <= Cardinality(ROViews)
  /\ roDone \subseteq ROViews /\ roStart \subseteq RONames

\* The views under v, at most n steps down.
ROBelow[v \in ROViews, n \in Nat] == IF n = 0 THEN {} ELSE UNION {{d} \cup ROBelow[d, n - 1] : d \in roReads[v]}

\* A view whose dependencies are not circular and whose names are in lower case.
ROTame(v) ==
  LET all == {v} \cup ROBelow[v, Cardinality(ROViews)]
  IN  all \subseteq ROLower /\ \A d \in all : d \notin ROBelow[d, Cardinality(ROViews)]

\* "Refresh in dependency order": a view is refreshed after every view it reads that was
\* there from the beginning, also when some of the graph is circular, and while views
\* come and go.
RODependenciesFirst ==
  [][\A v \in ROViews : roQueue # <<>> /\ v = Head(roQueue) /\ RORefresh /\ ROTame(v)
       => roReads[v] \cap roStart \subseteq roDone]_roVars

\* REFRESH ALL leaves out no view that was there from its beginning to its end, with
\* whatever circles, and none comes twice.
ROComplete ==
  /\ roStart \subseteq roDone \cup {roQueue[i] : i \in DOMAIN roQueue}
  /\ \A i, j \in DOMAIN roQueue : roQueue[i] = roQueue[j] => i = j

-----------------------------------------------------------------------------
(***************************************************************************)
(* schema_migration.py and batch_migration.py: migrations of several steps *)
(* with dependencies, run forward and rolled back step by step, any of     *)
(* which may fail.  Both managers hold the same Migration objects.  The    *)
(* histories are written to disk but not read back, so that nothing of     *)
(* them outlives the process that is modelled.                             *)
(***************************************************************************)

CONSTANTS
  SMMigrations, \* bound: migrations made
  SMSteps,      \* bound: steps added
  SMRuns,       \* bound: migrations run, forward or back
  SMSeconds,    \* bound: seconds that pass
  SMLong        \* bound: the migrations that get steps

ASSUME SMAssumption == {SMMigrations, SMSteps, SMRuns, SMSeconds} \subseteq Nat /\ SMLong \subseteq Nat

VARIABLES
  smMade,    \* every migration made: [version, second, steps, status]; a step is its dependencies
  smLocal,   \* _migrations of the migrator, in the order of the dictionary
  smHistory, \* the migrations in its history
  smBatch,   \* those in the batch manager's history, in order
  smDone,    \* the database: the steps whose effect it has, as <<migration, step>>
  smJob,     \* the run under way: its direction, manager and migration, the steps and migrations left
  smSecond, smRuns,
  smOdd,     \* history: migrations whose rollback failed half way, or with steps added after a run
  smRedone   \* history: the batch manager ran a migration of the other history

smVars == <<smMade, smLocal, smHistory, smBatch, smDone, smJob, smSecond, smRuns, smOdd, smRedone>>

SMIdle == [way |-> "idle", batch |-> FALSE, migration |-> 0, steps |-> <<>>, todo |-> <<>>]

SMInit ==
  /\ smMade = <<>> /\ smLocal = <<>> /\ smHistory = {} /\ smBatch = <<>> /\ smDone = {}
  /\ smJob = SMIdle /\ smSecond = 0 /\ smRuns = 0 /\ smOdd = {} /\ smRedone = FALSE

SMSameId(m, n) == smMade[m].version = smMade[n].version /\ smMade[m].second = smMade[n].second

\* get_current_version, 0 without an applied migration.
SMCurrent == Max({0} \cup {smMade[m].version : m \in {n \in smHistory : smMade[n].status = "applied"}})

\* A dictionary with m under its id.
SMPut(list, m) ==
  IF \E i \in DOMAIN list : SMSameId(list[i], m)
  THEN [i \in DOMAIN list |-> IF SMSameId(list[i], m) THEN m ELSE list[i]] ELSE Append(list, m)

-----------------------------------------------------------------------------
(* The definition of migrations. *)

\* Mutant of SMPlaces: a list, not a dictionary.
SMPlacesNot(second) == Append(smLocal, Len(smMade) + 1)

\* The new migration takes the place of one with its id.
SMPlaces(second) ==
  LET same(m) == smMade[m].version = SMCurrent + 1 /\ smMade[m].second = second
  IN  IF \E i \in DOMAIN smLocal : same(smLocal[i])
      THEN [i \in DOMAIN smLocal |-> IF same(smLocal[i]) THEN Len(smMade) + 1 ELSE smLocal[i]]
      ELSE Append(smLocal, Len(smMade) + 1)

\* create_migration: the id is the second and the version, which a pending migration may have too.
SMCreate(later) ==
  /\ smJob = SMIdle /\ Len(smMade) < SMMigrations
  /\ smSecond' = smSecond + later /\ smSecond' <= SMSeconds
  /\ smMade' = Append(smMade, [version |-> SMCurrent + 1, second |-> smSecond', steps |-> <<>>, status |-> "pending"])
  /\ smLocal' = SMPlaces(smSecond')
  /\ UNCHANGED <<smHistory, smBatch, smDone, smJob, smRuns, smOdd, smRedone>>

\* add_step, also to a migration that has run; a dependency may be of a step to come.
SMAddStep(m, dependencies) ==
  /\ smJob = SMIdle /\ m \in ToSet(smLocal) \cap SMLong
  /\ FoldLeft(LAMBDA sum, r : sum + Len(r.steps), 0, smMade) < SMSteps
  /\ smMade' = [smMade EXCEPT ![m].steps = Append(@, dependencies)]
  /\ smOdd' = IF smMade[m].status = "pending" THEN smOdd ELSE smOdd \cup {m}
  /\ UNCHANGED <<smLocal, smHistory, smBatch, smDone, smJob, smSecond, smRuns, smRedone>>

\* record_migration of the batch manager's history.
SMRecord(m) ==
  /\ smJob = SMIdle /\ m \in ToSet(smLocal) \ ToSet(smBatch)
  /\ smBatch' = SMPut(smBatch, m)
  /\ UNCHANGED <<smMade, smLocal, smHistory, smDone, smJob, smSecond, smRuns, smOdd, smRedone>>

-----------------------------------------------------------------------------
(* The runs. *)

SMVisits == [visited : SUBSET Nat, result : Seq(Nat)]

\* visit: a step follows its dependencies; one that is being visited is not waited for.
SMVisit[steps \in Seq(SUBSET Nat), s \in SMVisits, k \in Nat] ==
  IF k \in s.visited \/ k \notin DOMAIN steps THEN s
  ELSE LET below == FoldLeft(LAMBDA t, d : SMVisit[steps, t, d], [s EXCEPT !.visited = @ \cup {k}],
                             SetToSortSeq(steps[k], <))
       IN  [below EXCEPT !.result = Append(@, k)]

SMSorted(steps) ==
  FoldLeft(LAMBDA s, k : SMVisit[steps, s, k], [visited |-> {}, result |-> <<>>], [k \in DOMAIN steps |-> k]).result

\* Mutant of SMBackward: the steps are undone in the order they were done.
SMBackwardNot(steps) == SMSorted(steps)

SMBackward(steps) == Reverse(SMSorted(steps))

\* execute_forward of the first of a list.
SMForward(batch, list) ==
  IF list = <<>> THEN SMIdle
  ELSE [way |-> "up", batch |-> batch, migration |-> Head(list), steps |-> SMSorted(smMade[Head(list)].steps), todo |-> Tail(list)]

\* Mutant of SMAbove: the comparison the wrong way round.
SMAboveNot(version, target) == version < target

SMAbove(version, target) == version > target

\* migrate: the pending migrations in the order of their versions, to the target, if any.
SMMigrate(target) ==
  LET order   == SortSeq([i \in DOMAIN smLocal |-> <<smMade[smLocal[i]].version, i>>],
                         LAMBDA p, q : p[1] < q[1] \/ (p[1] = q[1] /\ p[2] < q[2]))
      chosen  == SelectSeq([i \in DOMAIN order |-> smLocal[order[i][2]]],
                           LAMBDA m : /\ smMade[m].status = "pending"
                                      /\ target # 0 => ~SMAbove(smMade[m].version, target))
  IN  /\ smJob = SMIdle /\ smRuns < SMRuns /\ chosen # <<>>
      /\ smJob' = SMForward(FALSE, chosen)
      /\ UNCHANGED <<smMade, smLocal, smHistory, smBatch, smDone, smSecond, smRuns, smOdd, smRedone>>

\* migrate_up of the batch manager: all that are pending in its history, or one, whatever became of it.
SMUp(list) ==
  /\ smJob = SMIdle /\ smRuns < SMRuns /\ list # <<>>
  /\ smMade' = [smMade EXCEPT ![Head(list)].status = "pending"]
  /\ smJob' = SMForward(TRUE, list)
  /\ smRedone' = (smRedone \/ Head(list) \in smHistory)
  /\ UNCHANGED <<smLocal, smHistory, smBatch, smDone, smSecond, smRuns, smOdd>>

SMPendingBatch == SelectSeq(smBatch, LAMBDA m : smMade[m].status = "pending")

\* execute_rollback, of an applied migration only.
SMBack(batch, m) ==
  /\ smJob = SMIdle /\ smRuns < SMRuns /\ smMade[m].status = "applied"
  /\ smJob' = [way |-> "down", batch |-> batch, migration |-> m, steps |-> SMBackward(smMade[m].steps), todo |-> <<>>]
  /\ UNCHANGED <<smMade, smLocal, smHistory, smBatch, smDone, smSecond, smRuns, smOdd, smRedone>>

\* rollback by id, where the migrator's own entry comes first; rollback_last takes the id of the
\* migration applied last.
SMRollback(m) == m \in ToSet(smLocal) \cup smHistory /\ SMBack(FALSE, m)

SMDown(m) == m \in ToSet(smBatch) /\ SMBack(TRUE, m)

\* One step of the run, done or undone.
SMStep ==
  LET step == <<smJob.migration, Head(smJob.steps)>>
  IN  /\ smJob.steps # <<>>
      /\ smDone' = IF smJob.way = "up" THEN smDone \cup {step} ELSE smDone \ {step}
      /\ smJob' = [smJob EXCEPT !.steps = Tail(@)]
      /\ UNCHANGED <<smMade, smLocal, smHistory, smBatch, smSecond, smRuns, smOdd, smRedone>>

\* Mutant of SMFailed: a failed migration counts as applied.
SMFailedNot == "applied"

SMFailed == "failed"

\* A step raises, forward perhaps by a hook after its SQL: the run ends there.  A failed rollback
\* leaves the status.
SMFail ==
  LET step == <<smJob.migration, Head(smJob.steps)>>
  IN  /\ smJob.steps # <<>> /\ smRuns' = smRuns + 1
      /\ smMade' = IF smJob.way = "up" THEN [smMade EXCEPT ![smJob.migration].status = SMFailed] ELSE smMade
      /\ smDone' \in (IF smJob.way = "up" THEN {smDone, smDone \cup {step}} ELSE {smDone})
      /\ smOdd' = IF smJob.way = "up" THEN smOdd ELSE smOdd \cup {smJob.migration}
      /\ smJob' = SMIdle
      /\ UNCHANGED <<smLocal, smHistory, smBatch, smSecond, smRedone>>

\* The status, and the history; then the next migration of the list, while runs are left.
SMFinish ==
  LET m == smJob.migration
  IN  /\ smJob.way # "idle" /\ smJob.steps = <<>> /\ smRuns' = smRuns + 1
      /\ smMade' = [smMade EXCEPT ![m].status = IF smJob.way = "up" THEN "applied" ELSE "rolled back"]
      /\ smBatch' = IF smJob.batch THEN SMPut(smBatch, m) ELSE smBatch
      /\ smHistory' = IF smJob.batch THEN smHistory ELSE {n \in smHistory : ~SMSameId(n, m)} \cup {m}
      /\ smOdd' = smOdd \ {m}
      /\ smJob' = SMForward(smJob.batch, smJob.todo)
      /\ UNCHANGED <<smLocal, smDone, smSecond, smRedone>>

SMNext ==
  \/ \E later \in {0, 1} : SMCreate(later)
  \/ \E m \in DOMAIN smMade :
       \/ \E dependencies \in SUBSET (1..SMSteps \ {Len(smMade[m].steps) + 1}) : SMAddStep(m, dependencies)
       \/ SMRecord(m) \/ SMRollback(m) \/ SMDown(m)
       \/ m \in ToSet(smBatch) /\ SMUp(<<m>>)
  \/ \E target \in 0..SMMigrations : SMMigrate(target)
  \/ SMUp(SMPendingBatch)
  \/ SMStep \/ SMFail \/ SMFinish

-----------------------------------------------------------------------------
(* Properties. *)

SMLive == ToSet(smLocal) \cup smHistory \cup ToSet(smBatch)

\* Every variable has its type, and no id is twice in a list.
SMTypeOK ==
  /\ \A m \in DOMAIN smMade : smMade[m].status \in {"pending", "applied", "failed", "rolled back"}
  /\ \A m, n \in ToSet(smLocal) : SMSameId(m, n) => m = n
  /\ smHistory \subseteq DOMAIN smMade /\ smOdd \subseteq DOMAIN smMade
  /\ smJob.way \in {"idle", "up", "down"} /\ smRuns \in 0..(SMRuns + SMMigrations) /\ smSecond \in 0..SMSeconds

\* The status of a migration tells the truth about the database: applied, it has all the steps,
\* pending or rolled back, none; unless its rollback failed half way, or it grew after a run.
SMExact ==
  \A m \in SMLive \ (smOdd \cup {smJob.migration}) :
    LET done == {k \in DOMAIN smMade[m].steps : <<m, k>> \in smDone}
    IN  /\ smMade[m].status = "applied" => done = DOMAIN smMade[m].steps
        /\ smMade[m].status \in {"pending", "rolled back"} => done = {}

SMAcyclic(steps) ==
  LET order == SMSorted(steps) IN \A i \in DOMAIN order : steps[order[i]] \cap DOMAIN steps \subseteq {order[j] : j \in 1..(i - 1)}

\* Wherever a run stops, forward or back, the database has no step without those it depends on.
SMClosed ==
  \A m \in SMLive : SMAcyclic(smMade[m].steps) =>
    \A k \in DOMAIN smMade[m].steps : <<m, k>> \in smDone =>
      m \in smOdd \/ \A d \in smMade[m].steps[k] \cap DOMAIN smMade[m].steps : <<m, d>> \in smDone

\* No migration is left behind: one that is pending has no lower version than the one the
\* database has reached, so that it can still be run in order.
SMNotBehind ==
  ~smRedone => \A m \in ToSet(smLocal) : smMade[m].status = "pending" => smMade[m].version >= SMCurrent
=============================================================================
