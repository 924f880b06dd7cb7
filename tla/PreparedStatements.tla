------------------------- MODULE PreparedStatements -------------------------
(***************************************************************************)
(* Prepared statements of a session: the managers of                       *)
(* prepared_statements.py and their registry, the commands that use them,  *)
(* and batches that prepare, execute and deallocate by a name of their     *)
(* own.  Each call of a manager is one locked section; a command makes     *)
(* several, and keeps the manager it got when the session's is removed.    *)
(*                                                                         *)
(* A text stands for a statement's SQL.  Binding values and the plan that  *)
(* ExecuteCommand caches change nothing here.                              *)
(***************************************************************************)
EXTENDS Naturals, Sequences, FiniteSets, Subsequences

CONSTANTS
  PSTexts,
  PSNorm,        \* [PSTexts -> PSTexts]: _normalize_sql, which lowers literals too
  PSMax,         \* max_statements
  PSClients,
  PSNames,       \* the names a batch gives its statements
  PSMaxIds,      \* bound: statements ever made
  PSMaxManagers  \* bound: managers ever made

ASSUME PSAssumption ==
  /\ PSNorm \in [PSTexts -> PSTexts]
  /\ PSMax \in Nat \ {0} /\ PSMaxIds \in Nat /\ PSMaxManagers \in Nat \ {0}

VARIABLES
  psStmts,    \* _statements of each manager: a sequence of [id, text, old]
  psIndex,    \* _sql_to_id of each manager: 0 for a text that is not in it
  psCurrent,  \* the session's entry in _session_managers, 0 for none
  psMade,     \* how many managers were made
  psNextId,   \* uuid4: ids are not used twice
  psClient,   \* [at, manager, ids]: where a command is, and what it holds
  psNamed     \* prepared_statements of each client's batch: ids by name, 0 for none

psVars == <<psStmts, psIndex, psCurrent, psMade, psNextId, psClient, psNamed>>

PSManagers == 1..PSMaxManagers
PSIdle     == [at |-> "idle", manager |-> 1, ids |-> <<>>]
PSNoNames  == [n \in PSNames |-> 0]

PSInit ==
  /\ psStmts = [m \in PSManagers |-> <<>>] /\ psIndex = [m \in PSManagers |-> [t \in PSTexts |-> 0]]
  /\ psCurrent = 0 /\ psMade = 0 /\ psNextId = 1
  /\ psClient = [c \in PSClients |-> PSIdle] /\ psNamed = [c \in PSClients |-> PSNoNames]

PSIdsOf(stmts) == {stmts[i].id : i \in DOMAIN stmts}

PSWithout(stmts, ids) == Kept(stmts, {i \in DOMAIN stmts : stmts[i].id \notin ids})

\* Mutant of PSForgotten: the index keeps what the expired statements were.
PSForgottenLate(m, index, ids) == index

\* deallocate and _cleanup_expired forget the texts of the statements they remove.
PSForgotten(m, index, ids) ==
  LET texts == {PSNorm[psStmts[m][i].text] : i \in {j \in DOMAIN psStmts[m] : psStmts[m][j].id \in ids}}
  IN  [t \in PSTexts |-> IF t \in texts THEN 0 ELSE index[t]]

\* Mutant of PSFull: one statement too many.
PSFullLate(stmts) == Len(stmts) > PSMax

PSFull(stmts) == Len(stmts) >= PSMax

\* _cleanup_expired, when the manager is full.
PSExpired(m) ==
  IF PSFull(psStmts[m]) THEN {s.id : s \in {psStmts[m][i] : i \in {j \in DOMAIN psStmts[m] : psStmts[m][j].old}}}
                        ELSE {}

\* The statements that are left when those are gone.
PSLeft(m) == PSWithout(psStmts[m], PSExpired(m))

\* What prepare returns: the id of the statement with the same normalized text, or of a new
\* one, or an error, 0, when the manager is full.
PSPrepared(m, text) ==
  LET known == psIndex[m][PSNorm[text]]
  IN  IF known # 0 THEN known ELSE IF PSFull(PSLeft(m)) THEN 0 ELSE psNextId

\* prepare: what it leaves behind.
PSPrepare(m, text) ==
  LET index == PSForgotten(m, psIndex[m], PSExpired(m))
  IN  IF psIndex[m][PSNorm[text]] # 0
      THEN UNCHANGED <<psStmts, psIndex, psNextId>>
      ELSE IF PSFull(PSLeft(m))
      THEN /\ psStmts' = [psStmts EXCEPT ![m] = PSLeft(m)]
           /\ psIndex' = [psIndex EXCEPT ![m] = index]
           /\ UNCHANGED psNextId
      ELSE /\ psNextId <= PSMaxIds
           /\ psStmts' = [psStmts EXCEPT ![m] = Append(PSLeft(m), [id |-> psNextId, text |-> text, old |-> FALSE])]
           /\ psIndex' = [psIndex EXCEPT ![m] = [index EXCEPT ![PSNorm[text]] = psNextId]]
           /\ psNextId' = psNextId + 1

PSDeallocate(m, ids) ==
  /\ psStmts' = [psStmts EXCEPT ![m] = PSWithout(@, ids)]
  /\ psIndex' = [psIndex EXCEPT ![m] = PSForgotten(m, @, ids)]

\* A statement outlives its ttl.
PSAge ==
  \E m \in PSManagers : \E i \in DOMAIN psStmts[m] :
    /\ ~psStmts[m][i].old
    /\ psStmts' = [psStmts EXCEPT ![m][i].old = TRUE]
    /\ UNCHANGED <<psIndex, psCurrent, psMade, psNextId, psClient, psNamed>>

-----------------------------------------------------------------------------
(* The registry. *)

\* get_session_manager, with which every command begins.
PSGetManager(c) ==
  /\ psClient[c].at = "idle"
  /\ IF psCurrent # 0
     THEN /\ psClient' = [psClient EXCEPT ![c] = [@ EXCEPT !.at = "holds", !.manager = psCurrent]]
          /\ UNCHANGED <<psCurrent, psMade>>
     ELSE /\ psMade < PSMaxManagers
          /\ psMade' = psMade + 1 /\ psCurrent' = psMade + 1
          /\ psClient' = [psClient EXCEPT ![c] = [@ EXCEPT !.at = "holds", !.manager = psMade + 1]]
  /\ UNCHANGED <<psStmts, psIndex, psNextId, psNamed>>

\* remove_session_manager.
PSRemoveManager ==
  /\ psCurrent # 0
  /\ PSDeallocate(psCurrent, PSIdsOf(psStmts[psCurrent]))
  /\ psCurrent' = 0
  /\ UNCHANGED <<psMade, psNextId, psClient, psNamed>>

-----------------------------------------------------------------------------
(* The commands. *)

\* PREPARE: prepare, and then get_statement, which may find nothing any more.
PSPrepareCmd(c, text) ==
  /\ psClient[c].at = "holds"
  /\ PSPrepare(psClient[c].manager, text)
  /\ LET id == PSPrepared(psClient[c].manager, text)
     IN  psClient' = [psClient EXCEPT ![c] =
                        IF id = 0 THEN PSIdle ELSE [@ EXCEPT !.at = "prepared", !.ids = <<id>>]]
  /\ UNCHANGED <<psCurrent, psMade, psNamed>>

PSReply(c) ==
  /\ psClient[c].at = "prepared"
  /\ psClient' = [psClient EXCEPT ![c] = PSIdle]
  /\ UNCHANGED <<psStmts, psIndex, psCurrent, psMade, psNextId, psNamed>>

\* EXECUTE and DEALLOCATE look for a name in the texts that list_statements returns;
\* any of the statements may have it.
PSFind(c, texts) ==
  /\ psClient[c].at = "holds"
  /\ LET all   == psStmts[psClient[c].manager]
         found == Kept(all, {i \in DOMAIN all : all[i].text \in texts})
     IN  psClient' = [psClient EXCEPT ![c] =
           IF found = <<>> THEN PSIdle
           ELSE [@ EXCEPT !.at = "found", !.ids = [i \in DOMAIN found |-> found[i].id]]]
  /\ UNCHANGED <<psStmts, psIndex, psCurrent, psMade, psNextId, psNamed>>

\* EXECUTE takes the first: get_statement and execute fail if it is gone meanwhile.
PSExecuteCmd(c) ==
  /\ psClient[c].at = "found"
  /\ psClient' = [psClient EXCEPT ![c] = PSIdle]
  /\ UNCHANGED <<psStmts, psIndex, psCurrent, psMade, psNextId, psNamed>>

\* DEALLOCATE goes on to the next when the first is gone.
PSDeallocateCmd(c) ==
  LET m == psClient[c].manager
      id == Head(psClient[c].ids)
      there == id \in PSIdsOf(psStmts[m])
  IN  /\ psClient[c].at = "found"
      /\ PSDeallocate(m, {id})
      /\ psClient' = [psClient EXCEPT ![c] =
           IF there \/ Len(@.ids) = 1 THEN PSIdle ELSE [@ EXCEPT !.ids = Tail(@)]]
      /\ UNCHANGED <<psCurrent, psMade, psNextId, psNamed>>

\* DEALLOCATE ALL.
PSDeallocateAll(c) ==
  /\ psClient[c].at = "holds"
  /\ PSDeallocate(psClient[c].manager, PSIdsOf(psStmts[psClient[c].manager]))
  /\ psClient' = [psClient EXCEPT ![c] = PSIdle]
  /\ UNCHANGED <<psCurrent, psMade, psNextId, psNamed>>

-----------------------------------------------------------------------------
(* A batch: execute_batch_with_prepared handles these commands one by one before    *)
(* the batch executor sees any of the others; bulk_insert prepares in the same way. *)

PSBatch(c) == psClient[c].at = "holds"

PSBatchPrepare(c, name, text) ==
  /\ PSBatch(c)
  /\ PSPrepare(psClient[c].manager, text)
  /\ LET id == PSPrepared(psClient[c].manager, text)
     IN  psNamed' = IF id = 0 THEN psNamed ELSE [psNamed EXCEPT ![c][name] = id]
  /\ UNCHANGED <<psCurrent, psMade, psClient>>

PSBatchDeallocate(c, names) ==
  /\ PSBatch(c)
  /\ names = PSNames \/ \A n \in names : psNamed[c][n] # 0
  /\ PSDeallocate(psClient[c].manager, {psNamed[c][n] : n \in names})
  /\ psNamed' = [psNamed EXCEPT ![c] = [n \in PSNames |-> IF n \in names THEN 0 ELSE @[n]]]
  /\ UNCHANGED <<psCurrent, psMade, psNextId, psClient>>

\* The end of the list, or a PREPARE or DEALLOCATE that does not parse: the names are
\* forgotten, the statements stay.
PSBatchEnd(c) ==
  /\ PSBatch(c)
  /\ psClient' = [psClient EXCEPT ![c] = PSIdle]
  /\ psNamed' = [psNamed EXCEPT ![c] = PSNoNames]
  /\ UNCHANGED <<psStmts, psIndex, psCurrent, psMade, psNextId>>

PSNext ==
  \/ PSAge \/ PSRemoveManager
  \/ \E c \in PSClients :
       \/ PSGetManager(c) \/ PSReply(c) \/ PSExecuteCmd(c) \/ PSDeallocateCmd(c)
       \/ psNamed[c] = PSNoNames /\ (PSDeallocateAll(c) \/ (\E text \in PSTexts : PSPrepareCmd(c, text))
                                       \/ \E texts \in SUBSET PSTexts : PSFind(c, texts))
       \/ \E name \in PSNames, text \in PSTexts : PSBatchPrepare(c, name, text)
       \/ \E names \in {PSNames} \cup {{n} : n \in PSNames} : PSBatchDeallocate(c, names)
       \/ PSBatchEnd(c)

PSSpec == PSInit /\ [][PSNext]_psVars

-----------------------------------------------------------------------------
(* Properties. *)

\* Every variable has its type; no manager has more than max_statements.
PSTypeOK ==
  /\ psStmts \in [PSManagers -> Seq([id : 1..PSMaxIds, text : PSTexts, old : BOOLEAN])]
  /\ \A m \in PSManagers : Len(psStmts[m]) <= PSMax
  /\ psIndex \in [PSManagers -> [PSTexts -> 0..PSMaxIds]]
  /\ psCurrent \in 0..psMade /\ psMade \in 0..PSMaxManagers /\ psNextId \in 1..(PSMaxIds + 1)
  /\ psClient \in [PSClients -> [at : {"idle", "holds", "prepared", "found"}, manager : PSManagers,
                                 ids : Seq(1..PSMaxIds)]]
  /\ psNamed \in [PSClients -> [PSNames -> 0..PSMaxIds]]

\* What prepare returns can be executed: the index of every manager lists exactly its
\* statements, each under its own text, after any clean-up, deallocation and removal.
PSIndexExact ==
  \A m \in PSManagers : \A t \in PSTexts :
    LET ids == {psStmts[m][i].id : i \in {j \in DOMAIN psStmts[m] : PSNorm[psStmts[m][j].text] = t}}
    IN  ids = {psIndex[m][t]} \ {0}
=============================================================================
