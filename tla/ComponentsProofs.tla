-------------------------- MODULE ComponentsProofs --------------------------
(***************************************************************************)
(* Proofs about components of MCDataServices one by one, for every value   *)
(* of their constants: those whose states belong to one session, user or   *)
(* tenant, and what is kept to save work or to be merged later (cached     *)
(* results and plans, indexes, estimates, settings, the rows of two        *)
(* masters).  Each has an invariant of its own, XXInv, that says what a    *)
(* call knows between two of its steps, and that each of its steps keeps.  *)
(* ServicesProofs puts them side by side.                                  *)
(***************************************************************************)
EXTENDS ConnectionServer, AccessControl, Tenants, QueryCaches, PreparedStatements,
        BatchExecutor, SelectResults, ManyServers, Integers, FiniteSetTheorems,
        SequenceTheorems, Inductions, TLAPS

-----------------------------------------------------------------------------
(* Sessions of the server, ConnectionServer: what a session's statement    *)
(* knows of its database at each step of it.                               *)

SVNames == SVDatabases \cup {SVNone}

SVStatements == [kind : {"none", "use", "read", "write", "create", "drop"}, db : SVNames,
                 step : {"idle", "check", "open", "find", "put"}, found : SVNames, moved : BOOLEAN]

SVTyped ==
  /\ svEngine \in SVNames /\ svExists \subseteq SVDatabases
  /\ svCurrent \in [SVSessions -> SVNames] /\ svBetween \in [SVSessions -> BOOLEAN]
  /\ svDoing \in [SVSessions -> SVStatements]

\* Who writes, creates or drops has the lock; a statement that puts a row writes; one that creates or drops names a database.
SVHolds(s) ==
  /\ svDoing[s].kind \in {"write", "create", "drop"} => svLock = s
  /\ svDoing[s].step = "put" => svDoing[s].kind = "write"
  /\ svDoing[s].step = "open" => svDoing[s].kind \in {"use", "read", "write"}
  /\ svDoing[s].kind \in {"create", "drop"} => svDoing[s].db \in SVDatabases

\* What a session that chooses a database may find: it is there, or another session came between.
SVFinds(s) ==
  /\ svDoing[s].kind = "use" /\ svDoing[s].step = "check" => svDoing[s].db \in svExists \/ svBetween[s]
  /\ svDoing[s].step = "open" => svDoing[s].db \in svCreated \cup svGhosts /\ svDoing[s].db \in SVDatabases

SVOwns(s) == svCurrent[s] # SVNone /\ ~svBetween[s] => svEngine = svCurrent[s]

SVPuts(s) == svDoing[s].step = "put" /\ ~svDoing[s].moved => svEngine = svDoing[s].found

SVInv ==
  /\ SVTyped /\ SVNoGhosts
  /\ \A s \in SVSessions : SVHolds(s) /\ SVFinds(s) /\ SVOwns(s) /\ SVPuts(s)

LEMMA SVInvOfSessions == SVInv => SVOwnDatabase /\ SVPutWhereFound /\ SVNoGhosts
  BY DEF SVInv, SVOwns, SVPuts, SVOwnDatabase, SVPutWhereFound

LEMMA SVInitInv == SVInit => SVInv
  BY DEF SVInit, SVIdle, SVInv, SVTyped, SVNoGhosts, SVHolds, SVFinds, SVOwns, SVPuts, SVNames, SVStatements

LEMMA SVIdleIs ==
  SVIdle \in SVStatements /\ SVIdle.kind = "none" /\ SVIdle.step = "idle"
  BY DEF SVIdle, SVStatements, SVNames

LEMMA SVBeginInv ==
  ASSUME SVInv, NEW s \in SVSessions, NEW kind \in {"use", "read", "write", "create", "drop"}, NEW db \in SVNames,
         db = SVNone => kind = "write", SVBegin(s, kind, db)
  PROVE  SVInv'
<1> DEFINE doing == [SVIdle EXCEPT !.kind = kind, !.db = db, !.step = IF db = SVNone THEN "find" ELSE "check"]
<1>1. /\ svDoing[s].step = "idle" /\ (kind = "use" => db \in svExists) /\ (kind \in {"write", "create", "drop"} => svLock = SVNone)
      /\ svLock' = (IF kind \in {"write", "create", "drop"} THEN s ELSE svLock) /\ svDoing' = [svDoing EXCEPT ![s] = doing]
      /\ UNCHANGED <<svEngine, svExists, svCurrent, svBetween, svCreated, svGhosts>>
  BY DEF SVBegin, SVLocked, SVThere
<1>2. doing \in SVStatements /\ doing.kind = kind /\ doing.db = db /\ doing.step \in {"find", "check"}
  BY DEF SVIdle, SVStatements, SVNames
<1> HIDE DEF doing
<1>3. svDoing' \in [SVSessions -> SVStatements] /\ svDoing'[s] = doing /\ \A o \in SVSessions \ {s} : svDoing'[o] = svDoing[o]
  BY <1>1, <1>2 DEF SVInv, SVTyped
<1>4. SVTyped' /\ SVNoGhosts'
  BY <1>1, <1>3 DEF SVInv, SVTyped, SVNoGhosts
<1>5. \A o \in SVSessions : SVHolds(o)'
  BY <1>1, <1>2, <1>3, SVAssumption DEF SVInv, SVHolds, SVAssumption, SVNames
<1>6. \A o \in SVSessions : SVFinds(o)' /\ SVOwns(o)' /\ SVPuts(o)'
  BY <1>1, <1>2, <1>3 DEF SVInv, SVFinds, SVOwns, SVPuts
<1>7. QED BY <1>4, <1>5, <1>6 DEF SVInv

\* The session is done with its statement, and nothing that the others rely on has changed.
LEMMA SVEndKeeps ==
  ASSUME SVInv, NEW s \in SVSessions, SVEnd(s)
  PROVE  /\ svDoing' \in [SVSessions -> SVStatements] /\ svDoing'[s] = SVIdle
         /\ \A o \in SVSessions \ {s} : svDoing'[o] = svDoing[o]
         /\ \A o \in SVSessions : SVHolds(o)'
<1>1. svDoing' = [svDoing EXCEPT ![s] = SVIdle] /\ svLock' = IF svLock = s THEN SVNone ELSE svLock
  BY DEF SVEnd, SVEnded
<1>2. /\ svDoing' \in [SVSessions -> SVStatements] /\ svDoing'[s] = SVIdle
      /\ \A o \in SVSessions \ {s} : svDoing'[o] = svDoing[o]
  BY <1>1, SVIdleIs DEF SVInv, SVTyped
<1>3. \A o \in SVSessions : SVHolds(o)'
  BY <1>1, <1>2, SVIdleIs DEF SVInv, SVHolds
<1>4. QED BY <1>2, <1>3

\* The session has chosen its database.
LEMMA SVChosenKeeps ==
  ASSUME SVInv, NEW s \in SVSessions, NEW switched \in BOOLEAN, SVChosen(s, switched), svDoing[s].step \in {"check", "open"},
         svDoing[s].kind \in {"use", "read", "write"}
  PROVE  /\ svDoing' \in [SVSessions -> SVStatements] /\ svCurrent' \in [SVSessions -> SVNames]
         /\ svCurrent'[s] = svDoing[s].db /\ \A o \in SVSessions \ {s} : svCurrent'[o] = svCurrent[o]
         /\ svDoing'[s].step \in {"idle", "find"}
         /\ \A o \in SVSessions \ {s} :
              /\ svDoing'[o].kind = svDoing[o].kind /\ svDoing'[o].step = svDoing[o].step /\ svDoing'[o].db = svDoing[o].db
              /\ svDoing'[o].found = svDoing[o].found
              /\ svDoing'[o].moved = (svDoing[o].moved \/ (switched /\ svDoing[o].step = "put" /\ svLock # s))
         /\ \A o \in SVSessions : SVHolds(o)'
<1>0. SVTyped /\ svDoing[s] \in SVStatements /\ svDoing[s].db \in SVNames
  BY DEF SVInv, SVTyped, SVStatements
<1>1. /\ svCurrent' = [svCurrent EXCEPT ![s] = svDoing[s].db] /\ UNCHANGED svLock
      /\ svDoing' = [o \in SVSessions |->
           IF o = s THEN IF svDoing[s].kind = "use" THEN SVIdle ELSE [svDoing[s] EXCEPT !.step = "find"]
           ELSE [svDoing[o] EXCEPT !.moved = svDoing[o].moved \/ (switched /\ svDoing[o].step = "put" /\ svLock # s)]]
  BY DEF SVChosen
<1>2. svCurrent' \in [SVSessions -> SVNames] /\ svCurrent'[s] = svDoing[s].db /\ \A o \in SVSessions \ {s} : svCurrent'[o] = svCurrent[o]
  BY <1>0, <1>1 DEF SVTyped
<1>3. svDoing'[s] \in SVStatements /\ svDoing'[s].step \in {"idle", "find"}
      /\ (svDoing'[s].kind = "none" \/ svDoing'[s].kind = svDoing[s].kind)
  <2>1. svDoing'[s] = SVIdle \/ svDoing'[s] = [svDoing[s] EXCEPT !.step = "find"]
    BY <1>1
  <2>2. [svDoing[s] EXCEPT !.step = "find"] \in SVStatements /\ [svDoing[s] EXCEPT !.step = "find"].step = "find"
        /\ [svDoing[s] EXCEPT !.step = "find"].kind = svDoing[s].kind
    BY <1>0 DEF SVStatements
  <2>3. QED BY <2>1, <2>2, SVIdleIs
<1>4. ASSUME NEW o \in SVSessions \ {s}
      PROVE  /\ svDoing'[o] \in SVStatements
             /\ svDoing'[o].kind = svDoing[o].kind /\ svDoing'[o].step = svDoing[o].step /\ svDoing'[o].db = svDoing[o].db
             /\ svDoing'[o].found = svDoing[o].found
             /\ svDoing'[o].moved = (svDoing[o].moved \/ (switched /\ svDoing[o].step = "put" /\ svLock # s))
  <2> DEFINE moved == svDoing[o].moved \/ (switched /\ svDoing[o].step = "put" /\ svLock # s)
  <2>1. svDoing[o] \in SVStatements
    BY <1>0 DEF SVTyped
  <2>2. moved \in BOOLEAN
    OBVIOUS
  <2>3. svDoing'[o] = [svDoing[o] EXCEPT !.moved = moved]
    BY <1>1
  <2> HIDE DEF moved
  <2>4. /\ svDoing'[o] \in SVStatements
        /\ svDoing'[o].kind = svDoing[o].kind /\ svDoing'[o].step = svDoing[o].step /\ svDoing'[o].db = svDoing[o].db
        /\ svDoing'[o].found = svDoing[o].found /\ svDoing'[o].moved = moved
    BY <2>1, <2>2, <2>3 DEF SVStatements
  <2>5. QED BY <2>4 DEF moved
<1>5. svDoing' \in [SVSessions -> SVStatements]
  <2>1. \A o \in SVSessions : svDoing'[o] \in SVStatements
    BY <1>3, <1>4
  <2>2. svDoing' = [o \in SVSessions |-> svDoing'[o]]
    BY <1>1
  <2>3. QED BY <2>1, <2>2
<1>6. \A o \in SVSessions : SVHolds(o)'
  BY <1>1, <1>3, <1>4 DEF SVInv, SVHolds
<1>7. QED BY <1>2, <1>3, <1>4, <1>5, <1>6

LEMMA SVCheckInv ==
  ASSUME SVInv, NEW s \in SVSessions, SVCheck(s)
  PROVE  SVInv'
<1> DEFINE db == svDoing[s].db
<1>0. SVTyped /\ svDoing[s].step = "check" /\ svDoing[s].kind \in {"use", "read", "write"} /\ svDoing[s] \in SVStatements
      /\ UNCHANGED <<svEngine, svExists, svCreated, svGhosts>> /\ db \in SVNames
  BY DEF SVInv, SVCheck, SVTyped, SVStatements
<1>1. CASE svEngine = db
  <2>1. SVChosen(s, FALSE) /\ svBetween' = [svBetween EXCEPT ![s] = FALSE]
    BY <1>1 DEF SVCheck, SVHas
  <2>2. /\ svDoing' \in [SVSessions -> SVStatements] /\ svCurrent' \in [SVSessions -> SVNames]
        /\ svCurrent'[s] = db /\ \A o \in SVSessions \ {s} : svCurrent'[o] = svCurrent[o]
        /\ svDoing'[s].step \in {"idle", "find"}
        /\ \A o \in SVSessions \ {s} :
             /\ svDoing'[o].kind = svDoing[o].kind /\ svDoing'[o].step = svDoing[o].step /\ svDoing'[o].db = svDoing[o].db
             /\ svDoing'[o].found = svDoing[o].found /\ svDoing'[o].moved = (svDoing[o].moved \/ FALSE)
        /\ \A o \in SVSessions : SVHolds(o)'
    BY <1>0, <2>1, SVChosenKeeps
  <2>3. svBetween' \in [SVSessions -> BOOLEAN] /\ \A o \in SVSessions \ {s} : svBetween'[o] = svBetween[o]
    BY <1>0, <2>1 DEF SVTyped
  <2>4. SVTyped' /\ SVNoGhosts'
    BY <1>0, <2>2, <2>3 DEF SVInv, SVTyped, SVNoGhosts
  <2>5. \A o \in SVSessions : SVFinds(o)' /\ SVPuts(o)'
    BY <1>0, <2>2, <2>3 DEF SVInv, SVFinds, SVPuts
  <2>6. \A o \in SVSessions : SVOwns(o)'
    BY <1>0, <1>1, <2>2, <2>3 DEF SVInv, SVOwns
  <2>7. QED BY <2>2, <2>4, <2>5, <2>6 DEF SVInv
<1>2. CASE svEngine # db /\ db \notin svExists
  <2>1. SVEnd(s) /\ UNCHANGED svBetween
        /\ svCurrent' = IF svDoing[s].kind = "use" THEN [svCurrent EXCEPT ![s] = db] ELSE svCurrent
    BY <1>2 DEF SVCheck, SVThere
  <2>2. svDoing' \in [SVSessions -> SVStatements] /\ svDoing'[s] = SVIdle
        /\ (\A o \in SVSessions \ {s} : svDoing'[o] = svDoing[o]) /\ \A o \in SVSessions : SVHolds(o)'
    BY <2>1, SVEndKeeps
  <2>3. /\ svCurrent' \in [SVSessions -> SVNames] /\ \A o \in SVSessions \ {s} : svCurrent'[o] = svCurrent[o]
        /\ svDoing[s].kind # "use" => svCurrent' = svCurrent
    BY <1>0, <2>1 DEF SVTyped
  <2>4. svDoing[s].kind = "use" => svBetween[s]
    BY <1>0, <1>2 DEF SVInv, SVFinds
  <2>5. SVTyped' /\ SVNoGhosts'
    BY <1>0, <2>1, <2>2, <2>3 DEF SVInv, SVTyped, SVNoGhosts
  <2>6. \A o \in SVSessions : SVFinds(o)' /\ SVPuts(o)'
    BY <1>0, <2>1, <2>2, SVIdleIs DEF SVInv, SVFinds, SVPuts
  <2>7. \A o \in SVSessions : SVOwns(o)'
    BY <1>0, <2>1, <2>3, <2>4 DEF SVInv, SVOwns
  <2>8. QED BY <2>2, <2>5, <2>6, <2>7 DEF SVInv
<1>3. CASE svEngine # db /\ db \in svExists
  <2>1. svDoing' = [svDoing EXCEPT ![s].step = "open"] /\ UNCHANGED <<svLock, svCurrent, svBetween>>
    BY <1>3 DEF SVCheck, SVThere, SVStep
  <2>2. [svDoing[s] EXCEPT !.step = "open"] \in SVStatements
    BY <1>0 DEF SVStatements
  <2>3. /\ svDoing' \in [SVSessions -> SVStatements] /\ svDoing'[s].step = "open" /\ svDoing'[s].kind = svDoing[s].kind
        /\ svDoing'[s].db = db /\ \A o \in SVSessions \ {s} : svDoing'[o] = svDoing[o]
    BY <1>0, <2>1, <2>2 DEF SVTyped, SVStatements
  <2>4. db \in svCreated \cup svGhosts /\ db \in SVDatabases
    BY <1>0, <1>3 DEF SVInv, SVNoGhosts, SVTyped
  <2>5. SVTyped' /\ SVNoGhosts'
    BY <1>0, <2>1, <2>3 DEF SVInv, SVTyped, SVNoGhosts
  <2>6. \A o \in SVSessions : SVHolds(o)'
    BY <1>0, <2>1, <2>3 DEF SVInv, SVHolds
  <2>7. \A o \in SVSessions : SVFinds(o)'
    BY <1>0, <2>1, <2>3, <2>4 DEF SVInv, SVFinds
  <2>8. \A o \in SVSessions : SVOwns(o)' /\ SVPuts(o)'
    BY <1>0, <2>1, <2>3 DEF SVInv, SVOwns, SVPuts
  <2>9. QED BY <2>5, <2>6, <2>7, <2>8 DEF SVInv
<1>4. QED BY <1>1, <1>2, <1>3

LEMMA SVOpenInv ==
  ASSUME SVInv, NEW s \in SVSessions, SVOpen(s)
  PROVE  SVInv'
<1> DEFINE db == svDoing[s].db
<1>0. SVTyped /\ svDoing[s].step = "open" /\ svDoing[s].kind \in {"use", "read", "write"} /\ db \in SVDatabases
      /\ db \in svCreated \cup svGhosts
  BY DEF SVInv, SVOpen, SVHolds, SVFinds
<1>1. /\ svEngine' = db /\ svExists' = svExists \cup {db} /\ svBetween' = [o \in SVSessions |-> o # s]
      /\ SVChosen(s, TRUE) /\ UNCHANGED <<svCreated, svGhosts>>
  BY DEF SVOpen
<1>2. /\ svDoing' \in [SVSessions -> SVStatements] /\ svCurrent' \in [SVSessions -> SVNames]
      /\ svCurrent'[s] = db /\ \A o \in SVSessions \ {s} : svCurrent'[o] = svCurrent[o]
      /\ svDoing'[s].step \in {"idle", "find"}
      /\ \A o \in SVSessions \ {s} :
           /\ svDoing'[o].kind = svDoing[o].kind /\ svDoing'[o].step = svDoing[o].step /\ svDoing'[o].db = svDoing[o].db
           /\ svDoing'[o].found = svDoing[o].found
           /\ svDoing'[o].moved = (svDoing[o].moved \/ (TRUE /\ svDoing[o].step = "put" /\ svLock # s))
      /\ \A o \in SVSessions : SVHolds(o)'
  BY <1>0, <1>1, SVChosenKeeps
<1>3. SVTyped' /\ SVNoGhosts'
  BY <1>0, <1>1, <1>2 DEF SVInv, SVTyped, SVNoGhosts, SVNames
<1>4. \A o \in SVSessions : SVFinds(o)' /\ SVOwns(o)'
  BY <1>0, <1>1, <1>2 DEF SVInv, SVFinds, SVOwns
\* Who is about to put a row has the lock.
<1>5. ASSUME NEW o \in SVSessions, svDoing'[o].step = "put" PROVE svDoing'[o].moved
  <2>1. o # s /\ svDoing[o].step = "put"
    BY <1>2, <1>5
  <2>2. svLock = o
    BY <2>1 DEF SVInv, SVHolds
  <2>3. QED BY <1>2, <2>1, <2>2
<1>6. \A o \in SVSessions : SVPuts(o)'
  BY <1>5 DEF SVPuts
<1>7. QED BY <1>2, <1>3, <1>4, <1>6 DEF SVInv

LEMMA SVFindInv ==
  ASSUME SVInv, NEW s \in SVSessions, SVFind(s)
  PROVE  SVInv'
<1>0. SVTyped /\ svDoing[s].step = "find" /\ svDoing[s] \in SVStatements
      /\ UNCHANGED <<svEngine, svExists, svCurrent, svBetween, svCreated, svGhosts>>
  BY DEF SVInv, SVTyped, SVFind
<1>1. CASE svCurrent[s] # SVNone /\ svEngine # SVNone /\ svDoing[s].kind = "write"
  <2>1. svDoing' = [svDoing EXCEPT ![s].step = "put", ![s].found = svEngine] /\ UNCHANGED svLock
    BY <1>1 DEF SVFind
  <2>2. /\ svDoing'[s] = [svDoing[s] EXCEPT !.step = "put", !.found = svEngine] /\ svDoing'[s] \in SVStatements
        /\ svDoing'[s].step = "put" /\ svDoing'[s].found = svEngine /\ svDoing'[s].kind = "write"
        /\ svDoing' \in [SVSessions -> SVStatements] /\ \A o \in SVSessions \ {s} : svDoing'[o] = svDoing[o]
    BY <1>0, <1>1, <2>1 DEF SVTyped, SVStatements
  <2>3. SVTyped' /\ SVNoGhosts'
    BY <1>0, <2>2 DEF SVInv, SVTyped, SVNoGhosts
  <2>4. \A o \in SVSessions : SVHolds(o)'
    BY <1>1, <2>1, <2>2 DEF SVInv, SVHolds
  <2>5. \A o \in SVSessions : SVFinds(o)' /\ SVOwns(o)' /\ SVPuts(o)'
    BY <1>0, <2>2 DEF SVInv, SVFinds, SVOwns, SVPuts
  <2>6. QED BY <2>3, <2>4, <2>5 DEF SVInv
<1>2. CASE ~(svCurrent[s] # SVNone /\ svEngine # SVNone /\ svDoing[s].kind = "write")
  <2>1. svDoing' \in [SVSessions -> SVStatements] /\ svDoing'[s] = SVIdle
        /\ (\A o \in SVSessions \ {s} : svDoing'[o] = svDoing[o]) /\ \A o \in SVSessions : SVHolds(o)'
    BY <1>2, SVEndKeeps DEF SVFind
  <2>2. SVTyped' /\ SVNoGhosts'
    BY <1>0, <2>1 DEF SVInv, SVTyped, SVNoGhosts
  <2>3. \A o \in SVSessions : SVFinds(o)' /\ SVOwns(o)' /\ SVPuts(o)'
    BY <1>0, <2>1, SVIdleIs DEF SVInv, SVFinds, SVOwns, SVPuts
  <2>4. QED BY <2>1, <2>2, <2>3 DEF SVInv
<1>3. QED BY <1>1, <1>2

LEMMA SVPutInv ==
  ASSUME SVInv, NEW s \in SVSessions, SVPut(s)
  PROVE  SVInv'
<1>1. UNCHANGED <<svEngine, svExists, svCurrent, svBetween, svCreated, svGhosts>> /\ SVEnd(s)
  BY DEF SVPut
<1>2. svDoing' \in [SVSessions -> SVStatements] /\ svDoing'[s] = SVIdle
      /\ (\A o \in SVSessions \ {s} : svDoing'[o] = svDoing[o]) /\ \A o \in SVSessions : SVHolds(o)'
  BY <1>1, SVEndKeeps
<1>3. SVTyped' /\ SVNoGhosts'
  BY <1>1, <1>2 DEF SVInv, SVTyped, SVNoGhosts
<1>4. \A o \in SVSessions : SVFinds(o)' /\ SVOwns(o)' /\ SVPuts(o)'
  BY <1>1, <1>2, SVIdleIs DEF SVInv, SVFinds, SVOwns, SVPuts
<1>5. QED BY <1>2, <1>3, <1>4 DEF SVInv

LEMMA SVCreateInv ==
  ASSUME SVInv, NEW s \in SVSessions, SVCreate(s)
  PROVE  SVInv'
<1> DEFINE db == svDoing[s].db
<1>1. /\ svExists' = svExists \cup {db} /\ svCreated' = svCreated \cup {db}
      /\ UNCHANGED <<svEngine, svCurrent, svBetween, svGhosts>> /\ SVEnd(s) /\ svDoing[s].kind = "create"
  BY DEF SVCreate
<1>0. db \in SVDatabases
  BY <1>1 DEF SVInv, SVHolds
<1>2. svDoing' \in [SVSessions -> SVStatements] /\ svDoing'[s] = SVIdle
      /\ (\A o \in SVSessions \ {s} : svDoing'[o] = svDoing[o]) /\ \A o \in SVSessions : SVHolds(o)'
  BY <1>1, SVEndKeeps
<1>3. SVTyped' /\ SVNoGhosts'
  BY <1>0, <1>1, <1>2 DEF SVInv, SVTyped, SVNoGhosts
<1>4. \A o \in SVSessions : SVFinds(o)' /\ SVOwns(o)' /\ SVPuts(o)'
  BY <1>1, <1>2, SVIdleIs DEF SVInv, SVFinds, SVOwns, SVPuts
<1>5. QED BY <1>2, <1>3, <1>4 DEF SVInv

LEMMA SVDropInv ==
  ASSUME SVInv, NEW s \in SVSessions, SVDrop(s)
  PROVE  SVInv'
<1> DEFINE db == svDoing[s].db
<1>1. /\ svEngine' = (IF svEngine = db THEN SVNone ELSE svEngine)
      /\ svExists' = svExists \ {db} /\ svCreated' = svCreated \ {db}
      /\ svCurrent' = SVForgotten(s, db)
      /\ svGhosts' = IF \E o \in SVSessions : svDoing[o].step = "open" /\ svDoing[o].db = db
                     THEN svGhosts \cup {db} ELSE svGhosts \ {db}
  BY Zenon DEF SVDrop
<1>2. svBetween' = [o \in SVSessions |-> svBetween[o] \/ o # s] /\ SVEnd(s) /\ svDoing[s].kind = "drop"
  BY DEF SVDrop
<1>0. SVTyped /\ svLock = s
  BY <1>2 DEF SVInv, SVHolds
<1>3. svDoing' \in [SVSessions -> SVStatements] /\ svDoing'[s] = SVIdle
      /\ (\A o \in SVSessions \ {s} : svDoing'[o] = svDoing[o]) /\ \A o \in SVSessions : SVHolds(o)'
  BY <1>2, SVEndKeeps
<1>4. /\ svCurrent' \in [SVSessions -> SVNames] /\ (\A o \in SVSessions \ {s} : svCurrent'[o] = svCurrent[o])
      /\ svCurrent'[s] = IF svCurrent[s] = db THEN SVNone ELSE svCurrent[s]
  BY <1>0, <1>1 DEF SVForgotten, SVTyped, SVNames
<1>5. svBetween' \in [SVSessions -> BOOLEAN] /\ (\A o \in SVSessions \ {s} : svBetween'[o]) /\ (svBetween'[s] <=> svBetween[s])
  BY <1>0, <1>2 DEF SVTyped
<1>6. SVTyped' /\ SVNoGhosts'
  BY <1>0, <1>1, <1>3, <1>4, <1>5 DEF SVInv, SVTyped, SVNoGhosts, SVNames
<1>7. \A o \in SVSessions : SVFinds(o)'
  <2>1. SVFinds(s)'
    BY <1>3, SVIdleIs DEF SVFinds
  <2>2. ASSUME NEW o \in SVSessions \ {s}, svDoing[o].step = "open" PROVE svDoing[o].db \in svCreated' \cup svGhosts'
    <3>1. svDoing[o].db \in svCreated \cup svGhosts
      BY <2>2 DEF SVInv, SVFinds
    <3> HIDE DEF db
    <3>2. svDoing[o].db = db => svGhosts' = svGhosts \cup {db}
      BY <1>1, <2>2
    <3>3. svGhosts' = svGhosts \cup {db} \/ svGhosts' = svGhosts \ {db}
      BY <1>1
    <3>4. QED BY <1>1, <3>1, <3>2, <3>3
  <2>3. ASSUME NEW o \in SVSessions \ {s} PROVE SVFinds(o)'
    BY <1>3, <1>5, <2>2 DEF SVInv, SVFinds
  <2>4. QED BY <2>1, <2>3
<1>8. \A o \in SVSessions : SVOwns(o)'
  BY <1>1, <1>4, <1>5 DEF SVInv, SVOwns
\* No session puts a row while another has the lock.
<1>9. \A o \in SVSessions : svDoing'[o].step # "put"
  BY <1>0, <1>3, SVIdleIs DEF SVInv, SVHolds
<1>10. \A o \in SVSessions : SVPuts(o)'
  BY <1>9 DEF SVPuts
<1>11. QED BY <1>3, <1>6, <1>7, <1>8, <1>10 DEF SVInv

LEMMA SVNextInv == SVInv /\ [SVNext]_svVars => SVInv'
<1>1. ASSUME SVInv, SVNext PROVE SVInv'
  <2>1. PICK s \in SVSessions :
          \/ \E db \in SVDatabases, kind \in {"use", "read", "write", "create", "drop"} : SVBegin(s, kind, db)
          \/ SVBegin(s, "write", SVNone)
          \/ SVCheck(s) \/ SVOpen(s) \/ SVFind(s) \/ SVPut(s) \/ SVCreate(s) \/ SVDrop(s)
    BY <1>1, Zenon DEF SVNext
  <2>2. ASSUME NEW db \in SVDatabases, NEW kind \in {"use", "read", "write", "create", "drop"}, SVBegin(s, kind, db) PROVE SVInv'
    BY <1>1, <2>2, SVBeginInv, SVAssumption DEF SVNames, SVAssumption
  <2>3. ASSUME SVBegin(s, "write", SVNone) PROVE SVInv'
    BY <1>1, <2>3, SVBeginInv DEF SVNames
  <2>4. QED BY <1>1, <2>1, <2>2, <2>3, SVCheckInv, SVOpenInv, SVFindInv, SVPutInv, SVCreateInv, SVDropInv
<1>2. ASSUME SVInv, UNCHANGED svVars PROVE SVInv'
  BY <1>2 DEF svVars, SVInv, SVTyped, SVNoGhosts, SVHolds, SVFinds, SVOwns, SVPuts
<1>3. QED BY <1>1, <1>2

-----------------------------------------------------------------------------
(* Users and grants, ConnectionServer: a call that has the lock has a      *)
(* number of its own, and gives it away with its first put.                *)

\* The entries of both tables, and the call that has the lock.
UGTables == {"users", "grants"}

UGEntries(table) == IF table = "users" THEN ugUsers ELSE ugGrants

\* A call took the next number, and gives it away with its first put.
UGCalls ==
  /\ ugDoing.table \in UGTables
  /\ ugDoing.puts \in {<<"counter", "entry">>, <<"entry">>} /\ ugDoing.number \in Nat /\ ugDoing.replica \in BOOLEAN
  /\ ugDoing.table = "grants" /\ ugDoing.replica => ugDoing.entry.privilege = "REPLICATION_SLAVE"
  /\ \/ ugDoing.puts = <<"counter", "entry">> /\ ugNext[ugDoing.table] = ugDoing.number
     \/ ugDoing.puts = <<"entry">> /\ ugNext[ugDoing.table] = ugDoing.number + 1
  /\ \A e \in UGEntries(ugDoing.table) : e.number < ugDoing.number

UGNumbered ==
  /\ ugNext \in [UGTables -> Nat] /\ {"users", "grants", "replicas"} = DOMAIN ugAnswered
  /\ ugAnswered = [users |-> ugAnswered.users, grants |-> ugAnswered.grants, replicas |-> ugAnswered.replicas]
  /\ \A e \in ugUsers : e.number \in Nat /\ e.number < ugNext.users
  /\ \A e \in ugGrants : e.number \in Nat /\ e.number < ugNext.grants

\* What was answered is there.
UGThere ==
  /\ \A is \in ugAnswered.users : \E u \in ugUsers : u.is = is
  /\ \A is \in ugAnswered.grants : \E g \in ugGrants : g.is = is
  /\ \A name \in ugAnswered.replicas : \E g \in ugGrants : g.is.name = name /\ g.is.privilege = "REPLICATION_SLAVE"

UGInv == UGNumbered /\ UGThere /\ (ugDoing = UGIdle \/ UGCalls)

LEMMA UGInvOfUsers == UGInv => UGAnsweredStay /\ UGReplicas
<1> SUFFICES ASSUME UGInv PROVE UGAnsweredStay /\ UGReplicas
  OBVIOUS
<1>1. ugAnswered.users \subseteq {u.is : u \in ugUsers}
  BY DEF UGInv, UGThere
<1>2. ASSUME NEW is \in ugAnswered.grants, NEW database \in UGDatabases, is.database \in {UGAny, database}
      PROVE  UGChecks(is.name, database, is.privilege)
  BY <1>2 DEF UGInv, UGThere, UGChecks
<1>3. UGAnsweredStay
  BY <1>1, <1>2 DEF UGAnsweredStay
<1>4. UGReplicas
  BY DEF UGInv, UGThere, UGReplicas, UGIsReplica
<1>5. QED BY <1>3, <1>4

LEMMA UGInitInv == UGInit => UGInv
<1> SUFFICES ASSUME UGInit PROVE UGInv
  OBVIOUS
<1>1. ugDoing = UGIdle /\ ugUsers = {} /\ ugGrants = {} /\ ugNext = [users |-> 1, grants |-> 1]
      /\ ugAnswered = [users |-> {}, grants |-> {}, replicas |-> {}]
  BY DEF UGInit
<1>2. QED BY <1>1 DEF UGInv, UGNumbered, UGThere, UGTables

LEMMA UGBusy ==
  ASSUME UGInv, ugDoing # UGIdle
  PROVE  UGCalls
BY DEF UGInv

LEMMA UGIdleIs == UGIdle.table = "none"
BY DEF UGIdle

LEMMA UGCallInv ==
  ASSUME UGInv, NEW table \in UGTables, NEW entry, NEW replica \in BOOLEAN, UGCall(table, entry, replica),
         table = "grants" /\ replica => entry.privilege = "REPLICATION_SLAVE",
         UNCHANGED <<ugUsers, ugGrants, ugNext, ugAnswered>>
  PROVE  UGInv'
<1>1. ugDoing' = [table |-> table, puts |-> <<"counter", "entry">>, replica |-> replica, entry |-> entry, number |-> ugNext[table]]
  BY DEF UGCall, UGPuts
<1>2. ugNext[table] \in Nat /\ \A e \in UGEntries(table) : e.number < ugNext[table]
  BY DEF UGInv, UGNumbered, UGTables, UGEntries
<1>3. UGEntries(table)' = UGEntries(table)
  BY DEF UGEntries
<1>4. UGCalls'
  BY <1>1, <1>2, <1>3 DEF UGCalls, UGEntries
<1>5. UGNumbered' /\ UGThere'
  BY DEF UGInv, UGNumbered, UGThere
<1>6. QED BY <1>4, <1>5 DEF UGInv

LEMMA UGPutInv ==
  ASSUME UGInv, UGPut
  PROVE  UGInv'
<1> DEFINE table == ugDoing.table
           number == ugDoing.number
           entry == ugDoing.entry
<1>0. /\ UGCalls /\ table \in UGTables /\ number \in Nat /\ UGNumbered /\ UGThere
      /\ \A e \in UGEntries(table) : e.number < number
  BY UGBusy DEF UGPut, UGCalls, UGInv
<1>1. CASE ugDoing.puts = <<"counter", "entry">>
  <2>1. Head(ugDoing.puts) = "counter" /\ Len(ugDoing.puts) = 2 /\ Tail(ugDoing.puts) = <<"entry">> /\ 2 # 1
    BY <1>1
  <2>2. /\ ugNext' = [ugNext EXCEPT ![table] = number + 1] /\ UNCHANGED <<ugUsers, ugGrants, ugAnswered>>
        /\ ugDoing' = [ugDoing EXCEPT !.puts = <<"entry">>]
    BY <2>1 DEF UGPut
  <2>3. ugNext[table] = number
    BY <1>0, <1>1 DEF UGCalls
  <2>4. ugNext' \in [UGTables -> Nat] /\ ugNext'[table] = number + 1 /\ \A o \in UGTables : ugNext[o] <= ugNext'[o]
    BY <1>0, <2>2, <2>3 DEF UGNumbered
  <2>5. /\ ugDoing'.table = table /\ ugDoing'.puts = <<"entry">> /\ ugDoing'.number = number /\ ugDoing'.replica = ugDoing.replica
        /\ ugDoing'.entry = entry
    BY <2>2
  <2>6. UGNumbered'
    <3>1. \A e \in ugUsers : e.number < ugNext'["users"]
      BY <1>0, <2>4 DEF UGNumbered, UGTables
    <3>2. \A e \in ugGrants : e.number < ugNext'["grants"]
      BY <1>0, <2>4 DEF UGNumbered, UGTables
    <3>3. QED BY <1>0, <2>2, <2>4, <3>1, <3>2 DEF UGNumbered
  <2>7. UGThere'
    BY <1>0, <2>2 DEF UGThere
  <2>8. UGCalls'
    <3>1. UGEntries(table)' = UGEntries(table)
      BY <2>2, <2>5 DEF UGEntries
    <3>2. QED BY <1>0, <2>2, <2>4, <2>5 DEF UGCalls, UGEntries
  <2>9. QED BY <2>6, <2>7, <2>8 DEF UGInv
<1>2. CASE ugDoing.puts = <<"entry">>
  <2>1. Head(ugDoing.puts) = "entry" /\ Len(ugDoing.puts) = 1
    BY <1>2
  <2>2. /\ ugNext' = ugNext /\ UGReturn
        /\ ugUsers' = IF table = "users" THEN UGWith(ugUsers) ELSE ugUsers
        /\ ugGrants' = IF table = "grants" THEN UGWith(ugGrants) ELSE ugGrants
    BY <2>1 DEF UGPut
  <2>3. ugNext[table] = number + 1
    BY <1>0, <1>2 DEF UGCalls
  <2> DEFINE new == [number |-> number, is |-> entry]
  <2>4. table = "users" => ugUsers' = ugUsers \cup {new} /\ ugGrants' = ugGrants
    <3>1. table = "users" => {e \in ugUsers : e.number # number} = ugUsers
      BY <1>0 DEF UGEntries, UGNumbered
    <3>2. QED BY <2>2, <3>1 DEF UGWith
  <2>5. table = "grants" => ugGrants' = ugGrants \cup {new} /\ ugUsers' = ugUsers
    <3>1. table = "grants" => {e \in ugGrants : e.number # number} = ugGrants
      BY <1>0 DEF UGEntries, UGNumbered
    <3>2. QED BY <2>2, <3>1 DEF UGWith
  <2>6. new.number = number /\ new.is = entry
    OBVIOUS
  <2> HIDE DEF new
  <2>7. /\ ugDoing' = UGIdle
        /\ ugAnswered' = [ugAnswered EXCEPT ![table] = @ \cup {entry},
                            !.replicas = IF table = "grants" /\ ugDoing.replica THEN @ \cup {entry.name} ELSE @]
    BY <2>2 DEF UGReturn
  <2>8. /\ ugAnswered'.users = IF table = "users" THEN ugAnswered.users \cup {entry} ELSE ugAnswered.users
        /\ ugAnswered'.grants = IF table = "grants" THEN ugAnswered.grants \cup {entry} ELSE ugAnswered.grants
        /\ ugAnswered'.replicas = IF table = "grants" /\ ugDoing.replica THEN ugAnswered.replicas \cup {entry.name} ELSE ugAnswered.replicas
        /\ {"users", "grants", "replicas"} = DOMAIN ugAnswered'
    BY <1>0, <2>7 DEF UGNumbered, UGTables
  <2>9. UGNumbered'
    <3>1. ugAnswered' = [users |-> ugAnswered'.users, grants |-> ugAnswered'.grants, replicas |-> ugAnswered'.replicas]
      <4>1. table \in UGTables /\ ugAnswered = [users |-> ugAnswered.users, grants |-> ugAnswered.grants, replicas |-> ugAnswered.replicas]
        BY <1>0 DEF UGNumbered
      <4>2. QED BY <2>7, <4>1 DEF UGTables
    <3>2. \A e \in ugUsers' : e.number \in Nat /\ e.number < ugNext.users
      BY <1>0, <2>3, <2>4, <2>5, <2>6 DEF UGNumbered, UGTables
    <3>3. \A e \in ugGrants' : e.number \in Nat /\ e.number < ugNext.grants
      BY <1>0, <2>3, <2>4, <2>5, <2>6 DEF UGNumbered, UGTables
    <3>4. QED BY <1>0, <2>2, <2>8, <3>1, <3>2, <3>3 DEF UGNumbered
  <2>10. UGThere'
    <3>1. CASE table = "users"
      BY <1>0, <2>4, <2>6, <2>8, <3>1 DEF UGThere
    <3>2. CASE table = "grants"
      <4>1. ugDoing.replica => entry.privilege = "REPLICATION_SLAVE"
        BY <1>0, <3>2 DEF UGCalls
      <4>2. QED BY <1>0, <2>5, <2>6, <2>8, <3>2, <4>1 DEF UGThere
    <3>3. QED BY <1>0, <3>1, <3>2 DEF UGTables
  <2>11. QED BY <2>7, <2>9, <2>10 DEF UGInv
<1>3. QED BY <1>0, <1>1, <1>2 DEF UGCalls

LEMMA UGNextInv == UGInv /\ [UGNext]_ugVars => UGInv'
<1> SUFFICES ASSUME UGInv, [UGNext]_ugVars PROVE UGInv'
  OBVIOUS
<1>1. CASE UGCreateUser
  <2>1. /\ UNCHANGED <<ugUsers, ugGrants, ugNext, ugAnswered>>
        /\ \E name \in UGNames, admin \in BOOLEAN, replica \in BOOLEAN : UGCall("users", [name |-> name, admin |-> admin], replica)
    BY <1>1, Zenon DEF UGCreateUser
  <2>2. PICK entry : \E replica \in BOOLEAN : UGCall("users", entry, replica)
    BY <2>1, Zenon
  <2>3. "users" \in UGTables /\ "users" # "grants"
    BY DEF UGTables
  <2>4. PICK replica \in BOOLEAN : UGCall("users", entry, replica)
    BY <2>2
  <2>5. QED BY <2>1, <2>3, <2>4, UGCallInv
<1>2. CASE UGGrantPrivilege
  <2>1. /\ UNCHANGED <<ugUsers, ugGrants, ugNext, ugAnswered>>
        /\ \E entry : \E replica \in BOOLEAN : UGCall("grants", entry, replica) /\ (replica => entry.privilege = "REPLICATION_SLAVE")
    <3>1. \A name : UGReplicaEntry(name).privilege = "REPLICATION_SLAVE"
      BY DEF UGReplicaEntry
    <3>2. (\E entry : UGCall("grants", entry, FALSE)) \/ \E name : UGCall("grants", UGReplicaEntry(name), TRUE)
      BY <1>2, Zenon DEF UGGrantPrivilege
    <3>3. UNCHANGED <<ugUsers, ugGrants, ugNext, ugAnswered>>
      BY <1>2, Zenon DEF UGGrantPrivilege
    <3>4. QED BY <3>1, <3>2, <3>3, Zenon
  <2>2. PICK entry : \E replica \in BOOLEAN : UGCall("grants", entry, replica) /\ (replica => entry.privilege = "REPLICATION_SLAVE")
    BY <2>1, Zenon
  <2>3. "grants" \in UGTables
    BY DEF UGTables
  <2>4. PICK replica \in BOOLEAN : UGCall("grants", entry, replica) /\ (replica => entry.privilege = "REPLICATION_SLAVE")
    BY <2>2
  <2>5. QED BY <2>1, <2>3, <2>4, UGCallInv
<1>3. CASE UGPut
  BY <1>3, UGPutInv
<1>4. CASE UGDies
  <2>1. ugDoing' = UGIdle /\ UNCHANGED <<ugUsers, ugGrants, ugNext, ugAnswered>>
    BY <1>4 DEF UGDies
  <2>2. QED BY <2>1 DEF UGInv, UGNumbered, UGThere
<1>5. CASE UGLogin \/ UNCHANGED ugVars
  <2>1. UNCHANGED <<ugDoing, ugUsers, ugGrants, ugNext, ugAnswered>>
    BY <1>5 DEF UGLogin, ugVars
  <2>2. QED BY <2>1 DEF UGInv, UGNumbered, UGThere, UGCalls, UGEntries
<1>6. QED BY <1>1, <1>2, <1>3, <1>4, <1>5 DEF UGNext

-----------------------------------------------------------------------------
(* Query screening and the audit log, AccessControl: the entries are       *)
(* numbered and chained as they were made, and the file has them in this   *)
(* order.                                                                  *)

AUSteps == [at : {"idle", "making", "looking", "keeping", "logging"}, user : AUUsers \cup {""}, query : AUQueries \cup {""},
            list : Nat, score : Nat]

AUEntries == [id : Nat, prev : Nat, kind : {"query", "policy_violation"}, user : AUUsers, query : AUQueries]

AUTyped ==
  /\ auHistory \in [AUUsers -> 0..Len(auLists)] /\ auLists \in Seq(Seq(AUQueries))
  /\ auThread \in [AUThreads -> AUSteps]
  /\ auEvents \in Seq(AUEntries) /\ auFile \in Seq(AUEntries) /\ auFailed \subseteq 1..Len(auEvents)
  /\ \A t \in AUThreads : /\ auThread[t].at # "idle" => auThread[t].user \in AUUsers /\ auThread[t].query \in AUQueries
                          /\ auThread[t].list \in 0..Len(auLists)

\* A query a user asked: in an event, or in a call that is about to log it.
AUNoted(u, q) == \E i \in 1..Len(auEvents) : auEvents[i].user = u /\ auEvents[i].query = q

AULogging(t, u, q) == auThread[t].at = "logging" /\ auThread[t].user = u /\ auThread[t].query = q

AUAsked(u, q) == AUNoted(u, q) \/ \E t \in AUThreads : AULogging(t, u, q)

\* A list is one user's, and so are the queries in it.
AUOwned ==
  /\ \A u, v \in AUUsers : auHistory[u] # 0 /\ auHistory[u] = auHistory[v] => u = v
  /\ \A t \in AUThreads : /\ auThread[t].at = "looking" => auHistory[auThread[t].user] # 0
                          /\ auThread[t].at = "keeping" =>
                               /\ auThread[t].list # 0
                               /\ \A u \in AUUsers : auHistory[u] = auThread[t].list => u = auThread[t].user
  /\ \A u \in AUUsers : auHistory[u] # 0 => \A q \in ToSet(auLists[auHistory[u]]) : AUAsked(u, q)

\* A score is that of the query, unless the user asked it before.
AUScoredOf(t) ==
  LET s == auThread[t]
  IN  /\ s.score \in {AUScore[s.query], AUScore[s.query] + AURepeat}
      /\ \/ s.score = AUScore[s.query]
         \/ AUNoted(s.user, s.query)
         \/ \E o \in AUThreads \ {t} : AULogging(o, s.user, s.query)

AUScored == \A t \in AUThreads : auThread[t].at \in {"keeping", "logging"} => AUScoredOf(t)

AUInv == AUTyped /\ AUChain /\ AUVerdicts /\ AUOwned /\ AUScored

LEMMA AUInitInv == AUInit => AUInv
<1> SUFFICES ASSUME AUInit PROVE AUInv
  OBVIOUS
<1>1. /\ auHistory = [u \in AUUsers |-> 0] /\ auLists = <<>> /\ auThread = [t \in AUThreads |-> AUIdle]
      /\ auEvents = <<>> /\ auFile = <<>> /\ auFailed = {}
  BY DEF AUInit
<1>2. Len(<<>>) = 0 /\ DOMAIN <<>> = {} /\ ToSet(<<>>) = {}
  BY DEF ToSet
<1>3. AUTyped
  <2>1. auThread \in [AUThreads -> AUSteps] /\ \A t \in AUThreads : auThread[t].at = "idle" /\ auThread[t].list = 0
    BY <1>1 DEF AUIdle, AUSteps
  <2>2. <<>> \in Seq(Seq(AUQueries)) /\ <<>> \in Seq(AUEntries)
    OBVIOUS
  <2>3. auHistory \in [AUUsers -> 0..Len(auLists)]
    BY <1>1, <1>2
  <2>4. QED BY <1>1, <1>2, <2>1, <2>2, <2>3 DEF AUTyped
<1>4. AUChain /\ AUVerdicts
  BY <1>1, <1>2 DEF AUChain, AUVerdicts
<1>5. AUOwned /\ AUScored
  BY <1>1 DEF AUOwned, AUScored, AUIdle
<1>6. QED BY <1>3, <1>4, <1>5 DEF AUInv

LEMMA AUAppendSet ==
  ASSUME NEW S, NEW s \in Seq(S), NEW e \in S
  PROVE  ToSet(Append(s, e)) = ToSet(s) \cup {e}
<1>1. DOMAIN s = 1..Len(s) /\ DOMAIN Append(s, e) = 1..(Len(s) + 1) /\ Append(s, e)[Len(s) + 1] = e /\ Len(s) \in Nat
      /\ \A i \in 1..Len(s) : Append(s, e)[i] = s[i]
  OBVIOUS
<1>2. QED BY <1>1 DEF ToSet

\* The oldest query leaves a list.
LEMMA AUTrimmedOf ==
  ASSUME NEW S, NEW s \in Seq(S)
  PROVE  AUTrimmed(s) \in Seq(S) /\ ToSet(AUTrimmed(s)) \subseteq ToSet(s)
<1>1. CASE AUTrimmed(s) = s
  BY <1>1
<1>2. CASE AUTrimmed(s) = Tail(s) /\ s # <<>>
  <2>1. Tail(s) \in Seq(S) /\ Len(Tail(s)) = Len(s) - 1 /\ \A i \in 1..(Len(s) - 1) : Tail(s)[i] = s[i + 1]
    BY <1>2
  <2>2. \A i \in 1..Len(Tail(s)) : i + 1 \in 1..Len(s)
    BY <2>1
  <2>3. QED BY <1>2, <2>1, <2>2 DEF ToSet
<1>3. AUTrimmed(s) # s => AUTrimmed(s) = Tail(s) /\ s # <<>>
  BY AUAssumption DEF AUTrimmed, AUAssumption
<1>4. QED BY <1>1, <1>2, <1>3

\* One step of a thread, with what every thread may rely on.
LEMMA AUThreadStep ==
  ASSUME AUTyped, NEW t \in AUThreads, auThread[t].at # "idle"
  PROVE  /\ auThread[t] \in AUSteps /\ auThread[t].user \in AUUsers /\ auThread[t].query \in AUQueries
         /\ auThread[t].list \in 0..Len(auLists) /\ Len(auLists) \in Nat /\ auHistory[auThread[t].user] \in 0..Len(auLists)
         /\ Len(auEvents) \in Nat
BY DEF AUTyped

\* No event, and who was to log something still is.
LEMMA AULoggedStays ==
  ASSUME auEvents' = auEvents, \A o \in AUThreads : auThread[o].at = "logging" => auThread'[o] = auThread[o]
  PROVE  /\ AUVerdicts => AUVerdicts'
         /\ \A v, p : (AUNoted(v, p) => AUNoted(v, p)') /\ (AUAsked(v, p) => AUAsked(v, p)')
         /\ \A o \in AUThreads : \A v, p : AULogging(o, v, p) => AULogging(o, v, p)'
         /\ \A o \in AUThreads : AUScoredOf(o) /\ auThread'[o] = auThread[o] => AUScoredOf(o)'
<1>1. \A o \in AUThreads : \A v, p : AULogging(o, v, p) => AULogging(o, v, p)'
  BY DEF AULogging
<1>2. \A v, p : AUNoted(v, p) => AUNoted(v, p)'
  BY DEF AUNoted
<1>3. \A v, p : AUAsked(v, p) => AUAsked(v, p)'
  BY <1>1, <1>2 DEF AUAsked
<1>4. AUVerdicts => AUVerdicts'
  BY DEF AUVerdicts
<1>5. ASSUME NEW o \in AUThreads, AUScoredOf(o), auThread'[o] = auThread[o] PROVE AUScoredOf(o)'
  BY <1>1, <1>2, <1>5 DEF AUScoredOf
<1>6. QED BY <1>1, <1>2, <1>3, <1>4, <1>5

LEMMA AUCallInv ==
  ASSUME AUInv, NEW t \in AUThreads, NEW u \in AUUsers, NEW q \in AUQueries, AUCall(t, u, q)
  PROVE  AUInv'
<1> DEFINE step == [AUIdle EXCEPT !.at = IF auHistory[u] = 0 THEN "making" ELSE "looking", !.user = u, !.query = q]
<1>1. /\ auThread[t].at = "idle" /\ auThread' = [auThread EXCEPT ![t] = step]
      /\ UNCHANGED <<auHistory, auLists, auEvents, auFile, auFailed>>
  BY DEF AUCall
<1>2. /\ step \in AUSteps /\ step.at \in {"making", "looking"} /\ step.user = u /\ step.query = q /\ step.list = 0
      /\ (step.at = "looking" => auHistory[u] # 0)
  BY DEF AUIdle, AUSteps
<1> HIDE DEF step
<1>3. /\ auThread' \in [AUThreads -> AUSteps] /\ auThread'[t] = step
      /\ \A o \in AUThreads \ {t} : auThread'[o] = auThread[o]
      /\ \A o \in AUThreads : auThread'[o] = auThread[o] \/ auThread'[o] = step
  BY <1>1, <1>2 DEF AUInv, AUTyped
<1>4. AUTyped'
  <2>1. AUTyped
    BY DEF AUInv
  <2>2. Len(auLists) \in Nat
    BY <2>1 DEF AUTyped
  <2>3. QED BY <1>1, <1>2, <1>3, <2>1, <2>2 DEF AUTyped
<1>5. \A o \in AUThreads : auThread'[o].at \in {"keeping", "logging"} => auThread'[o] = auThread[o]
  BY <1>2, <1>3
<1>6. \A o \in AUThreads : auThread[o].at = "logging" => auThread'[o] = auThread[o]
  BY <1>1, <1>3
<1>7. AUChain'
  BY <1>1 DEF AUInv, AUChain
<1>8. AUVerdicts'
  BY <1>1, <1>6, AULoggedStays DEF AUInv
<1>9. \A v, p : AUAsked(v, p) => AUAsked(v, p)'
  BY <1>1, <1>6, AULoggedStays
<1>10. AUOwned'
  BY <1>1, <1>2, <1>3, <1>5, <1>9 DEF AUInv, AUOwned
<1>11. AUScored'
  BY <1>1, <1>5, <1>6, AULoggedStays DEF AUInv, AUScored
<1>12. QED BY <1>4, <1>7, <1>8, <1>10, <1>11 DEF AUInv

LEMMA AUMakeInv ==
  ASSUME AUInv, NEW t \in AUThreads, AUMake(t)
  PROVE  AUInv'
<1> DEFINE u == auThread[t].user
           n == Len(auLists) + 1
<1>0. AUTyped /\ auThread[t].at = "making" /\ u \in AUUsers /\ Len(auLists) \in Nat
  BY AUThreadStep DEF AUInv, AUMake
<1>1. /\ auLists' = Append(auLists, <<>>) /\ Len(auLists') = n /\ auHistory' = [auHistory EXCEPT ![u] = n]
      /\ auThread' = [auThread EXCEPT ![t].at = "looking"] /\ UNCHANGED <<auEvents, auFile, auFailed>>
      /\ auLists' \in Seq(Seq(AUQueries)) /\ auLists'[n] = <<>> /\ n \in Nat /\ n # 0
      /\ \A i \in 1..Len(auLists) : auLists'[i] = auLists[i]
  <2>1. auLists' = Append(auLists, <<>>) /\ auLists \in Seq(Seq(AUQueries)) /\ <<>> \in Seq(AUQueries)
    BY <1>0 DEF AUMake, AUTyped
  <2>2. /\ Len(auLists') = n /\ auLists' \in Seq(Seq(AUQueries)) /\ auLists'[n] = <<>>
        /\ \A i \in 1..Len(auLists) : auLists'[i] = auLists[i]
    BY <2>1, AppendProperties
  <2>3. n \in Nat /\ n # 0
    BY <1>0
  <2>4. QED BY <2>1, <2>2, <2>3 DEF AUMake
<1>2. /\ auThread' \in [AUThreads -> AUSteps] /\ auThread'[t] = [auThread[t] EXCEPT !.at = "looking"]
      /\ \A o \in AUThreads \ {t} : auThread'[o] = auThread[o]
      /\ \A o \in AUThreads : auThread'[o].user = auThread[o].user /\ auThread'[o].query = auThread[o].query
                              /\ auThread'[o].list = auThread[o].list
      /\ auThread'[t].at = "looking"
  <2>1. [auThread[t] EXCEPT !.at = "looking"] \in AUSteps
    BY <1>0, AUThreadStep DEF AUSteps
  <2>2. QED BY <1>0, <1>1, <2>1 DEF AUTyped, AUSteps
<1> HIDE DEF n
<1>a. \A v \in AUUsers : auHistory[v] \in 0..Len(auLists) /\ auHistory'[v] = IF v = u THEN n ELSE auHistory[v]
  BY <1>0, <1>1 DEF AUTyped
<1>b. n \notin 0..Len(auLists) /\ \A i \in 0..Len(auLists) : i \in 0..n
  BY <1>0 DEF n
<1>4. AUTyped'
  <2>1. auHistory' \in [AUUsers -> 0..n]
    <3>1. n \in 0..n
      BY <1>1
    <3>2. \A v \in AUUsers : auHistory'[v] \in 0..n
      BY <1>a, <1>b, <3>1
    <3>3. auHistory' = [v \in AUUsers |-> auHistory'[v]]
      BY <1>0, <1>1 DEF AUTyped
    <3> HIDE DEF u
    <3>4. QED BY <3>2, <3>3
  <2>2. \A o \in AUThreads : /\ auThread'[o].at # "idle" => auThread'[o].user \in AUUsers /\ auThread'[o].query \in AUQueries
                             /\ auThread'[o].list \in 0..n
    <3>1. \A o \in AUThreads : auThread[o].list \in 0..Len(auLists)
      BY <1>0 DEF AUTyped
    <3>2. \A o \in AUThreads : auThread'[o].at # "idle" => auThread[o].at # "idle"
      BY <1>0, <1>2
    <3>3. QED BY <1>0, <1>2, <1>b, <3>1, <3>2 DEF AUTyped
  <2>3. QED BY <1>0, <1>1, <1>2, <2>1, <2>2 DEF AUTyped
<1>5. \A o \in AUThreads : auThread'[o].at \in {"keeping", "logging"} => auThread'[o] = auThread[o]
  BY <1>2
<1>6. \A o \in AUThreads : auThread[o].at = "logging" => auThread'[o] = auThread[o]
  BY <1>0, <1>2
<1>7. AUChain'
  BY <1>1 DEF AUInv, AUChain
<1>8. AUVerdicts'
  BY <1>1, <1>6, AULoggedStays DEF AUInv
<1>9. \A v, p : AUAsked(v, p) => AUAsked(v, p)'
  BY <1>1, <1>6, AULoggedStays
<1>10. AUOwned'
  <2>1. \A v, w \in AUUsers : auHistory'[v] # 0 /\ auHistory'[v] = auHistory'[w] => v = w
    BY <1>a, <1>b DEF AUInv, AUOwned
  <2>2. ASSUME NEW o \in AUThreads, auThread'[o].at = "looking" PROVE auHistory'[auThread'[o].user] # 0
    <3>1. CASE o = t
      BY <1>0, <1>1, <1>2, <1>a, <3>1
    <3>2. CASE o # t
      <4>1. auThread'[o] = auThread[o] /\ auThread[o].user \in AUUsers /\ auHistory[auThread[o].user] # 0
        BY <1>0, <1>2, <2>2, <3>2, AUThreadStep DEF AUInv, AUOwned
      <4>2. QED BY <1>1, <1>a, <4>1
    <3>3. QED BY <3>1, <3>2
  <2>3. ASSUME NEW o \in AUThreads, auThread'[o].at = "keeping"
        PROVE  /\ auThread'[o].list # 0
               /\ \A v \in AUUsers : auHistory'[v] = auThread'[o].list => v = auThread'[o].user
    <3>1. auThread'[o] = auThread[o] /\ auThread[o].list \in 0..Len(auLists)
      BY <1>0, <1>5, <2>3 DEF AUTyped
    <3>2. QED BY <1>a, <1>b, <2>3, <3>1 DEF AUInv, AUOwned
  <2>4. ASSUME NEW v \in AUUsers, auHistory'[v] # 0, NEW p \in ToSet(auLists'[auHistory'[v]]) PROVE AUAsked(v, p)'
    <3>1. CASE v = u
      BY <1>1, <1>a, <2>4, <3>1 DEF ToSet
    <3>2. CASE v # u
      <4>1. auHistory'[v] = auHistory[v] /\ auHistory[v] \in 1..Len(auLists)
        BY <1>0, <1>a, <2>4, <3>2
      <4>2. AUAsked(v, p)
        BY <1>1, <2>4, <4>1 DEF AUInv, AUOwned
      <4>3. QED BY <1>9, <4>2
    <3>3. QED BY <3>1, <3>2
  <2>5. QED BY <2>1, <2>2, <2>3, <2>4 DEF AUOwned
<1>11. AUScored'
  BY <1>1, <1>5, <1>6, AULoggedStays DEF AUInv, AUScored
<1>12. QED BY <1>4, <1>7, <1>8, <1>10, <1>11 DEF AUInv

LEMMA AULookInv ==
  ASSUME AUInv, NEW t \in AUThreads, AULook(t)
  PROVE  AUInv'
<1> DEFINE u == auThread[t].user
           q == auThread[t].query
           more == AUScore[q] + (IF AURepeated(u, q) THEN AURepeat ELSE 0)
           step == [auThread[t] EXCEPT !.at = "keeping", !.list = auHistory[u], !.score = more]
<1>0. AUTyped /\ auThread[t].at = "looking" /\ u \in AUUsers /\ q \in AUQueries /\ Len(auLists) \in Nat
      /\ auHistory[u] \in 0..Len(auLists) /\ auHistory[u] # 0 /\ auThread[t] \in AUSteps
  BY AUThreadStep DEF AUInv, AULook, AUOwned
<1>1. auThread' = [auThread EXCEPT ![t] = step] /\ UNCHANGED <<auHistory, auLists, auEvents, auFile, auFailed>>
  BY DEF AULook
<1>s. more \in {AUScore[q], AUScore[q] + AURepeat} /\ (more # AUScore[q] => AURepeated(u, q)) /\ more \in Nat
  BY <1>0, AUAssumption DEF AUAssumption
<1> HIDE DEF more
<1>2. /\ step \in AUSteps /\ step.at = "keeping" /\ step.user = u /\ step.query = q /\ step.list = auHistory[u] /\ step.score = more
  <2> DEFINE l == auHistory[u]
  <2>1. l \in Nat /\ step = [auThread[t] EXCEPT !.at = "keeping", !.list = l, !.score = more]
    BY <1>0
  <2> HIDE DEF l
  <2>2. /\ step \in AUSteps /\ step.at = "keeping" /\ step.user = u /\ step.query = q /\ step.list = l /\ step.score = more
    BY <1>0, <1>s, <2>1 DEF AUSteps
  <2>3. QED BY <2>2 DEF l
<1> HIDE DEF step
<1>3. /\ auThread' \in [AUThreads -> AUSteps] /\ auThread'[t] = step
      /\ \A o \in AUThreads \ {t} : auThread'[o] = auThread[o]
  BY <1>0, <1>1, <1>2 DEF AUTyped
<1>4. AUTyped'
  BY <1>0, <1>1, <1>2, <1>3 DEF AUTyped
<1>6. \A o \in AUThreads : auThread[o].at = "logging" => auThread'[o] = auThread[o]
  BY <1>0, <1>3
<1>7. AUChain'
  BY <1>1 DEF AUInv, AUChain
<1>8. AUVerdicts'
  BY <1>1, <1>6, AULoggedStays DEF AUInv
<1>9. \A v, p : AUAsked(v, p) => AUAsked(v, p)'
  BY <1>1, <1>6, AULoggedStays
<1>10. AUOwned'
  <2>1. \A v \in AUUsers : auHistory[v] = step.list => v = u
    BY <1>0, <1>2 DEF AUInv, AUOwned
  <2>2. QED BY <1>0, <1>1, <1>2, <1>3, <1>9, <2>1 DEF AUInv, AUOwned
<1>11. AUScored'
  <2>1. ASSUME NEW o \in AUThreads \ {t}, auThread'[o].at \in {"keeping", "logging"}
        PROVE  AUScoredOf(o)'
    BY <1>1, <1>3, <1>6, <2>1, AULoggedStays DEF AUInv, AUScored
  <2>2. more # AUScore[q] => AUNoted(u, q) \/ \E r \in AUThreads \ {t} : AULogging(r, u, q)
    <3>1. ASSUME more # AUScore[q] PROVE AUAsked(u, q)
      BY <1>0, <1>s, <3>1 DEF AUInv, AUOwned, AURepeated
    <3>2. ~AULogging(t, u, q)
      BY <1>0 DEF AULogging
    <3>3. QED BY <3>1, <3>2 DEF AUAsked
  <2>3. PICK v, p : v = step.user /\ p = step.query
    OBVIOUS
  <2>4. more # AUScore[p] => AUNoted(v, p)' \/ \E r \in AUThreads \ {t} : AULogging(r, v, p)'
    <3>1. more # AUScore[p] => AUNoted(v, p) \/ \E r \in AUThreads \ {t} : AULogging(r, v, p)
      BY <1>2, <2>2, <2>3
    <3>2. QED BY <1>1, <1>6, <3>1, AULoggedStays
  <2>5. AUScoredOf(t)'
    <3>1. auThread'[t].score \in {AUScore[p], AUScore[p] + AURepeat} /\ auThread'[t].score = more
          /\ auThread'[t].user = v /\ auThread'[t].query = p
      BY <1>2, <1>3, <1>s, <2>3
    <3>2. QED BY <2>4, <3>1 DEF AUScoredOf, AUNoted, AULogging
  <2>6. QED BY <2>1, <2>5 DEF AUScored
<1>12. QED BY <1>4, <1>7, <1>8, <1>10, <1>11 DEF AUInv

LEMMA AUKeepQueryInv ==
  ASSUME AUInv, NEW t \in AUThreads, AUKeepQuery(t)
  PROVE  AUInv'
<1> DEFINE u == auThread[t].user
           q == auThread[t].query
           l == auThread[t].list
           longer == Append(auLists[l], q)
<1>0. /\ AUTyped /\ auThread[t].at = "keeping" /\ u \in AUUsers /\ q \in AUQueries /\ Len(auLists) \in Nat
      /\ l \in 1..Len(auLists) /\ auThread[t] \in AUSteps /\ auLists \in Seq(Seq(AUQueries))
      /\ \A v \in AUUsers : auHistory[v] = l => v = u
  <2>1. AUTyped /\ auThread[t].at = "keeping" /\ l # 0 /\ \A v \in AUUsers : auHistory[v] = l => v = u
    BY DEF AUInv, AUKeepQuery, AUOwned
  <2>2. QED BY <2>1, AUThreadStep DEF AUTyped
<1>1. /\ auLists' = [auLists EXCEPT ![l] = AUTrimmed(longer)]
      /\ auThread' = [auThread EXCEPT ![t].at = "logging"] /\ UNCHANGED <<auHistory, auEvents, auFile, auFailed>>
  BY DEF AUKeepQuery
<1>2. AUTrimmed(longer) \in Seq(AUQueries) /\ ToSet(AUTrimmed(longer)) \subseteq ToSet(auLists[l]) \cup {q}
  <2>1. auLists[l] \in Seq(AUQueries)
    BY <1>0
  <2>2. longer \in Seq(AUQueries) /\ ToSet(longer) = ToSet(auLists[l]) \cup {q}
    BY <1>0, <2>1, AUAppendSet
  <2> HIDE DEF longer
  <2>3. QED BY <2>2, AUTrimmedOf
<1> HIDE DEF longer
<1>3. auLists' \in Seq(Seq(AUQueries)) /\ Len(auLists') = Len(auLists) /\ auLists'[l] = AUTrimmed(longer)
      /\ \A i \in 1..Len(auLists) : i # l => auLists'[i] = auLists[i]
  BY <1>0, <1>1, <1>2
<1>4. /\ auThread' \in [AUThreads -> AUSteps] /\ \A o \in AUThreads \ {t} : auThread'[o] = auThread[o]
      /\ \A o \in AUThreads : /\ auThread'[o].user = auThread[o].user /\ auThread'[o].query = auThread[o].query
                              /\ auThread'[o].list = auThread[o].list /\ auThread'[o].score = auThread[o].score
      /\ auThread'[t].at = "logging"
  <2>1. [auThread[t] EXCEPT !.at = "logging"] \in AUSteps
    BY <1>0 DEF AUSteps
  <2>2. QED BY <1>0, <1>1, <2>1 DEF AUTyped, AUSteps
<1>5. AUTyped'
  <2>1. \A o \in AUThreads : /\ auThread'[o].at # "idle" => auThread'[o].user \in AUUsers /\ auThread'[o].query \in AUQueries
                             /\ auThread'[o].list \in 0..Len(auLists')
    BY <1>0, <1>3, <1>4 DEF AUTyped
  <2>2. QED BY <1>0, <1>1, <1>3, <1>4, <2>1 DEF AUTyped
<1>6. \A o \in AUThreads : auThread[o].at = "logging" => auThread'[o] = auThread[o]
  BY <1>0, <1>4
<1>7. AUChain'
  BY <1>1 DEF AUInv, AUChain
<1>8. AUVerdicts'
  BY <1>1, <1>6, AULoggedStays DEF AUInv
<1>9. \A v, p : AUAsked(v, p) => AUAsked(v, p)'
  BY <1>1, <1>6, AULoggedStays
<1>10. AUOwned'
  <2>1. \A v, w \in AUUsers : auHistory'[v] # 0 /\ auHistory'[v] = auHistory'[w] => v = w
    BY <1>1 DEF AUInv, AUOwned
  <2>2. \A o \in AUThreads : /\ auThread'[o].at = "looking" => auHistory'[auThread'[o].user] # 0
                             /\ auThread'[o].at = "keeping" =>
                                  /\ auThread'[o].list # 0
                                  /\ \A v \in AUUsers : auHistory'[v] = auThread'[o].list => v = auThread'[o].user
    BY <1>1, <1>4 DEF AUInv, AUOwned
  <2>3. ASSUME NEW v \in AUUsers, auHistory'[v] # 0, NEW p \in ToSet(auLists'[auHistory'[v]]) PROVE AUAsked(v, p)'
    <3>1. auHistory[v] \in 1..Len(auLists) /\ auHistory'[v] = auHistory[v]
      BY <1>0, <1>1, <2>3 DEF AUTyped
    <3>2. p \in ToSet(auLists[auHistory[v]]) => AUAsked(v, p)
      BY <3>1 DEF AUInv, AUOwned
    <3>3. CASE p \in ToSet(auLists[auHistory[v]])
      BY <1>9, <3>2, <3>3
    <3>4. CASE p \notin ToSet(auLists[auHistory[v]])
      <4>1. auHistory[v] = l /\ p = q /\ v = u
        BY <1>0, <1>2, <1>3, <2>3, <3>1, <3>4
      <4>2. AULogging(t, v, p)'
        BY <1>4, <4>1 DEF AULogging
      <4>3. QED BY <4>2 DEF AUAsked
    <3>5. QED BY <3>3, <3>4
  <2>4. QED BY <2>1, <2>2, <2>3 DEF AUOwned
<1>11. AUScored'
  <2>1. ASSUME NEW o \in AUThreads \ {t}, auThread'[o].at \in {"keeping", "logging"}
        PROVE  AUScoredOf(o)'
    BY <1>1, <1>4, <1>6, <2>1, AULoggedStays DEF AUInv, AUScored
  <2>2. AUScoredOf(t)'
    <3>1. AUScoredOf(t)
      BY <1>0 DEF AUInv, AUScored
    <3>2. QED BY <1>1, <1>4, <3>1 DEF AUScoredOf, AUNoted, AULogging
  <2>3. QED BY <2>1, <2>2 DEF AUScored
<1>12. QED BY <1>5, <1>7, <1>8, <1>10, <1>11 DEF AUInv

\* What AULog adds: one event, after all others.
LEMMA AULogChain ==
  ASSUME AUInv, NEW t \in AUThreads, AULog(t)
  PROVE  \E e \in AUEntries :
           /\ e.id = Len(auEvents) + 1 /\ e.prev = Len(auEvents) /\ e.kind = AUKind(auThread[t].score)
           /\ e.user = auThread[t].user /\ e.query = auThread[t].query
           /\ auEvents' = Append(auEvents, e)
           /\ \/ auFile' = Append(auFile, e) /\ auFailed' = auFailed
              \/ auFile' = auFile /\ auFailed' = auFailed \cup {e.id}
<1>1. AUTyped /\ auThread[t].at = "logging" /\ Len(auEvents) \in Nat /\ auThread[t].user \in AUUsers /\ auThread[t].query \in AUQueries
  BY AUThreadStep DEF AUInv, AULog
<1>2. AUPrevious = Len(auEvents)
  <2>1. CASE auEvents = <<>>
    BY <2>1 DEF AUPrevious
  <2>2. CASE auEvents # <<>>
    <3>1. Len(auEvents) \in DOMAIN auEvents
      BY <1>1, <2>2 DEF AUTyped
    <3>2. auEvents[Len(auEvents)].id = Len(auEvents)
      BY <3>1, Zenon DEF AUInv, AUChain
    <3>3. QED BY <2>2, <3>2 DEF AUPrevious, Last
  <2>3. QED BY <2>1, <2>2
<1>3. AUKind(auThread[t].score) \in {"query", "policy_violation"}
  BY DEF AUKind
<1> DEFINE e == [id |-> Len(auEvents) + 1, prev |-> AUPrevious, kind |-> AUKind(auThread[t].score),
                 user |-> auThread[t].user, query |-> auThread[t].query]
<1>4. e \in AUEntries /\ e.id = Len(auEvents) + 1 /\ e.prev = Len(auEvents) /\ e.kind = AUKind(auThread[t].score)
      /\ e.user = auThread[t].user /\ e.query = auThread[t].query
  <2>1. Len(auEvents) + 1 \in Nat /\ AUPrevious \in Nat
    BY <1>1, <1>2
  <2>2. QED BY <1>1, <1>2, <1>3, <2>1 DEF AUEntries
<1>5. /\ auEvents' = Append(auEvents, e)
      /\ \/ auFile' = Append(auFile, e) /\ auFailed' = auFailed
         \/ auFile' = auFile /\ auFailed' = auFailed \cup {e.id}
  BY Zenon DEF AULog
<1> HIDE DEF e
<1>6. QED BY <1>4, <1>5

LEMMA AUChainNext ==
  ASSUME AUInv, NEW e \in AUEntries, e.id = Len(auEvents) + 1, e.prev = Len(auEvents), auEvents' = Append(auEvents, e),
         \/ auFile' = Append(auFile, e) /\ auFailed' = auFailed
         \/ auFile' = auFile /\ auFailed' = auFailed \cup {e.id}
  PROVE  AUChain'
<1> DEFINE n == Len(auEvents)
<1>0. /\ n \in Nat /\ auEvents \in Seq(AUEntries) /\ auFile \in Seq(AUEntries) /\ auFailed \subseteq 1..n /\ AUChain
      /\ Len(auFile) \in Nat /\ DOMAIN auFile = 1..Len(auFile) /\ DOMAIN auEvents = 1..n
  BY DEF AUInv, AUTyped
<1>1. /\ DOMAIN auEvents' = 1..(n + 1) /\ auEvents'[n + 1] = e /\ \A i \in 1..n : auEvents'[i] = auEvents[i]
  BY <1>0
<1>2. \A i \in DOMAIN auEvents' : auEvents'[i].id = i /\ auEvents'[i].prev = i - 1
  <2>1. \A i \in 1..n : auEvents[i].id = i /\ auEvents[i].prev = i - 1
    BY <1>0, Zenon DEF AUChain
  <2>2. auEvents'[n + 1].id = n + 1 /\ auEvents'[n + 1].prev = (n + 1) - 1
    BY <1>0, <1>1
  <2>3. \A i \in 1..(n + 1) : i \in 1..n \/ i = n + 1
    BY <1>0
  <2>4. QED BY <1>1, <2>1, <2>2, <2>3
<1>3. \A i \in 1..n : i \in 1..(n + 1) /\ i # n + 1
  BY <1>0
<1>4. n + 1 \in 1..(n + 1) /\ n + 1 \notin auFailed /\ \A i \in 1..(n + 1) : i = n + 1 \/ i \in 1..n
  BY <1>0
<1>5. ToSet(auFile) = {auEvents[i] : i \in 1..n \ auFailed}
  BY <1>0, Zenon DEF AUChain
\* Every line is of an event, with its number.
<1>6. \A k \in 1..Len(auFile) : auFile[k].id \in 1..n /\ auFile[k].id \notin auFailed
  <2>1. ASSUME NEW k \in 1..Len(auFile) PROVE auFile[k].id \in 1..n \ auFailed
    <3>1. auFile[k] \in ToSet(auFile)
      BY <1>0 DEF ToSet
    <3>2. PICK i \in 1..n \ auFailed : auFile[k] = auEvents[i]
      BY <1>5, <3>1
    <3>3. auEvents[i].id = i
      BY <1>0, <3>2, Zenon DEF AUChain
    <3>4. QED BY <3>2, <3>3
  <2>2. QED BY <2>1
<1>7. \A j, k \in 1..Len(auFile) : j < k => auFile[j].id < auFile[k].id
  BY <1>0, Zenon DEF AUChain
<1>8. \A k \in 1..Len(auFile) : k > 1 /\ auFile[k].prev # auFile[k - 1].id => auFile[k].prev \in auFailed
  BY <1>0, Zenon DEF AUChain
<1>9. CASE auFile' = Append(auFile, e) /\ auFailed' = auFailed
  <2> DEFINE m == Len(auFile)
  <2>1. /\ DOMAIN auFile' = 1..(m + 1) /\ auFile'[m + 1] = e /\ \A k \in 1..m : auFile'[k] = auFile[k] /\ k # m + 1
        /\ \A k \in 1..(m + 1) : k \in 1..m \/ k = m + 1
    BY <1>0, <1>9
  <2>2. ToSet(auFile') = {auEvents'[i] : i \in DOMAIN auEvents' \ auFailed'}
    <3>1. ToSet(auFile') = ToSet(auFile) \cup {e}
      BY <1>0, <1>9, AUAppendSet
    <3>2. {auEvents'[i] : i \in 1..(n + 1) \ auFailed} = {auEvents[i] : i \in 1..n \ auFailed} \cup {e}
      BY <1>1, <1>3, <1>4
    <3>3. QED BY <1>1, <1>5, <1>9, <3>1, <3>2
  <2>3. \A j, k \in 1..(m + 1) : j < k => auFile'[j].id < auFile'[k].id
    <3>1. ASSUME NEW j \in 1..(m + 1), NEW k \in 1..(m + 1), j < k PROVE auFile'[j].id < auFile'[k].id
      <4>1. j \in 1..m
        BY <1>0, <3>1
      <4>2. CASE k \in 1..m
        BY <1>7, <2>1, <3>1, <4>1, <4>2
      <4>3. CASE k = m + 1
        <5>1. auFile'[j].id \in 1..n /\ auFile'[k].id = n + 1
          BY <1>6, <2>1, <4>1, <4>3
        <5>2. QED BY <1>0, <5>1
      <4>4. QED BY <2>1, <4>2, <4>3
    <3>2. QED BY <3>1
  <2>4. ASSUME m >= 1, e.prev # auFile[m].id PROVE e.prev \in auFailed
    <3>1. auFile[m].id \in 1..n /\ m \in 1..m
      BY <1>0, <1>6, <2>4
    <3>2. n \in 1..n
      BY <1>0, <3>1
    <3>3. ASSUME n \notin auFailed PROVE FALSE
      <4>1. auEvents[n] \in ToSet(auFile) /\ auEvents[n].id = n
        BY <1>0, <1>5, <3>2, <3>3 DEF AUChain
      <4>2. PICK k \in 1..m : auFile[k].id = n
        BY <1>0, <4>1 DEF ToSet
      <4>3. k # m /\ k \in 1..m /\ m \in Nat
        BY <1>0, <2>4, <4>2
      <4>4. k < m
        <5> HIDE DEF m
        <5>1. QED BY <4>3
      <4>5. n < auFile[m].id
        BY <1>7, <3>1, <4>2, <4>4
      <4>6. QED BY <1>0, <3>1, <4>5
    <3>4. QED BY <3>3
  <2>5. \A k \in 1..(m + 1) : k > 1 /\ auFile'[k].prev # auFile'[k - 1].id => auFile'[k].prev \in auFailed
    <3>1. ASSUME NEW k \in 1..(m + 1), k > 1, auFile'[k].prev # auFile'[k - 1].id PROVE auFile'[k].prev \in auFailed
      <4>1. CASE k \in 1..m
        <5>1. k - 1 \in 1..m
          BY <1>0, <3>1, <4>1
        <5>2. QED BY <1>8, <2>1, <3>1, <4>1, <5>1
      <4>2. CASE k = m + 1
        <5>1. k - 1 = m /\ m >= 1 /\ m \in 1..m
          BY <1>0, <3>1, <4>2
        <5>2. auFile'[k] = e /\ auFile'[k - 1] = auFile[m]
          BY <2>1, <4>2, <5>1
        <5>3. QED BY <2>4, <3>1, <5>1, <5>2
      <4>3. QED BY <2>1, <4>1, <4>2
    <3>2. QED BY <3>1
  <2>6. QED BY <1>2, <1>9, <2>1, <2>2, <2>3, <2>5 DEF AUChain
<1>10. CASE auFile' = auFile /\ auFailed' = auFailed \cup {e.id}
  <2>1. ToSet(auFile') = {auEvents'[i] : i \in DOMAIN auEvents' \ auFailed'}
    <3>1. \A i : i \in 1..(n + 1) \ (auFailed \cup {n + 1}) <=> i \in 1..n \ auFailed
      BY <1>3, <1>4
    <3>2. {auEvents'[i] : i \in 1..(n + 1) \ (auFailed \cup {n + 1})} = {auEvents[i] : i \in 1..n \ auFailed}
      BY <1>1, <3>1
    <3>3. QED BY <1>1, <1>5, <1>10, <3>2
  <2>2. \A k \in DOMAIN auFile' : k > 1 /\ auFile'[k].prev # auFile'[k - 1].id => auFile'[k].prev \in auFailed'
    BY <1>0, <1>8, <1>10
  <2>3. \A j, k \in DOMAIN auFile' : j < k => auFile'[j].id < auFile'[k].id
    BY <1>0, <1>7, <1>10
  <2>4. QED BY <1>2, <2>1, <2>2, <2>3 DEF AUChain
<1>11. QED BY <1>9, <1>10

LEMMA AULogInv ==
  ASSUME AUInv, NEW t \in AUThreads, AULog(t)
  PROVE  AUInv'
<1> DEFINE n == Len(auEvents)
<1>0. /\ AUTyped /\ auThread[t].at = "logging" /\ n \in Nat /\ auThread[t].user \in AUUsers /\ auThread[t].query \in AUQueries
      /\ auEvents \in Seq(AUEntries) /\ auFile \in Seq(AUEntries) /\ auFailed \subseteq 1..n /\ auThread \in [AUThreads -> AUSteps]
      /\ DOMAIN auEvents = 1..n
  BY AUThreadStep DEF AUInv, AULog, AUTyped
<1>1. PICK e \in AUEntries :
           /\ e.id = n + 1 /\ e.prev = n /\ e.kind = AUKind(auThread[t].score)
           /\ e.user = auThread[t].user /\ e.query = auThread[t].query
           /\ auEvents' = Append(auEvents, e)
           /\ \/ auFile' = Append(auFile, e) /\ auFailed' = auFailed
              \/ auFile' = auFile /\ auFailed' = auFailed \cup {e.id}
  BY AULogChain
<1>2. AUChain'
  BY <1>1, AUChainNext
<1>3. /\ auThread' = [auThread EXCEPT ![t] = AUIdle] /\ UNCHANGED <<auHistory, auLists>>
  BY DEF AULog
<1>4. AUIdle \in AUSteps /\ AUIdle.at = "idle" /\ AUIdle.list = 0
  BY DEF AUIdle, AUSteps
<1>5. /\ auThread' \in [AUThreads -> AUSteps] /\ \A o \in AUThreads \ {t} : auThread'[o] = auThread[o]
      /\ auThread'[t].at = "idle" /\ auThread'[t].list = 0
  BY <1>0, <1>3, <1>4
<1>6. /\ Len(auEvents') = n + 1 /\ auEvents'[n + 1] = e /\ \A i \in 1..n : auEvents'[i] = auEvents[i]
      /\ auEvents' \in Seq(AUEntries) /\ DOMAIN auEvents' = 1..(n + 1)
  BY <1>0, <1>1
<1>7. \A i \in 1..n : i \in 1..(n + 1) /\ i # n + 1
  BY <1>0
<1>8. n + 1 \in 1..(n + 1) /\ \A i \in 1..(n + 1) : i \in 1..n \/ i = n + 1
  BY <1>0
<1>9. AUTyped'
  <2>1. auFile' \in Seq(AUEntries) /\ auFailed' \subseteq 1..(n + 1)
    <3>1. auFile' \in Seq(AUEntries)
      <4>1. auFile' = Append(auFile, e) => auFile' \in Seq(AUEntries)
        BY <1>0
      <4>2. QED BY <1>0, <1>1, <4>1
    <3>2. auFailed' \subseteq auFailed \cup {n + 1}
      BY <1>1
    <3>3. QED BY <1>0, <1>7, <1>8, <3>1, <3>2
  <2>2. \A o \in AUThreads : /\ auThread'[o].at # "idle" => auThread'[o].user \in AUUsers /\ auThread'[o].query \in AUQueries
                             /\ auThread'[o].list \in 0..Len(auLists)
    <3>1. 0 \in 0..Len(auLists)
      BY <1>0 DEF AUTyped
    <3>2. QED BY <1>0, <1>5, <3>1 DEF AUTyped
  <2>3. QED BY <1>0, <1>3, <1>5, <1>6, <2>1, <2>2 DEF AUTyped
\* What t was to log is in the log.
<1>10. \A v, p : (AUNoted(v, p) => AUNoted(v, p)') /\ (AULogging(t, v, p) => AUNoted(v, p)')
  BY <1>1, <1>6, <1>7, <1>8 DEF AUNoted, AULogging
<1>11. \A o \in AUThreads \ {t} : \A v, p : AULogging(o, v, p) => AULogging(o, v, p)'
  BY <1>5 DEF AULogging
<1>12. \A v, p : AUAsked(v, p) => AUAsked(v, p)'
  BY <1>10, <1>11 DEF AUAsked
<1>13. AUOwned'
  BY <1>3, <1>5, <1>12 DEF AUInv, AUOwned
<1>14. AUScored'
  <2>1. ASSUME NEW o \in AUThreads, auThread'[o].at \in {"keeping", "logging"} PROVE AUScoredOf(o)'
    <3>1. o # t /\ auThread'[o] = auThread[o] /\ AUScoredOf(o)
      BY <1>5, <2>1 DEF AUInv, AUScored
    <3>2. PICK v, p : v = auThread[o].user /\ p = auThread[o].query
      OBVIOUS
    <3>3. auThread[o].score = AUScore[p] \/ AUNoted(v, p) \/ \E r \in AUThreads \ {o} : AULogging(r, v, p)
      BY <3>1, <3>2, Zenon DEF AUScoredOf
    <3>4. auThread[o].score = AUScore[p] \/ AUNoted(v, p)' \/ \E r \in AUThreads \ {o} : AULogging(r, v, p)'
      BY <1>10, <1>11, <3>3
    <3>5. auThread'[o].score \in {AUScore[p], AUScore[p] + AURepeat} /\ auThread'[o].user = v /\ auThread'[o].query = p
      BY <3>1, <3>2 DEF AUScoredOf
    <3>6. QED BY <3>1, <3>4, <3>5 DEF AUScoredOf, AUNoted, AULogging
  <2>2. QED BY <2>1 DEF AUScored
<1>15. AUVerdicts'
  <2> SUFFICES ASSUME NEW i \in 1..(n + 1)
               PROVE  LET f == auEvents'[i]
                      IN  /\ AUScore[f.query] >= AULimit => f.kind = "policy_violation"
                          /\ f.kind = "policy_violation" /\ AUScore[f.query] < AULimit =>
                               \/ \E j \in 1..(n + 1) \ {i} : auEvents'[j].user = f.user /\ auEvents'[j].query = f.query
                               \/ \E o \in AUThreads : auThread'[o].at = "logging" /\ auThread'[o].user = f.user
                                                       /\ auThread'[o].query = f.query
    BY <1>6 DEF AUVerdicts
  <2>1. CASE i \in 1..n
    <3>1. auEvents'[i] = auEvents[i]
      BY <1>6, <2>1
    <3> DEFINE f == auEvents[i]
    <3>2. /\ AUScore[f.query] >= AULimit => f.kind = "policy_violation"
          /\ f.kind = "policy_violation" /\ AUScore[f.query] < AULimit =>
               \/ \E j \in 1..n \ {i} : auEvents[j].user = f.user /\ auEvents[j].query = f.query
               \/ \E o \in AUThreads : auThread[o].at = "logging" /\ auThread[o].user = f.user /\ auThread[o].query = f.query
      BY <1>0, <2>1, Zenon DEF AUInv, AUVerdicts
    <3> HIDE DEF f
    <3>3. (\E j \in 1..n \ {i} : auEvents[j].user = f.user /\ auEvents[j].query = f.query)
            => \E j \in 1..(n + 1) \ {i} : auEvents'[j].user = f.user /\ auEvents'[j].query = f.query
      BY <1>6, <1>7
    <3>4. (\E o \in AUThreads : auThread[o].at = "logging" /\ auThread[o].user = f.user /\ auThread[o].query = f.query)
            => \/ \E j \in 1..(n + 1) \ {i} : auEvents'[j].user = f.user /\ auEvents'[j].query = f.query
               \/ \E o \in AUThreads : auThread'[o].at = "logging" /\ auThread'[o].user = f.user /\ auThread'[o].query = f.query
      BY <1>1, <1>5, <1>6, <1>7, <1>8, <2>1
    <3>5. QED BY <3>1, <3>2, <3>3, <3>4 DEF f
  <2>2. CASE i = n + 1
    <3>1. auEvents'[i] = e /\ AUScoredOf(t)
      BY <1>0, <1>6, <2>2 DEF AUInv, AUScored
    <3>2. e.kind = AUKind(auThread[t].score) /\ auThread[t].score \in {AUScore[e.query], AUScore[e.query] + AURepeat}
      BY <1>1, <3>1 DEF AUScoredOf
    <3>3. AUScore[e.query] \in Nat /\ AURepeat \in Nat /\ AULimit \in Nat
      BY <1>0, <1>1, AUAssumption DEF AUAssumption
    <3>4. AUScore[e.query] >= AULimit => e.kind = "policy_violation"
      BY <3>2, <3>3 DEF AUKind
    <3>5. e.kind = "policy_violation" /\ AUScore[e.query] < AULimit => auThread[t].score # AUScore[e.query]
      BY <3>2, <3>3 DEF AUKind
    <3>6. ASSUME auThread[t].score # AUScore[e.query]
          PROVE  \/ \E j \in 1..n : auEvents[j].user = e.user /\ auEvents[j].query = e.query
                 \/ \E o \in AUThreads \ {t} : auThread[o].at = "logging" /\ auThread[o].user = e.user /\ auThread[o].query = e.query
      BY <1>1, <3>1, <3>6 DEF AUScoredOf, AUNoted, AULogging
    <3>7. (\E j \in 1..n : auEvents[j].user = e.user /\ auEvents[j].query = e.query)
            => \E j \in 1..(n + 1) \ {i} : auEvents'[j].user = e.user /\ auEvents'[j].query = e.query
      BY <1>6, <1>7, <2>2
    <3>8. (\E o \in AUThreads \ {t} : auThread[o].at = "logging" /\ auThread[o].user = e.user /\ auThread[o].query = e.query)
            => \E o \in AUThreads : auThread'[o].at = "logging" /\ auThread'[o].user = e.user /\ auThread'[o].query = e.query
      BY <1>5
    <3>9. QED BY <3>1, <3>4, <3>5, <3>6, <3>7, <3>8
  <2>3. QED BY <1>8, <2>1, <2>2
<1>16. QED BY <1>2, <1>9, <1>13, <1>14, <1>15 DEF AUInv

LEMMA AUNextInv == AUInv /\ [AUNext]_auVars => AUInv'
<1>1. ASSUME AUInv, AUNext PROVE AUInv'
  BY <1>1, AUCallInv, AUMakeInv, AULookInv, AUKeepQueryInv, AULogInv DEF AUNext
<1>2. ASSUME AUInv, UNCHANGED auVars PROVE AUInv'
  <2>1. UNCHANGED <<auHistory, auLists, auThread, auEvents, auFile, auFailed>>
    BY <1>2 DEF auVars
  <2>2. AUTyped' /\ AUChain' /\ AUOwned'
    BY <1>2, <2>1 DEF AUInv, AUTyped, AUChain, AUOwned, AUAsked, AUNoted, AULogging
  <2>3. AUVerdicts' /\ AUScored'
    BY <1>2, <2>1, AULoggedStays DEF AUInv, AUScored
  <2>4. QED BY <2>2, <2>3 DEF AUInv
<1>3. QED BY <1>1, <1>2

-----------------------------------------------------------------------------
(* Quotas of tenants, Tenants: an object counts the threads inside it, and *)
(* what it counted for the rate lies within its window.                    *)

TQPorts == {TQConnection[t] : t \in TQThreads}

TQRecords == [connections : SUBSET TQPorts, limit : TQLimits, stamps : Seq(Nat)]

TQSteps(objects) == [at : {"out", "found", "in"}, object : 0..objects, allowed : BOOLEAN]

TQInside(o) == {TQConnection[t] : t \in {u \in TQThreads : tqThread[u].at = "in" /\ tqThread[u].object = o}}

TQTyped ==
  /\ tqObjects \in Seq(TQRecords) /\ tqTenant \in 0..Len(tqObjects) /\ tqNow \in Nat
  /\ tqThread \in [TQThreads -> TQSteps(Len(tqObjects))]
  /\ tqMost \in Seq(Nat) /\ Len(tqMost) = Len(tqObjects)
  /\ tqAsked \in Seq(Seq(Nat)) /\ Len(tqAsked) = Len(tqObjects)
  /\ \A t \in TQThreads : /\ tqThread[t].at \in {"found", "in"} => tqThread[t].object # 0
                          /\ tqThread[t].allowed => tqThread[t].at = "in"

\* The stamps are the last of all queries, and those before them have left the window.
TQKeeps(stamps, asked, now) ==
  /\ \A i \in 1..Len(asked) : asked[i] <= now
  /\ \A i, j \in 1..Len(asked) : i < j => asked[i] <= asked[j]
  /\ \E k \in 0..Len(asked) : /\ stamps = SubSeq(asked, k + 1, Len(asked))
                              /\ \A i \in 1..k : asked[i] + TQWindow <= now

\* The queries of now's window, and those that are allowed and not recorded.
TQAllowed(o) == {t \in TQThreads : tqThread[t].allowed /\ tqThread[t].object = o}

TQMany == TQRate + Cardinality(TQThreads) - 1

TQHeld(o) == Cardinality(TQWithin(tqAsked[o], tqNow)) + Cardinality(TQAllowed(o)) <= TQMany

TQInv ==
  /\ TQTyped /\ TQBalanced /\ TQRateKept
  /\ \A o \in 1..Len(tqObjects) : TQKeeps(tqObjects[o].stamps, tqAsked[o], tqNow) /\ TQHeld(o)

LEMMA TQConstants ==
  /\ TQThreads # {} /\ IsFiniteSet(TQThreads) /\ TQRate \in Nat /\ TQWindow \in Nat
  /\ Cardinality(TQThreads) \in Nat /\ Cardinality(TQThreads) > 0 /\ TQMany \in Nat
<1>1. TQThreads # {} /\ IsFiniteSet(TQThreads) /\ TQRate \in Nat /\ TQWindow \in Nat
  BY TQAssumption DEF TQAssumption
<1>2. Cardinality(TQThreads) \in Nat /\ Cardinality(TQThreads) # 0
  BY <1>1, FS_CardinalityType, FS_EmptySet
<1>3. QED BY <1>1, <1>2 DEF TQMany

\* What has left the window comes first.
LEMMA TQWindowIs ==
  ASSUME NEW s \in Seq(Nat), NEW now \in Nat,
         \A i \in 1..Len(s) : s[i] <= now, \A i, j \in 1..Len(s) : i < j => s[i] <= s[j]
  PROVE  \E c \in 0..Len(s) : /\ {i \in DOMAIN s : s[i] + TQWindow <= now} = 1..c
                              /\ TQWithin(s, now) = (c + 1)..Len(s)
<1> DEFINE T == {i \in 1..Len(s) : s[i] + TQWindow > now} \cup {Len(s) + 1}
<1>1. T \in SUBSET Nat /\ T # {} /\ Len(s) \in Nat /\ DOMAIN s = 1..Len(s) /\ \A i \in 1..Len(s) : s[i] \in Nat
  OBVIOUS
<1>2. PICK k \in T : \A j \in T : k <= j
  BY <1>1, LeastNumber, Zenon
<1>3. k \in 1..(Len(s) + 1) /\ k - 1 \in 0..Len(s) /\ (k - 1) + 1 = k
  BY <1>1, <1>2
<1>4. ASSUME NEW i \in 1..Len(s) PROVE s[i] + TQWindow <= now <=> i < k
  <2>1. i < k => i \notin T
    BY <1>1, <1>2, <1>3
  <2>2. i >= k => s[k] + TQWindow > now /\ k \in 1..Len(s)
    BY <1>1, <1>2, <1>3
  <2>3. i >= k => s[i] >= s[k]
    BY <1>1, <2>2, <1>3
  <2>4. CASE i < k
    BY <1>1, <2>1, <2>4, TQConstants
  <2>5. CASE ~(i < k)
    BY <1>1, <2>2, <2>3, <2>5, <1>3, TQConstants
  <2>6. QED BY <2>4, <2>5
<1>5. {i \in DOMAIN s : s[i] + TQWindow <= now} = 1..(k - 1)
  BY <1>1, <1>3, <1>4
<1>6. TQWithin(s, now) = ((k - 1) + 1)..Len(s)
  <2>1. \A i \in 1..Len(s) : s[i] <= now /\ (s[i] + TQWindow > now <=> ~(i < k))
    BY <1>1, <1>4, TQConstants
  <2>2. QED BY <1>1, <1>3, <2>1 DEF TQWithin
<1>7. QED BY <1>3, <1>5, <1>6

LEMMA TQUpTo ==
  ASSUME NEW n \in Nat
  PROVE  IsFiniteSet(1..n) /\ Cardinality(1..n) = n
<1>1. 1 \in Int /\ n \in Int
  OBVIOUS
<1>2. IsFiniteSet(1..n) /\ Cardinality(1..n) = IF 1 > n THEN 0 ELSE n - 1 + 1
  BY <1>1, FS_Interval
<1>3. QED BY <1>2

LEMMA TQWithinCounts ==
  ASSUME NEW s \in Seq(Nat), NEW n \in Nat
  PROVE  TQWithin(s, n) \subseteq 1..Len(s) /\ IsFiniteSet(TQWithin(s, n)) /\ Cardinality(TQWithin(s, n)) \in Nat
<1>1. TQWithin(s, n) \subseteq 1..Len(s) /\ Len(s) \in Nat
  BY DEF TQWithin
<1>2. IsFiniteSet(TQWithin(s, n))
  BY <1>1, TQUpTo, FS_Subset
<1>3. QED BY <1>1, <1>2, FS_CardinalityType

\* The clean-up leaves the queries of the window that ends now.
LEMMA TQRecentIs ==
  ASSUME NEW asked \in Seq(Nat), NEW stamps, tqNow \in Nat, TQKeeps(stamps, asked, tqNow)
  PROVE  /\ TQRecent(stamps) \in Seq(Nat) /\ TQKeeps(TQRecent(stamps), asked, tqNow)
         /\ Len(TQRecent(stamps)) = Cardinality(TQWithin(asked, tqNow))
<1>1. PICK k \in 0..Len(asked) : /\ stamps = SubSeq(asked, k + 1, Len(asked))
                                 /\ \A i \in 1..k : asked[i] + TQWindow <= tqNow
  BY DEF TQKeeps
<1>2. /\ stamps \in Seq(Nat) /\ Len(stamps) = Len(asked) - k
      /\ \A i \in 1..Len(stamps) : stamps[i] = asked[k + i] /\ k + i \in 1..Len(asked)
  BY <1>1
<1>3. \A i \in 1..Len(stamps) : stamps[i] <= tqNow
  BY <1>2 DEF TQKeeps
<1>4. \A i, j \in 1..Len(stamps) : i < j => stamps[i] <= stamps[j]
  BY <1>1, <1>2 DEF TQKeeps
<1>5. PICK c \in 0..Len(stamps) : /\ {i \in DOMAIN stamps : stamps[i] + TQWindow <= tqNow} = 1..c
  BY <1>2, <1>3, <1>4, TQWindowIs
<1>6. Cardinality(TQExpired(stamps)) = c
  <2>1. c \in Nat /\ TQExpired(stamps) = 1..c
    BY <1>2, <1>5 DEF TQExpired
  <2>2. QED BY <2>1, TQUpTo
<1>a. TQRecent(stamps) = SubSeq(stamps, c + 1, Len(stamps))
  BY <1>6 DEF TQRecent
<1>7. /\ TQRecent(stamps) \in Seq(Nat) /\ Len(TQRecent(stamps)) = Len(stamps) - c
      /\ \A i \in 1..(Len(stamps) - c) : TQRecent(stamps)[i] = stamps[c + i]
  <2>1. c \in 0..Len(stamps) /\ stamps \in Seq(Nat)
    BY <1>2, <1>5
  <2>2. QED BY <1>a, <2>1
<1>8. TQRecent(stamps) = SubSeq(asked, k + c + 1, Len(asked))
  <2> DEFINE rest == SubSeq(asked, k + c + 1, Len(asked))
  <2>1. rest \in Seq(Nat) /\ Len(rest) = Len(asked) - (k + c) /\ \A i \in 1..Len(rest) : rest[i] = asked[k + c + i]
    BY <1>1, <1>2, <1>5
  <2>2. \A i \in 1..Len(rest) : TQRecent(stamps)[i] = rest[i]
    <3>1. ASSUME NEW i \in 1..Len(rest) PROVE TQRecent(stamps)[i] = rest[i]
      <4>1. c + i \in 1..Len(stamps) /\ i \in 1..(Len(stamps) - c) /\ k + (c + i) = k + c + i
        BY <1>1, <1>2, <1>5, <2>1
      <4>2. QED BY <1>2, <1>7, <2>1, <4>1
    <3>2. QED BY <3>1
  <2>3. Len(rest) = Len(TQRecent(stamps))
    BY <1>1, <1>2, <1>5, <1>7, <2>1
  <2> HIDE DEF rest
  <2>4. TQRecent(stamps) = rest
    BY <1>7, <2>1, <2>2, <2>3, SeqEqual
  <2>5. QED BY <2>4 DEF rest
<1>9. k + c \in 0..Len(asked) /\ \A i \in 1..(k + c) : asked[i] + TQWindow <= tqNow
  <2>1. ASSUME NEW i \in (k + 1)..(k + c) PROVE asked[i] + TQWindow <= tqNow
    <3>1. i - k \in 1..c /\ i - k \in 1..Len(stamps) /\ stamps[i - k] = asked[i]
      BY <1>1, <1>2, <1>5
    <3>2. QED BY <1>5, <3>1
  <2>2. QED BY <1>1, <1>2, <1>5, <2>1
<1>10. TQWithin(asked, tqNow) = (k + c + 1)..Len(asked)
  <2>1. PICK d \in 0..Len(asked) : /\ {i \in DOMAIN asked : asked[i] + TQWindow <= tqNow} = 1..d
                                   /\ TQWithin(asked, tqNow) = (d + 1)..Len(asked)
    BY TQWindowIs DEF TQKeeps
  <2>2. \A i \in 1..Len(asked) : i <= k + c => i \in 1..d
    BY <1>9, <2>1
  <2>3. \A i \in 1..Len(asked) : i > k + c => i \notin 1..d
    <3>1. ASSUME NEW i \in 1..Len(asked), i > k + c PROVE ~(asked[i] + TQWindow <= tqNow)
      <4>1. i - k \in 1..Len(stamps) /\ ~(i - k \in 1..c) /\ stamps[i - k] = asked[i]
        BY <1>1, <1>2, <1>5, <3>1
      <4>2. QED BY <1>5, <4>1
    <3>2. QED BY <2>1, <3>1
  <2>4. d = k + c
    BY <1>9, <2>1, <2>2, <2>3
  <2>5. QED BY <2>1, <2>4
<1>11. Cardinality((k + c + 1)..Len(asked)) = Len(asked) - (k + c)
  <2>1. k + c + 1 \in Int /\ Len(asked) \in Int /\ (k + c <= Len(asked))
    BY <1>9
  <2>2. Cardinality((k + c + 1)..Len(asked)) = IF k + c + 1 > Len(asked) THEN 0 ELSE Len(asked) - (k + c + 1) + 1
    BY <2>1, FS_Interval
  <2>3. QED BY <2>1, <2>2
<1>12. Len(TQRecent(stamps)) = Cardinality(TQWithin(asked, tqNow))
  BY <1>1, <1>2, <1>5, <1>7, <1>10, <1>11
<1>13. TQKeeps(TQRecent(stamps), asked, tqNow)
  BY <1>8, <1>9 DEF TQKeeps
<1>14. QED BY <1>7, <1>12, <1>13

\* A query at now is in no earlier window.
LEMMA TQRecordedWithin ==
  ASSUME NEW s \in Seq(Nat), NEW now \in Nat
  PROVE  /\ \A n \in 0..now : n < now => TQWithin(Append(s, now), n) = TQWithin(s, n)
         /\ Cardinality(TQWithin(Append(s, now), now)) <= Cardinality(TQWithin(s, now)) + 1
<1>0. /\ Append(s, now) \in Seq(Nat) /\ Len(Append(s, now)) = Len(s) + 1 /\ Append(s, now)[Len(s) + 1] = now
      /\ DOMAIN Append(s, now) = 1..(Len(s) + 1) /\ DOMAIN s = 1..Len(s) /\ Len(s) \in Nat
      /\ \A i \in 1..Len(s) : Append(s, now)[i] = s[i]
  OBVIOUS
<1>1. ASSUME NEW n \in 0..now, n < now PROVE TQWithin(Append(s, now), n) = TQWithin(s, n)
  BY <1>0, <1>1 DEF TQWithin
<1>2. TQWithin(Append(s, now), now) \subseteq TQWithin(s, now) \cup {Len(s) + 1}
  BY <1>0 DEF TQWithin
<1>3. /\ IsFiniteSet(TQWithin(s, now) \cup {Len(s) + 1})
      /\ Cardinality(TQWithin(s, now) \cup {Len(s) + 1}) <= Cardinality(TQWithin(s, now)) + 1
      /\ Cardinality(TQWithin(s, now) \cup {Len(s) + 1}) \in Nat
  <2>1. IsFiniteSet(TQWithin(s, now)) /\ Cardinality(TQWithin(s, now)) \in Nat
    BY TQWithinCounts
  <2>2. /\ IsFiniteSet(TQWithin(s, now) \cup {Len(s) + 1})
        /\ Cardinality(TQWithin(s, now) \cup {Len(s) + 1}) \in {Cardinality(TQWithin(s, now)), Cardinality(TQWithin(s, now)) + 1}
    BY <2>1, FS_AddElement
  <2>3. QED BY <2>1, <2>2
<1>4. /\ Cardinality(TQWithin(Append(s, now), now)) <= Cardinality(TQWithin(s, now) \cup {Len(s) + 1})
      /\ Cardinality(TQWithin(Append(s, now), now)) \in Nat /\ Cardinality(TQWithin(s, now)) \in Nat
  BY <1>0, <1>2, <1>3, FS_Subset, FS_CardinalityType, TQWithinCounts
<1>5. QED BY <1>1, <1>3, <1>4

\* A tick only takes queries out of the window.
LEMMA TQTickWithin ==
  ASSUME NEW s \in Seq(Nat), NEW now \in Nat, \A i \in 1..Len(s) : s[i] <= now
  PROVE  Cardinality(TQWithin(s, now + 1)) <= Cardinality(TQWithin(s, now))
<1>1. TQWithin(s, now + 1) \subseteq TQWithin(s, now)
  BY TQConstants DEF TQWithin
<1>2. QED BY <1>1, TQWithinCounts, FS_Subset

LEMMA TQTickKeeps ==
  ASSUME NEW stamps, NEW asked \in Seq(Nat), NEW now \in Nat, TQKeeps(stamps, asked, now)
  PROVE  TQKeeps(stamps, asked, now + 1)
<1>1. PICK k \in 0..Len(asked) : /\ stamps = SubSeq(asked, k + 1, Len(asked))
                                 /\ \A i \in 1..k : asked[i] + TQWindow <= now
  BY DEF TQKeeps
<1>2. \A i \in 1..k : asked[i] + TQWindow <= now + 1
  BY <1>1, TQConstants
<1>3. \A i \in 1..Len(asked) : asked[i] <= now + 1
  BY DEF TQKeeps
<1>4. QED BY <1>1, <1>2, <1>3 DEF TQKeeps

LEMMA TQRecordKeeps ==
  ASSUME NEW recent, NEW asked \in Seq(Nat), NEW now \in Nat, TQKeeps(recent, asked, now)
  PROVE  TQKeeps(Append(recent, now), Append(asked, now), now)
<1> DEFINE more == Append(asked, now)
<1>0. /\ more \in Seq(Nat) /\ Len(more) = Len(asked) + 1 /\ more[Len(asked) + 1] = now
      /\ Len(asked) \in Nat /\ \A i \in 1..Len(asked) : more[i] = asked[i] /\ asked[i] \in Nat
  OBVIOUS
<1> HIDE DEF more
<1>1. PICK k \in 0..Len(asked) : /\ recent = SubSeq(asked, k + 1, Len(asked))
                                 /\ \A i \in 1..k : asked[i] + TQWindow <= now
  BY DEF TQKeeps
<1>2. /\ recent \in Seq(Nat) /\ Len(recent) = Len(asked) - k
      /\ \A i \in 1..Len(recent) : recent[i] = asked[k + i]
  BY <1>1
<1>3. Append(recent, now) = SubSeq(more, k + 1, Len(more))
  <2> DEFINE rest == SubSeq(more, k + 1, Len(more))
             longer == Append(recent, now)
  <2>0. k \in Nat /\ k + 1 \in 1..Len(more) /\ Len(more) \in Nat /\ Len(more) - k = Len(recent) + 1
    BY <1>0, <1>1, <1>2
  <2>1. rest \in Seq(Nat) /\ Len(rest) = Len(recent) + 1 /\ \A i \in 1..Len(rest) : rest[i] = more[k + i]
    <3>1. rest \in Seq(Nat) /\ Len(rest) = Len(more) - k /\ \A i \in 1..(Len(more) - k) : rest[i] = more[k + i]
      BY <1>0, <2>0
    <3>2. QED BY <2>0, <3>1
  <2>2. longer \in Seq(Nat) /\ Len(longer) = Len(recent) + 1 /\ longer[Len(recent) + 1] = now
        /\ \A i \in 1..Len(recent) : longer[i] = recent[i]
    BY <1>2
  <2> HIDE DEF rest, longer
  <2>3. ASSUME NEW i \in 1..Len(longer) PROVE longer[i] = rest[i]
    <3>1. CASE i = Len(recent) + 1
      <4>1. k + i = Len(asked) + 1
        BY <1>1, <1>2, <3>1
      <4>2. QED BY <1>0, <2>1, <2>2, <3>1, <4>1
    <3>2. CASE i # Len(recent) + 1
      <4>0. Len(recent) \in Nat /\ i \in 1..Len(recent)
        BY <1>2, <2>2, <3>2
      <4>1. i \in 1..Len(recent) /\ k + i \in 1..Len(asked)
        BY <1>0, <1>1, <1>2, <4>0
      <4>2. QED BY <1>0, <1>2, <2>1, <2>2, <4>1
    <3>3. QED BY <3>1, <3>2
  <2>4. longer = rest
    BY <2>1, <2>2, <2>3, SeqEqual
  <2>5. QED BY <2>4 DEF rest, longer
<1>4. k \in 0..Len(more) /\ \A i \in 1..k : more[i] + TQWindow <= now
  <2>1. k \in 0..Len(more) /\ \A i \in 1..k : i \in 1..Len(asked)
    BY <1>0, <1>1
  <2>2. QED BY <1>0, <1>1, <2>1
<1>5. \A i \in 1..Len(more) : more[i] <= now
  <2>1. \A i \in 1..Len(asked) : asked[i] <= now
    BY DEF TQKeeps
  <2>2. ASSUME NEW i \in 1..Len(more) PROVE more[i] <= now
    <3>1. CASE i = Len(asked) + 1
      BY <1>0, <3>1
    <3>2. CASE i # Len(asked) + 1
      <4>1. i \in 1..Len(asked)
        BY <1>0, <3>2
      <4>2. QED BY <1>0, <2>1, <4>1
    <3>3. QED BY <3>1, <3>2
  <2>3. QED BY <2>2
<1>6. \A i, j \in 1..Len(more) : i < j => more[i] <= more[j]
  <2>1. \A i, j \in 1..Len(asked) : i < j => asked[i] <= asked[j]
    BY DEF TQKeeps
  <2>2. ASSUME NEW i \in 1..Len(more), NEW j \in 1..Len(more), i < j PROVE more[i] <= more[j]
    <3>0. i \in 1..Len(asked) + 1 /\ j \in 1..Len(asked) + 1 /\ i < j /\ Len(asked) \in Nat
      BY <1>0, <2>2
    <3>1. i \in 1..Len(asked) /\ (j = Len(asked) + 1 \/ j \in 1..Len(asked))
      BY <3>0
    <3>2. CASE j = Len(asked) + 1
      BY <1>0, <1>5, <3>2
    <3>3. CASE j \in 1..Len(asked)
      BY <1>0, <2>1, <2>2, <3>1, <3>3
    <3>4. QED BY <3>1, <3>2, <3>3
  <2>3. QED BY <2>2
<1>7. TQKeeps(Append(recent, now), more, now)
  BY <1>3, <1>4, <1>5, <1>6 DEF TQKeeps
<1>8. QED BY <1>7 DEF more

LEMMA TQAllowedCounts ==
  ASSUME NEW o
  PROVE  /\ TQAllowed(o) \subseteq TQThreads /\ IsFiniteSet(TQAllowed(o))
         /\ Cardinality(TQAllowed(o)) \in Nat /\ Cardinality(TQAllowed(o)) <= Cardinality(TQThreads)
<1>1. TQAllowed(o) \subseteq TQThreads
  BY DEF TQAllowed
<1>2. QED BY <1>1, TQConstants, FS_Subset, FS_CardinalityType

LEMMA TQInitInv == TQInit => TQInv
<1> SUFFICES ASSUME TQInit PROVE TQInv
  OBVIOUS
<1>1. /\ tqObjects = <<>> /\ tqMost = <<>> /\ tqAsked = <<>> /\ tqTenant = 0 /\ tqNow = 0
      /\ Len(tqObjects) = 0 /\ DOMAIN tqObjects = {} /\ DOMAIN tqAsked = {} /\ 1..Len(tqObjects) = {}
  BY DEF TQInit
<1>2. /\ tqThread \in [TQThreads -> TQSteps(Len(tqObjects))]
      /\ \A t \in TQThreads : tqThread[t].at = "out" /\ ~tqThread[t].allowed
  BY <1>1 DEF TQInit, TQSteps
<1>3. TQTyped
  BY <1>1, <1>2 DEF TQTyped
<1>4. TQBalanced /\ TQRateKept
  BY <1>1 DEF TQBalanced, TQRateKept
<1>5. QED BY <1>1, <1>3, <1>4 DEF TQInv

\* The types of one thread's step.
LEMMA TQThreadStep ==
  ASSUME TQTyped, NEW t \in TQThreads, tqThread[t].at \in {"found", "in"}
  PROVE  LET o == tqThread[t].object
         IN  /\ o \in 1..Len(tqObjects) /\ o # 0 /\ tqObjects[o] \in TQRecords /\ tqAsked[o] \in Seq(Nat)
             /\ Len(tqAsked) = Len(tqObjects) /\ Len(tqObjects) \in Nat
             /\ DOMAIN tqObjects = 1..Len(tqObjects) /\ DOMAIN tqAsked = 1..Len(tqObjects)
             /\ tqThread \in [TQThreads -> TQSteps(Len(tqObjects))]
BY DEF TQTyped, TQSteps

LEMMA TQNextTyped ==
  ASSUME TQInv, TQNext
  PROVE  TQTyped'
<1>0. /\ TQTyped /\ Len(tqObjects) \in Nat /\ DOMAIN tqObjects = 1..Len(tqObjects)
      /\ DOMAIN tqMost = 1..Len(tqObjects) /\ DOMAIN tqAsked = 1..Len(tqObjects)
      /\ \A o \in 1..Len(tqObjects) : /\ tqObjects[o] \in TQRecords /\ tqMost[o] \in Nat /\ tqAsked[o] \in Seq(Nat)
      /\ TQLimits \subseteq Nat
  BY TQAssumption DEF TQInv, TQTyped, TQAssumption
<1>1. ASSUME NEW limit \in TQLimits, TQCreate(limit) PROVE TQTyped'
  <2> DEFINE new == [connections |-> {}, limit |-> limit, stamps |-> <<>>]
  <2>1. new \in TQRecords
    BY DEF TQRecords
  <2>2. tqObjects' = Append(tqObjects, new) /\ tqMost' = Append(tqMost, limit) /\ tqAsked' = Append(tqAsked, <<>>)
    BY <1>1 DEF TQCreate
  <2> HIDE DEF new
  <2>3. /\ tqObjects' \in Seq(TQRecords) /\ tqMost' \in Seq(Nat) /\ tqAsked' \in Seq(Seq(Nat))
        /\ Len(tqObjects') = Len(tqObjects) + 1 /\ Len(tqMost') = Len(tqObjects') /\ Len(tqAsked') = Len(tqObjects')
    <3>1. tqObjects \in Seq(TQRecords) /\ tqMost \in Seq(Nat) /\ tqAsked \in Seq(Seq(Nat)) /\ Len(tqMost) = Len(tqObjects)
          /\ Len(tqAsked) = Len(tqObjects)
      BY <1>0 DEF TQTyped
    <3>2. limit \in Nat /\ <<>> \in Seq(Nat)
      BY <1>0
    <3>3. tqObjects' \in Seq(TQRecords) /\ Len(tqObjects') = Len(tqObjects) + 1
      BY <2>1, <2>2, <3>1
    <3>4. tqMost' \in Seq(Nat) /\ Len(tqMost') = Len(tqObjects) + 1
      BY <2>2, <3>1, <3>2
    <3>5. tqAsked' \in Seq(Seq(Nat)) /\ Len(tqAsked') = Len(tqObjects) + 1
      BY <2>2, <3>1, <3>2, AppendProperties
    <3>6. QED BY <3>3, <3>4, <3>5
  <2>4. tqTenant' = Len(tqObjects') /\ tqThread' = tqThread /\ tqNow' = tqNow
    BY <1>1 DEF TQCreate
  <2>5. tqThread' \in [TQThreads -> TQSteps(Len(tqObjects'))]
    <3>1. TQSteps(Len(tqObjects)) \subseteq TQSteps(Len(tqObjects'))
      BY <1>0, <2>3 DEF TQSteps
    <3>2. QED BY <1>0, <2>4, <3>1 DEF TQTyped
  <2>6. QED BY <1>0, <2>3, <2>4, <2>5 DEF TQTyped
<1>2. ASSUME NEW limit \in TQLimits, TQSetLimit(limit) PROVE TQTyped'
  <2>1. tqTenant \in 1..Len(tqObjects)
    BY <1>0, <1>2 DEF TQSetLimit, TQTyped
  <2>2. [tqObjects[tqTenant] EXCEPT !.limit = limit] \in TQRecords
    BY <1>0, <2>1 DEF TQRecords
  <2>3. tqObjects' = [tqObjects EXCEPT ![tqTenant] = [tqObjects[tqTenant] EXCEPT !.limit = limit]]
    BY <1>2 DEF TQSetLimit
  <2>4. tqObjects' \in Seq(TQRecords) /\ Len(tqObjects') = Len(tqObjects)
    BY <1>0, <2>1, <2>2, <2>3 DEF TQTyped
  <2>5. tqMost' \in Seq(Nat) /\ Len(tqMost') = Len(tqMost)
    <3>1. (IF limit > tqMost[tqTenant] THEN limit ELSE tqMost[tqTenant]) \in Nat
      BY <1>0, <2>1
    <3>2. QED BY <1>0, <1>2, <2>1, <3>1 DEF TQSetLimit, TQTyped
  <2>6. UNCHANGED <<tqTenant, tqThread, tqNow, tqAsked>>
    BY <1>2 DEF TQSetLimit
  <2>7. QED BY <1>0, <2>4, <2>5, <2>6 DEF TQTyped
<1>3. ASSUME TQDrop PROVE TQTyped'
  <2>1. tqTenant \in 1..Len(tqObjects)
    BY <1>0, <1>3 DEF TQDrop, TQTyped
  <2>2. [tqObjects[tqTenant] EXCEPT !.connections = {}] \in TQRecords
    BY <1>0, <2>1 DEF TQRecords
  <2>3. tqObjects' = [tqObjects EXCEPT ![tqTenant] = [tqObjects[tqTenant] EXCEPT !.connections = {}]]
    BY <1>3 DEF TQDrop
  <2>4. tqObjects' \in Seq(TQRecords) /\ Len(tqObjects') = Len(tqObjects)
    BY <1>0, <2>1, <2>2, <2>3 DEF TQTyped
  <2>5. tqTenant' = 0 /\ UNCHANGED <<tqThread, tqNow, tqMost, tqAsked>>
    BY <1>3 DEF TQDrop
  <2>6. QED BY <1>0, <2>4, <2>5 DEF TQTyped
<1>4. ASSUME TQTick PROVE TQTyped'
  BY <1>0, <1>4 DEF TQTick, TQTyped
<1>5. ASSUME NEW t \in TQThreads, TQFind(t) PROVE TQTyped'
  <2>1. tqTenant \in 1..Len(tqObjects) /\ UNCHANGED <<tqTenant, tqObjects, tqNow, tqMost, tqAsked>>
    BY <1>0, <1>5 DEF TQFind, TQTyped
  <2>2. tqThread' = [tqThread EXCEPT ![t] = [at |-> "found", object |-> tqTenant, allowed |-> FALSE]]
    BY <1>5 DEF TQFind
  <2>3. [at |-> "found", object |-> tqTenant, allowed |-> FALSE] \in TQSteps(Len(tqObjects))
    BY <2>1 DEF TQSteps
  <2>4. /\ tqThread' \in [TQThreads -> TQSteps(Len(tqObjects))]
        /\ \A u \in TQThreads : /\ tqThread'[u].at \in {"found", "in"} => tqThread'[u].object # 0
                                /\ tqThread'[u].allowed => tqThread'[u].at = "in"
    BY <1>0, <2>1, <2>2, <2>3 DEF TQTyped
  <2>5. QED BY <1>0, <2>1, <2>4 DEF TQTyped
<1>6. ASSUME NEW t \in TQThreads, TQEnter(t) PROVE TQTyped'
  <2> DEFINE o == tqThread[t].object
  <2>1. tqThread[t].at = "found" /\ UNCHANGED <<tqTenant, tqNow, tqMost, tqAsked>>
    BY <1>6 DEF TQEnter
  <2>2. o \in 1..Len(tqObjects) /\ o # 0 /\ tqThread[t] \in TQSteps(Len(tqObjects)) /\ ~tqThread[t].allowed
    BY <1>0, <2>1, TQThreadStep DEF TQTyped
  <2>3. tqThread' \in [TQThreads -> TQSteps(Len(tqObjects))]
        /\ \A u \in TQThreads : /\ tqThread'[u].at \in {"found", "in"} => tqThread'[u].object # 0
                                /\ tqThread'[u].allowed => tqThread'[u].at = "in"
    <3>1. \E step \in {"in", "out"} : tqThread' = [tqThread EXCEPT ![t] = [tqThread[t] EXCEPT !.at = step]]
      BY <1>6 DEF TQEnter
    <3>2. PICK step \in {"in", "out"} : tqThread' = [tqThread EXCEPT ![t] = [tqThread[t] EXCEPT !.at = step]]
      BY <3>1
    <3>3. /\ [tqThread[t] EXCEPT !.at = step] \in TQSteps(Len(tqObjects))
          /\ [tqThread[t] EXCEPT !.at = step].object = o /\ ~[tqThread[t] EXCEPT !.at = step].allowed
      BY <2>2 DEF TQSteps
    <3> HIDE DEF o
    <3>4. QED BY <1>0, <2>2, <3>2, <3>3 DEF TQTyped
  <2>4. tqObjects' \in Seq(TQRecords) /\ Len(tqObjects') = Len(tqObjects)
    <3>1. CASE UNCHANGED tqObjects
      BY <1>0, <3>1 DEF TQTyped
    <3>2. CASE tqObjects' = [tqObjects EXCEPT ![o].connections = @ \cup {TQConnection[t]}]
      <4>1. [tqObjects[o] EXCEPT !.connections = @ \cup {TQConnection[t]}] \in TQRecords
        BY <1>0, <2>2 DEF TQRecords, TQPorts
      <4>2. tqObjects' = [tqObjects EXCEPT ![o] = [tqObjects[o] EXCEPT !.connections = @ \cup {TQConnection[t]}]]
        BY <3>2
      <4>3. QED BY <1>0, <2>2, <4>1, <4>2 DEF TQTyped
    <3>3. QED BY <1>6, <3>1, <3>2 DEF TQEnter
  <2>5. QED BY <1>0, <2>1, <2>3, <2>4 DEF TQTyped
<1>7. ASSUME NEW t \in TQThreads, TQExit(t) PROVE TQTyped'
  <2> DEFINE o == tqThread[t].object
  <2>1. tqThread[t].at = "in" /\ UNCHANGED <<tqTenant, tqNow, tqMost, tqAsked>>
    BY <1>7 DEF TQExit
  <2>2. o \in 1..Len(tqObjects) /\ o # 0
    BY <1>0, <2>1, TQThreadStep
  <2>3. tqThread' = [tqThread EXCEPT ![t] = [at |-> "out", object |-> 0, allowed |-> FALSE]]
    BY <1>7 DEF TQExit
  <2>4. [at |-> "out", object |-> 0, allowed |-> FALSE] \in TQSteps(Len(tqObjects))
    BY <1>0 DEF TQSteps
  <2>5. /\ tqThread' \in [TQThreads -> TQSteps(Len(tqObjects))]
        /\ \A u \in TQThreads : /\ tqThread'[u].at \in {"found", "in"} => tqThread'[u].object # 0
                                /\ tqThread'[u].allowed => tqThread'[u].at = "in"
    BY <1>0, <2>3, <2>4 DEF TQTyped
  <2>6. tqObjects' = [tqObjects EXCEPT ![o] = [tqObjects[o] EXCEPT !.connections = @ \ {TQConnection[t]}]]
    BY <1>7, <2>2 DEF TQExit, TQReleases
  <2>7. [tqObjects[o] EXCEPT !.connections = @ \ {TQConnection[t]}] \in TQRecords
    BY <1>0, <2>2 DEF TQRecords
  <2>8. tqObjects' \in Seq(TQRecords) /\ Len(tqObjects') = Len(tqObjects)
    BY <1>0, <2>2, <2>6, <2>7 DEF TQTyped
  <2>9. QED BY <1>0, <2>1, <2>5, <2>8 DEF TQTyped
<1>8. ASSUME NEW t \in TQThreads, TQCheck(t) PROVE TQTyped'
  <2> DEFINE o == tqThread[t].object
             recent == TQRecent(tqObjects[o].stamps)
  <2>1. tqThread[t].at = "in" /\ UNCHANGED <<tqTenant, tqNow, tqMost, tqAsked>>
    BY <1>8 DEF TQCheck
  <2>2. o \in 1..Len(tqObjects) /\ o # 0 /\ tqThread[t] \in TQSteps(Len(tqObjects))
    BY <1>0, <2>1, TQThreadStep DEF TQTyped
  <2>3. recent \in Seq(Nat)
    BY <1>0, <2>2, TQRecentIs DEF TQInv, TQTyped
  <2> HIDE DEF recent
  <2>4. [tqObjects[o] EXCEPT !.stamps = recent] \in TQRecords
    BY <1>0, <2>2, <2>3 DEF TQRecords
  <2>5. tqObjects' = [tqObjects EXCEPT ![o] = [tqObjects[o] EXCEPT !.stamps = recent]]
    BY <1>8 DEF TQCheck, recent
  <2>6. tqObjects' \in Seq(TQRecords) /\ Len(tqObjects') = Len(tqObjects)
    BY <1>0, <2>2, <2>4, <2>5 DEF TQTyped
  <2>7. tqThread' = [tqThread EXCEPT ![t] = [tqThread[t] EXCEPT !.allowed = TRUE]]
    BY <1>8 DEF TQCheck
  <2>8. [tqThread[t] EXCEPT !.allowed = TRUE] \in TQSteps(Len(tqObjects))
    BY <2>2 DEF TQSteps
  <2>9. /\ tqThread' \in [TQThreads -> TQSteps(Len(tqObjects))]
        /\ \A u \in TQThreads : /\ tqThread'[u].at \in {"found", "in"} => tqThread'[u].object # 0
                                /\ tqThread'[u].allowed => tqThread'[u].at = "in"
    BY <1>0, <2>1, <2>2, <2>7, <2>8 DEF TQTyped, TQSteps
  <2>10. QED BY <1>0, <2>1, <2>6, <2>9 DEF TQTyped
<1>9. ASSUME NEW t \in TQThreads, TQRecord(t) PROVE TQTyped'
  <2> DEFINE o == tqThread[t].object
             recent == TQRecent(tqObjects[o].stamps)
             asked == Append(tqAsked[o], tqNow)
  <2>1. tqThread[t].at = "in" /\ UNCHANGED <<tqTenant, tqNow, tqMost>>
    BY <1>0, <1>9 DEF TQRecord, TQTyped
  <2>2. o \in 1..Len(tqObjects) /\ o # 0 /\ tqThread[t] \in TQSteps(Len(tqObjects))
    BY <1>0, <2>1, TQThreadStep DEF TQTyped
  <2>3. recent \in Seq(Nat) /\ tqNow \in Nat
    BY <1>0, <2>2, TQRecentIs DEF TQInv, TQTyped
  <2>4. asked \in Seq(Nat)
    BY <1>0, <2>2, <2>3
  <2>5. tqObjects' = [tqObjects EXCEPT ![o] = [tqObjects[o] EXCEPT !.stamps = Append(recent, tqNow)]]
    BY <1>9 DEF TQRecord
  <2>6. tqAsked' = [tqAsked EXCEPT ![o] = asked]
    BY <1>9 DEF TQRecord
  <2> HIDE DEF recent, asked
  <2>7. [tqObjects[o] EXCEPT !.stamps = Append(recent, tqNow)] \in TQRecords
    <3>1. Append(recent, tqNow) \in Seq(Nat)
      BY <2>3
    <3>2. QED BY <1>0, <2>2, <3>1 DEF TQRecords
  <2>8. tqObjects' \in Seq(TQRecords) /\ Len(tqObjects') = Len(tqObjects)
    BY <1>0, <2>2, <2>5, <2>7 DEF TQTyped
  <2>9. tqAsked' \in Seq(Seq(Nat)) /\ Len(tqAsked') = Len(tqAsked)
    BY <1>0, <2>2, <2>4, <2>6 DEF TQTyped
  <2>10. tqThread' = [tqThread EXCEPT ![t] = [tqThread[t] EXCEPT !.allowed = FALSE]]
    BY <1>9 DEF TQRecord
  <2>11. [tqThread[t] EXCEPT !.allowed = FALSE] \in TQSteps(Len(tqObjects))
    BY <2>2 DEF TQSteps
  <2>12. /\ tqThread' \in [TQThreads -> TQSteps(Len(tqObjects))]
         /\ \A u \in TQThreads : /\ tqThread'[u].at \in {"found", "in"} => tqThread'[u].object # 0
                                 /\ tqThread'[u].allowed => tqThread'[u].at = "in"
    BY <1>0, <2>1, <2>2, <2>10, <2>11 DEF TQTyped, TQSteps
  <2>13. QED BY <1>0, <2>1, <2>8, <2>9, <2>12 DEF TQTyped
<1>10. QED BY <1>1, <1>2, <1>3, <1>4, <1>5, <1>6, <1>7, <1>8, <1>9 DEF TQNext

\* Who is in the context of an object, with a connection it counts.
LEMMA TQNextBalanced ==
  ASSUME TQInv, TQNext
  PROVE  TQBalanced'
<1>0. /\ TQTyped /\ TQBalanced /\ Len(tqObjects) \in Nat /\ DOMAIN tqObjects = 1..Len(tqObjects)
      /\ \A o \in 1..Len(tqObjects) : tqObjects[o] \in TQRecords
      /\ tqThread \in [TQThreads -> TQSteps(Len(tqObjects))]
  BY DEF TQInv, TQTyped
<1>a. \A o \in 1..Len(tqObjects) : /\ tqObjects[o].connections \subseteq TQInside(o)
                                   /\ o = tqTenant => \A c \in TQInside(o) : c \in tqObjects[o].connections \/ <<o, c>> \in tqCut
  BY <1>0, Zenon DEF TQBalanced, TQInside
<1> SUFFICES ASSUME NEW o \in DOMAIN tqObjects'
             PROVE  /\ (tqObjects[o].connections \subseteq TQInside(o))'
                    /\ tqTenant' = o => \A c \in TQInside(o)' : c \in tqObjects'[o].connections \/ <<o, c>> \in tqCut'
  BY Zenon DEF TQBalanced, TQInside
<1> DEFINE Good == /\ (tqObjects[o].connections \subseteq TQInside(o))'
                   /\ tqTenant' = o => \A c \in TQInside(o)' : c \in tqObjects'[o].connections \/ <<o, c>> \in tqCut'
<1>1. ASSUME NEW limit \in TQLimits, TQCreate(limit) PROVE Good
  <2>1. tqObjects' = Append(tqObjects, [connections |-> {}, limit |-> limit, stamps |-> <<>>]) /\ UNCHANGED <<tqThread, tqCut>>
        /\ tqTenant' = Len(tqObjects')
    BY <1>1 DEF TQCreate
  <2>2. tqTenant' = Len(tqObjects) + 1 /\ o \in 1..(Len(tqObjects) + 1)
    BY <1>0, <2>1
  <2>3. TQInside(o)' = TQInside(o)
    BY <2>1, Zenon DEF TQInside
  <2>4. CASE o \in 1..Len(tqObjects)
    <3>1. tqObjects'[o] = tqObjects[o] /\ tqTenant' # o
      BY <1>0, <2>1, <2>2, <2>4
    <3>2. QED BY <1>a, <2>3, <2>4, <3>1
  <2>5. CASE o = Len(tqObjects) + 1
    <3>1. tqObjects'[o].connections = {}
      BY <1>0, <2>1, <2>5
    <3>2. \A t \in TQThreads : tqThread[t].object # o
      BY <1>0, <2>5 DEF TQSteps
    <3>3. TQInside(o) = {}
      BY <3>2 DEF TQInside
    <3>4. QED BY <2>3, <3>1, <3>3
  <2>6. QED BY <1>0, <2>2, <2>4, <2>5
<1>2. ASSUME NEW limit \in TQLimits, TQSetLimit(limit) PROVE Good
  <2>1. tqTenant \in 1..Len(tqObjects) /\ tqObjects' = [tqObjects EXCEPT ![tqTenant].limit = limit] /\ UNCHANGED <<tqThread, tqCut, tqTenant>>
    BY <1>0, <1>2 DEF TQSetLimit, TQTyped
  <2>2. o \in 1..Len(tqObjects) /\ tqObjects'[o].connections = tqObjects[o].connections
    BY <1>0, <2>1 DEF TQRecords
  <2>3. TQInside(o)' = TQInside(o)
    BY <2>1, Zenon DEF TQInside
  <2>4. QED BY <1>a, <2>1, <2>2, <2>3
<1>3. ASSUME TQDrop PROVE Good
  <2>1. tqTenant \in 1..Len(tqObjects) /\ tqObjects' = [tqObjects EXCEPT ![tqTenant].connections = {}] /\ UNCHANGED <<tqThread, tqCut>>
        /\ tqTenant' = 0
    BY <1>0, <1>3 DEF TQDrop, TQTyped
  <2>2. o \in 1..Len(tqObjects) /\ (tqObjects'[o].connections = {} \/ tqObjects'[o].connections = tqObjects[o].connections) /\ tqTenant' # o
    BY <1>0, <2>1 DEF TQRecords
  <2>3. TQInside(o)' = TQInside(o)
    BY <2>1, Zenon DEF TQInside
  <2>4. QED BY <1>a, <2>2, <2>3
<1>4. ASSUME TQTick PROVE Good
  <2>1. UNCHANGED <<tqObjects, tqThread, tqCut, tqTenant>>
    BY <1>4 DEF TQTick
  <2>2. TQInside(o)' = TQInside(o) /\ o \in 1..Len(tqObjects)
    BY <1>0, <2>1, Zenon DEF TQInside
  <2>3. QED BY <1>a, <2>1, <2>2, Zenon
<1>5. ASSUME NEW t \in TQThreads, TQFind(t) PROVE Good
  <2>1. UNCHANGED <<tqObjects, tqCut, tqTenant>> /\ tqThread[t].at = "out"
        /\ tqThread' = [tqThread EXCEPT ![t] = [at |-> "found", object |-> tqTenant, allowed |-> FALSE]]
    BY <1>5 DEF TQFind
  <2>2. \A u \in TQThreads : tqThread'[u].at = "in" <=> tqThread[u].at = "in"
    BY <1>0, <2>1
  <2>3. \A u \in TQThreads : tqThread[u].at = "in" => tqThread'[u] = tqThread[u]
    BY <1>0, <2>1
  <2>4. TQInside(o)' = TQInside(o) /\ o \in 1..Len(tqObjects)
    BY <1>0, <2>1, <2>2, <2>3 DEF TQInside
  <2>5. QED BY <1>a, <2>1, <2>4, Zenon
<1>6. ASSUME NEW t \in TQThreads, TQEnter(t) PROVE Good
  <2> DEFINE p == tqThread[t].object
  <2>1. tqThread[t].at = "found" /\ UNCHANGED tqTenant
    BY <1>6 DEF TQEnter
  <2>2. p \in 1..Len(tqObjects)
    BY <1>0, <2>1, TQThreadStep
  <2>3. CASE TQRoom(p)
    <3>1. /\ tqObjects' = [tqObjects EXCEPT ![p].connections = @ \cup {TQConnection[t]}]
          /\ tqThread' = [tqThread EXCEPT ![t].at = "in"]
          /\ tqCut' = tqCut \ {<<p, TQConnection[t]>>}
      BY <1>6, <2>3 DEF TQEnter
    <3>2. \A u \in TQThreads : (tqThread'[u].at = "in" /\ tqThread'[u].object = o)
                                 <=> (tqThread[u].at = "in" /\ tqThread[u].object = o) \/ (u = t /\ o = p)
      BY <1>0, <2>1, <3>1 DEF TQSteps
    <3>3. TQInside(o)' = TQInside(o) \cup (IF o = p THEN {TQConnection[t]} ELSE {})
      BY <3>2 DEF TQInside
    <3>4. o \in 1..Len(tqObjects) /\ tqObjects'[o].connections = tqObjects[o].connections \cup (IF o = p THEN {TQConnection[t]} ELSE {})
      BY <1>0, <2>2, <3>1 DEF TQRecords
    <3> HIDE DEF p
    <3>5. \A c : <<o, c>> \in tqCut /\ <<o, c>> \notin tqCut' => o = p /\ c = TQConnection[t]
      BY <3>1
    <3>6. QED BY <1>a, <2>1, <3>3, <3>4, <3>5
  <2>4. CASE ~TQRoom(p)
    <3>1. tqThread' = [tqThread EXCEPT ![t].at = "out"] /\ UNCHANGED <<tqObjects, tqCut>>
      BY <1>6, <2>4 DEF TQEnter
    <3>2. \A u \in TQThreads : (tqThread'[u].at = "in" /\ tqThread'[u].object = o)
                                 <=> (tqThread[u].at = "in" /\ tqThread[u].object = o)
      BY <1>0, <2>1, <3>1 DEF TQSteps
    <3>3. TQInside(o)' = TQInside(o) /\ o \in 1..Len(tqObjects)
      BY <1>0, <3>1, <3>2 DEF TQInside
    <3>4. QED BY <1>a, <2>1, <3>1, <3>3, Zenon
  <2>5. QED BY <2>3, <2>4
<1>7. ASSUME NEW t \in TQThreads, TQExit(t) PROVE Good
  <2> DEFINE p == tqThread[t].object
  <2>1. tqThread[t].at = "in" /\ UNCHANGED tqTenant
        /\ tqThread' = [tqThread EXCEPT ![t] = [at |-> "out", object |-> 0, allowed |-> FALSE]]
        /\ tqCut' = tqCut \cup {<<p, TQConnection[u]>> : u \in {v \in TQThreads \ {t} :
                      tqThread[v].at = "in" /\ tqThread[v].object = p /\ TQConnection[v] = TQConnection[t]}}
    BY <1>7 DEF TQExit
  <2>2. p \in 1..Len(tqObjects) /\ p # 0
    BY <1>0, <2>1, TQThreadStep
  <2>3. tqObjects' = [tqObjects EXCEPT ![p].connections = @ \ {TQConnection[t]}]
    BY <1>7, <2>2 DEF TQExit, TQReleases
  <2>4. o \in 1..Len(tqObjects) /\ tqObjects'[o].connections = tqObjects[o].connections \ (IF o = p THEN {TQConnection[t]} ELSE {})
    BY <1>0, <2>2, <2>3 DEF TQRecords
  <2>5. \A u \in TQThreads : (tqThread'[u].at = "in" /\ tqThread'[u].object = o)
                               <=> u # t /\ tqThread[u].at = "in" /\ tqThread[u].object = o
    BY <1>0, <2>1 DEF TQSteps
  <2>6. \A c \in TQInside(o) : (o = p /\ c = TQConnection[t]) \/ c \in TQInside(o)'
    BY <2>5 DEF TQInside
  <2>7. TQInside(o)' \subseteq TQInside(o)
    BY <2>5 DEF TQInside
  <2>8. o = p /\ TQConnection[t] \in TQInside(o)' => <<o, TQConnection[t]>> \in tqCut'
    BY <2>1, <2>5 DEF TQInside
  <2>9. tqCut \subseteq tqCut'
    BY <2>1
  <2> HIDE DEF p
  <2>10. QED BY <1>a, <2>1, <2>4, <2>6, <2>7, <2>8, <2>9
<1>8. ASSUME NEW t \in TQThreads, TQCheck(t) \/ TQRecord(t) PROVE Good
  <2>1. tqThread[t].at = "in" /\ UNCHANGED <<tqTenant, tqCut>>
    BY <1>0, <1>8 DEF TQRecord, TQCheck, TQTyped
  <2>2. tqThread[t].object \in 1..Len(tqObjects)
    BY <1>0, <2>1, TQThreadStep
  <2>3. \E stamps : tqObjects' = [tqObjects EXCEPT ![tqThread[t].object].stamps = stamps]
    BY <1>8, Zenon DEF TQRecord, TQCheck
  <2>4. \E allowed : tqThread' = [tqThread EXCEPT ![t].allowed = allowed]
    BY <1>8, Zenon DEF TQRecord, TQCheck
  <2>5. \A u \in TQThreads : tqThread'[u].at = tqThread[u].at /\ tqThread'[u].object = tqThread[u].object
    BY <1>0, <2>4 DEF TQSteps
  <2>6. o \in 1..Len(tqObjects) /\ tqObjects'[o].connections = tqObjects[o].connections
    BY <1>0, <2>2, <2>3 DEF TQRecords
  <2>7. TQInside(o)' = TQInside(o)
    BY <2>5 DEF TQInside
  <2>8. QED BY <1>a, <2>1, <2>6, <2>7
<1>9. Good
  BY <1>1, <1>2, <1>3, <1>4, <1>5, <1>6, <1>7, <1>8 DEF TQNext
<1>10. QED BY <1>9

\* What a step must leave true of an object and its queries.
TQFair(o) ==
  /\ TQKeeps(tqObjects[o].stamps, tqAsked[o], tqNow) /\ TQHeld(o)
  /\ \A n \in 0..tqNow : Cardinality(TQWithin(tqAsked[o], n)) <= TQMany

LEMMA TQFairIs ==
  ASSUME TQTyped
  PROVE  TQRateKept /\ (\A o \in 1..Len(tqObjects) : TQKeeps(tqObjects[o].stamps, tqAsked[o], tqNow) /\ TQHeld(o))
           <=> \A o \in 1..Len(tqObjects) : TQFair(o)
<1>1. DOMAIN tqAsked = 1..Len(tqObjects)
  BY DEF TQTyped
<1>2. TQRateKept <=> \A o \in 1..Len(tqObjects) : \A n \in 0..tqNow : Cardinality(TQWithin(tqAsked[o], n)) <= TQMany
  BY <1>1, Zenon DEF TQRateKept, TQMany
<1>3. QED BY <1>2, Zenon DEF TQFair

\* No new query, and none allowed that was not.
LEMMA TQFairStays ==
  ASSUME TQTyped, NEW o \in 1..Len(tqObjects), TQFair(o), tqNow' = tqNow, tqAsked'[o] = tqAsked[o],
         tqObjects'[o].stamps = tqObjects[o].stamps, TQAllowed(o)' \subseteq TQAllowed(o)
  PROVE  TQFair(o)'
<1>1. tqAsked[o] \in Seq(Nat) /\ tqNow \in Nat
  BY DEF TQTyped
<1>2. Cardinality(TQAllowed(o)') <= Cardinality(TQAllowed(o)) /\ Cardinality(TQAllowed(o)') \in Nat /\ Cardinality(TQAllowed(o)) \in Nat
  <2>1. IsFiniteSet(TQAllowed(o)) /\ Cardinality(TQAllowed(o)) \in Nat
    BY TQAllowedCounts
  <2>2. QED BY <2>1, FS_Subset, FS_CardinalityType
<1>3. Cardinality(TQWithin(tqAsked[o], tqNow)) \in Nat /\ TQMany \in Nat
  BY <1>1, TQWithinCounts, TQConstants
<1>4. Cardinality(TQWithin(tqAsked[o], tqNow)) + Cardinality(TQAllowed(o)) <= TQMany
  BY DEF TQFair, TQHeld
<1>5. Cardinality(TQWithin(tqAsked[o], tqNow)) + Cardinality(TQAllowed(o)') <= TQMany
  BY <1>2, <1>3, <1>4
<1>6. TQHeld(o)'
  <2>1. (Cardinality(TQWithin(tqAsked[o], tqNow)) + Cardinality(TQAllowed(o)) <= TQMany)'
    BY <1>5
  <2>2. QED BY <2>1, Zenon DEF TQHeld
<1>7. TQKeeps(tqObjects'[o].stamps, tqAsked'[o], tqNow')
  BY Zenon DEF TQFair
<1>8. \A n \in 0..tqNow' : Cardinality(TQWithin(tqAsked'[o], n)) <= TQMany
  BY Zenon DEF TQFair
<1>9. QED BY <1>6, <1>7, <1>8, Zenon DEF TQFair

LEMMA TQNextFair ==
  ASSUME TQInv, TQNext, NEW o \in 1..Len(tqObjects')
  PROVE  TQFair(o)'
<1>0. /\ TQTyped /\ Len(tqObjects) \in Nat /\ tqNow \in Nat
      /\ DOMAIN tqAsked = 1..Len(tqObjects) /\ DOMAIN tqObjects = 1..Len(tqObjects)
      /\ tqThread \in [TQThreads -> TQSteps(Len(tqObjects))]
      /\ tqObjects \in Seq(TQRecords) /\ tqAsked \in Seq(Seq(Nat)) /\ Len(tqAsked) = Len(tqObjects)
      /\ \A p \in 1..Len(tqObjects) : tqObjects[p] \in TQRecords /\ tqAsked[p] \in Seq(Nat)
  BY DEF TQInv, TQTyped
<1>a. \A p \in 1..Len(tqObjects) : TQFair(p)
  BY TQFairIs DEF TQInv
<1>b. TQMany \in Nat /\ TQMany = TQRate + Cardinality(TQThreads) - 1 /\ TQRate \in Nat /\ Cardinality(TQThreads) \in Nat
      /\ Cardinality(TQThreads) > 0
  BY TQConstants DEF TQMany
<1>1. ASSUME NEW limit \in TQLimits, TQCreate(limit) PROVE TQFair(o)'
  <2>1. /\ tqObjects' = Append(tqObjects, [connections |-> {}, limit |-> limit, stamps |-> <<>>])
        /\ UNCHANGED <<tqThread, tqNow>> /\ tqAsked' = Append(tqAsked, <<>>)
    BY <1>1 DEF TQCreate
  <2>2. o \in 1..(Len(tqObjects) + 1)
    BY <1>0, <2>1
  <2>3. TQAllowed(o)' = TQAllowed(o)
    BY <2>1, Zenon DEF TQAllowed
  <2>4. CASE o \in 1..Len(tqObjects)
    <3>1. tqObjects'[o] = tqObjects[o] /\ tqAsked'[o] = tqAsked[o]
      BY <1>0, <2>1, <2>4
    <3>2. QED BY <1>0, <1>a, <2>1, <2>3, <2>4, <3>1, TQFairStays
  <2>5. CASE o = Len(tqObjects) + 1
    <3>1. tqObjects'[o].stamps = <<>> /\ tqAsked'[o] = <<>>
      BY <1>0, <2>1, <2>5
    <3>2. \A t \in TQThreads : tqThread[t].object # o
      BY <1>0, <2>5 DEF TQSteps
    <3>3. TQAllowed(o)' = {}
      BY <2>3, <3>2 DEF TQAllowed
    <3>4. \A n : TQWithin(<<>>, n) = {}
      BY DEF TQWithin
    <3>5. TQKeeps(<<>>, <<>>, tqNow)
      <4>1. Len(<<>>) = 0 /\ 0 \in 0..Len(<<>>) /\ SubSeq(<<>>, 0 + 1, Len(<<>>)) = <<>>
        OBVIOUS
      <4>2. QED BY <4>1 DEF TQKeeps
    <3>6. Cardinality({}) = 0
      BY FS_EmptySet
    <3>7. TQHeld(o)'
      <4>1. (Cardinality(TQWithin(tqAsked[o], tqNow)) = 0 /\ Cardinality(TQAllowed(o)) = 0)'
        BY <3>1, <3>3, <3>4, <3>6
      <4>2. (Cardinality(TQWithin(tqAsked[o], tqNow)) + Cardinality(TQAllowed(o)) <= TQMany)'
        BY <4>1, <1>b
      <4>3. QED BY <4>2, Zenon DEF TQHeld
    <3>8. \A n \in 0..tqNow' : Cardinality(TQWithin(tqAsked'[o], n)) <= TQMany
      <4>1. \A n : Cardinality(TQWithin(tqAsked'[o], n)) = 0
        BY <3>1, <3>4, <3>6
      <4>2. QED BY <1>b, <4>1
    <3>9. QED BY <2>1, <3>1, <3>5, <3>7, <3>8 DEF TQFair
  <2>6. QED BY <1>0, <2>2, <2>4, <2>5
<1>2. ASSUME NEW limit \in TQLimits, TQSetLimit(limit) PROVE TQFair(o)'
  <2>1. tqTenant \in 1..Len(tqObjects) /\ tqObjects' = [tqObjects EXCEPT ![tqTenant].limit = limit] /\ UNCHANGED <<tqThread, tqNow, tqAsked>>
    BY <1>0, <1>2 DEF TQSetLimit, TQTyped
  <2>2. o \in 1..Len(tqObjects) /\ tqObjects'[o].stamps = tqObjects[o].stamps
    BY <1>0, <2>1 DEF TQRecords
  <2>3. TQAllowed(o)' = TQAllowed(o)
    BY <2>1, Zenon DEF TQAllowed
  <2>4. QED BY <1>0, <1>a, <2>1, <2>2, <2>3, TQFairStays
<1>3. ASSUME TQDrop PROVE TQFair(o)'
  <2>1. tqTenant \in 1..Len(tqObjects) /\ tqObjects' = [tqObjects EXCEPT ![tqTenant].connections = {}] /\ UNCHANGED <<tqThread, tqNow, tqAsked>>
    BY <1>0, <1>3 DEF TQDrop, TQTyped
  <2>2. o \in 1..Len(tqObjects) /\ tqObjects'[o].stamps = tqObjects[o].stamps
    BY <1>0, <2>1 DEF TQRecords
  <2>3. TQAllowed(o)' = TQAllowed(o)
    BY <2>1, Zenon DEF TQAllowed
  <2>4. QED BY <1>0, <1>a, <2>1, <2>2, <2>3, TQFairStays
<1>4. ASSUME TQTick PROVE TQFair(o)'
  <2>1. UNCHANGED <<tqObjects, tqThread, tqAsked>> /\ tqNow' = tqNow + 1 /\ o \in 1..Len(tqObjects)
    BY <1>4 DEF TQTick
  <2>2. TQKeeps(tqObjects[o].stamps, tqAsked[o], tqNow) /\ TQHeld(o)
        /\ \A n \in 0..tqNow : Cardinality(TQWithin(tqAsked[o], n)) <= TQMany
    BY <1>a, <2>1, Zenon DEF TQFair
  <2>3. TQAllowed(o)' = TQAllowed(o)
    BY <2>1, Zenon DEF TQAllowed
  <2>4. tqAsked[o] \in Seq(Nat) /\ \A i \in 1..Len(tqAsked[o]) : tqAsked[o][i] <= tqNow
    BY <1>0, <2>1, <2>2 DEF TQKeeps
  <2>5. TQKeeps(tqObjects'[o].stamps, tqAsked'[o], tqNow')
    BY <1>0, <2>1, <2>2, <2>4, TQTickKeeps
  <2>6. Cardinality(TQWithin(tqAsked[o], tqNow + 1)) <= Cardinality(TQWithin(tqAsked[o], tqNow))
    BY <1>0, <2>4, TQTickWithin
  <2>7. /\ Cardinality(TQWithin(tqAsked[o], tqNow + 1)) \in Nat /\ Cardinality(TQWithin(tqAsked[o], tqNow)) \in Nat
        /\ Cardinality(TQAllowed(o)) \in Nat
    <3>1. tqNow + 1 \in Nat /\ tqNow \in Nat
      BY <1>0
    <3>2. QED BY <2>4, <3>1, TQWithinCounts, TQAllowedCounts
  <2>8. Cardinality(TQWithin(tqAsked[o], tqNow)) + Cardinality(TQAllowed(o)) <= TQMany
    BY <2>2, Zenon DEF TQHeld
  <2>9. Cardinality(TQWithin(tqAsked[o], tqNow + 1)) + Cardinality(TQAllowed(o)) <= TQMany
    BY <1>b, <2>6, <2>7, <2>8
  <2>10. TQHeld(o)'
    <3>1. (Cardinality(TQWithin(tqAsked[o], tqNow)) + Cardinality(TQAllowed(o)) <= TQMany)'
      BY <2>1, <2>3, <2>9
    <3>2. QED BY <3>1, Zenon DEF TQHeld
  <2>11. \A n \in 0..tqNow' : Cardinality(TQWithin(tqAsked'[o], n)) <= TQMany
    <3>1. ASSUME NEW n \in 0..(tqNow + 1) PROVE Cardinality(TQWithin(tqAsked[o], n)) <= TQMany
      <4>1. CASE n = tqNow + 1
        BY <1>b, <2>7, <2>9, <4>1
      <4>2. CASE n # tqNow + 1
        <5>1. n \in 0..tqNow
          BY <1>0, <4>2
        <5>2. QED BY <2>2, <5>1
      <4>3. QED BY <4>1, <4>2
    <3>2. QED BY <2>1, <3>1
  <2>12. QED BY <2>5, <2>10, <2>11, Zenon DEF TQFair
<1>5. ASSUME NEW t \in TQThreads, TQFind(t) \/ TQEnter(t) \/ TQExit(t) PROVE TQFair(o)'
  <2>1. UNCHANGED <<tqNow, tqAsked>> /\ tqThread[t].at \in {"out", "found", "in"}
    BY <1>0, <1>5 DEF TQFind, TQEnter, TQExit, TQSteps
  <2>2. o \in 1..Len(tqObjects) /\ tqObjects'[o].stamps = tqObjects[o].stamps
    <3>1. CASE UNCHANGED tqObjects
      BY <3>1
    <3>2. CASE \E p, connections : tqObjects' = [tqObjects EXCEPT ![p].connections = connections]
      BY <1>0, <3>2 DEF TQRecords
    <3>3. QED BY <1>5, <3>1, <3>2 DEF TQFind, TQEnter, TQExit
  <2>3. TQAllowed(o)' \subseteq TQAllowed(o)
    <3>1. \A u \in TQThreads : tqThread'[u].allowed => tqThread[u].allowed /\ tqThread'[u].object = tqThread[u].object
      <4>1. CASE TQFind(t) \/ TQExit(t)
        <5>1. \E p, step : tqThread' = [tqThread EXCEPT ![t] = [at |-> step, object |-> p, allowed |-> FALSE]]
          BY <4>1, Zenon DEF TQFind, TQExit
        <5>2. QED BY <1>0, <5>1
      <4>2. CASE TQEnter(t)
        <5>1. \E step : tqThread' = [tqThread EXCEPT ![t].at = step]
          BY <4>2, Zenon DEF TQEnter
        <5>2. QED BY <1>0, <5>1 DEF TQSteps
      <4>3. QED BY <1>5, <4>1, <4>2
    <3>2. QED BY <3>1 DEF TQAllowed
  <2>4. QED BY <1>0, <1>a, <2>1, <2>2, <2>3, TQFairStays
<1>6. ASSUME NEW t \in TQThreads, TQCheck(t) \/ TQRecord(t) PROVE TQFair(o)'
  <2> DEFINE p == tqThread[t].object
             recent == TQRecent(tqObjects[p].stamps)
  <2>1. tqThread[t].at = "in" /\ tqNow' = tqNow
    BY <1>0, <1>6 DEF TQRecord, TQCheck, TQTyped
  <2>2. p \in 1..Len(tqObjects)
    BY <1>0, <2>1, TQThreadStep
  <2>3. TQKeeps(tqObjects[p].stamps, tqAsked[p], tqNow) /\ TQHeld(p)
        /\ \A n \in 0..tqNow : Cardinality(TQWithin(tqAsked[p], n)) <= TQMany
    BY <1>a, <2>2, Zenon DEF TQFair
  <2>4. /\ recent \in Seq(Nat) /\ TQKeeps(recent, tqAsked[p], tqNow)
        /\ Len(recent) = Cardinality(TQWithin(tqAsked[p], tqNow))
    BY <1>0, <2>2, <2>3, TQRecentIs
  <2>5. \E stamps : tqObjects' = [tqObjects EXCEPT ![p].stamps = stamps]
    BY <1>6, Zenon DEF TQRecord, TQCheck
  <2>6. o \in 1..Len(tqObjects)
    BY <1>0, <2>5
  <2>7. \E allowed : tqThread' = [tqThread EXCEPT ![t].allowed = allowed]
    BY <1>6, Zenon DEF TQRecord, TQCheck
  <2>8. CASE o # p
    <3>1. tqObjects'[o] = tqObjects[o]
      BY <1>0, <2>2, <2>5, <2>6, <2>8
    <3>2. tqAsked'[o] = tqAsked[o]
      BY <1>0, <1>6, <2>6, <2>8 DEF TQRecord, TQCheck
    <3>3. \A u \in TQThreads : tqThread'[u].object = o => tqThread'[u] = tqThread[u]
      BY <1>0, <2>7, <2>8 DEF TQSteps
    <3>4. TQAllowed(o)' \subseteq TQAllowed(o)
      BY <3>3 DEF TQAllowed
    <3>5. QED BY <1>0, <1>a, <2>1, <2>6, <3>1, <3>2, <3>4, TQFairStays
  <2>9. CASE o = p /\ TQCheck(t)
    <3>1. tqObjects' = [tqObjects EXCEPT ![p].stamps = recent] /\ Len(recent) + 1 <= TQRate /\ UNCHANGED tqAsked
      BY <2>9 DEF TQCheck
    <3> HIDE DEF recent
    <3>2. tqObjects'[o].stamps = recent
      BY <1>0, <2>2, <2>9, <3>1 DEF TQRecords
    <3>3. TQKeeps(tqObjects'[o].stamps, tqAsked'[o], tqNow')
      BY <2>1, <2>4, <2>9, <3>1, <3>2
    <3>4. Cardinality(TQAllowed(o)') \in Nat /\ Cardinality(TQAllowed(o)') <= Cardinality(TQThreads)
      <4>1. TQAllowed(o)' \subseteq TQThreads
        BY DEF TQAllowed
      <4>2. QED BY <4>1, TQConstants, FS_Subset, FS_CardinalityType
    <3>5. Cardinality(TQWithin(tqAsked[p], tqNow)) \in Nat
      BY <1>0, <2>2, TQWithinCounts
    <3>6. Cardinality(TQWithin(tqAsked[p], tqNow)) + Cardinality(TQAllowed(o)') <= TQMany
      BY <1>b, <2>4, <3>1, <3>4, <3>5
    <3>7. TQHeld(o)'
      <4>1. (Cardinality(TQWithin(tqAsked[o], tqNow)) + Cardinality(TQAllowed(o)) <= TQMany)'
        BY <2>1, <2>9, <3>1, <3>6
      <4>2. QED BY <4>1, Zenon DEF TQHeld
    <3>8. \A n \in 0..tqNow' : Cardinality(TQWithin(tqAsked'[o], n)) <= TQMany
      BY <2>1, <2>3, <2>9, <3>1
    <3>9. QED BY <3>3, <3>7, <3>8, Zenon DEF TQFair
  <2>10. CASE o = p /\ TQRecord(t)
    <3>1. /\ tqObjects' = [tqObjects EXCEPT ![p].stamps = Append(recent, tqNow)]
          /\ tqAsked' = [tqAsked EXCEPT ![p] = Append(tqAsked[p], tqNow)]
          /\ tqThread' = [tqThread EXCEPT ![t].allowed = FALSE] /\ tqThread[t].allowed
      BY <2>10 DEF TQRecord
    <3> HIDE DEF recent
    <3>2. tqObjects'[o].stamps = Append(recent, tqNow) /\ tqAsked'[o] = Append(tqAsked[p], tqNow)
      BY <1>0, <2>2, <2>10, <3>1 DEF TQRecords
    <3>3. TQKeeps(tqObjects'[o].stamps, tqAsked'[o], tqNow')
      BY <1>0, <2>1, <2>2, <2>4, <3>2, TQRecordKeeps
    <3>4. /\ \A n \in 0..tqNow : n < tqNow => TQWithin(tqAsked'[o], n) = TQWithin(tqAsked[p], n)
          /\ Cardinality(TQWithin(tqAsked'[o], tqNow)) <= Cardinality(TQWithin(tqAsked[p], tqNow)) + 1
      BY <1>0, <2>2, <3>2, TQRecordedWithin
    <3>5. TQAllowed(o)' = TQAllowed(p) \ {t} /\ t \in TQAllowed(p)
      BY <1>0, <2>10, <3>1 DEF TQAllowed, TQSteps
    <3>6. Cardinality(TQAllowed(o)') = Cardinality(TQAllowed(p)) - 1 /\ Cardinality(TQAllowed(p)) \in Nat
      BY <3>5, TQAllowedCounts, FS_RemoveElement
    <3>7. Cardinality(TQWithin(tqAsked[p], tqNow)) + Cardinality(TQAllowed(p)) <= TQMany
      BY <2>3, Zenon DEF TQHeld
    <3>8. Cardinality(TQWithin(tqAsked[p], tqNow)) \in Nat /\ Cardinality(TQWithin(tqAsked'[o], tqNow)) \in Nat
      <4>1. tqAsked[p] \in Seq(Nat) /\ tqAsked'[o] \in Seq(Nat)
        BY <1>0, <2>2, <3>2
      <4>2. QED BY <1>0, <4>1, TQWithinCounts
    <3>9. Cardinality(TQWithin(tqAsked'[o], tqNow)) + Cardinality(TQAllowed(o)') <= TQMany
      BY <1>b, <3>4, <3>6, <3>7, <3>8
    <3>10. TQHeld(o)'
      <4>1. (Cardinality(TQWithin(tqAsked[o], tqNow)) + Cardinality(TQAllowed(o)) <= TQMany)'
        BY <2>1, <3>9
      <4>2. QED BY <4>1, Zenon DEF TQHeld
    <3>11. Cardinality(TQAllowed(o)') \in Nat
      <4>1. Cardinality(TQAllowed(p)) # 0
        BY <3>5, TQAllowedCounts, FS_EmptySet
      <4>2. QED BY <3>6, <4>1
    <3>12. \A n \in 0..tqNow' : Cardinality(TQWithin(tqAsked'[o], n)) <= TQMany
      <4>1. ASSUME NEW n \in 0..tqNow PROVE Cardinality(TQWithin(tqAsked'[o], n)) <= TQMany
        <5>1. CASE n = tqNow
          BY <1>b, <3>8, <3>9, <3>11, <5>1
        <5>2. CASE n # tqNow
          <6>1. n < tqNow
            BY <1>0, <5>2
          <6>2. QED BY <2>3, <3>4, <6>1
        <5>3. QED BY <5>1, <5>2
      <4>2. QED BY <2>1, <4>1
    <3>13. QED BY <3>3, <3>10, <3>12, Zenon DEF TQFair
  <2>11. QED BY <1>6, <2>8, <2>9, <2>10
<1>7. QED BY <1>1, <1>2, <1>3, <1>4, <1>5, <1>6 DEF TQNext

LEMMA TQNextInv == TQInv /\ [TQNext]_tqVars => TQInv'
<1>1. ASSUME TQInv, TQNext PROVE TQInv'
  <2>1. TQTyped' /\ TQBalanced'
    BY <1>1, TQNextTyped, TQNextBalanced
  <2>2. \A o \in 1..Len(tqObjects') : TQFair(o)'
    BY <1>1, TQNextFair
  <2>3. (\A o \in 1..Len(tqObjects) : TQFair(o))'
    BY <2>2
  <2>4. (TQRateKept /\ \A o \in 1..Len(tqObjects) : TQKeeps(tqObjects[o].stamps, tqAsked[o], tqNow) /\ TQHeld(o))'
    <3>1. (TQTyped /\ (\A o \in 1..Len(tqObjects) : TQFair(o)) =>
            TQRateKept /\ \A o \in 1..Len(tqObjects) : TQKeeps(tqObjects[o].stamps, tqAsked[o], tqNow) /\ TQHeld(o))'
      BY TQFairIs, PTL
    <3>2. QED BY <2>1, <2>3, <3>1
  <2>5. QED BY <2>1, <2>4 DEF TQInv
<1>2. ASSUME TQInv, UNCHANGED tqVars PROVE TQInv'
  BY <1>2 DEF TQInv, tqVars, TQTyped, TQBalanced, TQRateKept, TQHeld, TQAllowed, TQRecords, TQSteps, TQPorts
<1>3. QED BY <1>1, <1>2

-----------------------------------------------------------------------------
(* Batches of one tenant, Tenants: the tenants that the checked commands   *)
(* touched, and the tenant in effect after them.                           *)

\* The tenant in effect after n commands, and the tenants they touch, of any batch.
TBEffect(commands, first, n) ==
  LET used == {i \in 1..n : commands[i].kind = "use"}
      last == CHOOSE i \in used : \A j \in used : i >= j
  IN  IF used = {} THEN first ELSE commands[last].tenant

TBTouches(commands, first, n) ==
  {IF commands[i].kind = "plain" THEN TBEffect(commands, first, i) ELSE commands[i].tenant : i \in 1..n} \ {TBNone}

TBBatches ==
  [at : {"idle", "verifying", "running", "refused", "stopped"}, commands : Seq(TBCommands), first : TBTenants \cup {TBNone},
   done : Nat, found : SUBSET TBTenants, tenant : TBTenants \cup {TBNone}, mixed : BOOLEAN]

TBTyped == tbBatch \in TBBatches /\ tbCurrent \in TBTenants \cup {TBNone} /\ tbBatch.done <= Len(tbBatch.commands)

TBInv ==
  /\ TBTyped
  /\ tbBatch.at = "verifying" => tbBatch.tenant = tbBatch.first
  /\ tbBatch.at = "running" /\ tbBatch.first # TBNone => tbBatch.tenant = tbBatch.first
  /\ tbBatch.at = "verifying" /\ ~tbBatch.mixed =>
       /\ tbCurrent = TBEffect(tbBatch.commands, tbBatch.first, tbBatch.done)
       /\ tbBatch.found = TBTouches(tbBatch.commands, tbBatch.first, tbBatch.done)
  /\ tbBatch.at \in {"running", "stopped"} /\ ~tbBatch.mixed =>
       Cardinality(TBTouches(tbBatch.commands, tbBatch.first, Len(tbBatch.commands))) <= 1

LEMMA TBFields ==
  ASSUME NEW batch \in TBBatches
  PROVE  /\ batch.at \in {"idle", "verifying", "running", "refused", "stopped"} /\ batch.commands \in Seq(TBCommands)
         /\ batch.first \in TBTenants \cup {TBNone} /\ batch.done \in Nat /\ batch.found \subseteq TBTenants
         /\ batch.tenant \in TBTenants \cup {TBNone} /\ batch.mixed \in BOOLEAN /\ Len(batch.commands) \in Nat
BY DEF TBBatches

LEMMA TBCommandIs ==
  ASSUME TBTyped, tbBatch.done < Len(tbBatch.commands)
  PROVE  /\ TBNow = tbBatch.commands[tbBatch.done + 1] /\ TBNow \in TBCommands
         /\ TBNow.tenant \in TBTenants \cup {TBNone}
<1>1. tbBatch.commands \in Seq(TBCommands) /\ tbBatch.done \in Nat
  BY TBFields DEF TBTyped
<1>2. TBNow \in TBCommands
  BY <1>1 DEF TBNow
<1>3. QED BY <1>2 DEF TBNow, TBCommands

LEMMA TBEffectNext ==
  ASSUME NEW commands, NEW first, NEW n \in Nat
  PROVE  TBEffect(commands, first, n + 1) =
           IF commands[n + 1].kind = "use" THEN commands[n + 1].tenant ELSE TBEffect(commands, first, n)
<1> DEFINE before == {i \in 1..n : commands[i].kind = "use"}
           after  == {i \in 1..(n + 1) : commands[i].kind = "use"}
<1>1. CASE commands[n + 1].kind = "use"
  <2>1. n + 1 \in after /\ after # {} /\ \A j \in after : n + 1 >= j
    BY <1>1
  <2>2. \A i \in after : (\A j \in after : i >= j) => i = n + 1
    BY <2>1
  <2>3. (CHOOSE i \in after : \A j \in after : i >= j) = n + 1
    BY <2>1, <2>2
  <2>4. QED BY <1>1, <2>1, <2>3 DEF TBEffect
<1>2. CASE commands[n + 1].kind # "use"
  <2>1. before = after
    BY <1>2
  <2>2. TBEffect(commands, first, n + 1) = TBEffect(commands, first, n)
    <3> DEFINE E(used) == IF used = {} THEN first ELSE commands[CHOOSE i \in used : \A j \in used : i >= j].tenant
    <3>1. TBEffect(commands, first, n + 1) = E(after) /\ TBEffect(commands, first, n) = E(before)
      BY Zenon DEF TBEffect
    <3> HIDE DEF E, before, after
    <3>2. QED BY <2>1, <3>1
  <2>3. QED BY <1>2, <2>2
<1>3. QED BY <1>1, <1>2

LEMMA TBEffectNone ==
  ASSUME NEW commands, NEW first
  PROVE  TBEffect(commands, first, 0) = first /\ TBTouches(commands, first, 0) = {}
<1>1. 1..0 = {}
  OBVIOUS
<1>2. QED BY <1>1 DEF TBEffect, TBTouches

LEMMA TBTouchesNext ==
  ASSUME NEW commands, NEW first, NEW n \in Nat
  PROVE  TBTouches(commands, first, n + 1) =
           TBTouches(commands, first, n)
             \cup ({IF commands[n + 1].kind = "plain" THEN TBEffect(commands, first, n) ELSE commands[n + 1].tenant} \ {TBNone})
<1> DEFINE touched(i) == IF commands[i].kind = "plain" THEN TBEffect(commands, first, i) ELSE commands[i].tenant
<1>1. 1..(n + 1) = (1..n) \cup {n + 1}
  OBVIOUS
<1>2. touched(n + 1) = IF commands[n + 1].kind = "plain" THEN TBEffect(commands, first, n) ELSE commands[n + 1].tenant
  BY TBEffectNext
<1>3. TBTouches(commands, first, n + 1) = {touched(i) : i \in 1..(n + 1)} \ {TBNone}
      /\ TBTouches(commands, first, n) = {touched(i) : i \in 1..n} \ {TBNone}
  BY Zenon DEF TBTouches
<1> HIDE DEF touched
<1>4. {touched(i) : i \in 1..(n + 1)} = {touched(i) : i \in 1..n} \cup {touched(n + 1)}
  BY <1>1
<1>5. QED BY <1>2, <1>3, <1>4

LEMMA TBTouchesGrow ==
  ASSUME NEW commands, NEW first, NEW m \in Nat, NEW n \in Nat, m <= n
  PROVE  TBTouches(commands, first, m) \subseteq TBTouches(commands, first, n)
<1>1. 1..m \subseteq 1..n
  OBVIOUS
<1>2. QED BY <1>1 DEF TBTouches

LEMMA TBTouchesFinite ==
  ASSUME NEW commands, NEW first, NEW n \in Nat
  PROVE  IsFiniteSet(TBTouches(commands, first, n))
<1> DEFINE touched(i) == IF commands[i].kind = "plain" THEN TBEffect(commands, first, i) ELSE commands[i].tenant
<1>1. IsFiniteSet(1..n)
  <2>1. 1 \in Int /\ n \in Int
    OBVIOUS
  <2>2. QED BY <2>1, FS_Interval
<1> HIDE DEF touched
<1>2. IsFiniteSet({touched(i) : i \in 1..n})
  <2> DEFINE f == [i \in 1..n |-> touched(i)]
  <2>1. f \in Surjection(1..n, {touched(i) : i \in 1..n})
    BY DEF Surjection
  <2> HIDE DEF f
  <2>2. QED BY <1>1, <2>1, FS_Surjection
<1>3. TBTouches(commands, first, n) \subseteq {touched(i) : i \in 1..n}
  BY Zenon DEF TBTouches, touched
<1>4. QED BY <1>2, <1>3, FS_Subset

LEMMA TBInvOfBatch ==
  ASSUME TBInv
  PROVE  TBOne /\ TBStays
<1>1. TBStays
  BY DEF TBInv, TBStays
<1>2. ASSUME tbBatch.at \in {"running", "stopped"} /\ ~tbBatch.mixed
      PROVE  Cardinality(TBTouched(tbBatch.done)) <= 1
  <2> DEFINE all  == TBTouches(tbBatch.commands, tbBatch.first, Len(tbBatch.commands))
             some == TBTouches(tbBatch.commands, tbBatch.first, tbBatch.done)
  <2>1. TBTouched(tbBatch.done) = some
    BY Zenon DEF TBTouched, TBInEffect, TBTouches, TBEffect
  <2>2. tbBatch.done \in Nat /\ Len(tbBatch.commands) \in Nat /\ tbBatch.done <= Len(tbBatch.commands)
    BY TBFields DEF TBInv, TBTyped
  <2>3. some \subseteq all /\ IsFiniteSet(all)
    BY <2>2, TBTouchesGrow, TBTouchesFinite
  <2>4. Cardinality(all) <= 1
    BY <1>2 DEF TBInv
  <2> HIDE DEF some, all
  <2>5. Cardinality(some) <= Cardinality(all) /\ Cardinality(all) \in Nat /\ Cardinality(some) \in Nat
    BY <2>3, FS_Subset, FS_CardinalityType
  <2>6. QED BY <2>1, <2>4, <2>5
<1>3. QED BY <1>1, <1>2 DEF TBOne

LEMMA TBInitInv == TBInit => TBInv
  BY DEF TBInit, TBIdle, TBInv, TBTyped, TBBatches

LEMMA TBNextInv == TBInv /\ [TBNext]_tbVars => TBInv'
<1> SUFFICES ASSUME TBInv, [TBNext]_tbVars PROVE TBInv'
  OBVIOUS
<1>0. /\ TBTyped /\ tbBatch \in TBBatches /\ Len(tbBatch.commands) \in Nat /\ tbBatch.done \in Nat
      /\ tbBatch.done <= Len(tbBatch.commands)
  BY TBFields DEF TBInv, TBTyped
<1>1. ASSUME NEW tenant \in TBTenants \cup {TBNone}, TBOther(tenant) PROVE TBInv'
  <2>1. /\ tbCurrent' = tenant /\ tbBatch' = [tbBatch EXCEPT !.mixed = (tbBatch.mixed \/ tbBatch.at = "verifying")]
    BY <1>1 DEF TBOther
  <2>2. /\ tbBatch' \in TBBatches /\ tbBatch'.at = tbBatch.at /\ tbBatch'.commands = tbBatch.commands
        /\ tbBatch'.first = tbBatch.first /\ tbBatch'.done = tbBatch.done /\ tbBatch'.tenant = tbBatch.tenant
        /\ tbBatch'.mixed = (tbBatch.mixed \/ tbBatch.at = "verifying")
    BY <1>0, <2>1 DEF TBBatches
  <2>3. TBTyped'
    BY <1>0, <2>1, <2>2 DEF TBTyped
  <2>4. QED BY <2>2, <2>3 DEF TBInv
<1>2. ASSUME NEW commands \in Seq(TBCommands), NEW first \in TBTenants \cup {TBNone}, TBBegin(commands, first) PROVE TBInv'
  <2>1. /\ tbCurrent' = first
        /\ tbBatch' = [at |-> "verifying", commands |-> commands, first |-> first, done |-> 0, found |-> {}, tenant |-> first,
                       mixed |-> FALSE]
    BY <1>2 DEF TBBegin, TBIdle
  <2>2. TBTyped'
    <3>1. Len(commands) \in Nat /\ 0 <= Len(commands)
      OBVIOUS
    <3>2. tbBatch' \in TBBatches
      BY <2>1 DEF TBBatches
    <3>3. QED BY <2>1, <3>1, <3>2 DEF TBTyped
  <2>3. TBEffect(commands, first, 0) = first /\ TBTouches(commands, first, 0) = {}
    BY TBEffectNone
  <2>4. /\ tbBatch'.at = "verifying" /\ tbBatch'.tenant = tbBatch'.first /\ tbBatch'.commands = commands /\ tbBatch'.first = first
        /\ tbBatch'.done = 0 /\ tbBatch'.found = {}
    BY <2>1
  <2>5. QED BY <2>1, <2>2, <2>3, <2>4, Zenon DEF TBInv
<1>3. ASSUME TBLook PROVE TBInv'
  <2> DEFINE n == tbBatch.done
             commands == tbBatch.commands
             first == tbBatch.first
             touched == TBTarget(TBNow)
  <2>1. /\ tbBatch.at = "verifying" /\ n < Len(commands)
        /\ tbCurrent' = IF TBNow.kind = "use" THEN TBNow.tenant ELSE tbCurrent
        /\ tbBatch' = [tbBatch EXCEPT !.done = n + 1, !.found = tbBatch.found \cup ({touched} \ {TBNone})]
    BY <1>3 DEF TBLook
  <2>2. /\ TBNow = commands[n + 1] /\ TBNow.tenant \in TBTenants \cup {TBNone} /\ touched \in TBTenants \cup {TBNone}
        /\ tbCurrent' \in TBTenants \cup {TBNone}
    <3>1. /\ TBNow = commands[n + 1] /\ TBNow.tenant \in TBTenants \cup {TBNone} /\ tbCurrent \in TBTenants \cup {TBNone}
      BY <1>0, <2>1, TBCommandIs DEF TBTyped
    <3>2. touched \in {tbCurrent, TBNow.tenant} /\ tbCurrent' \in {tbCurrent, TBNow.tenant}
      BY <2>1 DEF TBTarget
    <3> HIDE DEF touched
    <3>3. QED BY <3>1, <3>2
  <2> HIDE DEF touched
  <2>3. tbBatch.found \cup ({touched} \ {TBNone}) \subseteq TBTenants
    BY <1>0, <2>2, TBFields
  <2>4. /\ tbBatch' \in TBBatches /\ tbBatch'.at = "verifying" /\ tbBatch'.commands = commands /\ tbBatch'.first = first
        /\ tbBatch'.done = n + 1 /\ tbBatch'.found = tbBatch.found \cup ({touched} \ {TBNone}) /\ tbBatch'.tenant = tbBatch.tenant
        /\ tbBatch'.mixed = tbBatch.mixed
    <3> DEFINE next  == n + 1
               found == tbBatch.found \cup ({touched} \ {TBNone})
    <3>1. next \in Nat /\ found \subseteq TBTenants
      BY <1>0, <2>3
    <3>2. tbBatch' = [tbBatch EXCEPT !.done = next, !.found = found]
      BY <2>1
    <3> HIDE DEF next, found
    <3>3. /\ tbBatch' \in TBBatches /\ tbBatch'.at = "verifying" /\ tbBatch'.commands = commands /\ tbBatch'.first = first
          /\ tbBatch'.done = next /\ tbBatch'.found = found /\ tbBatch'.tenant = tbBatch.tenant
          /\ tbBatch'.mixed = tbBatch.mixed
      BY <1>0, <2>1, <3>1, <3>2 DEF TBBatches
    <3>4. QED BY <3>3 DEF next, found
  <2>5. TBTyped'
    <3>1. n + 1 <= Len(commands)
      BY <1>0, <2>1
    <3>2. QED BY <2>2, <2>4, <3>1 DEF TBTyped
  <2>6. ASSUME ~tbBatch.mixed
        PROVE  /\ tbCurrent' = TBEffect(commands, first, n + 1)
               /\ tbBatch'.found = TBTouches(commands, first, n + 1)
    <3>1. tbCurrent = TBEffect(commands, first, n) /\ tbBatch.found = TBTouches(commands, first, n)
      BY <2>1, <2>6 DEF TBInv
    <3>2. touched = IF commands[n + 1].kind = "plain" THEN TBEffect(commands, first, n) ELSE commands[n + 1].tenant
      BY <2>2, <3>1 DEF TBTarget, touched
    <3>3. tbCurrent' = TBEffect(commands, first, n + 1)
      BY <1>0, <2>1, <2>2, <3>1, TBEffectNext
    <3>4. tbBatch'.found = TBTouches(commands, first, n) \cup ({touched} \ {TBNone})
      BY <2>4, <3>1
    <3>5. QED BY <1>0, <3>2, <3>3, <3>4, TBTouchesNext, Zenon
  <2>7. tbBatch.tenant = tbBatch.first
    BY <2>1 DEF TBInv
  <2>8. QED BY <2>4, <2>5, <2>6, <2>7, Zenon DEF TBInv
<1>4. ASSUME TBJudge PROVE TBInv'
  <2>1. /\ tbBatch.at = "verifying" /\ tbBatch.done = Len(tbBatch.commands) /\ UNCHANGED tbCurrent
        /\ \E at \in {"running", "refused"} :
             /\ tbBatch' = [tbBatch EXCEPT !.done = 0, !.at = at]
             /\ at = "running" => TBOneTenant(tbBatch.found, tbBatch.first)
    BY <1>4 DEF TBJudge
  <2>2. PICK at \in {"running", "refused"} :
             /\ tbBatch' = [tbBatch EXCEPT !.done = 0, !.at = at]
             /\ at = "running" => TBOneTenant(tbBatch.found, tbBatch.first)
    BY <2>1
  <2>3. /\ tbBatch' \in TBBatches /\ tbBatch'.at = at /\ tbBatch'.commands = tbBatch.commands /\ tbBatch'.first = tbBatch.first
        /\ tbBatch'.tenant = tbBatch.tenant /\ tbBatch'.mixed = tbBatch.mixed /\ tbBatch'.done = 0
    BY <1>0, <2>2 DEF TBBatches
  <2>4. at = "running" /\ ~tbBatch.mixed => Cardinality(TBTouches(tbBatch.commands, tbBatch.first, Len(tbBatch.commands))) <= 1
    BY <2>1, <2>2, Zenon DEF TBInv, TBOneTenant
  <2>5. at \in {"running", "refused"} /\ tbBatch.tenant = tbBatch.first
    BY <2>1 DEF TBInv
  <2>6. TBTyped'
    BY <1>0, <2>1, <2>3 DEF TBTyped
  <2>7. QED BY <2>3, <2>4, <2>5, <2>6 DEF TBInv
<1>5. ASSUME TBRun PROVE TBInv'
  <2>1. tbBatch.at = "running" /\ tbBatch.done < Len(tbBatch.commands) /\ UNCHANGED tbCurrent
    BY <1>5 DEF TBRun
  <2>2. CASE TBSwitches(TBNow)
    <3>1. tbBatch' = [tbBatch EXCEPT !.at = "stopped"]
      BY <1>5, <2>2 DEF TBRun
    <3>2. /\ tbBatch' \in TBBatches /\ tbBatch'.at = "stopped" /\ tbBatch'.commands = tbBatch.commands
          /\ tbBatch'.first = tbBatch.first /\ tbBatch'.mixed = tbBatch.mixed /\ tbBatch'.done = tbBatch.done
      BY <1>0, <3>1 DEF TBBatches
    <3>3. TBTyped'
      BY <1>0, <2>1, <3>2 DEF TBTyped
    <3>4. QED BY <2>1, <3>2, <3>3 DEF TBInv
  <2>3. CASE ~TBSwitches(TBNow)
    <3>1. tbBatch' = [tbBatch EXCEPT !.done = tbBatch.done + 1, !.tenant = TBTenantAfter(TBNow)]
      BY <1>5, <2>3 DEF TBRun
    <3>2. tbBatch.tenant # TBNone => TBTenantAfter(TBNow) = tbBatch.tenant
      BY <2>3 DEF TBSwitches, TBTenantAfter
    <3>3. TBTenantAfter(TBNow) \in TBTenants \cup {TBNone}
      <4>1. TBNow.tenant \in TBTenants \cup {TBNone} /\ tbBatch.tenant \in TBTenants \cup {TBNone}
        BY <1>0, <2>1, TBCommandIs, TBFields
      <4>2. QED BY <4>1 DEF TBTenantAfter
    <3>4. /\ tbBatch' \in TBBatches /\ tbBatch'.at = tbBatch.at /\ tbBatch'.commands = tbBatch.commands
          /\ tbBatch'.first = tbBatch.first /\ tbBatch'.mixed = tbBatch.mixed /\ tbBatch'.tenant = TBTenantAfter(TBNow)
          /\ tbBatch'.done = tbBatch.done + 1
      <4> DEFINE next == tbBatch.done + 1
                 then == TBTenantAfter(TBNow)
      <4>1. next \in Nat /\ then \in TBTenants \cup {TBNone}
        BY <1>0, <3>3
      <4>2. tbBatch' = [tbBatch EXCEPT !.done = next, !.tenant = then]
        BY <3>1
      <4> HIDE DEF next, then
      <4>3. /\ tbBatch' \in TBBatches /\ tbBatch'.at = tbBatch.at /\ tbBatch'.commands = tbBatch.commands
            /\ tbBatch'.first = tbBatch.first /\ tbBatch'.mixed = tbBatch.mixed /\ tbBatch'.tenant = then
            /\ tbBatch'.done = next
        BY <1>0, <4>1, <4>2 DEF TBBatches
      <4>4. QED BY <4>3 DEF next, then
    <3>5. TBTyped'
      <4>1. tbBatch.done + 1 <= Len(tbBatch.commands)
        BY <1>0, <2>1
      <4>2. QED BY <1>0, <2>1, <3>4, <4>1 DEF TBTyped
    <3>6. QED BY <2>1, <3>2, <3>4, <3>5 DEF TBInv
  <2>4. QED BY <2>2, <2>3
<1>6. ASSUME TBReturn PROVE TBInv'
  <2>1. tbBatch' = TBIdle /\ UNCHANGED tbCurrent
    BY <1>6 DEF TBReturn
  <2>2. TBIdle \in TBBatches /\ TBIdle.at = "idle" /\ TBIdle.done = 0 /\ Len(TBIdle.commands) = 0
    BY DEF TBIdle, TBBatches
  <2>3. QED BY <1>0, <2>1, <2>2 DEF TBInv, TBTyped
<1>7. ASSUME UNCHANGED tbVars PROVE TBInv'
  BY <1>7 DEF tbVars, TBInv, TBTyped
<1>8. ASSUME NEW commands \in UNION {[1..n -> TBCommands] : n \in 1..TBLength} PROVE commands \in Seq(TBCommands)
  <2>1. PICK n \in 1..TBLength : commands \in [1..n -> TBCommands]
    BY <1>8
  <2>2. n \in Nat
    BY TBAssumption DEF TBAssumption
  <2>3. QED BY <2>1, <2>2
<1>9. QED BY <1>1, <1>2, <1>3, <1>4, <1>5, <1>6, <1>7, <1>8 DEF TBNext

-----------------------------------------------------------------------------
(* What is left of a list, Subsequences.                                   *)

\* The places of a list that stay can be counted.
LEMMA PlacesFinite ==
  ASSUME NEW n \in Nat, NEW keep \in SUBSET (1 .. n)
  PROVE  IsFiniteSet(keep) /\ Cardinality(keep) \in Nat
<1>1. IsFiniteSet(1 .. n)
  BY FS_Interval
<1>2. IsFiniteSet(keep)
  BY <1>1, FS_Subset
<1>3. QED BY <1>2, FS_CardinalityType

\* Each of them is the k-th for some k, and each k up to their number has one.
LEMMA PlaceExists ==
  ASSUME NEW n \in Nat, NEW keep \in SUBSET (1 .. n), NEW k \in 1 .. Cardinality(keep)
  PROVE  \E i \in keep : Cardinality({j \in keep : j <= i}) = k
<1> DEFINE T == {m \in Nat : \A K \in SUBSET (1 .. m) : \A l \in 1 .. Cardinality(K) :
                               \E i \in K : Cardinality({j \in K : j <= i}) = l}
<1>1. 0 \in T
  <2> SUFFICES ASSUME NEW K \in SUBSET (1 .. 0), NEW l \in 1 .. Cardinality(K)
               PROVE  FALSE
    OBVIOUS
  <2>1. K = {}
    OBVIOUS
  <2>2. QED BY <2>1, FS_EmptySet
<1>2. ASSUME NEW m \in Nat, m \in T PROVE m + 1 \in T
  <2> SUFFICES ASSUME NEW K \in SUBSET (1 .. (m + 1)), NEW l \in 1 .. Cardinality(K)
               PROVE  \E i \in K : Cardinality({j \in K : j <= i}) = l
    <3>1. m + 1 \in Nat
      OBVIOUS
    <3>2. QED BY <3>1, Zenon
  <2> DEFINE L == K \ {m + 1}
  <2>1. L \in SUBSET (1 .. m)
    OBVIOUS
  <2>2. IsFiniteSet(L) /\ Cardinality(L) \in Nat
    BY <2>1, PlacesFinite
  <2>3. CASE l \in 1 .. Cardinality(L)
    <3> HIDE DEF L
    <3>1. PICK i \in L : Cardinality({j \in L : j <= i}) = l
      BY <1>2, <2>1, <2>3
    <3>2. {j \in K : j <= i} = {j \in L : j <= i}
      BY <2>1, <3>1 DEF L
    <3>3. i \in K
      BY DEF L
    <3>4. QED BY <3>1, <3>2, <3>3
  <2>4. CASE l \notin 1 .. Cardinality(L)
    <3>1. m + 1 \in K
      <4>1. SUFFICES ASSUME m + 1 \notin K PROVE FALSE
        OBVIOUS
      <4>2. K = L
        BY <4>1
      <4>3. QED BY <2>4, <4>2
    <3>2. K = L \cup {m + 1} /\ m + 1 \notin L
      BY <3>1
    <3>3. Cardinality(K) = Cardinality(L) + 1
      <4> HIDE DEF L
      <4>1. QED BY <3>2, <2>2, FS_AddElement
    <3>4. l = Cardinality(K)
      BY <3>3, <2>2, <2>4
    <3>5. {j \in K : j <= m + 1} = K
      <4>1. \A j \in K : j \in 1 .. (m + 1)
        BY Zenon
      <4>2. \A j \in K : j <= m + 1
        BY <4>1
      <4>3. QED BY <4>2
    <3>6. QED BY <3>1, <3>4, <3>5
  <2>5. QED BY <2>3, <2>4
<1> HIDE DEF T
<1>3. n \in T
  BY <1>1, <1>2, SetInduction
<1>4. QED BY <1>3 DEF T

\* Two of them are not the same one.
LEMMA PlaceUnique ==
  ASSUME NEW n \in Nat, NEW keep \in SUBSET (1 .. n), NEW i \in keep, NEW j \in keep,
         Cardinality({l \in keep : l <= i}) = Cardinality({l \in keep : l <= j})
  PROVE  i = j
<1>1. ASSUME NEW p \in keep, NEW q \in keep, p < q
      PROVE  Cardinality({l \in keep : l <= p}) # Cardinality({l \in keep : l <= q})
  <2> DEFINE P == {l \in keep : l <= p}
             Q == {l \in keep : l <= q}
  <2>0. \A l \in keep : l \in Nat
    OBVIOUS
  <2>1. P \subseteq Q /\ q \in Q /\ q \notin P
    <3>1. \A l \in keep : l <= p => l <= q
      BY <1>1, <2>0
    <3>2. q <= q /\ ~(q <= p)
      BY <1>1, <2>0
    <3>3. QED BY <3>1, <3>2
  <2>2. IsFiniteSet(Q)
    BY PlacesFinite, FS_Subset
  <2> HIDE DEF P, Q
  <2>3. IsFiniteSet(P) /\ Cardinality(P) < Cardinality(Q)
    <3>1. P # Q
      BY <2>1
    <3>2. IsFiniteSet(P) /\ Cardinality(P) <= Cardinality(Q) /\ Cardinality(P) # Cardinality(Q)
      BY <2>1, <2>2, <3>1, FS_Subset, Zenon
    <3>3. Cardinality(P) \in Nat /\ Cardinality(Q) \in Nat
      BY <2>2, <3>2, FS_CardinalityType
    <3>4. QED BY <3>2, <3>3
  <2>4. Cardinality(P) \in Nat /\ Cardinality(Q) \in Nat
    BY <2>2, <2>3, FS_CardinalityType
  <2>5. Cardinality(P) # Cardinality(Q)
    BY <2>3, <2>4
  <2>6. QED BY <2>5 DEF P, Q
<1>2. i \in Nat /\ j \in Nat
  OBVIOUS
<1>3. QED BY <1>1, <1>2

\* The place of every number is one of those that stay.
LEMMA PlaceOfIsOne ==
  ASSUME NEW n \in Nat, NEW keep \in SUBSET (1 .. n), NEW k \in 1 .. Cardinality(keep)
  PROVE  PlaceOf(keep, k) \in keep /\ Cardinality({j \in keep : j <= PlaceOf(keep, k)}) = k
<1>1. \E i \in keep : Cardinality({j \in keep : j <= i}) = k
  BY PlaceExists
<1>2. QED BY <1>1, Zenon DEF PlaceOf

\* And each of those that stay is the place of some number.
LEMMA PlaceOfAll ==
  ASSUME NEW n \in Nat, NEW keep \in SUBSET (1 .. n), NEW i \in keep
  PROVE  \E k \in 1 .. Cardinality(keep) : PlaceOf(keep, k) = i
<1> DEFINE I == {j \in keep : j <= i}
           k == Cardinality(I)
<1>1. IsFiniteSet(keep) /\ Cardinality(keep) \in Nat
  BY PlacesFinite
<1>2. IsFiniteSet(I) /\ k <= Cardinality(keep) /\ k \in Nat
  BY <1>1, FS_Subset, FS_CardinalityType
<1>3. k # 0
  <2>1. i \in I
    OBVIOUS
  <2>2. I # {}
    BY <2>1
  <2> HIDE DEF I
  <2>3. QED BY <1>2, <2>2, FS_EmptySet
<1>4. k \in 1 .. Cardinality(keep)
  BY <1>1, <1>2, <1>3
<1>5. PlaceOf(keep, k) \in keep /\ Cardinality({j \in keep : j <= PlaceOf(keep, k)}) = k
  BY <1>4, PlaceOfIsOne
<1>6. PlaceOf(keep, k) = i
  BY <1>5, PlaceUnique
<1>7. QED BY <1>4, <1>6

\* What is left of a list is a list of its elements: of those at the places that stay, and of all of them.
LEMMA KeptElements ==
  ASSUME NEW S, NEW s \in Seq(S), NEW keep \in SUBSET DOMAIN s
  PROVE  /\ Kept(s, keep) \in Seq(S)
         /\ \A k \in DOMAIN Kept(s, keep) : \E i \in keep : Kept(s, keep)[k] = s[i]
         /\ \A i \in keep : \E k \in DOMAIN Kept(s, keep) : Kept(s, keep)[k] = s[i]
<1>1. CASE keep = DOMAIN s
  BY <1>1 DEF Kept
<1>2. CASE keep # DOMAIN s
  <2> DEFINE f == [k \in 1 .. Cardinality(keep) |-> s[PlaceOf(keep, k)]]
  <2>1. Kept(s, keep) = f
    BY <1>2 DEF Kept
  <2>2. Len(s) \in Nat /\ DOMAIN s = 1 .. Len(s) /\ Cardinality(keep) \in Nat
    <3>1. Len(s) \in Nat /\ DOMAIN s = 1 .. Len(s)
      OBVIOUS
    <3>2. keep \in SUBSET (1 .. Len(s))
      BY <3>1
    <3>3. QED BY <3>1, <3>2, PlacesFinite
  <2>3. \A k \in 1 .. Cardinality(keep) : PlaceOf(keep, k) \in keep
    BY <2>2, PlaceOfIsOne
  <2>4. \A i \in keep : \E k \in 1 .. Cardinality(keep) : PlaceOf(keep, k) = i
    BY <2>2, PlaceOfAll
  <2>5. f \in [1 .. Cardinality(keep) -> S]
    BY <2>2, <2>3
  <2>6. f \in Seq(S)
    BY <2>2, <2>5
  <2>7. DOMAIN f = 1 .. Cardinality(keep)
    OBVIOUS
  <2>8. QED BY <2>1, <2>3, <2>4, <2>6, <2>7
<1>3. QED BY <1>1, <1>2

\* What those that stay have in common, all that is left has.
LEMMA KeptIn ==
  ASSUME NEW S, NEW s \in Seq(S), NEW keep \in SUBSET DOMAIN s, NEW T, \A i \in keep : s[i] \in T
  PROVE  Kept(s, keep) \in Seq(T)
<1>1. PICK f : f = Kept(s, keep)
  OBVIOUS
<1>2. f \in Seq(S) /\ \A k \in DOMAIN f : \E i \in keep : f[k] = s[i]
  BY <1>1, KeptElements, Zenon
<1>3. Len(f) \in Nat /\ f = [k \in 1 .. Len(f) |-> f[k]] /\ DOMAIN f = 1 .. Len(f)
  BY <1>2
<1>4. \A k \in 1 .. Len(f) : f[k] \in T
  BY <1>2, <1>3
<1>5. f \in [1 .. Len(f) -> T]
  BY <1>3, <1>4
<1>6. QED BY <1>1, <1>3, <1>5

-----------------------------------------------------------------------------
(* The cache of results, QueryCaches: no entry is stored that missed an    *)
(* invalidation without noting it.                                         *)

\* An entry that shows no table as it was before its last invalidation, but those it missed.
RCTrue(flushed) ==
  {e \in [query : RCQueries, seen : [RCTables -> Nat], late : SUBSET RCTables] :
     \A t \in RCReads[e.query] : e.seen[t] < flushed[t] => t \in e.late}

\* A reader that is to store its result has noted the invalidations since it ran its query.
RCInv ==
  /\ rcData \in [RCTables -> Nat] /\ rcFlushed \in [RCTables -> Nat]
  /\ \A t \in RCTables : rcFlushed[t] <= rcData[t]
  /\ rcCache \in Seq(RCTrue(rcFlushed))
  /\ rcQuery = [r \in RCReaders |-> rcQuery[r]] /\ rcPc = [r \in RCReaders |-> rcPc[r]]
  /\ \A r \in RCReaders : rcPc[r] \in {"out", "running", "storing"}
  /\ \A r \in RCReaders : rcPc[r] # "out" => rcQuery[r] \in RCQueries
  /\ rcSeen \in [RCReaders -> [RCTables -> Nat]] /\ rcLate \in [RCReaders -> SUBSET RCTables]
  /\ \A r \in RCReaders : rcPc[r] = "storing" =>
       \A t \in RCTables : rcSeen[r][t] < rcFlushed[t] => t \in rcLate[r]

LEMMA RCInvFresh == RCInv => RCFresh
<1> SUFFICES ASSUME RCInv, NEW i \in DOMAIN rcCache, NEW t \in RCReads[rcCache[i].query],
                    rcCache[i].seen[t] < rcFlushed[t]
             PROVE  t \in rcCache[i].late
  BY DEF RCFresh
<1>1. rcCache[i] \in RCTrue(rcFlushed)
  BY DEF RCInv
<1>2. QED BY <1>1 DEF RCTrue

LEMMA RCInitInv == RCInit => RCInv
<1> SUFFICES ASSUME RCInit PROVE RCInv
  OBVIOUS
<1>1. rcCache \in Seq(RCTrue(rcFlushed))
  BY DEF RCInit
<1>2. QED BY <1>1 DEF RCInit, RCInv, RCNone

\* What is left of the cache is as true as it was.
LEMMA RCLessTrue ==
  ASSUME RCInv, NEW q
  PROVE  RCWithout(rcCache, q) \in Seq(RCTrue(rcFlushed)) /\ RCFound(rcCache, q) \in Seq(RCTrue(rcFlushed))
<1>1. rcCache \in Seq(RCTrue(rcFlushed))
  BY DEF RCInv
<1>2. QED BY <1>1, KeptElements, Zenon DEF RCWithout, RCFound

LEMMA RCRoomTrue ==
  ASSUME RCInv
  PROVE  RCMakeRoom(rcCache) \in Seq(RCTrue(rcFlushed))
<1>1. rcCache \in Seq(RCTrue(rcFlushed)) /\ Len(rcCache) \in Nat /\ RCMaxSize \in Nat \ {0}
  BY RCAssumption DEF RCInv
<1>2. CASE Len(rcCache) < RCMaxSize
  BY <1>1, <1>2 DEF RCMakeRoom
<1>3. CASE ~(Len(rcCache) < RCMaxSize)
  <2>1. Len(rcCache) - RCMaxSize + 2 \in 1 .. (Len(rcCache) + 1)
    BY <1>1, <1>3
  <2>2. SubSeq(rcCache, Len(rcCache) - RCMaxSize + 2, Len(rcCache)) \in Seq(RCTrue(rcFlushed))
    BY <1>1, <2>1, SubSeqProperties
  <2>3. QED BY <1>3, <2>2 DEF RCMakeRoom
<1>4. QED BY <1>2, <1>3

LEMMA RCPutTrue ==
  ASSUME RCInv, NEW entry \in RCTrue(rcFlushed), RCPut(entry)
  PROVE  rcCache' \in Seq(RCTrue(rcFlushed))
<1>1. PICK room : room = RCMakeRoom(rcCache)
  OBVIOUS
<1>2. room \in Seq(RCTrue(rcFlushed)) /\ DOMAIN room = 1 .. Len(room) /\ Len(room) \in Nat
  BY <1>1, RCRoomTrue
<1>3. PICK at : at = {i \in DOMAIN room : RCHas(room[i], entry.query)}
  OBVIOUS
<1>4. rcCache' = IF at = {} THEN Append(room, entry)
                 ELSE [i \in DOMAIN room |-> IF i \in at THEN entry ELSE room[i]]
  BY <1>1, <1>3, Zenon DEF RCPut
<1>5. CASE at = {}
  BY <1>2, <1>4, <1>5
<1>6. CASE at # {}
  <2>1. rcCache' = [i \in 1 .. Len(room) |-> IF i \in at THEN entry ELSE room[i]]
    BY <1>2, <1>4, <1>6
  <2>2. \A i \in 1 .. Len(room) : room[i] \in RCTrue(rcFlushed)
    BY <1>2
  <2>3. rcCache' \in [1 .. Len(room) -> RCTrue(rcFlushed)]
    BY <2>1, <2>2
  <2>4. QED BY <1>2, <2>3
<1>7. QED BY <1>5, <1>6

LEMMA RCNextInv == RCInv /\ [RCNext]_rcVars => RCInv'
<1> SUFFICES ASSUME RCInv, [RCNext]_rcVars PROVE RCInv'
  OBVIOUS
<1>1. ASSUME NEW r \in RCReaders, NEW q \in RCQueries, NEW hit \in BOOLEAN, RCLookUp(r, q, hit)
      PROVE  RCInv'
  <2>1. rcCache' \in Seq(RCTrue(rcFlushed))
    <3>1. \/ rcCache' = rcCache
          \/ rcCache' = RCWithout(rcCache, q) \o (IF hit THEN RCFound(rcCache, q) ELSE <<>>)
      BY <1>1, Zenon DEF RCLookUp, RCGet
    <3>2. rcCache \in Seq(RCTrue(rcFlushed))
      BY DEF RCInv
    <3>3. PICK more : more = IF hit THEN RCFound(rcCache, q) ELSE <<>>
      OBVIOUS
    <3>4. more \in Seq(RCTrue(rcFlushed)) /\ RCWithout(rcCache, q) \in Seq(RCTrue(rcFlushed))
      BY <3>3, RCLessTrue
    <3>5. RCWithout(rcCache, q) \o more \in Seq(RCTrue(rcFlushed))
      BY <3>4
    <3>6. QED BY <3>1, <3>2, <3>3, <3>5
  <2>2. UNCHANGED <<rcData, rcSeen, rcLate, rcFlushed>>
    BY <1>1 DEF RCLookUp
  <2>3. CASE hit
    BY <1>1, <2>1, <2>2, <2>3 DEF RCLookUp, RCInv
  <2>4. CASE ~hit
    <3>1. /\ rcQuery' = [rcQuery EXCEPT ![r] = q]
          /\ rcPc' = [rcPc EXCEPT ![r] = "running"]
      BY <1>1, <2>4 DEF RCLookUp
    <3>2. QED BY <2>1, <2>2, <3>1 DEF RCInv
  <2>5. QED BY <2>3, <2>4
<1>2. ASSUME NEW r \in RCReaders, RCRun(r)
      PROVE  RCInv'
  <2>1. /\ rcPc' = [rcPc EXCEPT ![r] = "storing"] /\ rcPc[r] = "running"
        /\ rcSeen' = [rcSeen EXCEPT ![r] = rcData]
        /\ UNCHANGED <<rcData, rcCache, rcEnabled, rcQuery, rcLate, rcDirty, rcFlushed>>
    BY <1>2 DEF RCRun
  <2>2. rcSeen' \in [RCReaders -> [RCTables -> Nat]]
    BY <2>1 DEF RCInv
  <2>3. ASSUME NEW p \in RCReaders, rcPc'[p] = "storing", NEW t \in RCTables, rcSeen'[p][t] < rcFlushed[t]
        PROVE  t \in rcLate[p]
    <3>1. CASE p = r
      <4>1. rcSeen'[p][t] = rcData[t]
        BY <2>1, <3>1 DEF RCInv
      <4>2. rcFlushed[t] <= rcData[t] /\ rcData[t] \in Nat /\ rcFlushed[t] \in Nat
        BY DEF RCInv
      <4>3. QED BY <2>3, <4>1, <4>2
    <3>2. CASE p # r
      BY <2>1, <2>3, <3>2 DEF RCInv
    <3>3. QED BY <3>1, <3>2
  <2>4. QED BY <2>1, <2>2, <2>3 DEF RCInv
<1>3. ASSUME NEW r \in RCReaders, RCStore(r)
      PROVE  RCInv'
  <2>1. rcCache' \in Seq(RCTrue(rcFlushed))
    <3>1. PICK e : e = [query |-> rcQuery[r], seen |-> rcSeen[r], late |-> rcLate[r]]
      OBVIOUS
    <3>2. e \in RCTrue(rcFlushed)
      <4>1. /\ rcQuery[r] \in RCQueries /\ rcSeen[r] \in [RCTables -> Nat] /\ rcLate[r] \in SUBSET RCTables
            /\ \A t \in RCTables : rcSeen[r][t] < rcFlushed[t] => t \in rcLate[r]
        BY <1>3 DEF RCStore, RCInv
      <4>2. \A t \in RCReads[rcQuery[r]] : t \in RCTables
        BY <4>1, RCAssumption
      <4>3. QED BY <3>1, <4>1, <4>2 DEF RCTrue
    <3>3. RCPut(e) \/ rcCache' = rcCache
      BY <1>3, <3>1 DEF RCStore
    <3>4. QED BY <3>2, <3>3, RCPutTrue DEF RCInv
  <2>2. QED BY <1>3, <2>1 DEF RCStore, RCInv, RCNone
<1>4. ASSUME NEW t \in RCTables, RCWrite(t)
      PROVE  RCInv'
  BY <1>4 DEF RCWrite, RCInv
<1>5. ASSUME NEW t \in RCTables, RCInvalidate(t)
      PROVE  RCInv'
  <2>1. rcCache' \in Seq(RCTrue(rcFlushed'))
    <3>1. PICK keep : keep = {i \in DOMAIN rcCache : ~RCDrops(t, rcCache[i])}
      OBVIOUS
    <3>2. rcCache \in Seq(RCTrue(rcFlushed)) /\ keep \in SUBSET DOMAIN rcCache
      BY <3>1 DEF RCInv
    <3>3. ASSUME NEW i \in keep
          PROVE  rcCache[i] \in RCTrue(rcFlushed')
      <4>1. rcCache[i] \in RCTrue(rcFlushed) /\ t \notin RCMentions[rcCache[i].query]
        BY <3>1, <3>2 DEF RCDrops
      <4>2. t \notin RCReads[rcCache[i].query]
        BY <4>1, RCAssumption DEF RCTrue
      <4>3. \A u \in RCReads[rcCache[i].query] : u \in RCTables /\ rcFlushed'[u] = rcFlushed[u]
        BY <1>5, <4>1, <4>2, RCAssumption DEF RCInvalidate, RCInv, RCTrue
      <4>4. QED BY <4>1, <4>3 DEF RCTrue
    <3>4. Kept(rcCache, keep) \in Seq(RCTrue(rcFlushed'))
      BY <3>2, <3>3, KeptIn, Zenon
    <3>5. rcCache' = Kept(rcCache, keep)
      BY <1>5, <3>1 DEF RCInvalidate
    <3>6. QED BY <3>4, <3>5
  <2>2. /\ rcFlushed' = [rcFlushed EXCEPT ![t] = rcData[t]]
        /\ rcLate' = [r \in RCReaders |-> IF rcPc[r] = "storing" THEN rcLate[r] \cup {t} ELSE rcLate[r]]
        /\ UNCHANGED <<rcData, rcPc, rcQuery, rcSeen>>
    BY <1>5 DEF RCInvalidate
  <2>3. /\ rcFlushed' \in [RCTables -> Nat]
        /\ \A u \in RCTables : rcFlushed'[u] <= rcData'[u]
    BY <2>2 DEF RCInv
  <2>4. rcLate' \in [RCReaders -> SUBSET RCTables]
    BY <2>2 DEF RCInv
  <2>5. ASSUME NEW r \in RCReaders, rcPc[r] = "storing", NEW u \in RCTables, rcSeen[r][u] < rcFlushed'[u]
        PROVE  u \in rcLate'[r]
    BY <2>2, <2>5 DEF RCInv
  <2>6. QED BY <2>1, <2>2, <2>3, <2>4, <2>5 DEF RCInv
<1>6. ASSUME RCSwitch \/ UNCHANGED rcVars
      PROVE  RCInv'
  BY <1>6 DEF RCSwitch, RCInv, rcVars
<1>7. ASSUME RCClear
      PROVE  RCInv'
  <2>1. rcCache' \in Seq(RCTrue(rcFlushed))
    BY <1>7 DEF RCClear
  <2>2. QED BY <1>7, <2>1 DEF RCClear, RCInv
<1>8. QED BY <1>1, <1>2, <1>3, <1>4, <1>5, <1>6, <1>7 DEF RCNext

-----------------------------------------------------------------------------
(* The cache of parsed plans, QueryCaches: the index lists every plan      *)
(* under each of its tables.                                               *)

\* The plans that the index lists under each of their tables.
PCListed(index) ==
  {p \in [key : PCKeys, tables : SUBSET PCTables] : \A t \in p.tables : p.key \in index[t]}

PCInv == pcPlans \in Seq(PCListed(pcIndex)) /\ pcIndex \in [PCTables -> SUBSET PCKeys]

LEMMA PCInvIndexed == PCInv => PCIndexed
<1> SUFFICES ASSUME PCInv, NEW i \in DOMAIN pcPlans, NEW t \in pcPlans[i].tables
             PROVE  pcPlans[i].key \in pcIndex[t]
  BY DEF PCIndexed
<1>1. pcPlans[i] \in PCListed(pcIndex)
  BY DEF PCInv
<1>2. QED BY <1>1 DEF PCListed

LEMMA PCInitInv == PCInit => PCInv
<1> SUFFICES ASSUME PCInit PROVE PCInv
  OBVIOUS
<1>1. pcPlans \in Seq(PCListed(pcIndex)) /\ pcIndex \in [PCTables -> SUBSET PCKeys]
  BY DEF PCInit
<1>2. QED BY <1>1 DEF PCInv

\* Plans of other keys than those that go stay listed, if the index forgets no other key.
LEMMA PCLeftListed ==
  ASSUME PCInv, NEW keys, NEW index \in [PCTables -> SUBSET PCKeys],
         \A t \in PCTables : \A k \in pcIndex[t] : k \notin keys => k \in index[t]
  PROVE  PCWithout(pcPlans, keys) \in Seq(PCListed(index))
<1>1. PICK keep : keep = {i \in DOMAIN pcPlans : pcPlans[i].key \notin keys}
  OBVIOUS
<1>2. pcPlans \in Seq(PCListed(pcIndex)) /\ keep \in SUBSET DOMAIN pcPlans
  BY <1>1 DEF PCInv
<1>3. ASSUME NEW i \in keep
      PROVE  pcPlans[i] \in PCListed(index)
  <2>1. pcPlans[i] \in PCListed(pcIndex) /\ pcPlans[i].key \notin keys
    BY <1>1, <1>2
  <2>2. QED BY <2>1 DEF PCListed
<1>4. Kept(pcPlans, keep) \in Seq(PCListed(index))
  BY <1>2, <1>3, KeptIn, Zenon
<1>5. QED BY <1>1, <1>4, Zenon DEF PCWithout

LEMMA PCNextInv == PCInv /\ [PCNext]_pcVars => PCInv'
<1> SUFFICES ASSUME PCInv, [PCNext]_pcVars PROVE PCInv'
  OBVIOUS
<1>0. pcPlans \in Seq(PCListed(pcIndex)) /\ pcIndex \in [PCTables -> SUBSET PCKeys]
  BY DEF PCInv
<1>1. ASSUME NEW k \in PCKeys, PCHit(k)
      PROVE  PCInv'
  <2>1. PICK i \in DOMAIN pcPlans :
          pcPlans' = Append(PCWithout(pcPlans, {k}), pcPlans[i]) /\ UNCHANGED pcIndex
    BY <1>1 DEF PCHit
  <2>2. PICK left : left = PCWithout(pcPlans, {k})
    OBVIOUS
  <2>3. left \in Seq(PCListed(pcIndex))
    BY <1>0, <2>2, PCLeftListed, Zenon
  <2>4. pcPlans[i] \in PCListed(pcIndex)
    BY <1>0
  <2>5. Append(left, pcPlans[i]) \in Seq(PCListed(pcIndex))
    BY <2>3, <2>4
  <2>6. QED BY <1>0, <2>1, <2>2, <2>5 DEF PCInv
<1>2. ASSUME NEW k \in PCKeys, PCExpire(k)
      PROVE  PCInv'
  <2>1. PICK i \in DOMAIN pcPlans :
          pcPlans[i].key = k /\ pcIndex' = PCUnlink(pcIndex, pcPlans[i]) /\ pcPlans' = PCWithout(pcPlans, {k})
    BY <1>2 DEF PCExpire
  <2>2. pcIndex' \in [PCTables -> SUBSET PCKeys]
    BY <1>0, <2>1 DEF PCUnlink
  <2>3. \A t \in PCTables : \A l \in pcIndex[t] : l \notin {k} => l \in pcIndex'[t]
    BY <1>0, <2>1 DEF PCUnlink
  <2>4. pcPlans' \in Seq(PCListed(pcIndex'))
    BY <2>1, <2>2, <2>3, PCLeftListed, Zenon
  <2>5. QED BY <2>2, <2>4 DEF PCInv
<1>3. ASSUME NEW k \in PCKeys, NEW tables \in SUBSET PCTables, PCPut(k, tables)
      PROVE  PCInv'
  <2>1. PICK oldest : oldest = IF PCCrowded(k) THEN {Head(pcPlans).key} ELSE {}
    OBVIOUS
  <2>2. PICK left : left = PCWithout(pcPlans, oldest)
    OBVIOUS
  <2>3. PICK plan : plan = [key |-> k, tables |-> tables]
    OBVIOUS
  <2>4. /\ pcPlans' = IF k \in PCKeysOf(left)
                      THEN [i \in DOMAIN left |-> IF left[i].key = k THEN plan ELSE left[i]]
                      ELSE Append(left, plan)
        /\ pcIndex' = PCLink([t \in PCTables |-> pcIndex[t] \ oldest], k, tables)
    BY <1>3, <2>1, <2>2, <2>3, Zenon DEF PCPut
  <2>5. pcIndex' = [t \in PCTables |-> IF t \in tables THEN (pcIndex[t] \ oldest) \cup {k} ELSE pcIndex[t] \ oldest]
    BY <2>4 DEF PCLink
  <2>6. pcIndex' \in [PCTables -> SUBSET PCKeys]
    BY <1>0, <2>5
  <2>7. \A t \in PCTables : \A l \in pcIndex[t] : l \notin oldest => l \in pcIndex'[t]
    BY <1>0, <2>5
  <2>8. left \in Seq(PCListed(pcIndex'))
    BY <2>2, <2>6, <2>7, PCLeftListed, Zenon
  <2>9. plan \in PCListed(pcIndex')
    BY <2>3, <2>5 DEF PCListed
  <2>10. pcPlans' \in Seq(PCListed(pcIndex'))
    <3>1. PICK G : G = PCListed(pcIndex')
      OBVIOUS
    <3>2. left \in Seq(G) /\ plan \in G
      BY <2>8, <2>9, <3>1
    <3>3. Append(left, plan) \in Seq(G)
      BY <3>2
    <3>4. [i \in DOMAIN left |-> IF left[i].key = k THEN plan ELSE left[i]] \in Seq(G)
      <4>1. Len(left) \in Nat /\ DOMAIN left = 1 .. Len(left) /\ \A i \in 1 .. Len(left) : left[i] \in G
        BY <3>2
      <4>2. [i \in 1 .. Len(left) |-> IF left[i].key = k THEN plan ELSE left[i]] \in [1 .. Len(left) -> G]
        BY <3>2, <4>1
      <4>3. QED BY <4>1, <4>2
    <3>5. pcPlans' \in Seq(G)
      BY <2>4, <3>3, <3>4
    <3>6. QED BY <3>1, <3>5
  <2>11. QED BY <2>6, <2>10 DEF PCInv
<1>4. ASSUME NEW t \in PCTables, PCInvalidate(t)
      PROVE  PCInv'
  <2>1. PICK deps : deps = [k \in PCKeys |->
                             UNION {pcPlans[i].tables : i \in {j \in DOMAIN pcPlans : pcPlans[j].key = k}}]
    OBVIOUS
  <2>2. pcPlans' = PCWithout(pcPlans, pcIndex[t])
    BY <1>4 DEF PCInvalidate
  <2>3. pcIndex' = [u \in PCTables |-> {k \in pcIndex[u] : k \notin pcIndex[t] \/ u \notin deps[k]}]
    <3>1. \A u \in PCTables : \A k \in pcIndex[u] : k \in PCKeys
      BY <1>0
    <3>2. QED BY <1>4, <2>1, <3>1 DEF PCInvalidate
  <2>4. pcIndex' \in [PCTables -> SUBSET PCKeys]
    BY <1>0, <2>3
  <2>5. \A u \in PCTables : \A k \in pcIndex[u] : k \notin pcIndex[t] => k \in pcIndex'[u]
    BY <2>3
  <2>6. pcPlans' \in Seq(PCListed(pcIndex'))
    BY <2>2, <2>4, <2>5, PCLeftListed, Zenon
  <2>7. QED BY <2>4, <2>6 DEF PCInv
<1>5. ASSUME PCInvalidateAll
      PROVE  PCInv'
  <2>1. pcPlans' = <<>> /\ pcIndex' = [t \in PCTables |-> {}]
    BY <1>5 DEF PCInvalidateAll
  <2>2. pcPlans' \in Seq(PCListed(pcIndex')) /\ pcIndex' \in [PCTables -> SUBSET PCKeys]
    BY <2>1
  <2>3. QED BY <2>2 DEF PCInv
<1>6. CASE UNCHANGED pcVars
  BY <1>6 DEF pcVars, PCInv
<1>7. QED BY <1>1, <1>2, <1>3, <1>4, <1>5, <1>6 DEF PCNext

-----------------------------------------------------------------------------
(* The optimizer, QueryCaches: the estimates along a chain of operators.   *)

\* A chain whose rows do not grow on the way up, but from none to one.
QPDescends(chain) ==
  /\ \E S : chain \in Seq(S)
  /\ chain # <<>>
  /\ \A n \in DOMAIN chain : chain[n].rows \in Nat
  /\ \A n \in 1..(Len(chain) - 1) : chain[n].rows <= QPMost(chain[n + 1].rows, 1)

\* An operator above such a chain that lets no more rows through than there are below it.
LEMMA QPOnTop ==
  ASSUME NEW top, top.rows \in Nat, NEW below, QPDescends(below), top.rows <= QPMost(Head(below).rows, 1)
  PROVE  QPDescends(<<top>> \o below) /\ Head(<<top>> \o below) = top
<1>1. PICK S : below \in Seq(S)
  BY DEF QPDescends
<1>2. PICK T : T = S \cup {top}
  OBVIOUS
<1>3. below \in Seq(T) /\ top \in T
  BY <1>1, <1>2
<1>4. PICK chain : chain = <<top>> \o below
  OBVIOUS
<1>5. /\ chain \in Seq(T) /\ Len(below) \in Nat \ {0} /\ Len(chain) = Len(below) + 1
      /\ DOMAIN chain = 1 .. Len(chain) /\ DOMAIN below = 1 .. Len(below)
      /\ chain[1] = top /\ \A n \in 1 .. Len(below) : chain[n + 1] = below[n]
  <2>1. below # <<>>
    BY DEF QPDescends
  <2>2. <<top>> \in Seq(T) /\ Len(<<top>>) = 1 /\ <<top>>[1] = top
    BY <1>3
  <2>3. chain \in Seq(T) /\ Len(chain) = 1 + Len(below) /\ Len(below) \in Nat
    BY <1>3, <1>4, <2>2
  <2>4. Len(below) # 0
    BY <1>3, <2>1
  <2>5. chain[1] = top
    BY <1>3, <1>4, <2>2
  <2>6. \A n \in 1 .. Len(below) : chain[n + 1] = below[n]
    BY <1>3, <1>4, <2>2
  <2>7. DOMAIN chain = 1 .. Len(chain) /\ DOMAIN below = 1 .. Len(below)
    BY <1>3, <2>3
  <2>8. QED BY <2>3, <2>4, <2>5, <2>6, <2>7
<1>6. Head(below) = below[1] /\ Head(chain) = top /\ chain # <<>>
  BY <1>3, <1>5
<1>7. ASSUME NEW n \in DOMAIN chain
      PROVE  chain[n].rows \in Nat
  <2>1. CASE n = 1
    BY <1>5, <2>1
  <2>2. CASE n # 1
    <3>1. n - 1 \in 1 .. Len(below) /\ chain[(n - 1) + 1] = below[n - 1] /\ (n - 1) + 1 = n
      BY <1>5, <1>7, <2>2
    <3>2. QED BY <1>5, <3>1 DEF QPDescends
  <2>3. QED BY <2>1, <2>2
<1>8. ASSUME NEW n \in 1 .. (Len(chain) - 1)
      PROVE  chain[n].rows <= QPMost(chain[n + 1].rows, 1)
  <2>1. CASE n = 1
    BY <1>5, <1>6, <2>1
  <2>2. CASE n # 1
    <3>1. /\ n - 1 \in 1 .. (Len(below) - 1) /\ n \in 1 .. Len(below)
          /\ chain[(n - 1) + 1] = below[n - 1] /\ (n - 1) + 1 = n /\ chain[n + 1] = below[n]
      BY <1>5, <1>8, <2>2
    <3>2. QED BY <3>1 DEF QPDescends
  <2>3. QED BY <2>1, <2>2
<1>9. QPDescends(chain)
  BY <1>5, <1>6, <1>7, <1>8 DEF QPDescends
<1>10. QED BY <1>4, <1>6, <1>9

LEMMA QPAlone ==
  ASSUME NEW top, top.rows \in Nat
  PROVE  QPDescends(<<top>>) /\ Head(<<top>>) = top
<1>1. <<top>> \in Seq({top}) /\ Len(<<top>>) = 1 /\ DOMAIN <<top>> = 1 .. 1 /\ <<top>>[1] = top /\ <<top>> # <<>>
  OBVIOUS
<1>2. \A n \in DOMAIN <<top>> : <<top>>[n].rows \in Nat
  BY <1>1
<1>3. \A n \in 1 .. (Len(<<top>>) - 1) : FALSE
  BY <1>1
<1>4. \E S : <<top>> \in Seq(S)
  BY <1>1, Zenon
<1>5. QPDescends(<<top>>)
  BY <1>1, <1>2, <1>3, <1>4, Zenon DEF QPDescends
<1>6. QED BY <1>5

\* A query of the parser.
QPIsQuery(q) ==
  /\ DOMAIN q = {"kind", "table", "column", "op", "value", "order", "limit"}
  /\ q.kind \in {"SELECT", "INSERT", "UPDATE", "DELETE"} /\ q.limit \in Nat
  /\ q.kind = "INSERT" => q.op = ""

QPStatisticsOK == \A t \in DOMAIN qpStatistics : qpStatistics[t] \in QPStatistics

LEMMA QPScanRows ==
  ASSUME QPStatisticsOK, NEW q
  PROVE  QPScan(q).rows \in Nat
<1>1. CASE q.table \notin DOMAIN qpStatistics
  BY <1>1 DEF QPScan
<1>2. CASE q.table \in DOMAIN qpStatistics
  <2>1. PICK s : s = qpStatistics[q.table]
    OBVIOUS
  <2>2. s.rows \in Nat /\ s.distinct \in Nat
    BY <1>2, <2>1, QPAssumption DEF QPStatisticsOK
  <2>3. QPMatching(s) \in Nat
    BY <2>2 DEF QPMatching, QPMost
  <2>4. QPScan(q).rows \in {QPMatching(s), s.rows}
    BY <1>2, <2>1 DEF QPScan
  <2>5. QED BY <2>2, <2>3, <2>4
<1>3. QED BY <1>1, <1>2

\* A filter lets at least one row through, and no more than it gets.
LEMMA QPPassingRows ==
  ASSUME NEW q, NEW n \in Nat
  PROVE  QPPassing(q, n) \in Nat /\ QPPassing(q, n) >= 1 /\ QPPassing(q, n) <= QPMost(n, 1)
<1>1. n \div 100 \in Nat /\ n \div 100 <= n /\ (3 * n) \div 10 \in Nat /\ (3 * n) \div 10 <= n
  OBVIOUS
<1>2. PICK m : m = IF q.op = "=" THEN n \div 100 ELSE (3 * n) \div 10
  OBVIOUS
<1>3. m \in Nat /\ m <= n /\ QPPassing(q, n) = QPMost(1, m)
  BY <1>1, <1>2, Zenon DEF QPPassing
<1>4. QED BY <1>3 DEF QPMost

\* A query's chain so far: it descends, and expects a row if there is a filter.
QPExpects(q, chain) == QPDescends(chain) /\ Head(chain).rows \in Nat /\ (q.op # "" => Head(chain).rows >= 1)

LEMMA QPFilteredFits ==
  ASSUME QPStatisticsOK, NEW q
  PROVE  QPExpects(q, QPFiltered(q))
<1>1. PICK scan : scan = QPScan(q)
  OBVIOUS
<1>2. scan.rows \in Nat
  BY <1>1, QPScanRows
<1>3. QPDescends(<<scan>>) /\ Head(<<scan>>) = scan
  BY <1>2, QPAlone
<1>4. CASE q.op = ""
  BY <1>1, <1>2, <1>3, <1>4 DEF QPFiltered, QPExpects
<1>5. CASE q.op # ""
  <2>1. PICK top : top = [op |-> "SELECT", cost |-> 50 * scan.rows, rows |-> QPPassing(q, scan.rows),
                      about |-> <<q.column, q.op, q.value>>]
    OBVIOUS
  <2>2. top.rows = QPPassing(q, scan.rows)
    BY <2>1
  <2>3. top.rows \in Nat /\ top.rows >= 1 /\ top.rows <= QPMost(scan.rows, 1)
    BY <1>2, <2>2, QPPassingRows
  <2>4. QPDescends(<<top>> \o <<scan>>) /\ Head(<<top>> \o <<scan>>) = top
    BY <1>3, <2>3, QPOnTop
  <2>5. <<top, scan>> = <<top>> \o <<scan>>
    OBVIOUS
  <2>6. QPFiltered(q) = <<top, scan>>
    BY <1>1, <1>5, <2>1 DEF QPFiltered
  <2>7. QED BY <2>3, <2>4, <2>5, <2>6 DEF QPExpects
<1>6. QED BY <1>4, <1>5

\* An operator with the rows of the one below.
LEMMA QPSameRows ==
  ASSUME NEW q, NEW below, QPExpects(q, below), NEW top, top.rows = Head(below).rows
  PROVE  QPExpects(q, <<top>> \o below)
<1>1. top.rows \in Nat /\ Head(below).rows \in Nat /\ top.rows <= QPMost(Head(below).rows, 1)
  <2>1. PICK n : n = Head(below).rows
    OBVIOUS
  <2>2. n \in Nat
    BY <2>1 DEF QPExpects
  <2>3. n <= QPMost(n, 1)
    BY <2>2 DEF QPMost
  <2>4. QED BY <2>1, <2>2, <2>3
<1>2. QPDescends(<<top>> \o below) /\ Head(<<top>> \o below) = top
  BY <1>1, QPOnTop DEF QPExpects
<1>3. QED BY <1>1, <1>2 DEF QPExpects

\* The estimates of a query's plan.
QPEstimated(q, plan) == QPDescends(plan.chain) /\ (q.op # "" /\ q.limit # 0 => plan.rows >= 1)

LEMMA QPChainFits ==
  ASSUME QPStatisticsOK, NEW q, QPIsQuery(q)
  PROVE  QPDescends(QPChain(q)) /\ (q.op # "" /\ q.limit # 0 => Head(QPChain(q)).rows >= 1)
<1>1. QPExpects(q, QPFiltered(q))
  BY QPFilteredFits
<1>2. QPExpects(q, QPProjected(q))
  <2>1. PICK below : below = QPFiltered(q)
    OBVIOUS
  <2>2. PICK top : top = [op |-> "PROJECT", cost |-> Head(below).cost + 100 * Head(below).rows, rows |-> Head(below).rows, about |-> ""]
    OBVIOUS
  <2>3. top.rows = Head(below).rows
    BY <2>2
  <2>4. QPExpects(q, <<top>> \o below)
    BY <1>1, <2>1, <2>3, QPSameRows
  <2>5. QED BY <2>1, <2>2, <2>4, Zenon DEF QPProjected
<1>3. QPExpects(q, QPSorted(q))
  <2>1. PICK below : below = QPProjected(q)
    OBVIOUS
  <2>2. PICK n : n = Head(below).rows
    OBVIOUS
  <2>3. PICK top : top = [op |-> "SORT", cost |-> 50 * n * QPLog(n), rows |-> n, about |-> ""]
    OBVIOUS
  <2>4. top.rows = Head(below).rows
    BY <2>2, <2>3
  <2>5. QPExpects(q, <<top>> \o below)
    BY <1>2, <2>1, <2>4, QPSameRows
  <2>6. QPSorted(q) = IF q.order THEN <<top>> \o below ELSE below
    BY <2>1, <2>2, <2>3, Zenon DEF QPSorted
  <2>7. QED BY <1>2, <2>1, <2>5, <2>6
<1>4. /\ QPDescends(QPLimited(q))
      /\ q.op # "" /\ q.limit # 0 => Head(QPLimited(q)).rows >= 1
  <2>1. PICK below : below = QPSorted(q)
    OBVIOUS
  <2>2. PICK rows : rows = QPLeast(q.limit, Head(below).rows)
    OBVIOUS
  <2>3. PICK top : top = [op |-> "LIMIT", cost |-> Head(below).cost + 50, rows |-> rows, about |-> ""]
    OBVIOUS
  <2>4. /\ q.limit \in Nat /\ Head(below).rows \in Nat /\ QPDescends(below)
        /\ q.op # "" => Head(below).rows >= 1
    BY <1>3, <2>1 DEF QPIsQuery, QPExpects
  <2>5. /\ rows \in Nat /\ rows <= QPMost(Head(below).rows, 1)
        /\ q.op # "" /\ q.limit # 0 => rows >= 1
    <3>1. PICK n : n = Head(below).rows
      OBVIOUS
    <3>2. n \in Nat /\ q.limit \in Nat /\ rows = QPLeast(q.limit, n)
      BY <2>2, <2>4, <3>1
    <3>3. rows \in Nat /\ rows <= QPMost(n, 1) /\ (n >= 1 /\ q.limit # 0 => rows >= 1)
      BY <3>2 DEF QPLeast, QPMost
    <3>4. QED BY <2>4, <3>1, <3>3
  <2>6. top.rows = rows
    BY <2>3
  <2>7. QPDescends(<<top>> \o below) /\ Head(<<top>> \o below) = top
    BY <2>4, <2>5, <2>6, QPOnTop
  <2>8. QPLimited(q) = IF q.limit = 9 THEN below ELSE <<top>> \o below
    BY <2>1, <2>2, <2>3, Zenon DEF QPLimited
  <2>9. QED BY <2>4, <2>5, <2>6, <2>7, <2>8
<1>5. ASSUME NEW each
      PROVE  QPExpects(q, QPChange(q, each))
  <2>1. PICK below : below = QPFiltered(q)
    OBVIOUS
  <2>2. PICK top : top = [op |-> q.kind, cost |-> Head(below).cost + each * Head(below).rows, rows |-> Head(below).rows, about |-> ""]
    OBVIOUS
  <2>3. top.rows = Head(below).rows
    BY <2>2
  <2>4. QPExpects(q, <<top>> \o below)
    BY <1>1, <2>1, <2>3, QPSameRows
  <2>5. QED BY <2>1, <2>2, <2>4, Zenon DEF QPChange
<1>6. CASE q.kind = "SELECT"
  <2>1. QPChain(q) = QPLimited(q)
    BY <1>6 DEF QPChain
  <2>2. QED BY <1>4, <2>1
<1>7. CASE q.kind = "INSERT"
  <2>1. QPChain(q) = <<QPInsert>>
    BY <1>7 DEF QPChain
  <2>2. QPInsert.rows = 1
    BY DEF QPInsert
  <2>3. QPDescends(<<QPInsert>>) /\ Head(<<QPInsert>>) = QPInsert
    BY <2>2, QPAlone
  <2>4. Head(QPChain(q)).rows >= 1
    BY <2>1, <2>2, <2>3
  <2>5. QED BY <2>1, <2>3, <2>4
<1>8. CASE q.kind = "UPDATE"
  <2>1. QPChain(q) = QPChange(q, 400)
    BY <1>8 DEF QPChain
  <2>2. QED BY <1>5, <2>1 DEF QPExpects
<1>9. CASE q.kind = "DELETE"
  <2>1. QPChain(q) = QPChange(q, 200)
    BY <1>9 DEF QPChain
  <2>2. QED BY <1>5, <2>1 DEF QPExpects
<1>10. QED BY <1>6, <1>7, <1>8, <1>9 DEF QPIsQuery

LEMMA QPPlanEstimated ==
  ASSUME QPStatisticsOK, NEW q \in QPQueries
  PROVE  QPEstimated(q, QPPlan(q))
<1>1. QPIsQuery(q)
  BY QPAssumption DEF QPIsQuery
<1>2. QPPlan(q).chain = QPChain(q) /\ QPPlan(q).rows = Head(QPChain(q)).rows
  BY DEF QPPlan
<1>3. QED BY <1>1, <1>2, QPChainFits DEF QPEstimated

\* The cached plans have such estimates for every query of their key, the answer for its query.
QPInv ==
  /\ QPStatisticsOK
  /\ \A k \in DOMAIN qpCache : QPEstimated(k, qpCache[k])
  /\ qpAnswer # <<>> => QPEstimated(qpAnswer[1], qpAnswer[2])

LEMMA QPInvEstimates == QPInv => QPEstimates
BY DEF QPInv, QPEstimated, QPDescends, QPEstimates

LEMMA QPInitInv == QPInit => QPInv
BY DEF QPInit, QPInv, QPStatisticsOK

\* The key of a query keeps what its estimates depend on.
LEMMA QPKeyAlike ==
  ASSUME NEW q \in QPQueries
  PROVE  QPKey(q).op = q.op /\ QPKey(q).limit = q.limit
<1>1. DOMAIN q = {"kind", "table", "column", "op", "value", "order", "limit"}
  BY QPAssumption
<1>2. QED BY <1>1 DEF QPKey

LEMMA QPNextInv == QPInv /\ [QPNext]_qpVars => QPInv'
<1> SUFFICES ASSUME QPInv, [QPNext]_qpVars PROVE QPInv'
  OBVIOUS
<1>0. /\ QPStatisticsOK
      /\ \A k \in DOMAIN qpCache : QPEstimated(k, qpCache[k])
      /\ qpAnswer # <<>> => QPEstimated(qpAnswer[1], qpAnswer[2])
  BY DEF QPInv
<1>1. ASSUME NEW t \in QPTables, NEW s \in QPStatistics, QPAddStatistics(t, s)
      PROVE  QPInv'
  <2>1. /\ qpStatistics' = [u \in DOMAIN qpStatistics \cup {t} |-> IF u = t THEN s ELSE qpStatistics[u]]
        /\ UNCHANGED <<qpCache, qpAnswer>>
    BY <1>1 DEF QPAddStatistics
  <2>2. QPStatisticsOK'
    BY <1>0, <2>1 DEF QPStatisticsOK
  <2>3. QED BY <1>0, <2>1, <2>2 DEF QPInv
<1>2. ASSUME NEW q \in QPQueries, NEW use \in BOOLEAN, QPOptimize(q, use)
      PROVE  QPInv'
  <2>1. PICK k : k = QPKey(q)
    OBVIOUS
  <2>2. PICK plan : plan = IF use /\ k \in DOMAIN qpCache THEN qpCache[k] ELSE QPPlan(q)
    OBVIOUS
  <2>3. /\ qpAnswer' = <<q, plan>> /\ UNCHANGED qpStatistics
        /\ qpCache' = IF use THEN [l \in DOMAIN qpCache \cup {k} |-> IF l = k THEN qpAnswer'[2] ELSE qpCache[l]] ELSE qpCache
    BY <1>2, <2>1, <2>2, Zenon DEF QPOptimize
  <2>4. k.op = q.op /\ k.limit = q.limit
    BY <2>1, QPKeyAlike
  <2>5. QPEstimated(q, plan) /\ QPEstimated(k, plan)
    <3>1. QPEstimated(q, plan) \/ QPEstimated(k, plan)
      BY <1>0, <2>2, QPPlanEstimated
    <3>2. QED BY <2>4, <3>1 DEF QPEstimated
  <2>6. qpAnswer'[1] = q /\ qpAnswer'[2] = plan
    BY <2>3
  <2>7. \A l \in DOMAIN qpCache' : QPEstimated(l, qpCache'[l])
    BY <1>0, <2>3, <2>5, <2>6
  <2>8. QPStatisticsOK'
    BY <1>0, <2>3 DEF QPStatisticsOK
  <2>9. QED BY <2>5, <2>6, <2>7, <2>8 DEF QPInv
<1>3. ASSUME QPClear
      PROVE  QPInv'
  <2>1. qpCache' = <<>> /\ UNCHANGED <<qpStatistics, qpAnswer>>
    BY <1>3 DEF QPClear
  <2>2. \A k \in DOMAIN qpCache' : QPEstimated(k, qpCache'[k])
    BY <2>1
  <2>3. QED BY <1>0, <2>1, <2>2 DEF QPInv, QPStatisticsOK
<1>4. CASE UNCHANGED qpVars
  BY <1>0, <1>4 DEF qpVars, QPInv, QPStatisticsOK
<1>5. QED BY <1>1, <1>2, <1>3, <1>4 DEF QPNext

-----------------------------------------------------------------------------
(* Prepared statements, PreparedStatements: each manager's index is that   *)
(* of its statements.                                                      *)

PSStatements == [id : Nat \ {0}, text : PSTexts, old : BOOLEAN]

\* A manager's index lists each of its statements under its text, and no other.
PSListed(stmts, index) ==
  /\ \A i \in DOMAIN stmts : stmts[i].id = index[PSNorm[stmts[i].text]]
  /\ \A t \in PSTexts : index[t] # 0 => \E i \in DOMAIN stmts : PSNorm[stmts[i].text] = t

PSInv ==
  /\ psStmts \in [PSManagers -> Seq(PSStatements)] /\ psIndex \in [PSManagers -> [PSTexts -> Nat]]
  /\ psNextId \in Nat \ {0}
  /\ \A m \in PSManagers : PSListed(psStmts[m], psIndex[m])

LEMMA PSInvExact == PSInv => PSIndexExact
<1> SUFFICES ASSUME PSInv, NEW m \in PSManagers, NEW t \in PSTexts
             PROVE  {psStmts[m][i].id : i \in {j \in DOMAIN psStmts[m] : PSNorm[psStmts[m][j].text] = t}}
                       = {psIndex[m][t]} \ {0}
  BY DEF PSIndexExact
<1>1. PICK stmts : stmts = psStmts[m]
  OBVIOUS
<1>2. PICK index : index = psIndex[m]
  OBVIOUS
<1>3. /\ stmts \in Seq(PSStatements) /\ index \in [PSTexts -> Nat]
      /\ PSListed(stmts, index)
  BY <1>1, <1>2 DEF PSInv
<1>4. \A i \in DOMAIN stmts : stmts[i].id # 0 /\ stmts[i].id = index[PSNorm[stmts[i].text]]
  <2>1. ASSUME NEW i \in DOMAIN stmts
        PROVE  stmts[i].id # 0
    <3>1. stmts[i] \in PSStatements
      BY <1>3
    <3>2. QED BY <3>1 DEF PSStatements
  <2>2. QED BY <1>3, <2>1 DEF PSListed
<1>5. index[t] # 0 => \E i \in DOMAIN stmts : PSNorm[stmts[i].text] = t
  BY <1>3 DEF PSListed
<1>6. {stmts[i].id : i \in {j \in DOMAIN stmts : PSNorm[stmts[j].text] = t}} = {index[t]} \ {0}
  BY <1>4, <1>5
<1>7. QED BY <1>1, <1>2, <1>6

LEMMA PSInitInv == PSInit => PSInv
<1> SUFFICES ASSUME PSInit PROVE PSInv
  OBVIOUS
<1>1. /\ psStmts = [m \in PSManagers |-> <<>>] /\ psIndex = [m \in PSManagers |-> [t \in PSTexts |-> 0]]
      /\ psNextId = 1
  BY Zenon DEF PSInit
<1>2. psStmts \in [PSManagers -> Seq(PSStatements)]
  BY <1>1
<1>3. psIndex \in [PSManagers -> [PSTexts -> Nat]] /\ psNextId \in Nat \ {0}
  BY <1>1
<1>4. \A m \in PSManagers : PSListed(psStmts[m], psIndex[m])
  BY <1>1 DEF PSListed
<1>5. QED BY <1>2, <1>3, <1>4 DEF PSInv

\* What is left when some statements go and their texts are forgotten is listed, and no other.
LEMMA PSLessListed ==
  ASSUME PSInv, NEW m \in PSManagers, NEW ids
  PROVE  /\ PSWithout(psStmts[m], ids) \in Seq(PSStatements)
         /\ PSForgotten(m, psIndex[m], ids) \in [PSTexts -> Nat]
         /\ PSListed(PSWithout(psStmts[m], ids), PSForgotten(m, psIndex[m], ids))
<1>1. PICK stmts : stmts = psStmts[m]
  OBVIOUS
<1>2. PICK index : index = psIndex[m]
  OBVIOUS
<1>3. /\ stmts \in Seq(PSStatements) /\ index \in [PSTexts -> Nat]
      /\ \A i \in DOMAIN stmts : stmts[i].id = index[PSNorm[stmts[i].text]] /\ PSNorm[stmts[i].text] \in PSTexts
      /\ \A t \in PSTexts : index[t] # 0 => \E i \in DOMAIN stmts : PSNorm[stmts[i].text] = t
  <2>1. stmts \in Seq(PSStatements) /\ index \in [PSTexts -> Nat] /\ PSListed(stmts, index)
    BY <1>1, <1>2 DEF PSInv
  <2>2. \A i \in DOMAIN stmts : PSNorm[stmts[i].text] \in PSTexts
    <3>1. ASSUME NEW i \in DOMAIN stmts
          PROVE  PSNorm[stmts[i].text] \in PSTexts
      <4>1. stmts[i] \in PSStatements
        BY <2>1
      <4>2. stmts[i].text \in PSTexts
        BY <4>1 DEF PSStatements
      <4>3. QED BY <4>2, PSAssumption
    <3>2. QED BY <3>1
  <2>3. QED BY <2>1, <2>2 DEF PSListed
<1>4. PICK keep : keep = {i \in DOMAIN stmts : stmts[i].id \notin ids}
  OBVIOUS
<1>5. PICK left : left = Kept(stmts, keep)
  OBVIOUS
<1>6. /\ left \in Seq(PSStatements)
      /\ \A k \in DOMAIN left : \E i \in keep : left[k] = stmts[i]
      /\ \A i \in keep : \E k \in DOMAIN left : left[k] = stmts[i]
  <2>1. keep \in SUBSET DOMAIN stmts
    BY <1>4
  <2>2. QED BY <1>3, <1>5, <2>1, KeptElements, Zenon
<1>7. PICK texts : texts = {PSNorm[stmts[i].text] : i \in {j \in DOMAIN stmts : stmts[j].id \in ids}}
  OBVIOUS
<1>8. PICK now : now = [t \in PSTexts |-> IF t \in texts THEN 0 ELSE index[t]]
  OBVIOUS
<1>9. left = PSWithout(psStmts[m], ids)
  BY <1>1, <1>4, <1>5 DEF PSWithout
<1>10. now = PSForgotten(m, psIndex[m], ids)
  BY <1>1, <1>2, <1>7, <1>8 DEF PSForgotten
<1>11. now \in [PSTexts -> Nat]
  BY <1>3, <1>8
<1>12. ASSUME NEW k \in DOMAIN left
       PROVE  left[k].id = now[PSNorm[left[k].text]]
  <2>1. PICK i \in keep : left[k] = stmts[i]
    BY <1>6
  <2>2. i \in DOMAIN stmts /\ stmts[i].id \notin ids
    BY <1>4
  <2>3. PSNorm[stmts[i].text] \notin texts
    BY <1>3, <1>7, <2>2
  <2>4. now[PSNorm[stmts[i].text]] = index[PSNorm[stmts[i].text]]
    BY <1>3, <1>8, <2>2, <2>3
  <2>5. QED BY <1>3, <2>1, <2>2, <2>4
<1>13. ASSUME NEW t \in PSTexts, now[t] # 0
       PROVE  \E k \in DOMAIN left : PSNorm[left[k].text] = t
  <2>1. t \notin texts /\ index[t] # 0
    BY <1>8, <1>13
  <2>2. PICK i \in DOMAIN stmts : PSNorm[stmts[i].text] = t
    BY <1>3, <2>1
  <2>3. i \in keep
    BY <1>4, <1>7, <2>1, <2>2
  <2>4. QED BY <1>6, <2>2, <2>3
<1>14. PSListed(left, now)
  BY <1>12, <1>13 DEF PSListed
<1>15. QED BY <1>6, <1>9, <1>10, <1>11, <1>14

LEMMA PSDeallocateInv ==
  ASSUME PSInv, NEW m, NEW ids, PSDeallocate(m, ids), UNCHANGED psNextId
  PROVE  PSInv'
<1>1. /\ psStmts \in [PSManagers -> Seq(PSStatements)] /\ psIndex \in [PSManagers -> [PSTexts -> Nat]]
      /\ psNextId \in Nat \ {0}
      /\ \A n \in PSManagers : PSListed(psStmts[n], psIndex[n])
  BY DEF PSInv
<1>2. /\ psStmts' = [psStmts EXCEPT ![m] = PSWithout(psStmts[m], ids)]
      /\ psIndex' = [psIndex EXCEPT ![m] = PSForgotten(m, psIndex[m], ids)]
  BY DEF PSDeallocate
<1>3. CASE m \in PSManagers
  <2>1. PICK stmts : stmts = PSWithout(psStmts[m], ids)
    OBVIOUS
  <2>2. PICK index : index = PSForgotten(m, psIndex[m], ids)
    OBVIOUS
  <2>3. stmts \in Seq(PSStatements) /\ index \in [PSTexts -> Nat] /\ PSListed(stmts, index)
    BY <1>3, <2>1, <2>2, PSLessListed
  <2>4. psStmts' = [psStmts EXCEPT ![m] = stmts] /\ psIndex' = [psIndex EXCEPT ![m] = index]
    BY <1>2, <2>1, <2>2
  <2>5. /\ psStmts' \in [PSManagers -> Seq(PSStatements)] /\ psIndex' \in [PSManagers -> [PSTexts -> Nat]]
        /\ \A n \in PSManagers : \/ psStmts'[n] = psStmts[n] /\ psIndex'[n] = psIndex[n]
                                 \/ psStmts'[n] = stmts /\ psIndex'[n] = index
    BY <1>1, <1>3, <2>3, <2>4
  <2>6. \A n \in PSManagers : PSListed(psStmts'[n], psIndex'[n])
    BY <1>1, <2>3, <2>5, Zenon
  <2>7. QED BY <1>1, <2>5, <2>6 DEF PSInv
<1>4. CASE m \notin PSManagers
  <2>1. UNCHANGED <<psStmts, psIndex, psNextId>>
    BY <1>1, <1>2, <1>4
  <2>2. QED BY <1>1, <2>1 DEF PSInv
<1>5. QED BY <1>3, <1>4

LEMMA PSPrepareInv ==
  ASSUME PSInv, NEW m, NEW text \in PSTexts, PSPrepare(m, text)
  PROVE  PSInv'
<1>1. /\ psStmts \in [PSManagers -> Seq(PSStatements)] /\ psIndex \in [PSManagers -> [PSTexts -> Nat]]
      /\ psNextId \in Nat \ {0}
      /\ \A n \in PSManagers : PSListed(psStmts[n], psIndex[n])
  BY DEF PSInv
<1>2. PICK stmts : stmts = PSLeft(m)
  OBVIOUS
<1>3. PICK index : index = PSForgotten(m, psIndex[m], PSExpired(m))
  OBVIOUS
<1>4. CASE UNCHANGED <<psStmts, psIndex, psNextId>>
  BY <1>1, <1>4 DEF PSInv
<1>5. ASSUME NEW s, NEW f, NEW next,
             psStmts' = [psStmts EXCEPT ![m] = s], psIndex' = [psIndex EXCEPT ![m] = f], psNextId' = next,
             next \in Nat \ {0},
             m \in PSManagers => s \in Seq(PSStatements) /\ f \in [PSTexts -> Nat] /\ PSListed(s, f)
      PROVE  PSInv'
  <2>1. CASE m \in PSManagers
    <3>1. /\ psStmts' \in [PSManagers -> Seq(PSStatements)] /\ psIndex' \in [PSManagers -> [PSTexts -> Nat]]
          /\ \A n \in PSManagers : \/ psStmts'[n] = psStmts[n] /\ psIndex'[n] = psIndex[n]
                                   \/ psStmts'[n] = s /\ psIndex'[n] = f
      BY <1>1, <1>5, <2>1
    <3>2. \A n \in PSManagers : PSListed(psStmts'[n], psIndex'[n])
      BY <1>1, <1>5, <2>1, <3>1, Zenon
    <3>3. QED BY <1>5, <3>1, <3>2 DEF PSInv
  <2>2. CASE m \notin PSManagers
    <3>1. UNCHANGED <<psStmts, psIndex>>
      BY <1>1, <1>5, <2>2
    <3>2. QED BY <1>1, <1>5, <3>1 DEF PSInv
  <2>3. QED BY <2>1, <2>2
<1>6. m \in PSManagers => stmts \in Seq(PSStatements) /\ index \in [PSTexts -> Nat] /\ PSListed(stmts, index)
  BY <1>2, <1>3, PSLessListed DEF PSLeft
<1>7. CASE psIndex[m][PSNorm[text]] = 0 /\ PSFull(stmts)
  <2>1. psStmts' = [psStmts EXCEPT ![m] = stmts] /\ psIndex' = [psIndex EXCEPT ![m] = index] /\ psNextId' = psNextId
    BY <1>2, <1>3, <1>7, Zenon DEF PSPrepare
  <2>2. QED BY <1>1, <1>5, <1>6, <2>1
<1>8. CASE psIndex[m][PSNorm[text]] = 0 /\ ~PSFull(stmts)
  <2>1. PICK e : e = [id |-> psNextId, text |-> text, old |-> FALSE]
    OBVIOUS
  <2>2. PICK s : s = Append(stmts, e)
    OBVIOUS
  <2>3. PICK f : f = [index EXCEPT ![PSNorm[text]] = psNextId]
    OBVIOUS
  <2>4. /\ psStmts' = [psStmts EXCEPT ![m] = s] /\ psIndex' = [psIndex EXCEPT ![m] = f]
        /\ psNextId' = psNextId + 1
    BY <1>2, <1>3, <1>8, <2>1, <2>2, <2>3, Zenon DEF PSPrepare
  <2>5. ASSUME m \in PSManagers
        PROVE  s \in Seq(PSStatements) /\ f \in [PSTexts -> Nat] /\ PSListed(s, f)
    <3>1. stmts \in Seq(PSStatements) /\ index \in [PSTexts -> Nat] /\ PSListed(stmts, index)
      BY <1>6, <2>5
    <3>2. e \in PSStatements /\ e.id = psNextId /\ e.text = text /\ PSNorm[text] \in PSTexts
      BY <1>1, <2>1, PSAssumption DEF PSStatements
    <3>3. /\ s \in Seq(PSStatements) /\ DOMAIN s = 1 .. (Len(stmts) + 1) /\ DOMAIN stmts = 1 .. Len(stmts)
          /\ Len(stmts) \in Nat /\ s[Len(stmts) + 1] = e /\ \A i \in 1 .. Len(stmts) : s[i] = stmts[i]
      BY <2>2, <3>1, <3>2
    <3>4. f \in [PSTexts -> Nat]
      BY <1>1, <2>3, <3>1, <3>2
    <3>5. index[PSNorm[text]] = 0
      BY <1>1, <1>3, <1>8, <2>5, <3>2 DEF PSForgotten
    <3>6. ASSUME NEW i \in 1 .. Len(stmts)
          PROVE  PSNorm[stmts[i].text] \in PSTexts /\ PSNorm[stmts[i].text] # PSNorm[text]
      <4>1. stmts[i] \in PSStatements /\ stmts[i].id = index[PSNorm[stmts[i].text]]
        BY <3>1, <3>3 DEF PSListed
      <4>2. QED BY <3>5, <4>1, PSAssumption DEF PSStatements
    <3>7. ASSUME NEW i \in DOMAIN s
          PROVE  s[i].id = f[PSNorm[s[i].text]]
      <4>1. CASE i = Len(stmts) + 1
        BY <2>3, <3>1, <3>2, <3>3, <4>1
      <4>2. CASE i \in 1 .. Len(stmts)
        <5>1. s[i] = stmts[i] /\ stmts[i].id = index[PSNorm[stmts[i].text]]
          BY <3>1, <3>3, <4>2 DEF PSListed
        <5>2. QED BY <2>3, <3>1, <3>6, <4>2, <5>1
      <4>3. QED BY <3>3, <4>1, <4>2
    <3>8. ASSUME NEW t \in PSTexts, f[t] # 0
          PROVE  \E i \in DOMAIN s : PSNorm[s[i].text] = t
      <4>1. CASE t = PSNorm[text]
        BY <3>2, <3>3, <4>1
      <4>2. CASE t # PSNorm[text]
        <5>1. index[t] # 0
          BY <2>3, <3>1, <3>2, <3>8, <4>2
        <5>2. PICK i \in DOMAIN stmts : PSNorm[stmts[i].text] = t
          BY <3>1, <5>1 DEF PSListed
        <5>3. i \in DOMAIN s /\ s[i] = stmts[i]
          BY <3>3
        <5>4. QED BY <5>2, <5>3
      <4>3. QED BY <4>1, <4>2
    <3>9. QED BY <3>3, <3>4, <3>7, <3>8 DEF PSListed
  <2>6. psNextId + 1 \in Nat \ {0}
    BY <1>1
  <2>7. QED BY <1>5, <2>4, <2>5, <2>6
<1>9. QED BY <1>2, <1>4, <1>7, <1>8 DEF PSPrepare

LEMMA PSAgeInv ==
  ASSUME PSInv, PSAge
  PROVE  PSInv'
<1>1. PICK m \in PSManagers : \E i \in DOMAIN psStmts[m] :
        psStmts' = [psStmts EXCEPT ![m][i].old = TRUE] /\ UNCHANGED <<psIndex, psNextId>>
  BY DEF PSAge
<1>2. PICK i \in DOMAIN psStmts[m] :
        psStmts' = [psStmts EXCEPT ![m][i].old = TRUE] /\ UNCHANGED <<psIndex, psNextId>>
  BY <1>1
<1>3. /\ psStmts \in [PSManagers -> Seq(PSStatements)] /\ psIndex \in [PSManagers -> [PSTexts -> Nat]]
      /\ psNextId \in Nat \ {0}
      /\ \A n \in PSManagers : PSListed(psStmts[n], psIndex[n])
  BY DEF PSInv
<1>4. PICK stmts : stmts = psStmts[m]
  OBVIOUS
<1>5. PICK e : e = [stmts[i] EXCEPT !.old = TRUE]
  OBVIOUS
<1>6. PICK s : s = [stmts EXCEPT ![i] = e]
  OBVIOUS
<1>7. psStmts' = [psStmts EXCEPT ![m] = s]
  BY <1>2, <1>4, <1>5, <1>6
<1>8. stmts \in Seq(PSStatements) /\ i \in DOMAIN stmts /\ PSListed(stmts, psIndex[m])
  BY <1>2, <1>3, <1>4
<1>9. e \in PSStatements /\ e.id = stmts[i].id /\ e.text = stmts[i].text
  <2>1. stmts[i] \in PSStatements
    BY <1>8
  <2>2. QED BY <1>5, <2>1 DEF PSStatements
<1>10. s \in Seq(PSStatements) /\ DOMAIN s = DOMAIN stmts
  BY <1>6, <1>8, <1>9
<1>11. \A j \in DOMAIN stmts : s[j].id = stmts[j].id /\ s[j].text = stmts[j].text
  BY <1>6, <1>8, <1>9
<1>12. PSListed(s, psIndex[m])
  BY <1>8, <1>10, <1>11 DEF PSListed
<1>13. /\ psStmts' \in [PSManagers -> Seq(PSStatements)]
       /\ \A n \in PSManagers : psStmts'[n] = psStmts[n] \/ (n = m /\ psStmts'[n] = s)
  <2>1. PICK T : T = Seq(PSStatements)
    OBVIOUS
  <2>2. psStmts \in [PSManagers -> T] /\ s \in T
    BY <1>3, <1>10, <2>1
  <2>3. psStmts' \in [PSManagers -> T]
    BY <1>7, <2>2
  <2>4. \A n \in PSManagers : psStmts'[n] = IF n = m THEN s ELSE psStmts[n]
    BY <1>7, <2>2
  <2>5. psStmts' \in [PSManagers -> Seq(PSStatements)]
    BY <2>1, <2>3, Zenon
  <2>6. \A n \in PSManagers : psStmts'[n] = psStmts[n] \/ (n = m /\ psStmts'[n] = s)
    BY <2>4, Zenon
  <2>7. QED BY <2>5, <2>6
<1>14. \A n \in PSManagers : PSListed(psStmts'[n], psIndex[n])
  BY <1>3, <1>12, <1>13, Zenon
<1>15. QED BY <1>2, <1>3, <1>13, <1>14 DEF PSInv

LEMMA PSNextInv == PSInv /\ [PSNext]_psVars => PSInv'
<1> SUFFICES ASSUME PSInv, [PSNext]_psVars PROVE PSInv'
  OBVIOUS
<1>1. ASSUME UNCHANGED <<psStmts, psIndex, psNextId>>
      PROVE  PSInv'
  BY <1>1 DEF PSInv
<1>2. CASE PSAge
  BY <1>2, PSAgeInv
<1>3. CASE PSRemoveManager
  BY <1>3, PSDeallocateInv DEF PSRemoveManager
<1>4. ASSUME NEW c \in PSClients,
             PSGetManager(c) \/ PSReply(c) \/ PSExecuteCmd(c) \/ PSBatchEnd(c)
               \/ (\E texts \in SUBSET PSTexts : PSFind(c, texts))
      PROVE  PSInv'
  BY <1>1, <1>4 DEF PSGetManager, PSReply, PSExecuteCmd, PSBatchEnd, PSFind
<1>5. ASSUME NEW c \in PSClients, PSDeallocateCmd(c)
      PROVE  PSInv'
  BY <1>5, PSDeallocateInv, Zenon DEF PSDeallocateCmd
<1>6. ASSUME NEW c \in PSClients, PSDeallocateAll(c)
      PROVE  PSInv'
  BY <1>6, PSDeallocateInv, Zenon DEF PSDeallocateAll
<1>7. ASSUME NEW c \in PSClients, NEW names, PSBatchDeallocate(c, names)
      PROVE  PSInv'
  BY <1>7, PSDeallocateInv, Zenon DEF PSBatchDeallocate
<1>8. ASSUME NEW c \in PSClients, NEW text \in PSTexts, PSPrepareCmd(c, text)
      PROVE  PSInv'
  BY <1>8, PSPrepareInv, Zenon DEF PSPrepareCmd
<1>9. ASSUME NEW c \in PSClients, NEW name \in PSNames, NEW text \in PSTexts, PSBatchPrepare(c, name, text)
      PROVE  PSInv'
  BY <1>9, PSPrepareInv, Zenon DEF PSBatchPrepare
<1>10. CASE UNCHANGED psVars
  BY <1>1, <1>10 DEF psVars
<1>11. QED BY <1>2, <1>3, <1>4, <1>5, <1>6, <1>7, <1>8, <1>9, <1>10, Zenon DEF PSNext

-----------------------------------------------------------------------------
(* The batches' cache of results, BatchExecutor: the index lists each of   *)
(* them under all the tables that it reads.                                *)

BESeen == UNION {[tables -> Nat] : tables \in SUBSET BETables}

\* The results that the index lists under each of their tables, and that are not older than a statement
\* that changed one of them and returned.
BEListed(index, returned) ==
  {e \in [query : BETexts, seen : BESeen, error : BOOLEAN] :
     \A t \in BEReads[e.query] : e.query \in index[t] /\ e.seen[t] >= returned[t]}

BEInv ==
  /\ beData \in [BETables -> Nat] /\ beReturned \in [BETables -> Nat]
  /\ \A t \in BETables : beReturned[t] <= beData[t]
  /\ beIndex \in [BETables -> SUBSET BETexts]
  /\ beCache \in Seq(BEListed(beIndex, beReturned))

LEMMA BEInvFresh == BEInv => BEFresh
<1> SUFFICES ASSUME BEInv, NEW i \in DOMAIN beCache, NEW t \in BEReads[beCache[i].query]
             PROVE  beCache[i].seen[t] >= beReturned[t]
  BY DEF BEFresh
<1>1. beCache[i] \in BEListed(beIndex, beReturned)
  BY DEF BEInv
<1>2. QED BY <1>1 DEF BEListed

LEMMA BEInitInv == BEInit => BEInv
<1> SUFFICES ASSUME BEInit PROVE BEInv
  OBVIOUS
<1>1. /\ beData = [t \in BETables |-> 0] /\ beReturned = beData
      /\ beCache = <<>> /\ beIndex = [t \in BETables |-> {}]
  BY Zenon DEF BEInit
<1>2. beCache \in Seq(BEListed(beIndex, beReturned))
  BY <1>1
<1>3. QED BY <1>1, <1>2 DEF BEInv

\* What is left of the cache is listed in an index that forgets no other query, and as new as it must be.
LEMMA BELeftListed ==
  ASSUME BEInv, NEW qs, NEW index, NEW returned,
         \A q \in BETexts : q \notin qs =>
           \A t \in BEReads[q] : q \in beIndex[t] => q \in index[t] /\ returned[t] = beReturned[t]
  PROVE  BEWithout(beCache, qs) \in Seq(BEListed(index, returned))
<1>1. PICK keep : keep = {i \in DOMAIN beCache : beCache[i].query \notin qs}
  OBVIOUS
<1>2. beCache \in Seq(BEListed(beIndex, beReturned)) /\ keep \in SUBSET DOMAIN beCache
  BY <1>1 DEF BEInv
<1>3. ASSUME NEW i \in keep
      PROVE  beCache[i] \in BEListed(index, returned)
  <2>1. beCache[i] \in BEListed(beIndex, beReturned) /\ beCache[i].query \notin qs
    BY <1>1, <1>2
  <2>2. QED BY <2>1 DEF BEListed
<1>4. Kept(beCache, keep) \in Seq(BEListed(index, returned))
  BY <1>2, <1>3, KeptIn, Zenon
<1>5. QED BY <1>1, <1>4, Zenon DEF BEWithout

\* A result that is put shows the tables as they are after the command, which may have changed one.
LEMMA BEPutInv ==
  ASSUME BEInv, NEW q \in BETexts, NEW error \in BOOLEAN, NEW data \in [BETables -> Nat],
         \A t \in BETables : beReturned[t] <= data[t],
         BEPut(q, data, error), beData' = data, UNCHANGED beReturned
  PROVE  BEInv'
<1>1. PICK oldest : oldest = IF BEFull THEN {Head(beCache).query} ELSE {}
  OBVIOUS
<1>2. PICK e : e = [query |-> q, seen |-> [t \in BEReads[q] |-> data[t]], error |-> error]
  OBVIOUS
<1>3. /\ beCache' = Append(BEWithout(beCache, oldest \cup {q}), e)
      /\ beIndex' = [t \in BETables |-> (beIndex[t] \ {o \in oldest : t \in BEReads[o]})
                                         \cup {r \in {q} : t \in BEReads[r]}]
  BY <1>1, <1>2, Zenon DEF BEPut
<1>4. /\ BEReads \in [BETexts -> SUBSET BETables] /\ beIndex \in [BETables -> SUBSET BETexts]
      /\ beReturned \in [BETables -> Nat]
  BY BEAssumption DEF BEInv
<1>5. beIndex' \in [BETables -> SUBSET BETexts]
  BY <1>3, <1>4
<1>6. ASSUME NEW p \in BETexts, p \notin oldest \cup {q}, NEW t \in BEReads[p], p \in beIndex[t]
      PROVE  p \in beIndex'[t]
  BY <1>3, <1>4, <1>6
<1>7. PICK left : left = BEWithout(beCache, oldest \cup {q})
  OBVIOUS
<1>8. left \in Seq(BEListed(beIndex', beReturned))
  <2>1. BEWithout(beCache, oldest \cup {q}) \in Seq(BEListed(beIndex', beReturned))
    BY <1>6, BELeftListed, Zenon
  <2>2. QED BY <1>7, <2>1
<1>9. e \in BEListed(beIndex', beReturned)
  <2>1. BEReads[q] \in SUBSET BETables /\ e.query = q /\ e.error = error /\ e.seen = [t \in BEReads[q] |-> data[t]]
    BY <1>2, <1>4
  <2>2. e.seen \in [BEReads[q] -> Nat]
    BY <2>1
  <2>3. e.seen \in BESeen
    BY <2>1, <2>2 DEF BESeen
  <2>4. e \in [query : BETexts, seen : BESeen, error : BOOLEAN]
    BY <1>2, <2>1, <2>3
  <2>5. ASSUME NEW t \in BEReads[q]
        PROVE  q \in beIndex'[t] /\ e.seen[t] >= beReturned[t]
    <3>1. t \in BETables /\ e.seen[t] = data[t]
      BY <2>1
    <3>2. QED BY <1>3, <1>4, <3>1
  <2>6. QED BY <2>1, <2>4, <2>5 DEF BEListed
<1>10. Append(left, e) \in Seq(BEListed(beIndex', beReturned))
  BY <1>8, <1>9
<1>11. beCache' = Append(left, e)
  BY <1>3, <1>7
<1>12. QED BY <1>4, <1>5, <1>10, <1>11 DEF BEInv

LEMMA BENextInv == BEInv /\ [BENext]_beVars => BEInv'
<1> SUFFICES ASSUME BEInv, [BENext]_beVars PROVE BEInv'
  OBVIOUS
<1>0. /\ BEReads \in [BETexts -> SUBSET BETables] /\ BETarget \in [BEStatements -> BETables]
      /\ BEQueries \subseteq BETexts /\ BEStatements \subseteq BETexts
      /\ beIndex \in [BETables -> SUBSET BETexts]
      /\ beData \in [BETables -> Nat] /\ beReturned \in [BETables -> Nat]
      /\ \A t \in BETables : beReturned[t] <= beData[t]
      /\ beCache \in Seq(BEListed(beIndex, beReturned))
  BY BEAssumption DEF BEInv, BETexts
<1>1. ASSUME UNCHANGED <<beData, beCache, beIndex, beReturned>>
      PROVE  BEInv'
  BY <1>1 DEF BEInv
<1>2. ASSUME NEW mode, BEStart(mode)
      PROVE  BEInv'
  BY <1>1, <1>2 DEF BEStart
<1>3. ASSUME NEW q \in BEQueries, BESelectHit(q)
      PROVE  BEInv'
  BY <1>1, <1>3 DEF BESelectHit
<1>4. ASSUME NEW q \in BEQueries, NEW error \in BOOLEAN, NEW store \in BOOLEAN, BESelectMiss(q, error, store)
      PROVE  BEInv'
  <2>1. CASE store
    <3>1. BEPut(q, beData, error) /\ beData' = beData /\ UNCHANGED beReturned
      BY <1>4, <2>1 DEF BESelectMiss
    <3>2. QED BY <1>0, <3>1, BEPutInv
  <2>2. CASE ~store
    BY <1>1, <1>4, <2>2 DEF BESelectMiss
  <2>3. QED BY <2>1, <2>2
<1>5. ASSUME NEW q \in BETexts, NEW error \in BOOLEAN, BEWarm(q, error)
      PROVE  BEInv'
  <2>1. BEPut(q, beData, error) /\ beData' = beData /\ UNCHANGED beReturned
    BY <1>5 DEF BEWarm
  <2>2. QED BY <1>0, <2>1, BEPutInv
<1>6. ASSUME NEW s \in BEStatements, BEWarmChange(s)
      PROVE  BEInv'
  <2>1. PICK data : data = [beData EXCEPT ![BETarget[s]] = @ + 1]
    OBVIOUS
  <2>2. beData' = data /\ BEPut(s, data, FALSE) /\ UNCHANGED beReturned
    BY <1>6, <2>1 DEF BEWarmChange, BEChange
  <2>3. data \in [BETables -> Nat] /\ \A t \in BETables : beReturned[t] <= data[t]
    BY <1>0, <2>1
  <2>4. QED BY <1>0, <2>2, <2>3, BEPutInv
<1>7. ASSUME NEW t \in BETables, NEW error \in BOOLEAN, BEDml(t, error)
      PROVE  BEInv'
  <2>1. /\ beData' \in [BETables -> Nat] /\ beReturned' \in [BETables -> Nat]
        /\ \A u \in BETables : beReturned'[u] <= beData'[u]
        /\ \A u \in BETables : u # t => beReturned'[u] = beReturned[u]
    <3>1. CASE UNCHANGED <<beData, beReturned>>
      BY <1>0, <3>1
    <3>2. CASE ~UNCHANGED <<beData, beReturned>>
      <4>1. beData' = [beData EXCEPT ![t] = @ + 1] /\ beReturned' = [beReturned EXCEPT ![t] = beData[t] + 1]
        BY <1>7, <3>2 DEF BEDml, BEChange
      <4>2. QED BY <1>0, <4>1
    <3>3. QED BY <3>1, <3>2
  <2>2. beCache' = BEWithout(beCache, beIndex[t]) /\ beIndex' = [beIndex EXCEPT ![t] = {}]
    BY <1>7 DEF BEDml, BEInvalidate, BEDropped
  <2>3. beIndex' \in [BETables -> SUBSET BETexts]
    BY <1>0, <2>2
  <2>4. ASSUME NEW q \in BETexts, q \notin beIndex[t], NEW u \in BEReads[q], q \in beIndex[u]
        PROVE  q \in beIndex'[u] /\ beReturned'[u] = beReturned[u]
    <3>1. u \in BETables /\ u # t
      BY <1>0, <2>4
    <3>2. QED BY <1>0, <2>1, <2>2, <2>4, <3>1
  <2>5. beCache' \in Seq(BEListed(beIndex', beReturned'))
    BY <2>2, <2>4, BELeftListed, Zenon
  <2>6. QED BY <2>1, <2>3, <2>5 DEF BEInv
<1>8. ASSUME NEW t \in BETables, NEW error \in BOOLEAN, BEOther(t, error)
      PROVE  BEInv'
  <2>1. /\ beData' = [beData EXCEPT ![t] = @ + 1]
        /\ UNCHANGED <<beCache, beIndex, beReturned>>
    BY <1>8 DEF BEOther, BEChange
  <2>2. beData' \in [BETables -> Nat] /\ \A u \in BETables : beReturned[u] <= beData'[u]
    BY <1>0, <2>1
  <2>3. QED BY <1>0, <2>1, <2>2 DEF BEInv
<1>9. ASSUME BERefused \/ BEEnd \/ UNCHANGED beVars
      PROVE  BEInv'
  BY <1>1, <1>9 DEF BERefused, BEEnd, beVars
<1>10. QED BY <1>2, <1>3, <1>4, <1>5, <1>6, <1>7, <1>8, <1>9 DEF BENext

-----------------------------------------------------------------------------
(* The settings of the sort engine, SelectResults: how old they are.       *)

\* Settings that are cached are valid, and the sources have changed not longer ago than they were read.
SGInv ==
  /\ sgCache = [of |-> sgCache.of, age |-> sgCache.age] /\ sgCache.age \in Nat
  /\ sgBehind \in Nat /\ sgBehind <= sgCache.age
  /\ sgCache.of # SGNone => SGValid(sgCache.of)
  /\ SGRecent

LEMMA SGInvRecent == SGInv => SGRecent
BY DEF SGInv

\* With a file, the merged settings are the file's, whatever the environment has.
LEMMA SGFileAlways == SGFileDecides
<1> SUFFICES ASSUME sgNamed PROVE SGLoaded = SGFromFile
  BY DEF SGFileDecides
<1> DEFINE fields == {"backend", "small", "medium"}
<1>1. PICK f : f = SGFromFile
  OBVIOUS
<1>2. PICK env : env = SGMerge(SGDefaults, SGFromEnv)
  OBVIOUS
<1>3. DOMAIN env = fields
  BY <1>2 DEF SGMerge, SGDefaults
<1>4. f = [n \in fields |-> f[n]]
  BY <1>1 DEF SGFromFile, SGDefaults
<1>5. SGLoaded = [n \in DOMAIN env |-> IF f[n] # env[n] THEN f[n] ELSE env[n]]
  BY <1>1, <1>2 DEF SGLoaded, SGMerge
<1>6. SGLoaded = [n \in fields |-> f[n]]
  <2> HIDE DEF fields
  <2>1. QED BY <1>3, <1>5
<1>7. QED BY <1>1, <1>4, <1>6

\* What is not valid: that there are none, and that a call raised.
LEMMA SGNotValid == ~SGValid(SGNone) /\ ~SGValid(SGRaised) /\ SGNone # SGRaised
<1>1. SGNone.small = 0 /\ SGNone.medium = 0 /\ SGNone.backend = "none"
  BY DEF SGNone
<1>2. SGRaised.small = 0 /\ SGRaised.medium = 0 /\ SGRaised.backend = "raised"
  BY DEF SGNone, SGRaised
<1>3. QED BY <1>1, <1>2 DEF SGValid

LEMMA SGInitInv == SGInit => SGInv
<1> SUFFICES ASSUME SGInit PROVE SGInv
  OBVIOUS
<1>1. sgCache = [of |-> SGNone, age |-> 0] /\ sgAnswer = SGNone /\ sgBehind = 0
  BY Zenon DEF SGInit
<1>2. sgCache.of = SGNone /\ sgCache.age = 0
  BY <1>1
<1>3. SGRecent
  BY <1>1, SGNotValid DEF SGRecent
<1>4. QED BY <1>1, <1>2, <1>3 DEF SGInv

\* The time since the sources last had what is cached does not pass the age of the cache.
LEMMA SGBehindAge ==
  ASSUME SGInv, NEW time \in {0, 1}, SGNoted(time), sgCache'.age \in Nat,
         \/ sgCache'.age >= sgCache.age + time
         \/ sgCache'.age >= sgCache.age /\ SGTtl <= sgCache.age
         \/ SGLoaded' = sgCache'.of
  PROVE  sgBehind' \in Nat /\ sgBehind' <= sgCache'.age
<1>1. SGTtl \in Nat \ {0}
  BY SGAssumption
<1>2. sgBehind' = IF SGLoaded' = sgCache'.of THEN 0 ELSE IF sgBehind < SGTtl THEN sgBehind + time ELSE sgBehind
  BY Zenon DEF SGNoted
<1>3. sgBehind \in Nat /\ sgBehind <= sgCache.age /\ sgCache.age \in Nat /\ time \in Nat
  BY DEF SGInv
<1>4. CASE SGLoaded' = sgCache'.of
  BY <1>2, <1>4
<1>5. CASE SGLoaded' # sgCache'.of
  <2>1. sgBehind' = IF sgBehind < SGTtl THEN sgBehind + time ELSE sgBehind
    BY <1>2, <1>5, Zenon
  <2>2. CASE sgCache'.age >= sgCache.age + time
    BY <1>1, <1>3, <2>1, <2>2
  <2>3. CASE sgCache'.age >= sgCache.age /\ SGTtl <= sgCache.age
    BY <1>1, <1>3, <2>1, <2>3
  <2>4. QED BY <1>5, <2>2, <2>3
<1>6. QED BY <1>4, <1>5

\* A call that finds settings too old or none has those of now, or raises.
LEMMA SGGetInv ==
  ASSUME SGInv, NEW cache, cache \in {sgCache, [sgCache EXCEPT !.of = SGNone]}, SGGetFrom(cache)
  PROVE  SGInv'
<1>1. /\ sgCache = [of |-> sgCache.of, age |-> sgCache.age] /\ sgCache.age \in Nat
      /\ sgCache.of # SGNone => SGValid(sgCache.of)
      /\ SGTtl \in Nat \ {0}
  BY SGAssumption DEF SGInv
<1>2. /\ cache = [of |-> cache.of, age |-> cache.age] /\ cache.age = sgCache.age
      /\ cache.of # SGNone => SGValid(cache.of)
  BY <1>1
<1>3. SGNoted(0)
  BY DEF SGGetFrom
<1>4. CASE SGFresh(cache)
  <2>1. sgAnswer' = cache.of /\ sgCache' = cache /\ cache.of # SGNone /\ cache.age < SGTtl
    BY <1>4 DEF SGGetFrom, SGFresh
  <2>2. sgBehind' \in Nat /\ sgBehind' <= sgCache'.age
    BY <1>1, <1>2, <1>3, <2>1, SGBehindAge
  <2>3. SGRecent'
    <3>1. sgBehind' < SGTtl
      BY <1>1, <1>2, <2>1, <2>2
    <3>2. sgAnswer' # SGRaised
      BY <1>2, <2>1, SGNotValid
    <3>3. QED BY <2>1, <3>1, <3>2 DEF SGRecent
  <2>4. QED BY <1>1, <1>2, <2>1, <2>2, <2>3 DEF SGInv
<1>5. CASE ~SGFresh(cache) /\ SGValid(SGLoaded')
  <2>1. sgAnswer' = SGLoaded' /\ sgCache' = [of |-> SGLoaded', age |-> 0]
    BY <1>5, Zenon DEF SGGetFrom
  <2>2. sgCache'.of = SGLoaded' /\ sgCache'.age = 0
    BY <2>1
  <2>3. sgBehind' = 0
    BY <1>3, <2>2 DEF SGNoted
  <2>4. SGRecent'
    BY <1>1, <1>5, <2>1, <2>2, <2>3, SGNotValid DEF SGRecent
  <2>5. QED BY <1>5, <2>1, <2>2, <2>3, <2>4 DEF SGInv
<1>6. CASE ~SGFresh(cache) /\ ~SGValid(SGLoaded')
  <2>1. sgAnswer' = SGRaised /\ sgCache' = cache
    BY <1>6, Zenon DEF SGGetFrom
  <2>2. sgBehind' \in Nat /\ sgBehind' <= sgCache'.age
    BY <1>1, <1>2, <1>3, <2>1, SGBehindAge
  <2>3. SGRecent'
    BY <1>6, <2>1 DEF SGRecent
  <2>4. QED BY <1>1, <1>2, <2>1, <2>2, <2>3 DEF SGInv
<1>7. QED BY <1>4, <1>5, <1>6

LEMMA SGNextInv == SGInv /\ [SGNext]_sgVars => SGInv'
<1> SUFFICES ASSUME SGInv, [SGNext]_sgVars PROVE SGInv'
  OBVIOUS
<1>0. /\ sgCache = [of |-> sgCache.of, age |-> sgCache.age] /\ sgCache.age \in Nat
      /\ SGTtl \in Nat \ {0}
  BY SGAssumption DEF SGInv
<1>1. ASSUME SGSetEnv \/ SGWriteFile
      PROVE  SGInv'
  <2>1. sgAnswer' = SGNone /\ sgCache' = sgCache /\ SGNoted(0)
    BY <1>1 DEF SGSetEnv, SGWriteFile
  <2>2. sgBehind' \in Nat /\ sgBehind' <= sgCache'.age
    BY <1>0, <2>1, SGBehindAge
  <2>3. SGRecent'
    BY <2>1, SGNotValid DEF SGRecent
  <2>4. QED BY <2>1, <2>2, <2>3 DEF SGInv
<1>2. ASSUME SGTick
      PROVE  SGInv'
  <2>1. sgAnswer' = SGNone /\ sgCache' = [sgCache EXCEPT !.age = IF @ < SGTtl THEN @ + 1 ELSE @] /\ SGNoted(1)
    BY <1>2 DEF SGTick
  <2>2. /\ sgCache' = [of |-> sgCache'.of, age |-> sgCache'.age] /\ sgCache'.of = sgCache.of
        /\ sgCache'.age = IF sgCache.age < SGTtl THEN sgCache.age + 1 ELSE sgCache.age
    BY <1>0, <2>1
  <2>3. sgBehind' \in Nat /\ sgBehind' <= sgCache'.age
    <3>1. /\ sgCache'.age \in Nat
          /\ \/ sgCache'.age >= sgCache.age + 1
             \/ sgCache'.age >= sgCache.age /\ SGTtl <= sgCache.age
      BY <1>0, <2>2
    <3>2. QED BY <2>1, <3>1, SGBehindAge
  <2>4. SGRecent'
    BY <2>1, SGNotValid DEF SGRecent
  <2>5. sgCache'.age \in Nat
    BY <1>0, <2>2
  <2>6. QED BY <2>2, <2>3, <2>4, <2>5 DEF SGInv
<1>3. ASSUME SGGet \/ SGReload \/ SGName
      PROVE  SGInv'
  BY <1>3, SGGetInv DEF SGGet, SGReload, SGName
<1>4. CASE UNCHANGED sgVars
  <2>1. UNCHANGED <<sgCache, sgBehind, sgAnswer, sgEnv, sgFile, sgNamed>>
    BY <1>4 DEF sgVars
  <2>2. SGLoaded' = SGLoaded
    BY <2>1 DEF SGLoaded, SGFromEnv, SGFromFile
  <2>3. SGRecent'
    BY <2>1, <2>2 DEF SGRecent, SGInv
  <2>4. QED BY <2>1, <2>3 DEF SGInv
<1>5. QED BY <1>1, <1>2, <1>3, <1>4 DEF SGNext

-----------------------------------------------------------------------------
(* The rows of two masters, ManyServers: vector clocks order what knew of  *)
(* each other, and resolving conflicts ends with the same row.             *)

VKClocks == UNION {[S -> Nat] : S \in SUBSET VKServers}

\* One clock has nowhere more than another, and the increments that a clock tells of.
VKWithin(c, d) == \A t \in VKServers : VKOf(c, t) <= VKOf(d, t)

VKTold(c) == {p \in VKServers \X Nat : 1 <= p[2] /\ p[2] <= VKOf(c, p[1])}

VKEntriesOf ==
  [server_id : VKServers, clock : VKClocks, timestamp : VKStamps, known : SUBSET (VKServers \X Nat)]

\* What was written is within its server's clock, and what a server wrote ascends.
VKInv ==
  /\ vkClock \in [VKServers -> VKClocks] /\ vkSent \subseteq VKEntriesOf
  /\ vkKnown = [s \in VKServers |-> VKTold(vkClock[s])]
  /\ \A s \in VKServers : s \in DOMAIN vkClock[s]
  /\ \A e \in vkSent : e.known = VKTold(e.clock) /\ VKWithin(e.clock, vkClock[e.server_id])
  /\ \A e, f \in vkSent : e.server_id = f.server_id =>
       \/ e = f
       \/ VKWithin(e.clock, f.clock) /\ VKOf(e.clock, e.server_id) < VKOf(f.clock, e.server_id)
       \/ VKWithin(f.clock, e.clock) /\ VKOf(f.clock, e.server_id) < VKOf(e.clock, e.server_id)

LEMMA VKClockIs ==
  ASSUME NEW c \in VKClocks
  PROVE  /\ DOMAIN c \subseteq VKServers /\ \A t : VKOf(c, t) \in Nat
         /\ \A t \in VKServers \ DOMAIN c : VKOf(c, t) = 0
<1>1. PICK S \in SUBSET VKServers : c \in [S -> Nat]
  BY DEF VKClocks
<1>2. QED BY <1>1 DEF VKOf

LEMMA VKToldWithin ==
  ASSUME NEW c \in VKClocks, NEW d \in VKClocks
  PROVE  VKTold(c) \subseteq VKTold(d) <=> VKWithin(c, d)
<1>1. ASSUME VKTold(c) \subseteq VKTold(d), NEW t \in VKServers
      PROVE  VKOf(c, t) <= VKOf(d, t)
  <2>1. VKOf(c, t) \in Nat /\ VKOf(d, t) \in Nat
    BY VKClockIs
  <2>2. CASE VKOf(c, t) = 0
    BY <2>1, <2>2
  <2>3. CASE VKOf(c, t) # 0
    <3>1. <<t, VKOf(c, t)>> \in VKTold(c)
      BY <2>1, <2>3 DEF VKTold
    <3>2. <<t, VKOf(c, t)>> \in VKTold(d)
      BY <1>1, <3>1
    <3>3. QED BY <3>2 DEF VKTold
  <2>4. QED BY <2>2, <2>3
<1>2. ASSUME VKWithin(c, d), NEW p \in VKTold(c)
      PROVE  p \in VKTold(d)
  <2>1. p \in VKServers \X Nat /\ 1 <= p[2] /\ p[2] <= VKOf(c, p[1]) /\ p[1] \in VKServers /\ p[2] \in Nat
    BY <1>2 DEF VKTold
  <2>2. VKOf(c, p[1]) <= VKOf(d, p[1]) /\ VKOf(c, p[1]) \in Nat /\ VKOf(d, p[1]) \in Nat
    BY <1>2, <2>1, VKClockIs DEF VKWithin
  <2>3. p[2] <= VKOf(d, p[1])
    BY <2>1, <2>2
  <2>4. QED BY <2>1, <2>3 DEF VKTold
<1>3. QED BY <1>1, <1>2 DEF VKWithin

LEMMA VKAheadIs ==
  ASSUME NEW c \in VKClocks, NEW d \in VKClocks
  PROVE  VKAhead(c, d) <=> ~VKWithin(c, d)
<1>1. /\ DOMAIN c \subseteq VKServers /\ DOMAIN d \subseteq VKServers
      /\ \A t : VKOf(c, t) \in Nat /\ VKOf(d, t) \in Nat
      /\ \A t \in VKServers \ DOMAIN c : VKOf(c, t) = 0
  BY VKClockIs
<1>2. \A t \in VKServers : VKOf(c, t) > VKOf(d, t) => t \in DOMAIN c \cup DOMAIN d
  BY <1>1
<1>3. \A t \in VKServers : VKOf(c, t) > VKOf(d, t) <=> ~(VKOf(c, t) <= VKOf(d, t))
  BY <1>1
<1>4. QED BY <1>1, <1>2, <1>3 DEF VKAhead, VKServersOf, VKWithin

\* The answers of compare.
LEMMA VKCompareIs ==
  ASSUME NEW c \in VKClocks, NEW d \in VKClocks
  PROVE  /\ VKCompare(c, d) = "after" <=> VKWithin(d, c) /\ ~VKWithin(c, d)
         /\ VKCompare(c, d) = "before" <=> VKWithin(c, d) /\ ~VKWithin(d, c)
         /\ VKCompare(c, d) = "concurrent" <=> (VKWithin(c, d) <=> VKWithin(d, c))
<1>1. VKBehind(c, d) <=> VKAhead(d, c)
  BY DEF VKBehind, VKAhead, VKServersOf
<1>2. QED BY <1>1, VKAheadIs DEF VKCompare

LEMMA VKWithinOrder ==
  ASSUME NEW c \in VKClocks, NEW d \in VKClocks
  PROVE  /\ VKWithin(c, c)
         /\ \A e \in VKClocks : VKWithin(c, d) /\ VKWithin(d, e) => VKWithin(c, e)
<1>1. \A t : VKOf(c, t) \in Nat /\ VKOf(d, t) \in Nat
  BY VKClockIs
<1>2. ASSUME NEW e \in VKClocks, VKWithin(c, d), VKWithin(d, e) PROVE VKWithin(c, e)
  <2>1. \A t : VKOf(e, t) \in Nat
    BY VKClockIs
  <2>2. QED BY <1>1, <1>2, <2>1 DEF VKWithin
<1>3. VKWithin(c, c)
  BY <1>1 DEF VKWithin
<1>4. QED BY <1>2, <1>3

-----------------------------------------------------------------------------
(* The properties. *)

LEMMA VKInvCausal == VKInv => VKCausal
<1> SUFFICES ASSUME VKInv, NEW e \in vkSent, NEW f \in vkSent
             PROVE  /\ VKCompare(e.clock, f.clock) = "after" <=> f.known \subseteq e.known /\ f.known # e.known
                    /\ VKCompare(e.clock, f.clock) = "before" <=> e.known \subseteq f.known /\ f.known # e.known
  BY DEF VKCausal
<1>1. e.clock \in VKClocks /\ f.clock \in VKClocks /\ e.known = VKTold(e.clock) /\ f.known = VKTold(f.clock)
  BY DEF VKInv, VKEntriesOf
<1>2. /\ e.known \subseteq f.known <=> VKWithin(e.clock, f.clock)
      /\ f.known \subseteq e.known <=> VKWithin(f.clock, e.clock)
  BY <1>1, VKToldWithin
<1>3. QED BY <1>1, <1>2, VKCompareIs

\* One entry is left rather than another by server id.
VKBeats(e, f) ==
  \/ VKWithin(f.clock, e.clock) /\ ~VKWithin(e.clock, f.clock)
  \/ (VKWithin(f.clock, e.clock) <=> VKWithin(e.clock, f.clock)) /\ e.server_id < f.server_id

LEMMA VKEntryIs ==
  ASSUME VKInv, NEW e \in vkSent
  PROVE  /\ e.clock \in VKClocks /\ e.server_id \in VKServers /\ e.server_id \in Nat
         /\ e.timestamp \in Nat /\ e.timestamp # 0 /\ e.known = VKTold(e.clock)
BY VKAssumption DEF VKInv, VKEntriesOf, VKAssumption

\* Of the entries of one server one is strictly within the other.
LEMMA VKOneServer ==
  ASSUME VKInv, NEW e \in vkSent, NEW f \in vkSent, e.server_id = f.server_id, e # f
  PROVE  VKWithin(f.clock, e.clock) <=> ~VKWithin(e.clock, f.clock)
<1>1. e.clock \in VKClocks /\ f.clock \in VKClocks /\ e.server_id \in VKServers
  BY VKEntryIs
<1>2. \A t : VKOf(e.clock, t) \in Nat /\ VKOf(f.clock, t) \in Nat
  BY <1>1, VKClockIs
<1>3. \/ VKWithin(e.clock, f.clock) /\ VKOf(e.clock, e.server_id) < VKOf(f.clock, e.server_id)
      \/ VKWithin(f.clock, e.clock) /\ VKOf(f.clock, e.server_id) < VKOf(e.clock, e.server_id)
  BY DEF VKInv
<1>4. QED BY <1>1, <1>2, <1>3 DEF VKWithin

LEMMA VKWins ==
  ASSUME VKInv, NEW e \in vkSent, NEW f \in vkSent
  PROVE  /\ VKResolve(e, f, "server_id_priority") = IF VKBeats(e, f) THEN e ELSE f
         /\ e # f => (VKBeats(e, f) <=> ~VKBeats(f, e))
<1>1. /\ e.clock \in VKClocks /\ f.clock \in VKClocks
      /\ e.server_id \in Nat /\ f.server_id \in Nat
  BY VKEntryIs
<1>2. VKLocalWins(e, f, "server_id_priority") = (e.server_id < f.server_id)
  BY DEF VKLocalWins
<1>3. VKResolve(e, f, "server_id_priority") = IF VKBeats(e, f) THEN e ELSE f
  BY <1>1, <1>2, VKCompareIs DEF VKResolve, VKBeats
<1>4. ASSUME e # f PROVE VKBeats(e, f) <=> ~VKBeats(f, e)
  <2>1. CASE e.server_id = f.server_id
    BY <1>1, <1>4, <2>1, VKOneServer DEF VKBeats
  <2>2. CASE e.server_id # f.server_id
    BY <1>1, <2>2 DEF VKBeats
  <2>3. QED BY <2>1, <2>2
<1>5. QED BY <1>3, <1>4

LEMMA VKInvAgree == VKInv => VKAgree
<1> SUFFICES ASSUME VKInv, NEW e \in vkSent, NEW f \in vkSent
             PROVE  /\ VKResolve(e, f, "server_id_priority") = VKResolve(f, e, "server_id_priority")
                    /\ e.timestamp # f.timestamp =>
                         VKResolve(e, f, "last_write_wins") = VKResolve(f, e, "last_write_wins")
  BY DEF VKAgree
<1>1. VKResolve(e, f, "server_id_priority") = VKResolve(f, e, "server_id_priority")
  BY VKWins
<1>2. ASSUME e.timestamp # f.timestamp
      PROVE  VKResolve(e, f, "last_write_wins") = VKResolve(f, e, "last_write_wins")
  <2>1. e.clock \in VKClocks /\ f.clock \in VKClocks /\ e.timestamp \in Nat /\ f.timestamp \in Nat
    BY VKEntryIs
  <2>2. VKLocalWins(e, f, "last_write_wins") <=> ~VKLocalWins(f, e, "last_write_wins")
    BY <1>2, <2>1 DEF VKLocalWins
  <2>3. /\ VKCompare(e.clock, f.clock) = "after" <=> VKCompare(f.clock, e.clock) = "before"
        /\ VKCompare(f.clock, e.clock) = "after" <=> VKCompare(e.clock, f.clock) = "before"
        /\ VKCompare(e.clock, f.clock) = "concurrent" <=> VKCompare(f.clock, e.clock) = "concurrent"
        /\ VKCompare(e.clock, f.clock) \in {"after", "before", "concurrent"}
    BY <2>1, VKCompareIs DEF VKCompare
  <2>4. QED BY <2>2, <2>3 DEF VKResolve
<1>3. QED BY <1>1, <1>2

\* Of two servers' entries none is left rather than a second, that rather than a third, and the
\* third rather than the first.
LEMMA VKNoCycle ==
  ASSUME VKInv, NEW e \in vkSent, NEW f \in vkSent, NEW g \in vkSent,
         e.server_id = f.server_id, e # f, f # g, g # e, VKBeats(e, f)
  PROVE  ~(VKBeats(f, g) /\ VKBeats(g, e))
<1>1. e.clock \in VKClocks /\ f.clock \in VKClocks /\ g.clock \in VKClocks
  BY VKEntryIs
<1>2. /\ e.server_id \in Nat /\ f.server_id \in Nat /\ g.server_id \in Nat
  BY VKEntryIs
<1>3. VKWithin(f.clock, e.clock) /\ ~VKWithin(e.clock, f.clock)
  BY <1>2, VKOneServer DEF VKBeats
<1>4. /\ VKWithin(g.clock, f.clock) => VKWithin(g.clock, e.clock)
      /\ VKWithin(e.clock, g.clock) => VKWithin(f.clock, g.clock)
  BY <1>1, <1>3, VKWithinOrder
<1>5. QED BY <1>2, <1>3, <1>4 DEF VKBeats

LEMMA VKInvSettles == VKInv => VKSettles
<1> SUFFICES ASSUME VKInv, NEW e \in vkSent, NEW f \in vkSent, NEW g \in vkSent,
                    Cardinality({e.server_id, f.server_id, g.server_id}) <= 2
             PROVE  VKResolve(VKResolve(e, f, "server_id_priority"), g, "server_id_priority")
                      = VKResolve(VKResolve(g, e, "server_id_priority"), f, "server_id_priority")
  BY DEF VKSettles
<1> DEFINE ids == {e.server_id, f.server_id, g.server_id}
<1>1. e.server_id = f.server_id \/ f.server_id = g.server_id \/ g.server_id = e.server_id
  <2>1. SUFFICES ASSUME e.server_id # f.server_id, f.server_id # g.server_id, g.server_id # e.server_id PROVE FALSE
    OBVIOUS
  <2>2. Cardinality({e.server_id}) = 1 /\ IsFiniteSet({e.server_id})
    BY FS_Singleton
  <2>3. /\ Cardinality({e.server_id} \cup {f.server_id}) = 2
        /\ IsFiniteSet({e.server_id} \cup {f.server_id})
    <3>1. f.server_id \notin {e.server_id}
      BY <2>1
    <3>2. QED BY <3>1, <2>2, FS_AddElement, 1 + 1 = 2
  <2>4. Cardinality(({e.server_id} \cup {f.server_id}) \cup {g.server_id}) = 3
    BY <2>1, <2>3, FS_AddElement
  <2>5. ({e.server_id} \cup {f.server_id}) \cup {g.server_id} = ids
    OBVIOUS
  <2>6. QED BY <2>4, <2>5
<1>2. CASE e = f \/ f = g \/ g = e
  BY <1>2, VKWins
<1>3. CASE e # f /\ f # g /\ g # e
  <2>1. /\ ~(VKBeats(e, f) /\ VKBeats(f, g) /\ VKBeats(g, e))
        /\ ~(VKBeats(f, e) /\ VKBeats(e, g) /\ VKBeats(g, f))
    BY <1>1, <1>3, VKNoCycle
  <2>2. /\ VKBeats(e, f) <=> ~VKBeats(f, e)
        /\ VKBeats(f, g) <=> ~VKBeats(g, f)
        /\ VKBeats(g, e) <=> ~VKBeats(e, g)
    BY <1>3, VKWins
  <2>3. QED BY <2>1, <2>2, VKWins
<1>4. QED BY <1>2, <1>3

LEMMA VKInvSkips == VKInv => VKSkipsOld
<1> SUFFICES ASSUME VKInv, NEW row \in vkSent, NEW e \in vkSent,
                    NEW strategy \in {"last_write_wins", "server_id_priority", "none"}
             PROVE  VKSkips(row, e, strategy) <=> e.known \subseteq row.known /\ e.known # row.known
  BY DEF VKSkipsOld
<1>1. e.timestamp # 0
  BY VKEntryIs
<1>2. VKCompare(row.clock, e.clock) = "after" <=> e.known \subseteq row.known /\ e.known # row.known
  BY VKInvCausal DEF VKCausal
<1>3. VKConflict(row).clock = row.clock /\ VKConflict(row).timestamp = 0
  BY DEF VKConflict
<1>4. VKConflict(row) # e
  BY <1>1, <1>3
<1>5. ASSUME VKCompare(row.clock, e.clock) = "after"
      PROVE  VKResolve(VKConflict(row), e, strategy) = VKConflict(row)
  BY <1>3, <1>5 DEF VKResolve
<1>6. QED BY <1>2, <1>4, <1>5 DEF VKSkips, VKConflicts

-----------------------------------------------------------------------------
(* The steps. *)

LEMMA VKInitInv == VKInit => VKInv
<1> SUFFICES ASSUME VKInit PROVE VKInv
  OBVIOUS
<1>1. vkClock = [s \in VKServers |-> [t \in {s} |-> 0]] /\ vkSent = {} /\ vkKnown = [s \in VKServers |-> {}]
  BY DEF VKInit
<1>2. ASSUME NEW s \in VKServers
      PROVE  vkClock[s] \in VKClocks /\ s \in DOMAIN vkClock[s] /\ VKTold(vkClock[s]) = {}
  <2>1. vkClock[s] \in [{s} -> Nat] /\ DOMAIN vkClock[s] = {s} /\ \A t : VKOf(vkClock[s], t) = 0
    BY <1>1 DEF VKOf
  <2>2. vkClock[s] \in VKClocks
    BY <2>1 DEF VKClocks
  <2>3. QED BY <2>1, <2>2 DEF VKTold
<1>3. vkClock \in [VKServers -> VKClocks] /\ vkKnown = [s \in VKServers |-> VKTold(vkClock[s])]
  BY <1>1, <1>2
<1>4. QED BY <1>1, <1>2, <1>3 DEF VKInv

\* A server's clock grows, and it knows what the clock tells of.
LEMMA VKGrows ==
  ASSUME VKInv, NEW s \in VKServers, NEW c \in VKClocks, VKWithin(vkClock[s], c), s \in DOMAIN c,
         vkClock' = [vkClock EXCEPT ![s] = c], vkKnown' = [vkKnown EXCEPT ![s] = VKTold(c)]
  PROVE  /\ vkClock' \in [VKServers -> VKClocks] /\ vkKnown' = [t \in VKServers |-> VKTold(vkClock'[t])]
         /\ \A t \in VKServers : t \in DOMAIN vkClock'[t]
         /\ \A e \in vkSent : VKWithin(e.clock, vkClock'[e.server_id])
<1>1. vkClock \in [VKServers -> VKClocks] /\ vkKnown = [t \in VKServers |-> VKTold(vkClock[t])]
  BY DEF VKInv
<1>2. vkClock' \in [VKServers -> VKClocks] /\ vkClock'[s] = c /\ \A t \in VKServers \ {s} : vkClock'[t] = vkClock[t]
  BY <1>1
<1>3. vkKnown' = [t \in VKServers |-> VKTold(vkClock'[t])]
  <2>1. vkKnown' = [t \in VKServers |-> IF t = s THEN VKTold(c) ELSE VKTold(vkClock[t])]
    BY <1>1
  <2>2. QED BY <1>2, <2>1
<1>4. \A t \in VKServers : t \in DOMAIN vkClock'[t]
  BY <1>2 DEF VKInv
<1>5. ASSUME NEW e \in vkSent PROVE VKWithin(e.clock, vkClock'[e.server_id])
  <2>1. e.clock \in VKClocks /\ e.server_id \in VKServers /\ VKWithin(e.clock, vkClock[e.server_id])
    BY VKEntryIs DEF VKInv
  <2>2. CASE e.server_id = s
    BY <1>1, <1>2, <2>1, <2>2, VKWithinOrder
  <2>3. CASE e.server_id # s
    BY <1>2, <2>1, <2>3
  <2>4. QED BY <2>2, <2>3
<1>6. QED BY <1>2, <1>3, <1>4, <1>5

LEMMA VKWriteInv ==
  ASSUME VKInv, NEW s \in VKServers, VKWrite(s)
  PROVE  VKInv'
<1> DEFINE c == [vkClock[s] EXCEPT ![s] = @ + 1]
<1>1. /\ vkClock \in [VKServers -> VKClocks] /\ vkClock[s] \in VKClocks /\ s \in DOMAIN vkClock[s]
      /\ vkKnown = [t \in VKServers |-> VKTold(vkClock[t])]
  BY DEF VKInv
<1>2. PICK S \in SUBSET VKServers : vkClock[s] \in [S -> Nat]
  BY <1>1 DEF VKClocks
<1>3. s \in S /\ c \in [S -> Nat] /\ c[s] = vkClock[s][s] + 1 /\ vkClock[s][s] \in Nat
      /\ \A t \in S \ {s} : c[t] = vkClock[s][t]
  BY <1>1, <1>2
<1>4. c \in VKClocks /\ s \in DOMAIN c
  BY <1>3 DEF VKClocks
<1>5. /\ VKOf(c, s) = VKOf(vkClock[s], s) + 1 /\ VKOf(vkClock[s], s) = vkClock[s][s]
      /\ \A t \in VKServers \ {s} : VKOf(c, t) = VKOf(vkClock[s], t)
  BY <1>2, <1>3 DEF VKOf
<1>6. /\ vkClock' = [vkClock EXCEPT ![s] = c]
      /\ vkKnown' = [vkKnown EXCEPT ![s] = @ \cup {<<s, vkClock[s][s] + 1>>}]
  BY <1>1 DEF VKWrite
<1> HIDE DEF c
<1>7. VKWithin(vkClock[s], c)
  BY <1>1, <1>3, <1>5, VKClockIs DEF VKWithin
<1>8. VKTold(c) = VKTold(vkClock[s]) \cup {<<s, vkClock[s][s] + 1>>}
  <2>1. ASSUME NEW p \in VKServers \X Nat
        PROVE  p \in VKTold(c) <=> p \in VKTold(vkClock[s]) \/ p = <<s, vkClock[s][s] + 1>>
    <3>1. p = <<p[1], p[2]>> /\ p[1] \in VKServers /\ p[2] \in Nat
      OBVIOUS
    <3>2. CASE p[1] = s
      BY <1>3, <1>5, <3>1, <3>2 DEF VKTold
    <3>3. CASE p[1] # s
      BY <1>5, <3>1, <3>3 DEF VKTold
    <3>4. QED BY <3>2, <3>3
  <2>2. VKTold(c) \subseteq VKServers \X Nat /\ VKTold(vkClock[s]) \subseteq VKServers \X Nat
        /\ <<s, vkClock[s][s] + 1>> \in VKServers \X Nat
    BY <1>3 DEF VKTold
  <2>3. QED BY <2>1, <2>2
<1>9. vkKnown' = [vkKnown EXCEPT ![s] = VKTold(c)]
  BY <1>1, <1>6, <1>8
<1>10. /\ vkClock' \in [VKServers -> VKClocks] /\ vkKnown' = [t \in VKServers |-> VKTold(vkClock'[t])]
       /\ \A t \in VKServers : t \in DOMAIN vkClock'[t]
       /\ \A e \in vkSent : VKWithin(e.clock, vkClock'[e.server_id])
  BY <1>4, <1>6, <1>7, <1>9, VKGrows
<1>11. vkClock'[s] = c /\ vkKnown'[s] = VKTold(c)
  BY <1>1, <1>6, <1>10
<1>12. PICK time \in VKStamps :
         vkSent' = vkSent \cup {[server_id |-> s, clock |-> c, timestamp |-> time, known |-> VKTold(c)]}
  BY <1>11 DEF VKWrite
<1> DEFINE new == [server_id |-> s, clock |-> c, timestamp |-> time, known |-> VKTold(c)]
<1>13. new \in VKEntriesOf /\ new.server_id = s /\ new.clock = c /\ new.known = VKTold(c)
  <2>1. VKTold(c) \in SUBSET (VKServers \X Nat)
    BY DEF VKTold
  <2>2. QED BY <1>4, <2>1 DEF VKEntriesOf
<1> HIDE DEF new
<1>14. vkSent' = vkSent \cup {new} /\ vkSent \subseteq VKEntriesOf
  BY <1>12 DEF new, VKInv
<1>15. VKWithin(c, vkClock'[s])
  BY <1>4, <1>11, VKWithinOrder
<1>16. ASSUME NEW e \in vkSent, e.server_id = s
       PROVE  VKWithin(e.clock, c) /\ VKOf(e.clock, s) < VKOf(c, s)
  <2>1. e.clock \in VKClocks /\ VKWithin(e.clock, vkClock[s])
    BY <1>16, VKEntryIs DEF VKInv
  <2>2. VKWithin(e.clock, c)
    BY <1>1, <1>4, <1>7, <2>1, VKWithinOrder
  <2>3. VKOf(e.clock, s) <= VKOf(vkClock[s], s) /\ VKOf(e.clock, s) \in Nat /\ VKOf(vkClock[s], s) \in Nat
    BY <1>1, <2>1, VKClockIs DEF VKWithin
  <2>4. QED BY <1>5, <2>2, <2>3
<1>17. \A e \in vkSent' : e.known = VKTold(e.clock) /\ VKWithin(e.clock, vkClock'[e.server_id])
  BY <1>10, <1>13, <1>14, <1>15 DEF VKInv
<1>18. ASSUME NEW e \in vkSent', NEW f \in vkSent', e.server_id = f.server_id
       PROVE  \/ e = f
              \/ VKWithin(e.clock, f.clock) /\ VKOf(e.clock, e.server_id) < VKOf(f.clock, e.server_id)
              \/ VKWithin(f.clock, e.clock) /\ VKOf(f.clock, e.server_id) < VKOf(e.clock, e.server_id)
  <2>1. CASE e \in vkSent /\ f \in vkSent
    BY <1>18, <2>1 DEF VKInv
  <2>2. CASE e = new /\ f \in vkSent
    BY <1>13, <1>16, <1>18, <2>2
  <2>3. CASE f = new /\ e \in vkSent
    BY <1>13, <1>16, <1>18, <2>3
  <2>4. QED BY <1>14, <2>1, <2>2, <2>3
<1>19. QED BY <1>10, <1>13, <1>14, <1>17, <1>18 DEF VKInv

LEMMA VKReceiveInv ==
  ASSUME VKInv, NEW s \in VKServers, NEW e \in vkSent, VKReceive(s, e)
  PROVE  VKInv'
<1> DEFINE c == VKMerged(vkClock[s], e.clock)
<1>1. /\ vkClock \in [VKServers -> VKClocks] /\ vkClock[s] \in VKClocks /\ s \in DOMAIN vkClock[s]
      /\ vkKnown = [t \in VKServers |-> VKTold(vkClock[t])] /\ e.clock \in VKClocks /\ e.known = VKTold(e.clock)
  BY VKEntryIs DEF VKInv
<1>2. vkClock' = [vkClock EXCEPT ![s] = c] /\ vkKnown' = [vkKnown EXCEPT ![s] = @ \cup e.known] /\ vkSent' = vkSent
  BY DEF VKReceive
<1>3. /\ DOMAIN vkClock[s] \subseteq VKServers /\ DOMAIN e.clock \subseteq VKServers
      /\ \A t : VKOf(vkClock[s], t) \in Nat /\ VKOf(e.clock, t) \in Nat
      /\ \A t \in VKServers \ DOMAIN vkClock[s] : VKOf(vkClock[s], t) = 0
      /\ \A t \in VKServers \ DOMAIN e.clock : VKOf(e.clock, t) = 0
  BY <1>1, VKClockIs
<1>4. /\ DOMAIN c = DOMAIN vkClock[s] \cup DOMAIN e.clock
      /\ \A t \in DOMAIN c : c[t] = IF VKOf(e.clock, t) > VKOf(vkClock[s], t) THEN VKOf(e.clock, t) ELSE VKOf(vkClock[s], t)
  BY <1>3 DEF VKMerged, VKOf
<1>5. c \in VKClocks /\ s \in DOMAIN c
  <2>1. c = [t \in DOMAIN vkClock[s] \cup DOMAIN e.clock |-> c[t]] /\ DOMAIN c \in SUBSET VKServers
    BY <1>3, <1>4 DEF VKMerged
  <2>2. \A t \in DOMAIN c : c[t] \in Nat
    BY <1>3, <1>4
  <2> HIDE DEF c
  <2>3. c \in [DOMAIN c -> Nat]
    BY <1>4, <2>1, <2>2
  <2>4. QED BY <1>1, <1>4, <2>1, <2>3 DEF VKClocks
<1> HIDE DEF c
<1>6. \A t \in VKServers :
        VKOf(c, t) = IF VKOf(e.clock, t) > VKOf(vkClock[s], t) THEN VKOf(e.clock, t) ELSE VKOf(vkClock[s], t)
  <2> TAKE t \in VKServers
  <2>1. CASE t \in DOMAIN c
    BY <1>4, <2>1 DEF VKOf
  <2>2. CASE t \notin DOMAIN c
    <3>1. VKOf(c, t) = 0 /\ VKOf(e.clock, t) = 0 /\ VKOf(vkClock[s], t) = 0
      BY <1>3, <1>4, <2>2 DEF VKOf
    <3>2. QED BY <3>1
  <2>3. QED BY <2>1, <2>2
<1>7. VKWithin(vkClock[s], c)
  BY <1>3, <1>6 DEF VKWithin
<1>8. VKTold(c) = VKTold(vkClock[s]) \cup VKTold(e.clock)
  <2>1. ASSUME NEW p \in VKServers \X Nat
        PROVE  p \in VKTold(c) <=> p \in VKTold(vkClock[s]) \/ p \in VKTold(e.clock)
    <3>1. p[1] \in VKServers /\ p[2] \in Nat
      OBVIOUS
    <3>2. QED BY <1>3, <1>6, <3>1 DEF VKTold
  <2>2. VKTold(c) \subseteq VKServers \X Nat /\ VKTold(vkClock[s]) \subseteq VKServers \X Nat
        /\ VKTold(e.clock) \subseteq VKServers \X Nat
    BY DEF VKTold
  <2>3. QED BY <2>1, <2>2
<1>9. vkKnown' = [vkKnown EXCEPT ![s] = VKTold(c)]
  BY <1>1, <1>2, <1>8
<1>10. /\ vkClock' \in [VKServers -> VKClocks] /\ vkKnown' = [t \in VKServers |-> VKTold(vkClock'[t])]
       /\ \A t \in VKServers : t \in DOMAIN vkClock'[t]
       /\ \A f \in vkSent : VKWithin(f.clock, vkClock'[f.server_id])
  BY <1>2, <1>5, <1>7, <1>9, VKGrows
<1>11. QED BY <1>2, <1>10 DEF VKInv

LEMMA VKNextInv == VKInv /\ [VKNext]_vkVars => VKInv'
<1>1. ASSUME VKInv, VKNext PROVE VKInv'
  BY <1>1, VKWriteInv, VKReceiveInv DEF VKNext
<1>2. ASSUME VKInv, UNCHANGED vkVars PROVE VKInv'
  BY <1>2 DEF vkVars, VKInv
<1>3. QED BY <1>1, <1>2
=============================================================================
