------------------------------ MODULE Tenants -------------------------------
(***************************************************************************)
(* Tenants: their quotas (multitenant.py) and their batches                *)
(* (batch_multitenant.py).                                                 *)
(***************************************************************************)
EXTENDS Naturals, Sequences, FiniteSets

(***************************************************************************)
(* multitenant.py: a tenant that is created, dropped and created again,    *)
(* threads that enter its context with a connection and leave it, and that *)
(* check the rate of its queries before they record one.  A thread keeps   *)
(* the Tenant object it found, which may have been dropped since.          *)
(***************************************************************************)

CONSTANTS
  TQThreads,
  TQConnection, \* of each thread: the id of its connection, which two may share
  TQLimits,     \* what max_connections may be set to
  TQRate,       \* queries_per_minute
  TQWindow,     \* the minute, in ticks
  TQTime,       \* bound: ticks
  TQObjects     \* bound: times the tenant is created

ASSUME TQAssumption ==
  /\ TQThreads # {} /\ IsFiniteSet(TQThreads)
  /\ TQLimits \subseteq Nat /\ {TQRate, TQWindow, TQTime, TQObjects} \subseteq Nat

VARIABLES
  tqTenant,  \* the object registered under the tenant's id, or 0
  tqObjects, \* the Tenant objects: [connections, limit, stamps]
  tqThread,  \* of each thread: its step in the context, its object, and whether a query was allowed
  tqNow,
  tqMost,    \* history: of each object: the largest limit it had
  tqAsked,   \* history: of each object: the times of all its queries
  tqCut      \* history: <<object, connection>> where one of two threads with it has left

tqVars == <<tqTenant, tqObjects, tqThread, tqNow, tqMost, tqAsked, tqCut>>

TQInit ==
  /\ tqTenant = 0 /\ tqObjects = <<>> /\ tqNow = 0
  /\ tqThread = [t \in TQThreads |-> [at |-> "out", object |-> 0, allowed |-> FALSE]]
  /\ tqMost = <<>> /\ tqAsked = <<>> /\ tqCut = {}

-----------------------------------------------------------------------------
(* The manager and its commands. *)

TQCreate(limit) ==
  /\ tqTenant = 0 /\ Len(tqObjects) < TQObjects
  /\ tqObjects' = Append(tqObjects, [connections |-> {}, limit |-> limit, stamps |-> <<>>])
  /\ tqTenant' = Len(tqObjects') /\ tqMost' = Append(tqMost, limit) /\ tqAsked' = Append(tqAsked, <<>>)
  /\ UNCHANGED <<tqThread, tqNow, tqCut>>

\* drop_tenant: its connections are removed; who holds the object goes on with it.
TQDrop ==
  /\ tqTenant # 0 /\ tqTenant' = 0
  /\ tqObjects' = [tqObjects EXCEPT ![tqTenant].connections = {}]
  /\ UNCHANGED <<tqThread, tqNow, tqMost, tqAsked, tqCut>>

\* SetTenantQuotaCommand, also below what is in use.
TQSetLimit(limit) ==
  /\ tqTenant # 0 /\ tqObjects' = [tqObjects EXCEPT ![tqTenant].limit = limit]
  /\ tqMost' = [tqMost EXCEPT ![tqTenant] = IF limit > @ THEN limit ELSE @]
  /\ UNCHANGED <<tqTenant, tqThread, tqNow, tqAsked, tqCut>>

TQTick == tqNow < TQTime /\ tqNow' = tqNow + 1 /\ UNCHANGED <<tqTenant, tqObjects, tqThread, tqMost, tqAsked, tqCut>>

-----------------------------------------------------------------------------
(* TenantContext. *)

TQFind(t) ==
  /\ tqThread[t].at = "out" /\ tqTenant # 0
  /\ tqThread' = [tqThread EXCEPT ![t] = [at |-> "found", object |-> tqTenant, allowed |-> FALSE]]
  /\ UNCHANGED <<tqTenant, tqObjects, tqNow, tqMost, tqAsked, tqCut>>

\* Mutant of TQRoom: one connection more.
TQRoomMore(o) == Cardinality(tqObjects[o].connections) <= tqObjects[o].limit

TQRoom(o) == Cardinality(tqObjects[o].connections) < tqObjects[o].limit

\* add_connection: a thread that finds no room gets an exception.
TQEnter(t) ==
  LET o == tqThread[t].object
  IN  /\ tqThread[t].at = "found"
      /\ IF TQRoom(o)
         THEN /\ tqObjects' = [tqObjects EXCEPT ![o].connections = @ \cup {TQConnection[t]}]
              /\ tqThread' = [tqThread EXCEPT ![t].at = "in"]
              /\ tqCut' = tqCut \ {<<o, TQConnection[t]>>}
         ELSE tqThread' = [tqThread EXCEPT ![t].at = "out"] /\ UNCHANGED <<tqObjects, tqCut>>
      /\ UNCHANGED <<tqTenant, tqNow, tqMost, tqAsked>>

\* Mutant of TQReleases: only the tenant that is registered is told.
TQReleasesRegistered(o) == o = tqTenant

TQReleases(o) == o # 0

\* __exit__: the connection goes, also when another thread came in with its id.
TQExit(t) ==
  LET o == tqThread[t].object
  IN  /\ tqThread[t].at = "in"
      /\ tqObjects' = IF TQReleases(o) THEN [tqObjects EXCEPT ![o].connections = @ \ {TQConnection[t]}] ELSE tqObjects
      /\ tqThread' = [tqThread EXCEPT ![t] = [at |-> "out", object |-> 0, allowed |-> FALSE]]
      /\ tqCut' = tqCut \cup {<<o, TQConnection[u]>> : u \in {v \in TQThreads \ {t} :
                    tqThread[v].at = "in" /\ tqThread[v].object = o /\ TQConnection[v] = TQConnection[t]}}
      /\ UNCHANGED <<tqTenant, tqNow, tqMost, tqAsked>>

-----------------------------------------------------------------------------
(* The rate of queries. *)

\* Mutant of TQExpired: all but the last tick.
TQExpiredBefore(stamps) == {i \in DOMAIN stamps : stamps[i] < tqNow}

TQExpired(stamps) == {i \in DOMAIN stamps : stamps[i] + TQWindow <= tqNow}

\* _cleanup_old_queries; the stamps ascend.
TQRecent(stamps) == SubSeq(stamps, Cardinality(TQExpired(stamps)) + 1, Len(stamps))

\* check_quota for one query.
TQCheck(t) ==
  LET o == tqThread[t].object
      recent == TQRecent(tqObjects[o].stamps)
  IN  /\ tqThread[t].at = "in" /\ ~tqThread[t].allowed
      /\ tqObjects' = [tqObjects EXCEPT ![o].stamps = recent]
      /\ Len(recent) + 1 <= TQRate
      /\ tqThread' = [tqThread EXCEPT ![t].allowed = TRUE]
      /\ UNCHANGED <<tqTenant, tqNow, tqMost, tqAsked, tqCut>>

\* record_query.
TQRecord(t) ==
  LET o == tqThread[t].object
  IN  /\ tqThread[t].allowed
      /\ tqObjects' = [tqObjects EXCEPT ![o].stamps = Append(TQRecent(@), tqNow)]
      /\ tqAsked' = [tqAsked EXCEPT ![o] = Append(@, tqNow)]
      /\ tqThread' = [tqThread EXCEPT ![t].allowed = FALSE]
      /\ UNCHANGED <<tqTenant, tqNow, tqMost, tqCut>>

TQNext ==
  \/ \E limit \in TQLimits : TQCreate(limit) \/ TQSetLimit(limit)
  \/ TQDrop \/ TQTick
  \/ \E t \in TQThreads : TQFind(t) \/ TQEnter(t) \/ TQExit(t) \/ TQCheck(t) \/ TQRecord(t)

-----------------------------------------------------------------------------
(* Properties. *)

\* Every variable has its type, and no tenant has more connections than the most it was allowed.
TQTypeOK ==
  /\ tqTenant \in 0..Len(tqObjects) /\ tqNow \in 0..TQTime
  /\ \A o \in DOMAIN tqObjects : /\ tqObjects[o].limit \in TQLimits
                                 /\ Cardinality(tqObjects[o].connections) <= tqMost[o]
  /\ \A t \in TQThreads : tqThread[t].at \in {"out", "found", "in"} /\ tqThread[t].object \in 0..Len(tqObjects)

\* A connection is counted only while a thread is in the context with it, of a dropped tenant too;
\* and while one is, it is counted, unless the tenant was dropped, or another thread with the
\* same connection has left.
TQBalanced ==
  \A o \in DOMAIN tqObjects :
    LET inside == {TQConnection[t] : t \in {u \in TQThreads : tqThread[u].at = "in" /\ tqThread[u].object = o}}
    IN  /\ tqObjects[o].connections \subseteq inside
        /\ o = tqTenant => \A c \in inside : c \in tqObjects[o].connections \/ <<o, c>> \in tqCut

\* The queries of the window that ends at n.
TQWithin(stamps, n) == {i \in DOMAIN stamps : stamps[i] <= n /\ stamps[i] + TQWindow > n}

\* In no window there are more queries than the rate and one less than the threads: those that
\* had checked when the last one that fits was recorded.
TQRateKept ==
  \A o \in DOMAIN tqAsked : \A n \in 0..tqNow :
    Cardinality(TQWithin(tqAsked[o], n)) <= TQRate + Cardinality(TQThreads) - 1

-----------------------------------------------------------------------------
(***************************************************************************)
(* batch_multitenant.py: batches that may touch one tenant only, verified  *)
(* command by command, held against the tenant's rate and executed.  The   *)
(* verifier, which other threads use at the same time, keeps the tenant in *)
(* effect in itself.  A command uses a tenant, names one, or neither.      *)
(***************************************************************************)

CONSTANTS
  TBTenants,
  TBSystem,    \* the tenant "system", which a batch without a tenant is held against
  TBNone,
  TBLength,    \* bound: commands of a batch
  TBAllowance  \* the commands check_quota lets through; what a batch ran is never recorded

ASSUME TBAssumption == TBLength \in Nat /\ TBAllowance \in Nat /\ TBNone \notin TBTenants

VARIABLES
  tbCurrent, \* _current_tenant of the verifier
  tbBatch    \* a batch: its step, commands and initial tenant, how many were looked at or run,
             \* the tenants found, the tenant in effect, and history: whether another batch
             \* changed _current_tenant meanwhile

tbVars == <<tbCurrent, tbBatch>>

TBCommands == [kind : {"use", "name"}, tenant : TBTenants] \cup [kind : {"plain"}, tenant : {TBNone}]

TBIdle == [at |-> "idle", commands |-> <<>>, first |-> TBNone, done |-> 0, found |-> {}, tenant |-> TBNone, mixed |-> FALSE]

TBInit == tbCurrent = TBNone /\ tbBatch = TBIdle

\* The verification of another batch begins, or comes upon a USE.
TBOther(tenant) ==
  /\ tbCurrent' = tenant
  /\ tbBatch' = [tbBatch EXCEPT !.mixed = (@ \/ tbBatch.at = "verifying")]

\* verify_batch begins.
TBBegin(commands, first) ==
  /\ tbBatch.at = "idle"
  /\ tbCurrent' = first
  /\ tbBatch' = [TBIdle EXCEPT !.at = "verifying", !.commands = commands, !.first = first, !.tenant = first]

\* Mutant of TBTarget: a tenant that is named is not looked for.
TBTargetUsed(command) == IF command.kind = "use" THEN command.tenant ELSE tbCurrent

\* _extract_target_tenant.
TBTarget(command) == IF command.kind = "plain" THEN tbCurrent ELSE command.tenant

TBNow == tbBatch.commands[tbBatch.done + 1]

TBLook ==
  /\ tbBatch.at = "verifying" /\ tbBatch.done < Len(tbBatch.commands)
  /\ tbCurrent' = IF TBNow.kind = "use" THEN TBNow.tenant ELSE tbCurrent
  /\ tbBatch' = [tbBatch EXCEPT !.done = @ + 1, !.found = @ \cup ({TBTarget(TBNow)} \ {TBNone})]

\* Mutant of TBOneTenant: the tenant the batch began with may come along.
TBOneTenantMore(found, first) == Cardinality(found \ {first}) <= 1

TBOneTenant(found, first) == Cardinality(found) <= 1

\* The verdict, and the rate of the one tenant, or of the system, which need not exist.
TBJudge ==
  LET tenant  == IF tbBatch.found # {} THEN CHOOSE x \in tbBatch.found : TRUE
                 ELSE IF tbBatch.first # TBNone THEN tbBatch.first ELSE TBSystem
      allowed == tenant \in TBTenants /\ Len(tbBatch.commands) <= TBAllowance
  IN  /\ tbBatch.at = "verifying" /\ tbBatch.done = Len(tbBatch.commands)
      /\ tbBatch' = [tbBatch EXCEPT !.done = 0,
                       !.at = IF TBOneTenant(tbBatch.found, tbBatch.first) /\ allowed THEN "running" ELSE "refused"]
      /\ UNCHANGED tbCurrent

\* Mutant of TBSwitches: a batch may go over to another tenant.
TBSwitchesNot(command) == FALSE

\* A command that uses another tenant than the one in effect ends the batch, after those before it.
TBSwitches(command) == command.kind = "use" /\ tbBatch.tenant # TBNone /\ command.tenant # tbBatch.tenant

\* Mutant of TBTenantAfter: the verifier's tenant.
TBTenantAfterCurrent(command) == tbCurrent

TBTenantAfter(command) == IF command.kind = "use" THEN command.tenant ELSE tbBatch.tenant

\* The command is executed, or raises, which is noted and the next one taken.
TBRun ==
  /\ tbBatch.at = "running" /\ tbBatch.done < Len(tbBatch.commands)
  /\ tbBatch' = IF TBSwitches(TBNow) THEN [tbBatch EXCEPT !.at = "stopped"]
                ELSE [tbBatch EXCEPT !.done = @ + 1, !.tenant = TBTenantAfter(TBNow)]
  /\ UNCHANGED tbCurrent

TBReturn ==
  /\ tbBatch.at \in {"refused", "stopped"} \/ (tbBatch.at = "running" /\ tbBatch.done = Len(tbBatch.commands))
  /\ tbBatch' = TBIdle /\ UNCHANGED tbCurrent

TBNext ==
  \/ \E tenant \in TBTenants \cup {TBNone} : TBOther(tenant)
  \/ \E commands \in UNION {[1..n -> TBCommands] : n \in 1..TBLength}, first \in TBTenants \cup {TBNone} :
       TBBegin(commands, first)
  \/ TBLook \/ TBJudge \/ TBRun \/ TBReturn

-----------------------------------------------------------------------------
(* Properties. *)

\* The tenants that the first n commands of a batch touch: named, or in effect there.
TBInEffect(n) ==
  LET used == {i \in 1..n : tbBatch.commands[i].kind = "use"}
      last == CHOOSE i \in used : \A j \in used : i >= j
  IN  IF used = {} THEN tbBatch.first ELSE tbBatch.commands[last].tenant

TBTouched(n) ==
  {IF tbBatch.commands[i].kind = "plain" THEN TBInEffect(i) ELSE tbBatch.commands[i].tenant : i \in 1..n} \ {TBNone}

\* Every variable has its type; and the tenant in effect during the execution is that of the
\* commands before, whatever the verifier believed.
TBTypeOK ==
  /\ tbCurrent \in TBTenants \cup {TBNone} /\ tbBatch.mixed \in BOOLEAN
  /\ tbBatch.at \in {"idle", "verifying", "running", "refused", "stopped"}
  /\ tbBatch.done \in 0..Len(tbBatch.commands) /\ tbBatch.found \subseteq TBTenants
  /\ tbBatch.at = "running" => tbBatch.tenant = TBInEffect(tbBatch.done)

\* What a batch has executed touches one tenant, unless another batch's verification came in
\* between its own.
TBOne == tbBatch.at \in {"running", "stopped"} /\ ~tbBatch.mixed => Cardinality(TBTouched(tbBatch.done)) <= 1

\* A batch that is executed never leaves the tenant it began with, mixed or not.
TBStays == tbBatch.at = "running" /\ tbBatch.first # TBNone => tbBatch.tenant = tbBatch.first
=============================================================================
