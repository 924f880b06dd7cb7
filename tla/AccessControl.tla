--------------------------- MODULE AccessControl ----------------------------
(***************************************************************************)
(* What security.py notes of the queries it screens, and what its roles    *)
(* allow.                                                                  *)
(***************************************************************************)
EXTENDS Naturals, Sequences, FiniteSets, SequencesExt

(***************************************************************************)
(* SecurityManager of security.py: threads pass their users' queries       *)
(* through the detector, which scores a query and remembers each user's    *)
(* last ones without a lock, and log the outcome in the audit log, in      *)
(* memory and in a file.  The patterns give each query a score of its own; *)
(* an event is known by its number, which stands for its hash.             *)
(***************************************************************************)

CONSTANTS
  AUThreads,
  AUUsers,
  AUQueries,
  AUScore,   \* of each query: the score of its patterns and structure
  AURepeat,  \* what a repetition adds; 10 in the code
  AULimit,   \* the score from which a query is refused; 50 in the code
  AUKeep,    \* queries remembered of each user; 10 in the code
  AUCalls    \* bound: calls in the model

ASSUME AUAssumption ==
  /\ AUScore \in [AUQueries -> Nat] /\ AURepeat \in Nat /\ AULimit \in Nat
  /\ AUKeep \in Nat \ {0} /\ AUCalls \in Nat

VARIABLES
  auHistory, \* _query_history: the list of each user, an entry of auLists, or 0
  auLists,   \* the lists made so far
  auThread,  \* of each thread: its step, user and query, the list it holds and the score
  auEvents,  \* _events
  auFile,    \* the log file
  auFailed,  \* history: events whose writing failed
  auCalls    \* calls so far

auVars == <<auHistory, auLists, auThread, auEvents, auFile, auFailed, auCalls>>

AUIdle == [at |-> "idle", user |-> "", query |-> "", list |-> 0, score |-> 0]

AUInit ==
  /\ auHistory = [u \in AUUsers |-> 0] /\ auLists = <<>>
  /\ auThread = [t \in AUThreads |-> AUIdle]
  /\ auEvents = <<>> /\ auFile = <<>> /\ auFailed = {} /\ auCalls = 0

-----------------------------------------------------------------------------
(* The detector. *)

AUCall(t, u, q) ==
  /\ auThread[t].at = "idle" /\ auCalls < AUCalls /\ auCalls' = auCalls + 1
  /\ auThread' = [auThread EXCEPT ![t] = [AUIdle EXCEPT !.at = IF auHistory[u] = 0 THEN "making" ELSE "looking", !.user = u, !.query = q]]
  /\ UNCHANGED <<auHistory, auLists, auEvents, auFile, auFailed>>

\* The user had no list; another thread may have made one since, which is replaced.
AUMake(t) ==
  /\ auThread[t].at = "making"
  /\ auLists' = Append(auLists, <<>>)
  /\ auHistory' = [auHistory EXCEPT ![auThread[t].user] = Len(auLists')]
  /\ auThread' = [auThread EXCEPT ![t].at = "looking"]
  /\ UNCHANGED <<auEvents, auFile, auFailed, auCalls>>

\* Mutant of AURepeated: other users' queries count too.
AURepeatedAny(u, q) == \E n \in DOMAIN auLists : q \in ToSet(auLists[n])

AURepeated(u, q) == q \in ToSet(auLists[auHistory[u]])

AULook(t) ==
  LET u == auThread[t].user
      q == auThread[t].query
  IN  /\ auThread[t].at = "looking"
      /\ auThread' = [auThread EXCEPT ![t].at = "keeping", ![t].list = auHistory[u],
                                      ![t].score = AUScore[q] + (IF AURepeated(u, q) THEN AURepeat ELSE 0)]
      /\ UNCHANGED <<auHistory, auLists, auEvents, auFile, auFailed, auCalls>>

\* Mutant of AUTrimmed: the list is never shortened.
AUTrimmedNot(list) == list

AUTrimmed(list) == IF Len(list) > AUKeep THEN Tail(list) ELSE list

\* The query goes into the list that was read, and the oldest leaves it.
AUKeepQuery(t) ==
  /\ auThread[t].at = "keeping"
  /\ auLists' = [auLists EXCEPT ![auThread[t].list] = AUTrimmed(Append(@, auThread[t].query))]
  /\ auThread' = [auThread EXCEPT ![t].at = "logging"]
  /\ UNCHANGED <<auHistory, auEvents, auFile, auFailed, auCalls>>

-----------------------------------------------------------------------------
(* The audit log. *)

AUKind(score) == IF score < AULimit THEN "query" ELSE "policy_violation"

\* Mutant of AUPrevious: the last event of the file.
AUPreviousWritten == IF auFile = <<>> THEN 0 ELSE Last(auFile).id

AUPrevious == IF auEvents = <<>> THEN 0 ELSE Last(auEvents).id

\* log, under its lock: the event, chained to the last one, and its line; a line that cannot
\* be written is only reported.  The query runs or is refused.
AULog(t) ==
  LET event == [id |-> Len(auEvents) + 1, prev |-> AUPrevious, kind |-> AUKind(auThread[t].score),
                user |-> auThread[t].user, query |-> auThread[t].query]
  IN  /\ auThread[t].at = "logging"
      /\ auEvents' = Append(auEvents, event)
      /\ \/ auFile' = Append(auFile, event) /\ UNCHANGED auFailed
         \/ UNCHANGED auFile /\ auFailed' = auFailed \cup {event.id}
      /\ auThread' = [auThread EXCEPT ![t] = AUIdle]
      /\ UNCHANGED <<auHistory, auLists, auCalls>>

AUNext ==
  \E t \in AUThreads :
    \/ \E u \in AUUsers, q \in AUQueries : AUCall(t, u, q)
    \/ AUMake(t) \/ AULook(t) \/ AUKeepQuery(t) \/ AULog(t)

-----------------------------------------------------------------------------
(* Properties. *)

\* Every variable has its type, and no list grows beyond what is kept of a user.
AUTypeOK ==
  /\ auHistory \in [AUUsers -> 0..Len(auLists)]
  /\ \A n \in DOMAIN auLists : auLists[n] \in Seq(AUQueries) /\ Len(auLists[n]) <= AUKeep
  /\ \A t \in AUThreads : /\ auThread[t].at \in {"idle", "making", "looking", "keeping", "logging"}
                          /\ auThread[t].list \in 0..Len(auLists) /\ auThread[t].score \in Nat
  /\ auFailed \subseteq DOMAIN auEvents /\ auCalls \in 0..AUCalls

\* However the threads interleave, each event is chained to the one before it, and the file has
\* the events that could be written, in order: a gap in its chain is a line that is missing.
AUChain ==
  /\ \A n \in DOMAIN auEvents : auEvents[n].id = n /\ auEvents[n].prev = n - 1
  /\ ToSet(auFile) = {auEvents[n] : n \in DOMAIN auEvents \ auFailed}
  /\ \A m, n \in DOMAIN auFile : m < n => auFile[m].id < auFile[n].id
  /\ \A n \in DOMAIN auFile : n > 1 /\ auFile[n].prev # auFile[n - 1].id => auFile[n].prev \in auFailed

\* A query that is not refused for itself is refused only if its user asked it before, in an
\* event of the log or in a call that has not logged yet; one refused for itself never runs.
AUVerdicts ==
  \A n \in DOMAIN auEvents :
    LET e == auEvents[n]
    IN  /\ AUScore[e.query] >= AULimit => e.kind = "policy_violation"
        /\ e.kind = "policy_violation" /\ AUScore[e.query] < AULimit =>
             \/ \E i \in DOMAIN auEvents \ {n} : auEvents[i].user = e.user /\ auEvents[i].query = e.query
             \/ \E t \in AUThreads : auThread[t].at = "logging" /\ auThread[t].user = e.user /\ auThread[t].query = e.query

-----------------------------------------------------------------------------
(***************************************************************************)
(* RBACManager of security.py: roles with permissions and a parent each,   *)
(* from which they inherit, and the roles of users.  A role may name a     *)
(* parent that is made later, or be made again.                            *)
(***************************************************************************)

CONSTANTS
  RARoles,
  RAPermissions,
  RAAdmin,  \* the permission that stands for all, ADMIN
  RASets,   \* the permissions a role may be made with
  RAUsers,
  RANone    \* no parent

ASSUME RAAssumption == RAAdmin \in RAPermissions /\ RASets \subseteq SUBSET RAPermissions /\ RANone \notin RARoles

VARIABLES
  raRoles,     \* _roles: the permissions of each role that exists
  raHierarchy, \* the parent of each role that exists
  raUsers      \* _user_roles

raVars == <<raRoles, raHierarchy, raUsers>>

RAInit ==
  /\ raRoles = <<>> /\ raHierarchy = <<>>
  /\ raUsers = [u \in RAUsers |-> {}]

\* create_role, also of one that exists.
RACreate(r, permissions, parent) ==
  /\ raRoles' = [s \in DOMAIN raRoles \cup {r} |-> IF s = r THEN permissions ELSE raRoles[s]]
  /\ raHierarchy' = [s \in DOMAIN raRoles \cup {r} |-> IF s = r THEN parent ELSE raHierarchy[s]]
  /\ UNCHANGED raUsers

\* Mutant of RAGranted: a role that is to be made later will do.
RAGrantedAny(r) == TRUE

RAGranted(r) == r \in DOMAIN raRoles

\* grant_role.
RAGrant(u, r) ==
  /\ RAGranted(r)
  /\ raUsers' = [raUsers EXCEPT ![u] = @ \cup {r}]
  /\ UNCHANGED <<raRoles, raHierarchy>>

RARevoke(u, r) ==
  /\ raUsers' = [raUsers EXCEPT ![u] = @ \ {r}]
  /\ UNCHANGED <<raRoles, raHierarchy>>

-----------------------------------------------------------------------------
(* The answers. *)

\* The parent of a role, none for a role that does not exist.
RAParent(r) == IF r \in DOMAIN raHierarchy THEN raHierarchy[r] ELSE RANone

\* The role, its parent and so on, to the last one that exists; in a cycle as many as there
\* are roles, where the code recurses until Python stops it.
RALine(r) ==
  LET f[n \in Nat] == IF n = 0 THEN r ELSE IF f[n - 1] = RANone THEN RANone ELSE RAParent(f[n - 1])
  IN  SelectSeq([n \in 1..Cardinality(RARoles) |-> f[n - 1]], LAMBDA s : s \in DOMAIN raRoles)

RACyclic(r) ==
  LET line == RALine(r)
  IN  line # <<>> /\ RAParent(Last(line)) \in ToSet(line)

\* Mutant of RAHolds: only the role and its parent are looked at.
RAHoldsNear(r, p) ==
  \E n \in DOMAIN RALine(r) : n <= 2 /\ (p \in raRoles[RALine(r)[n]] \/ RAAdmin \in raRoles[RALine(r)[n]])

\* _role_has_permission: the first role of the line that has it, or has all, answers.
RAHolds(r, p) ==
  \E n \in DOMAIN RALine(r) : p \in raRoles[RALine(r)[n]] \/ RAAdmin \in raRoles[RALine(r)[n]]

\* check_permission and get_user_permissions, while no line of the user's roles is a cycle.
RAChecks(u, p) == \E r \in raUsers[u] : RAHolds(r, p)

RACollected(u) == UNION {raRoles[s] : s \in UNION {ToSet(RALine(r)) : r \in raUsers[u]}}

RANext ==
  \/ \E r \in RARoles, permissions \in RASets, parent \in RARoles \cup {RANone} :
       RACreate(r, permissions, parent)
  \/ \E u \in RAUsers, r \in RARoles : RAGrant(u, r) \/ RARevoke(u, r)

-----------------------------------------------------------------------------
(* Properties. *)

\* Every variable has its type, and a user's roles exist.
RATypeOK ==
  /\ DOMAIN raRoles \subseteq RARoles /\ DOMAIN raHierarchy = DOMAIN raRoles
  /\ \A r \in DOMAIN raRoles : raRoles[r] \subseteq RAPermissions /\ raHierarchy[r] \in RARoles \cup {RANone}
  /\ raUsers \in [RAUsers -> SUBSET DOMAIN raRoles]

\* The two walks up the hierarchy agree: a permission is granted exactly if it, or the one that
\* stands for all, is among the permissions that are listed for the user.
RAAgree ==
  \A u \in RAUsers : (\A r \in raUsers[u] : ~RACyclic(r)) =>
    \A p \in RAPermissions : RAChecks(u, p) <=> {p, RAAdmin} \cap RACollected(u) # {}
=============================================================================
