--------------------------- MODULE AgentMessages ---------------------------
(***************************************************************************)
(* The messages of an agent, agent_protocol.py: callers that delegate a    *)
(* task to the agents of a list one after the other and wait for the       *)
(* answers, and the worker thread that takes the messages of the priority  *)
(* queue, runs the task handler and brings answers to those who wait.      *)
(* There is no transport: what an agent sends goes into its own queue, and *)
(* its own worker handles it.                                              *)
(***************************************************************************)
EXTENDS Naturals, Sequences, FiniteSets

CONSTANTS
  AMCallers,
  AMTries,  \* agents in the list of a delegation
  AMRoom,   \* the queue's capacity; 10000 in the code
  AMTells   \* bound: messages without an answer, as heartbeats and shared contexts are

ASSUME AMAssumption == {AMTries, AMRoom, AMTells} \subseteq Nat /\ AMRoom > 0

VARIABLES
  amSent,    \* every message made so far; its number is its id, and orders it by time
  amQueue,   \* the numbers of those that wait
  amFlight,  \* in_flight
  amPending, \* _pending_responses: of each request that is waited for, its answer or 0
  amCaller,  \* of each caller: its step, the attempts made, its request and its result
  amWorker,  \* the worker's step and message
  amOpen,    \* neither stopped nor shut down
  amTold,    \* messages without an answer so far
  amRan,     \* history: the requests whose task ran, once for each run
  amLate     \* history: requests that were given up before their answer came

amVars == <<amSent, amQueue, amFlight, amPending, amCaller, amWorker, amOpen, amTold, amRan, amLate>>

AMInit ==
  /\ amSent = <<>> /\ amQueue = {} /\ amFlight = {} /\ amPending = <<>>
  /\ amCaller = [c \in AMCallers |-> [at |-> "idle", tries |-> 0, request |-> 0, result |-> 0]]
  /\ amWorker = [at |-> "idle", message |-> 0]
  /\ amOpen = TRUE /\ amTold = 0 /\ amRan = <<>> /\ amLate = {}

AMMessage(type, priority, answers) == [type |-> type, priority |-> priority, answers |-> answers]

AMAdmits == amOpen /\ Cardinality(amQueue) < AMRoom

\* enqueue: a message that finds no room, or the queue shut down, is gone.
AMEnqueue(message) ==
  /\ amSent' = Append(amSent, message)
  /\ amQueue' = IF AMAdmits THEN amQueue \cup {Len(amSent')} ELSE amQueue

AMForget(r) == [q \in DOMAIN amPending \ {r} |-> amPending[q]]

-----------------------------------------------------------------------------
(* The callers: delegate_to_capability, delegate_with_fallback, query_agent *)
(* with a single agent, and send_message.                                  *)

\* The request of the next attempt; when it is not admitted, the attempt has failed.
AMSend(c) ==
  /\ amCaller[c].at = "idle" /\ amCaller[c].tries < AMTries
  /\ AMEnqueue(AMMessage("request", 1, 0))
  /\ amCaller' = [amCaller EXCEPT ![c].at = IF AMAdmits THEN "sent" ELSE "idle", ![c].tries = @ + 1, ![c].request = Len(amSent')]
  /\ UNCHANGED <<amFlight, amPending, amWorker, amOpen, amTold, amRan, amLate>>

\* Only now the answer is waited for.
AMAwait(c) ==
  /\ amCaller[c].at = "sent"
  /\ amPending' = [q \in DOMAIN amPending \cup {amCaller[c].request} |-> IF q = amCaller[c].request THEN 0 ELSE amPending[q]]
  /\ amCaller' = [amCaller EXCEPT ![c].at = "waiting"]
  /\ UNCHANGED <<amSent, amQueue, amFlight, amWorker, amOpen, amTold, amRan, amLate>>

\* The answer: a result, or an error, after which the next agent is tried.
AMGet(c) ==
  LET r == amCaller[c].request
      answer == amPending[r]
  IN  /\ amCaller[c].at = "waiting" /\ answer # 0
      /\ amPending' = AMForget(r)
      /\ amCaller' = [amCaller EXCEPT ![c].at = IF amSent[answer].type = "result" THEN "done" ELSE "idle",
                                      ![c].result = IF amSent[answer].type = "result" THEN answer ELSE 0]
      /\ UNCHANGED <<amSent, amQueue, amFlight, amWorker, amOpen, amTold, amRan, amLate>>

\* Mutant of AMForgotten: the request is still waited for.
AMForgottenNot(r) == amPending

AMForgotten(r) == AMForget(r)

\* Mutant of AMDue: only while the communicator runs.
AMDueOpen(c) == amOpen /\ amPending[amCaller[c].request] = 0

AMDue(c) == amPending[amCaller[c].request] = 0

\* No answer in time: the next agent is tried, though the task may have run, or yet run.
AMTimeOut(c) ==
  /\ amCaller[c].at = "waiting" /\ AMDue(c)
  /\ amPending' = AMForgotten(amCaller[c].request)
  /\ amLate' = IF amWorker.at = "answering" /\ amSent[amWorker.message].answers = amCaller[c].request
               THEN amLate \cup {amCaller[c].request} ELSE amLate
  /\ amCaller' = [amCaller EXCEPT ![c].at = "idle"]
  /\ UNCHANGED <<amSent, amQueue, amFlight, amWorker, amOpen, amTold, amRan>>

\* Every agent was tried.
AMGiveUp(c) ==
  /\ amCaller[c].at = "idle" /\ amCaller[c].tries = AMTries
  /\ amCaller' = [amCaller EXCEPT ![c].at = "failed"]
  /\ UNCHANGED <<amSent, amQueue, amFlight, amPending, amWorker, amOpen, amTold, amRan, amLate>>

\* send_heartbeat, share_context: nothing is waited for.
AMTell ==
  /\ amTold < AMTells /\ amTold' = amTold + 1
  /\ AMEnqueue(AMMessage("notice", 3, 0))
  /\ UNCHANGED <<amFlight, amPending, amCaller, amWorker, amOpen, amRan, amLate>>

-----------------------------------------------------------------------------
(* The worker. *)

AMBefore(m, n) ==
  \/ amSent[m].priority < amSent[n].priority
  \/ amSent[m].priority = amSent[n].priority /\ m <= n

AMFirst == CHOOSE m \in amQueue : \A n \in amQueue : AMBefore(m, n)

\* Mutant of AMTaken: the message stays in the queue until it is acknowledged.
AMTakenNot == amQueue

AMTaken == amQueue \ {AMFirst}

\* dequeue; the message may be too old, and is acknowledged without a look.
AMTake ==
  /\ amOpen /\ amWorker.at = "idle" /\ amQueue # {}
  /\ amQueue' = AMTaken
  /\ \/ amFlight' = amFlight \cup {AMFirst} /\ amWorker' = [at |-> "routing", message |-> AMFirst]
     \/ UNCHANGED <<amFlight, amWorker>>
  /\ UNCHANGED <<amSent, amPending, amCaller, amOpen, amTold, amRan, amLate>>

\* acknowledge or reject: the message is no longer in flight.
AMFinish ==
  /\ amFlight' = amFlight \ {amWorker.message}
  /\ amWorker' = [at |-> "idle", message |-> 0]

AMAnswers == amSent[amWorker.message].answers

\* A request: the handler's result, or its exception as an error, is sent.
AMRunTask ==
  /\ amWorker.at = "routing" /\ amSent[amWorker.message].type = "request"
  /\ \E type \in {"result", "error"} : AMEnqueue(AMMessage(type, 1, amWorker.message))
  /\ amRan' = Append(amRan, amWorker.message)
  /\ AMFinish
  /\ UNCHANGED <<amPending, amCaller, amOpen, amTold, amLate>>

\* A notice, or an answer nobody waits for, has no handler.
AMDrop ==
  /\ amWorker.at = "routing" /\ amSent[amWorker.message].type # "request" /\ AMAnswers \notin DOMAIN amPending
  /\ AMFinish
  /\ UNCHANGED <<amSent, amQueue, amPending, amCaller, amOpen, amTold, amRan, amLate>>

AMFind ==
  /\ amWorker.at = "routing" /\ AMAnswers \in DOMAIN amPending
  /\ amWorker' = [amWorker EXCEPT !.at = "reading"]
  /\ UNCHANGED <<amSent, amQueue, amFlight, amPending, amCaller, amOpen, amTold, amRan, amLate>>

\* The entry is read, which raises when it is gone by now: the message is rejected.
AMRead ==
  /\ amWorker.at = "reading"
  /\ IF AMAnswers \in DOMAIN amPending THEN amWorker' = [amWorker EXCEPT !.at = "answering"] /\ UNCHANGED amFlight ELSE AMFinish
  /\ UNCHANGED <<amSent, amQueue, amPending, amCaller, amOpen, amTold, amRan, amLate>>

\* Mutant of AMAnswered: whoever waits gets the answer.
AMAnsweredAny == CHOOSE r \in DOMAIN amPending \cup {AMAnswers} : \A q \in DOMAIN amPending \cup {AMAnswers} : r >= q

AMAnswered == AMAnswers

\* The answer is put into the table, also when nobody waits for it any more, and the event set.
AMAnswer ==
  /\ amWorker.at = "answering"
  /\ amPending' = [q \in DOMAIN amPending \cup {AMAnswered} |-> IF q = AMAnswered THEN amWorker.message ELSE amPending[q]]
  /\ AMFinish
  /\ UNCHANGED <<amSent, amQueue, amCaller, amOpen, amTold, amRan, amLate>>

\* stop: what waits in the queue stays there.
AMStop ==
  /\ amOpen /\ amOpen' = FALSE
  /\ UNCHANGED <<amSent, amQueue, amFlight, amPending, amCaller, amWorker, amTold, amRan, amLate>>

AMWork == AMTake \/ AMRunTask \/ AMDrop \/ AMFind \/ AMRead \/ AMAnswer

AMNext ==
  \/ \E c \in AMCallers : AMSend(c) \/ AMAwait(c) \/ AMGet(c) \/ AMTimeOut(c) \/ AMGiveUp(c)
  \/ AMTell \/ AMTake \/ AMRunTask \/ AMDrop \/ AMFind \/ AMRead \/ AMAnswer \/ AMStop

\* A wait ends, by the answer or by its time, and each call's code goes on.
AMFairness ==
  /\ \A c \in AMCallers : WF_amVars(AMSend(c)) /\ WF_amVars(AMAwait(c)) /\ WF_amVars(AMGet(c) \/ AMTimeOut(c)) /\ WF_amVars(AMGiveUp(c))
  /\ WF_amVars(AMWork)

-----------------------------------------------------------------------------
(* Properties. *)

\* Every variable has its type; a message is in the queue or in flight, with the worker; and the
\* table has an entry for each request that is waited for, and else only answers that came
\* while their request was being given up.
AMTypeOK ==
  /\ amQueue \subseteq DOMAIN amSent /\ Cardinality(amQueue) <= AMRoom
  /\ amWorker.at \in {"idle", "routing", "reading", "answering"}
  /\ amFlight = IF amWorker.at = "idle" THEN {} ELSE {amWorker.message}
  /\ amQueue \cap amFlight = {}
  /\ \A c \in AMCallers : /\ amCaller[c].at \in {"idle", "sent", "waiting", "done", "failed"} /\ amCaller[c].tries \in 0..AMTries
                          /\ amCaller[c].at = "waiting" => amCaller[c].request \in DOMAIN amPending
  /\ \A r \in DOMAIN amPending : r \in amLate \/ \E c \in AMCallers : amCaller[c].at = "waiting" /\ amCaller[c].request = r

\* A caller's result is the answer to its last request, not to one it gave up, nor to another's.
AMOwnAnswer ==
  \A c \in AMCallers : amCaller[c].at = "done" => amSent[amCaller[c].result].answers = amCaller[c].request

\* No request runs twice, and none without having been sent: a task of a delegation runs at most
\* as often as agents were tried.
AMRunsOnce ==
  \A i, j \in DOMAIN amRan : amSent[amRan[i]].type = "request" /\ (i # j => amRan[i] # amRan[j])

\* Every delegation ends, whatever is lost, late or stopped.
AMEnds ==
  \A c \in AMCallers : amCaller[c].at = "waiting" ~> amCaller[c].at \in {"done", "failed"}
=============================================================================
