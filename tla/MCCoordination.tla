--------------------------- MODULE MCCoordination ---------------------------
(***************************************************************************)
(* Components whose threads must get on, under the fairness that each of   *)
(* them states.  They share no state and are checked side by side: each    *)
(* behaviour exercises one of them, its service, and leaves the others     *)
(* alone.                                                                  *)
(***************************************************************************)
EXTENDS
  BackgroundTimers, ConcurrentIndex, AgentMessages, EventStreams

CONSTANTS s1, x, a, b, null, ta, tb

VARIABLE service

allVars ==
  <<service, mvVars, ciVars, amVars, bpVars, cdVars, srVars>>

\* Every component but the one that runs stays as it began.
Others(s) ==
  /\ s # "refresh timers" => UNCHANGED mvVars
  /\ s # "index" => UNCHANGED ciVars
  /\ s # "agents" => UNCHANGED amVars
  /\ s # "batch pool" => UNCHANGED bpVars
  /\ s # "changes" => UNCHANGED cdVars
  /\ s # "stream" => UNCHANGED srVars
  /\ UNCHANGED service

Init ==
  /\ service \in
       {"refresh timers", "index", "agents", "batch pool", "changes", "stream"}
  /\ MVInit
  /\ CIInit /\ (service # "index" => ciTable = <<>> /\ ciUnique /\ ciOnline)
  /\ AMInit
  /\ BPInit /\ (service # "batch pool" => bpIdle = 0)
  /\ CDInit
  /\ SRInit /\ (service # "stream" => srTotal = 0)

Next ==
  \/ service = "refresh timers" /\ MVNext /\ Others("refresh timers")
  \/ service = "index" /\ CINext /\ Others("index")
  \/ service = "agents" /\ AMNext /\ Others("agents")
  \/ service = "batch pool" /\ BPNext /\ Others("batch pool")
  \/ service = "changes" /\ CDNext /\ Others("changes")
  \/ service = "stream" /\ SRNext /\ Others("stream")

\* The components' own fairness, of the one that runs: the steps of the others never come.
In(s) == service = s

Fairness ==
  /\ \A s \in MVSlot : /\ WF_mvVars(In("refresh timers") /\ MVFire(s))
                        /\ WF_mvVars(In("refresh timers") /\ MVRearm(s))
  /\ WF_ciVars(In("index") /\ CIBuildStep) /\ WF_ciVars(In("index") /\ CICreated)
  /\ \A c \in AMCallers : /\ WF_amVars(In("agents") /\ AMSend(c))
                           /\ WF_amVars(In("agents") /\ AMAwait(c))
                           /\ WF_amVars(In("agents") /\ (AMGet(c) \/ AMTimeOut(c)))
                           /\ WF_amVars(In("agents") /\ AMGiveUp(c))
  /\ WF_amVars(In("agents") /\ AMWork)
  /\ \A c \in BPCallers : WF_bpVars(In("batch pool") /\ BPAgain(c))
  /\ \A t \in 1..CDMaxThreads :
       WF_cdVars(In("changes") /\ t \in DOMAIN cdThreads /\ CDThread(t))
  /\ WF_srVars(In("stream") /\ (SRFetch \/ SRLeave)) /\ WF_srVars(In("stream") /\ SRPut)
  /\ WF_srVars(In("stream") /\ SRNextCalled) /\ WF_srVars(In("stream") /\ SRGet)
  /\ WF_srVars(In("stream") /\ SRDrain)

Spec == Init /\ [][Next]_allVars /\ Fairness

-----------------------------------------------------------------------------
(* Properties.  The components' own, each stated with its comment in its   *)
(* module, put together by what they are about.                            *)

\* Every component's state is of its types.
ThreadsTypeOK ==
  /\ service = "refresh timers" => MVTypeOK
  /\ service = "index"          => CITypeOK
  /\ service = "agents"         => AMTypeOK
  /\ service = "batch pool"     => BPTypeOK
  /\ service = "changes"        => CDTypeOK
  /\ service = "stream"         => SRTypeOK

\* An index that is built while others write follows its table once it is active, holds no two
\* rows of a unique key, and stays dropped once it is.
IndexesFollow ==
  /\ service = "index" => CIFollows /\ CIUniqueHolds /\ CIDroppedStays

\* Threads that come and go miss nothing and do nothing twice: a schedule has its timer, an
\* answer its request, a connection its place in the count, an event its callback.
NothingLostOrTwice ==
  /\ service = "refresh timers" => MVAlive
  /\ service = "agents"         => AMOwnAnswer /\ AMRunsOnce
  /\ service = "batch pool"     => BPCounted /\ BPOnceAfterClose
  /\ service = "changes"        => CDDelivered
  /\ service = "stream"         => SRFaithful

\* Whatever is lost, late, cancelled or stopped, everyone gets on: schedules fire while they
\* stand and end when they are cancelled, builds, delegations and calls of acquire end,
\* consumers catch up, in order, and streams complete or let go.
EveryoneGetsOn ==
  /\ MVEnds /\ MVKeepsOn /\ CIEnds /\ AMEnds /\ BPEnds
  /\ CDCaughtUp /\ CDInOrder /\ SRLetsGo /\ SRCompletes
=============================================================================
