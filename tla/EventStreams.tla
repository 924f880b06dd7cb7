---------------------------- MODULE EventStreams ----------------------------
(***************************************************************************)
(* Producers and consumers: the events of cdc.py and the chunks of         *)
(* streaming_results.py.                                                   *)
(***************************************************************************)
EXTENDS Naturals, Sequences, FiniteSets

(***************************************************************************)
(* Change data capture (cdc.py): an ordered log of events and consumers    *)
(* that poll it in threads of their own.  An event is its place in the log *)
(* and its table; an encoded event is the event.  The log's subscribers,   *)
(* whose errors it swallows, keep no state here.                           *)
(*                                                                         *)
(* A consumer object outlives its registration: create_consumer replaces   *)
(* the one of the same id and stops nothing.  A thread that stop gave up   *)
(* waiting for goes on when start sets _running again.                     *)
(***************************************************************************)

CONSTANTS
  CDTables,
  CDLimit,        \* events per poll (1000)
  CDMaxEvents,    \* bound: events
  CDMaxConsumers, \* bound: consumer objects
  CDMaxThreads    \* bound: polling threads ever started

ASSUME CDAssumption ==
  CDLimit \in Nat \ {0} /\ CDMaxEvents \in Nat /\ CDMaxConsumers \in Nat /\ CDMaxThreads \in Nat

VARIABLES
  cdLog,        \* _events: the tables of the events; an event's place is its sequence
  cdConsumers,  \* [tables, latest, pos, running], in the order of their creation
  cdThreads,    \* [of, todo, called]: the consumer, the polled events that are left, and
                \* whether the callback had the first; of = 0 when the thread has ended
  cdSeen,       \* history: the events each consumer's callback took
  cdTwin        \* history: consumers that have had two threads at a time

cdVars == <<cdLog, cdConsumers, cdThreads, cdSeen, cdTwin>>

CDInit ==
  /\ cdLog = <<>> /\ cdConsumers = <<>> /\ cdThreads = <<>> /\ cdSeen = <<>> /\ cdTwin = {}

-----------------------------------------------------------------------------
\* emit_event, append.
CDAppend(table) ==
  /\ Len(cdLog) < CDMaxEvents
  /\ cdLog' = Append(cdLog, table)
  /\ UNCHANGED <<cdConsumers, cdThreads, cdSeen, cdTwin>>

-----------------------------------------------------------------------------
(* Consumers. *)

CDLive(c) == {t \in DOMAIN cdThreads : cdThreads[t].of = c}

\* _should_consume; no tables is no filter.
CDWanted(c, n) == cdConsumers[c].tables = {} \/ cdLog[n] \in cdConsumers[c].tables

CDCreate(tables, latest) ==
  /\ Len(cdConsumers) < CDMaxConsumers
  /\ cdConsumers' = Append(cdConsumers,
       [tables |-> tables, latest |-> latest, running |-> FALSE,
        pos |-> IF latest THEN Len(cdLog) ELSE 0])
  /\ cdSeen' = Append(cdSeen, {})
  /\ UNCHANGED <<cdLog, cdThreads, cdTwin>>

\* start, and the thread it starts, if the callback takes the snapshot: made-up rows
\* of a table named "*", which a filter keeps out.
CDStart(c) ==
  /\ Len(cdThreads) < CDMaxThreads
  /\ cdConsumers' = [cdConsumers EXCEPT ![c].running = TRUE]
  /\ cdThreads' = Append(cdThreads, [of |-> c, todo |-> <<>>, called |-> FALSE])
  /\ cdTwin' = IF CDLive(c) = {} THEN cdTwin ELSE cdTwin \cup {c}
  /\ UNCHANGED <<cdLog, cdSeen>>

CDStartRaises(c) ==
  /\ ~cdConsumers[c].latest /\ cdConsumers[c].tables = {}
  /\ cdConsumers' = [cdConsumers EXCEPT ![c].running = TRUE]
  /\ UNCHANGED <<cdLog, cdThreads, cdSeen, cdTwin>>

\* stop, which waits five seconds for the thread at most.
CDStop(c) ==
  /\ cdConsumers' = [cdConsumers EXCEPT ![c].running = FALSE]
  /\ UNCHANGED <<cdLog, cdThreads, cdSeen, cdTwin>>

CDEnded == [of |-> 0, todo |-> <<>>, called |-> FALSE]

\* Mutant of CDPolled: polls from the position, not from the event after it.
CDPolledAgain(c) ==
  SelectSeq([n \in DOMAIN cdLog |-> n], LAMBDA n : n >= cdConsumers[c].pos)

\* Mutant of CDPolled: the newest event is left for later.
CDPolledShort(c) ==
  SubSeq([n \in DOMAIN cdLog |-> n], cdConsumers[c].pos + 1, Len(cdLog) - 1)

\* get_events from the position on.
CDPolled(c) ==
  LET from == cdConsumers[c].pos + 1
      to   == IF from + CDLimit - 1 < Len(cdLog) THEN from + CDLimit - 1 ELSE Len(cdLog)
  IN  SubSeq([n \in DOMAIN cdLog |-> n], from, to)

\* The head of _poll's loop: the flag is read only here.
CDPoll(t) ==
  LET c == cdThreads[t].of
  IN  /\ c # 0 /\ cdThreads[t].todo = <<>>
      /\ \/ /\ ~cdConsumers[c].running
            /\ cdThreads' = [cdThreads EXCEPT ![t] = CDEnded]
         \/ /\ cdConsumers[c].running /\ CDPolled(c) # <<>>
            /\ cdThreads' = [cdThreads EXCEPT ![t].todo = CDPolled(c)]
      /\ UNCHANGED <<cdLog, cdConsumers, cdSeen, cdTwin>>

\* The callback takes the event, or raises (as an encoder may) and so ends the thread.
CDCall(t, raises) ==
  LET c == cdThreads[t].of
      n == Head(cdThreads[t].todo)
  IN  /\ c # 0 /\ cdThreads[t].todo # <<>> /\ ~cdThreads[t].called
      /\ IF raises
         THEN CDWanted(c, n) /\ cdThreads' = [cdThreads EXCEPT ![t] = CDEnded] /\ UNCHANGED cdSeen
         ELSE /\ cdThreads' = [cdThreads EXCEPT ![t].called = TRUE]
              /\ cdSeen' = IF CDWanted(c, n) THEN [cdSeen EXCEPT ![c] = @ \cup {n}] ELSE cdSeen
      /\ UNCHANGED <<cdLog, cdConsumers, cdTwin>>

\* Mutant of CDHandled: the position moves past the event before the callback has it.
CDHandledEarly(t) == cdThreads[t].todo # <<>>

CDHandled(t) == cdThreads[t].called

\* Mutant of CDReached: the position jumps to the last event that was polled.
CDReachedAll(t) == cdThreads[t].todo[Len(cdThreads[t].todo)]

\* Mutant of CDReached: the position names the next event.
CDReachedNext(t) == Head(cdThreads[t].todo) + 1

CDReached(t) == Head(cdThreads[t].todo)

\* _current_seq takes the event's sequence, also backwards when two threads deliver.
CDAdvance(t) ==
  LET c == cdThreads[t].of
  IN  /\ c # 0 /\ CDHandled(t)
      /\ cdConsumers' = [cdConsumers EXCEPT ![c].pos = CDReached(t)]
      /\ cdThreads' = [cdThreads EXCEPT ![t].todo = Tail(@), ![t].called = FALSE]
      /\ UNCHANGED <<cdLog, cdSeen, cdTwin>>

CDThread(t) == CDPoll(t) \/ (\E raises \in BOOLEAN : CDCall(t, raises)) \/ CDAdvance(t)

CDNext ==
  \/ \E table \in CDTables : CDAppend(table)
  \/ \E tables \in {{}} \cup {{table} : table \in CDTables}, latest \in BOOLEAN :
       CDCreate(tables, latest)
  \/ \E c \in DOMAIN cdConsumers : CDStart(c) \/ CDStartRaises(c) \/ CDStop(c)
  \/ \E t \in DOMAIN cdThreads : CDThread(t)

\* The threads are daemons that the interpreter schedules.
CDFairness == \A t \in 1..CDMaxThreads : WF_cdVars(t \in DOMAIN cdThreads /\ CDThread(t))

CDSpec == CDInit /\ [][CDNext]_cdVars /\ CDFairness

-----------------------------------------------------------------------------
(* Properties. *)

\* Every variable has its type; a thread is of a consumer or has ended.
CDTypeOK ==
  /\ cdLog \in Seq(CDTables)
  /\ cdConsumers \in Seq([tables : SUBSET CDTables, latest : BOOLEAN, pos : 0..Len(cdLog),
                          running : BOOLEAN])
  /\ cdThreads \in Seq([of : 0..Len(cdConsumers), todo : Seq(DOMAIN cdLog), called : BOOLEAN])
  /\ cdSeen \in Seq(SUBSET DOMAIN cdLog) /\ Len(cdSeen) = Len(cdConsumers)
  /\ cdTwin \subseteq DOMAIN cdConsumers

\* At least once: a consumer that began at the start of the log has had every wanted
\* event up to its position, whatever threads died on an exception, were stopped,
\* restarted, or run twice.
CDDelivered ==
  \A c \in DOMAIN cdConsumers : ~cdConsumers[c].latest =>
    \A n \in 1..cdConsumers[c].pos : CDWanted(c, n) => n \in cdSeen[c]

\* With never more than one thread, a callback takes each event once and in order.
CDInOrder ==
  [][\A c \in DOMAIN cdConsumers : \A t \in DOMAIN cdThreads :
       cdThreads[t].of = c /\ c \notin cdTwin /\ ~cdThreads[t].called /\ t \in DOMAIN cdThreads'
         /\ cdThreads'[t].called /\ CDWanted(c, Head(cdThreads[t].todo))
       => \A n \in cdSeen[c] : n < Head(cdThreads[t].todo)]_cdVars

\* A consumer with a thread passes every event, or loses its last thread.
CDCaughtUp ==
  \A c \in 1..CDMaxConsumers : \A n \in 1..CDMaxEvents :
    (n <= Len(cdLog) /\ CDLive(c) # {}) ~>
      (CDLive(c) = {} \/ cdConsumers[c].pos >= n)

-----------------------------------------------------------------------------
(***************************************************************************)
(* A result streamed from a producer thread to the thread that iterates:   *)
(* StreamingResultSet of streaming_results.py.  A chunk is the sequence of *)
(* its rows, a row the number of its place in the source, and the chunk    *)
(* that says is_last is empty.  The counters and the encoders are left     *)
(* out.                                                                    *)
(***************************************************************************)

CONSTANTS
  SRRows,      \* bound: rows of a source
  SRChunkSize,
  SRBuffered   \* max_buffered_chunks

ASSUME SRAssumption == SRRows \in Nat /\ SRChunkSize \in Nat \ {0} /\ SRBuffered \in Nat \ {0}

VARIABLES
  srTotal,     \* the rows of the source
  srState,     \* the stream's state
  srError,     \* _error is set
  srRead,      \* the rows the producer has taken from the source
  srProducer,  \* "none", "reading", "putting" or "ended"
  srChunk,     \* the chunk it puts
  srQueue,
  srConsumer,  \* "idle", "getting", "stopped", "raised" or "gave up"
  srGot,       \* history: the rows the consumer was given
  srCancel     \* cancel(): "no", "draining" or "done"

srVars == <<srTotal, srState, srError, srRead, srProducer, srChunk, srQueue, srConsumer, srGot, srCancel>>

SRMin(m, n) == IF m < n THEN m ELSE n

SRChunks(first, last) == [n \in 1..(last - first) |-> first + n]

SRPiece(kind, rows) == [kind |-> kind, rows |-> rows]

SRInit ==
  /\ srTotal \in 0..SRRows
  /\ srState = "pending" /\ srError = FALSE /\ srRead = 0 /\ srProducer = "none"
  /\ srChunk = SRPiece("rows", <<>>)
  /\ srQueue = <<>> /\ srConsumer = "idle" /\ srGot = <<>> /\ srCancel = "no"

-----------------------------------------------------------------------------
(* The producer. *)

\* start(), called by __iter__.
SRStart ==
  /\ srState = "pending"
  /\ srState' = "active" /\ srProducer' = "reading"
  /\ UNCHANGED <<srTotal, srError, srRead, srChunk, srQueue, srConsumer, srGot, srCancel>>

\* Mutant of SRLast: a chunk that is not full is taken for the last.
SRLastShort(last) == last < srRead + SRChunkSize

\* Mutant of SRLast: the end is not told.
SRLastNever(last) == FALSE

\* The source had no more rows.
SRLast(last) == last = srRead

\* The loop's test, and the rows of a chunk.
SRFetch ==
  LET last == SRMin(srTotal, srRead + SRChunkSize)
  IN  /\ srProducer = "reading" /\ srState = "active"
      /\ srRead' = last /\ srProducer' = "putting"
      /\ srChunk' = IF SRLast(last) THEN SRPiece("last", <<>>) ELSE SRPiece("rows", SRChunks(srRead, last))
      /\ UNCHANGED <<srTotal, srState, srError, srQueue, srConsumer, srGot, srCancel>>

\* The source raises: rows of the chunk it was reading are gone.  The state that is
\* overwritten may have changed since the loop's test.
SRFail ==
  /\ srProducer = "reading"
  /\ srError' = TRUE /\ srState' = "error"
  /\ srProducer' = "putting" /\ srChunk' = SRPiece("none", <<>>)
  /\ UNCHANGED <<srTotal, srRead, srQueue, srConsumer, srGot, srCancel>>

\* The loop ends in any state but ACTIVE, also in PAUSED.
SRLeave ==
  /\ srProducer = "reading" /\ srState # "active"
  /\ srProducer' = "ended"
  /\ UNCHANGED <<srTotal, srState, srError, srRead, srChunk, srQueue, srConsumer, srGot, srCancel>>

\* Mutant of SRRoom: one chunk too many.
SRRoomOneMore == Len(srQueue) <= SRBuffered

SRRoom == Len(srQueue) < SRBuffered

\* put() waits for room; the producer goes on after a chunk of rows.
SRPut ==
  /\ srProducer = "putting" /\ SRRoom
  /\ srQueue' = Append(srQueue, srChunk)
  /\ srProducer' = IF srChunk.kind = "rows" THEN "reading" ELSE "ended"
  /\ UNCHANGED <<srTotal, srState, srError, srRead, srChunk, srConsumer, srGot, srCancel>>

-----------------------------------------------------------------------------
(* The consumer: __next__. *)

SRNextCalled ==
  /\ srConsumer = "idle" /\ srState # "pending"
  /\ srConsumer' = CASE srState = "error"     -> "raised"
                     [] srState = "cancelled" -> "stopped"
                     [] OTHER                 -> "getting"
  /\ UNCHANGED <<srTotal, srState, srError, srRead, srProducer, srChunk, srQueue, srGot, srCancel>>

\* Mutant of SRTaken: the newest chunk first.
SRTakenNewest == srQueue[Len(srQueue)]

SRTaken == Head(srQueue)

\* get() has a chunk; the last one, or None, makes the stream COMPLETED whatever it was.
SRGet ==
  /\ srConsumer = "getting" /\ srQueue # <<>>
  /\ srQueue' = Tail(srQueue)
  /\ srGot' = srGot \o SRTaken.rows
  /\ IF SRTaken.kind = "rows"
     THEN srConsumer' = "idle" /\ UNCHANGED srState
     ELSE srConsumer' = "stopped" /\ srState' = "completed"
  /\ UNCHANGED <<srTotal, srError, srRead, srProducer, srChunk, srCancel>>

\* get() raises Empty after 30 seconds.
SRGiveUp ==
  /\ srConsumer = "getting" /\ srQueue = <<>>
  /\ srConsumer' = "gave up"
  /\ UNCHANGED <<srTotal, srState, srError, srRead, srProducer, srChunk, srQueue, srGot, srCancel>>

-----------------------------------------------------------------------------
(* Control, from any thread. *)

\* pause and resume; nothing starts a producer again that has left its loop.
SRPause ==
  /\ srState = "active" /\ srState' = "paused"
  /\ UNCHANGED <<srTotal, srError, srRead, srProducer, srChunk, srQueue, srConsumer, srGot, srCancel>>

SRResume ==
  /\ srState = "paused" /\ srState' = "active"
  /\ UNCHANGED <<srTotal, srError, srRead, srProducer, srChunk, srQueue, srConsumer, srGot, srCancel>>

\* cancel, by its caller or by close_stream, then its loop of get_nowait.
SRCancelled ==
  /\ srCancel = "no" /\ srCancel' = "draining" /\ srState' = "cancelled"
  /\ UNCHANGED <<srTotal, srError, srRead, srProducer, srChunk, srQueue, srConsumer, srGot>>

\* Mutant of SRDrain: cancel leaves the queue as it is.
SRDrainNot ==
  /\ srCancel = "draining" /\ srCancel' = "done"
  /\ UNCHANGED <<srTotal, srState, srError, srRead, srProducer, srChunk, srQueue, srConsumer, srGot>>

SRDrain ==
  /\ srCancel = "draining"
  /\ IF srQueue = <<>>
     THEN srCancel' = "done" /\ UNCHANGED srQueue
     ELSE srQueue' = Tail(srQueue) /\ UNCHANGED srCancel
  /\ UNCHANGED <<srTotal, srState, srError, srRead, srProducer, srChunk, srConsumer, srGot>>

SRNext ==
  \/ SRStart \/ SRFetch \/ SRFail \/ SRLeave \/ SRPut
  \/ SRNextCalled \/ SRGet \/ SRGiveUp
  \/ SRPause \/ SRResume \/ SRCancelled \/ SRDrain

\* Both threads run, the source answers, and the consumer iterates to the end.
SRFairness ==
  /\ WF_srVars(SRFetch \/ SRLeave) /\ WF_srVars(SRPut)
  /\ WF_srVars(SRNextCalled) /\ WF_srVars(SRGet) /\ WF_srVars(SRDrain)

SRSpec == SRInit /\ [][SRNext]_srVars /\ SRFairness

-----------------------------------------------------------------------------
(* Properties. *)

SRPieces == [kind : {"rows", "last", "none"}, rows : Seq(1..SRRows)]

\* Every variable has its type, and the queue never holds more than it may: a producer
\* that is ahead waits.
SRTypeOK ==
  /\ srTotal \in 0..SRRows /\ srRead \in 0..srTotal /\ srError \in BOOLEAN
  /\ srState \in {"pending", "active", "paused", "completed", "cancelled", "error"}
  /\ srProducer \in {"none", "reading", "putting", "ended"}
  /\ srConsumer \in {"idle", "getting", "stopped", "raised", "gave up"}
  /\ srChunk \in SRPieces /\ srQueue \in Seq(SRPieces) /\ Len(srQueue) <= SRBuffered
  /\ srGot \in Seq(1..srTotal) /\ srCancel \in {"no", "draining", "done"}

\* Until it is cancelled, the consumer has the source's first rows in their order, each
\* once, and all of them when the stream has completed without an error, through pauses,
\* resumptions and a full queue.
SRFaithful ==
  srCancel = "no" =>
    /\ srGot = SRChunks(0, Len(srGot))
    /\ srState = "completed" /\ ~srError => Len(srGot) = srTotal

\* A cancelled stream lets its producer go, also one that was waiting for room in the queue.
SRLetsGo == srCancel # "no" ~> srProducer \in {"none", "ended"}

\* Left alone, with a source that does not fail and a get that does not time out, a stream
\* that was started completes.
SRCompletes ==
  [](srState \notin {"paused", "cancelled"} /\ ~srError /\ srConsumer # "gave up")
    => (srState = "active" ~> srConsumer = "stopped")
=============================================================================
