----------------------------- MODULE TimeSeries -----------------------------
(***************************************************************************)
(* timeseries.py and batch_timeseries.py: a hypertable, whose points lie   *)
(* in partitions by time.  Threads insert, one queries and puts the points *)
(* in buckets, one applies the retention policy and then drops the empty   *)
(* partitions.  The table's lock protects the list of partitions, except   *)
(* when they are dropped; each partition's lock protects its points.       *)
(***************************************************************************)
EXTENDS Naturals, Sequences, FiniteSets, SequencesExt


CONSTANTS
  TSWriters,
  TSInterval, \* chunk_interval
  TSSource,   \* the size of the buckets
  TSTarget,   \* that of the buckets they are downsampled to
  TSTimes,    \* the times of points
  TSRanges,   \* the ranges of queries: <<from, to>>
  TSCutoffs,  \* the times up to which the policy deletes: the present less raw_ttl
  TSParts     \* bound: partitions made

ASSUME TSAssumption ==
  /\ {TSInterval, TSSource, TSTarget} \subseteq Nat \ {0} /\ TSTimes \cup TSCutoffs \cup {TSParts} \subseteq Nat /\ TSRanges \subseteq Nat \X Nat
  /\ TSTarget % TSSource = 0

VARIABLES
  tsObjects,   \* the partitions ever made: [start, data], data the times of its points
  tsList,      \* the partitions of the table: a set of objects
  tsWriter,    \* of each thread: its step, the time of its point and the partition it holds
  tsQuery,     \* the query: its step, range, partitions to visit, points found, and history:
               \* the points that must be there
  tsRetention, \* the retention: its step, cutoff, and the partitions to visit
  tsStored,    \* history: the times of the points whose insert has returned
  tsLost       \* history: of those, the ones put in a partition dropped or about to be

tsVars == <<tsObjects, tsList, tsWriter, tsQuery, tsRetention, tsStored, tsLost>>

TSNoQuery == [at |-> "idle", from |-> 0, to |-> 0, visit |-> {}, found |-> {}, must |-> {}]
TSNoRetention == [at |-> "idle", cutoff |-> 0, visit |-> {}]

TSInit ==
  /\ tsObjects = <<>> /\ tsList = {} /\ tsStored = {} /\ tsLost = {}
  /\ tsWriter = [w \in TSWriters |-> [at |-> "idle", time |-> 0, object |-> 0]]
  /\ tsQuery = TSNoQuery /\ tsRetention = TSNoRetention

TSPoints == UNION {tsObjects[o].data : o \in tsList}

-----------------------------------------------------------------------------
(* insert. *)

\* get_bucket_start, and the partition of a time.
TSStart(time, size) == (time \div size) * size

\* Mutant of TSThere: a partition that is empty is not seen.
TSThereFull(start) == {o \in tsList : tsObjects[o].start = start /\ tsObjects[o].data # {}}

TSThere(start) == {o \in tsList : tsObjects[o].start = start}

\* _get_partition, which waits while the retention has the lock.
TSHold(w, time) ==
  LET start == TSStart(time, TSInterval)
      there == TSThere(start)
  IN  /\ tsWriter[w].at = "idle" /\ tsRetention.at # "deleting"
      /\ there # {} \/ Len(tsObjects) < TSParts
      /\ IF there # {} THEN UNCHANGED <<tsObjects, tsList>>
         ELSE /\ tsObjects' = Append(tsObjects, [start |-> start, data |-> {}])
              /\ tsList' = tsList \cup {Len(tsObjects')}
      /\ tsWriter' = [tsWriter EXCEPT ![w] = [at |-> "holds", time |-> time,
                        object |-> IF there # {} THEN CHOOSE o \in there : TRUE ELSE Len(tsObjects) + 1]]
      /\ UNCHANGED <<tsQuery, tsRetention, tsStored, tsLost>>

\* The partition takes the point, in place of one with the same time, whether the table has the
\* partition or not.
TSPut(w) ==
  LET o == tsWriter[w].object  time == tsWriter[w].time
  IN  /\ tsWriter[w].at = "holds"
      /\ tsObjects' = [tsObjects EXCEPT ![o].data = @ \cup {time}]
      /\ tsWriter' = [tsWriter EXCEPT ![w].at = "idle"]
      /\ tsStored' = tsStored \cup {time}
      /\ tsLost' = IF o \notin tsList \/ (tsRetention.at = "dropping" /\ o \in tsRetention.visit)
                   THEN tsLost \cup {time} ELSE tsLost \ {time}
      /\ UNCHANGED <<tsList, tsQuery, tsRetention>>

-----------------------------------------------------------------------------
(* query and time_bucket. *)

\* Mutant of TSVisited: a partition that ends where the range starts plus one is passed over.
TSVisitedNot(start, from, to) == start + TSInterval > from + 1 /\ start <= to

\* The partitions a query does not pass over.
TSVisited(start, from, to) == start + TSInterval >= from /\ start <= to

TSAsk(from, to) ==
  /\ tsQuery.at = "idle" /\ tsRetention.at # "deleting"
  /\ tsQuery' = [at |-> "visiting", from |-> from, to |-> to, found |-> {},
                 visit |-> {o \in tsList : TSVisited(tsObjects[o].start, from, to)},
                 must |-> {t \in TSPoints : from <= t /\ t <= to}]
  /\ UNCHANGED <<tsObjects, tsList, tsWriter, tsRetention, tsStored, tsLost>>

TSVisit ==
  \E o \in tsQuery.visit :
    /\ tsQuery' = [tsQuery EXCEPT !.visit = @ \ {o},
                     !.found = @ \cup {t \in tsObjects[o].data : tsQuery.from <= t /\ t <= tsQuery.to}]
    /\ UNCHANGED <<tsObjects, tsList, tsWriter, tsRetention, tsStored, tsLost>>

TSAnswer ==
  /\ tsQuery.at = "visiting" /\ tsQuery.visit = {}
  /\ tsQuery' = TSNoQuery
  /\ UNCHANGED <<tsObjects, tsList, tsWriter, tsRetention, tsStored, tsLost>>

\* time_bucket, of points whose values are their times.
TSBuckets(points, size) == {TSStart(t, size) : t \in points}
TSIn(points, start, size) == {t \in points : TSStart(t, size) = start}

\* Mutant of TSAverage: the mean of what is there over all that could be.
TSAverageAll(values) == SumSet(values) \div TSTarget

TSAverage(values) == SumSet(values) \div Cardinality(values)

\* downsample: the mean of the source buckets' values, here their maxima, whatever they aggregate.
TSDownsampled(points, start) ==
  TSAverage({Max(TSIn(points, s, TSSource)) : s \in {x \in TSBuckets(points, TSSource) : TSStart(x, TSTarget) = start}})

-----------------------------------------------------------------------------
(* apply_retention_policy and apply_retention_batch. *)

TSRetain(cutoff) ==
  /\ tsRetention.at = "idle"
  /\ tsRetention' = [at |-> "deleting", cutoff |-> cutoff, visit |-> tsList]
  /\ UNCHANGED <<tsObjects, tsList, tsWriter, tsQuery, tsStored, tsLost>>

\* One partition: a query that has it still to visit need not find what goes here.
TSExpire ==
  \E o \in tsRetention.visit :
    LET old == {t \in tsObjects[o].data : t <= tsRetention.cutoff}
    IN  /\ tsRetention.at = "deleting"
        /\ tsObjects' = [tsObjects EXCEPT ![o].data = @ \ old]
        /\ tsRetention' = [tsRetention EXCEPT !.visit = @ \ {o}]
        /\ tsQuery' = [tsQuery EXCEPT !.must = @ \ old]
        /\ tsStored' = tsStored \ old
        /\ UNCHANGED <<tsList, tsWriter, tsLost>>

\* Mutant of TSDroppable: any partition that begins before the cutoff.
TSDroppableOld(o) == tsObjects[o].start <= tsRetention.cutoff

TSDroppable(o) == tsObjects[o].data = {}

\* The lock is released, and the empty partitions are listed.
TSListEmpty ==
  /\ tsRetention.at = "deleting" /\ tsRetention.visit = {}
  /\ tsRetention' = [tsRetention EXCEPT !.at = "dropping", !.visit = {o \in tsList : TSDroppable(o)}]
  /\ UNCHANGED <<tsObjects, tsList, tsWriter, tsQuery, tsStored, tsLost>>

\* One of them goes, with what was put in it since.
TSDrop ==
  \E o \in tsRetention.visit :
    /\ tsRetention.at = "dropping"
    /\ tsList' = tsList \ {o}
    /\ tsRetention' = [tsRetention EXCEPT !.visit = @ \ {o}]
    /\ UNCHANGED <<tsObjects, tsWriter, tsQuery, tsStored, tsLost>>

TSRetained ==
  /\ tsRetention.at = "dropping" /\ tsRetention.visit = {} /\ tsRetention' = TSNoRetention
  /\ UNCHANGED <<tsObjects, tsList, tsWriter, tsQuery, tsStored, tsLost>>

TSNext ==
  \/ \E w \in TSWriters : TSPut(w) \/ \E time \in TSTimes : TSHold(w, time)
  \/ \E range \in TSRanges : TSAsk(range[1], range[2])
  \/ TSVisit \/ TSAnswer
  \/ (\E cutoff \in TSCutoffs : TSRetain(cutoff)) \/ TSExpire \/ TSListEmpty \/ TSDrop \/ TSRetained

-----------------------------------------------------------------------------
(* Properties. *)

\* Every variable has its type; the table has one partition of a time, which has no points of
\* another.
TSTypeOK ==
  /\ tsList \subseteq 1..Len(tsObjects)
  /\ \A o \in DOMAIN tsObjects : \A t \in tsObjects[o].data : TSStart(t, TSInterval) = tsObjects[o].start
  /\ \A o, p \in tsList : tsObjects[o].start = tsObjects[p].start => o = p
  /\ tsRetention.at \in {"idle", "deleting", "dropping"} /\ tsQuery.at \in {"idle", "visiting"}

\* A point whose insert has returned is in the table until the policy lets it go, unless it was
\* put in a partition that was found empty before and is dropped.
TSKept == tsStored \ tsLost \subseteq TSPoints

\* A query finds every point of its range that was there when it began and was not let go since.
TSFound == tsQuery.at = "visiting" /\ tsQuery.visit = {} => tsQuery.must \subseteq tsQuery.found

\* What a query's points are downsampled to lies, in each bucket, between the least and the
\* greatest of them there.
TSWithin ==
  \A s \in TSBuckets(tsQuery.found, TSTarget) :
    LET direct == TSIn(tsQuery.found, s, TSTarget)
    IN  TSDownsampled(tsQuery.found, s) \in Min(direct)..Max(direct)
=============================================================================
