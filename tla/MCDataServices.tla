--------------------------- MODULE MCDataServices ---------------------------
(***************************************************************************)
(* Components that share no state, checked side by side: each behaviour    *)
(* exercises one of them, its service, and leaves the others alone.  The   *)
(* states are those of the components one after the other, not their       *)
(* product.                                                                *)
(***************************************************************************)
EXTENDS
  QueryCaches, PreparedStatements, BatchExecutor, BatchLogs, SelectResults,
  SessionRecovery, AccessControl, ClientProtocols, Tenants, DistributedTx, ManyServers,
  DependencyOrders, Search, TimeSeries, Maintenance, Geometry, StatementTexts,
  ConnectionServer, Failover

CONSTANTS c1, c2, c3, s1, s2, s3, x, y, a, b, ta, tb, qa, qA, qb, r1, r2, k1, k2, k3,
  b1, b2, n1, u1, u2, z1, z2, z3, p1, p2

VARIABLE service

\* qa and qA differ in the case of a literal.
MCKey      == [q \in {qa, qA, qb} |-> IF q = qb THEN qb ELSE qa]
MCReads    == [q \in {qa, qA, qb} |-> {ta}]
\* qA joins both tables; n1 is the text of an INSERT.
MCJoins    == [q \in {qa, qA, qb, n1} |-> CASE q = qa -> {ta} [] q = qA -> {ta, tb} [] q = qb -> {tb} [] q = n1 -> {}]
MCTarget   == [q \in {n1} |-> ta]

MCScore    == [q \in {qa, qb} |-> IF q = qb THEN 6 ELSE 4]
MCRoleSets == {{p1}, {p2}}

\* A column with an index or without, in an empty table or one of 250 rows.
MCAsk(kind, op, value, order, limit) ==
  [kind |-> kind, table |-> ta, column |-> n1, op |-> op, value |-> value, order |-> order, limit |-> limit]
MCAsks     == {MCAsk("SELECT", "=", qa, FALSE, 9), MCAsk("SELECT", "=", qA, FALSE, 9),
               MCAsk("SELECT", ">", qa, TRUE, 1), MCAsk("SELECT", "", qa, TRUE, 0),
               MCAsk("UPDATE", "=", qa, FALSE, 9), MCAsk("DELETE", ">", qa, FALSE, 9),
               MCAsk("INSERT", "", qa, FALSE, 9)}
MCStatistics == {[rows |-> 0, distinct |-> 0, indexed |-> {}], [rows |-> 250, distinct |-> 50, indexed |-> {n1}],
                 [rows |-> 250, distinct |-> 50, indexed |-> {}]}

MCPacked == [n \in {"gzip", "lz4", "zstd"} |-> [s \in {5, 10} |-> IF s = 5 THEN 5 ELSE IF n = "zstd" THEN 4 ELSE 9]]
MCEncodings == {<<>>, <<"identity">>, <<"deflate">>, <<"lz4", "zstd">>, <<"none", "gzip">>}

\* Both threads come with the same connection.
MCSameConnection == [t \in {r1, r2} |-> n1]

TwoShards == <<s1, s2>>
TwoTables == <<ta, tb>>

\* Three shards with two virtual nodes each; x lies after the last node.
MCNodes  == [s \in {s1, s2, s3} |-> CASE s = s1 -> {1, 2} [] s = s2 -> {3, 6} [] s = s3 -> {4, 5}]
MCHash   == [k \in {x, y} |-> IF k = x THEN 8 ELSE 4]
MCPlace  == [k \in {x, y} |-> IF k = x THEN 2 ELSE 4]
MCBounds == {<<0, 0>>, <<0, 3>>, <<3, 0>>, <<3, 4>>}

MCOp(type, file, compress, verify, goOn) ==
  [type |-> type, file |-> file, compress |-> compress, verify |-> verify, goOn |-> goOn]
MCChains ==
  {<<MCOp("backup", a, TRUE, FALSE, FALSE), MCOp("verify", a, TRUE, FALSE, TRUE), MCOp("restore", a, TRUE, FALSE, FALSE)>>,
   <<MCOp("backup", b, FALSE, FALSE, FALSE), MCOp("restore", b, TRUE, TRUE, FALSE), MCOp("verify", a, TRUE, FALSE, FALSE)>>}

MCCommands == [batch \in {b1, b2} |-> IF batch = b1 THEN <<"insert", "delete">> ELSE <<"delete", "insert">>]

\* All operations, part of a batch with its markers, and with one of the two.
MCFilters == {{}, {"start", "insert", "end"}, {"start", "insert"}, {"insert", "end"}}

MCTexts  == {<<x>>, <<y, x>>, <<x, x, y>>}
MCRanges == {<<1, 2>>}

MCPoint(p)     == [kind |-> "point", points |-> <<p>>, radius |-> 0]
MCCircle(p, r) == [kind |-> "circle", points |-> <<p>>, radius |-> r]
MCBlock(p, q)  == [kind |-> "polygon", points |-> <<p, <<p[1], q[2]>>, q, <<q[1], p[2]>>>>, radius |-> 0]
MCObjects      == {[id |-> a, geometry |-> MCPoint(<<1, 1>>)], [id |-> a, geometry |-> MCPoint(<<8, 8>>)],
                   [id |-> b, geometry |-> MCCircle(<<3, 3>>, 2)], [id |-> b, geometry |-> MCBlock(<<2, 2>>, <<5, 5>>)]}
MCAreas        == {MCPoint(<<4, 4>>), MCCircle(<<1, 3>>, 2), MCCircle(<<6, 6>>, 4), MCBlock(<<0, 0>>, <<1, 2>>),
                   MCBlock(<<7, 7>>, <<9, 9>>)}
MCPlaces       == {0, 1, 9, 32, 64} \X {0, 8, 31, 64}
MCCorners      == {<<0, 0>>, <<0, 4>>, <<4, 4>>, <<4, 0>>, <<2, 1>>, <<1, 4>>}
MCInside       == (0..4) \X (0..4)

\* The table is new, or of an older version with the rows of its aggregated index.
MCSchemas   == {[pk |-> k1, indexes |-> {k2}], [pk |-> n1, indexes |-> {k2}]}
MCOldTables == {<<>>, <<[c \in {k1, k2} |-> 1]>>, <<[c \in {k1, k2} |-> IF c = k1 THEN 1 ELSE 2], [c \in {k1, k2} |-> 2]>>}

MCEnvs  == [backend : {"absent", "builtin"}, small : {2, 98, 99}, medium : {99}]
MCFiles == {[backend |-> "absent", small |-> 1, medium |-> 99], [backend |-> "typo", small |-> 99, medium |-> 99],
            [backend |-> "builtin", small |-> 2, medium |-> 3], [backend |-> "builtin", small |-> 2, medium |-> 4]}

\* Two nodes that know each other, and a single-node cluster which another node has been told to join.
TwoNodes   == {a, b}
Pair       == [n \in TwoNodes |-> TwoNodes \ {n}]
Joiner     == [n \in TwoNodes |-> IF n = b THEN {a} ELSE {}]
Both       == {Pair, Joiner}

allVars ==
  <<service, rcVars, pcVars, psVars, beVars, bcVars, rwVars, ssVars, auVars, raVars,
  qpVars, pwVars, mwVars, tqVars, tbVars, bzVars, dtVars, rtVars, roVars, ftVars, viVars,
  bbVars, smVars, tsVars, bkVars, ghVars, spVars, csVars, diVars, fcVars, ugVars, dxVars,
  svVars, slVars, snVars, vkVars, soVars, sgVars, vuVars, failoverVars>>

\* Every component but the one that runs stays as it began.
Others(s) ==
  /\ s # "results" => UNCHANGED rcVars
  /\ s # "plans" => UNCHANGED pcVars
  /\ s # "prepared" => UNCHANGED psVars
  /\ s # "batches" => UNCHANGED beVars
  /\ s # "batch changes" => UNCHANGED bcVars
  /\ s # "cursor" => UNCHANGED rwVars
  /\ s # "sessions" => UNCHANGED ssVars
  /\ s # "audit" => UNCHANGED auVars
  /\ s # "roles" => UNCHANGED raVars
  /\ s # "planner" => UNCHANGED qpVars
  /\ s # "postgres" => UNCHANGED pwVars
  /\ s # "mysql" => UNCHANGED mwVars
  /\ s # "tenants" => UNCHANGED tqVars
  /\ s # "tenant batch" => UNCHANGED tbVars
  /\ s # "compression" => UNCHANGED bzVars
  /\ s # "transactions" => UNCHANGED dtVars
  /\ s # "routing" => UNCHANGED rtVars
  /\ s # "refresh all" => UNCHANGED roVars
  /\ s # "full text" => UNCHANGED ftVars
  /\ s # "vectors" => UNCHANGED viVars
  /\ s # "batch binlog" => UNCHANGED bbVars
  /\ s # "migrations" => UNCHANGED smVars
  /\ s # "series" => UNCHANGED tsVars
  /\ s # "backups" => UNCHANGED bkVars
  /\ s # "geohash" => UNCHANGED ghVars
  /\ s # "geometry" => UNCHANGED spVars
  /\ s # "splitter" => UNCHANGED csVars
  /\ s # "dump" => UNCHANGED diVars
  /\ s # "framing" => UNCHANGED fcVars
  /\ s # "users" => UNCHANGED ugVars
  /\ s # "dumptext" => UNCHANGED dxVars
  /\ s # "server sessions" => UNCHANGED svVars
  /\ s # "select" => UNCHANGED slVars
  /\ s # "snapshot backup" => UNCHANGED snVars
  /\ s # "clocks" => UNCHANGED vkVars
  /\ s # "sort" => UNCHANGED soVars
  /\ s # "settings" => UNCHANGED sgVars
  /\ s # "upgrade" => UNCHANGED vuVars
  /\ s # "election" => UNCHANGED failoverVars
  /\ UNCHANGED service

Init ==
  /\ service \in
       {"results", "plans", "prepared", "batches", "batch changes", "cursor", "sessions",
       "audit", "roles", "planner", "postgres", "mysql", "tenants", "tenant batch",
       "compression", "transactions", "routing", "refresh all", "full text", "vectors",
       "batch binlog", "migrations", "series", "backups", "geohash", "geometry",
       "splitter", "dump", "framing", "users", "dumptext", "server sessions", "select",
       "snapshot backup", "clocks", "sort", "settings", "upgrade", "election"}
  /\ RCInit
  /\ PCInit
  /\ PSInit
  /\ BEInit
  /\ BCInit /\ (service # "batch changes" => bcConsumer.tables = {} /\ bcConsumer.operations = {})
  /\ RWInit /\ (service # "cursor" => rwTotal = 0)
  /\ SSInit
  /\ AUInit
  /\ RAInit
  /\ QPInit
  /\ PWInit
  /\ MWInit
  /\ TQInit
  /\ TBInit
  /\ BZInit /\ (service # "compression" => bzConfig.threshold = 0)
  /\ DTInit /\ (service # "transactions" => dtOrderly)
  /\ RTInit /\ (service # "routing" => rtStrategy = "hash")
  /\ ROInit /\ (service # "refresh all" => \A v \in ROViews : roReads[v] = {}) /\ \A v \in ROViews : v \notin roReads[v] /\ (v = s1 \/ Cardinality(roReads[v]) <= 1)
  /\ FTInit
  /\ VIInit
  /\ BBInit
  /\ SMInit
  /\ TSInit
  /\ BKInit /\ (service # "backups" => bkEngine.current = x)
  /\ GHInit
  /\ SPInit
  /\ CSInit /\ (service # "splitter" => csChar = ";")
  /\ DIInit
  /\ FCInit
  /\ UGInit
  /\ DXInit
  /\ SVInit
  /\ SLInit /\ (service # "select" => slRows = <<>> /\ slSchema.pk = k1)
  /\ SNInit
  /\ VKInit
  /\ SOInit /\ (service # "sort" => soInstalled = {} /\ soNative = FALSE)
  /\ SGInit /\ (service # "settings" => sgNamed = FALSE)
  /\ VUInit /\ (service # "upgrade" => vuSingle = FALSE /\ vuTables = {})
  /\ FailoverInit /\ (service # "election" => peers = Joiner)

Next ==
  \/ service = "results" /\ RCNext /\ Others("results")
  \/ service = "plans" /\ PCNext /\ Others("plans")
  \/ service = "prepared" /\ PSNext /\ Others("prepared")
  \/ service = "batches" /\ BENext /\ Others("batches")
  \/ service = "batch changes" /\ BCNext /\ Others("batch changes")
  \/ service = "cursor" /\ RWNext /\ Others("cursor")
  \/ service = "sessions" /\ SSNext /\ Others("sessions")
  \/ service = "audit" /\ AUNext /\ Others("audit")
  \/ service = "roles" /\ RANext /\ Others("roles")
  \/ service = "planner" /\ QPNext /\ Others("planner")
  \/ service = "postgres" /\ PWNext /\ Others("postgres")
  \/ service = "mysql" /\ MWNext /\ Others("mysql")
  \/ service = "tenants" /\ TQNext /\ Others("tenants")
  \/ service = "tenant batch" /\ TBNext /\ Others("tenant batch")
  \/ service = "compression" /\ BZNext /\ Others("compression")
  \/ service = "transactions" /\ DTNextStep /\ Others("transactions")
  \/ service = "routing" /\ RTNext /\ Others("routing")
  \/ service = "refresh all" /\ RONext /\ Others("refresh all")
  \/ service = "full text" /\ FTNext /\ Others("full text")
  \/ service = "vectors" /\ VINext /\ Others("vectors")
  \/ service = "batch binlog" /\ BBNext /\ Others("batch binlog")
  \/ service = "migrations" /\ SMNext /\ Others("migrations")
  \/ service = "series" /\ TSNext /\ Others("series")
  \/ service = "backups" /\ BKNext /\ Others("backups")
  \/ service = "geohash" /\ GHNext /\ Others("geohash")
  \/ service = "geometry" /\ SPNext /\ Others("geometry")
  \/ service = "splitter" /\ CSNext /\ Others("splitter")
  \/ service = "dump" /\ DINext /\ Others("dump")
  \/ service = "framing" /\ FCNext /\ Others("framing")
  \/ service = "users" /\ UGNext /\ Others("users")
  \/ service = "dumptext" /\ DXNext /\ Others("dumptext")
  \/ service = "server sessions" /\ SVNext /\ Others("server sessions")
  \/ service = "select" /\ SLNext /\ Others("select")
  \/ service = "snapshot backup" /\ SNNext /\ Others("snapshot backup")
  \/ service = "clocks" /\ VKNext /\ Others("clocks")
  \/ service = "sort" /\ SONext /\ Others("sort")
  \/ service = "settings" /\ SGNext /\ Others("settings")
  \/ service = "upgrade" /\ VUNext /\ Others("upgrade")
  \/ service = "election" /\ FailoverNext /\ Others("election")

Spec == Init /\ [][Next]_allVars

-----------------------------------------------------------------------------
(* What TLC tells two states apart by: the component that runs and its     *)
(* variables.  The others' have one initial value each, and keep it.       *)

MCView ==
  CASE service = "results" -> <<service, rcVars>>
    [] service = "plans" -> <<service, pcVars>>
    [] service = "prepared" -> <<service, psVars>>
    [] service = "batches" -> <<service, beVars>>
    [] service = "batch changes" -> <<service, bcVars>>
    [] service = "cursor" -> <<service, rwVars>>
    [] service = "sessions" -> <<service, ssVars>>
    [] service = "audit" -> <<service, auVars>>
    [] service = "roles" -> <<service, raVars>>
    [] service = "planner" -> <<service, qpVars>>
    [] service = "postgres" -> <<service, pwVars>>
    [] service = "mysql" -> <<service, mwVars>>
    [] service = "tenants" -> <<service, tqVars>>
    [] service = "tenant batch" -> <<service, tbVars>>
    [] service = "compression" -> <<service, bzVars>>
    [] service = "transactions" -> <<service, dtVars>>
    [] service = "routing" -> <<service, rtVars>>
    [] service = "refresh all" -> <<service, roVars>>
    [] service = "full text" -> <<service, ftVars>>
    [] service = "vectors" -> <<service, viVars>>
    [] service = "batch binlog" -> <<service, bbVars>>
    [] service = "migrations" -> <<service, smVars>>
    [] service = "series" -> <<service, tsVars>>
    [] service = "backups" -> <<service, bkVars>>
    [] service = "geohash" -> <<service, ghVars>>
    [] service = "geometry" -> <<service, spVars>>
    [] service = "splitter" -> <<service, csVars>>
    [] service = "dump" -> <<service, diVars>>
    [] service = "framing" -> <<service, fcVars>>
    [] service = "users" -> <<service, ugVars>>
    [] service = "dumptext" -> <<service, dxVars>>
    [] service = "server sessions" -> <<service, svVars>>
    [] service = "select" -> <<service, slVars>>
    [] service = "snapshot backup" -> <<service, snVars>>
    [] service = "clocks" -> <<service, vkVars>>
    [] service = "sort" -> <<service, soVars>>
    [] service = "settings" -> <<service, sgVars>>
    [] service = "upgrade" -> <<service, vuVars>>
    [] service = "election" -> <<service, failoverVars>>

-----------------------------------------------------------------------------
(* Properties.  The components' own, each stated with its comment in its   *)
(* module, put together by what they are about.                            *)

\* Every component's state is of its types, and of the shape its code relies on.
ServicesTypeOK ==
  /\ service = "results"         => RCTypeOK
  /\ service = "plans"           => PCTypeOK
  /\ service = "planner"         => QPTypeOK
  /\ service = "prepared"        => PSTypeOK
  /\ service = "batches"         => BETypeOK
  /\ service = "settings"        => SGTypeOK
  /\ service = "full text"       => FTTypeOK
  /\ service = "vectors"         => VITypeOK
  /\ service = "geometry"        => SPTypeOK
  /\ service = "series"          => TSTypeOK
  /\ service = "select"          => SLTypeOK
  /\ service = "sort"            => SOTypeOK
  /\ service = "splitter"        => CSTypeOK
  /\ service = "dumptext"        => DXTypeOK
  /\ service = "dump"            => DITypeOK
  /\ service = "compression"     => BZTypeOK
  /\ service = "framing"         => FCTypeOK
  /\ service = "postgres"        => PWTypeOK
  /\ service = "mysql"           => MWTypeOK
  /\ service = "cursor"          => RWTypeOK
  /\ service = "sessions"        => SSTypeOK
  /\ service = "server sessions" => SVTypeOK
  /\ service = "users"           => UGTypeOK
  /\ service = "tenants"         => TQTypeOK
  /\ service = "tenant batch"    => TBTypeOK
  /\ service = "audit"           => AUTypeOK
  /\ service = "roles"           => RATypeOK
  /\ service = "batch changes"   => BCTypeOK
  /\ service = "batch binlog"    => BBTypeOK
  /\ service = "migrations"      => SMTypeOK
  /\ service = "backups"         => BKTypeOK
  /\ service = "snapshot backup" => SNTypeOK
  /\ service = "upgrade"         => VUTypeOK
  /\ service = "transactions"    => DTTypeOK
  /\ service = "routing"         => RTTypeOK
  /\ service = "refresh all"     => ROTypeOK
  /\ service = "clocks"          => VKTypeOK

\* What is kept to save work is never older than its code says: cached results
\* (query_cache.py, batch_query_cache.py), the tables' lists of plans and the lists of prepared
\* statements, which find all they must drop, the optimizer's estimates, the settings of the
\* sort engine, with the file they come from, and the rows of two masters that met, of which
\* the later one is left (replication.py).
NothingStale ==
  /\ service = "results"  => RCFresh
  /\ service = "plans"    => PCIndexed
  /\ service = "prepared" => PSIndexExact
  /\ service = "batches"  => BEFresh
  /\ service = "planner"  => QPEstimates
  /\ service = "settings" => SGRecent /\ SGFileDecides
  /\ service = "clocks"   => VKCausal /\ VKAgree /\ VKSettles /\ VKSkipsOld

\* A search finds what it should and nothing else, whatever was written before and while it
\* ran: texts, vectors, areas and cells of a map, points in time, the rows of a SELECT by each
\* of its paths, the shard of a key, and the first elements of a list that is sorted.
SearchesTrue ==
  /\ service = "full text" => FTExact /\ FTAnswers
  /\ service = "vectors"   => VIExact
  /\ service = "geometry"  => SPSearchable /\ SPFinds
  /\ service = "geohash"   => GHCellOf /\ GHBeside /\ GHTriangle
  /\ service = "series"    => TSKept /\ TSFound /\ TSWithin
  /\ service = "select"    => SLTruthful /\ SLFindsKnown /\ SLInOrder
  /\ service = "routing"   => RTStable
  /\ service = "sort"      => SOFirst /\ SOTies

\* A text that is packed, cut or written in another form comes back as it was: commands out of
\* a script, a dump and its import, and compressed responses.
TextsComeBack ==
  /\ service = "splitter"    => CSCommands /\ CSOldCommands
  /\ service = "dumptext"    => DXStatementsWhole /\ DXColumnsKept /\ DXValueBack
  /\ service = "dump"        => DIAllBack /\ DIOneHalfDone
  /\ service = "compression" => BZRoundTrip /\ BZSaves /\ BZAsked


\* What belongs to one session, user or tenant is not given to, or counted for, another:
\* databases chosen with USE, privileges, quotas, the tenant of a batch, and the verdicts on
\* queries with the log of them.
EachItsOwn ==
  /\ service = "server sessions" => SVOwnDatabase /\ SVPutWhereFound /\ SVNoGhosts
  /\ service = "users"           => UGAnsweredStay /\ UGReplicas
  /\ service = "roles"           => RAAgree
  /\ service = "tenants"         => TQBalanced /\ TQRateKept
  /\ service = "tenant batch"    => TBOne /\ TBStays
  /\ service = "audit"           => AUChain /\ AUVerdicts

\* A thing of several parts is there whole or not at all, wherever it stops: a batch of
\* commands, in the binlog and in its consumers, a migration, a backup and its restore, the
\* upgrade to version 2.3.0, a REFRESH ALL, and a transaction over several shards.
WholeOrNotAtAll ==
  /\ service = "batches"         => BEStopped
  /\ service = "batch changes"   => BCAllOrNothing /\ BCExactly
  /\ service = "batch binlog"    => BBStatus /\ BBFollows
  /\ service = "migrations"      => SMExact /\ SMClosed /\ SMNotBehind
  /\ service = "backups"         => BKResults /\ BKNewest /\ BKIntoItsOwn
  /\ service = "snapshot backup" => SNOneMoment
  /\ service = "upgrade"         => VUMarkedWhole /\ VUFirstTableOnly
  /\ service = "refresh all"     => ROComplete
  /\ service = "transactions"    => DTAllAlike /\ DTFinalTrue

\* What a single step may never do: get a plan that is not of now, refresh a view before those
\* it reads, overwrite an entry of the batch binlog, sort with another backend than a strict
\* engine's, or create again what a rollback of the upgrade dropped.
StepsKept ==
  /\ QPFits /\ RODependenciesFirst /\ BBKept /\ SOStrictly /\ VUOneWay
=============================================================================
