-------------------------- MODULE ClientProtocols ---------------------------
(***************************************************************************)
(* What clients of other protocols are sent: the answers of                *)
(* sql_protocol.py in the forms of PostgreSQL and MySQL, and the packed    *)
(* ones of batch_compression.py.                                           *)
(***************************************************************************)
EXTENDS Naturals, Sequences, FiniteSets, SequencesExt

(***************************************************************************)
(* A connection of PostgresProtocol, sql_protocol.py: the server's thread  *)
(* reads the client's messages one after the other and writes its own; the *)
(* client may send ahead, and go away at any time.  A message is its type, *)
(* with what the password or the query will turn out to be.                *)
(***************************************************************************)

CONSTANT PWMessages  \* bound: messages of the client

ASSUME PWAssumption == PWMessages \in Nat

VARIABLES
  pwIn,     \* messages of the client that wait to be read
  pwSent,   \* their number so far
  pwOut,    \* messages of the server, by their type bytes
  pwServer, \* what the thread does next, and the messages of the answer under way
  pwHere,   \* the client has not gone
  pwRan     \* history: queries that were executed

pwVars == <<pwIn, pwSent, pwOut, pwServer, pwHere, pwRan>>

\* What a query may give: a status, an error text, rows, rows of which one raises, a single value.
PWResults == {"status", "error", "rows", "bad rows", "value"}

PWInputs ==
  [type : {"startup", "bad startup", "terminate", "other"}, of : {""}]
  \cup [type : {"password"}, of : {"right", "wrong"}] \cup [type : {"query"}, of : PWResults]

PWInit ==
  /\ pwIn = <<>> /\ pwSent = 0 /\ pwOut = <<>> /\ pwServer = [at |-> "startup", todo |-> <<>>]
  /\ pwHere = TRUE /\ pwRan = <<>>

PWClientSends ==
  /\ pwHere /\ pwSent < PWMessages /\ pwSent' = pwSent + 1
  /\ \E m \in PWInputs : pwIn' = Append(pwIn, m)
  /\ UNCHANGED <<pwOut, pwServer, pwHere, pwRan>>

PWClientLeaves ==
  /\ pwHere /\ pwHere' = FALSE
  /\ UNCHANGED <<pwIn, pwSent, pwOut, pwServer, pwRan>>

-----------------------------------------------------------------------------
(* The thread: handle and _execute_query. *)

\* AuthenticationOk, the key, five parameters, and the first ReadyForQuery.
PWWelcome == <<"R", "K", "S", "S", "S", "S", "S", "Z">>

\* Mutant of PWRaised: the error alone.
PWRaisedOnly(sent) == sent \o <<"E">>

\* An exception while the rows are sent: what was sent stays, then the error.
PWRaised(sent) == sent \o <<"E", "Z">>

PWAnswer(result) ==
  CASE result = "status"   -> <<"C", "Z">>
    [] result = "error"    -> <<"E", "Z">>
    [] result = "rows"     -> <<"T", "D", "D", "C", "Z">>
    [] result = "bad rows" -> PWRaised(<<"T", "D">>)
    [] result = "value"    -> <<"T", "D", "C", "Z">>

PWReads(at) == pwServer.at = at /\ pwServer.todo = <<>> /\ pwIn # <<>> /\ pwIn' = Tail(pwIn)

PWThen(at, todo) == pwServer' = [at |-> at, todo |-> todo] /\ UNCHANGED <<pwSent, pwOut, pwHere>>

\* Mutant of PWAsked: the password is not waited for.
PWAskedNot == "loop"

PWAsked == "password"

\* read_startup, and the request for the password.
PWStartup ==
  /\ PWReads("startup") /\ UNCHANGED pwRan
  /\ IF Head(pwIn).type = "startup" THEN PWThen(PWAsked, <<"R">>) ELSE PWThen("closing", <<>>)

PWPassword ==
  /\ PWReads("password") /\ UNCHANGED pwRan
  /\ IF Head(pwIn).type = "password" /\ Head(pwIn).of = "right" THEN PWThen("loop", PWWelcome)
     ELSE PWThen("closing", <<"E">>)

PWQuery ==
  /\ PWReads("loop") /\ Head(pwIn).type = "query"
  /\ pwRan' = Append(pwRan, Head(pwIn).of)
  /\ PWThen("loop", PWAnswer(Head(pwIn).of))

PWTerminate == PWReads("loop") /\ Head(pwIn).type = "terminate" /\ PWThen("closing", <<>>) /\ UNCHANGED pwRan

\* Any other message: an error, and no ReadyForQuery.
PWOther ==
  /\ PWReads("loop") /\ Head(pwIn).type \notin {"query", "terminate"}
  /\ PWThen("loop", <<"E">>) /\ UNCHANGED pwRan

\* send_message; once the client has gone it may still succeed, or raise.
PWSend ==
  /\ pwServer.todo # <<>>
  /\ pwOut' = Append(pwOut, Head(pwServer.todo)) /\ pwServer' = [pwServer EXCEPT !.todo = Tail(@)]
  /\ UNCHANGED <<pwIn, pwSent, pwHere, pwRan>>

PWBroken ==
  /\ ~pwHere /\ pwServer.at # "closed"
  /\ pwServer.todo # <<>> \/ pwIn = <<>>
  /\ pwServer' = [at |-> "closed", todo |-> <<>>]
  /\ UNCHANGED <<pwIn, pwSent, pwOut, pwHere, pwRan>>

PWClose ==
  /\ pwServer = [at |-> "closing", todo |-> <<>>]
  /\ pwServer' = [pwServer EXCEPT !.at = "closed"]
  /\ UNCHANGED <<pwIn, pwSent, pwOut, pwHere, pwRan>>

PWNext ==
  \/ PWClientSends \/ PWClientLeaves
  \/ PWStartup \/ PWPassword \/ PWQuery \/ PWTerminate \/ PWOther \/ PWSend \/ PWBroken \/ PWClose

-----------------------------------------------------------------------------
(* Properties. *)

\* Every variable has its type; a query ran only after the server had begun to welcome a client
\* with the right password.
PWTypeOK ==
  /\ pwIn \in Seq(PWInputs) /\ pwSent \in 0..PWMessages /\ pwHere \in BOOLEAN
  /\ pwServer.at \in {"startup", "password", "loop", "closing", "closed"}
  /\ pwOut \in Seq({"R", "K", "S", "Z", "T", "D", "C", "E"}) /\ pwRan \in Seq(PWResults)
  /\ pwRan # <<>> => IsPrefix(<<"R">> \o PWWelcome, pwOut)

\* What a client does with a message of the server in each of its states.
PWReceives(state, message) ==
  CASE state = "ready" /\ message \in {"C", "E"} -> "ended"
    [] state = "ready" /\ message = "T"          -> "rows"
    [] state = "rows" /\ message = "D"           -> "rows"
    [] state = "rows" /\ message \in {"C", "E"}  -> "ended"
    [] state = "ended" /\ message = "Z"          -> "ready"
    [] OTHER                                     -> "lost"

\* A client that sends queries only, however far ahead, understands all it gets: for each query
\* rows or none, one end or error and one ReadyForQuery, also when a row raises half way; and
\* whenever the thread waits for the next message, each query has had its ReadyForQuery.
PWUnderstood ==
  LET from    == Len(<<"R">> \o PWWelcome) + 1
      answers == SubSeq(pwOut, from, Len(pwOut))
      others  == pwSent - Len(pwIn) > 2 + Len(pwRan)  \* a message that is no query was read
  IN  Len(pwOut) >= from /\ ~others =>
        /\ FoldLeft(PWReceives, "ready", answers) # "lost"
        /\ pwServer = [at |-> "loop", todo |-> <<>>] =>
             Cardinality({n \in DOMAIN answers : answers[n] = "Z"}) = Len(pwRan)

-----------------------------------------------------------------------------
(***************************************************************************)
(* A connection of MySQLProtocol, sql_protocol.py.  Each packet carries a  *)
(* number of one byte: the client's command starts it, and the packets of  *)
(* the answer count on.  A number that does not fit the byte raises, and   *)
(* so does the error packet that should tell of it.                        *)
(***************************************************************************)

CONSTANTS
  MWCommands,  \* bound: commands of the client
  MWNumbers,   \* the numbers of a packet are below this; 256 in the code
  MWRows       \* the rows a query may give

ASSUME MWAssumption == MWCommands \in Nat /\ MWNumbers \in Nat /\ MWRows \subseteq Nat

VARIABLES
  mwIn,      \* packets of the client that wait to be read: what they ask
  mwSent,    \* their number so far
  mwOut,     \* packets of the server: their kind and number, and the command they answer
  mwSeq,     \* seq, of the next packet
  mwServer,  \* what the thread does next, and the packets of the answer under way
  mwHere,    \* the client has not gone
  mwCommand  \* commands read so far, 0 for the handshake

mwVars == <<mwIn, mwSent, mwOut, mwSeq, mwServer, mwHere, mwCommand>>

\* The result of a query: a list of rows, perhaps with one that raises, an error text, or
\* anything else, which is sent as one row.
MWResults == [ask : {"query"}, of : {"error", "bad rows", "value"}, rows : {1}] \cup [ask : {"query"}, of : {"rows"}, rows : MWRows]

MWInputs ==
  MWResults \cup [ask : {"login", "bad login", "quit", "ping", "other"}, of : {""}, rows : {0}]

\* send_handshake comes first.
MWInit ==
  /\ mwIn = <<>> /\ mwSent = 0 /\ mwOut = <<>> /\ mwSeq = 0
  /\ mwServer = [at |-> "login", todo |-> <<"handshake">>] /\ mwHere = TRUE /\ mwCommand = 0

MWClientSends ==
  /\ mwHere /\ mwSent <= MWCommands /\ mwSent' = mwSent + 1
  /\ \E m \in MWInputs : /\ (m.ask \in {"login", "bad login"}) = (mwSent = 0)
                         /\ mwIn' = Append(mwIn, m)
  /\ UNCHANGED <<mwOut, mwSeq, mwServer, mwHere, mwCommand>>

MWClientLeaves ==
  /\ mwHere /\ mwHere' = FALSE
  /\ UNCHANGED <<mwIn, mwSent, mwOut, mwSeq, mwServer, mwCommand>>

-----------------------------------------------------------------------------
(* The thread: handle and send_resultset. *)

\* Mutant of MWEnd: nothing marks the end of the rows.
MWEndNot == <<>>

MWEnd == <<"eof">>

MWResultset(rows) == <<"count", "column", "eof">> \o [n \in 1..rows |-> "row"]

MWAnswer(m) ==
  CASE m.of = "error"    -> <<"err">>
    [] m.of = "bad rows" -> MWResultset(1) \o <<"err">>
    [] OTHER             -> MWResultset(m.rows) \o MWEnd

\* Mutant of MWNumber: the numbers go on from the last answer.
MWNumberOn == mwSeq

\* A packet read restarts the numbers: a login was number 1, a command is 0.
MWNumber == IF mwServer.at = "login" THEN 2 ELSE 1

MWReads(at) ==
  /\ mwServer.at = at /\ mwServer.todo = <<>> /\ mwIn # <<>>
  /\ mwIn' = Tail(mwIn) /\ mwSeq' = MWNumber /\ UNCHANGED <<mwSent, mwOut, mwHere>>

MWThen(at, todo) == mwServer' = [at |-> at, todo |-> todo]

MWLogin ==
  /\ MWReads("login") /\ UNCHANGED mwCommand
  /\ IF Head(mwIn).ask = "login" THEN MWThen("loop", <<"ok">>) ELSE MWThen("closing", <<"err">>)

MWRead ==
  /\ MWReads("loop") /\ mwCommand' = mwCommand + 1
  /\ CASE Head(mwIn).ask = "quit"  -> MWThen("closing", <<>>)
       [] Head(mwIn).ask = "ping"  -> MWThen("loop", <<"ok">>)
       [] Head(mwIn).ask = "query" -> MWThen("loop", MWAnswer(Head(mwIn)))
       [] Head(mwIn).ask = "other" -> MWThen("loop", <<"err">>)

\* Mutant of MWFits: one number more.
MWFitsMore == mwSeq <= MWNumbers

MWFits == mwSeq < MWNumbers

\* send_packet.
MWSend ==
  /\ mwServer.todo # <<>> /\ MWFits
  /\ mwOut' = Append(mwOut, [kind |-> Head(mwServer.todo), seq |-> mwSeq, command |-> mwCommand])
  /\ mwSeq' = mwSeq + 1 /\ mwServer' = [mwServer EXCEPT !.todo = Tail(@)]
  /\ UNCHANGED <<mwIn, mwSent, mwHere, mwCommand>>

\* The number does not fit, nor do those of the error packets: the connection is closed.
MWOverflows ==
  /\ mwServer.todo # <<>> /\ ~MWFits
  /\ MWThen("closing", <<>>)
  /\ UNCHANGED <<mwIn, mwSent, mwOut, mwSeq, mwHere, mwCommand>>

\* Reading or sending, after the client has gone.
MWBroken ==
  /\ ~mwHere /\ mwServer.at # "closed"
  /\ mwServer.todo # <<>> \/ mwIn = <<>>
  /\ MWThen("closed", <<>>)
  /\ UNCHANGED <<mwIn, mwSent, mwOut, mwSeq, mwHere, mwCommand>>

MWClose ==
  /\ mwServer = [at |-> "closing", todo |-> <<>>]
  /\ MWThen("closed", <<>>)
  /\ UNCHANGED <<mwIn, mwSent, mwOut, mwSeq, mwHere, mwCommand>>

MWNext ==
  \/ MWClientSends \/ MWClientLeaves
  \/ MWLogin \/ MWRead \/ MWSend \/ MWOverflows \/ MWBroken \/ MWClose

-----------------------------------------------------------------------------
(* Properties. *)

\* Every variable has its type, and no packet has a number that does not fit.
MWTypeOK ==
  /\ mwIn \in Seq(MWInputs) /\ mwSent \in 0..(MWCommands + 1) /\ mwHere \in BOOLEAN
  /\ mwServer.at \in {"login", "loop", "closing", "closed"} /\ mwCommand \in 0..MWCommands
  /\ \A n \in DOMAIN mwOut : mwOut[n].seq \in 0..(MWNumbers - 1) /\ mwOut[n].command \in 0..mwCommand

MWOf(c) == SelectSeq(mwOut, LAMBDA p : p.command = c)

\* The packets of each answer are numbered one after the other from that of the command on.
MWInSequence ==
  \A c \in 1..mwCommand : \A n \in DOMAIN MWOf(c) : MWOf(c)[n].seq = n

\* What a client does with a packet in each of its states.
MWReceives(state, kind) ==
  CASE state = "start" /\ kind \in {"ok", "err"} -> "done"
    [] state = "start" /\ kind = "count"         -> "columns"
    [] state = "columns" /\ kind = "column"      -> "columns"
    [] state = "columns" /\ kind = "eof"         -> "rows"
    [] state = "rows" /\ kind = "row"            -> "rows"
    [] state = "rows" /\ kind \in {"eof", "err"} -> "done"
    [] OTHER                                     -> "lost"

MWState(c) == FoldLeft(LAMBDA s, p : MWReceives(s, p.kind), "start", MWOf(c))

\* A client understands every answer; each command before the last one read has been answered in
\* full, and the last one too, unless the client left, the command was to quit, or the numbers
\* of the packets ran out.
MWUnderstood ==
  \A c \in 1..mwCommand :
    /\ MWState(c) # "lost"
    /\ c < mwCommand \/ mwServer = [at |-> "loop", todo |-> <<>>] => MWState(c) = "done"
    /\ mwServer.at = "closed" /\ mwHere => MWState(c) = "done" \/ MWOf(c) = <<>> \/ Len(MWOf(c)) = MWNumbers - 1

-----------------------------------------------------------------------------
(***************************************************************************)
(* Compression of batch responses (batch_compression.py) by callers that   *)
(* share one manager and its configuration, negotiated with each client;   *)
(* and of stored values, with a header (compression_engine.py).            *)
(***************************************************************************)

CONSTANTS
  BZCallers,
  BZInstalled,   \* of "lz4" and "zstd": those whose library is installed
  BZSizes,       \* the sizes of responses, in tenths of what they are compared to
  BZPacked,      \* of an algorithm and a size: the size when compressed
  BZThresholds,  \* the values of threshold_bytes
  BZEncodings,   \* what clients accept: sequences of names, some unknown to the server
  BZNames,       \* what threads configure by name
  BZCalls        \* bound: calls

ASSUME BZAssumption == BZSizes \cup BZThresholds \cup {BZCalls} \subseteq Nat

VARIABLES
  bzConfig, \* the manager's configuration: [threshold, algorithm]
  bzCaller, \* of each caller: its step, what it asked for, the response's size, the result, and
            \* history: whether another configured between its own two steps
  bzCalls

bzVars == <<bzConfig, bzCaller, bzCalls>>

BZIdle == [at |-> "idle", wants |-> "", threshold |-> 0, accepts |-> <<>>, size |-> 0,
           label |-> "none", made |-> "none", sent |-> 0, mixed |-> FALSE]

BZInit ==
  /\ bzConfig \in [threshold : BZThresholds, algorithm : {"gzip"}]
  /\ bzCaller = [c \in BZCallers |-> BZIdle] /\ bzCalls = 0

-----------------------------------------------------------------------------
(* compress. *)

\* Mutant of BZChosen: the name that was asked for stays on what gzip has made.
BZChosenSame(algorithm) == algorithm

\* gzip in place of an algorithm that is not installed.
BZChosen(algorithm) == IF algorithm \in {"lz4", "zstd"} \ BZInstalled THEN "gzip" ELSE algorithm

\* The algorithm that is run, whatever it is called.
BZRun(algorithm) == IF algorithm \in {"lz4", "zstd"} \ BZInstalled THEN "gzip" ELSE algorithm

BZSizeBy(algorithm, size) == IF algorithm = "none" THEN size ELSE BZPacked[algorithm][size]

\* Mutant of BZWorth: anything that is not longer.
BZWorthAny(size, packed) == packed <= size

\* min_ratio: at least a tenth is saved.
BZWorth(size, packed) == 10 * packed <= 9 * size

\* The result for a response of a size: what it is labelled, what made it, and its size.
BZResult(size, algorithm) ==
  LET packed == BZSizeBy(BZRun(algorithm), size)
  IN  IF size < bzConfig.threshold \/ ~BZWorth(size, packed)
      THEN [label |-> "none", made |-> "none", sent |-> size]
      ELSE [label |-> BZChosen(algorithm), made |-> BZRun(algorithm), sent |-> packed]

\* decompress: it fails on what another algorithm has made.
BZReads(label, made) == label = made /\ label \in {"none", "gzip"} \cup BZInstalled

-----------------------------------------------------------------------------
(* The negotiation. *)

BZSupported == {"gzip"} \cup BZInstalled

\* Mutant of BZNegotiated: no compression is preferred by no one.
BZNegotiatedAlways(accepts) ==
  LET known == SelectSeq(accepts, LAMBDA n : n \in BZSupported)
  IN  IF known = <<>> THEN "gzip" ELSE Head(known)

\* The first name the server knows; gzip when there is none, which the client did not name.
BZNegotiated(accepts) ==
  LET known == SelectSeq(accepts, LAMBDA n : n \in BZSupported \cup {"none", "identity"})
  IN  IF known = <<>> THEN "gzip" ELSE IF Head(known) = "identity" THEN "none" ELSE Head(known)

-----------------------------------------------------------------------------
(* The callers. *)

BZAnswer(c, size, algorithm) ==
  LET result == BZResult(size, algorithm)
  IN  bzCaller' = [bzCaller EXCEPT ![c].at = "done", ![c].size = size, ![c].label = result.label,
                     ![c].made = result.made, ![c].sent = result.sent]

\* compress_response for a client, which may say nothing of what it accepts.
BZRespond(c, size, accepts) ==
  /\ bzCaller[c].at = "idle" /\ bzCalls < BZCalls /\ bzCalls' = bzCalls + 1
  /\ LET result == BZResult(size, IF accepts = <<>> THEN bzConfig.algorithm ELSE BZNegotiated(accepts))
     IN  bzCaller' = [bzCaller EXCEPT ![c] = [at |-> "done", wants |-> "", threshold |-> 0, accepts |-> accepts, size |-> size,
           label |-> result.label, made |-> result.made, sent |-> result.sent, mixed |-> TRUE]]
  /\ UNCHANGED bzConfig

\* compress_batch_response first configures the manager, for everybody.
BZConfigure(c, threshold, name) ==
  /\ bzCaller[c].at = "idle" /\ bzCalls < BZCalls /\ bzCalls' = bzCalls + 1
  /\ bzConfig' = [threshold |-> threshold, algorithm |-> name]
  /\ bzCaller' = [d \in BZCallers |->
       IF d = c THEN [BZIdle EXCEPT !.at = "configured", !.wants = name, !.threshold = threshold]
       ELSE [bzCaller[d] EXCEPT !.mixed = (@ \/ bzCaller[d].at = "configured")]]

\* Then it compresses, by the configuration there is.
BZCompress(c, size) ==
  /\ bzCaller[c].at = "configured" /\ BZAnswer(c, size, bzConfig.algorithm)
  /\ UNCHANGED <<bzConfig, bzCalls>>

BZReturn(c) ==
  /\ bzCaller[c].at = "done" /\ bzCaller' = [bzCaller EXCEPT ![c] = BZIdle]
  /\ UNCHANGED <<bzConfig, bzCalls>>

BZNext ==
  \E c \in BZCallers :
    \/ \E size \in BZSizes : BZCompress(c, size) \/ \E accepts \in BZEncodings : BZRespond(c, size, accepts)
    \/ \E threshold \in BZThresholds, name \in BZNames : BZConfigure(c, threshold, name)
    \/ BZReturn(c)

-----------------------------------------------------------------------------
(* compression_engine.py: a stored value and its header. *)

BZAlgorithms == <<"zlib", "lz4", "zstd", "snappy">>

\* Mutant of BZPack: the numbers begin with zero.
BZPackZero(algorithm) == IF algorithm = "none" THEN 0 ELSE (CHOOSE i \in 1..4 : BZAlgorithms[i] = algorithm) - 1

\* pack, and unpack, for which any number it does not know is no compression.
BZPack(algorithm) == IF algorithm = "none" THEN 0 ELSE CHOOSE i \in 1..4 : BZAlgorithms[i] = algorithm
BZUnpack(id) == IF id \in 1..4 THEN BZAlgorithms[id] ELSE "none"

-----------------------------------------------------------------------------
(* Properties. *)

\* Every variable has its type, and a stored value is unpacked by the algorithm it was packed by.
BZTypeOK ==
  /\ \A c \in BZCallers : bzCaller[c].at \in {"idle", "configured", "done"} /\ bzCaller[c].mixed \in BOOLEAN
  /\ bzConfig.threshold \in BZThresholds /\ bzCalls \in 0..BZCalls
  /\ \A n \in {"none"} \cup {BZAlgorithms[i] : i \in 1..4} : BZUnpack(BZPack(n)) = n

\* Whatever callers configure in between, a response is read by the name it carries.
BZRoundTrip == \A c \in BZCallers : bzCaller[c].at = "done" => BZReads(bzCaller[c].label, bzCaller[c].made)

\* A response is not compressed unless that saves a tenth of it.
BZSaves == \A c \in BZCallers : bzCaller[c].label # "none" => 10 * bzCaller[c].sent <= 9 * bzCaller[c].size

\* A client that says what it accepts is sent that or gzip, and nothing compressed if it prefers that; a caller that
\* configures gets what it asked for, or gzip, and nothing shorter than its threshold compressed,
\* if no other caller configured between.
BZAsked ==
  \A c \in BZCallers : LET call == bzCaller[c] IN
    call.at = "done" /\ call.label # "none" =>
      IF call.wants = ""
      THEN call.accepts # <<>> =>
             /\ call.label \in {"gzip"} \cup {call.accepts[i] : i \in DOMAIN call.accepts}
             /\ Head(call.accepts) \notin {"none", "identity"}
      ELSE ~call.mixed => call.label \in {call.wants, "gzip"} /\ call.size >= call.threshold
=============================================================================
