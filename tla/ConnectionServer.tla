-------------------------- MODULE ConnectionServer --------------------------
(***************************************************************************)
(* The connections of server.py: their messages, their databases, and the  *)
(* users of auth.py and database.py that log in by them.                   *)
(***************************************************************************)
EXTENDS Naturals, Sequences, FiniteSets, SequencesExt

(***************************************************************************)
(* One connection of the server (ClientHandler of server.py): the bytes of *)
(* a client that speaks lines, or frames once SET FRAMING is ON, that does *)
(* not wait for replies, and may die in the middle of a message; TCP,      *)
(* which gives them to the server in pieces of any size; and the loop of   *)
(* run, with its buffer, its pipelines and the protocol of its replies.  A *)
(* text is two bytes, or three if it has two lines.                        *)
(***************************************************************************)

CONSTANT FCMaxAhead   \* bound: messages the client has sent and the server has not handled

VARIABLES
  fcNet,      \* bytes sent, and not received
  fcEnd,      \* the client: "open", it has "closed" the connection, or died in a message, "cut"
  fcSpeaks,   \* the client sends frames
  fcPipes,    \* the client has sent PIPELINE, and its commands are to come
  fcBuffer,   \* _read_buffer, and what receive has got
  fcReading,  \* what receive waits for: a "line", a "header", a "body" of fcLength, the "tail" of a frame
  fcLength,
  fcFraming,  \* client_state["framing"]
  fcWas,      \* was_framing
  fcPipe,     \* receive_pipeline reads the commands of a pipeline
  fcServer,   \* "running" or "closed"
  fcSent,     \* history: the messages sent, and not handled
  fcExact,    \* history: every text handled was the one sent, read in the protocol it was sent in
  fcReplied,  \* history: every reply was in the protocol its text was sent in
  fcLast,     \* the frame whose tail is read; history: QUIT, if it was handled last
  fcEmpty     \* history: an empty text came

fcVars == <<fcNet, fcEnd, fcSpeaks, fcPipes, fcBuffer, fcReading, fcLength, fcFraming, fcWas, fcPipe, fcServer,
            fcSent, fcExact, fcReplied, fcLast, fcEmpty>>

fcClient == <<fcNet, fcEnd, fcSpeaks, fcPipes, fcSent>>
fcHistory == <<fcExact, fcReplied, fcLast, fcEmpty>>

-----------------------------------------------------------------------------
(* Texts, and the client. *)

FCText(first) == <<first, "rest">>

\* SET FRAMING, a statement, PIPELINE with and without its commands, QUIT; a text of two lines; none.
FCTexts == {FCText(k) : k \in {"on", "off", "statement", "pipeline", "inline", "quit"}} \cup {<<>>}
FCTwoLines == <<"statement", "nl", "rest">>

FCHeaders == <<"0", "1", "2", "3">>

FCEncoded(text, framed) ==
  IF framed THEN <<FCHeaders[Len(text) + 1], "nl">> \o text \o <<"nl">> ELSE Append(text, "nl")

\* The pipeline in a line turns framing on; within a pipeline, it is a command that is not known.
FCSwitched(text, framed, piped) ==
  CASE text = FCText("on") \/ (text = FCText("inline") /\ ~piped) -> TRUE
    [] text = FCText("off") -> FALSE
    [] OTHER -> framed

FCInit ==
  /\ fcNet = <<>> /\ fcEnd = "open" /\ fcSpeaks = FALSE /\ fcPipes = FALSE
  /\ fcBuffer = <<>> /\ fcReading = "line" /\ fcLength = 0 /\ fcFraming = FALSE /\ fcWas = FALSE
  /\ fcPipe = FALSE /\ fcServer = "running" /\ fcSent = <<>>
  /\ fcExact = TRUE /\ fcReplied = TRUE /\ fcLast = <<>> /\ fcEmpty = FALSE

FCSend ==
  /\ fcEnd = "open" /\ fcServer = "running" /\ Len(fcSent) < FCMaxAhead
  /\ \E text \in FCTexts \cup (IF fcSpeaks THEN {FCTwoLines} ELSE {}) :
       LET bytes == FCEncoded(text, fcSpeaks)
       IN  /\ fcSent' = Append(fcSent, [text |-> text, framed |-> fcSpeaks])
           /\ \/ /\ fcNet' = fcNet \o bytes /\ UNCHANGED fcEnd
                 /\ fcSpeaks' = FCSwitched(text, fcSpeaks, fcPipes)
                 /\ fcPipes' = (text = FCText("pipeline") /\ ~fcPipes)
              \/ /\ fcEnd' = "cut" /\ UNCHANGED <<fcSpeaks, fcPipes>>
                 /\ \E n \in 1 .. Len(bytes) - 1 : fcNet' = fcNet \o SubSeq(bytes, 1, n)
  /\ UNCHANGED <<fcBuffer, fcReading, fcLength, fcFraming, fcWas, fcPipe, fcServer, fcHistory>>

FCClose ==
  /\ fcEnd = "open" /\ fcEnd' = "closed"
  /\ UNCHANGED <<fcNet, fcSpeaks, fcPipes, fcBuffer, fcReading, fcLength, fcFraming, fcWas, fcPipe, fcServer, fcSent, fcHistory>>

-----------------------------------------------------------------------------
(* The server: what receive has got is taken by handle. *)

FCBreak ==
  /\ fcServer' = "closed"
  /\ UNCHANGED <<fcReading, fcLength, fcFraming, fcWas, fcPipe>>

\* Mutant of FCReceive: in the protocol of the text before.
FCReceiveBefore(framed) == fcReading' = IF fcFraming THEN "header" ELSE "line"

\* The next receive, which reads in the protocol that is on, or the commands of a pipeline in that of its head.
FCReceive(framed) == fcReading' = IF framed THEN "header" ELSE "line"

\* Mutant of FCReplyFramed: the protocol that is on after the text.
FCReplyFramedNow(text) == fcFraming'

FCReplyFramed(text) == fcWas

\* The text goes to handle_command or handle_pipeline, and its reply is sent.
FCHandle(text, framing) ==
  /\ fcFraming' = framing /\ fcWas' = framing /\ FCReceive(framing)
  /\ fcPipe' = FALSE /\ UNCHANGED fcLength
  /\ fcServer' = IF text = FCText("quit") /\ ~fcPipe THEN "closed" ELSE "running"
  /\ fcReplied' = (fcReplied /\ (fcSent # <<>> => FCReplyFramed(text) = Head(fcSent).framed))

FCGet(text) ==
  /\ fcEmpty' = (text = <<>> /\ ~fcPipe)
  /\ fcLast' = IF text = FCText("quit") THEN text ELSE <<>>
  /\ fcExact' = (fcExact /\ fcSent # <<>> /\ Head(fcSent) = [text |-> text, framed |-> fcWas])
  /\ fcSent' = IF fcSent = <<>> THEN fcSent ELSE Tail(fcSent)
  /\ CASE text = <<>> /\ ~fcPipe -> FCBreak /\ UNCHANGED fcReplied
       [] text = FCText("pipeline") /\ ~fcPipe ->
            /\ fcPipe' = TRUE /\ FCReceive(fcWas)
            /\ UNCHANGED <<fcLength, fcFraming, fcWas, fcServer, fcReplied>>
       [] OTHER -> FCHandle(text, FCSwitched(text, fcFraming, fcPipe))
  /\ UNCHANGED <<fcEnd, fcSpeaks, fcPipes>>

\* receive gives up: nothing comes any more.
FCGiveUp ==
  /\ IF fcPipe
     THEN /\ fcPipe' = FALSE /\ FCReceive(fcFraming) /\ fcWas' = fcFraming
          /\ UNCHANGED <<fcLength, fcFraming, fcServer>>
     ELSE FCBreak
  /\ fcBuffer' = <<>>
  /\ UNCHANGED <<fcClient, fcHistory>>

FCWaits ==
  CASE fcReading \in {"line", "header"} -> ~Contains(fcBuffer, "nl")
    [] fcReading = "body" -> Len(fcBuffer) < fcLength
    [] fcReading = "tail" -> fcBuffer = <<>>

\* recv: a piece of what is on its way.
FCRecv ==
  /\ fcServer = "running" /\ FCWaits /\ fcReading # "tail"
  /\ \E n \in 1 .. Len(fcNet) :
       fcBuffer' = fcBuffer \o SubSeq(fcNet, 1, n) /\ fcNet' = SubSeq(fcNet, n + 1, Len(fcNet))
  /\ UNCHANGED <<fcEnd, fcSpeaks, fcPipes, fcReading, fcLength, fcFraming, fcWas, fcPipe, fcServer, fcSent, fcHistory>>

FCEof == fcNet = <<>> /\ fcEnd # "open"

\* partition: what is before the newline, and what is left over after it.
FCNewline == CHOOSE i \in DOMAIN fcBuffer : fcBuffer[i] = "nl" /\ \A j \in 1 .. i - 1 : fcBuffer[j] # "nl"

\* Mutant of FCLeftOver: it is not kept.
FCLeftOverNone == <<>>

FCLeftOver == SubSeq(fcBuffer, FCNewline + 1, Len(fcBuffer))

\* A line; at the end of the connection, what there is of one.
FCLine ==
  /\ fcServer = "running" /\ fcReading = "line"
  /\ \/ /\ ~FCWaits
        /\ FCGet(SubSeq(fcBuffer, 1, FCNewline - 1)) /\ UNCHANGED fcNet
        /\ fcBuffer' = FCLeftOver
     \/ /\ FCWaits /\ FCEof /\ fcBuffer # <<>>
        /\ FCGet(fcBuffer) /\ fcBuffer' = <<>> /\ UNCHANGED fcNet
     \/ FCWaits /\ FCEof /\ fcBuffer = <<>> /\ FCGiveUp

\* The header, if it is a number; or what there is of one at the end, where no body follows.
FCHeader ==
  /\ fcServer = "running" /\ fcReading = "header"
  /\ \/ /\ ~FCWaits
        /\ IF Contains(FCHeaders, fcBuffer[1])
           THEN /\ fcLength' = SelectInSeq(FCHeaders, LAMBDA h : h = fcBuffer[1]) - 1 /\ fcReading' = "body"
                /\ fcBuffer' = FCLeftOver
                /\ UNCHANGED <<fcClient, fcFraming, fcWas, fcPipe, fcServer, fcHistory>>
           ELSE FCGiveUp
     \/ FCWaits /\ FCEof /\ FCGiveUp

FCBody ==
  /\ fcServer = "running" /\ fcReading = "body"
  /\ \/ /\ ~FCWaits /\ fcReading' = "tail" /\ fcBuffer' = SubSeq(fcBuffer, fcLength + 1, Len(fcBuffer))
        \* The body is kept until the tail is read.
        /\ fcLast' = SubSeq(fcBuffer, 1, fcLength)
        /\ UNCHANGED <<fcClient, fcLength, fcFraming, fcWas, fcPipe, fcServer, fcExact, fcReplied, fcEmpty>>
     \/ FCWaits /\ FCEof /\ FCGiveUp


\* What is left of the buffer after the newline of a frame, with which it begins.
FCTailOf(buffer) == Tail(buffer)

\* The newline after a frame, which is received by itself if the frame's last bytes came without it.
FCTail ==
  /\ fcServer = "running" /\ fcReading = "tail"
  /\ \/ ~FCWaits /\ FCGet(fcLast) /\ fcBuffer' = FCTailOf(fcBuffer) /\ UNCHANGED fcNet
     \/ /\ FCWaits /\ (fcNet # <<>> \/ FCEof)
        /\ FCGet(fcLast) /\ UNCHANGED fcBuffer
        /\ fcNet' = IF fcNet = <<>> THEN fcNet ELSE Tail(fcNet)

FCNext == FCSend \/ FCClose \/ FCRecv \/ FCLine \/ FCHeader \/ FCBody \/ FCTail

-----------------------------------------------------------------------------
(* Properties. *)

\* Every variable has its type, and the loop reads in the protocol it replies in.
FCTypeOK ==
  /\ fcEnd \in {"open", "closed", "cut"} /\ fcServer \in {"running", "closed"} /\ fcLength \in 0 .. 3
  /\ fcReading \in IF fcWas THEN {"header", "body", "tail"} ELSE {"line"}

\* However the bytes are cut, and even if the protocol changes while messages are on their way, the texts handled are
\* those sent, one after the other; only a client that dies in a line has what it had sent of it executed.
FCTextsArrive == ~fcExact => fcEnd = "cut" /\ ~fcSpeaks

\* A reply comes in the protocol its text was sent in, that of SET FRAMING too.
FCRepliesMatch == fcExact => fcReplied

\* The server hangs up only after QUIT or an empty text, or when the client has.
FCHangsUp == fcServer = "closed" => fcEnd # "open" \/ fcLast = FCText("quit") \/ fcEmpty

-----------------------------------------------------------------------------
(***************************************************************************)
(* The sessions of the server (handle_command of server.py) over the one   *)
(* storage engine they share: each remembers the database it chose, the    *)
(* engine has one that is open, which USE and a qualified table name       *)
(* switch.  The server's lock is held by the statements that write, and by *)
(* CREATE and DROP DATABASE, not by USE and SELECT.  All have logged in.   *)
(***************************************************************************)

CONSTANTS SVSessions, SVDatabases, SVNone

ASSUME SVAssumption == SVNone \notin SVSessions /\ SVNone \notin SVDatabases

VARIABLES
  svEngine,   \* Database.current_db, or none is open
  svExists,   \* the databases whose directory is there
  svCurrent,  \* session |-> client_state["current_db"]
  svDoing,    \* session |-> its statement: its kind, the database it switches to, the step it is at, the database it
              \* found its table in; history: whether the engine was switched since, without the lock
  svLock,     \* the session that has server_lock
  svBetween,  \* history: session |-> another came between since it chose its database
  svCreated,  \* history: the databases created, and not dropped
  svGhosts    \* history: those that were dropped while they were being opened

svVars == <<svEngine, svExists, svCurrent, svDoing, svLock, svBetween, svCreated, svGhosts>>

SVIdle == [kind |-> "none", db |-> SVNone, step |-> "idle", found |-> SVNone, moved |-> FALSE]

SVInit ==
  /\ svEngine = SVNone /\ svExists = {} /\ svCreated = {} /\ svGhosts = {}
  /\ svCurrent = [s \in SVSessions |-> SVNone] /\ svDoing = [s \in SVSessions |-> SVIdle]
  /\ svLock = SVNone /\ svBetween = [s \in SVSessions |-> FALSE]

SVStep(s, step) == svDoing' = [svDoing EXCEPT ![s].step = step]

SVEnded(s) == [svDoing EXCEPT ![s] = SVIdle]

SVEnd(s) ==
  /\ svDoing' = SVEnded(s)
  /\ svLock' = IF svLock = s THEN SVNone ELSE svLock

\* Mutant of SVLocked: INSERT without the lock.
SVLockedDatabases(kind) == kind \in {"create", "drop"}

SVLocked(kind) == kind \in {"write", "create", "drop"}

-----------------------------------------------------------------------------
(* Statements begin. *)

\* Mutant of SVThere: use_database does not look.
SVThereAlways(db) == TRUE

\* The database has a directory: list_databases, use_database.
SVThere(db) == db \in svExists

\* A statement of the kind, which switches to db if that is one.
SVBegin(s, kind, db) ==
  /\ svDoing[s].step = "idle"
  /\ kind = "use" => SVThere(db)
  /\ SVLocked(kind) => svLock = SVNone
  /\ svLock' = IF SVLocked(kind) THEN s ELSE svLock
  /\ svDoing' = [svDoing EXCEPT ![s] = [SVIdle EXCEPT !.kind = kind, !.db = db,
                                                     !.step = IF db = SVNone THEN "find" ELSE "check"]]
  /\ UNCHANGED <<svEngine, svExists, svCurrent, svBetween, svCreated, svGhosts>>

-----------------------------------------------------------------------------
(* USE, and the database of a qualified name: use_database. *)

\* The session has it; USE is over, a statement goes on.
SVChosen(s, switched) ==
  /\ svCurrent' = [svCurrent EXCEPT ![s] = svDoing[s].db] /\ UNCHANGED svLock
  /\ svDoing' = [o \in SVSessions |->
       IF o = s THEN IF svDoing[s].kind = "use" THEN SVIdle ELSE [svDoing[s] EXCEPT !.step = "find"]
       ELSE [svDoing[o] EXCEPT !.moved = @ \/ (switched /\ svDoing[o].step = "put" /\ svLock # s)]]

SVHas(s) == svBetween' = [svBetween EXCEPT ![s] = FALSE]

\* It is open already; or it is not there, which USE does not tell from success; or it will be opened.
SVCheck(s) ==
  /\ svDoing[s].step = "check" /\ svDoing[s].kind \in {"use", "read", "write"}
  /\ CASE svEngine = svDoing[s].db -> SVChosen(s, FALSE) /\ SVHas(s)
       [] svEngine # svDoing[s].db /\ ~SVThere(svDoing[s].db) ->
            /\ SVEnd(s) /\ UNCHANGED svBetween
            /\ svCurrent' = IF svDoing[s].kind = "use" THEN [svCurrent EXCEPT ![s] = svDoing[s].db] ELSE svCurrent
       [] OTHER -> SVStep(s, "open") /\ UNCHANGED <<svLock, svCurrent, svBetween>>
  /\ UNCHANGED <<svEngine, svExists, svCreated, svGhosts>>

\* Under _db_lock the one is closed, the other opened: made again, if it was dropped since.
SVOpen(s) ==
  /\ svDoing[s].step = "open"
  /\ svEngine' = svDoing[s].db /\ svExists' = svExists \cup {svDoing[s].db}
  /\ svBetween' = [o \in SVSessions |-> o # s]
  /\ SVChosen(s, TRUE)
  /\ UNCHANGED <<svCreated, svGhosts>>

-----------------------------------------------------------------------------
(* The statements. *)

\* The engine looks the table up in the database that is open.
SVFind(s) ==
  /\ svDoing[s].step = "find"
  /\ IF svCurrent[s] # SVNone /\ svEngine # SVNone /\ svDoing[s].kind = "write"
     THEN /\ svDoing' = [svDoing EXCEPT ![s].step = "put", ![s].found = svEngine]
          /\ UNCHANGED svLock
     ELSE SVEnd(s)
  /\ UNCHANGED <<svEngine, svExists, svCurrent, svBetween, svCreated, svGhosts>>

\* The row goes to the database that is open.
SVPut(s) ==
  /\ svDoing[s].step = "put" /\ SVEnd(s)
  /\ UNCHANGED <<svEngine, svExists, svCurrent, svBetween, svCreated, svGhosts>>

SVCreate(s) ==
  /\ svDoing[s].kind = "create"
  /\ svExists' = svExists \cup {svDoing[s].db} /\ svCreated' = svCreated \cup {svDoing[s].db}
  /\ SVEnd(s)
  /\ UNCHANGED <<svEngine, svCurrent, svBetween, svGhosts>>

\* Mutant of SVForgotten: the session keeps the name.
SVForgottenKept(s, db) == svCurrent

SVForgotten(s, db) == IF svCurrent[s] = db THEN [svCurrent EXCEPT ![s] = SVNone] ELSE svCurrent

SVDrop(s) ==
  /\ svDoing[s].kind = "drop"
  /\ LET db == svDoing[s].db
     IN  /\ svEngine' = IF svEngine = db THEN SVNone ELSE svEngine
         /\ svExists' = svExists \ {db} /\ svCreated' = svCreated \ {db}
         /\ svCurrent' = SVForgotten(s, db)
         /\ svGhosts' = IF \E o \in SVSessions : svDoing[o].step = "open" /\ svDoing[o].db = db
                        THEN svGhosts \cup {db} ELSE svGhosts \ {db}
  /\ svBetween' = [o \in SVSessions |-> svBetween[o] \/ o # s]
  /\ SVEnd(s)

\* A SELECT of the database that is open changes nothing.
SVNext ==
  \E s \in SVSessions :
    \/ \E db \in SVDatabases, kind \in {"use", "read", "write", "create", "drop"} : SVBegin(s, kind, db)
    \/ SVBegin(s, "write", SVNone)
    \/ SVCheck(s) \/ SVOpen(s) \/ SVFind(s) \/ SVPut(s) \/ SVCreate(s) \/ SVDrop(s)

-----------------------------------------------------------------------------
(* Properties. *)

\* Every variable has its type, and a statement that writes has the lock until it is over.
SVTypeOK ==
  /\ svEngine \in SVDatabases \cup {SVNone} /\ svExists \subseteq SVDatabases
  /\ \A s \in SVSessions : svDoing[s].step # "idle" /\ svDoing[s].kind = "write" => svLock = s

\* The engine has the database a session chose open, unless another has switched it since, or dropped one.
SVOwnDatabase ==
  \A s \in SVSessions : svCurrent[s] # SVNone /\ ~svBetween[s] => svEngine = svCurrent[s]

\* A row goes to the database its table was found in, unless a USE or a SELECT switched it, which do not take the lock.
SVPutWhereFound ==
  \A s \in SVSessions : svDoing[s].step = "put" /\ ~svDoing[s].moved => svEngine = svDoing[s].found

\* A database that was dropped is not there, unless a session was about to open it.
SVNoGhosts == svExists \subseteq svCreated \cup svGhosts

-----------------------------------------------------------------------------
(***************************************************************************)
(* Users, privileges and logins (auth.py, and the system database of       *)
(* database.py): users and grants are entries under numbers that their     *)
(* schemas count, a login keeps what it found in its session, privileges   *)
(* are looked up when they are asked for.  The process may die between two *)
(* puts, which come one at a time, and takes its sessions with it.         *)
(***************************************************************************)

CONSTANTS UGNames, UGDatabases, UGTokens,
          UGMaxNext   \* bound: the counters

UGAny == "*"
UGPrivileges == {"REPLICATION_SLAVE", "ALL"}

VARIABLES
  ugUsers,     \* the entries of users: number, name, whether an administrator
  ugGrants,    \* those of grants: number, the name it is for, the pattern of databases, the privilege
  ugNext,      \* next_id of _schema:_users and of _schema:_privileges
  ugSessions,  \* active_sessions: token, username, is_admin
  ugDoing,     \* the call that has the lock: its table, its entry, the puts left, whether create_replication_user made it
  ugBetween,   \* the names create_replication_user has made a user of, and no grant for
  ugAnswered   \* history: the entries whose calls have returned, and the names of replication users

ugVars == <<ugUsers, ugGrants, ugNext, ugSessions, ugDoing, ugBetween, ugAnswered>>

UGIdle == [table |-> "none", puts |-> <<>>]

UGInit ==
  /\ ugUsers = {} /\ ugGrants = {} /\ ugNext = [users |-> 1, grants |-> 1]
  /\ ugSessions = {} /\ ugDoing = UGIdle /\ ugBetween = {}
  /\ ugAnswered = [users |-> {}, grants |-> {}, replicas |-> {}]

-----------------------------------------------------------------------------
(* create_user and grant_privilege. *)

\* Mutant of UGPuts: the counter is not put back.
UGPutsNoCounter == <<"entry">>

\* The counter is put when the number is taken, the entry at the end.
UGPuts == <<"counter", "entry">>

\* A call takes the lock, and the number its entry will have.
UGCall(table, entry, replica) ==
  ugDoing' = [table |-> table, puts |-> UGPuts, replica |-> replica, entry |-> entry, number |-> ugNext[table]]

\* Mutant of UGTaken: any name is free.
UGTakenNever(name) == FALSE

UGTaken(name) == \E u \in ugUsers : u.is.name = name

\* create_user, and the first half of create_replication_user, which ends where the name is taken.
UGCreateUser ==
  /\ ugDoing = UGIdle /\ ugNext.users < UGMaxNext
  /\ \E name \in UGNames, admin \in BOOLEAN, replica \in BOOLEAN :
       /\ ~UGTaken(name) /\ (replica => ~admin)
       /\ UGCall("users", [name |-> name, admin |-> admin], replica)
  /\ UNCHANGED <<ugUsers, ugGrants, ugNext, ugSessions, ugBetween, ugAnswered>>

\* Mutant of UGReplicaEntry: all privileges are granted.
UGReplicaEntryAll(name) == [name |-> name, database |-> UGAny, privilege |-> "ALL"]

UGReplicaEntry(name) == [name |-> name, database |-> UGAny, privilege |-> "REPLICATION_SLAVE"]

\* grant_privilege, and the second half of create_replication_user.
UGGrantPrivilege ==
  /\ ugDoing = UGIdle /\ ugNext.grants < UGMaxNext
  /\ \/ /\ \E name \in UGNames, database \in UGDatabases \cup {UGAny}, privilege \in UGPrivileges :
             UGCall("grants", [name |-> name, database |-> database, privilege |-> privilege], FALSE)
        /\ UNCHANGED ugBetween
     \/ \E name \in ugBetween :
             UGCall("grants", UGReplicaEntry(name), TRUE) /\ ugBetween' = ugBetween \ {name}
  /\ UNCHANGED <<ugUsers, ugGrants, ugNext, ugSessions, ugAnswered>>

\* An entry takes the place of that with its number.
UGWith(entries) == {e \in entries : e.number # ugDoing.number} \cup {[number |-> ugDoing.number, is |-> ugDoing.entry]}

\* The call returns.
UGReturn ==
  LET table == ugDoing.table
      name == ugDoing.entry.name
  IN  /\ ugDoing' = UGIdle
      /\ ugBetween' = IF table = "users" /\ ugDoing.replica THEN ugBetween \cup {name} ELSE ugBetween
      /\ ugAnswered' = [ugAnswered EXCEPT ![table] = @ \cup {ugDoing.entry},
                          !.replicas = IF table = "grants" /\ ugDoing.replica THEN @ \cup {name} ELSE @]

UGPut ==
  /\ ugDoing # UGIdle
  /\ LET put == Head(ugDoing.puts)
         table == ugDoing.table
     IN  /\ ugNext' = IF put = "counter" THEN [ugNext EXCEPT ![table] = ugDoing.number + 1] ELSE ugNext
         /\ ugUsers' = IF put = "entry" /\ table = "users" THEN UGWith(ugUsers) ELSE ugUsers
         /\ ugGrants' = IF put = "entry" /\ table = "grants" THEN UGWith(ugGrants) ELSE ugGrants
  /\ IF Len(ugDoing.puts) = 1 THEN UGReturn
     ELSE ugDoing' = [ugDoing EXCEPT !.puts = Tail(@)] /\ UNCHANGED <<ugBetween, ugAnswered>>
  /\ UNCHANGED ugSessions

\* The process dies, and is started again.
UGDies ==
  /\ ugDoing # UGIdle \/ ugBetween # {}
  /\ ugDoing' = UGIdle /\ ugBetween' = {} /\ ugSessions' = {}
  /\ UNCHANGED <<ugUsers, ugGrants, ugNext, ugAnswered>>

-----------------------------------------------------------------------------
(* Logins, and what is asked. *)

\* authenticate, with the right password.
UGLogin ==
  /\ \E token \in UGTokens, u \in ugUsers :
       /\ \A session \in ugSessions : session.token # token
       /\ ugSessions' = ugSessions \cup {[token |-> token, username |-> u.is.name, admin |-> u.is.admin]}
  /\ UNCHANGED <<ugUsers, ugGrants, ugNext, ugDoing, ugBetween, ugAnswered>>

\* check_privilege, of the database and of the authenticator: "*" matches any, ALL is any privilege.
UGChecks(name, database, privilege) ==
  \E g \in ugGrants : /\ g.is.name = name /\ g.is.database \in {UGAny, database}
                      /\ g.is.privilege \in {"ALL", privilege}

\* is_replication_user: here ALL does not count.
UGIsReplica(session) ==
  session.admin \/ \E g \in ugGrants : g.is.name = session.username /\ g.is.privilege = "REPLICATION_SLAVE"

UGNext == UGCreateUser \/ UGGrantPrivilege \/ UGPut \/ UGDies \/ UGLogin

-----------------------------------------------------------------------------
(* Properties. *)

\* Every variable has its type, and no two users have a name.
UGTypeOK ==
  /\ ugNext \in [{"users", "grants"} -> 1 .. UGMaxNext] /\ ugBetween \subseteq UGNames
  /\ \A u, v \in ugUsers : u.is.name = v.is.name => u = v

\* Wherever the process dies, a user whose creation was answered is there, and a privilege that was granted is given.
UGAnsweredStay ==
  /\ ugAnswered.users \subseteq {u.is : u \in ugUsers}
  /\ \A g \in ugAnswered.grants :
       \A database \in UGDatabases : g.database \in {UGAny, database} => UGChecks(g.name, database, g.privilege)

\* Who logs in under a name create_replication_user was done with can replicate.
UGReplicas == \A session \in ugSessions : session.username \in ugAnswered.replicas => UGIsReplica(session)
=============================================================================
