---------------------------- MODULE Replication ----------------------------
(***************************************************************************)
(* Binlog replication (replication.py, replication_commands.py): on a      *)
(* master a ReplicationHandler per slave streams binlog entries over a TCP *)
(* connection; on a slave a ReplicationClient applies them and saves the   *)
(* position.  A pair <<slave, master>> is a link; two links that face each *)
(* other are the multi-master topology of MultiMasterManager.              *)
(*                                                                         *)
(* A connection delivers lines in order.  recv() has no buffer of its own: *)
(* a read takes as many lines as have arrived, and may end inside one.     *)
(***************************************************************************)
EXTENDS Naturals, Sequences

CONSTANTS
  Servers, Links,
  Primaries,        \* servers that clients write to
  Tables, NoTable,  \* tables, and the contents of one that does not exist
  Ops,              \* statements clients issue
  MaxStmts,         \* bound: client statements
  MaxDrops,         \* bound: connections that break
  MaxCuts,          \* bound: reads that end inside a line
  MaxFails,         \* bound: entries whose application raises
  MaxResets,        \* bound: RESET SLAVE
  MaxLog            \* bound: length of a binlog, beyond any a run needs

ASSUME ReplicationAssumption ==
  /\ Links \subseteq Servers \X Servers /\ Primaries \subseteq Servers
  /\ Ops \subseteq {"CREATE_TABLE", "DROP_TABLE", "INSERT"}
  /\ \A rows \in SUBSET (1 .. MaxStmts) : rows # NoTable
  /\ {MaxStmts, MaxDrops, MaxCuts, MaxFails, MaxResets, MaxLog} \subseteq Nat

VARIABLES
  contents,  \* per server: table -> its rows, or NoTable
  binlog,    \* per server: its entries; the index is the position
  saved,     \* per link: _replication:last_position on the slave's disk
  conn,      \* per link: "down", "handshake", "streaming"
  wire,      \* per link: lines sent and not yet read
  sent,      \* per link: the handler's last_sent_position
  handler,   \* per link: "poll", or "empty" once get_entries returned nothing
  inbox,     \* per link: lines of the last read not yet processed
  applied,   \* per link: position applied and not yet saved, or 0
  stmts, drops, cuts, fails, resets

link   == <<saved, conn, wire, sent, handler, inbox, applied>>
bounds == <<stmts, drops, cuts, fails, resets>>
vars   == <<contents, binlog, link, bounds>>

Slave(l)  == l[1]
Master(l) == l[2]

Init ==
  /\ contents = [s \in Servers |-> [t \in Tables |-> NoTable]]
  /\ binlog = [s \in Servers |-> <<>>]
  /\ saved = [l \in Links |-> 0]
  /\ conn = [l \in Links |-> "down"]
  /\ wire = [l \in Links |-> <<>>]
  /\ sent = [l \in Links |-> 0]
  /\ handler = [l \in Links |-> "poll"]
  /\ inbox = [l \in Links |-> <<>>]
  /\ applied = [l \in Links |-> 0]
  /\ stmts = 0 /\ drops = 0 /\ cuts = 0 /\ fails = 0 /\ resets = 0

-----------------------------------------------------------------------------
(* Lines. *)

Ok == [kind |-> "ok"]
Entry(m, p) == [kind |-> "entry", pos |-> p, body |-> binlog[m][p]]
Heartbeat(p) == [kind |-> "heartbeat", pos |-> p]
Rest == [kind |-> "tail"]  \* the rest of a line whose start was read before

\* What _parse_entry and _process_line make of the start of a line: an entry
\* too short to parse is skipped, one cut in or behind its operation is an
\* entry without data, one cut in its JSON raises and breaks the connection; a
\* heartbeat loses digits of its position, or all of it and is skipped.
Starts(line) ==
  CASE line.kind = "entry" ->
         {[kind |-> "skip"], [kind |-> "raise"],
          [kind |-> "bare", pos |-> line.pos, origin |-> line.body.origin]}
    [] line.kind = "heartbeat" ->
         {Heartbeat(p) : p \in 0 .. line.pos} \cup {[kind |-> "skip"]}
    [] OTHER -> {Rest}

-----------------------------------------------------------------------------
(* Statements, by a client or by a slave that applies an entry. *)

Effective(s, op, t) ==
  IF op = "CREATE_TABLE" THEN contents[s][t] = NoTable
                         ELSE contents[s][t] # NoTable

Outcome(rows, op, row) ==
  CASE op = "CREATE_TABLE" -> {}
    [] op = "DROP_TABLE"   -> NoTable
    [] op = "INSERT"       -> rows \cup {row}

\* The statement takes effect on server s and enters its binlog.
Perform(s, op, t, row) ==
  /\ Len(binlog[s]) < MaxLog
  /\ contents' = [contents EXCEPT ![s][t] = Outcome(@, op, row)]
  /\ binlog' = [binlog EXCEPT ![s] =
                  Append(@, [origin |-> s, op |-> op, table |-> t, row |-> row])]

Execute(s, op, t) ==
  /\ stmts < MaxStmts /\ op \in Ops
  /\ Effective(s, op, t)
  /\ Perform(s, op, t, stmts + 1)
  /\ stmts' = stmts + 1
  /\ UNCHANGED <<link, drops, cuts, fails, resets>>

-----------------------------------------------------------------------------
(* The connection. *)

\* Mutant of StreamFrom: the position on disk is not asked for.
StreamFromStart(l) == 0

\* load_position.
StreamFrom(l) == saved[l]

\* ReplicationClient.connect: AUTH, then STREAM FROM the position on disk.
Connect(l) ==
  /\ conn[l] = "down"
  /\ conn' = [conn EXCEPT ![l] = "handshake"]
  /\ sent' = [sent EXCEPT ![l] = StreamFrom(l)]
  /\ handler' = [handler EXCEPT ![l] = "poll"]
  /\ wire' = [wire EXCEPT ![l] = <<Ok>>]
  /\ UNCHANGED <<contents, binlog, saved, inbox, applied, bounds>>

\* connect() reads the OK with one recv(4096) and drops what came with it.
Handshake(l) ==
  /\ conn[l] = "handshake"
  /\ \E n \in 1 .. Len(wire[l]) :
       /\ n > 1 => cuts < MaxCuts
       /\ cuts' = cuts + IF n > 1 THEN 1 ELSE 0
       /\ wire' = [wire EXCEPT ![l] = SubSeq(@, n + 1, Len(@))]
  /\ conn' = [conn EXCEPT ![l] = "streaming"]
  /\ UNCHANGED <<contents, binlog, saved, sent, handler, inbox, applied, stmts,
                 drops, fails, resets>>

Broken(l) ==
  /\ conn' = [conn EXCEPT ![l] = "down"]
  /\ wire' = [wire EXCEPT ![l] = <<>>]

\* The connection or the slave's process ends, also between apply and save.
Drop(l) ==
  /\ conn[l] # "down" /\ drops < MaxDrops
  /\ drops' = drops + 1
  /\ Broken(l)
  /\ inbox' = [inbox EXCEPT ![l] = <<>>]
  /\ applied' = [applied EXCEPT ![l] = 0]
  /\ UNCHANGED <<contents, binlog, saved, sent, handler, stmts, cuts, fails,
                 resets>>

-----------------------------------------------------------------------------
(* The master's handler (stream_binlog). *)

\* Mutant of More: the position asked for is taken as already included.
MoreAfterNext(l) == sent[l] + 1 < Len(binlog[Master(l)])

\* Binlog.get_entries finds something behind last_sent_position.
More(l) == sent[l] < Len(binlog[Master(l)])

\* get_entries(last_sent_position): one entry or, step by step, a batch.
SendEntry(l) ==
  /\ conn[l] # "down" /\ handler[l] = "poll"
  /\ More(l)
  /\ sent' = [sent EXCEPT ![l] = @ + 1]
  /\ wire' = [wire EXCEPT ![l] = Append(@, Entry(Master(l), sent[l] + 1))]
  /\ UNCHANGED <<contents, binlog, saved, conn, handler, inbox, applied,
                 bounds>>

NoEntries(l) ==
  /\ conn[l] # "down" /\ handler[l] = "poll"
  /\ ~More(l)
  /\ handler' = [handler EXCEPT ![l] = "empty"]
  /\ UNCHANGED <<contents, binlog, saved, conn, wire, sent, inbox, applied,
                 bounds>>

\* Mutant of Latest: the heartbeat is sent without looking again.
AnyLatest(l) == TRUE

\* An entry written since get_entries returned would be skipped.
Latest(l) == Len(binlog[Master(l)]) <= sent[l]

\* get_latest_position, read after get_entries: the heartbeat names it.  The
\* guard on the wire bounds the heartbeats under way to one.
SendHeartbeat(l) ==
  /\ conn[l] # "down" /\ handler[l] = "empty"
  /\ handler' = [handler EXCEPT ![l] = "poll"]
  /\ IF Latest(l) /\ \A i \in DOMAIN wire[l] : wire[l][i].kind # "heartbeat"
     THEN wire' = [wire EXCEPT ![l] = Append(@, Heartbeat(Len(binlog[Master(l)])))]
     ELSE UNCHANGED wire
  /\ UNCHANGED <<contents, binlog, saved, conn, sent, inbox, applied, bounds>>

-----------------------------------------------------------------------------
(* The slave's client (run, _process_line, apply_entry). *)

\* recv(8192), taken only when the lines of the last read are processed.
Receive(l) ==
  /\ conn[l] = "streaming" /\ inbox[l] = <<>> /\ applied[l] = 0
  /\ wire[l] # <<>>
  /\ \/ \E n \in 1 .. Len(wire[l]) :
          /\ inbox' = [inbox EXCEPT ![l] = SubSeq(wire[l], 1, n)]
          /\ wire' = [wire EXCEPT ![l] = SubSeq(@, n + 1, Len(@))]
          /\ UNCHANGED cuts
     \/ \E n \in 1 .. Len(wire[l]) : \E start \in Starts(wire[l][n]) :
          /\ cuts < MaxCuts /\ cuts' = cuts + 1
          /\ inbox' = [inbox EXCEPT ![l] =
                         Append(SubSeq(wire[l], 1, n - 1), start)]
          /\ wire' = [wire EXCEPT ![l] =
                        <<Rest>> \o SubSeq(@, n + 1, Len(@))]
  /\ UNCHANGED <<contents, binlog, saved, conn, sent, handler, applied, stmts,
                 drops, fails, resets>>

Take(l) == inbox' = [inbox EXCEPT ![l] = Tail(@)]

\* apply_entry up to save_position.  An entry the slave logged itself is
\* skipped and its position is not saved.  The line has no field for the
\* table, _parse_entry puts the operation's name there, and INSERT finds no
\* such table: it changes nothing and counts as applied.
Apply(l) ==
  /\ conn[l] = "streaming" /\ inbox[l] # <<>> /\ applied[l] = 0
  /\ Head(inbox[l]).kind = "entry"
  /\ LET e == Head(inbox[l]).body
         s == Slave(l)
     IN  \/ /\ e.origin = s
            /\ UNCHANGED <<contents, binlog, applied>>
         \/ /\ e.origin # s
            /\ applied' = [applied EXCEPT ![l] = Head(inbox[l]).pos]
            /\ IF e.op # "INSERT" /\ Effective(s, e.op, e.table)
               THEN Perform(s, e.op, e.table, e.row)
               ELSE UNCHANGED <<contents, binlog>>
  /\ Take(l)
  /\ UNCHANGED <<saved, conn, wire, sent, handler, bounds>>

\* An entry without data: nothing is found to do, which counts as applied.
ApplyBare(l) ==
  /\ conn[l] = "streaming" /\ inbox[l] # <<>> /\ applied[l] = 0
  /\ Head(inbox[l]).kind = "bare"
  /\ IF Head(inbox[l]).origin = Slave(l)
     THEN UNCHANGED applied
     ELSE applied' = [applied EXCEPT ![l] = Head(inbox[l]).pos]
  /\ Take(l)
  /\ UNCHANGED <<contents, binlog, saved, conn, wire, sent, handler, bounds>>

\* Mutant of SavePosition: the position is counted, not taken from the line.
CountPosition(l, p) == saved' = [saved EXCEPT ![l] = @ + 1]

SavePosition(l, p) == saved' = [saved EXCEPT ![l] = p]

SaveApplied(l) ==
  /\ applied[l] # 0
  /\ SavePosition(l, applied[l])
  /\ applied' = [applied EXCEPT ![l] = 0]
  /\ UNCHANGED <<contents, binlog, conn, wire, sent, handler, inbox, bounds>>

\* The application raises: apply_entry returns False and run() goes on.
ApplyFails(l) ==
  /\ conn[l] = "streaming" /\ inbox[l] # <<>> /\ applied[l] = 0
  /\ Head(inbox[l]).kind = "entry"
  /\ Head(inbox[l]).body.origin # Slave(l)
  /\ fails < MaxFails /\ fails' = fails + 1
  /\ Take(l)
  /\ UNCHANGED <<contents, binlog, saved, conn, wire, sent, handler, applied,
                 stmts, drops, cuts, resets>>

ReadHeartbeat(l) ==
  /\ conn[l] = "streaming" /\ inbox[l] # <<>> /\ applied[l] = 0
  /\ Head(inbox[l]).kind = "heartbeat"
  /\ SavePosition(l, Head(inbox[l]).pos)
  /\ Take(l)
  /\ UNCHANGED <<contents, binlog, conn, wire, sent, handler, applied, bounds>>

\* Neither an entry, a heartbeat nor an error: the line is passed over.
Ignore(l) ==
  /\ conn[l] = "streaming" /\ inbox[l] # <<>> /\ applied[l] = 0
  /\ Head(inbox[l]).kind \in {"tail", "skip"}
  /\ Take(l)
  /\ UNCHANGED <<contents, binlog, saved, conn, wire, sent, handler, applied,
                 bounds>>

\* json.loads raises: run() disconnects, and connects again.
ParseFails(l) ==
  /\ conn[l] = "streaming" /\ inbox[l] # <<>> /\ applied[l] = 0
  /\ Head(inbox[l]).kind = "raise"
  /\ Broken(l)
  /\ inbox' = [inbox EXCEPT ![l] = <<>>]
  /\ UNCHANGED <<contents, binlog, saved, sent, handler, applied, bounds>>

\* RESET SLAVE deletes the saved position; a running client goes on.
ResetSlave(l) ==
  /\ resets < MaxResets /\ resets' = resets + 1
  /\ saved' = [saved EXCEPT ![l] = 0]
  /\ UNCHANGED <<contents, binlog, conn, wire, sent, handler, inbox, applied,
                 stmts, drops, cuts, fails>>

-----------------------------------------------------------------------------
Client(l) ==
  \/ Connect(l) \/ Handshake(l) \/ Receive(l) \/ Apply(l) \/ ApplyBare(l)
  \/ SaveApplied(l) \/ ReadHeartbeat(l) \/ Ignore(l) \/ ParseFails(l)

Handler(l) == SendEntry(l) \/ NoEntries(l) \/ SendHeartbeat(l)

Next ==
  \/ \E s \in Primaries, op \in Ops, t \in Tables : Execute(s, op, t)
  \/ \E l \in Links : Client(l) \/ Handler(l) \/ Drop(l) \/ ApplyFails(l)
                        \/ ResetSlave(l)

Spec == Init /\ [][Next]_vars

\* Both threads of a link keep running: the client retries for ever, and a
\* handler serves its connection until it breaks.  Clients need not write.
FairSpec == Spec /\ \A l \in Links : /\ WF_vars(Client(l)) /\ WF_vars(Handler(l))

-----------------------------------------------------------------------------
(* Properties. *)

\* Positions stay within the master's binlog: the slave never claims more than
\* its master has written (save_position takes positions from the stream).
TypeOK ==
  /\ \A s \in Servers, t \in Tables :
       contents[s][t] = NoTable \/ contents[s][t] \subseteq 1 .. MaxStmts
  /\ \A l \in Links : /\ saved[l] \in 0 .. Len(binlog[Master(l)])
                      /\ sent[l] \in 0 .. Len(binlog[Master(l)])
                      /\ applied[l] \in 0 .. Len(binlog[Master(l)])
                      /\ conn[l] \in {"down", "handshake", "streaming"}
                      /\ handler[l] \in {"poll", "empty"}

\* The tables the first n entries of a binlog leave behind.
Existing(log, n) ==
  {t \in Tables : \E p \in 1 .. n :
     /\ log[p].table = t /\ log[p].op = "CREATE_TABLE"
     /\ \A q \in p + 1 .. n : log[q].table = t => log[q].op # "DROP_TABLE"}

Present(s) == {t \in Tables : contents[s][t] # NoTable}

Undisturbed == cuts = 0 /\ fails = 0 /\ resets = 0

Pending(l) == IF applied[l] # 0 THEN applied[l] ELSE saved[l]

\* What a slave has saved as its position is what it has applied: reconnecting
\* anywhere, also between apply_entry's last change and save_position, neither
\* skips an entry nor leaves one applied twice to effect.  A slave that has
\* lost its connection after applying is one entry ahead.
SchemaFollows ==
  Undisturbed => \A l \in Links :
    \E n \in Pending(l) .. Len(binlog[Master(l)]) :
      /\ n <= Pending(l) + drops
      /\ Present(Slave(l)) = Existing(binlog[Master(l)], n)

\* The rows of the master's tables reach the slave ("Apply a binlog entry to
\* local database", apply_entry).
RowsFollow ==
  \A l \in Links :
    saved[l] = Len(binlog[Master(l)]) => contents[Slave(l)] = contents[Master(l)]

\* The saved position only moves forward, but for RESET SLAVE.
PositionAdvances ==
  [][\A l \in Links : cuts' = 0 /\ resets' = 0 => saved'[l] >= saved[l]]_saved

\* Every entry of the master is passed by its slave in the end.
CatchesUp ==
  \A l \in Links : \A n \in 1 .. MaxStmts :
    Len(binlog[Master(l)]) >= n ~> saved[l] >= n
=============================================================================
