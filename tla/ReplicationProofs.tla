------------------------- MODULE ReplicationProofs -------------------------
(***************************************************************************)
(* Proofs about Replication, for every set of servers and links, every     *)
(* length of the binlogs and all bounds; and about Failover, for every     *)
(* finite set of nodes, every set of configurations and all bounds.        *)
(***************************************************************************)
EXTENDS Replication, Failover, FiniteSetTheorems, SequenceTheorems, TLAPS

USE DEF vars, failoverVars, link, bounds, Slave, Master

-----------------------------------------------------------------------------
(* Types. *)

Statements == {"CREATE_TABLE", "DROP_TABLE", "INSERT"}

Rows == (SUBSET (1 .. MaxStmts)) \cup {NoTable}

Bodies == [origin : Servers, op : Statements, table : Tables, row : 1 .. MaxStmts]

\* The lines of a connection.
Texts == {Ok} \cup [kind : {"tail", "skip", "raise"}]
         \cup [kind : {"entry"}, pos : Nat, body : Bodies]
         \cup [kind : {"bare"}, pos : Nat, origin : Servers]
         \cup [kind : {"heartbeat"}, pos : Nat]

LogTypes ==
  /\ contents \in [Servers -> [Tables -> Rows]]
  /\ binlog \in [Servers -> Seq(Bodies)]

LinkTypes ==
  /\ saved \in [Links -> Nat] /\ sent \in [Links -> Nat] /\ applied \in [Links -> Nat]
  /\ conn \in [Links -> {"down", "handshake", "streaming"}]
  /\ handler \in [Links -> {"poll", "empty"}]
  /\ wire \in [Links -> Seq(Texts)] /\ inbox \in [Links -> Seq(Texts)]

CountTypes == {stmts, drops, cuts, fails, resets} \subseteq Nat

\* A line is about an entry that its master has.
Within(entries, x) ==
  /\ x.kind = "entry" => x.pos \in 1 .. Len(entries) /\ x.body = entries[x.pos]
  /\ x.kind \in {"bare", "heartbeat"} => x.pos \in 0 .. Len(entries)

AllWithin(entries, lines) == \A i \in DOMAIN lines : Within(entries, lines[i])

PositionsOf(l) ==
  /\ saved[l] <= Len(binlog[Master(l)])
  /\ sent[l] <= Len(binlog[Master(l)])
  /\ applied[l] <= Len(binlog[Master(l)])
  /\ AllWithin(binlog[Master(l)], wire[l])
  /\ AllWithin(binlog[Master(l)], inbox[l])

Positions == \A l \in Links : PositionsOf(l)

\* What the states of a connection mean.
PhaseOf(l) ==
  /\ conn[l] # "streaming" => inbox[l] = <<>> /\ applied[l] = 0
  /\ conn[l] = "handshake" => wire[l] # <<>> /\ wire[l][1] = Ok

Phases == \A l \in Links : PhaseOf(l)

Types == LogTypes /\ LinkTypes /\ CountTypes

-----------------------------------------------------------------------------
(* Lines. *)

LEMMA TextsHold ==
  /\ Ok \in Texts /\ Rest \in Texts
  /\ [kind |-> "skip"] \in Texts /\ [kind |-> "raise"] \in Texts
  /\ \A p \in Nat : Heartbeat(p) \in Texts
  /\ \A p \in Nat, b \in Bodies : [kind |-> "entry", pos |-> p, body |-> b] \in Texts
  /\ \A p \in Nat, s \in Servers : [kind |-> "bare", pos |-> p, origin |-> s] \in Texts
BY DEF Texts, Ok, Rest, Heartbeat

LEMMA TextFields ==
  ASSUME NEW x \in Texts
  PROVE  /\ x.kind \in {"ok", "tail", "skip", "raise", "entry", "bare", "heartbeat"}
         /\ x.kind = "entry" => x.pos \in Nat /\ x.body \in Bodies
         /\ x.kind \in {"bare", "heartbeat"} => x.pos \in Nat
BY DEF Texts, Ok

\* The start of a line is a line, and about what the whole one is about.
LEMMA StartsHold ==
  ASSUME NEW x \in Texts, NEW y \in Starts(x), NEW entries \in Seq(Bodies),
         Within(entries, x)
  PROVE  y \in Texts /\ Within(entries, y) /\ y.kind # "entry"
<1>0. x.kind = "heartbeat" => x.pos \in Nat /\ x.pos <= Len(entries)
  BY TextFields DEF Within
<1>1. CASE x.kind = "entry"
  <2>1. \/ y \in {[kind |-> "skip"], [kind |-> "raise"]}
        \/ y = [kind |-> "bare", pos |-> x.pos, origin |-> x.body.origin]
    BY <1>1 DEF Starts
  <2>2. CASE y \in {[kind |-> "skip"], [kind |-> "raise"]}
    BY <2>2, TextsHold DEF Within
  <2>3. CASE y = [kind |-> "bare", pos |-> x.pos, origin |-> x.body.origin]
    <3>1. x.pos \in 1 .. Len(entries) /\ x.pos \in Nat /\ x.body \in Bodies
      BY <1>1, TextFields DEF Within
    <3>2. x.body.origin \in Servers /\ x.pos \in 0 .. Len(entries)
      BY <3>1 DEF Bodies
    <3>3. y.kind = "bare" /\ y.pos = x.pos
      BY <2>3
    <3>4. y \in Texts
      BY <2>3, <3>1, <3>2, TextsHold
    <3>5. QED BY <3>2, <3>3, <3>4 DEF Within
  <2>4. QED BY <2>1, <2>2, <2>3
<1>2. CASE x.kind = "heartbeat"
  <2>1. CASE y = [kind |-> "skip"]
    BY <2>1, TextsHold DEF Within
  <2>2. CASE y # [kind |-> "skip"]
    <3>1. PICK p \in 0 .. x.pos : y = Heartbeat(p)
      BY <1>2, <2>2 DEF Starts
    <3>2. p \in Nat /\ p <= Len(entries)
      BY <1>0, <1>2, <3>1
    <3>3. QED BY <3>1, <3>2, TextsHold DEF Within, Heartbeat
  <2>3. QED BY <2>1, <2>2
<1>3. CASE x.kind # "entry" /\ x.kind # "heartbeat"
  <2>1. y = Rest
    BY <1>3 DEF Starts
  <2>2. QED BY <2>1, TextsHold DEF Within, Rest
<1>4. QED BY <1>1, <1>2, <1>3

\* Parts of a sequence of lines.
LEMMA Parts ==
  ASSUME NEW S, NEW w \in Seq(S), NEW n \in 0 .. Len(w)
  PROVE  /\ SubSeq(w, 1, n) \in Seq(S) /\ SubSeq(w, n + 1, Len(w)) \in Seq(S)
         /\ SubSeq(w, 1, n) \o SubSeq(w, n + 1, Len(w)) = w
         /\ Len(SubSeq(w, 1, n)) = n /\ Len(SubSeq(w, n + 1, Len(w))) = Len(w) - n
         /\ \A i \in 1 .. n : SubSeq(w, 1, n)[i] = w[i]
         /\ \A i \in 1 .. Len(w) - n : SubSeq(w, n + 1, Len(w))[i] = w[n + i]
<1>1. \A i \in 1 .. n : w[i] \in S
  OBVIOUS
<1>2. \A i \in n + 1 .. Len(w) : w[i] \in S
  OBVIOUS
<1>3. n \in Int /\ Len(w) \in Nat /\ n + 1 \in Int /\ 1 \in Int /\ n <= Len(w) /\ 0 <= n
  OBVIOUS
<1>4. /\ SubSeq(w, 1, n) \in Seq(S)
      /\ Len(SubSeq(w, 1, n)) = IF 1 <= n THEN n - 1 + 1 ELSE 0
      /\ \A i \in 1 .. n - 1 + 1 : SubSeq(w, 1, n)[i] = w[1 + i - 1]
  BY <1>1, <1>3, SubSeqProperties
<1>5. /\ SubSeq(w, n + 1, Len(w)) \in Seq(S)
      /\ Len(SubSeq(w, n + 1, Len(w))) = IF n + 1 <= Len(w) THEN Len(w) - (n + 1) + 1 ELSE 0
      /\ \A i \in 1 .. Len(w) - (n + 1) + 1 : SubSeq(w, n + 1, Len(w))[i] = w[(n + 1) + i - 1]
  BY <1>2, <1>3, SubSeqProperties
<1>6. SubSeq(w, 1, n) \o SubSeq(w, n + 1, Len(w)) = SubSeq(w, 1, Len(w))
  <2>1. 1 \in 1 .. Len(w) + 1 /\ n \in 1 - 1 .. Len(w) /\ Len(w) \in n .. Len(w)
    BY <1>3
  <2>2. QED BY <2>1, ConcatAdjacentSubSeq
<1>7. SubSeq(w, 1, Len(w)) = w
  BY SubSeqFull
<1>8. /\ n - 1 + 1 = n /\ Len(w) - (n + 1) + 1 = Len(w) - n
      /\ \A i \in 1 .. n : 1 + i - 1 = i
      /\ \A i \in 1 .. Len(w) - n : (n + 1) + i - 1 = n + i
  BY <1>3
<1>9. Len(SubSeq(w, 1, n)) = n /\ Len(SubSeq(w, n + 1, Len(w))) = Len(w) - n
  BY <1>3, <1>4, <1>5
<1>10. \A i \in 1 .. n : SubSeq(w, 1, n)[i] = w[i]
  BY <1>4, <1>8
<1>11. \A i \in 1 .. Len(w) - n : SubSeq(w, n + 1, Len(w))[i] = w[n + i]
  BY <1>5, <1>8
<1>12. QED BY <1>4, <1>5, <1>6, <1>7, <1>9, <1>10, <1>11

\* The first element of a concatenation, and one more at its end.
LEMMA ConcatTail ==
  ASSUME NEW S, NEW s \in Seq(S), s # <<>>, NEW t \in Seq(S)
  PROVE  s \o t # <<>> /\ Head(s \o t) = Head(s) /\ Tail(s \o t) = Tail(s) \o t
<1> DEFINE u == s \o t
           v == Tail(s) \o t
<1>1. Tail(s) \in Seq(S) /\ u \in Seq(S) /\ v \in Seq(S) /\ Len(s) \in Nat /\ Len(t) \in Nat
  OBVIOUS
<1>2. Len(s) >= 1 /\ Len(u) = Len(s) + Len(t) /\ Len(v) = Len(s) + Len(t) - 1
  BY <1>1
<1>3. \A i \in 1 .. Len(u) : u[i] = IF i <= Len(s) THEN s[i] ELSE t[i - Len(s)]
  BY ConcatProperties
<1>4. \A i \in 1 .. Len(v) : v[i] = IF i <= Len(s) - 1 THEN s[i + 1] ELSE t[i - (Len(s) - 1)]
  BY <1>1, ConcatProperties
<1> HIDE DEF u, v
<1>5. u # <<>> /\ 1 \in 1 .. Len(u)
  BY <1>1, <1>2
<1>6. Head(u) = Head(s)
  BY <1>1, <1>2, <1>3, <1>5
<1>7. /\ Tail(u) \in Seq(S) /\ Len(Tail(u)) = Len(v)
      /\ \A i \in 1 .. Len(v) : Tail(u)[i] = u[i + 1]
  BY <1>1, <1>2, <1>5
<1>8. ASSUME NEW i \in 1 .. Len(v) PROVE u[i + 1] = v[i]
  <2>1. /\ i + 1 \in 1 .. Len(u) /\ (i + 1 <= Len(s) <=> i <= Len(s) - 1)
        /\ i + 1 - Len(s) = i - (Len(s) - 1)
    BY <1>1, <1>2
  <2>2. QED BY <1>3, <1>4, <2>1
<1>9. Tail(u) = v
  BY <1>1, <1>7, <1>8, SeqEqual
<1>10. QED BY <1>5, <1>6, <1>9 DEF u, v

LEMMA ConcatAppend ==
  ASSUME NEW S, NEW s \in Seq(S), NEW t \in Seq(S), NEW x \in S
  PROVE  s \o Append(t, x) = Append(s \o t, x)
<1>1. <<x>> \in Seq(S) /\ s \o t \in Seq(S)
  OBVIOUS
<1>2. Append(t, x) = t \o <<x>> /\ Append(s \o t, x) = (s \o t) \o <<x>>
  BY <1>1, AppendIsConcat
<1>3. (s \o t) \o <<x>> = s \o (t \o <<x>>)
  BY <1>1, ConcatAssociative
<1>4. QED BY <1>2, <1>3

\* Parts of lines that are within a binlog are within it, and so are lines
\* with one more.
LEMMA WithinParts ==
  ASSUME NEW entries \in Seq(Bodies), NEW w \in Seq(Texts), AllWithin(entries, w),
         NEW n \in 0 .. Len(w)
  PROVE  AllWithin(entries, SubSeq(w, 1, n)) /\ AllWithin(entries, SubSeq(w, n + 1, Len(w)))
<1>1. \A i \in 1 .. n : SubSeq(w, 1, n)[i] = w[i] /\ i \in DOMAIN w
  BY Parts
<1>2. \A i \in 1 .. Len(w) - n : SubSeq(w, n + 1, Len(w))[i] = w[n + i] /\ n + i \in DOMAIN w
  BY Parts
<1>3. DOMAIN SubSeq(w, 1, n) = 1 .. n /\ DOMAIN SubSeq(w, n + 1, Len(w)) = 1 .. Len(w) - n
  BY Parts
<1>4. QED BY <1>1, <1>2, <1>3 DEF AllWithin

LEMMA WithinTail ==
  ASSUME NEW entries \in Seq(Bodies), NEW w \in Seq(Texts), AllWithin(entries, w), w # <<>>
  PROVE  /\ Tail(w) \in Seq(Texts) /\ AllWithin(entries, Tail(w))
         /\ Head(w) \in Texts /\ Within(entries, Head(w))
<1>1. /\ Tail(w) \in Seq(Texts) /\ Head(w) = w[1] /\ w[1] \in Texts /\ 1 \in DOMAIN w
      /\ \A i \in DOMAIN Tail(w) : i + 1 \in DOMAIN w /\ Tail(w)[i] = w[i + 1]
  OBVIOUS
<1>2. QED BY <1>1 DEF AllWithin

LEMMA WithinAppend ==
  ASSUME NEW entries \in Seq(Bodies), NEW w \in Seq(Texts), AllWithin(entries, w),
         NEW x \in Texts, Within(entries, x)
  PROVE  Append(w, x) \in Seq(Texts) /\ AllWithin(entries, Append(w, x))
<1>1. \A i \in DOMAIN Append(w, x) : Append(w, x)[i] = x \/ (i \in DOMAIN w /\ Append(w, x)[i] = w[i])
  OBVIOUS
<1>2. QED BY <1>1 DEF AllWithin

LEMMA WithinRest ==
  ASSUME NEW entries \in Seq(Bodies), NEW w \in Seq(Texts), AllWithin(entries, w)
  PROVE  <<Rest>> \o w \in Seq(Texts) /\ AllWithin(entries, <<Rest>> \o w)
<1>1. Rest \in Texts /\ Within(entries, Rest)
  BY TextsHold DEF Within, Rest
<1>2. \A i \in DOMAIN (<<Rest>> \o w) : (<<Rest>> \o w)[i] = Rest
                                      \/ (i - 1 \in DOMAIN w /\ (<<Rest>> \o w)[i] = w[i - 1])
  BY <1>1
<1>3. <<Rest>> \o w \in Seq(Texts)
  BY <1>1
<1>4. QED BY <1>1, <1>2, <1>3 DEF AllWithin

LEMMA WithinNone == \A entries : AllWithin(entries, <<>>)
  BY DEF AllWithin

\* A binlog that has only grown still has them.
Extends(new, old) ==
  Len(new) >= Len(old) /\ \A p \in 1 .. Len(old) : new[p] = old[p]

LEMMA WithinExtends ==
  ASSUME NEW new \in Seq(Bodies), NEW old \in Seq(Bodies), Extends(new, old),
         NEW w \in Seq(Texts), AllWithin(old, w)
  PROVE  AllWithin(new, w)
<1>1. ASSUME NEW x \in Texts, Within(old, x) PROVE Within(new, x)
  BY <1>1, TextFields DEF Within, Extends
<1>2. \A i \in DOMAIN w : w[i] \in Texts
  OBVIOUS
<1>3. QED BY <1>1, <1>2 DEF AllWithin

-----------------------------------------------------------------------------
(* Statements. *)

\* Every entry names the server that logged it.
Origins == \A s \in Servers : \A p \in DOMAIN binlog[s] : binlog[s][p].origin = s

LEMMA PerformSteps ==
  ASSUME LogTypes, Origins, NEW s \in Servers, NEW op \in Statements,
         NEW t \in Tables, NEW row \in 1 .. MaxStmts,
         Effective(s, op, t), Perform(s, op, t, row)
  PROVE  /\ LogTypes' /\ Origins'
         /\ \A k \in Servers : Extends(binlog'[k], binlog[k])
         /\ \A k \in Servers \ {s} : contents'[k] = contents[k]
<1> DEFINE e == [origin |-> s, op |-> op, table |-> t, row |-> row]
<1>1. e \in Bodies /\ e.origin = s
  BY DEF Bodies
<1>2. binlog' = [binlog EXCEPT ![s] = Append(@, e)]
  BY DEF Perform
<1> HIDE DEF e
<1>3. binlog[s] \in Seq(Bodies)
  BY DEF LogTypes
<1>4. /\ Append(binlog[s], e) \in Seq(Bodies) /\ Extends(Append(binlog[s], e), binlog[s])
      /\ \A p \in DOMAIN Append(binlog[s], e) :
           Append(binlog[s], e)[p] = e \/ (p \in DOMAIN binlog[s] /\ Append(binlog[s], e)[p] = binlog[s][p])
  BY <1>1, <1>3 DEF Extends
<1>5. binlog'[s] = Append(binlog[s], e) /\ \A k \in Servers \ {s} : binlog'[k] = binlog[k]
  BY <1>2 DEF LogTypes
<1>6. binlog' \in [Servers -> Seq(Bodies)]
  BY <1>2, <1>4 DEF LogTypes
<1>7. \A k \in Servers : Extends(binlog'[k], binlog[k])
  <2>1. \A k \in Servers \ {s} : Extends(binlog'[k], binlog[k])
    BY <1>5 DEF Extends, LogTypes
  <2>2. QED BY <1>4, <1>5, <2>1
<1>8. Outcome(contents[s][t], op, row) \in Rows
  <2>1. contents[s][t] \in Rows
    BY DEF LogTypes
  <2>2. CASE op = "CREATE_TABLE"
    BY <2>2 DEF Outcome, Rows
  <2>3. CASE op = "DROP_TABLE"
    <3>1. Outcome(contents[s][t], op, row) = NoTable
      BY <2>3 DEF Outcome
    <3>2. QED BY <3>1, Zenon DEF Rows
  <2>4. CASE op = "INSERT"
    <3>0. contents[s][t] # NoTable
      BY <2>4 DEF Effective
    <3>1. contents[s][t] \in SUBSET (1 .. MaxStmts)
      BY <2>1, <3>0, Zenon DEF Rows
    <3>2. Outcome(contents[s][t], op, row) = contents[s][t] \cup {row}
      BY <2>4 DEF Outcome
    <3>3. QED BY <3>1, <3>2 DEF Rows
  <2>5. QED BY <2>2, <2>3, <2>4 DEF Statements
<1>9. contents' = [contents EXCEPT ![s][t] = Outcome(@, op, row)]
  BY DEF Perform
<1>10. contents' \in [Servers -> [Tables -> Rows]]
  BY <1>8, <1>9 DEF LogTypes
<1>11. \A k \in Servers \ {s} : contents'[k] = contents[k]
  BY <1>9 DEF LogTypes
<1>12. Origins'
  BY <1>1, <1>4, <1>5 DEF Origins
<1>13. QED BY <1>6, <1>7, <1>10, <1>11, <1>12 DEF LogTypes

LEMMA ExecuteSteps ==
  ASSUME Types, Origins, NEW s \in Primaries, NEW op \in Ops, NEW t \in Tables,
         Execute(s, op, t)
  PROVE  /\ LogTypes' /\ Origins'
         /\ \A k \in Servers : Extends(binlog'[k], binlog[k])
         /\ \A k \in Servers \ {s} : contents'[k] = contents[k]
<1>1. stmts \in Nat /\ stmts < MaxStmts /\ MaxStmts \in Nat
  BY ReplicationAssumption DEF ReplicationAssumption, Types, CountTypes, Execute
<1>2. stmts + 1 \in 1 .. MaxStmts
  BY <1>1
<1>3. s \in Servers /\ op \in Statements
  BY ReplicationAssumption DEF ReplicationAssumption, Statements
<1>4. Effective(s, op, t) /\ Perform(s, op, t, stmts + 1)
  BY DEF Execute
<1>5. QED BY <1>2, <1>3, <1>4, PerformSteps DEF Types

LEMMA LogsAlone ==
  ASSUME LogTypes, Origins, UNCHANGED <<contents, binlog>>
  PROVE  /\ LogTypes' /\ Origins'
         /\ \A k \in Servers : Extends(binlog'[k], binlog[k])
         /\ contents' = contents
BY DEF LogTypes, Origins, Extends

\* The entry a slave is about to apply.
LEMMA NextEntry ==
  ASSUME Types, Positions, NEW l \in Links, inbox[l] # <<>>, Head(inbox[l]).kind = "entry"
  PROVE  /\ Slave(l) \in Servers /\ Master(l) \in Servers
         /\ Head(inbox[l]).pos \in 1 .. Len(binlog[Master(l)])
         /\ Head(inbox[l]).body = binlog[Master(l)][Head(inbox[l]).pos]
         /\ Head(inbox[l]).body \in Bodies
<1>1. /\ inbox[l] \in Seq(Texts) /\ AllWithin(binlog[Master(l)], inbox[l])
      /\ Slave(l) \in Servers /\ Master(l) \in Servers
  BY ReplicationAssumption DEF ReplicationAssumption, Types, LinkTypes, Positions, PositionsOf
<1>2. binlog[Master(l)] \in Seq(Bodies)
  BY <1>1 DEF Types, LogTypes
<1>3. Head(inbox[l]) \in Texts /\ Within(binlog[Master(l)], Head(inbox[l]))
  BY <1>1, <1>2, WithinTail
<1>4. QED BY <1>1, <1>3, TextFields DEF Within

LEMMA ApplySteps ==
  ASSUME Types, Origins, Positions, NEW l \in Links, Apply(l)
  PROVE  /\ LogTypes' /\ Origins'
         /\ \A k \in Servers : Extends(binlog'[k], binlog[k])
         /\ \A k \in Servers \ {Slave(l)} : contents'[k] = contents[k]
<1> DEFINE e == Head(inbox[l]).body
<1>1. e \in Bodies /\ Slave(l) \in Servers
  BY NextEntry DEF Apply
<1>2. \/ UNCHANGED <<contents, binlog>>
      \/ Effective(Slave(l), e.op, e.table) /\ Perform(Slave(l), e.op, e.table, e.row)
  BY DEF Apply
<1> HIDE DEF e
<1>3. e.op \in Statements /\ e.table \in Tables /\ e.row \in 1 .. MaxStmts
  BY <1>1 DEF Bodies
<1>4. CASE UNCHANGED <<contents, binlog>>
  BY <1>4, LogsAlone DEF Types
<1>5. CASE Effective(Slave(l), e.op, e.table) /\ Perform(Slave(l), e.op, e.table, e.row)
  BY <1>1, <1>3, <1>5, PerformSteps DEF Types
<1>6. QED BY <1>2, <1>4, <1>5

-----------------------------------------------------------------------------
(* Links. *)

Link(l) == \/ Client(l) \/ Handler(l) \/ Drop(l) \/ ApplyFails(l) \/ ResetSlave(l)

Same(l) ==
  /\ saved'[l] = saved[l] /\ sent'[l] = sent[l] /\ applied'[l] = applied[l]
  /\ conn'[l] = conn[l] /\ handler'[l] = handler[l]
  /\ wire'[l] = wire[l] /\ inbox'[l] = inbox[l]

LEMMA Elsewhere ==
  ASSUME LinkTypes, NEW l \in Links, NEW k \in Links, k # l, Link(l)
  PROVE  Same(k)
<1>1. CASE Connect(l)
  BY <1>1 DEF Connect, LinkTypes, Same
<1>2. CASE Handshake(l)
  BY <1>2 DEF Handshake, LinkTypes, Same
<1>3. CASE Receive(l)
  BY <1>3 DEF Receive, LinkTypes, Same
<1>4. CASE Apply(l)
  BY <1>4 DEF Apply, Take, LinkTypes, Same
<1>5. CASE SaveApplied(l)
  BY <1>5 DEF SaveApplied, SavePosition, LinkTypes, Same
<1>6. CASE ReadHeartbeat(l)
  BY <1>6 DEF ReadHeartbeat, SavePosition, Take, LinkTypes, Same
<1>7. CASE Ignore(l)
  BY <1>7 DEF Ignore, Take, LinkTypes, Same
<1>8. CASE ParseFails(l)
  BY <1>8 DEF ParseFails, Broken, LinkTypes, Same
<1>9. CASE SendEntry(l)
  BY <1>9 DEF SendEntry, LinkTypes, Same
<1>10. CASE NoEntries(l)
  BY <1>10 DEF NoEntries, LinkTypes, Same
<1>11. CASE SendHeartbeat(l)
  BY <1>11 DEF SendHeartbeat, LinkTypes, Same
<1>12. CASE Drop(l)
  BY <1>12 DEF Drop, Broken, LinkTypes, Same
<1>13. CASE ApplyFails(l)
  BY <1>13 DEF ApplyFails, Take, LinkTypes, Same
<1>14. CASE ResetSlave(l)
  BY <1>14 DEF ResetSlave, LinkTypes, Same
<1>15. CASE ApplyBare(l)
  BY <1>15 DEF ApplyBare, Take, LinkTypes, Same
<1>16. QED
  BY <1>1, <1>2, <1>3, <1>4, <1>5, <1>6, <1>7, <1>8, <1>9, <1>10, <1>11, <1>12,
     <1>13, <1>14, <1>15 DEF Link, Client, Handler

\* A link that does not move keeps its positions and its phase.
LEMMA SameLink ==
  ASSUME Types, LogTypes', NEW l \in Links, Same(l), PositionsOf(l), PhaseOf(l),
         Extends(binlog'[Master(l)], binlog[Master(l)])
  PROVE  PositionsOf(l)' /\ PhaseOf(l)'
<1>1. /\ binlog[Master(l)] \in Seq(Bodies) /\ binlog'[Master(l)] \in Seq(Bodies)
      /\ wire[l] \in Seq(Texts) /\ inbox[l] \in Seq(Texts)
      /\ saved[l] \in Nat /\ sent[l] \in Nat /\ applied[l] \in Nat
  BY ReplicationAssumption DEF ReplicationAssumption, Types, LogTypes, LinkTypes
<1>2. AllWithin(binlog'[Master(l)], wire[l]) /\ AllWithin(binlog'[Master(l)], inbox[l])
  BY <1>1, WithinExtends DEF PositionsOf
<1>3. Len(binlog'[Master(l)]) >= Len(binlog[Master(l)])
  BY DEF Extends
<1>4. PhaseOf(l)'
  BY DEF PhaseOf, Same
<1>5. QED BY <1>1, <1>2, <1>3, <1>4 DEF PositionsOf, Same

\* What one action does to the types, the positions and the phase of its link.
Holds(l) == LinkTypes' /\ CountTypes' /\ PositionsOf(l)' /\ PhaseOf(l)'

LEMMA ConnectHolds ==
  ASSUME Types, Positions, Phases, NEW l \in Links, Connect(l)
  PROVE  Holds(l)
<1>1. <<Ok>> \in Seq(Texts) /\ <<Ok>> # <<>> /\ <<Ok>>[1] = Ok
  BY TextsHold
<1>2. \A entries : AllWithin(entries, <<Ok>>)
  BY DEF AllWithin, Within, Ok
<1>3. LinkTypes'
  BY <1>1 DEF Types, LinkTypes, Connect, StreamFrom
<1>4. CountTypes'
  BY DEF Types, CountTypes, Connect
<1>5. PositionsOf(l) /\ PhaseOf(l)
  BY DEF Positions, Phases
<1>6. PositionsOf(l)'
  BY <1>2, <1>5 DEF Types, LinkTypes, PositionsOf, Connect, StreamFrom
<1>7. PhaseOf(l)'
  BY <1>1, <1>5 DEF Types, LinkTypes, PhaseOf, Connect
<1>8. QED BY <1>3, <1>4, <1>6, <1>7 DEF Holds

LEMMA HandshakeHolds ==
  ASSUME Types, Positions, Phases, NEW l \in Links, Handshake(l)
  PROVE  Holds(l)
<1>1. PICK n \in 1 .. Len(wire[l]) :
        /\ cuts' = cuts + IF n > 1 THEN 1 ELSE 0
        /\ wire' = [wire EXCEPT ![l] = SubSeq(@, n + 1, Len(@))]
  BY DEF Handshake
<1>2. wire[l] \in Seq(Texts) /\ binlog[Master(l)] \in Seq(Bodies) /\ PositionsOf(l) /\ PhaseOf(l)
  BY ReplicationAssumption
  DEF ReplicationAssumption, Types, LogTypes, LinkTypes, Positions, Phases
<1>3. /\ SubSeq(wire[l], n + 1, Len(wire[l])) \in Seq(Texts)
      /\ AllWithin(binlog[Master(l)], SubSeq(wire[l], n + 1, Len(wire[l])))
  BY <1>2, Parts, WithinParts DEF PositionsOf
<1>4. LinkTypes'
  BY <1>1, <1>3 DEF Types, LinkTypes, Handshake
<1>5. CountTypes'
  BY <1>1 DEF Types, CountTypes, Handshake
<1>6. PositionsOf(l)'
  BY <1>1, <1>2, <1>3 DEF Types, LinkTypes, PositionsOf, Handshake
<1>7. PhaseOf(l)'
  BY <1>2 DEF Types, LinkTypes, PhaseOf, Handshake
<1>8. QED BY <1>4, <1>5, <1>6, <1>7 DEF Holds

LEMMA ReceiveHolds ==
  ASSUME Types, Positions, Phases, NEW l \in Links, Receive(l)
  PROVE  Holds(l)
<1>1. /\ wire[l] \in Seq(Texts) /\ binlog[Master(l)] \in Seq(Bodies)
      /\ PositionsOf(l) /\ PhaseOf(l) /\ cuts \in Nat
  BY ReplicationAssumption
  DEF ReplicationAssumption, Types, LogTypes, LinkTypes, CountTypes, Positions, Phases
<1>2. PICK w, i :
        /\ w \in Seq(Texts) /\ i \in Seq(Texts)
        /\ AllWithin(binlog[Master(l)], w) /\ AllWithin(binlog[Master(l)], i)
        /\ wire' = [wire EXCEPT ![l] = w] /\ inbox' = [inbox EXCEPT ![l] = i]
        /\ cuts' \in Nat
  <2>1. CASE \E n \in 1 .. Len(wire[l]) :
               /\ inbox' = [inbox EXCEPT ![l] = SubSeq(wire[l], 1, n)]
               /\ wire' = [wire EXCEPT ![l] = SubSeq(@, n + 1, Len(@))]
               /\ UNCHANGED cuts
    <3>1. PICK n \in 1 .. Len(wire[l]) :
               /\ inbox' = [inbox EXCEPT ![l] = SubSeq(wire[l], 1, n)]
               /\ wire' = [wire EXCEPT ![l] = SubSeq(@, n + 1, Len(@))]
               /\ UNCHANGED cuts
      BY <2>1
    <3>2. /\ SubSeq(wire[l], 1, n) \in Seq(Texts)
          /\ SubSeq(wire[l], n + 1, Len(wire[l])) \in Seq(Texts)
          /\ AllWithin(binlog[Master(l)], SubSeq(wire[l], 1, n))
          /\ AllWithin(binlog[Master(l)], SubSeq(wire[l], n + 1, Len(wire[l])))
      BY <1>1, Parts, WithinParts DEF PositionsOf
    <3>3. QED BY <1>1, <3>1, <3>2
  <2>2. CASE \E n \in 1 .. Len(wire[l]) : \E start \in Starts(wire[l][n]) :
               /\ cuts < MaxCuts /\ cuts' = cuts + 1
               /\ inbox' = [inbox EXCEPT ![l] = Append(SubSeq(wire[l], 1, n - 1), start)]
               /\ wire' = [wire EXCEPT ![l] = <<Rest>> \o SubSeq(@, n + 1, Len(@))]
    <3>0. PICK n \in 1 .. Len(wire[l]) : \E start \in Starts(wire[l][n]) :
               /\ cuts' = cuts + 1
               /\ inbox' = [inbox EXCEPT ![l] = Append(SubSeq(wire[l], 1, n - 1), start)]
               /\ wire' = [wire EXCEPT ![l] = <<Rest>> \o SubSeq(@, n + 1, Len(@))]
      BY <2>2
    <3>1. PICK start \in Starts(wire[l][n]) :
               /\ cuts' = cuts + 1
               /\ inbox' = [inbox EXCEPT ![l] = Append(SubSeq(wire[l], 1, n - 1), start)]
               /\ wire' = [wire EXCEPT ![l] = <<Rest>> \o SubSeq(@, n + 1, Len(@))]
      BY <3>0
    <3>2. n - 1 \in 0 .. Len(wire[l]) /\ n \in 0 .. Len(wire[l])
      BY <1>1
    <3>3. /\ SubSeq(wire[l], 1, n - 1) \in Seq(Texts)
          /\ AllWithin(binlog[Master(l)], SubSeq(wire[l], 1, n - 1))
      BY <1>1, <3>2, Parts, WithinParts DEF PositionsOf
    <3>4. /\ SubSeq(wire[l], n + 1, Len(wire[l])) \in Seq(Texts)
          /\ AllWithin(binlog[Master(l)], SubSeq(wire[l], n + 1, Len(wire[l])))
      BY <1>1, <3>2, Parts, WithinParts DEF PositionsOf
    <3>5. wire[l][n] \in Texts /\ Within(binlog[Master(l)], wire[l][n])
      BY <1>1 DEF PositionsOf, AllWithin
    <3>6. start \in Texts /\ Within(binlog[Master(l)], start)
      BY <1>1, <3>5, StartsHold
    <3>7. /\ Append(SubSeq(wire[l], 1, n - 1), start) \in Seq(Texts)
          /\ AllWithin(binlog[Master(l)], Append(SubSeq(wire[l], 1, n - 1), start))
      BY <1>1, <3>3, <3>6, WithinAppend
    <3>8. /\ <<Rest>> \o SubSeq(wire[l], n + 1, Len(wire[l])) \in Seq(Texts)
          /\ AllWithin(binlog[Master(l)], <<Rest>> \o SubSeq(wire[l], n + 1, Len(wire[l])))
      BY <1>1, <3>4, WithinRest
    <3>9. cuts' \in Nat
      BY <1>1, <3>1
    <3>10. QED BY <3>1, <3>7, <3>8, <3>9
  <2>3. QED BY <2>1, <2>2 DEF Receive
<1>3. LinkTypes'
  BY <1>2 DEF Types, LinkTypes, Receive
<1>4. CountTypes'
  BY <1>2 DEF Types, CountTypes, Receive
<1>5. PositionsOf(l)'
  BY <1>1, <1>2 DEF Types, LinkTypes, PositionsOf, Receive
<1>6. PhaseOf(l)'
  BY <1>1, <1>2 DEF Types, LinkTypes, PhaseOf, Receive
<1>7. QED BY <1>3, <1>4, <1>5, <1>6 DEF Holds

LEMMA FirstStays ==
  ASSUME NEW S, NEW w \in Seq(S), NEW x \in S
  PROVE  /\ Append(w, x) # <<>>
         /\ w # <<>> => Append(w, x)[1] = w[1] /\ Head(Append(w, x)) = Head(w)
<1>1. w # <<>> => 1 \in 1 .. Len(w)
  OBVIOUS
<1>2. QED BY <1>1, AppendProperties, HeadTailAppend

LEMMA Facts ==
  ASSUME Types, Positions, Phases, NEW l \in Links
  PROVE  /\ Slave(l) \in Servers /\ Master(l) \in Servers
         /\ binlog[Master(l)] \in Seq(Bodies) /\ PositionsOf(l) /\ PhaseOf(l)
         /\ wire[l] \in Seq(Texts) /\ inbox[l] \in Seq(Texts)
         /\ saved[l] \in Nat /\ sent[l] \in Nat /\ applied[l] \in Nat
         /\ conn[l] \in {"down", "handshake", "streaming"}
BY ReplicationAssumption
DEF ReplicationAssumption, Types, LogTypes, LinkTypes, Positions, Phases

\* A line is taken from the inbox of l and nothing else happens to the link.
LEMMA TakeHolds ==
  ASSUME Types, Positions, Phases, NEW l \in Links, inbox[l] # <<>>,
         inbox' = [inbox EXCEPT ![l] = Tail(@)]
  PROVE  /\ inbox' \in [Links -> Seq(Texts)] /\ inbox'[l] = Tail(inbox[l])
         /\ AllWithin(binlog[Master(l)], Tail(inbox[l])) /\ Tail(inbox[l]) \in Seq(Texts)
         /\ Head(inbox[l]) \in Texts /\ Within(binlog[Master(l)], Head(inbox[l]))
<1>1. binlog[Master(l)] \in Seq(Bodies) /\ PositionsOf(l) /\ inbox[l] \in Seq(Texts)
  BY Facts
<1>2. /\ Tail(inbox[l]) \in Seq(Texts) /\ AllWithin(binlog[Master(l)], Tail(inbox[l]))
      /\ Head(inbox[l]) \in Texts /\ Within(binlog[Master(l)], Head(inbox[l]))
  BY <1>1, WithinTail DEF PositionsOf
<1>3. QED BY <1>2 DEF Types, LinkTypes

LEMMA ApplyHolds ==
  ASSUME Types, Origins, Positions, Phases, NEW l \in Links, Apply(l)
  PROVE  Holds(l)
<1>1. /\ binlog[Master(l)] \in Seq(Bodies) /\ PositionsOf(l) /\ Master(l) \in Servers
      /\ wire[l] \in Seq(Texts) /\ saved[l] \in Nat /\ sent[l] \in Nat /\ applied[l] \in Nat
  BY Facts
<1>2. /\ inbox' \in [Links -> Seq(Texts)] /\ inbox'[l] = Tail(inbox[l])
      /\ AllWithin(binlog[Master(l)], Tail(inbox[l])) /\ Tail(inbox[l]) \in Seq(Texts)
  BY TakeHolds DEF Apply, Take
<1>3. binlog'[Master(l)] \in Seq(Bodies) /\ Extends(binlog'[Master(l)], binlog[Master(l)])
  BY <1>1, ApplySteps DEF LogTypes
<1>4. Head(inbox[l]).pos \in 1 .. Len(binlog[Master(l)])
  BY NextEntry DEF Apply
<1>5. applied' = applied \/ applied' = [applied EXCEPT ![l] = Head(inbox[l]).pos]
  BY DEF Apply
<1>6. applied' \in [Links -> Nat] /\ applied'[l] <= Len(binlog[Master(l)])
  BY <1>1, <1>4, <1>5 DEF Types, LinkTypes, PositionsOf
<1>7. UNCHANGED <<saved, conn, wire, sent, handler, bounds>> /\ conn[l] = "streaming"
  BY DEF Apply
<1>8. LinkTypes' /\ CountTypes'
  BY <1>2, <1>6, <1>7 DEF Types, LinkTypes, CountTypes
<1>9. /\ AllWithin(binlog'[Master(l)], wire[l])
      /\ AllWithin(binlog'[Master(l)], Tail(inbox[l]))
  BY <1>1, <1>2, <1>3, WithinExtends DEF PositionsOf
<1>10. Len(binlog'[Master(l)]) >= Len(binlog[Master(l)])
  BY <1>3 DEF Extends
<1>11. PositionsOf(l)'
  BY <1>1, <1>2, <1>3, <1>6, <1>7, <1>9, <1>10 DEF PositionsOf
<1>12. PhaseOf(l)'
  BY <1>7 DEF PhaseOf
<1>13. QED BY <1>8, <1>11, <1>12 DEF Holds

LEMMA ApplyBareHolds ==
  ASSUME Types, Positions, Phases, NEW l \in Links, ApplyBare(l)
  PROVE  Holds(l)
<1>1. /\ binlog[Master(l)] \in Seq(Bodies) /\ PositionsOf(l) /\ PhaseOf(l)
      /\ wire[l] \in Seq(Texts) /\ inbox[l] \in Seq(Texts)
      /\ saved[l] \in Nat /\ sent[l] \in Nat /\ applied[l] \in Nat
  BY Facts
<1>2. /\ inbox' \in [Links -> Seq(Texts)] /\ inbox'[l] = Tail(inbox[l])
      /\ AllWithin(binlog[Master(l)], Tail(inbox[l]))
      /\ Head(inbox[l]) \in Texts /\ Within(binlog[Master(l)], Head(inbox[l]))
  BY TakeHolds DEF ApplyBare, Take
<1>3. Head(inbox[l]).pos \in Nat /\ Head(inbox[l]).pos <= Len(binlog[Master(l)])
  BY <1>1, <1>2 DEF Within, ApplyBare
<1>4. applied' = applied \/ applied' = [applied EXCEPT ![l] = Head(inbox[l]).pos]
  BY DEF ApplyBare
<1>5. applied' \in [Links -> Nat] /\ applied'[l] <= Len(binlog[Master(l)])
  BY <1>1, <1>3, <1>4 DEF Types, LinkTypes, PositionsOf
<1>6. /\ UNCHANGED <<contents, binlog, saved, conn, wire, sent, handler, bounds>>
      /\ conn[l] = "streaming"
  BY DEF ApplyBare
<1>7. LinkTypes' /\ CountTypes'
  BY <1>2, <1>5, <1>6 DEF Types, LinkTypes, CountTypes
<1>8. PositionsOf(l)' /\ PhaseOf(l)'
  BY <1>1, <1>2, <1>5, <1>6 DEF PositionsOf, PhaseOf
<1>9. QED BY <1>7, <1>8 DEF Holds

LEMMA SaveAppliedHolds ==
  ASSUME Types, Positions, Phases, NEW l \in Links, SaveApplied(l)
  PROVE  Holds(l)
<1>1. /\ binlog[Master(l)] \in Seq(Bodies) /\ PositionsOf(l) /\ PhaseOf(l)
      /\ wire[l] \in Seq(Texts) /\ inbox[l] \in Seq(Texts)
      /\ saved[l] \in Nat /\ sent[l] \in Nat /\ applied[l] \in Nat
  BY Facts
<1>2. LinkTypes' /\ CountTypes'
  BY DEF Types, LinkTypes, CountTypes, SaveApplied, SavePosition
<1>3. PositionsOf(l)'
  BY <1>1 DEF Types, LinkTypes, PositionsOf, SaveApplied, SavePosition
<1>4. PhaseOf(l)'
  BY <1>1 DEF Types, LinkTypes, PhaseOf, SaveApplied, SavePosition
<1>5. QED BY <1>2, <1>3, <1>4 DEF Holds

LEMMA ReadHeartbeatHolds ==
  ASSUME Types, Positions, Phases, NEW l \in Links, ReadHeartbeat(l)
  PROVE  Holds(l)
<1>1. /\ binlog[Master(l)] \in Seq(Bodies) /\ PositionsOf(l) /\ PhaseOf(l)
      /\ wire[l] \in Seq(Texts) /\ inbox[l] \in Seq(Texts)
      /\ saved[l] \in Nat /\ sent[l] \in Nat /\ applied[l] \in Nat
  BY Facts
<1>2. /\ inbox' \in [Links -> Seq(Texts)] /\ inbox'[l] = Tail(inbox[l])
      /\ AllWithin(binlog[Master(l)], Tail(inbox[l]))
      /\ Head(inbox[l]) \in Texts /\ Within(binlog[Master(l)], Head(inbox[l]))
  BY TakeHolds DEF ReadHeartbeat, Take
<1>3. Head(inbox[l]).pos \in Nat /\ Head(inbox[l]).pos <= Len(binlog[Master(l)])
  BY <1>1, <1>2 DEF Within, ReadHeartbeat
<1>4. LinkTypes' /\ CountTypes'
  BY <1>2, <1>3 DEF Types, LinkTypes, CountTypes, ReadHeartbeat, SavePosition
<1>5. PositionsOf(l)'
  BY <1>1, <1>2, <1>3 DEF Types, LinkTypes, PositionsOf, ReadHeartbeat, SavePosition
<1>6. PhaseOf(l)'
  BY <1>1 DEF Types, LinkTypes, PhaseOf, ReadHeartbeat
<1>7. QED BY <1>4, <1>5, <1>6 DEF Holds

\* The line is passed over, or what it asks for fails.
LEMMA PassedOverHolds ==
  ASSUME Types, Positions, Phases, NEW l \in Links, Ignore(l) \/ ApplyFails(l)
  PROVE  Holds(l)
<1>1. /\ binlog[Master(l)] \in Seq(Bodies) /\ PositionsOf(l) /\ PhaseOf(l)
      /\ wire[l] \in Seq(Texts) /\ inbox[l] \in Seq(Texts)
      /\ saved[l] \in Nat /\ sent[l] \in Nat /\ applied[l] \in Nat
  BY Facts
<1>2. /\ inbox' \in [Links -> Seq(Texts)] /\ inbox'[l] = Tail(inbox[l])
      /\ AllWithin(binlog[Master(l)], Tail(inbox[l]))
  BY TakeHolds DEF Ignore, ApplyFails, Take
<1>3. /\ UNCHANGED <<binlog, saved, conn, wire, sent, handler, applied, stmts, drops,
                     cuts, resets>>
      /\ fails' \in {fails, fails + 1} /\ conn[l] = "streaming"
  BY DEF Ignore, ApplyFails
<1>4. LinkTypes'
  BY <1>2, <1>3 DEF Types, LinkTypes
<1>5. CountTypes'
  BY <1>3 DEF Types, CountTypes
<1>6. PositionsOf(l)' /\ PhaseOf(l)'
  BY <1>1, <1>2, <1>3 DEF PositionsOf, PhaseOf
<1>7. QED BY <1>4, <1>5, <1>6 DEF Holds

LEMMA BrokenHolds ==
  ASSUME Types, Positions, Phases, NEW l \in Links, Drop(l) \/ ParseFails(l)
  PROVE  Holds(l)
<1>1. /\ binlog[Master(l)] \in Seq(Bodies) /\ PositionsOf(l) /\ PhaseOf(l)
      /\ wire[l] \in Seq(Texts) /\ inbox[l] \in Seq(Texts)
      /\ saved[l] \in Nat /\ sent[l] \in Nat /\ applied[l] \in Nat
  BY Facts
<1>2. <<>> \in Seq(Texts)
  OBVIOUS
<1>3. /\ conn' = [conn EXCEPT ![l] = "down"] /\ wire' = [wire EXCEPT ![l] = <<>>]
      /\ inbox' = [inbox EXCEPT ![l] = <<>>]
      /\ applied' = [applied EXCEPT ![l] = 0] \/ (applied' = applied /\ applied[l] = 0)
      /\ drops' \in {drops, drops + 1}
      /\ UNCHANGED <<contents, binlog, saved, sent, handler, stmts, cuts, fails, resets>>
  <2>1. CASE Drop(l)
    BY <2>1 DEF Drop, Broken
  <2>2. CASE ParseFails(l)
    BY <2>2 DEF ParseFails, Broken
  <2>3. QED BY <2>1, <2>2
<1>4. LinkTypes'
  <2>1. wire' \in [Links -> Seq(Texts)] /\ inbox' \in [Links -> Seq(Texts)]
    BY <1>2, <1>3 DEF Types, LinkTypes
  <2>2. /\ applied' \in [Links -> Nat]
        /\ conn' \in [Links -> {"down", "handshake", "streaming"}]
    BY <1>3 DEF Types, LinkTypes
  <2>3. QED BY <1>3, <2>1, <2>2 DEF Types, LinkTypes
<1>5. CountTypes'
  BY <1>3 DEF Types, CountTypes
<1>6. conn'[l] = "down" /\ wire'[l] = <<>> /\ inbox'[l] = <<>> /\ applied'[l] = 0
  BY <1>3 DEF Types, LinkTypes
<1>7. PositionsOf(l)'
  BY <1>1, <1>3, <1>6, WithinNone DEF PositionsOf
<1>8. PhaseOf(l)'
  BY <1>6 DEF PhaseOf
<1>9. QED BY <1>4, <1>5, <1>7, <1>8 DEF Holds

LEMMA SendEntryHolds ==
  ASSUME Types, Positions, Phases, NEW l \in Links, SendEntry(l)
  PROVE  Holds(l)
<1>1. /\ binlog[Master(l)] \in Seq(Bodies) /\ PositionsOf(l) /\ PhaseOf(l)
      /\ wire[l] \in Seq(Texts) /\ inbox[l] \in Seq(Texts)
      /\ saved[l] \in Nat /\ sent[l] \in Nat /\ applied[l] \in Nat
  BY Facts
<1> DEFINE x == Entry(Master(l), sent[l] + 1)
<1>2. sent[l] + 1 \in 1 .. Len(binlog[Master(l)])
  BY <1>1 DEF SendEntry, More
<1>3. x \in Texts /\ Within(binlog[Master(l)], x)
  BY <1>1, <1>2, TextsHold DEF Entry, Within
<1>4. wire' = [wire EXCEPT ![l] = Append(@, x)]
  BY DEF SendEntry
<1> HIDE DEF x
<1>5. Append(wire[l], x) \in Seq(Texts) /\ AllWithin(binlog[Master(l)], Append(wire[l], x))
  BY <1>1, <1>3, WithinAppend DEF PositionsOf
<1>6. LinkTypes' /\ CountTypes'
  BY <1>1, <1>4, <1>5 DEF Types, LinkTypes, CountTypes, SendEntry
<1>7. PositionsOf(l)'
  BY <1>1, <1>2, <1>4, <1>5 DEF Types, LinkTypes, PositionsOf, SendEntry
<1>8. Append(wire[l], x) # <<>> /\ (wire[l] # <<>> => Append(wire[l], x)[1] = wire[l][1])
  BY <1>1, <1>3, FirstStays
<1>9. wire'[l] = Append(wire[l], x)
  BY <1>4 DEF Types, LinkTypes
<1>10. UNCHANGED <<conn, inbox, applied>>
  BY DEF SendEntry
<1>11. PhaseOf(l)'
  BY <1>1, <1>8, <1>9, <1>10 DEF PhaseOf
<1>12. QED BY <1>6, <1>7, <1>11 DEF Holds

LEMMA SendHeartbeatHolds ==
  ASSUME Types, Positions, Phases, NEW l \in Links, SendHeartbeat(l)
  PROVE  Holds(l)
<1>1. /\ binlog[Master(l)] \in Seq(Bodies) /\ PositionsOf(l) /\ PhaseOf(l)
      /\ wire[l] \in Seq(Texts) /\ inbox[l] \in Seq(Texts)
      /\ saved[l] \in Nat /\ sent[l] \in Nat /\ applied[l] \in Nat
  BY Facts
<1> DEFINE x == Heartbeat(Len(binlog[Master(l)]))
<1>2. Len(binlog[Master(l)]) \in Nat
  BY <1>1
<1>3. x \in Texts /\ Within(binlog[Master(l)], x)
  BY <1>2, TextsHold DEF Heartbeat, Within
<1>4. wire' = wire \/ wire' = [wire EXCEPT ![l] = Append(@, x)]
  BY DEF SendHeartbeat
<1> HIDE DEF x
<1>5. Append(wire[l], x) \in Seq(Texts) /\ AllWithin(binlog[Master(l)], Append(wire[l], x))
  BY <1>1, <1>3, WithinAppend DEF PositionsOf
<1>6. LinkTypes' /\ CountTypes'
  BY <1>4, <1>5 DEF Types, LinkTypes, CountTypes, SendHeartbeat
<1>7. PositionsOf(l)'
  BY <1>1, <1>4, <1>5 DEF Types, LinkTypes, PositionsOf, SendHeartbeat
<1>8. Append(wire[l], x) # <<>> /\ (wire[l] # <<>> => Append(wire[l], x)[1] = wire[l][1])
  BY <1>1, <1>3, FirstStays
<1>9. wire'[l] = wire[l] \/ wire'[l] = Append(wire[l], x)
  BY <1>4 DEF Types, LinkTypes
<1>10. UNCHANGED <<conn, inbox, applied>>
  BY DEF SendHeartbeat
<1>11. PhaseOf(l)'
  BY <1>1, <1>8, <1>9, <1>10 DEF PhaseOf
<1>12. QED BY <1>6, <1>7, <1>11 DEF Holds

LEMMA NoEntriesHolds ==
  ASSUME Types, Positions, Phases, NEW l \in Links, NoEntries(l)
  PROVE  Holds(l)
<1>1. /\ binlog[Master(l)] \in Seq(Bodies) /\ PositionsOf(l) /\ PhaseOf(l)
      /\ wire[l] \in Seq(Texts) /\ inbox[l] \in Seq(Texts)
      /\ saved[l] \in Nat /\ sent[l] \in Nat /\ applied[l] \in Nat
  BY Facts
<1>2. LinkTypes' /\ CountTypes'
  BY DEF Types, LinkTypes, CountTypes, NoEntries
<1>3. PositionsOf(l)' /\ PhaseOf(l)'
  BY <1>1 DEF PositionsOf, PhaseOf, NoEntries
<1>4. QED BY <1>2, <1>3 DEF Holds

LEMMA ResetSlaveHolds ==
  ASSUME Types, Positions, Phases, NEW l \in Links, ResetSlave(l)
  PROVE  Holds(l)
<1>1. /\ binlog[Master(l)] \in Seq(Bodies) /\ PositionsOf(l) /\ PhaseOf(l)
      /\ wire[l] \in Seq(Texts) /\ inbox[l] \in Seq(Texts)
      /\ saved[l] \in Nat /\ sent[l] \in Nat /\ applied[l] \in Nat
  BY Facts
<1>2. LinkTypes' /\ CountTypes'
  BY DEF Types, LinkTypes, CountTypes, ResetSlave
<1>3. PositionsOf(l)'
  BY <1>1 DEF Types, LinkTypes, PositionsOf, ResetSlave
<1>4. PhaseOf(l)'
  BY <1>1 DEF PhaseOf, ResetSlave
<1>5. QED BY <1>2, <1>3, <1>4 DEF Holds

LEMMA LinkHolds ==
  ASSUME Types, Origins, Positions, Phases, NEW l \in Links, Link(l)
  PROVE  Holds(l)
BY ConnectHolds, HandshakeHolds, ReceiveHolds, ApplyHolds, ApplyBareHolds, SaveAppliedHolds,
   ReadHeartbeatHolds, PassedOverHolds, BrokenHolds, SendEntryHolds, NoEntriesHolds,
   SendHeartbeatHolds, ResetSlaveHolds DEF Link, Client, Handler

\* Only Apply changes the servers.
LEMMA LinkLogs ==
  ASSUME Types, Origins, Positions, NEW l \in Links, Link(l)
  PROVE  /\ LogTypes' /\ Origins'
         /\ \A k \in Servers : Extends(binlog'[k], binlog[k])
         /\ \A k \in Servers \ {Slave(l)} : contents'[k] = contents[k]
         /\ Apply(l) \/ UNCHANGED <<contents, binlog>>
<1>1. CASE Apply(l)
  BY <1>1, ApplySteps
<1>2. CASE ~Apply(l)
  <2>1. UNCHANGED <<contents, binlog>>
    BY <1>2 DEF Link, Client, Handler, Connect, Handshake, Receive, SaveApplied,
                ReadHeartbeat, Ignore, ParseFails, SendEntry, NoEntries, SendHeartbeat,
                Drop, ApplyBare, ApplyFails, ResetSlave
  <2>2. QED BY <2>1, LogsAlone DEF Types
<1>3. QED BY <1>1, <1>2

-----------------------------------------------------------------------------
(* The types and the positions are invariants. *)

Sound == Types /\ Origins /\ Positions /\ Phases

LEMMA InitSound == Init => Sound
<1> SUFFICES ASSUME Init PROVE Sound
  OBVIOUS
<1>1. <<>> \in Seq(Bodies) /\ <<>> \in Seq(Texts) /\ Len(<<>>) = 0 /\ DOMAIN <<>> = {}
  OBVIOUS
<1>2. contents \in [Servers -> [Tables -> Rows]]
  <2>1. NoTable \in Rows
    BY Zenon DEF Rows
  <2>2. QED BY <2>1 DEF Init
<1>3. LogTypes /\ LinkTypes /\ CountTypes
  BY <1>1, <1>2 DEF Init, LogTypes, LinkTypes, CountTypes
<1>4. Origins
  BY <1>1 DEF Init, Origins
<1>5. ASSUME NEW l \in Links PROVE PositionsOf(l) /\ PhaseOf(l)
  <2>1. Master(l) \in Servers
    BY ReplicationAssumption DEF ReplicationAssumption
  <2>2. QED BY <1>1, <2>1, WithinNone DEF Init, PositionsOf, PhaseOf
<1>6. QED BY <1>3, <1>4, <1>5 DEF Sound, Types, Positions, Phases

\* No server's binlog is ever shortened or changed.
LEMMA StepLogs ==
  ASSUME Sound, [Next]_vars
  PROVE  LogTypes' /\ Origins' /\ \A k \in Servers : Extends(binlog'[k], binlog[k])
<1>1. ASSUME NEW s \in Primaries, NEW op \in Ops, NEW t \in Tables, Execute(s, op, t)
      PROVE  LogTypes' /\ Origins' /\ \A k \in Servers : Extends(binlog'[k], binlog[k])
  BY <1>1, ExecuteSteps DEF Sound
<1>2. ASSUME NEW l \in Links, Link(l)
      PROVE  LogTypes' /\ Origins' /\ \A k \in Servers : Extends(binlog'[k], binlog[k])
  BY <1>2, LinkLogs DEF Sound
<1>3. CASE UNCHANGED vars
  BY <1>3, LogsAlone DEF Sound, Types
<1>4. QED BY <1>1, <1>2, <1>3, Zenon DEF Next, Link

LEMMA StepSound == Sound /\ [Next]_vars => Sound'
<1> SUFFICES ASSUME Sound, [Next]_vars PROVE Sound'
  OBVIOUS
<1>0. LogTypes' /\ Origins' /\ \A k \in Servers : Extends(binlog'[k], binlog[k])
  BY StepLogs
<1>1. ASSUME NEW k \in Links, Same(k) PROVE PositionsOf(k)' /\ PhaseOf(k)'
  <2>1. Master(k) \in Servers /\ PositionsOf(k) /\ PhaseOf(k)
    BY Facts DEF Sound
  <2>2. QED BY <1>0, <1>1, <2>1, SameLink DEF Sound
<1>2. ASSUME NEW s \in Primaries, NEW op \in Ops, NEW t \in Tables, Execute(s, op, t)
      PROVE  Sound'
  <2>1. UNCHANGED <<link, drops, cuts, fails, resets>> /\ stmts' = stmts + 1
    BY <1>2 DEF Execute
  <2>2. LinkTypes' /\ CountTypes'
    BY <2>1 DEF Sound, Types, LinkTypes, CountTypes
  <2>3. \A k \in Links : Same(k)
    BY <2>1 DEF Same
  <2>4. QED BY <1>0, <1>1, <2>2, <2>3 DEF Sound, Types, Positions, Phases
<1>3. ASSUME NEW l \in Links, Link(l) PROVE Sound'
  <2>1. Holds(l)
    BY <1>3, LinkHolds DEF Sound
  <2>2. \A k \in Links \ {l} : Same(k)
    BY <1>3, Elsewhere DEF Sound, Types
  <2>3. \A k \in Links : PositionsOf(k)' /\ PhaseOf(k)'
    BY <1>1, <2>1, <2>2 DEF Holds
  <2>4. QED BY <1>0, <2>1, <2>3 DEF Holds, Sound, Types, Positions, Phases
<1>4. CASE UNCHANGED vars
  <2>1. LinkTypes' /\ CountTypes' /\ \A k \in Links : Same(k)
    BY <1>4 DEF Sound, Types, LinkTypes, CountTypes, Same
  <2>2. QED BY <1>0, <1>1, <2>1 DEF Sound, Types, Positions, Phases
<1>5. QED BY <1>2, <1>3, <1>4, Zenon DEF Next, Link

LEMMA SoundIsTypeOK == Sound => TypeOK
<1> SUFFICES ASSUME Sound PROVE TypeOK
  OBVIOUS
<1>1. ASSUME NEW s \in Servers, NEW t \in Tables
      PROVE  contents[s][t] = NoTable \/ contents[s][t] \subseteq 1 .. MaxStmts
  <2>1. contents[s][t] \in Rows
    BY DEF Sound, Types, LogTypes
  <2>2. QED BY <2>1, Zenon DEF Rows
<1>2. ASSUME NEW l \in Links
      PROVE  /\ saved[l] \in 0 .. Len(binlog[Master(l)])
             /\ sent[l] \in 0 .. Len(binlog[Master(l)])
             /\ applied[l] \in 0 .. Len(binlog[Master(l)])
             /\ conn[l] \in {"down", "handshake", "streaming"}
             /\ handler[l] \in {"poll", "empty"}
  <2>1. /\ saved[l] \in Nat /\ sent[l] \in Nat /\ applied[l] \in Nat
        /\ PositionsOf(l) /\ binlog[Master(l)] \in Seq(Bodies)
    BY Facts DEF Sound
  <2>2. QED BY <2>1 DEF Sound, Types, LinkTypes, PositionsOf
<1>3. QED BY <1>1, <1>2 DEF TypeOK

\* A slave never claims more of its master's binlog than the master has
\* written, whatever is lost, cut or asked for again, and through any topology:
\* what save_position stores comes from the stream (_process_line).
THEOREM PositionsWithinLogs == Spec => []TypeOK
<1>1. Init => Sound
  BY InitSound
<1>2. Sound /\ [Next]_vars => Sound'
  BY StepSound
<1>3. Sound => TypeOK
  BY SoundIsTypeOK
<1>4. QED BY <1>1, <1>2, <1>3, PTL DEF Spec

-----------------------------------------------------------------------------
(* The lines on their way to a slave: those it has read and not processed, *)
(* then those of the connection, but for the OK that connect() reads.      *)

InFlight(c, i, w) == i \o (IF c = "handshake" THEN Tail(w) ELSE w)

Coming(l) == InFlight(conn[l], inbox[l], wire[l])

Plain(lines) == \A i \in DOMAIN lines : lines[i].kind \in {"entry", "heartbeat"}

\* The position reached before line i, b being the one before the first.
Before(b, lines, i) == IF i = 1 THEN b ELSE lines[i - 1].pos

\* From b the lines lead up to e, never back.
Ordered(b, lines, e) ==
  /\ \A i \in DOMAIN lines : Before(b, lines, i) <= lines[i].pos
  /\ Before(b, lines, Len(lines) + 1) <= e

\* From b the lines lead to e one entry at a time.
Moves(x) == IF x.kind = "entry" THEN 1 ELSE 0

Exact(b, lines, e) ==
  /\ \A i \in DOMAIN lines : lines[i].pos = Before(b, lines, i) + Moves(lines[i])
  /\ Before(b, lines, Len(lines) + 1) = e

LEMMA NoLines ==
  ASSUME NEW b \in Nat
  PROVE  Plain(<<>>) /\ Ordered(b, <<>>, b) /\ Exact(b, <<>>, b)
<1>1. DOMAIN <<>> = {} /\ Len(<<>>) + 1 = 1
  OBVIOUS
<1>2. QED BY <1>1 DEF Plain, Ordered, Exact, Before

LEMMA PlainPos ==
  ASSUME NEW S \in Seq(Texts), Plain(S), NEW i \in DOMAIN S
  PROVE  S[i] \in Texts /\ S[i].pos \in Nat /\ S[i].kind \in {"entry", "heartbeat"}
<1>1. S[i] \in Texts
  OBVIOUS
<1>2. QED BY <1>1, TextFields DEF Plain

\* One more line, at the end.
LEMMA OneMoreLine ==
  ASSUME NEW S \in Seq(Texts), Plain(S), NEW x \in Texts,
         x.kind \in {"entry", "heartbeat"}, NEW b \in Nat, NEW e \in Nat
  PROVE  /\ Plain(Append(S, x))
         /\ Ordered(b, S, e) /\ e <= x.pos => Ordered(b, Append(S, x), x.pos)
         /\ Exact(b, S, e) /\ x.pos = e + Moves(x) => Exact(b, Append(S, x), x.pos)
<1> DEFINE R == Append(S, x)
<1>1. /\ Len(S) \in Nat /\ Len(R) = Len(S) + 1 /\ R[Len(S) + 1] = x
      /\ \A i \in 1 .. Len(S) : R[i] = S[i]
      /\ DOMAIN R = 1 .. Len(S) + 1 /\ DOMAIN S = 1 .. Len(S)
  OBVIOUS
<1> HIDE DEF R
<1>2. x.pos \in Nat
  BY TextFields
<1>3. Plain(R)
  BY <1>1 DEF Plain
<1>4. \A i \in 1 .. Len(S) + 1 : Before(b, R, i) = Before(b, S, i)
  <2>1. \A i \in 1 .. Len(S) + 1 : i # 1 => i - 1 \in 1 .. Len(S)
    BY <1>1
  <2>2. QED BY <1>1, <2>1 DEF Before
<1>5. Before(b, R, Len(R) + 1) = x.pos
  BY <1>1 DEF Before
<1>6. Ordered(b, S, e) /\ e <= x.pos => Ordered(b, R, x.pos)
  <2> SUFFICES ASSUME Ordered(b, S, e), e <= x.pos PROVE Ordered(b, R, x.pos)
    OBVIOUS
  <2>1. \A i \in 1 .. Len(S) : Before(b, R, i) <= R[i].pos
    BY <1>1, <1>4 DEF Ordered
  <2>2. Before(b, S, Len(S) + 1) \in Nat
    <3>1. Len(S) # 0 => S[Len(S)].pos \in Nat
      BY <1>1, PlainPos
    <3>2. QED BY <1>1, <3>1 DEF Before
  <2>3. Before(b, R, Len(S) + 1) <= R[Len(S) + 1].pos
    BY <1>1, <1>2, <1>4, <2>2 DEF Ordered
  <2>4. \A i \in DOMAIN R : i \in 1 .. Len(S) \/ i = Len(S) + 1
    BY <1>1
  <2>5. QED BY <1>2, <1>5, <2>1, <2>3, <2>4 DEF Ordered
<1>7. Exact(b, S, e) /\ x.pos = e + Moves(x) => Exact(b, R, x.pos)
  <2> SUFFICES ASSUME Exact(b, S, e), x.pos = e + Moves(x) PROVE Exact(b, R, x.pos)
    OBVIOUS
  <2>1. \A i \in 1 .. Len(S) : R[i].pos = Before(b, R, i) + Moves(R[i])
    BY <1>1, <1>4 DEF Exact
  <2>2. R[Len(S) + 1].pos = Before(b, R, Len(S) + 1) + Moves(R[Len(S) + 1])
    BY <1>1, <1>4 DEF Exact
  <2>3. \A i \in DOMAIN R : i \in 1 .. Len(S) \/ i = Len(S) + 1
    BY <1>1
  <2>4. QED BY <1>5, <2>1, <2>2, <2>3 DEF Exact
<1>8. QED BY <1>3, <1>6, <1>7 DEF R

\* One line less, at the start.
LEMMA OneLineLess ==
  ASSUME NEW S \in Seq(Texts), Plain(S), S # <<>>, NEW b \in Nat, NEW e \in Nat
  PROVE  /\ Plain(Tail(S)) /\ Head(S).pos \in Nat
         /\ Head(S).kind \in {"entry", "heartbeat"}
         /\ Ordered(b, S, e) =>
              /\ b <= Head(S).pos
              /\ \A c \in Nat : c <= Head(S).pos => Ordered(c, Tail(S), e)
         /\ Exact(b, S, e) =>
              Head(S).pos = b + Moves(Head(S)) /\ Exact(Head(S).pos, Tail(S), e)
<1> DEFINE T == Tail(S)
           h == Head(S)
<1>1. /\ Len(S) \in Nat /\ Len(S) >= 1 /\ Len(T) = Len(S) - 1 /\ T \in Seq(Texts)
      /\ \A i \in 1 .. Len(T) : T[i] = S[i + 1] /\ i + 1 \in 1 .. Len(S)
      /\ DOMAIN T = 1 .. Len(T) /\ DOMAIN S = 1 .. Len(S) /\ h = S[1]
  OBVIOUS
<1> HIDE DEF T, h
<1>2. h.pos \in Nat /\ h.kind \in {"entry", "heartbeat"}
  BY <1>1, PlainPos
<1>3. Plain(T)
  BY <1>1 DEF Plain
<1>4. ASSUME NEW c, NEW i \in 1 .. Len(T) + 1
      PROVE  Before(c, T, i) = IF i = 1 THEN c ELSE Before(b, S, i + 1)
  <2>1. CASE i = 1
    BY <2>1 DEF Before
  <2>2. CASE i # 1
    <3>1. i - 1 \in 1 .. Len(T) /\ (i - 1) + 1 = i /\ (i + 1) - 1 = i /\ i + 1 # 1
      BY <1>1, <2>2
    <3>2. T[i - 1] = S[i]
      BY <1>1, <3>1
    <3>3. QED BY <2>2, <3>1, <3>2 DEF Before
  <2>3. QED BY <2>1, <2>2
<1>5. Before(b, S, 1) = b /\ Before(b, S, 2) = h.pos
  BY <1>1 DEF Before
<1>6. ASSUME Ordered(b, S, e), NEW c \in Nat, c <= h.pos PROVE Ordered(c, T, e)
  <2>1. ASSUME NEW i \in 1 .. Len(T) PROVE Before(c, T, i) <= T[i].pos
    <3>1. Before(b, S, i + 1) <= S[i + 1].pos /\ S[i + 1] = T[i]
      BY <1>1, <1>6 DEF Ordered
    <3>2. S[i + 1].pos \in Nat
      BY <1>1, PlainPos
    <3>3. i = 1 => Before(b, S, i + 1) = h.pos
      BY <1>5
    <3>4. Before(c, T, i) = IF i = 1 THEN c ELSE Before(b, S, i + 1)
      BY <1>1, <1>4
    <3>5. QED BY <1>2, <1>6, <3>1, <3>2, <3>3, <3>4
  <2>2. Before(c, T, Len(T) + 1) <= e
    <3>1. Before(b, S, Len(S) + 1) <= e /\ Len(T) + 1 \in 1 .. Len(T) + 1
      BY <1>1, <1>6 DEF Ordered
    <3>2. Before(c, T, Len(T) + 1) = IF Len(T) + 1 = 1 THEN c ELSE Before(b, S, (Len(T) + 1) + 1)
      BY <1>4, <3>1
    <3>3. (Len(T) + 1) + 1 = Len(S) + 1 /\ (Len(T) + 1 = 1 => Len(S) + 1 = 2)
      BY <1>1
    <3>4. QED BY <1>2, <1>5, <1>6, <3>1, <3>2, <3>3
  <2>3. QED BY <1>1, <2>1, <2>2 DEF Ordered
<1>7. Ordered(b, S, e) => b <= h.pos
  BY <1>1, <1>5 DEF Ordered
<1>8. ASSUME Exact(b, S, e) PROVE h.pos = b + Moves(h) /\ Exact(h.pos, T, e)
  <2>0. h.pos = b + Moves(h)
    BY <1>1, <1>5, <1>8 DEF Exact
  <2>1. ASSUME NEW i \in 1 .. Len(T) PROVE T[i].pos = Before(h.pos, T, i) + Moves(T[i])
    <3>1. S[i + 1].pos = Before(b, S, i + 1) + Moves(S[i + 1]) /\ S[i + 1] = T[i]
      BY <1>1, <1>8 DEF Exact
    <3>2. i = 1 => Before(b, S, i + 1) = h.pos
      BY <1>5
    <3>3. Before(h.pos, T, i) = IF i = 1 THEN h.pos ELSE Before(b, S, i + 1)
      BY <1>1, <1>4
    <3>4. QED BY <3>1, <3>2, <3>3
  <2>2. Before(h.pos, T, Len(T) + 1) = e
    <3>1. Before(b, S, Len(S) + 1) = e /\ Len(T) + 1 \in 1 .. Len(T) + 1
      BY <1>1, <1>8 DEF Exact
    <3>2. Before(h.pos, T, Len(T) + 1) = IF Len(T) + 1 = 1 THEN h.pos ELSE Before(b, S, (Len(T) + 1) + 1)
      BY <1>4, <3>1
    <3>3. (Len(T) + 1) + 1 = Len(S) + 1 /\ (Len(T) + 1 = 1 => Len(S) + 1 = 2)
      BY <1>1
    <3>4. QED BY <1>5, <3>1, <3>2, <3>3
  <2>3. QED BY <1>1, <2>0, <2>1, <2>2 DEF Exact
<1>9. QED BY <1>2, <1>3, <1>6, <1>7, <1>8 DEF T, h

-----------------------------------------------------------------------------
(* What a step of a link does to the lines on their way, no read ending    *)
(* inside one.                                                              *)

Breaks(l) ==
  /\ conn'[l] = "down" /\ applied'[l] = 0 /\ saved'[l] = saved[l]
  /\ \/ drops' # 0
     \/ /\ conn[l] # "down" /\ Coming(l) # <<>> /\ Head(Coming(l)).kind = "raise"

Opens(l) ==
  /\ Coming(l)' = <<>> /\ sent'[l] = saved[l] /\ applied[l] = 0
  /\ saved'[l] = saved[l] /\ applied'[l] = applied[l]

Keeps(l) ==
  /\ conn[l] # "down" <=> conn'[l] # "down"
  /\ Coming(l)' = Coming(l) /\ sent'[l] = sent[l]

Sends(l) ==
  /\ conn[l] # "down"
  /\ saved'[l] = saved[l] /\ applied'[l] = applied[l]
  /\ \E x \in Texts :
       /\ x.kind \in {"entry", "heartbeat"} /\ x.pos = sent[l] + Moves(x)
       /\ sent'[l] = x.pos /\ Coming(l)' = Append(Coming(l), x)

\* What becomes of the first line.
Done(l, x) ==
  \/ x.kind = "entry" /\ saved'[l] = saved[l] /\ applied'[l] = x.pos /\ Apply(l)
  \/ x.kind = "heartbeat" /\ saved'[l] = x.pos /\ applied'[l] = 0
  \/ /\ saved'[l] = saved[l] /\ applied'[l] = 0
     /\ \/ x.kind \in {"tail", "skip"} \/ fails' # 0
        \/ x.kind = "entry" /\ x.body.origin = Slave(l)
  \/ x.kind = "bare" /\ saved'[l] = saved[l]

Processes(l) ==
  /\ conn[l] = "streaming" /\ applied[l] = 0 /\ Coming(l) # <<>>
  /\ inbox[l] # <<>> /\ Head(Coming(l)) = Head(inbox[l])
  /\ sent'[l] = sent[l] /\ Coming(l)' = Tail(Coming(l)) /\ Done(l, Head(Coming(l)))

Effect(l) ==
  \/ Breaks(l)
  \/ Opens(l)
  \/ Keeps(l) /\ saved'[l] = saved[l] /\ applied'[l] = applied[l]
  \/ Keeps(l) /\ applied[l] # 0 /\ saved'[l] = applied[l] /\ applied'[l] = 0
  \/ Sends(l)
  \/ Processes(l)

LEMMA ComingType ==
  ASSUME Sound, NEW l \in Links
  PROVE  Coming(l) \in Seq(Texts)
<1>1. inbox[l] \in Seq(Texts) /\ wire[l] \in Seq(Texts) /\ PhaseOf(l)
  BY Facts DEF Sound
<1>2. conn[l] = "handshake" => Tail(wire[l]) \in Seq(Texts)
  BY <1>1 DEF PhaseOf
<1>3. QED BY <1>1, <1>2 DEF Coming, InFlight

LEMMA OpensEffect == ASSUME Sound, NEW l \in Links, Connect(l) PROVE Effect(l)
<1>1. /\ inbox[l] = <<>> /\ applied[l] = 0
  BY Facts DEF Sound, PhaseOf, Connect
<1>2. /\ conn'[l] = "handshake" /\ sent'[l] = saved[l] /\ wire'[l] = <<Ok>>
      /\ inbox' = inbox /\ saved' = saved /\ applied' = applied
  BY DEF Sound, Types, LinkTypes, Connect, StreamFrom
<1>3. Tail(<<Ok>>) = <<>> /\ <<>> \o <<>> = <<>>
  OBVIOUS
<1>4. Coming(l)' = <<>>
  BY <1>1, <1>2, <1>3 DEF Coming, InFlight
<1>5. QED BY <1>1, <1>2, <1>4 DEF Effect, Opens

LEMMA HandshakeEffect ==
  ASSUME Sound, NEW l \in Links, Handshake(l), cuts' = 0
  PROVE  Effect(l) /\ cuts = 0
<1>1. PICK n \in 1 .. Len(wire[l]) :
        /\ cuts' = cuts + IF n > 1 THEN 1 ELSE 0
        /\ wire' = [wire EXCEPT ![l] = SubSeq(@, n + 1, Len(@))]
  BY DEF Handshake
<1>2. wire[l] \in Seq(Texts) /\ wire[l] # <<>> /\ cuts \in Nat /\ inbox[l] = <<>>
  BY Facts DEF Sound, PhaseOf, Types, CountTypes, Handshake
<1>3. n = 1 /\ cuts = 0
  BY <1>1, <1>2
<1>4. SubSeq(wire[l], 2, Len(wire[l])) = Tail(wire[l])
  BY <1>2, TailIsSubSeq
<1>5. /\ wire'[l] = Tail(wire[l]) /\ conn[l] = "handshake" /\ conn'[l] = "streaming"
      /\ UNCHANGED <<inbox, saved, sent, applied>>
  BY <1>1, <1>3, <1>4 DEF Sound, Types, LinkTypes, Handshake
<1>6. Coming(l)' = Coming(l)
  BY <1>5 DEF Coming, InFlight
<1>7. QED BY <1>3, <1>5, <1>6 DEF Effect, Keeps

LEMMA ReceiveEffect ==
  ASSUME Sound, NEW l \in Links, Receive(l), cuts' = 0
  PROVE  Effect(l) /\ cuts = 0
<1>1. wire[l] \in Seq(Texts) /\ cuts \in Nat
  BY Facts DEF Sound, Types, CountTypes
<1>2. PICK n \in 1 .. Len(wire[l]) :
        /\ inbox' = [inbox EXCEPT ![l] = SubSeq(wire[l], 1, n)]
        /\ wire' = [wire EXCEPT ![l] = SubSeq(@, n + 1, Len(@))]
        /\ UNCHANGED cuts
  BY <1>1 DEF Receive
<1>3. /\ inbox'[l] = SubSeq(wire[l], 1, n) /\ wire'[l] = SubSeq(wire[l], n + 1, Len(wire[l]))
      /\ inbox[l] = <<>> /\ conn[l] = "streaming"
      /\ UNCHANGED <<conn, saved, sent, applied>>
  BY <1>2 DEF Sound, Types, LinkTypes, Receive
<1>4. inbox'[l] \o wire'[l] = wire[l] /\ <<>> \o wire[l] = wire[l]
  BY <1>1, <1>3, Parts, ConcatEmptySeq
<1>5. Coming(l)' = Coming(l)
  BY <1>3, <1>4 DEF Coming, InFlight
<1>6. QED BY <1>2, <1>3, <1>5 DEF Effect, Keeps

\* A line is added to those on their way.
LEMMA AddedLine ==
  ASSUME Sound, NEW l \in Links, NEW x \in Texts, conn[l] # "down",
         wire' = [wire EXCEPT ![l] = Append(@, x)], UNCHANGED <<conn, inbox>>
  PROVE  Coming(l)' = Append(Coming(l), x)
<1>1. inbox[l] \in Seq(Texts) /\ wire[l] \in Seq(Texts) /\ PhaseOf(l)
  BY Facts DEF Sound
<1>2. wire'[l] = Append(wire[l], x)
  BY DEF Sound, Types, LinkTypes
<1>3. ASSUME NEW w \in Seq(Texts) PROVE inbox[l] \o Append(w, x) = Append(inbox[l] \o w, x)
  <2>1. ASSUME NEW i \in Seq(Texts) PROVE i \o Append(w, x) = Append(i \o w, x)
    BY ConcatAppend
  <2>2. QED BY <1>1, <2>1
<1>4. CASE conn[l] = "handshake"
  <2>1. wire[l] # <<>> /\ Tail(wire[l]) \in Seq(Texts)
    BY <1>1, <1>4 DEF PhaseOf
  <2>2. Tail(Append(wire[l], x)) = Append(Tail(wire[l]), x)
    BY <1>1, <2>1, HeadTailAppend
  <2>3. QED BY <1>2, <1>3, <1>4, <2>1, <2>2 DEF Coming, InFlight
<1>5. CASE conn[l] # "handshake"
  BY <1>1, <1>2, <1>3, <1>5 DEF Coming, InFlight
<1>6. QED BY <1>4, <1>5

LEMMA SendEntryEffect == ASSUME Sound, NEW l \in Links, SendEntry(l) PROVE Effect(l)
<1> DEFINE x == Entry(Master(l), sent[l] + 1)
<1>1. /\ binlog[Master(l)] \in Seq(Bodies) /\ sent[l] \in Nat /\ PositionsOf(l)
  BY Facts DEF Sound
<1>2. sent[l] + 1 \in 1 .. Len(binlog[Master(l)])
  BY <1>1 DEF SendEntry, More
<1>3. x \in Texts /\ x.kind = "entry" /\ x.pos = sent[l] + 1
  BY <1>1, <1>2, TextsHold DEF Entry
<1>4. /\ wire' = [wire EXCEPT ![l] = Append(@, x)] /\ conn[l] # "down"
      /\ UNCHANGED <<conn, inbox, saved, applied>> /\ sent'[l] = sent[l] + 1
  BY DEF Sound, Types, LinkTypes, SendEntry
<1> HIDE DEF x
<1>5. Coming(l)' = Append(Coming(l), x)
  BY <1>3, <1>4, AddedLine
<1>6. Sends(l)
  BY <1>3, <1>4, <1>5 DEF Sends, Moves
<1>7. QED BY <1>6 DEF Effect

\* A heartbeat names the position up to which everything was sent.
LEMMA SendHeartbeatEffect == ASSUME Sound, NEW l \in Links, SendHeartbeat(l) PROVE Effect(l)
<1> DEFINE x == Heartbeat(Len(binlog[Master(l)]))
<1>1. /\ binlog[Master(l)] \in Seq(Bodies) /\ sent[l] \in Nat /\ PositionsOf(l)
  BY Facts DEF Sound
<1>2. x \in Texts /\ x.kind = "heartbeat" /\ x.pos = Len(binlog[Master(l)])
  BY <1>1, TextsHold DEF Heartbeat
<1>3. /\ conn[l] # "down" /\ UNCHANGED <<conn, inbox, saved, applied, sent>>
      /\ \/ wire' = wire
         \/ Latest(l) /\ wire' = [wire EXCEPT ![l] = Append(@, x)]
  BY DEF SendHeartbeat
<1> HIDE DEF x
<1>4. CASE wire' = wire
  <2>1. Coming(l)' = Coming(l)
    BY <1>3, <1>4 DEF Coming
  <2>2. QED BY <1>3, <2>1 DEF Effect, Keeps
<1>5. CASE Latest(l) /\ wire' = [wire EXCEPT ![l] = Append(@, x)]
  <2>1. x.pos = sent[l]
    BY <1>1, <1>2, <1>5 DEF Latest, PositionsOf
  <2>2. Coming(l)' = Append(Coming(l), x)
    BY <1>2, <1>3, <1>5, AddedLine
  <2>3. Sends(l)
    BY <1>1, <1>2, <1>3, <2>1, <2>2 DEF Sends, Moves
  <2>4. QED BY <2>3 DEF Effect
<1>6. QED BY <1>3, <1>4, <1>5

LEMMA TakenLine ==
  ASSUME Sound, NEW l \in Links, conn[l] = "streaming", inbox[l] # <<>>,
         inbox' = [inbox EXCEPT ![l] = Tail(@)], UNCHANGED <<conn, wire>>
  PROVE  /\ Coming(l) # <<>> /\ Coming(l)' = Tail(Coming(l))
         /\ Head(Coming(l)) = Head(inbox[l])
<1>1. inbox[l] \in Seq(Texts) /\ wire[l] \in Seq(Texts)
  BY Facts DEF Sound
<1>2. inbox'[l] = Tail(inbox[l])
  BY DEF Sound, Types, LinkTypes
<1>3. /\ inbox[l] \o wire[l] # <<>> /\ Head(inbox[l] \o wire[l]) = Head(inbox[l])
      /\ Tail(inbox[l] \o wire[l]) = Tail(inbox[l]) \o wire[l]
  BY <1>1, ConcatTail
<1>4. QED BY <1>2, <1>3 DEF Coming, InFlight

LEMMA ProcessEffect ==
  ASSUME Sound, NEW l \in Links,
         Apply(l) \/ ApplyBare(l) \/ ApplyFails(l) \/ ReadHeartbeat(l) \/ Ignore(l)
  PROVE  Processes(l) /\ Effect(l)
<1>1. /\ conn[l] = "streaming" /\ inbox[l] # <<>> /\ applied[l] = 0
      /\ UNCHANGED <<conn, wire, sent>> /\ inbox' = [inbox EXCEPT ![l] = Tail(@)]
  BY DEF Apply, ApplyBare, ApplyFails, ReadHeartbeat, Ignore, Take
<1>2. /\ Coming(l) # <<>> /\ Coming(l)' = Tail(Coming(l))
      /\ Head(Coming(l)) = Head(inbox[l])
  BY <1>1, TakenLine
<1>3. CASE Apply(l)
  <2>1. /\ Head(inbox[l]).kind = "entry" /\ saved' = saved
        /\ \/ Head(inbox[l]).body.origin = Slave(l) /\ applied' = applied
           \/ applied' = [applied EXCEPT ![l] = Head(inbox[l]).pos]
    BY <1>3 DEF Apply
  <2>2. Done(l, Head(inbox[l]))
    BY <1>1, <1>3, <2>1 DEF Done, Sound, Types, LinkTypes
  <2>3. QED BY <1>1, <1>2, <2>2 DEF Effect, Processes
<1>4. CASE ApplyFails(l)
  <2>1. fails' # 0 /\ UNCHANGED <<saved, applied>>
    BY <1>4 DEF ApplyFails, Sound, Types, CountTypes
  <2>2. QED BY <1>1, <1>2, <2>1 DEF Effect, Processes, Done
<1>5. CASE ReadHeartbeat(l)
  <2>1. /\ Head(inbox[l]).kind = "heartbeat" /\ saved'[l] = Head(inbox[l]).pos
        /\ applied' = applied
    BY <1>5 DEF ReadHeartbeat, SavePosition, Sound, Types, LinkTypes
  <2>2. QED BY <1>1, <1>2, <2>1 DEF Effect, Processes, Done
<1>6. CASE Ignore(l)
  <2>1. Head(inbox[l]).kind \in {"tail", "skip"} /\ UNCHANGED <<saved, applied>>
    BY <1>6 DEF Ignore
  <2>2. QED BY <1>1, <1>2, <2>1 DEF Effect, Processes, Done
<1>7. CASE ApplyBare(l)
  <2>1. Head(inbox[l]).kind = "bare" /\ saved' = saved
    BY <1>7 DEF ApplyBare
  <2>2. QED BY <1>1, <1>2, <2>1 DEF Effect, Processes, Done
<1>8. QED BY <1>3, <1>4, <1>5, <1>6, <1>7

LEMMA LinkEffect ==
  ASSUME Sound, NEW l \in Links, Link(l), cuts' = 0, resets' = 0
  PROVE  Effect(l) /\ cuts = 0 /\ resets = 0
<1>0. resets \in Nat /\ cuts \in Nat
  BY DEF Sound, Types, CountTypes
<1>1. resets = 0 /\ ~ResetSlave(l)
  BY <1>0 DEF Link, Client, Handler, Connect, Handshake, Receive, Apply, SaveApplied,
     ReadHeartbeat, Ignore, ParseFails, SendEntry, NoEntries, SendHeartbeat, Drop,
     ApplyBare, ApplyFails, ResetSlave
<1>2. Handshake(l) \/ Receive(l) \/ cuts = 0
  BY DEF Link, Client, Handler, Connect, Apply, SaveApplied,
     ReadHeartbeat, Ignore, ParseFails, SendEntry, NoEntries, SendHeartbeat, Drop,
     ApplyBare, ApplyFails, ResetSlave
<1>3. cuts = 0
  BY <1>2, HandshakeEffect, ReceiveEffect
<1>4. CASE SaveApplied(l)
  <2>1. /\ applied[l] # 0 /\ saved'[l] = applied[l] /\ applied'[l] = 0
        /\ UNCHANGED <<conn, wire, inbox, sent>>
    BY <1>4 DEF SaveApplied, SavePosition, Sound, Types, LinkTypes
  <2>2. QED BY <1>1, <1>3, <2>1 DEF Effect, Keeps, Coming
<1>5. CASE NoEntries(l)
  <2>1. UNCHANGED <<conn, wire, inbox, sent, saved, applied>>
    BY <1>5 DEF NoEntries
  <2>2. QED BY <1>1, <1>3, <2>1 DEF Effect, Keeps, Coming
<1>6. CASE Drop(l) \/ ParseFails(l)
  <2>1. conn'[l] = "down" /\ applied'[l] = 0 /\ saved' = saved
    BY <1>6 DEF Drop, ParseFails, Broken, Sound, Types, LinkTypes
  <2>2. CASE Drop(l)
    <3>1. drops' # 0
      BY <2>2 DEF Drop, Sound, Types, CountTypes
    <3>2. QED BY <1>1, <1>3, <2>1, <3>1 DEF Effect, Breaks
  <2>3. CASE ParseFails(l)
    <3>1. /\ conn[l] = "streaming" /\ inbox[l] # <<>> /\ Head(inbox[l]).kind = "raise"
          /\ inbox[l] \in Seq(Texts) /\ wire[l] \in Seq(Texts)
      BY <2>3, Facts DEF ParseFails, Sound
    <3>2. Coming(l) # <<>> /\ Head(Coming(l)) = Head(inbox[l])
      BY <3>1, ConcatTail DEF Coming, InFlight
    <3>3. QED BY <1>1, <1>3, <2>1, <3>1, <3>2 DEF Effect, Breaks
  <2>4. QED BY <1>6, <2>2, <2>3
<1>7. QED
  BY <1>1, <1>3, <1>4, <1>5, <1>6, OpensEffect, HandshakeEffect, ReceiveEffect,
     SendEntryEffect, SendHeartbeatEffect, ProcessEffect DEF Link, Client, Handler

-----------------------------------------------------------------------------
(* The saved position only moves forward. *)

AscendsAt(l) ==
  /\ saved[l] <= Pending(l)
  /\ conn[l] # "down" => Plain(Coming(l)) /\ Ordered(Pending(l), Coming(l), sent[l])

Ascends == cuts = 0 /\ resets = 0 => \A l \in Links : AscendsAt(l)

LEMMA EffectAscends ==
  ASSUME Sound, Sound', NEW l \in Links, AscendsAt(l), Effect(l)
  PROVE  AscendsAt(l)' /\ saved'[l] >= saved[l]
<1>1. /\ saved[l] \in Nat /\ sent[l] \in Nat /\ applied[l] \in Nat
      /\ saved'[l] \in Nat /\ sent'[l] \in Nat /\ applied'[l] \in Nat
      /\ conn[l] # "streaming" => applied[l] = 0
      /\ Coming(l) \in Seq(Texts)
  BY Facts, ComingType DEF Sound, PhaseOf, Types, LinkTypes
<1>2. Pending(l) = (IF applied[l] # 0 THEN applied[l] ELSE saved[l]) /\ Pending(l) \in Nat
  BY <1>1 DEF Pending
<1>3. Pending(l)' = IF applied'[l] # 0 THEN applied'[l] ELSE saved'[l]
  BY DEF Pending
<1>4. CASE Breaks(l)
  BY <1>1, <1>3, <1>4 DEF Breaks, AscendsAt
<1>5. CASE Opens(l)
  <2>1. Pending(l)' = saved[l] /\ saved'[l] = saved[l] /\ sent'[l] = saved[l]
    BY <1>1, <1>3, <1>5 DEF Opens
  <2>2. Plain(Coming(l)') /\ Ordered(saved[l], Coming(l)', saved[l])
    BY <1>1, <1>5, NoLines DEF Opens
  <2>3. QED BY <1>1, <2>1, <2>2 DEF AscendsAt
<1>6. CASE Keeps(l) /\ saved'[l] = saved[l] /\ applied'[l] = applied[l]
  BY <1>1, <1>2, <1>3, <1>6 DEF Keeps, AscendsAt
<1>7. CASE Keeps(l) /\ applied[l] # 0 /\ saved'[l] = applied[l] /\ applied'[l] = 0
  BY <1>1, <1>2, <1>3, <1>7 DEF Keeps, AscendsAt
<1>8. CASE Sends(l)
  <2>1. PICK x \in Texts :
          /\ x.kind \in {"entry", "heartbeat"} /\ x.pos = sent[l] + Moves(x)
          /\ sent'[l] = x.pos /\ Coming(l)' = Append(Coming(l), x)
    BY <1>8 DEF Sends
  <2>2. x.pos >= sent[l] /\ Pending(l)' = Pending(l)
    BY <1>1, <1>2, <1>3, <1>8, <2>1 DEF Moves, Sends
  <2>3. Plain(Coming(l)') /\ Ordered(Pending(l), Coming(l)', sent'[l])
    BY <1>1, <1>2, <1>8, <2>1, <2>2, OneMoreLine DEF AscendsAt, Sends
  <2>4. QED BY <1>1, <1>8, <2>2, <2>3 DEF AscendsAt, Sends
<1>9. CASE Processes(l)
  <2> DEFINE h == Head(Coming(l))
  <2>1. /\ Plain(Coming(l)) /\ Ordered(Pending(l), Coming(l), sent[l])
        /\ Pending(l) = saved[l] /\ Coming(l) # <<>> /\ Coming(l)' = Tail(Coming(l))
        /\ sent'[l] = sent[l] /\ Done(l, h)
    BY <1>2, <1>9 DEF AscendsAt, Processes
  <2>2. /\ Plain(Coming(l)') /\ h.pos \in Nat /\ h.kind \in {"entry", "heartbeat"}
        /\ saved[l] <= h.pos
        /\ \A c \in Nat : c <= h.pos => Ordered(c, Coming(l)', sent'[l])
    BY <1>1, <2>1, OneLineLess
  <2> HIDE DEF h
  <2>3. Pending(l)' \in {saved[l], h.pos} /\ saved'[l] \in {saved[l], h.pos}
        /\ saved'[l] <= Pending(l)'
    BY <1>1, <1>3, <2>1, <2>2 DEF Done
  <2>4. Ordered(Pending(l)', Coming(l)', sent'[l])
    BY <1>1, <2>2, <2>3
  <2>5. QED BY <1>1, <2>2, <2>3, <2>4 DEF AscendsAt
<1>10. QED BY <1>4, <1>5, <1>6, <1>7, <1>8, <1>9 DEF Effect

Advances(l) == cuts' = 0 /\ resets' = 0 => saved'[l] >= saved[l]

\* A link that does not move.
LEMMA SameAscends ==
  ASSUME Sound, NEW l \in Links, Same(l)
  PROVE  Advances(l) /\ (AscendsAt(l) => AscendsAt(l)')
<1>1. saved[l] \in Nat
  BY Facts DEF Sound
<1>2. QED BY <1>1 DEF Same, Advances, AscendsAt, Pending, Coming

LEMMA StepAscends ==
  ASSUME Sound, Sound', Ascends, [Next]_vars
  PROVE  Ascends' /\ \A l \in Links : Advances(l)
<1>1. ASSUME NEW s \in Primaries, NEW op \in Ops, NEW t \in Tables, Execute(s, op, t)
      PROVE  Ascends' /\ \A l \in Links : Advances(l)
  <2>1. UNCHANGED <<link, cuts, resets>>
    BY <1>1 DEF Execute
  <2>2. \A l \in Links : Same(l)
    BY <2>1 DEF Same
  <2>3. QED BY <2>1, <2>2, SameAscends DEF Ascends
<1>2. ASSUME NEW k \in Links, Link(k) PROVE Ascends' /\ \A l \in Links : Advances(l)
  <2>1. ASSUME cuts' = 0, resets' = 0, NEW l \in Links
        PROVE  AscendsAt(l)' /\ Advances(l)
    <3>1. cuts = 0 /\ resets = 0 /\ Effect(k)
      BY <1>2, <2>1, LinkEffect
    <3>2. AscendsAt(l)
      BY <3>1 DEF Ascends
    <3>3. CASE l = k
      BY <3>1, <3>2, <3>3, EffectAscends DEF Advances
    <3>4. CASE l # k
      <4>1. Same(l)
        BY <1>2, <3>4, Elsewhere DEF Sound, Types
      <4>2. QED BY <3>2, <4>1, SameAscends
    <3>5. QED BY <3>3, <3>4
  <2>2. QED BY <2>1 DEF Ascends, Advances
<1>3. CASE UNCHANGED vars
  <2>1. \A l \in Links : Same(l)
    BY <1>3 DEF Same
  <2>2. QED BY <1>3, <2>1, SameAscends DEF Ascends
<1>4. QED BY <1>1, <1>2, <1>3, Zenon DEF Next, Link

LEMMA InitAscends == Init => Ascends
<1> SUFFICES ASSUME Init, NEW l \in Links PROVE AscendsAt(l)
  BY DEF Ascends
<1>1. saved[l] = 0 /\ applied[l] = 0 /\ conn[l] = "down"
  BY DEF Init
<1>2. QED BY <1>1 DEF AscendsAt, Pending

Forward == \A l \in Links : Advances(l)

\* While no read ends inside a line and nobody resets the slave, the position
\* that save_position stores never moves back, although an applied entry is
\* saved later than it is applied, connections break in between, heartbeats
\* name positions too, and servers follow each other in any topology.
THEOREM SavedNeverBack == Spec => PositionAdvances
<1>1. Init => Sound /\ Ascends
  BY InitSound, InitAscends
<1>2. Sound /\ Ascends /\ [Next]_vars => Sound' /\ Ascends' /\ Forward
  BY StepSound, StepAscends DEF Forward
<1>3. Forward => \A l \in Links : cuts' = 0 /\ resets' = 0 => saved'[l] >= saved[l]
  BY DEF Forward, Advances
<1>4. QED BY <1>1, <1>2, <1>3, PTL DEF Spec, PositionAdvances

-----------------------------------------------------------------------------
(* The tables of a slave are those its master had at the slave's position. *)

\* A slave that no client writes to and that follows one other server.
OneMaster ==
  /\ \A l \in Links : Slave(l) \notin Primaries /\ Slave(l) # Master(l)
  /\ \A l, m \in Links : Slave(l) = Slave(m) => l = m

\* The tables there are once entry e has taken effect.
After(there, e) ==
  CASE e.op = "CREATE_TABLE" -> there \cup {e.table}
    [] e.op = "DROP_TABLE"   -> there \ {e.table}
    [] e.op = "INSERT"       -> there

LEMMA AfterAgain ==
  ASSUME NEW e \in Bodies, NEW there
  PROVE  After(After(there, e), e) = After(there, e)
<1>1. e.op \in Statements
  BY DEF Bodies
<1>2. QED BY <1>1 DEF After, Statements

LEMMA ExistingExtends ==
  ASSUME NEW new \in Seq(Bodies), NEW old \in Seq(Bodies), Extends(new, old),
         NEW n \in 0 .. Len(old)
  PROVE  Existing(new, n) = Existing(old, n)
<1>1. \A p \in 1 .. n : new[p] = old[p]
  BY DEF Extends
<1>2. \A p \in 1 .. n : \A q \in p + 1 .. n : new[p] = old[p] /\ new[q] = old[q]
  BY <1>1
<1>3. ASSUME NEW t \in Tables, NEW p \in 1 .. n
      PROVE  (/\ new[p].table = t /\ new[p].op = "CREATE_TABLE"
              /\ \A q \in p + 1 .. n : new[q].table = t => new[q].op # "DROP_TABLE")
             <=> (/\ old[p].table = t /\ old[p].op = "CREATE_TABLE"
                  /\ \A q \in p + 1 .. n : old[q].table = t => old[q].op # "DROP_TABLE")
  <2>1. new[p] = old[p] /\ \A q \in p + 1 .. n : new[q] = old[q]
    BY <1>1, <1>2
  <2>2. (\A q \in p + 1 .. n : new[q].table = t => new[q].op # "DROP_TABLE")
        <=> (\A q \in p + 1 .. n : old[q].table = t => old[q].op # "DROP_TABLE")
    BY <2>1
  <2>3. QED BY <2>1, <2>2
<1>4. \A t \in Tables : t \in Existing(new, n) <=> t \in Existing(old, n)
  BY <1>3 DEF Existing
<1>5. Existing(new, n) \subseteq Tables /\ Existing(old, n) \subseteq Tables
  BY DEF Existing
<1>6. QED BY <1>4, <1>5

LEMMA ExistingNext ==
  ASSUME NEW g \in Seq(Bodies), NEW n \in Nat, n + 1 <= Len(g)
  PROVE  Existing(g, n + 1) = After(Existing(g, n), g[n + 1])
<1> DEFINE e == g[n + 1]
           Made(t, p, m) == /\ g[p].table = t /\ g[p].op = "CREATE_TABLE"
                            /\ \A q \in p + 1 .. m : g[q].table = t => g[q].op # "DROP_TABLE"
<1>1. e \in Bodies /\ e.op \in Statements /\ e.table \in Tables
  <2>1. n + 1 \in 1 .. Len(g)
    OBVIOUS
  <2>2. e \in Bodies
    BY <2>1
  <2>3. QED BY <2>2 DEF Bodies
<1>2. \A m : Existing(g, m) = {t \in Tables : \E p \in 1 .. m : Made(t, p, m)}
  BY DEF Existing
<1>3. ASSUME NEW t \in Tables, NEW p \in 1 .. n
      PROVE  Made(t, p, n + 1) <=> Made(t, p, n) /\ ~(e.table = t /\ e.op = "DROP_TABLE")
  <2>1. \A q : q \in p + 1 .. n + 1 <=> q \in p + 1 .. n \/ q = n + 1
    OBVIOUS
  <2>2. QED BY <2>1
<1>4. ASSUME NEW t \in Tables
      PROVE  Made(t, n + 1, n + 1) <=> e.table = t /\ e.op = "CREATE_TABLE"
  <2>1. \A q \in (n + 1) + 1 .. n + 1 : FALSE
    OBVIOUS
  <2>2. QED BY <2>1
<1>5. \A p : p \in 1 .. n + 1 <=> p \in 1 .. n \/ p = n + 1
  OBVIOUS
<1> HIDE DEF e, Made
<1>6. \A t \in Tables :
        t \in Existing(g, n + 1) <=>
          \/ e.table = t /\ e.op = "CREATE_TABLE"
          \/ t \in Existing(g, n) /\ ~(e.table = t /\ e.op = "DROP_TABLE")
  BY <1>2, <1>3, <1>4, <1>5
<1>7. Existing(g, n + 1) \subseteq Tables /\ Existing(g, n) \subseteq Tables
  BY <1>2
<1>8. QED BY <1>1, <1>6, <1>7 DEF e, After, Statements

LEMMA EmptyIsNotNoTable == {} # NoTable
BY ReplicationAssumption DEF ReplicationAssumption

LEMMA PresentIsTables == \A s : Present(s) \subseteq Tables
BY DEF Present

LEMMA PerformPresent ==
  ASSUME LogTypes, NEW s \in Servers, NEW e \in Bodies, e.op # "INSERT",
         Perform(s, e.op, e.table, e.row)
  PROVE  Present(s)' = After(Present(s), e)
<1>1. e.op \in {"CREATE_TABLE", "DROP_TABLE"} /\ e.table \in Tables
  BY DEF Bodies, Statements
<1>2. contents' = [contents EXCEPT ![s][e.table] = Outcome(@, e.op, e.row)]
  BY DEF Perform
<1>3. /\ contents'[s][e.table] = Outcome(contents[s][e.table], e.op, e.row)
      /\ \A t \in Tables \ {e.table} : contents'[s][t] = contents[s][t]
  BY <1>1, <1>2 DEF LogTypes
<1>4. contents'[s][e.table] # NoTable <=> e.op = "CREATE_TABLE"
  BY <1>1, <1>3, EmptyIsNotNoTable DEF Outcome
<1>5. \A t \in Tables : t \in Present(s)' <=>
        (IF t = e.table THEN e.op = "CREATE_TABLE" ELSE t \in Present(s))
  BY <1>3, <1>4 DEF Present
<1>6. Present(s)' \subseteq Tables /\ Present(s) \subseteq Tables
  BY DEF Present
<1>7. QED BY <1>1, <1>5, <1>6 DEF After

\* An entry applied to a slave does to its tables what it did to its master's.
LEMMA ApplyPresent ==
  ASSUME Sound, NEW l \in Links, Apply(l), Slave(l) # Master(l)
  PROVE  /\ Present(Slave(l))' = After(Present(Slave(l)), Head(inbox[l]).body)
         /\ applied'[l] = Head(inbox[l]).pos
<1> DEFINE e == Head(inbox[l]).body
           s == Slave(l)
<1>1. /\ s \in Servers /\ Master(l) \in Servers /\ e \in Bodies
      /\ Head(inbox[l]).pos \in 1 .. Len(binlog[Master(l)])
      /\ e = binlog[Master(l)][Head(inbox[l]).pos] /\ binlog[Master(l)] \in Seq(Bodies)
  BY NextEntry, Facts DEF Sound, Apply
<1>2. e.origin = Master(l)
  BY <1>1 DEF Sound, Origins
<1>3. /\ applied' = [applied EXCEPT ![l] = Head(inbox[l]).pos]
      /\ \/ e.op # "INSERT" /\ Effective(s, e.op, e.table) /\ Perform(s, e.op, e.table, e.row)
         \/ ~(e.op # "INSERT" /\ Effective(s, e.op, e.table)) /\ contents' = contents
  BY <1>2 DEF Apply
<1>4. applied'[l] = Head(inbox[l]).pos
  BY <1>3 DEF Sound, Types, LinkTypes
<1>5. e.op \in Statements /\ e.table \in Tables
  BY <1>1 DEF Bodies
<1> HIDE DEF e, s
<1>6. CASE e.op # "INSERT" /\ Effective(s, e.op, e.table) /\ Perform(s, e.op, e.table, e.row)
  <2>1. Present(s)' = After(Present(s), e)
    BY <1>1, <1>6, PerformPresent DEF Sound, Types
  <2>2. QED BY <1>4, <2>1 DEF e, s
<1>7. CASE ~(e.op # "INSERT" /\ Effective(s, e.op, e.table)) /\ contents' = contents
  <2>1. Present(s)' = Present(s)
    BY <1>7 DEF Present, s
  <2>2. /\ e.op = "CREATE_TABLE" => e.table \in Present(s)
        /\ e.op = "DROP_TABLE" => e.table \notin Present(s)
    BY <1>5, <1>7 DEF Effective, Present
  <2>3. After(Present(s), e) = Present(s)
    BY <1>5, <2>2 DEF After, Statements
  <2>4. QED BY <1>4, <2>1, <2>3 DEF e, s
<1>8. QED BY <1>3, <1>6, <1>7

\* Where the tables of a slave stand: at its position, or one entry beyond if
\* it lost its connection between applying an entry and saving its position.
FollowsAt(l) ==
  /\ conn[l] # "down" => Exact(Pending(l), Coming(l), sent[l])
  /\ applied[l] # 0 => applied[l] = saved[l] + 1
  /\ \E n \in {Pending(l), Pending(l) + 1} :
       /\ n <= Len(binlog[Master(l)])
       /\ n = Pending(l) + 1 => applied[l] = 0 /\ drops > 0
       /\ Present(Slave(l)) = Existing(binlog[Master(l)], n)

Follows == Undisturbed => \A l \in Links : FollowsAt(l)

\* The tables of a slave that does not move stand where they did.
Stands(l, n) ==
  /\ n <= Len(binlog[Master(l)])
  /\ Present(Slave(l)) = Existing(binlog[Master(l)], n)

LEMMA StandsStill ==
  ASSUME Sound, Sound', [Next]_vars, NEW l \in Links, NEW n \in Nat, Stands(l, n),
         contents'[Slave(l)] = contents[Slave(l)]
  PROVE  Stands(l, n)'
<1>1. /\ Master(l) \in Servers /\ binlog[Master(l)] \in Seq(Bodies)
      /\ binlog'[Master(l)] \in Seq(Bodies)
  BY Facts DEF Sound, Types, LogTypes
<1>2. Extends(binlog'[Master(l)], binlog[Master(l)])
  BY <1>1, StepLogs
<1>3. n \in 0 .. Len(binlog[Master(l)]) /\ n <= Len(binlog'[Master(l)])
  BY <1>1, <1>2 DEF Extends, Stands
<1>4. Existing(binlog'[Master(l)], n) = Existing(binlog[Master(l)], n)
  BY <1>1, <1>2, <1>3, ExistingExtends
<1>5. Present(Slave(l))' = Present(Slave(l))
  BY DEF Present
<1>6. QED BY <1>3, <1>4, <1>5 DEF Stands

LEMMA SameFollows ==
  ASSUME Sound, Sound', [Next]_vars, NEW l \in Links, Same(l), FollowsAt(l),
         contents'[Slave(l)] = contents[Slave(l)], drops' >= drops
  PROVE  FollowsAt(l)'
<1>1. saved[l] \in Nat /\ applied[l] \in Nat /\ drops \in Nat /\ drops' \in Nat
  BY Facts DEF Sound, Types, CountTypes
<1>2. Pending(l)' = Pending(l) /\ Pending(l) \in Nat
  BY <1>1 DEF Pending, Same
<1>3. PICK n \in {Pending(l), Pending(l) + 1} :
        Stands(l, n) /\ (n = Pending(l) + 1 => applied[l] = 0 /\ drops > 0)
  BY DEF FollowsAt, Stands
<1>4. n \in Nat
  BY <1>2
<1>5. Stands(l, n)'
  BY <1>3, <1>4, StandsStill
<1>6. n = Pending(l)' + 1 => applied'[l] = 0 /\ drops' > 0
  BY <1>1, <1>2, <1>3 DEF Same
<1>7. \E m \in {Pending(l)', Pending(l)' + 1} :
         /\ m <= Len(binlog'[Master(l)])
         /\ m = Pending(l)' + 1 => applied'[l] = 0 /\ drops' > 0
         /\ Present(Slave(l))' = Existing(binlog'[Master(l)], m)
  BY <1>2, <1>3, <1>5, <1>6 DEF Stands
<1>8. QED BY <1>2, <1>7 DEF FollowsAt, Same, Coming

\* The slave applies the entry behind its position, perhaps once more.
LEMMA ApplyFollows ==
  ASSUME Sound, Sound', OneMaster, NEW l \in Links, AscendsAt(l), FollowsAt(l), Apply(l)
  PROVE  FollowsAt(l)'
<1> DEFINE e == Head(inbox[l]).body
           p == Head(inbox[l]).pos
           g == binlog[Master(l)]
<1>1. /\ saved[l] \in Nat /\ applied[l] = 0 /\ sent[l] \in Nat
      /\ Coming(l) \in Seq(Texts) /\ Head(inbox[l]).kind = "entry" /\ saved'[l] = saved[l]
      /\ conn' = conn /\ conn[l] # "down"
  BY Facts, ComingType DEF Sound, Apply
<1>2. /\ Master(l) \in Servers /\ g \in Seq(Bodies) /\ g' \in Seq(Bodies)
      /\ p \in 1 .. Len(g) /\ e = g[p] /\ e \in Bodies
  BY NextEntry, Facts DEF Sound, Types, LogTypes, Apply
<1>3. Extends(g', g)
  BY <1>2, ApplySteps DEF Sound
<1>4. /\ Coming(l) # <<>> /\ Head(Coming(l)) = Head(inbox[l])
      /\ Coming(l)' = Tail(Coming(l)) /\ sent'[l] = sent[l]
  BY ProcessEffect DEF Processes
<1>5. Present(Slave(l))' = After(Present(Slave(l)), e) /\ applied'[l] = p
  BY ApplyPresent DEF OneMaster
<1>6. /\ Pending(l) = saved[l] /\ Exact(saved[l], Coming(l), sent[l])
      /\ Plain(Coming(l))
  BY <1>1 DEF Pending, FollowsAt, AscendsAt
<1>7. p = saved[l] + 1 /\ Exact(p, Coming(l)', sent'[l])
  BY <1>1, <1>4, <1>6, OneLineLess DEF Moves
<1>8. PICK n \in {saved[l], saved[l] + 1} : Present(Slave(l)) = Existing(g, n)
  BY <1>6 DEF FollowsAt
<1> HIDE DEF e, p, g
<1>9. Existing(g, p) = After(Existing(g, saved[l]), e)
  BY <1>1, <1>2, <1>7, ExistingNext
<1>10. Present(Slave(l))' = Existing(g, p)
  <2>1. CASE n = saved[l]
    BY <1>5, <1>8, <1>9, <2>1
  <2>2. CASE n = saved[l] + 1
    BY <1>2, <1>5, <1>7, <1>8, <1>9, <2>2, AfterAgain
  <2>3. QED BY <1>8, <2>1, <2>2
<1>11. Existing(g', p) = Existing(g, p) /\ p <= Len(g')
  <2>1. p \in 0 .. Len(g) /\ p <= Len(g')
    BY <1>2, <1>3 DEF Extends
  <2>2. QED BY <1>2, <1>3, <2>1, ExistingExtends
<1>12. Pending(l)' = p /\ p \in Nat
  BY <1>1, <1>5, <1>7 DEF Pending
<1>13. /\ applied'[l] = saved'[l] + 1
       /\ p <= Len(g') /\ p # p + 1 /\ Present(Slave(l))' = Existing(g', p)
  BY <1>1, <1>5, <1>7, <1>10, <1>11, <1>12
<1>14. \E m \in {Pending(l)', Pending(l)' + 1} :
         /\ m <= Len(binlog'[Master(l)])
         /\ m = Pending(l)' + 1 => applied'[l] = 0 /\ drops' > 0
         /\ Present(Slave(l))' = Existing(binlog'[Master(l)], m)
  BY <1>12, <1>13 DEF g
<1>15. QED BY <1>7, <1>12, <1>13, <1>14 DEF FollowsAt

\* Any other step of the link.
LEMMA EffectFollows ==
  ASSUME Sound, Sound', [Next]_vars, OneMaster, NEW l \in Links, AscendsAt(l),
         FollowsAt(l), Effect(l), ~Apply(l), contents'[Slave(l)] = contents[Slave(l)],
         drops' >= drops, fails' = 0
  PROVE  FollowsAt(l)'
<1>1. /\ saved[l] \in Nat /\ sent[l] \in Nat /\ applied[l] \in Nat
      /\ saved'[l] \in Nat /\ sent'[l] \in Nat /\ applied'[l] \in Nat
      /\ conn[l] # "streaming" => applied[l] = 0
      /\ Coming(l) \in Seq(Texts) /\ drops \in Nat /\ drops' \in Nat
  BY Facts, ComingType DEF Sound, PhaseOf, Types, LinkTypes, CountTypes
<1>2. Pending(l) = (IF applied[l] # 0 THEN applied[l] ELSE saved[l]) /\ Pending(l) \in Nat
  BY <1>1 DEF Pending
<1>3. Pending(l)' = IF applied'[l] # 0 THEN applied'[l] ELSE saved'[l]
  BY DEF Pending
<1>4. PICK n \in {Pending(l), Pending(l) + 1} :
        Stands(l, n) /\ (n = Pending(l) + 1 => applied[l] = 0 /\ drops > 0)
  BY DEF FollowsAt, Stands
<1>5. n \in Nat /\ Stands(l, n)'
  BY <1>2, <1>4, StandsStill
<1>6. SUFFICES /\ conn'[l] # "down" => Exact(Pending(l)', Coming(l)', sent'[l])
               /\ applied'[l] # 0 => applied'[l] = saved'[l] + 1
               /\ n \in {Pending(l)', Pending(l)' + 1}
               /\ n = Pending(l)' + 1 => applied'[l] = 0 /\ drops' > 0
  BY <1>5 DEF FollowsAt, Stands
<1>7. /\ conn[l] # "down" => Exact(Pending(l), Coming(l), sent[l])
      /\ conn[l] # "down" => Plain(Coming(l))
      /\ applied[l] # 0 => applied[l] = saved[l] + 1
  BY DEF FollowsAt, AscendsAt
<1>8. CASE Breaks(l)
  <2>1. drops' > 0
    <3>1. ASSUME conn[l] # "down", Coming(l) # <<>>, Head(Coming(l)).kind = "raise"
          PROVE  FALSE
      BY <1>1, <1>2, <1>7, <3>1, OneLineLess
    <3>2. QED BY <1>1, <1>8, <3>1 DEF Breaks
  <2>2. conn'[l] = "down" /\ applied'[l] = 0 /\ saved'[l] = saved[l]
    BY <1>8 DEF Breaks
  <2>3. QED BY <1>1, <1>2, <1>3, <1>4, <1>7, <2>1, <2>2
<1>9. CASE Opens(l)
  <2>1. /\ Pending(l)' = saved[l] /\ Pending(l) = saved[l] /\ applied'[l] = 0
        /\ applied[l] = 0 /\ sent'[l] = saved[l] /\ Coming(l)' = <<>>
    BY <1>1, <1>2, <1>3, <1>9 DEF Opens
  <2>2. Exact(saved[l], Coming(l)', saved[l])
    BY <1>1, <2>1, NoLines
  <2>3. QED BY <1>1, <1>4, <2>1, <2>2
<1>10. CASE Keeps(l) /\ saved'[l] = saved[l] /\ applied'[l] = applied[l]
  BY <1>1, <1>2, <1>3, <1>4, <1>7, <1>10 DEF Keeps
<1>11. CASE Keeps(l) /\ applied[l] # 0 /\ saved'[l] = applied[l] /\ applied'[l] = 0
  BY <1>1, <1>2, <1>3, <1>4, <1>7, <1>11 DEF Keeps
<1>12. CASE Sends(l)
  <2>1. PICK x \in Texts :
          /\ x.kind \in {"entry", "heartbeat"} /\ x.pos = sent[l] + Moves(x)
          /\ sent'[l] = x.pos /\ Coming(l)' = Append(Coming(l), x)
    BY <1>12 DEF Sends
  <2>2. /\ conn[l] # "down" /\ saved'[l] = saved[l] /\ applied'[l] = applied[l]
    BY <1>12 DEF Sends
  <2>3. Pending(l)' = Pending(l)
    BY <1>2, <1>3, <2>2
  <2>4. Exact(Pending(l), Coming(l)', sent'[l])
    BY <1>1, <1>2, <1>7, <2>1, <2>2, OneMoreLine
  <2>5. QED BY <1>1, <1>4, <1>7, <2>2, <2>3, <2>4
<1>13. CASE Processes(l)
  <2> DEFINE h == Head(Coming(l))
  <2>1. /\ Plain(Coming(l)) /\ Exact(Pending(l), Coming(l), sent[l])
        /\ Pending(l) = saved[l] /\ Coming(l) # <<>> /\ Coming(l)' = Tail(Coming(l))
        /\ sent'[l] = sent[l] /\ Done(l, h) /\ applied[l] = 0
        /\ inbox[l] # <<>> /\ h = Head(inbox[l])
    BY <1>2, <1>7, <1>13 DEF Processes
  <2>2. /\ h.pos \in Nat /\ h.kind \in {"entry", "heartbeat"}
        /\ h.pos = saved[l] + Moves(h) /\ Exact(h.pos, Coming(l)', sent'[l])
    BY <1>1, <2>1, OneLineLess
  <2>3. h.kind = "entry" => h.body.origin # Slave(l)
    <3>1. h.kind = "entry" =>
            /\ Master(l) \in Servers /\ h.pos \in 1 .. Len(binlog[Master(l)])
            /\ h.body = binlog[Master(l)][h.pos] /\ binlog[Master(l)] \in Seq(Bodies)
      BY <2>1, NextEntry, Facts DEF Sound
    <3>2. QED BY <3>1 DEF Sound, Origins, OneMaster
  <2> HIDE DEF h
  <2>4. h.kind = "heartbeat" /\ saved'[l] = h.pos /\ applied'[l] = 0
    BY <2>1, <2>2, <2>3 DEF Done
  <2>5. h.pos = saved[l] /\ Pending(l)' = saved[l]
    BY <1>1, <1>3, <2>2, <2>4 DEF Moves
  <2>6. Pending(l) = saved[l] /\ applied[l] = 0
    BY <2>1
  <2>7. QED BY <1>1, <1>4, <2>2, <2>4, <2>5, <2>6
<1>14. QED BY <1>8, <1>9, <1>10, <1>11, <1>12, <1>13 DEF Effect

LEMMA StepCounts ==
  ASSUME Sound, [Next]_vars
  PROVE  drops' >= drops /\ fails' >= fails /\ cuts' >= cuts /\ resets' >= resets
<1>0. drops \in Nat /\ fails \in Nat /\ cuts \in Nat /\ resets \in Nat
  BY DEF Sound, Types, CountTypes
<1>1. ASSUME NEW s \in Primaries, NEW op \in Ops, NEW t \in Tables, Execute(s, op, t)
      PROVE  drops' >= drops /\ fails' >= fails /\ cuts' >= cuts /\ resets' >= resets
  BY <1>0, <1>1 DEF Execute
<1>2. ASSUME NEW l \in Links, Link(l)
      PROVE  drops' >= drops /\ fails' >= fails /\ cuts' >= cuts /\ resets' >= resets
  <2>1. CASE Handshake(l) \/ Receive(l)
    BY <1>0, <2>1 DEF Handshake, Receive
  <2>2. CASE ~(Handshake(l) \/ Receive(l))
    BY <1>0, <1>2, <2>2 DEF Link, Client, Handler, Connect, Apply, SaveApplied,
       ReadHeartbeat, Ignore, ParseFails, SendEntry, NoEntries, SendHeartbeat, Drop,
       ApplyBare, ApplyFails, ResetSlave
  <2>3. QED BY <2>1, <2>2
<1>3. CASE UNCHANGED vars
  BY <1>0, <1>3
<1>4. QED BY <1>1, <1>2, <1>3, Zenon DEF Next, Link

LEMMA StepFollows ==
  ASSUME Sound, Sound', OneMaster, Ascends, Follows, [Next]_vars
  PROVE  Follows'
<1> SUFFICES ASSUME cuts' = 0, fails' = 0, resets' = 0, NEW l \in Links
             PROVE  FollowsAt(l)'
  BY DEF Follows, Undisturbed
<1>1. /\ drops' >= drops
      /\ cuts = 0 /\ fails = 0 /\ resets = 0
  <2>1. drops' >= drops /\ fails' >= fails /\ cuts' >= cuts /\ resets' >= resets
    BY StepCounts
  <2>2. fails \in Nat /\ cuts \in Nat /\ resets \in Nat
    BY DEF Sound, Types, CountTypes
  <2>3. QED BY <2>1, <2>2
<1>2. AscendsAt(l) /\ FollowsAt(l) /\ Slave(l) \in Servers
  BY <1>1, Facts DEF Ascends, Follows, Undisturbed, Sound
<1>3. ASSUME NEW s \in Primaries, NEW op \in Ops, NEW t \in Tables, Execute(s, op, t)
      PROVE  FollowsAt(l)'
  <2>1. Same(l)
    BY <1>3 DEF Execute, Same
  <2>2. contents'[Slave(l)] = contents[Slave(l)]
    BY <1>2, <1>3, ExecuteSteps DEF Sound, OneMaster
  <2>3. QED BY <1>1, <1>2, <2>1, <2>2, SameFollows
<1>4. ASSUME NEW k \in Links, Link(k) PROVE FollowsAt(l)'
  <2>1. CASE k # l
    <3>1. Same(l)
      BY <1>4, <2>1, Elsewhere DEF Sound, Types
    <3>2. Slave(l) # Slave(k)
      BY <2>1 DEF OneMaster
    <3>3. contents'[Slave(l)] = contents[Slave(l)]
      BY <1>2, <1>4, <3>2, LinkLogs DEF Sound
    <3>4. QED BY <1>1, <1>2, <3>1, <3>3, SameFollows
  <2>2. CASE k = l /\ Apply(l)
    BY <1>2, <2>2, ApplyFollows
  <2>3. CASE k = l /\ ~Apply(l)
    <3>1. contents'[Slave(l)] = contents[Slave(l)]
      BY <1>4, <2>3, LinkLogs DEF Sound
    <3>2. Effect(l)
      BY <1>4, <2>3, LinkEffect
    <3>3. QED BY <1>1, <1>2, <2>3, <3>1, <3>2, EffectFollows
  <2>4. QED BY <2>1, <2>2, <2>3
<1>5. CASE UNCHANGED vars
  <2>1. Same(l) /\ contents' = contents
    BY <1>5 DEF Same
  <2>2. QED BY <1>1, <1>2, <2>1, SameFollows
<1>6. QED BY <1>3, <1>4, <1>5, Zenon DEF Next, Link

LEMMA InitFollows == Init => Follows
<1> SUFFICES ASSUME Init, NEW l \in Links PROVE FollowsAt(l)
  BY DEF Follows
<1>1. /\ saved[l] = 0 /\ applied[l] = 0 /\ conn[l] = "down" /\ Pending(l) = 0
      /\ Slave(l) \in Servers /\ Master(l) \in Servers /\ binlog[Master(l)] = <<>>
  BY ReplicationAssumption DEF ReplicationAssumption, Init, Pending
<1>2. Len(<<>>) = 0 /\ \A p \in 1 .. 0 : FALSE
  OBVIOUS
<1>3. Present(Slave(l)) = {}
  BY <1>1 DEF Init, Present
<1>4. Existing(<<>>, 0) = {}
  BY <1>2 DEF Existing
<1>5. QED BY <1>1, <1>2, <1>3, <1>4 DEF FollowsAt

LEMMA FollowsIsSchemaFollows == Sound /\ Follows => SchemaFollows
<1> SUFFICES ASSUME Sound, Follows, Undisturbed, NEW l \in Links
             PROVE  \E n \in Pending(l) .. Len(binlog[Master(l)]) :
                      /\ n <= Pending(l) + drops
                      /\ Present(Slave(l)) = Existing(binlog[Master(l)], n)
  BY DEF SchemaFollows
<1>1. /\ saved[l] \in Nat /\ applied[l] \in Nat /\ drops \in Nat
      /\ binlog[Master(l)] \in Seq(Bodies)
  BY Facts DEF Sound, Types, CountTypes
<1>2. PICK n \in {Pending(l), Pending(l) + 1} :
        /\ n <= Len(binlog[Master(l)])
        /\ n = Pending(l) + 1 => applied[l] = 0 /\ drops > 0
        /\ Present(Slave(l)) = Existing(binlog[Master(l)], n)
  BY DEF Follows, FollowsAt
<1>3. Pending(l) \in Nat
  BY <1>1 DEF Pending
<1>4. n \in Pending(l) .. Len(binlog[Master(l)]) /\ n <= Pending(l) + drops
  BY <1>1, <1>2, <1>3
<1>5. QED BY <1>2, <1>4

\* A slave that follows one server and that nobody else writes to has the
\* tables its master had at the slave's position, or one entry later: however
\* long the binlog, however the connections break, also between apply_entry's
\* last change and save_position, and along chains of servers.
THEOREM TablesFollow == ASSUME OneMaster PROVE Spec => []SchemaFollows
<1>1. Init => Sound /\ Ascends /\ Follows
  BY InitSound, InitAscends, InitFollows
<1>2. Sound /\ Ascends /\ Follows /\ [Next]_vars => Sound' /\ Ascends' /\ Follows'
  BY StepSound, StepAscends, StepFollows
<1>3. Sound /\ Follows => SchemaFollows
  BY FollowsIsSchemaFollows
<1>4. QED BY <1>1, <1>2, <1>3, PTL DEF Spec

-----------------------------------------------------------------------------
(* Failover: the inductive invariant of elections.                         *)

FailoverInv == FailoverTypeOK /\ OwnVoteOnly /\ LeadersAlone

-----------------------------------------------------------------------------
(* Types. *)

LEMMA FailoverInitTypeOK == FailoverInit => FailoverTypeOK
<1> SUFFICES ASSUME FailoverInit PROVE FailoverTypeOK
  OBVIOUS
<1>1. <<>> \in Seq(Nat) /\ Len(<<>>) = 0
  OBVIOUS
<1>2. primary \in [Nodes -> BOOLEAN]
  BY Zenon DEF FailoverInit
<1>3. QED BY <1>1, <1>2, FailoverAssumption
     DEF FailoverAssumption, FailoverInit, FailoverTypeOK

LEMMA LastTermType ==
  ASSUME FailoverTypeOK, NEW n \in Nodes
  PROVE  LastTerm(n) \in Nat /\ Len(log[n]) \in Nat
<1>1. log[n] \in Seq(Nat)
  BY DEF FailoverTypeOK
<1>2. CASE log[n] = <<>>
  BY <1>1, <1>2 DEF LastTerm
<1>3. CASE log[n] # <<>>
  <2>1. Len(log[n]) \in 1..Len(log[n])
    BY <1>1, <1>3
  <2>2. QED BY <1>1, <1>3, <2>1 DEF LastTerm
<1>4. QED BY <1>2, <1>3

\* A request is a call on its way.
LEMMA RequestType ==
  ASSUME FailoverTypeOK, NEW n \in Nodes, NEW p \in peers[n]
  PROVE  Request(n, p) \in Calls
<1>1. p \in Nodes /\ term[n] + 1 \in Nat
  BY DEF FailoverTypeOK
<1>2. QED BY <1>1, LastTermType DEF Request, Calls

\* So is its answer.
LEMMA AnswerType ==
  ASSUME NEW r \in Calls, NEW now \in Nat, NEW grant \in BOOLEAN
  PROVE  Answer(r, now, grant) \in Calls
BY DEF Answer, Calls

\* And a request whose sender has given up.
LEMMA GivenUpType == \A r \in Calls : [r EXCEPT !.waiting = FALSE] \in Calls
BY DEF Calls

LEMMA FailoverStepTypeOK == FailoverTypeOK /\ [FailoverNext]_failoverVars => FailoverTypeOK'
<1> SUFFICES ASSUME FailoverTypeOK, [FailoverNext]_failoverVars PROVE FailoverTypeOK'
  OBVIOUS
<1>1. ASSUME NEW n \in Nodes, StartElection(n) PROVE FailoverTypeOK'
  <2>1. {Request(n, p) : p \in peers[n]} \subseteq Calls
    BY RequestType
  <2>2. QED BY <1>1, <2>1 DEF FailoverTypeOK, StartElection
<1>2. ASSUME NEW n \in Nodes, EndElection(n) PROVE FailoverTypeOK'
  <2>1. primary' \in [Nodes -> BOOLEAN]
    BY <1>2, Zenon DEF FailoverTypeOK, EndElection
  <2>2. QED BY <1>2, <2>1 DEF FailoverTypeOK, EndElection
<1>3. ASSUME NEW n \in Nodes, Propose(n) PROVE FailoverTypeOK'
  <2>1. log[n] \in Seq(Nat) /\ term[n] \in Nat
    BY DEF FailoverTypeOK
  <2>2. /\ Append(log[n], term[n]) \in Seq(Nat)
        /\ Len(Append(log[n], term[n])) = Len(log[n]) + 1
    BY <2>1
  <2>3. log' = [log EXCEPT ![n] = Append(log[n], term[n])]
    BY <1>3 DEF Propose
  <2>4. log' \in [Nodes -> Seq(Nat)]
    BY <2>2, <2>3 DEF FailoverTypeOK
  <2>5. /\ commit' = commit \/ commit' = [commit EXCEPT ![n] = Len(log[n]) + 1]
        /\ proposals' \in Nat
        /\ UNCHANGED <<peers, state, term, votedFor, votes, locked, rpcs, lastApplied, primary>>
    BY <1>3 DEF FailoverTypeOK, Propose
  <2>6. Len(log[n]) \in Nat /\ commit[n] \in Nat /\ lastApplied[n] \in Nat
    BY <2>1 DEF FailoverTypeOK
  <2>7. commit' \in [Nodes -> Nat]
    <3>1. commit \in [Nodes -> Nat]
      BY DEF FailoverTypeOK
    <3>2. Len(log[n]) + 1 \in Nat
      BY <2>6
    <3>3. QED BY <2>5, <3>1, <3>2
  <2>8. \A k \in Nodes : lastApplied[k] <= commit'[k] /\ commit'[k] <= Len(log'[k])
    <3>1. ASSUME NEW k \in Nodes PROVE lastApplied[k] <= commit[k] /\ commit[k] <= Len(log[k])
      BY DEF FailoverTypeOK
    <3>2. ASSUME NEW k \in Nodes, k # n
          PROVE  commit'[k] = commit[k] /\ log'[k] = log[k]
      BY <2>3, <2>5, <3>2 DEF FailoverTypeOK
    <3>3. /\ commit'[n] \in {commit[n], Len(log[n]) + 1}
          /\ Len(log'[n]) = Len(log[n]) + 1
      BY <2>2, <2>3, <2>5 DEF FailoverTypeOK
    <3>4. lastApplied[n] <= commit'[n] /\ commit'[n] <= Len(log'[n])
      BY <2>6, <3>1, <3>3
    <3>5. QED BY <3>1, <3>2, <3>4
  <2>9. QED BY <2>4, <2>5, <2>7, <2>8 DEF FailoverTypeOK
<1>4. ASSUME NEW n \in Nodes, ApplyCommitted(n) PROVE FailoverTypeOK'
  BY <1>4 DEF FailoverTypeOK, ApplyCommitted
<1>5. ASSUME NEW r \in rpcs, HandleRequestVote(r) PROVE FailoverTypeOK'
  <2> DEFINE now == IF r.term > term[r.to] THEN r.term ELSE term[r.to]
             vote == IF r.term > term[r.to] THEN None ELSE votedFor[r.to]
             grant == /\ r.term >= term[r.to] /\ CanVote(r.to, vote, r)
                      /\ LogIsCurrent(r.to, r)
  <2>1. /\ r \in Calls /\ r.to \in Nodes /\ r.from \in Nodes
        /\ now \in Nat /\ vote \in Nodes \cup {None}
    BY DEF FailoverTypeOK, Calls
  <2>2. grant \in BOOLEAN
    BY Zenon DEF CanVote, LogIsCurrent
  <2>3. rpcs' \subseteq rpcs \cup {Answer(r, now, grant)}
    BY <1>5, Zenon DEF HandleRequestVote
  <2>4. rpcs' \subseteq Calls
    BY <2>1, <2>2, <2>3, AnswerType DEF FailoverTypeOK
  <2>5. /\ r.to \notin locked /\ term' = [term EXCEPT ![r.to] = now]
        /\ state' = state \/ state' = [state EXCEPT ![r.to] = "follower"]
        /\ \/ votedFor' = [votedFor EXCEPT ![r.to] = r.from]
           \/ votedFor' = [votedFor EXCEPT ![r.to] = vote]
        /\ UNCHANGED <<peers, votes, locked, log, commit, lastApplied, primary, proposals>>
    BY <1>5 DEF HandleRequestVote
  <2> HIDE DEF now, vote, grant
  <2>6. /\ term' \in [Nodes -> Nat]
        /\ state' \in [Nodes -> {"follower", "candidate", "leader"}]
        /\ votedFor' \in [Nodes -> Nodes \cup {None}]
    <3>1. term \in [Nodes -> Nat] /\ state \in [Nodes -> {"follower", "candidate", "leader"}]
          /\ votedFor \in [Nodes -> Nodes \cup {None}]
      BY DEF FailoverTypeOK
    <3>2. term' \in [Nodes -> Nat]
      BY <2>1, <2>5, <3>1
    <3>3. state' \in [Nodes -> {"follower", "candidate", "leader"}]
      BY <2>5, <3>1
    <3>4. votedFor' \in [Nodes -> Nodes \cup {None}]
      BY <2>1, <2>5, <3>1
    <3>5. QED BY <3>2, <3>3, <3>4
  <2>7. \A n \in locked : state'[n] = state[n] /\ votedFor'[n] = votedFor[n]
    BY <2>5 DEF FailoverTypeOK
  <2>8. QED BY <2>4, <2>5, <2>6, <2>7 DEF FailoverTypeOK
<1>6. ASSUME NEW r \in rpcs, RpcFails(r) \/ Unreachable(r) PROVE FailoverTypeOK'
  <2>1. r \in Calls
    BY DEF FailoverTypeOK
  <2>2. rpcs' \subseteq Calls
    BY <1>6, <2>1, GivenUpType DEF FailoverTypeOK, RpcFails, Unreachable
  <2>3. QED BY <1>6, <2>2 DEF FailoverTypeOK, RpcFails, Unreachable
<1>7. ASSUME NEW r \in rpcs, CountVote(r) PROVE FailoverTypeOK'
  <2>1. r.from \in Nodes /\ r.reply \in Nat
    BY DEF FailoverTypeOK, Calls
  <2>2. /\ r.from \notin locked /\ rpcs' \subseteq rpcs
        /\ UNCHANGED <<peers, locked, log, commit, lastApplied, primary, proposals>>
    BY <1>7 DEF CountVote, MayCount
  <2>3. CASE HigherTerm(r)
    BY <1>7, <2>1, <2>2, <2>3 DEF FailoverTypeOK, CountVote
  <2>4. CASE ~HigherTerm(r)
    <3>1. /\ votes' = votes \/ votes' = [votes EXCEPT ![r.from] = @ + 1]
          /\ UNCHANGED <<term, state, votedFor>>
      BY <1>7, <2>4 DEF CountVote
    <3>2. votes' \in [Nodes -> Nat]
      <4>1. votes \in [Nodes -> Nat]
        BY DEF FailoverTypeOK
      <4>2. QED BY <2>1, <3>1, <4>1
    <3>3. QED BY <2>2, <3>1, <3>2 DEF FailoverTypeOK
  <2>5. QED BY <2>3, <2>4
<1>8. CASE UNCHANGED failoverVars
  BY <1>8 DEF FailoverTypeOK
<1>9. QED
  BY <1>1, <1>2, <1>3, <1>4, <1>5, <1>6, <1>7, <1>8 DEF FailoverNext

-----------------------------------------------------------------------------
(* Leaders. *)

\* Its own vote is a majority only for a node without peers.
LEMMA AloneWins ==
  ASSUME FailoverTypeOK, NEW n \in Nodes, Majority(1, n)
  PROVE  peers[n] = {}
<1>1. IsFiniteSet(peers[n])
  BY FailoverAssumption, FS_Subset DEF FailoverAssumption, FailoverTypeOK
<1>2. Cardinality(peers[n]) \in Nat
  BY <1>1, FS_CardinalityType
<1>3. Cardinality(peers[n]) = 0
  BY <1>2 DEF Majority
<1>4. QED BY <1>1, <1>3, FS_EmptySet

\* The votes of a node do not change while its timer waits.
LEMMA StepOwnVoteOnly == FailoverTypeOK /\ OwnVoteOnly /\ [FailoverNext]_failoverVars => OwnVoteOnly'
<1> SUFFICES ASSUME FailoverTypeOK, OwnVoteOnly, [FailoverNext]_failoverVars PROVE OwnVoteOnly'
  OBVIOUS
<1>1. ASSUME NEW n \in Nodes, StartElection(n) PROVE OwnVoteOnly'
  BY <1>1 DEF FailoverTypeOK, OwnVoteOnly, StartElection
<1>2. ASSUME NEW n \in Nodes, EndElection(n) PROVE OwnVoteOnly'
  BY <1>2 DEF OwnVoteOnly, EndElection
<1>3. ASSUME NEW r \in rpcs, CountVote(r) PROVE OwnVoteOnly'
  <2>1. r.from \notin locked /\ locked' = locked
    BY <1>3 DEF CountVote, MayCount
  <2>2. \A n \in locked : votes'[n] = votes[n]
    BY <1>3, <2>1 DEF FailoverTypeOK, CountVote
  <2>3. QED BY <2>1, <2>2 DEF OwnVoteOnly
<1>4. CASE UNCHANGED <<locked, votes>>
  BY <1>4 DEF OwnVoteOnly
<1>5. QED
  BY <1>1, <1>2, <1>3, <1>4
  DEF FailoverNext, Propose, ApplyCommitted, HandleRequestVote, RpcFails, Unreachable

LEMMA StepLeadersAlone == FailoverInv /\ [FailoverNext]_failoverVars => LeadersAlone'
<1> SUFFICES ASSUME FailoverInv, [FailoverNext]_failoverVars PROVE LeadersAlone'
  OBVIOUS
<1>0. FailoverTypeOK /\ OwnVoteOnly /\ LeadersAlone
  BY DEF FailoverInv
<1>1. ASSUME NEW n \in Nodes, StartElection(n) PROVE LeadersAlone'
  BY <1>0, <1>1 DEF FailoverTypeOK, LeadersAlone, StartElection
<1>2. ASSUME NEW n \in Nodes, EndElection(n) PROVE LeadersAlone'
  <2>1. CASE UNCHANGED <<state, primary, peers>>
    BY <1>0, <2>1 DEF LeadersAlone
  <2>2. CASE Majority(votes[n], n)
    <3>1. votes[n] = 1
      BY <1>0, <1>2 DEF OwnVoteOnly, EndElection
    <3>2. peers[n] = {}
      BY <1>0, <2>2, <3>1, AloneWins
    <3>3. \A k \in Nodes \ {n} : state'[k] = state[k] /\ primary'[k] = primary[k]
      BY <1>0, <1>2 DEF FailoverTypeOK, EndElection
    <3>4. QED BY <1>0, <1>2, <3>2, <3>3 DEF LeadersAlone, EndElection
  <2>3. QED BY <1>2, <2>1, <2>2 DEF EndElection
<1>3. ASSUME NEW r \in rpcs, HandleRequestVote(r) \/ CountVote(r) PROVE LeadersAlone'
  <2>1. UNCHANGED <<peers, primary>>
    BY <1>3 DEF HandleRequestVote, CountVote
  <2>2. \A k \in Nodes : state'[k] \in {state[k], "follower"}
    BY <1>0, <1>3 DEF FailoverTypeOK, HandleRequestVote, CountVote
  <2>3. QED BY <1>0, <2>1, <2>2 DEF LeadersAlone
<1>4. CASE UNCHANGED <<state, primary, peers>>
  BY <1>0, <1>4 DEF LeadersAlone
<1>5. QED
  BY <1>1, <1>2, <1>3, <1>4
  DEF FailoverNext, Propose, ApplyCommitted, RpcFails, Unreachable

LEMMA FailoverInitInv == FailoverInit => FailoverInv
<1> SUFFICES ASSUME FailoverInit PROVE FailoverInv
  OBVIOUS
<1>1. OwnVoteOnly /\ LeadersAlone
  BY DEF FailoverInit, OwnVoteOnly, LeadersAlone
<1>2. QED BY <1>1, FailoverInitTypeOK DEF FailoverInv

LEMMA FailoverStepInv == FailoverInv /\ [FailoverNext]_failoverVars => FailoverInv'
BY FailoverStepTypeOK, StepOwnVoteOnly, StepLeadersAlone DEF FailoverInv

LEMMA StepVoteKept == FailoverTypeOK /\ [FailoverNext]_failoverVars => [VoteKept]_failoverVars
<1> SUFFICES ASSUME FailoverTypeOK, FailoverNext PROVE VoteKept
  OBVIOUS
<1>0. term \in [Nodes -> Nat] /\ votedFor \in [Nodes -> Nodes \cup {None}]
  BY DEF FailoverTypeOK
<1>1. ASSUME NEW n \in Nodes, StartElection(n) PROVE VoteKept
  BY <1>0, <1>1 DEF VoteKept, StartElection
<1>2. ASSUME NEW r \in rpcs, HandleRequestVote(r) PROVE VoteKept
  <2>1. r.to \in Nodes /\ r.term \in Nat
    BY DEF FailoverTypeOK, Calls
  <2>2. \A k \in Nodes \ {r.to} : term'[k] = term[k] /\ votedFor'[k] = votedFor[k]
    BY <1>0, <1>2 DEF HandleRequestVote
  <2>3. CASE r.term > term[r.to]
    <3>1. term'[r.to] = r.term
      BY <1>0, <1>2, <2>1, <2>3 DEF HandleRequestVote
    <3>2. QED BY <1>0, <2>2, <2>3, <3>1 DEF VoteKept
  <2>4. CASE ~(r.term > term[r.to])
    <3>1. term'[r.to] = term[r.to]
      BY <1>0, <1>2, <2>1, <2>4 DEF HandleRequestVote
    <3>2. \/ votedFor'[r.to] = votedFor[r.to]
          \/ votedFor'[r.to] = r.from /\ votedFor[r.to] \in {None, r.from}
      BY <1>0, <1>2, <2>1, <2>4 DEF HandleRequestVote, CanVote
    <3>3. QED BY <1>0, <2>2, <3>1, <3>2 DEF VoteKept
  <2>5. QED BY <2>3, <2>4
<1>3. ASSUME NEW r \in rpcs, CountVote(r) PROVE VoteKept
  <2>1. r.from \in Nodes /\ r.reply \in Nat
    BY DEF FailoverTypeOK, Calls
  <2>2. CASE HigherTerm(r)
    BY <1>0, <1>3, <2>1, <2>2 DEF VoteKept, CountVote, HigherTerm
  <2>3. CASE ~HigherTerm(r)
    BY <1>0, <1>3, <2>3 DEF VoteKept, CountVote
  <2>4. QED BY <2>2, <2>3
<1>4. CASE UNCHANGED <<term, votedFor>>
  BY <1>0, <1>4 DEF VoteKept
<1>5. QED
  BY <1>1, <1>2, <1>3, <1>4
  DEF FailoverNext, EndElection, Propose, ApplyCommitted, RpcFails, Unreachable

-----------------------------------------------------------------------------
(* Theorems. *)

\* No node votes twice in a term, in any cluster.
THEOREM VotesStand == FailoverSpec => VoteStands
<1>1. FailoverInv => FailoverTypeOK
  BY DEF FailoverInv
<1>2. QED BY <1>1, FailoverInitInv, FailoverStepInv, StepVoteKept, PTL DEF FailoverSpec, VoteStands

\* The types, and what holds of a node while its timer waits in an election.
THEOREM FailoverTypes == FailoverSpec => []FailoverTypeOK
<1>1. FailoverInv => FailoverTypeOK
  BY DEF FailoverInv
<1>2. QED BY <1>1, FailoverInitInv, FailoverStepInv, PTL DEF FailoverSpec

\* Whatever the cluster, the messages lost and the answers that come late, a node
\* with peers never becomes leader or primary.
THEOREM NoLeaderAmongPeers == FailoverSpec => []LeadersAlone
<1>1. FailoverInv => LeadersAlone
  BY DEF FailoverInv
<1>2. QED BY <1>1, FailoverInitInv, FailoverStepInv, PTL DEF FailoverSpec
=============================================================================
