--------------------------- MODULE StatementTexts ---------------------------
(***************************************************************************)
(* Statements as texts: splitting a text into commands                     *)
(* (command_splitter.py), and dumps and their import (export_import.py,    *)
(* parser.py).                                                             *)
(***************************************************************************)
EXTENDS Naturals, Sequences, FiniteSets, SequencesExt

(***************************************************************************)
(* The scanner of command_splitter.py that cuts a text into commands, and  *)
(* the older one it replaced, reading the same text of any length beside a *)
(* scanner of what the code says it supports: quotes, doubled quotes,      *)
(* escapes and comments.  White space is left out, which the commands are  *)
(* stripped of at the end, in their strings too.                           *)
(***************************************************************************)

CSQuotes == {"'", "\""}
CSChars == CSQuotes \cup {"\\", ";", "-", "/", "*", "newline"}

VARIABLES
  csChar,    \* text[i]
  csScan,    \* the splitter: the quote it is in or "", whether it is in a comment of a line, of a
             \* block, or after a backslash, and the last entry of current_command
  csOld,     \* the quote split_commands_legacy is in, or ""
  csRef,     \* the scanner to compare with: its mode, and whether it drops the next character
  csOut,     \* what each of the three gave out for the characters read last
  csRegular, \* history: no closing quote followed its opening one at once, or another doubled one,
             \* and no comment had the beginning of one in it
  csSimple   \* history: no backslash and no comment came

csVars == <<csChar, csScan, csOld, csRef, csOut, csRegular, csSimple>>

CSCut == "cut"

CSStart == [quote |-> "", line |-> FALSE, block |-> FALSE, escape |-> FALSE, last |-> ""]

CSInit ==
  /\ csChar \in CSChars /\ csScan = CSStart /\ csOld = "" /\ csRef = [mode |-> "plain", drop |-> FALSE]
  /\ csOut = [new |-> <<>>, old |-> <<>>, ref |-> <<>>] /\ csRegular = TRUE /\ csSimple = TRUE

-----------------------------------------------------------------------------
(* The scanner to compare with. *)

CSRefMode(r, c, n) ==
  CASE r.mode = "plain" /\ c = "\\" -> "escape"
    [] r.mode = "plain" /\ c \in CSQuotes -> c
    [] r.mode = "plain" /\ c = "-" /\ n = "-" -> "line"
    [] r.mode = "plain" /\ c = "/" /\ n = "*" -> "block"
    [] \/ r.mode \in {"escape", c}
       \/ r.mode = "line" /\ c = "newline"
       \/ r.mode = "block" /\ c = "*" /\ n = "/" -> "plain"
    [] OTHER -> r.mode

CSRefNext(r, c, n) ==
  IF r.drop THEN [r EXCEPT !.drop = FALSE]
  ELSE LET mode == CSRefMode(r, c, n)
       IN  [mode |-> mode, drop |-> mode # r.mode /\ (mode \in {"line", "block"} \/ r.mode = "block")]

\* A comment leaves a space, and a backslash is kept.
CSRefOut(r, c, n) ==
  LET mode == CSRefMode(r, c, n)
  IN  CASE r.drop \/ mode \in {"line", "block"} -> <<>>
        [] ~r.drop /\ r.mode \in {"line", "block"} /\ mode = "plain" -> <<" ">>
        [] ~r.drop /\ r.mode = "plain" /\ mode = "plain" /\ c = ";" -> <<CSCut>>
        [] OTHER -> <<c>>

-----------------------------------------------------------------------------
(* The splitter. *)

\* Mutant of CSInComment: the comments of a line are left out.
CSInCommentBlock == csScan.block

CSInComment == csScan.line \/ csScan.block

\* Mutant of CSInString: only the single quote makes a string.
CSInStringSingle == csScan.quote = "'"

CSInString == csScan.quote # ""

\* _handle_comments, which is asked in comments too: a line's can begin a block's.
CSOpens(n) ==
  /\ ~CSInString
  /\ (csChar = "-" /\ n = "-") \/ (csChar = "/" /\ n = "*")

CSBegun == [csScan EXCEPT !.line = @ \/ csChar = "-", !.block = @ \/ csChar = "/"]

\* The closing quote comes right after a quote: taken for a doubled one.
CSDoubled == csChar = csScan.quote /\ csScan.last = csChar

\* What happens to a character, by the first case that applies, and without a comment's beginning.
CSScanned ==
  LET c == csChar
      Quiet(scan) == [out |-> <<>>, scan |-> scan]
      Kept(out, scan) == [out |-> out, scan |-> [scan EXCEPT !.last = out[Len(out)]]]
  IN  CASE csScan.escape -> Kept(<<"\\", c>>, [csScan EXCEPT !.escape = FALSE])
        [] ~csScan.escape /\ c = "\\" /\ ~CSInString /\ ~CSInComment -> Kept(<<c>>, [csScan EXCEPT !.escape = TRUE])
        [] ~csScan.escape /\ csScan.line ->
             IF c = "newline" THEN Kept(<<" ">>, [csScan EXCEPT !.line = FALSE]) ELSE Quiet(csScan)
        [] ~csScan.escape /\ csScan.block /\ ~csScan.line -> Quiet(csScan)
        [] ~csScan.escape /\ ~CSInComment /\ CSDoubled -> Kept(<<c, c>>, csScan)
        [] ~csScan.escape /\ ~CSInComment /\ c \in CSQuotes /\ ~CSDoubled ->
             Kept(<<c>>, [csScan EXCEPT !.quote = IF @ = c THEN "" ELSE IF @ = "" THEN c ELSE @])
        [] ~csScan.escape /\ ~CSInComment /\ c = ";" /\ ~CSInString ->
             [out |-> <<CSCut>>, scan |-> [csScan EXCEPT !.last = ""]]
        [] OTHER -> Kept(<<c>>, csScan)

-----------------------------------------------------------------------------
(* split_commands_legacy: a quote is in a string unless the other kind is. *)

CSOldNext(quote, c) ==
  IF c \in CSQuotes /\ quote \in {"", c} THEN IF quote = c THEN "" ELSE c ELSE quote

\* Mutant of CSOldOut: it cuts in strings as well.
CSOldOutAlways(quote, c) == IF c = ";" THEN <<CSCut>> ELSE <<c>>

CSOldOut(quote, c) == IF c = ";" /\ quote = "" THEN <<CSCut>> ELSE <<c>>

-----------------------------------------------------------------------------
(* Reading. *)

\* The beginning or the end of a comment is two characters, which are read at once.
CSPair(n) ==
  LET opens == ~csScan.escape /\ CSOpens(n)
      closes == csScan.block /\ ~csScan.line /\ csChar = "*" /\ n = "/"
      middle == CSRefNext(csRef, csChar, n)
  IN  /\ opens \/ closes
      /\ csScan' = IF opens THEN CSBegun
                   ELSE [csScan EXCEPT !.block = FALSE, !.last = " "]
      /\ csOld' = CSOldNext(CSOldNext(csOld, csChar), n)
      /\ csRegular' = (csRegular /\ (opens => ~CSInComment))
      /\ \E m \in CSChars :
           /\ csChar' = m /\ csRef' = CSRefNext(middle, n, m)
           /\ csOut' = [new |-> IF opens THEN <<>> ELSE <<" ">>,
                        old |-> CSOldOut(csOld, csChar) \o CSOldOut(CSOldNext(csOld, csChar), n),
                        ref |-> CSRefOut(csRef, csChar, n) \o CSRefOut(middle, n, m)]

CSOne(n) ==
  /\ csScan.escape \/ ~CSOpens(n)
  /\ ~(csScan.block /\ ~csScan.line /\ csChar = "*" /\ n = "/")
  /\ csScan' = CSScanned.scan /\ csOld' = CSOldNext(csOld, csChar)
  /\ csChar' = n /\ csRef' = CSRefNext(csRef, csChar, n)
  /\ csOut' = [new |-> CSScanned.out, old |-> CSOldOut(csOld, csChar), ref |-> CSRefOut(csRef, csChar, n)]
  /\ csRegular' = (csRegular /\ ~(CSInString /\ CSDoubled))

\* A text is left when neither splitter is known to follow it.
CSNext ==
  /\ csRegular \/ csSimple
  /\ \E n \in CSChars : CSPair(n) \/ CSOne(n)
  /\ csSimple' = (csSimple /\ csRef'.mode \notin {"escape", "line", "block"})

-----------------------------------------------------------------------------
(* Properties. *)

\* Every variable has its type, and at most one of the modes of the splitter is on, unless a comment began in a comment.
CSTypeOK ==
  /\ csChar \in CSChars /\ csScan.quote \in CSQuotes \cup {""} /\ csOld \in CSQuotes \cup {""}
  /\ csRegular => ~(csScan.line /\ csScan.block)
  /\ csRegular /\ (csScan.line \/ csScan.block) => ~CSInString /\ ~csScan.escape

CSPlain(out) == SelectSeq(out, LAMBDA c : c # "\\")

\* Of a text without an empty string, a string that ends in a doubled quote, or the beginning of a
\* comment within a comment, the splitter gives out what it should, in the same commands, but for
\* the number of backslashes.
CSCommands == csRegular => CSPlain(csOut.new) = CSPlain(csOut.ref)

\* Of a text without backslashes and comments, the older one does, with those strings too.
CSOldCommands == csSimple => csOut.old = csOut.ref

-----------------------------------------------------------------------------
(***************************************************************************)
(* The text of a dump (export_import.py, and _parse_values of parser.py):  *)
(* the INSERT statements KosDBExporter writes for rows of numbers, NULLs   *)
(* and texts of any length, and their way back: the importer's scanners,   *)
(* which cut the statements and take line comments out of them, and the    *)
(* parser's, which reads inside VALUES (...).  "a" stands for the letters, *)
(* "1" for the digits, "N" for the four letters of NULL, "newline" for the *)
(* two ends of a line.  A dump is left where a block comment begins in it. *)
(***************************************************************************)

DXQuotes == {"'", "\""}
DXBlanks == {" ", "newline"}
DXChars == DXQuotes \cup DXBlanks \cup {"a", "1", "N", "\\", ";", "-", "#", ",", "/", "*"}

VARIABLES
  dxMode,    \* where the exporter is: before a "value", in a "text", "after" a value
  dxScan,    \* _split_statements and _strip_line_comments: quote_char, escape, and whether a dash came last
  dxParse,   \* _parse_values: string_char, escape, what current is, the values it made of this one (to two),
             \* what the last of them is, and whether its characters are those of the value
  dxText,    \* the value that is written, whether it is a text, and has a single quote
  dxResult,  \* the value before: whether it was regular, had a single quote, how many it came back as, and whether as itself
  dxWhole,   \* history: every statement was cut at its end and nowhere else, and nothing was taken out of it
  dxBlock    \* history: a block comment began

dxVars == <<dxMode, dxScan, dxParse, dxText, dxResult, dxWhole, dxBlock>>

-----------------------------------------------------------------------------
(* What is known of a value: the sort int and NULL tell apart, and its ends. *)

DXNothing == [sort |-> "text", first |-> "", last |-> ""]

DXSort(v, c) ==
  CASE v.first = "" /\ c = "-" -> "sign"
    [] v.first = "" /\ c = "N" -> "null"
    [] c = "1" /\ (v.first = "" \/ v.sort \in {"sign", "number"}) -> "number"
    [] OTHER -> "text"

\* What matters of the characters at the ends.
DXEnd(c) == CASE c \in DXBlanks -> " " [] c \in {"\"", "/"} -> c [] OTHER -> "a"

DXGrow(v, c) ==
  [sort |-> DXSort(v, c), first |-> IF v.first = "" THEN DXEnd(c) ELSE v.first, last |-> DXEnd(c)]

\* strip() takes nothing off, and neither the quotes at both ends, nor NULL, nor int take it for something else.
DXRegular(v) ==
  /\ " " \notin {v.first, v.last}
  /\ ~(v.first = "\"" /\ v.last = "\"")
  /\ v.sort \notin {"number", "null"}

-----------------------------------------------------------------------------
(* The scanners. *)

DXScanStart == [quote |-> "", escape |-> FALSE, dash |-> FALSE]

DXScanned(s, e) ==
  CASE s.escape -> [s EXCEPT !.escape = FALSE]
    [] ~s.escape /\ e = "\\" /\ s.quote # "" -> [s EXCEPT !.escape = TRUE]
    [] OTHER -> [s EXCEPT !.quote = IF @ = "" /\ e \in DXQuotes THEN e ELSE IF @ = e THEN "" ELSE @,
                          !.dash = s.quote = "" /\ e = "-"]

\* The character cuts a statement, or begins a comment of a line.
DXCuts(s, e) == s.quote = "" /\ (e \in {";", "#"} \/ (e = "-" /\ s.dash))

DXScanAll(s, text) == FoldLeft(DXScanned, s, text)

DXCutsIn(s, text) == \E i \in DOMAIN text : DXCuts(DXScanAll(s, SubSeq(text, 1, i - 1)), text[i])

DXParseStart ==
  [quote |-> "", escape |-> FALSE, current |-> DXNothing, count |-> 0, value |-> DXNothing, same |-> TRUE]

\* Mutant of DXUnescaped: the n of a newline is kept.
DXUnescapedLetter(e) == IF e = "\\" \/ e \in DXQuotes THEN <<e>> ELSE <<"\\", e>>

DXUnescaped(e) ==
  CASE e = "n" -> <<"newline">>
    [] e = "\\" \/ e \in DXQuotes -> <<e>>
    [] OTHER -> <<"\\", e>>

\* Mutant of DXComma: in strings as well.
DXCommaAnywhere(p, e) == e = ","

DXComma(p, e) == e = "," /\ p.quote = ""

\* A blank outside a string comes at an end of current, which is stripped.
DXRead(p, e) ==
  CASE p.escape -> DXUnescaped(e)
    [] ~p.escape /\ (\/ e = "\\" /\ p.quote # ""
                     \/ e \in DXQuotes /\ p.quote \in {"", e}
                     \/ DXComma(p, e)
                     \/ e \in DXBlanks /\ p.quote = "") -> <<>>
    [] OTHER -> <<e>>

\* values.append.
DXAppended(p) ==
  [p EXCEPT !.count = IF @ < 2 THEN @ + 1 ELSE @, !.value = p.current, !.current = DXNothing, !.quote = ""]

DXParsed(p, e) ==
  CASE p.escape -> [p EXCEPT !.escape = FALSE, !.current = FoldLeft(DXGrow, @, DXRead(p, e))]
    [] ~p.escape /\ e = "\\" /\ p.quote # "" -> [p EXCEPT !.escape = TRUE]
    [] ~p.escape /\ e \in DXQuotes /\ p.quote = "" -> [p EXCEPT !.quote = e]
    [] ~p.escape /\ e \in DXQuotes /\ p.quote = e -> DXAppended(p)
    [] ~p.escape /\ DXComma(p, e) -> IF p.current.first = "" THEN p ELSE DXAppended(p)
    [] OTHER -> [p EXCEPT !.current = FoldLeft(DXGrow, @, DXRead(p, e))]

\* What the parser reads of a written text.
DXReadAll(p, text) ==
  FoldLeft(LAMBDA r, e : [parse |-> DXParsed(r.parse, e), read |-> r.read \o DXRead(r.parse, e)],
           [parse |-> p, read |-> <<>>], text)

-----------------------------------------------------------------------------
(* The exporter. *)

\* Mutant of DXQuoted: backslashes are not doubled.
DXQuotedOnce(c) == CASE c = "'" -> <<"'", "'">> [] c = "newline" -> <<"\\", "n">> [] OTHER -> <<c>>

\* _quote_value of a text.
DXQuoted(c) ==
  CASE c \in {"'", "\\"} -> <<c, c>>
    [] c = "newline" -> <<"\\", "n">>
    [] OTHER -> <<c>>

DXFresh == [value |-> DXNothing, text |-> FALSE, quote |-> FALSE]

DXInit ==
  /\ dxMode = "value" /\ dxScan = DXScanStart /\ dxParse = DXParseStart /\ dxText = DXFresh
  /\ dxResult = [regular |-> FALSE, quote |-> TRUE, count |-> 0, back |-> FALSE]
  /\ dxWhole = TRUE /\ dxBlock = FALSE

\* The text is written, of the value's characters chars, and goes through the scanners.
DXWrite(text, chars) ==
  LET r == DXReadAll(dxParse, text)
  IN  /\ dxScan' = DXScanAll(dxScan, text)
      /\ dxWhole' = (dxWhole /\ ~DXCutsIn(dxScan, text))
      /\ dxParse' = [r.parse EXCEPT !.same = @ /\ r.read = chars]

DXOpen ==
  /\ dxMode = "value" /\ dxMode' = "text"
  /\ DXWrite(<<"'">>, <<>>)
  /\ dxText' = [DXFresh EXCEPT !.text = TRUE]
  /\ UNCHANGED <<dxResult, dxBlock>>

DXWriteChar ==
  /\ dxMode = "text" /\ UNCHANGED <<dxMode, dxResult>>
  /\ \E c \in DXChars :
       /\ DXWrite(DXQuoted(c), <<c>>)
       /\ dxText' = [dxText EXCEPT !.value = DXGrow(@, c), !.quote = @ \/ c = "'"]
       /\ dxBlock' = (dxText.value.last = "/" /\ c = "*")

DXClose ==
  /\ dxMode = "text" /\ dxMode' = "after"
  /\ DXWrite(<<"'">>, <<>>)
  /\ UNCHANGED <<dxText, dxResult, dxBlock>>

\* A number or a NULL.
DXWriteLiteral ==
  /\ dxMode = "value" /\ dxMode' = "after"
  /\ \E chars \in {<<"1">>, <<"-", "1">>, <<"N">>} :
       /\ DXWrite(chars, chars)
       /\ dxText' = [DXFresh EXCEPT !.value = FoldLeft(DXGrow, DXNothing, chars)]
  /\ UNCHANGED <<dxResult, dxBlock>>

\* The value is over: what the parser p has made of it.
DXJudge(p) ==
  dxResult' = [regular |-> DXRegular(dxText.value) \/ ~dxText.text, quote |-> dxText.quote, count |-> p.count,
               back |-> /\ p.same
                        /\ IF dxText.text THEN DXRegular(p.value) ELSE p.value.sort = dxText.value.sort]

DXNextValue ==
  /\ dxMode = "after" /\ dxMode' = "value"
  /\ LET p == DXReadAll(dxParse, <<",", " ">>).parse
     IN  DXJudge(p) /\ dxParse' = [p EXCEPT !.count = 0, !.same = TRUE]
  /\ dxScan' = DXScanAll(dxScan, <<",", " ">>)
  /\ dxText' = DXFresh /\ UNCHANGED <<dxWhole, dxBlock>>

\* The statement ends, where it should be cut, and another begins.
DXEndRow ==
  /\ dxMode = "after" /\ dxMode' = "value"
  /\ DXJudge(IF dxParse.current.first = "" THEN dxParse ELSE DXAppended(dxParse))
  /\ dxParse' = DXParseStart /\ dxScan' = DXScanStart
  /\ dxWhole' = (dxWhole /\ DXCuts(dxScan, ";"))
  /\ dxText' = DXFresh /\ UNCHANGED dxBlock

DXNext ==
  /\ ~dxBlock
  /\ DXOpen \/ DXWriteChar \/ DXClose \/ DXWriteLiteral \/ DXNextValue \/ DXEndRow

-----------------------------------------------------------------------------
(* Properties. *)

\* Every variable has its type, and the parser is in a string only while a text is written.
DXTypeOK ==
  /\ dxMode \in {"value", "text", "after"} /\ dxScan.quote \in DXQuotes \cup {""} /\ dxParse.count \in 0 .. 2
  /\ dxMode # "text" => dxParse.quote = "" /\ dxScan.quote = ""

\* Whatever its texts, a dump without a block comment in them is cut where its statements end, and nothing is taken out.
DXStatementsWhole == dxWhole

\* A value without a single quote comes back as one value, so that those that follow keep their columns.
DXColumnsKept == ~dxResult.quote => dxResult.count = 1

\* A number and a NULL come back as themselves, and so does a text without single quotes that is not one of a number
\* or of NULL, has no blank at an end, and no double quotes at both.
DXValueBack == dxResult.regular /\ ~dxResult.quote => dxResult.back

-----------------------------------------------------------------------------
(***************************************************************************)
(* A dump and its way back (export_import.py): KosDBExporter writes the    *)
(* statements of every table of a database, KosDBImporter executes them    *)
(* one at a time on tables that may have changed since, and may die at     *)
(* any of them.  What the text of a value becomes is in DumpText; here a   *)
(* value is a number, or a text with the same number in it.  Every table   *)
(* has one UNIQUE column.  CREATE DATABASE and USE, which come first and   *)
(* cannot fail, are left out.                                              *)
(***************************************************************************)

CONSTANTS DITables,   \* a sequence: the tables, in the order of their names
          DIKeyed,    \* those that have a primary key, which is not named id
          DIGiven,    \* the keys statements give
          DIMaxRows,  \* bound: rows a table has when it is dumped
          DIMaxNext   \* bound: the counter of a table that statements of the server go to

DINames == Range(DITables)
DIValues == {"number", "numeral"}

VARIABLES
  diTables,  \* table |-> its counter next_id and its rows: the key of each, whether it has its primary key's column, its value
  diDump,    \* the statements of the dump, or none
  diLeft,    \* those the importer has still to execute
  diFailed,  \* the importer's failed
  diTaken,   \* history: the tables the dump was taken of
  diBefore,  \* history: the tables as the import found them
  diPhase    \* who has the data directory: the "server", the "importer", or it is to be started "again"

diVars == <<diTables, diDump, diLeft, diFailed, diTaken, diBefore, diPhase>>

DIEmpty == [next |-> 1, rows |-> {}]

DIInit ==
  /\ diTables = [t \in DINames |-> DIEmpty] /\ diDump = <<>> /\ diLeft = <<>> /\ diFailed = FALSE
  /\ diTaken = diTables /\ diBefore = diTables /\ diPhase = "server"

DIByKey(rows) == SetToSortSeq(rows, LAMBDA r, q : r.key < q.key)

-----------------------------------------------------------------------------
(* The engine's part: _insert_row. *)

\* Mutant of DIPut: the row that had the key stays.
DIPutBeside(rows, row) == rows \cup {row}

DIPut(rows, row) == {r \in rows : r.key # row.key} \cup {row}

DIDuplicate(table, row) ==
  \/ row.given /\ \E r \in table.rows : r.key = row.key
  \/ \E r \in table.rows : r.key # row.key /\ r.value = row.value

\* Without its key's column, a row gets its key from the counter, which moves before the UNIQUE columns are looked at.
DIInserted(table, given) ==
  LET row == IF given.given THEN given ELSE [given EXCEPT !.key = table.next]
      counted == [table EXCEPT !.next = IF given.given THEN @ ELSE @ + 1]
  IN  IF DIDuplicate(table, row) THEN [table |-> counted, failed |-> TRUE]
      ELSE [table |-> [counted EXCEPT !.rows = DIPut(@, row)], failed |-> FALSE]

\* Bound: the server executes a statement at most between the dump and the import of it.
DIServes == diPhase = "server" /\ (diDump = <<>> \/ diTables = diTaken)

DIInsert(t) ==
  /\ DIServes /\ Cardinality(diTables[t].rows) < DIMaxRows /\ diTables[t].next < DIMaxNext
  /\ \E value \in DIValues, key \in DIGiven, given \in {FALSE} \cup {t \in DIKeyed} :
       diTables' = [diTables EXCEPT ![t] = DIInserted(@, [key |-> key, given |-> given, value |-> value]).table]
  /\ UNCHANGED <<diDump, diLeft, diFailed, diTaken, diBefore, diPhase>>

\* A table loses its rows: dropped, and created again.
DIRecreate(t) ==
  /\ DIServes /\ diDump # <<>>
  /\ diTables' = [diTables EXCEPT ![t] = DIEmpty]
  /\ UNCHANGED <<diDump, diLeft, diFailed, diTaken, diBefore, diPhase>>

-----------------------------------------------------------------------------
(* The exporter. *)

\* Mutant of DICounter: the counter is not dumped.
DICounterNone(t) == <<>>

\* SET TABLE ... next_id, for a table with a primary key, and rows.
DICounter(t) ==
  IF t \in DIKeyed /\ diTables[t].next > 1 THEN <<[op |-> "set", table |-> t, next |-> diTables[t].next]>> ELSE <<>>

DIRowsOf(t) ==
  LET rows == DIByKey(diTables[t].rows)
  IN  [i \in DOMAIN rows |-> [op |-> "insert", table |-> t, row |-> rows[i]]]

\* _dump_table.
DIDumped(t) ==
  <<[op |-> "drop", table |-> t], [op |-> "create", table |-> t]>>
    \o (IF diTables[t].rows = {} THEN <<>> ELSE DICounter(t) \o DIRowsOf(t))

\* Mutant of DIDump: the tables are dropped first.
DIDumpDropsFirst == FlattenSeq([i \in DOMAIN DITables |-> SubSeq(DIDumped(DITables[i]), 1, 1)])
                      \o FlattenSeq([i \in DOMAIN DITables |-> Tail(DIDumped(DITables[i]))])

DIDump == FlattenSeq([i \in DOMAIN DITables |-> DIDumped(DITables[i])])

\* The server is stopped for it.  Export of a database.
DIExport ==
  /\ diPhase = "server" /\ diDump = <<>>
  /\ diDump' = DIDump /\ diTaken' = diTables
  /\ UNCHANGED <<diTables, diLeft, diFailed, diBefore, diPhase>>

-----------------------------------------------------------------------------
(* The importer. *)

\* A text that reads as a number comes back as one.
DIRead(value) == IF value = "numeral" THEN "number" ELSE value

DIExecuted(s, table) ==
  CASE s.op \in {"drop", "create"} -> [table |-> DIEmpty, failed |-> FALSE]
    [] s.op = "set" -> [table |-> [table EXCEPT !.next = s.next], failed |-> FALSE]
    [] s.op = "insert" -> DIInserted(table, [s.row EXCEPT !.value = DIRead(@)])

DIImport ==
  /\ diPhase \in {"server", "again"} /\ diDump # <<>> /\ diPhase' = "importer"
  /\ diLeft' = diDump /\ diFailed' = FALSE /\ diBefore' = diTables
  /\ UNCHANGED <<diTables, diDump, diTaken>>

\* After an error the other statements are only listed.
DIStatement ==
  /\ diPhase = "importer" /\ diLeft # <<>> /\ diLeft' = Tail(diLeft)
  /\ IF diFailed THEN UNCHANGED <<diTables, diFailed>>
     ELSE LET s == Head(diLeft)
              result == DIExecuted(s, diTables[s.table])
          IN  /\ diTables' = [diTables EXCEPT ![s.table] = result.table]
              /\ diFailed' = result.failed
  /\ UNCHANGED <<diDump, diTaken, diBefore, diPhase>>

\* The importer's process dies, and it is started again.
DIDies ==
  /\ diPhase = "importer" /\ diLeft # <<>> /\ diPhase' = "again"
  /\ UNCHANGED <<diTables, diDump, diLeft, diFailed, diTaken, diBefore>>

DINext ==
  \/ \E t \in DINames : DIInsert(t) \/ DIRecreate(t)
  \/ DIExport \/ DIImport \/ DIStatement \/ DIDies

-----------------------------------------------------------------------------
(* Properties. *)

\* Every variable has its type, and no two rows of a table have a key.
DITypeOK ==
  /\ diPhase \in {"server", "importer", "again"} /\ diFailed \in BOOLEAN /\ DOMAIN diTables = DINames
  /\ \A t \in DINames : \A r, q \in diTables[t].rows : r.key = q.key => r = q

DIValuesOf(rows) == LET sorted == DIByKey(rows) IN [i \in DOMAIN sorted |-> sorted[i].value]

\* The table has the rows of the dump, as texts and numbers are read, and their keys if every row came with its own.
DIRestored(t) ==
  LET taken == diTaken[t]
      read == {[r EXCEPT !.value = DIRead(@)] : r \in taken.rows}
  IN  IF t \in DIKeyed /\ \A r \in taken.rows : r.given
      THEN diTables[t].rows = read /\ (read # {} => diTables[t].next = taken.next)
      ELSE Len(DIValuesOf(diTables[t].rows)) = Cardinality(read)

\* An import without an error has every table of the dump back.
DIAllBack == diPhase = "importer" /\ diLeft = <<>> /\ ~diFailed => \A t \in DINames : DIRestored(t)

\* Wherever the import stands, or has stopped, no more than one table is neither as it was found nor as it was dumped.
DIOneHalfDone ==
  diPhase = "importer" => Cardinality({t \in DINames : diTables[t] # diBefore[t] /\ ~DIRestored(t)}) <= 1
=============================================================================
