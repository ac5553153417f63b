------------------------------- MODULE RunSQL -------------------------------
(***************************************************************************)
(* runSQL and printResult (main.go:578-638): a statement is run on the     *)
(* connection, its result is read cell by cell and printed in the layout   *)
(* of the mode, and closed.  The module composes the layouts of Render     *)
(* with the calls of Binding: every step that touches the database is a    *)
(* call of the binding, so that stale handles, wrong indices and lost      *)
(* results would show there.                                               *)
(*                                                                         *)
(* Between statements the connection may be closed and opened again, as    *)
(* .open does.                                                             *)
(***************************************************************************)
EXTENDS Render

CONSTANTS
  Addr, NULL, Conns, Results, Counts, Indices, IntMax,  \* as in Binding
  Tables   \* the results a SELECT may have, NoTable among them

NoTable == [names |-> <<>>, types |-> <<>>, rows |-> <<>>]
Layouts == {"csv", "json", "markdown", "duckbox", "column", "ascii"}

ASSUME TablesAssumption == NoTable \in Tables /\ \A t \in Tables : Tabular(t)

\* What DuckDB and strconv print for a number or a truth value.
ASSUME NumbersAssumption ==
  \A t \in Tables : \A r \in DOMAIN t.rows, c \in Columns(t) :
    /\ t.types[c] \in Ints => ~HasAny(t.rows[r][c].int, {Quote, Comma, "}", "null"})
    /\ t.types[c] \in Floats \cup {"Boolean"}
         => ~HasAny(t.rows[r][c].text, {Quote, Comma, "}", "null"})

ASSUME OneResult == \A r, q \in Results : r = q     \* the variable of runSQL
ASSUME CountsAssumption == Counts \subseteq Nat /\ IntMax \in Nat
-----------------------------------------------------------------------------
VARIABLES
  heap, conns, stmts, res, rows, ltype, stray,  \* as in Binding
  pc,      \* "idle", "failed", "done", "rows" or "close"
  layout,  \* the mode the statement's result is printed in
  select,  \* the statement is a SELECT
  table,   \* the names, types and values of the result
  row,     \* rows printed so far
  out      \* the lines printed

B == INSTANCE Binding WITH Stmts <- {}, Params <- 0, MaxRow <- 0

bindingVars == <<heap, conns, stmts, res, rows, ltype, stray>>
printVars   == <<layout, select, table, row, out>>
vars == <<bindingVars, pc, printVars>>

Init ==
  /\ B!Init
  /\ pc = "idle" /\ layout = "duckbox" /\ select = FALSE
  /\ table = NoTable /\ row = 0 /\ out = <<>>

GoTo(p) == pc' = p

\* One line with one text.
Message(m) == <<Plain(<<m>>)>>

\* Opening and closing the connection: main, and .open between statements.
Reconnect(c) ==
  /\ pc = "idle" /\ (B!Open(c) \/ B!OpenFails(c) \/ B!CloseConn(c))
  /\ UNCHANGED <<pc, printVars>>

(***************************************************************************)
(* db.Query.  A result has the shape of some table, an error has none.     *)
(***************************************************************************)
Query(c, r, l) ==
  /\ pc = "idle" /\ B!Owns(conns[c])
  /\ B!Query(c, r)
  /\ LET o == heap'[res'[r].h]
     IN /\ table' \in {t \in Tables : Len(t.rows) = o.rows /\ Len(t.names) = o.cols}
        /\ GoTo(IF o.failed THEN "failed" ELSE "done")
  /\ select' \in BOOLEAN
  /\ layout' = l /\ row' = 0 /\ out' = <<>>

\* Mutant: the error path returns without closing the result.
ShowErrorOnly(r) ==
  /\ pc = "failed"
  /\ out' = Message(IF B!ErrorText(r) THEN "message" ELSE "query failed")
  /\ B!ReadResult(r)
  /\ GoTo("idle")
  /\ UNCHANGED <<layout, select, table, row>>

\* Mutant: the result is closed before it is asked for its error.
CloseThenShowError(r) ==
  /\ pc = "failed"
  /\ B!CloseResult(r)
  /\ out' = Message("query failed")
  /\ GoTo("idle")
  /\ UNCHANGED <<layout, select, table, row>>

ShowError(r) ==
  /\ pc = "failed"
  /\ out' = Message(IF B!ErrorText(r) THEN "message" ELSE "query failed")
  /\ B!ReadResult(r)
  /\ GoTo("close")
  /\ UNCHANGED <<layout, select, table, row>>

\* Every other statement: the number of rows it changed.
ShowChanges(r) ==
  /\ pc = "done" /\ ~select
  /\ B!ReadResult(r)
  /\ out' = Message("OK")
  /\ GoTo("close")
  /\ UNCHANGED <<layout, select, table, row>>

(***************************************************************************)
(* printResult: rows and cols are read once, then the lines are printed.   *)
(***************************************************************************)
NoColumns(r) ==
  /\ pc = "done" /\ select /\ B!ColumnCount(r) = 0
  /\ B!ReadResult(r)
  /\ out' = Message("(no result columns)")
  /\ GoTo("close")
  /\ UNCHANGED <<layout, select, table, row>>

PrintHeading(r) ==
  /\ pc = "done" /\ select
  /\ \E col \in 0 .. B!ColumnCount(r) - 1 : B!ReadColumn(r, col)
  /\ out' = Heading(layout, table)
  /\ GoTo("rows")
  /\ UNCHANGED <<layout, select, table, row>>

\* Mutant: the loop runs once too often.
PrintRowMore(r) ==
  /\ pc = "rows" /\ row <= B!RowCount(r)
  /\ out' = Append(out, Plain(<<"?">>))
  /\ row' = row + 1
  /\ UNCHANGED <<bindingVars, pc, layout, select, table>>

PrintRow(r) ==
  /\ pc = "rows" /\ row < B!RowCount(r)
  /\ \E col \in 0 .. B!ColumnCount(r) - 1 : B!ReadCell(r, row, col)
  /\ out' = Append(out, RowLine(layout, table, row + 1))
  /\ row' = row + 1
  /\ UNCHANGED <<pc, layout, select, table>>

PrintEnding(r) ==
  /\ pc = "rows" /\ row >= B!RowCount(r)
  /\ out' = out \o Ending(layout, table)
  /\ GoTo("close")
  /\ UNCHANGED <<bindingVars, layout, select, table, row>>

\* The last line of every path through runSQL.
Close(r) ==
  /\ pc = "close"
  /\ B!CloseResult(r)
  /\ GoTo("idle")
  /\ layout' = "duckbox" /\ select' = FALSE
  /\ table' = NoTable /\ row' = 0 /\ out' = <<>>

RunResult(r) ==
  \/ ShowError(r) \/ ShowChanges(r) \/ NoColumns(r) \/ PrintHeading(r)
  \/ PrintRow(r) \/ PrintEnding(r) \/ Close(r)

Next ==
  \/ \E c \in Conns : Reconnect(c)
  \/ \E c \in Conns, r \in Results, l \in Layouts : Query(c, r, l)
  \/ \E r \in Results : RunResult(r)

Spec == Init /\ [][Next]_vars
-----------------------------------------------------------------------------
(***************************************************************************)
(* Type invariant.                                                         *)
(***************************************************************************)
\* Every variable has its type; row never passes the number of rows of the
\* result (main.go:615-637).
TypeOK ==
  /\ pc \in {"idle", "failed", "done", "rows", "close"}
  /\ layout \in Layouts /\ select \in BOOLEAN
  /\ table \in Tables /\ row \in 0 .. Len(table.rows)

(***************************************************************************)
(* Safety: the calls.                                                      *)
(***************************************************************************)
\* Between statements DuckDB holds no result: it is closed on every path
\* through runSQL, the failing ones included (main.go:583-612).
Released == pc = "idle" => \A a \in Addr : heap[a].kind # "result"

(***************************************************************************)
(* Safety: what is printed.  Printed rows are the ones of out.             *)
(***************************************************************************)
IsTable == pc \in {"rows", "close"} /\ select /\ table.names # <<>>
Lead    == Len(Heading(layout, table))
LineOf(r) == out[Lead + r]

\* A failed query always shows DuckDB's message: the fallback "query failed"
\* is never needed while the connection is open (main.go:585-589).
ErrorExplained == ~IsTable => out # Message("query failed")

\* The columns of a duckbox or ascii table line up: in every line, of names,
\* types, values or dashes, a column is as wide as in the first, because all
\* are padded, cut and drawn to one width computed beforehand
\* (main.go:640-702, 740-847, 1012-1065).
Aligned ==
  IsTable /\ layout \in {"duckbox", "ascii"} =>
    \A i \in DOMAIN out :
      /\ DOMAIN out[i] = DOMAIN out[1]
      /\ \A c \in DOMAIN out[1] : Width(out[i][c]) = Width(out[1][c])

\* A value that fits into the widest column is printed whole, in its column:
\* the measure taken before agrees with what is formatted then, type by type
\* (main.go:36-96 with 1088-1168).
FittingWhole ==
  IsTable /\ layout \in {"duckbox", "ascii", "markdown"} =>
    \A r \in 1 .. row, c \in Columns(table) :
      Len(Cell(table, r, c)) <= Cap => LineOf(r)[c].text = Cell(table, r, c)

AllTexts == UNION {{Cell(t, r, c) : r \in DOMAIN t.rows, c \in Columns(t)} :
                     t \in Tables}

\* A csv field can be read back: no other text is escaped to the same field,
\* and one with commas, newlines or quotes in it is quoted and ends, for a
\* reader, at its last character and nowhere before (main.go:1080-1086).
CsvFieldsReadable ==
  IsTable /\ layout = "csv" =>
    \A r \in 1 .. row, c \in Columns(table) :
      LET f == LineOf(r)[c].text IN
      /\ \A s \in AllTexts : csvEscape(s) = f => s = Cell(table, r, c)
      /\ HasAny(f, {Comma, Break, Quote}) =>
           f[1] = Quote /\ \A j \in DOMAIN f : Closes(f, j) <=> j = Len(f)

\* The results with the same names.
Peers == {t \in Tables : t.names = table.names}

\* A json row can be read back: rows that are printed alike hold the same
\* values, nulls told from texts, whatever the types (main.go:881-973).
JsonReadable ==
  IsTable /\ layout = "json" =>
    \A r \in 1 .. row : \A t \in Peers : r \in DOMAIN t.rows =>
      (Printed(LineOf(r)) = Printed(JsonRow(t, r)) =>
         \A c \in Columns(table) : /\ t.rows[r][c].null <=> table.rows[r][c].null
                                   /\ Cell(t, r, c) = Cell(table, r, c))

\* "-csv: initial output mode: csv": rows of different fields are printed
\* differently.
CsvReadable ==
  IsTable /\ layout = "csv" =>
    \A r \in 1 .. row : \A t \in Peers : r \in DOMAIN t.rows =>
      (Printed(LineOf(r)) = Printed(CsvRow(t, r)) =>
         \A c \in Columns(table) : Cell(t, r, c) = Cell(table, r, c))

\* Values are printed as DuckDB has them: values of one column with
\* different texts are not formatted alike, unless they are too long or
\* cannot be read.
ValuesTold ==
  IsTable =>
    \A r \in 1 .. row, c \in Columns(table) : \A t \in Peers :
      r \in DOMAIN t.rows /\ t.types = table.types
      /\ ~t.rows[r][c].null /\ ~table.rows[r][c].null
      /\ Cell(t, r, c) = Cell(table, r, c) /\ Cell(t, r, c) \notin {TooLong, Unknown} =>
           t.rows[r][c].text = table.rows[r][c].text
=============================================================================
