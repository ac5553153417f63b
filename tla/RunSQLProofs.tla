---------------------------- MODULE RunSQLProofs ----------------------------
(***************************************************************************)
(* Proofs about RunSQL, for all tables, layouts, addresses and counts: its *)
(* type invariant, that every path through runSQL releases the result, and *)
(* what the lines that are printed of a result show.                       *)
(*                                                                         *)
(* Released says nothing while a statement runs.  What makes it inductive  *)
(* is that a result in DuckDB's memory always belongs to runSQL's variable *)
(* (ResultOwned), and that the variable owns one exactly while a statement *)
(* runs (OwnsWhenBusy).  TypeOK needs the latter too: the rows the result  *)
(* has are the rows of the table until the result is closed.               *)
(*                                                                         *)
(* The properties of what is printed are about whole outputs, which are    *)
(* made a line at a time: OutShows says what is printed at every step, as  *)
(* a function of the table, the layout and the rows printed so far.        *)
(***************************************************************************)
EXTENDS RunSQL, RenderProofs

ResultVar == [closed : BOOLEAN, open : BOOLEAN, h : Addr \cup {NULL},
              err : B!Errors]

ResultOwned ==
  \A a \in Addr : heap[a].kind = "result" =>
    \E r \in Results : B!Owns(res[r]) /\ res[r].h = a

OwnsWhenBusy ==
  /\ pc = "idle" => \A r \in Results : ~B!Owns(res[r])
  /\ pc # "idle" => \E r \in Results :
       /\ B!Owns(res[r]) /\ res[r].h \in Addr
       /\ heap[res[r].h].rows = Len(table.rows)
       /\ heap[res[r].h].cols = Len(table.names)
       /\ pc = "failed" => heap[res[r].h].failed

\* What is printed: nothing, some rows of the table, all the loop printed
\* with the ending, or a message.
OutShows ==
  /\ pc \in {"idle", "failed", "done"} => out = <<>> /\ row = 0
  /\ pc = "rows" =>
       select /\ table.names # <<>> /\ out = Lines(layout, table, row)
  /\ pc = "close" =>
       \/ /\ row = 0
          /\ \E m \in {"message", "OK", "(no result columns)"} : out = Message(m)
       \/ /\ select /\ table.names # <<>>
          /\ out = Lines(layout, table, row) \o Ending(layout, table)

IInv ==
  /\ TypeOK
  /\ heap \in [Addr -> B!Object] /\ res \in [Results -> ResultVar]
  /\ ResultOwned /\ OwnsWhenBusy /\ OutShows
-----------------------------------------------------------------------------
(***************************************************************************)
(* Objects and counts.                                                     *)
(***************************************************************************)
\* A new object is an object of its kind.
LEMMA NewObject ==
  /\ B!Free \in B!Object /\ B!Free.kind = "free"
  /\ \A x \in B!Kinds : B!New(x) \in B!Object /\ B!New(x).kind = x
  <1>1. B!Free \in B!Object
    BY DEF B!Free, B!Object, B!Kinds
  <1>2. \A x \in B!Kinds : B!New(x) \in B!Object
    BY DEF B!New, B!Free, B!Object, B!Kinds
  <1>3. B!Free.kind = "free" /\ \A x \in B!Kinds : B!New(x).kind = x
    BY DEF B!New, B!Free
  <1> QED BY <1>1, <1>2, <1>3

\* The numbers of rows and columns of an object are counts.
LEMMA ObjectCounts ==
  ASSUME NEW o \in B!Object
  PROVE  o.rows \in Nat /\ o.cols \in Nat
  <1>1. o.rows \in Counts \cup {0} /\ o.cols \in Counts \cup {0}
    BY DEF B!Object
  <1>2. \A n \in Counts \cup {0} : n \in Nat
    BY CountsAssumption
  <1> QED BY <1>1, <1>2, Zenon

\* Between statements nothing of a result is kept.
LEMMA NothingToPrint ==
  NoTable \in Tables /\ 0 \in 0 .. Len(NoTable.rows)
  <1>1. NoTable.rows = <<>> /\ 0 \in 0 .. Len(<<>>)
    BY DEF NoTable
  <1>2. NoTable \in Tables
    BY TablesAssumption
  <1> QED BY <1>1, <1>2

\* Converting a count to a C int never enlarges it (duckdb.c:175-194).
LEMMA CountBelow ==
  ASSUME NEW n \in Nat
  PROVE  B!ToInt(n) \in Int /\ B!ToInt(n) <= n
  <1> DEFINE K == IntMax + 1
  <1>1. K \in Nat /\ K > 0
    BY CountsAssumption
  <1>2. n + K \in Nat /\ 2 * K \in Int /\ 2 * K > 0
    BY <1>1
  <1> HIDE DEF K
  <1>3. (n + K) % (2 * K) \in Int /\ (n + K) % (2 * K) <= n + K
    BY <1>2
  <1>4. ((n + K) % (2 * K)) - K \in Int /\ ((n + K) % (2 * K)) - K <= n
    BY <1>1, <1>3
  <1>5. B!ToInt(n) = ((n + K) % (2 * K)) - K
    BY CountsAssumption DEF B!ToInt, K
  <1> QED BY <1>4, <1>5
-----------------------------------------------------------------------------
(***************************************************************************)
(* IInv is an inductive invariant.                                         *)
(***************************************************************************)
LEMMA InitIInv == Init => IInv
  <1> SUFFICES ASSUME Init PROVE IInv
    OBVIOUS
  <1>1. heap \in [Addr -> B!Object] /\ \A a \in Addr : heap[a].kind = "free"
    BY NewObject DEF Init, B!Init
  <1>2. /\ res \in [Results -> ResultVar]
        /\ \A r \in Results : ~B!Owns(res[r])
    BY DEF Init, B!Init, B!ZeroResult, B!Owns, ResultVar, B!Errors
  <1>3. TypeOK
    BY NothingToPrint DEF Init, TypeOK, Layouts
  <1>4. OutShows
    BY DEF Init, OutShows
  <1> QED BY <1>1, <1>2, <1>3, <1>4 DEF IInv, ResultOwned, OwnsWhenBusy, Init

\* Connecting and closing make no result.
LEMMA ReconnectIInv ==
  ASSUME IInv, NEW c \in Conns, Reconnect(c)
  PROVE  IInv'
  <1> USE DEF IInv
  <1>1. pc = "idle" /\ UNCHANGED <<pc, printVars, res>>
    BY DEF Reconnect, B!Open, B!OpenFails, B!CloseConn
  <1>2. /\ heap' \in [Addr -> B!Object]
        /\ \A a \in Addr : heap'[a].kind = "result" => heap[a].kind = "result"
    <2>1. CASE B!Open(c)
      BY <2>1, NewObject DEF B!Open, B!Kinds
    <2>2. CASE B!OpenFails(c)
      BY <2>2 DEF B!OpenFails
    <2>3. CASE B!CloseConn(c)
      BY <2>3, NewObject DEF B!CloseConn, B!FreeAt
    <2> QED BY <2>1, <2>2, <2>3 DEF Reconnect
  <1>3. TypeOK' /\ OutShows'
    BY <1>1 DEF TypeOK, OutShows, printVars
  <1> QED BY <1>1, <1>2, <1>3 DEF ResultOwned, OwnsWhenBusy

\* A query on an open connection makes one result, and the variable owns it.
LEMMA QueryIInv ==
  ASSUME IInv, NEW c \in Conns, NEW r \in Results, NEW l \in Layouts,
         Query(c, r, l)
  PROVE  IInv'
  <1> USE DEF IInv
  <1>1. PICK a \in B!FreeAddr, n \in Counts, m \in Counts, failed \in BOOLEAN :
          /\ failed => n = 0 /\ m = 0
          /\ heap' = [heap EXCEPT ![a] = [B!New("result") EXCEPT
                        !.rows = n, !.cols = m, !.failed = failed]]
          /\ res' = [res EXCEPT ![r] = [B!ZeroResult EXCEPT !.open = TRUE,
                        !.h = a, !.err = IF failed THEN "ErrQuery" ELSE "nil"]]
    <2>1. B!Fill(r, "ErrQuery")
      BY DEF Query, B!Query
    <2> QED BY <2>1, Zenon DEF B!Fill
  <1>2. [B!New("result") EXCEPT !.rows = n, !.cols = m, !.failed = failed]
          \in B!Object
    BY DEF B!New, B!Free, B!Object, B!Kinds
  <1>3. /\ a \in Addr /\ heap' \in [Addr -> B!Object]
        /\ \A x \in Addr : x # a => heap'[x] = heap[x]
    BY <1>1, <1>2 DEF B!FreeAddr
  <1>4. /\ res' \in [Results -> ResultVar]
        /\ B!Owns(res'[r]) /\ res'[r].h = a
        /\ \A q \in Results : q # r => res'[q] = res[q]
    BY <1>1, <1>3 DEF B!ZeroResult, B!Owns, ResultVar, B!Errors
  <1>5. ~B!Owns(res[r])
    BY DEF Query, B!Query
  <1>6. ResultOwned'
    <2> SUFFICES ASSUME NEW x \in Addr, heap'[x].kind = "result"
                 PROVE  \E q \in Results : B!Owns(res'[q]) /\ res'[q].h = x
      BY DEF ResultOwned
    <2>1. CASE x = a
      BY <1>4, <2>1
    <2>2. CASE x # a
      <3>1. PICK q \in Results : B!Owns(res[q]) /\ res[q].h = x
        BY <1>3, <2>2 DEF ResultOwned
      <3>2. q # r
        BY <1>5, <3>1
      <3> QED BY <1>4, <3>1, <3>2
    <2> QED BY <2>1, <2>2
  <1>7. /\ table' \in Tables /\ Len(table'.rows) = heap'[res'[r].h].rows
        /\ Len(table'.names) = heap'[res'[r].h].cols
        /\ pc' \in {"failed", "done"} /\ layout' = l /\ row' = 0
        /\ select' \in BOOLEAN /\ out' = <<>>
        /\ pc' = "failed" => heap'[res'[r].h].failed
    BY DEF Query, GoTo
  <1>8. heap'[res'[r].h].rows \in Nat
    <2>1. heap'[a] \in B!Object
      BY <1>3
    <2> QED BY <1>4, <2>1, ObjectCounts
  <1>9. OwnsWhenBusy'
    BY <1>3, <1>4, <1>7 DEF OwnsWhenBusy
  <1>10. TypeOK'
    BY <1>7, <1>8 DEF TypeOK
  <1>11. OutShows'
    BY <1>7 DEF OutShows
  <1> QED BY <1>3, <1>4, <1>6, <1>9, <1>10, <1>11

\* While a statement runs, its result has the rows and columns of the table,
\* and the C ints that are read for them are no larger.
LEMMA Reading ==
  ASSUME IInv, NEW r \in Results, pc # "idle"
  PROVE  /\ B!RowCount(r) \in Int /\ B!RowCount(r) <= Len(table.rows)
         /\ B!ColumnCount(r) \in Int /\ B!ColumnCount(r) <= Len(table.names)
         /\ Len(table.rows) \in Nat /\ Len(table.names) \in Nat
         /\ pc = "failed" => B!ErrorText(r)
  <1> USE DEF IInv
  <1>1. /\ res[r].h \in Addr /\ B!Owns(res[r])
        /\ heap[res[r].h].rows = Len(table.rows)
        /\ heap[res[r].h].cols = Len(table.names)
        /\ pc = "failed" => heap[res[r].h].failed
    BY OneResult DEF OwnsWhenBusy
  <1>2. heap[res[r].h] \in B!Object
    BY <1>1
  <1>3. Len(table.rows) \in Nat /\ Len(table.names) \in Nat
    BY <1>1, <1>2, ObjectCounts
  <1>4. res[r].open
    BY <1>1 DEF B!Owns
  <1>5. /\ B!RowCount(r) = B!ToInt(Len(table.rows))
        /\ B!ColumnCount(r) = B!ToInt(Len(table.names))
    BY <1>1, <1>4 DEF B!RowCount, B!ColumnCount
  <1>6. pc = "failed" => B!ErrorText(r)
    BY <1>1, <1>4 DEF B!ErrorText
  <1> QED BY <1>3, <1>5, <1>6, CountBelow

\* The messages leave the result alone.
LEMMA MessageIInv ==
  ASSUME IInv, NEW r \in Results, ShowError(r) \/ ShowChanges(r) \/ NoColumns(r)
  PROVE  IInv'
  <1> USE DEF IInv
  <1>1. /\ UNCHANGED <<heap, res, table, layout, select, row>>
        /\ pc \in {"failed", "done"} /\ pc' = "close"
    BY DEF ShowError, ShowChanges, NoColumns, GoTo, B!ReadResult
  <1>2. \E m \in {"message", "OK", "(no result columns)"} : out' = Message(m)
    <2>1. CASE ShowError(r)
      <3>1. B!ErrorText(r)
        BY <2>1, Reading DEF ShowError
      <3> QED BY <2>1, <3>1 DEF ShowError
    <2>2. CASE ShowChanges(r)
      BY <2>2 DEF ShowChanges
    <2>3. CASE NoColumns(r)
      BY <2>3 DEF NoColumns
    <2> QED BY <2>1, <2>2, <2>3
  <1>3. TypeOK'
    BY <1>1 DEF TypeOK
  <1>4. OutShows'
    BY <1>1, <1>2 DEF OutShows
  <1> QED BY <1>1, <1>3, <1>4 DEF ResultOwned, OwnsWhenBusy

\* The heading is printed for a result with columns only.
LEMMA HeadingIInv ==
  ASSUME IInv, NEW r \in Results, PrintHeading(r)
  PROVE  IInv'
  <1> USE DEF IInv
  <1>1. /\ UNCHANGED <<heap, res, table, layout, select, row>>
        /\ pc = "done" /\ select /\ pc' = "rows" /\ out' = Heading(layout, table)
    BY DEF PrintHeading, GoTo, B!ReadColumn
  <1>2. table.names # <<>>
    <2>1. PICK col \in 0 .. B!ColumnCount(r) - 1 : TRUE
      BY DEF PrintHeading
    <2>2. B!ColumnCount(r) \in Int /\ B!ColumnCount(r) <= Len(table.names)
          /\ Len(table.names) \in Nat
      BY <1>1, Reading
    <2>3. Len(table.names) > 0
      BY <2>1, <2>2
    <2>4. Len(<<>>) = 0
      OBVIOUS
    <2> QED BY <2>3, <2>4
  <1>3. out' = Lines(layout, table, row)
    <2>1. row = 0 /\ layout \in PrintModes
      BY <1>1 DEF OutShows, TypeOK, Layouts, PrintModes
    <2> QED BY <1>1, <2>1, NoLines
  <1>4. TypeOK'
    BY <1>1 DEF TypeOK
  <1>5. OutShows'
    BY <1>1, <1>2, <1>3 DEF OutShows
  <1> QED BY <1>1, <1>4, <1>5 DEF ResultOwned, OwnsWhenBusy

\* A row that is printed is one of the result's.
LEMMA RowIInv ==
  ASSUME IInv, NEW r \in Results, PrintRow(r)
  PROVE  IInv'
  <1> USE DEF IInv
  <1>1. /\ UNCHANGED <<heap, res, table, layout, select>>
        /\ pc = "rows" /\ pc' = "rows" /\ row' = row + 1
        /\ row < B!RowCount(r)
        /\ out' = Append(out, RowLine(layout, table, row + 1))
    BY DEF PrintRow, B!ReadCell
  <1>2. row \in Nat /\ row' \in 0 .. Len(table.rows)
    <2>1. B!RowCount(r) \in Int /\ B!RowCount(r) <= Len(table.rows)
          /\ Len(table.rows) \in Nat
      BY <1>1, Reading
    <2> QED BY <1>1, <2>1 DEF TypeOK
  <1>3. out' = Lines(layout, table, row')
    <2>1. layout \in PrintModes /\ out = Lines(layout, table, row)
      BY <1>1 DEF OutShows, TypeOK, Layouts, PrintModes
    <2>2. Append(Lines(layout, table, row), RowLine(layout, table, row')) =
            Lines(layout, table, row')
      BY <1>1, <1>2, <2>1, LinesNext
    <2> QED BY <1>1, <2>1, <2>2
  <1>4. TypeOK'
    BY <1>1, <1>2 DEF TypeOK
  <1>5. OutShows'
    BY <1>1, <1>3 DEF OutShows
  <1> QED BY <1>1, <1>4, <1>5 DEF ResultOwned, OwnsWhenBusy

\* printResult: what is left after the rows (main.go:846, 908).
LEMMA EndingIInv ==
  ASSUME IInv, NEW r \in Results, PrintEnding(r)
  PROVE  IInv'
  <1> USE DEF IInv
  <1>1. /\ UNCHANGED <<heap, res, table, layout, select, row>>
        /\ pc = "rows" /\ pc' = "close" /\ out' = out \o Ending(layout, table)
    BY DEF PrintEnding, GoTo, bindingVars
  <1>2. TypeOK'
    BY <1>1 DEF TypeOK
  <1>3. OutShows'
    BY <1>1 DEF OutShows
  <1> QED BY <1>1, <1>2, <1>3 DEF ResultOwned, OwnsWhenBusy

\* The close at the end of runSQL frees the one result there is.
LEMMA CloseIInv ==
  ASSUME IInv, NEW r \in Results, Close(r)
  PROVE  IInv'
  <1> USE DEF IInv
  <1>1. B!Owns(res[r]) /\ res[r].h \in Addr
    BY OneResult DEF Close, OwnsWhenBusy
  <1>2. /\ heap' = [a \in Addr |-> IF a = res[r].h THEN B!Free ELSE heap[a]]
        /\ res' = [res EXCEPT ![r].closed = TRUE, ![r].open = FALSE]
    BY <1>1 DEF Close, B!CloseResult, B!FreeAt, B!Owns
  <1>3. heap' \in [Addr -> B!Object]
    BY <1>2, NewObject
  <1>4. res' \in [Results -> ResultVar] /\ ~B!Owns(res'[r])
    BY <1>2 DEF ResultVar, B!Owns
  <1>5. \A a \in Addr : heap'[a].kind # "result"
    BY <1>2, NewObject, OneResult DEF ResultOwned
  <1>6. /\ pc' = "idle" /\ layout' = "duckbox" /\ select' = FALSE
        /\ table' = NoTable /\ row' = 0 /\ out' = <<>>
    BY DEF Close, GoTo
  <1>7. TypeOK'
    BY <1>6, NothingToPrint DEF TypeOK, Layouts
  <1>8. OwnsWhenBusy'
    BY <1>4, <1>6, OneResult DEF OwnsWhenBusy
  <1>9. OutShows'
    BY <1>6 DEF OutShows
  <1> QED BY <1>3, <1>4, <1>5, <1>7, <1>8, <1>9 DEF ResultOwned

\* The invariant is inductive: one lemma per kind of call.
LEMMA NextIInv == IInv /\ [Next]_vars => IInv'
  <1> SUFFICES ASSUME IInv, [Next]_vars PROVE IInv'
    OBVIOUS
  <1>1. CASE UNCHANGED vars
    BY <1>1 DEF IInv, TypeOK, ResultOwned, OwnsWhenBusy, OutShows, vars,
                bindingVars, printVars
  <1>2. ASSUME NEW r \in Results, RunResult(r) PROVE IInv'
    BY <1>2, MessageIInv, HeadingIInv, RowIInv, EndingIInv, CloseIInv DEF RunResult
  <1> QED BY <1>1, <1>2, ReconnectIInv, QueryIInv DEF Next

\* In every reachable state of runSQL the result is owned as long as it is
\* needed, and what was printed is what the loop has come to.
THEOREM Invariance == Spec => []IInv
  BY InitIInv, NextIInv, PTL DEF Spec

\* No row is printed that the result does not have, however many rows a
\* result has: counts only shrink when they become a C int (main.go:615-637).
THEOREM TypeCorrect == Spec => []TypeOK
  <1>1. IInv => TypeOK
    BY DEF IInv
  <1> QED BY <1>1, Invariance, PTL

\* Between statements DuckDB holds no result: every path through runSQL has
\* closed it (main.go:583-612).
THEOREM ResultsReleased == Spec => []Released
  <1>1. IInv => Released
    BY DEF IInv, ResultOwned, OwnsWhenBusy, Released
  <1> QED BY <1>1, Invariance, PTL
-----------------------------------------------------------------------------
(***************************************************************************)
(* What is printed of a result.                                            *)
(***************************************************************************)
LEMMA TableTyped ==
  ASSUME NEW t \in Tables
  PROVE  TableOver(STRING, t) /\ Numbered(t)
  <1>1. TableOver(STRING, t)
    BY TablesAssumption, TabularOver
  <1>2. DOMAIN t.rows = 1 .. Len(t.rows)
    BY <1>1 DEF TableOver
  <1>3. Numbered(t)
    BY <1>2, NumbersAssumption DEF Numbered
  <1> QED BY <1>1, <1>3

\* What the invariant says of the layout, the table and the printed rows.
LEMMA ModeKnown ==
  ASSUME IInv
  PROVE  layout \in PrintModes /\ table \in Tables /\ row \in Nat
         /\ row \in 0 .. Len(table.rows) /\ \A r \in 1 .. row : r \in 1 .. Len(table.rows)
  <1>1. layout \in PrintModes /\ table \in Tables /\ row \in 0 .. Len(table.rows)
    BY DEF IInv, TypeOK, Layouts, PrintModes
  <1>2. Len(table.rows) \in Nat
    BY <1>1, TableTyped DEF TableOver
  <1> QED BY <1>1, <1>2

\* A finished table: its lines, and the ending.
LEMMA Finished ==
  ASSUME NEW l \in PrintModes, NEW t, NEW n \in Nat
  PROVE  LET w == Lines(l, t, n) \o Ending(l, t)
             k == Len(Heading(l, t))
         IN  /\ Len(Ending(l, t)) \in Nat
             /\ DOMAIN w = 1 .. (k + n) + Len(Ending(l, t))
             /\ \A i \in 1 .. k + n : w[i] = Lines(l, t, n)[i]
             /\ \A i \in 1 .. Len(Ending(l, t)) : w[(k + n) + i] = Ending(l, t)[i]
  <1> DEFINE u == Lines(l, t, n)
             v == Ending(l, t)
             k == Len(Heading(l, t))
             w == u \o v
  <1>1. Row(u, k + n) /\ Row(v, Len(v)) /\ Len(u) = k + n
    BY LinesOf, EndingRow
  <1>2. Joined(u, v, w) /\ Len(v) \in Nat
    BY <1>1, ConcatJoined, RowOver
  <1> HIDE DEF u, v, k, w
  <1>3. /\ Len(v) \in Nat /\ DOMAIN w = 1 .. (k + n) + Len(v)
        /\ \A i \in 1 .. k + n : w[i] = u[i]
        /\ \A i \in 1 .. Len(v) : w[(k + n) + i] = v[i]
    BY <1>1, <1>2 DEF Joined
  <1> QED BY <1>3 DEF u, v, k, w

\* The n-th row of the result is the n-th line after the heading.
LEMMA LineOfRow ==
  ASSUME IInv, IsTable, NEW r \in 1 .. row
  PROVE  LineOf(r) = RowLine(layout, table, r) /\ r \in 1 .. Len(table.rows)
  <1> DEFINE k == Len(Heading(layout, table))
             u == Lines(layout, table, row)
  <1>1. layout \in PrintModes /\ row \in Nat /\ r \in 1 .. Len(table.rows) /\ row # 0
    BY ModeKnown
  <1>2. k \in Nat /\ u[k + r] = RowLine(layout, table, r)
    BY <1>1, LinesOf
  <1>3. \A i \in 1 .. k + row : (u \o Ending(layout, table))[i] = u[i]
    BY <1>1, Finished
  <1>4. out \in {u, u \o Ending(layout, table)}
    BY <1>1 DEF IInv, OutShows, IsTable
  <1>5. LineOf(r) = out[k + r]
    BY DEF LineOf, Lead
  <1> HIDE DEF k, u
  <1>6. k + r \in 1 .. k + row
    BY <1>1, <1>2
  <1>7. out[k + r] = u[k + r]
    BY <1>3, <1>4, <1>6
  <1> QED BY <1>1, <1>2, <1>5, <1>7

\* The line of a row is RowLine of it, whose fields RowWhole is about.
LEMMA FittingWholeStep == IInv => FittingWhole
  <1> SUFFICES ASSUME IInv, IsTable, layout \in {"duckbox", "ascii", "markdown"},
                      NEW r \in 1 .. row, NEW c \in Columns(table),
                      Len(Cell(table, r, c)) <= Cap
               PROVE  LineOf(r)[c].text = Cell(table, r, c)
    BY DEF FittingWhole
  <1>1. LineOf(r) = RowLine(layout, table, r) /\ r \in 1 .. Len(table.rows)
    BY LineOfRow
  <1>2. TableOver(STRING, table)
    BY ModeKnown, TableTyped
  <1> QED BY <1>1, <1>2, RowWhole

\* The line of a row is JsonRow of it, and the results with the same names
\* are tables JsonRowReadable applies to.
LEMMA JsonReadableStep == IInv => JsonReadable
  <1> SUFFICES ASSUME IInv, IsTable, layout = "json", NEW r \in 1 .. row,
                      NEW t \in Peers, r \in DOMAIN t.rows,
                      Printed(LineOf(r)) = Printed(JsonRow(t, r)),
                      NEW c \in Columns(table)
               PROVE  /\ t.rows[r][c].null <=> table.rows[r][c].null
                      /\ Cell(t, r, c) = Cell(table, r, c)
    BY DEF JsonReadable
  <1>1. LineOf(r) = RowLine(layout, table, r) /\ r \in 1 .. Len(table.rows)
    BY LineOfRow
  <1>2. RowLine(layout, table, r) = JsonRow(table, r)
    BY DEF RowLine
  <1>3. t \in Tables /\ t.names = table.names
    BY DEF Peers
  <1>4. /\ TableOver(STRING, table) /\ Numbered(table)
        /\ TableOver(STRING, t) /\ Numbered(t)
    BY <1>3, ModeKnown, TableTyped
  <1>5. r \in 1 .. Len(t.rows)
    BY <1>4 DEF TableOver
  <1>6. Printed(JsonRow(table, r)) = Printed(JsonRow(t, r))
    BY <1>1, <1>2
  <1>7. (IsNull(table, r, c) <=> IsNull(t, r, c)) /\ Cell(table, r, c) = Cell(t, r, c)
    BY <1>1, <1>3, <1>4, <1>5, <1>6, JsonRowReadable
  <1> QED BY <1>7 DEF IsNull

\* The fields of the line of a row are those CsvFieldReadable is about, and
\* the texts of all tables are texts over strings.
LEMMA CsvReadableStep == IInv => CsvFieldsReadable
  <1> SUFFICES ASSUME IInv, IsTable, layout = "csv", NEW r \in 1 .. row,
                      NEW c \in Columns(table)
               PROVE  LET f == LineOf(r)[c].text IN
                      /\ \A s \in AllTexts : csvEscape(s) = f => s = Cell(table, r, c)
                      /\ HasAny(f, {Comma, Break, Quote}) =>
                           f[1] = Quote /\ \A j \in DOMAIN f : Closes(f, j) <=> j = Len(f)
    BY DEF CsvFieldsReadable
  <1> DEFINE f == RowLine("csv", table, r)[c].text
  <1>1. LineOf(r) = RowLine("csv", table, r) /\ r \in 1 .. Len(table.rows)
    BY LineOfRow
  <1>2. TableOver(STRING, table)
    BY ModeKnown, TableTyped
  <1>3. /\ \A s \in Seq(JsonLetters(STRING)) : csvEscape(s) = f => s = Cell(table, r, c)
        /\ HasAny(f, {Comma, Break, Quote}) =>
             f[1] = Quote /\ \A j \in DOMAIN f : Closes(f, j) <=> j = Len(f)
    <2>1. ReadBack(JsonLetters(STRING), f, Cell(table, r, c))
      BY <1>1, <1>2, CsvFieldReadable
    <2> HIDE DEF f
    <2> QED BY <2>1 DEF ReadBack
  <1>4. ASSUME NEW s \in AllTexts PROVE s \in Seq(JsonLetters(STRING))
    <2> DEFINE TextsOf(t) == {Cell(t, q, d) : q \in DOMAIN t.rows, d \in Columns(t)}
    <2>0. s \in UNION {TextsOf(t) : t \in Tables}
      BY <1>4 DEF AllTexts
    <2> HIDE DEF TextsOf
    <2>1. PICK t \in Tables : s \in TextsOf(t)
      BY <2>0
    <2>4. PICK q \in DOMAIN t.rows, d \in Columns(t) : s = Cell(t, q, d)
      BY <2>1 DEF TextsOf
    <2>2. TableOver(STRING, t)
      BY TableTyped
    <2>3. q \in 1 .. Len(t.rows)
      BY <2>2 DEF TableOver
    <2> QED BY <2>2, <2>3, <2>4, CellLetters
  <1>5. LineOf(r)[c].text = f
    BY <1>1
  <1> HIDE DEF f
  <1> QED BY <1>3, <1>4, <1>5

\* The lines that were printed are numbered from 1.
LEMMA OutDomain ==
  ASSUME IInv, IsTable
  PROVE  \E n \in Nat : DOMAIN out = 1 .. n
  <1> DEFINE k == Len(Heading(layout, table))
             u == Lines(layout, table, row)
             v == Ending(layout, table)
  <1>1. layout \in PrintModes /\ row \in Nat
    BY ModeKnown
  <1>2. k \in Nat /\ Row(u, k + row)
    BY <1>1, LinesOf
  <1>3. Len(v) \in Nat /\ DOMAIN (u \o v) = 1 .. (k + row) + Len(v)
    BY <1>1, Finished
  <1>4. \/ out \in {u, u \o v}
        \/ \E m : out = Message(m)
    BY DEF IInv, OutShows, IsTable
  <1>5. \A m : DOMAIN Message(m) = 1 .. 1
    BY DEF Message
  <1> HIDE DEF k, u, v
  <1>6. DOMAIN u = 1 .. k + row /\ k + row \in Nat /\ (k + row) + Len(v) \in Nat
    BY <1>1, <1>2, <1>3 DEF Row
  <1>7. CASE out = u
    BY <1>6, <1>7
  <1>8. CASE out = u \o v
    BY <1>3, <1>6, <1>8
  <1>9. CASE \E m : out = Message(m)
    BY <1>5, <1>9
  <1> QED BY <1>4, <1>7, <1>8, <1>9

\* Every line of a duckbox or ascii table has fields as wide as its columns.
LEMMA LinesRuled ==
  ASSUME IInv, IsTable, layout \in {"duckbox", "ascii"}, Len(out) # 1
  PROVE  \A i \in DOMAIN out : 1 \in DOMAIN out /\ Ruled(out[i], layout, table)
  <1> DEFINE k == Len(Heading(layout, table))
             h == Heading(layout, table)
             u == Lines(layout, table, row)
             v == Ending(layout, table)
             w == u \o v
             Good(x) == Ruled(x, layout, table)
  <1>1. layout \in PrintModes /\ row \in Nat /\ table \in Tables
        /\ \A r \in 1 .. row : r \in 1 .. Len(table.rows)
    BY ModeKnown
  <1>2. /\ k \in Nat /\ Row(u, k + row) /\ \A i \in 1 .. k : u[i] = h[i]
        /\ \A r \in 1 .. row : u[k + r] = RowLine(layout, table, r)
    BY <1>1, LinesOf
  <1>3. TableOver(STRING, table)
    BY <1>1, TableTyped
  <1>4. /\ \A i \in 1 .. k : Good(h[i])
        /\ \A r \in 1 .. Len(table.rows) : Good(RowLine(layout, table, r))
        /\ \A i \in 1 .. Len(v) : Good(v[i])
    BY <1>3, TableRuled
  <1>5. /\ Len(v) \in Nat /\ DOMAIN w = 1 .. (k + row) + Len(v)
        /\ \A i \in 1 .. k + row : w[i] = u[i]
        /\ \A i \in 1 .. Len(v) : w[(k + row) + i] = v[i]
    BY <1>1, Finished
  <1>6. out \in {u, w}
    <2>1. \A m : Len(Message(m)) = 1
      BY DEF Message
    <2> QED BY <2>1 DEF IInv, OutShows, IsTable
  <1>7. \A r \in 1 .. row : Good(u[k + r])
    BY <1>1, <1>2, <1>4
  <1>8. DOMAIN u = 1 .. k + row
    BY <1>2 DEF Row
  <1> HIDE DEF k, h, u, v, w, Good
  <1>9. ASSUME NEW i \in 1 .. k + row PROVE Good(u[i])
    <2>1. CASE i <= k
      <3>1. i \in 1 .. k
        BY <1>1, <1>2, <2>1
      <3> QED BY <1>2, <1>4, <3>1
    <2>2. CASE i > k
      <3>1. i - k \in 1 .. row /\ k + (i - k) = i
        BY <1>1, <1>2, <2>2
      <3> QED BY <1>7, <3>1
    <2> QED BY <1>1, <1>2, <2>1, <2>2
  <1>10. ASSUME NEW i \in 1 .. (k + row) + Len(v) PROVE Good(w[i])
    <2>1. CASE i <= k + row
      <3>1. i \in 1 .. k + row
        BY <1>1, <1>2, <2>1
      <3> QED BY <1>5, <1>9, <3>1
    <2>2. CASE i > k + row
      <3>1. i - (k + row) \in 1 .. Len(v) /\ (k + row) + (i - (k + row)) = i
        BY <1>1, <1>2, <1>5, <2>2
      <3> QED BY <1>4, <1>5, <3>1
    <2> QED BY <1>1, <1>2, <2>1, <2>2
  <1>11. \A i \in DOMAIN out : Good(out[i])
    BY <1>5, <1>6, <1>8, <1>9, <1>10
  <1>12. \E n \in Nat : DOMAIN out = 1 .. n
    BY OutDomain
  <1>13. \A i \in DOMAIN out : 1 \in DOMAIN out
    BY <1>12
  <1> QED BY <1>11, <1>13 DEF Good

\* Every line that was printed is ruled for the table.
LEMMA AlignedStep == IInv => Aligned
  <1> SUFFICES ASSUME IInv, IsTable, layout \in {"duckbox", "ascii"},
                      NEW i \in DOMAIN out
               PROVE  /\ DOMAIN out[i] = DOMAIN out[1]
                      /\ \A c \in DOMAIN out[1] : Width(out[i][c]) = Width(out[1][c])
    BY DEF Aligned
  <1>1. CASE Len(out) # 1
    <2>1. Ruled(out[i], layout, table) /\ Ruled(out[1], layout, table)
      BY <1>1, LinesRuled
    <2>2. Len(table.names) \in Nat
      BY ModeKnown, TableTyped DEF TableOver
    <2> DEFINE x == out[i]
               y == out[1]
    <2> HIDE DEF x, y
    <2>3. Ruled(x, layout, table) /\ Ruled(y, layout, table)
      BY <2>1 DEF x, y
    <2>4. DOMAIN x = DOMAIN y /\ \A c \in DOMAIN y : Width(x[c]) = Width(y[c])
      BY <2>2, <2>3, RuledAlike
    <2> QED BY <2>4 DEF x, y
  <1>2. CASE Len(out) = 1
    <2>1. i = 1
      <3>1. layout \in PrintModes /\ row \in Nat
        BY ModeKnown
      <3>2. \E n \in Nat : DOMAIN out = 1 .. n
        BY <3>1, OutDomain
      <3> QED BY <1>2, <3>2
    <2> QED BY <2>1
  <1> QED BY <1>1, <1>2

\* No message that is ever printed is the fallback, and no table is.
LEMMA ErrorExplainedStep == IInv => ErrorExplained
  <1> SUFFICES ASSUME IInv, ~IsTable PROVE out # Message("query failed")
    BY DEF ErrorExplained
  <1>1. ASSUME NEW m, NEW n, Message(m) = Message(n) PROVE m = n
    <2>1. \A x : Message(x)[1][1].text[1] = x
      BY DEF Message, Plain, Field
    <2> QED BY <1>1, <2>1
  <1>2. pc \in {"idle", "failed", "done", "rows", "close"}
    BY DEF IInv, TypeOK
  <1>3. out = <<>> \/ \E m \in {"message", "OK", "(no result columns)"} : out = Message(m)
    BY <1>2 DEF IInv, OutShows, IsTable
  <1>4. Message("query failed") # <<>>
    BY DEF Message
  <1> QED BY <1>1, <1>3, <1>4

\* A failed query always shows DuckDB's message, never the fallback: the
\* result of the failed call is open, and holds the error, until the end of
\* runSQL (main.go:585-589).
THEOREM ErrorsExplained == Spec => []ErrorExplained
  BY ErrorExplainedStep, Invariance, PTL

\* In every line of a duckbox or ascii table, whatever its names and values, a
\* column is as wide as in the first line (main.go:640-702, 740-847,
\* 1012-1065).
THEOREM ColumnsAligned == Spec => []Aligned
  BY AlignedStep, Invariance, PTL

\* A value that fits into the widest column is printed whole, in its row and
\* its column, in every layout that cuts values (main.go:34-96, 1088-1169).
THEOREM ValuesWhole == Spec => []FittingWhole
  BY FittingWholeStep, Invariance, PTL

\* Every csv field that is printed can be read back, whatever the value
\* (main.go:1080-1086).
THEOREM CsvRead == Spec => []CsvFieldsReadable
  BY CsvReadableStep, Invariance, PTL

\* Every json row that is printed can be read back, whatever its names, types
\* and values (main.go:881-973).
THEOREM JsonRead == Spec => []JsonReadable
  BY JsonReadableStep, Invariance, PTL
=============================================================================
