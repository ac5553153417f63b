------------------------------ MODULE Binding ------------------------------
(***************************************************************************)
(* The DuckDB binding: the Go wrappers of duckdb/duckdb.go over the C shim *)
(* of duckdb/duckdb.c.  A wrapper (Conn, Stmt, Result) has two flags: the  *)
(* Go field closed, and the C field open beside the native handle.  Some   *)
(* operations test both, some one of them, the value accessors neither.    *)
(*                                                                         *)
(* The client is any program that calls the binding in any order on its    *)
(* variables, at one time, and obeys the one rule the package states: a    *)
(* variable that owns something is closed before it is assigned again.     *)
(* It may call a wrapper before it is opened, after it is closed, after a  *)
(* failed call, and close it twice.                                        *)
(*                                                                         *)
(* DuckDB itself is external: a heap of objects at addresses that are used *)
(* again once they are free, so a stale handle may name an object of       *)
(* another owner or of another kind.                                       *)
(***************************************************************************)
EXTENDS Integers

CONSTANTS
  Addr,      \* addresses DuckDB has for its objects
  NULL,      \* the null pointer
  Conns, Stmts, Results,  \* the client's variables of each wrapper type
  Counts,    \* numbers of rows or columns a result may have
  Indices,   \* row, column and parameter indices the client may pass
  Params,    \* number of parameters of a prepared statement
  IntMax,    \* greatest C int, 2^31 - 1 in the build
  MaxRow     \* bound: the greatest row an iterator is advanced to

ASSUME AddressAssumption == NULL \notin Addr
ASSUME NumberAssumption ==
  /\ Counts \subseteq Nat /\ Indices \subseteq Int
  /\ Params \in Nat /\ IntMax \in Nat /\ MaxRow \in Nat

Kinds == {"free", "database", "connection", "statement", "result", "type"}

\* What DuckDB keeps of an object: the shape of a result and whether it is
\* an error, and the parameters that are bound of a statement.
Object == [kind : Kinds, rows : Counts \cup {0}, cols : Counts \cup {0},
           failed : BOOLEAN, bound : SUBSET (1 .. Params)]
Free == [kind |-> "free", rows |-> 0, cols |-> 0, failed |-> FALSE,
         bound |-> {}]
New(kind) == [Free EXCEPT !.kind = kind]

\* The wrappers, as the zero values Conn{}, Stmt{} and Result{}.  err is the
\* error of the call that made a wrapper and asked the parameters that were
\* bound without one: both are history.
ZeroConn   == [closed |-> FALSE, open |-> FALSE, db |-> NULL, conn |-> NULL]
ZeroStmt   == [closed |-> FALSE, open |-> FALSE, h |-> NULL, err |-> "nil",
               asked |-> {}]
ZeroResult == [closed |-> FALSE, open |-> FALSE, h |-> NULL, err |-> "nil"]

Errors == {"nil", "ErrClosed", "ErrQuery", "ErrExec", "ErrPrepare"}

\* (int) of a 64-bit number: C keeps the low bits, as two's complement.
ToInt(n) == ((n + IntMax + 1) % (2 * (IntMax + 1))) - (IntMax + 1)
-----------------------------------------------------------------------------
VARIABLES
  heap,   \* DuckDB's objects
  conns, stmts, res,  \* the client's wrappers
  rows,   \* the client's iterator over one result
  ltype,  \* the client's logical type, or NULL
  stray   \* history: DuckDB was handed a dead or wrong handle or index

vars == <<heap, conns, stmts, res, rows, ltype, stray>>

\* got and done are history: the rows Next has announced, and that it has
\* announced the end; fresh: the result is the one Rows was called on.
NoRows == [on |-> NULL, row |-> -1, got |-> 0, done |-> FALSE, fresh |-> FALSE]

Init ==
  /\ heap = [a \in Addr |-> Free]
  /\ conns = [c \in Conns |-> ZeroConn]
  /\ stmts = [s \in Stmts |-> ZeroStmt]
  /\ res = [r \in Results |-> ZeroResult]
  /\ rows = NoRows /\ ltype = NULL
  /\ stray = FALSE

FreeAddr == {a \in Addr : heap[a].kind = "free"}

Names(a, kind) == a \in Addr /\ heap[a].kind = kind

\* The library is called with handles it expects to be of the given kinds.
Uses(handles) == stray' = (stray \/ \E u \in handles : ~Names(u.h, u.kind))
NoUse         == UNCHANGED stray

Handle(h, kind) == [h |-> h, kind |-> kind]
ConnHandle(c)   == Handle(conns[c].conn, "connection")
StmtHandle(s)   == Handle(stmts[s].h, "statement")
ResultHandle(r) == Handle(res[r].h, "result")

\* Freeing what lies at an address: at NULL there is nothing to free.
FreeAt(as) == [a \in Addr |-> IF a \in as THEN Free ELSE heap[a]]

\* A wrapper owns its object until it is closed.
Owns(w) == w.open /\ ~w.closed
-----------------------------------------------------------------------------
(***************************************************************************)
(* Conn.  Open and OpenInMemory differ in the path only.                   *)
(***************************************************************************)
Open(c) ==
  /\ ~Owns(conns[c])
  /\ \E d, k \in FreeAddr :
       /\ d # k
       /\ heap' = [heap EXCEPT ![d] = New("database"), ![k] = New("connection")]
       /\ conns' = [conns EXCEPT ![c] = [ZeroConn EXCEPT !.open = TRUE,
                                                         !.db = d, !.conn = k]]
  /\ NoUse
  /\ UNCHANGED <<stmts, res, rows, ltype>>

\* Mutant: duckdb_connect fails and the database is left open.
OpenFailsLeaking(c) ==
  /\ ~Owns(conns[c])
  /\ \E d \in FreeAddr : heap' = [heap EXCEPT ![d] = New("database")]
  /\ conns' = [conns EXCEPT ![c] = ZeroConn]
  /\ NoUse
  /\ UNCHANGED <<stmts, res, rows, ltype>>

\* duckdb_open fails, or duckdb_connect fails and the database is closed.
OpenFails(c) ==
  /\ ~Owns(conns[c])
  /\ conns' = [conns EXCEPT ![c] = ZeroConn]
  /\ NoUse
  /\ UNCHANGED <<heap, stmts, res, rows, ltype>>

\* Mutant: so_duckdb_close does not reset open.
CloseConnHalf(c) ==
  /\ ~conns[c].closed
  /\ conns' = [conns EXCEPT ![c].closed = TRUE]
  /\ IF conns[c].open
     THEN /\ Uses({ConnHandle(c), Handle(conns[c].db, "database")})
          /\ heap' = FreeAt({conns[c].conn, conns[c].db})
     ELSE NoUse /\ UNCHANGED heap
  /\ UNCHANGED <<stmts, res, rows, ltype>>

CloseConn(c) ==
  /\ ~conns[c].closed
  /\ conns' = [conns EXCEPT ![c].closed = TRUE, ![c].open = FALSE]
  /\ IF conns[c].open
     THEN /\ Uses({ConnHandle(c), Handle(conns[c].db, "database")})
          /\ heap' = FreeAt({conns[c].conn, conns[c].db})
     ELSE NoUse /\ UNCHANGED heap
  /\ UNCHANGED <<stmts, res, rows, ltype>>

\* Interrupt, and ExecSQL, which keeps no result whether it fails or not.
CallConn(c) ==
  /\ IF Owns(conns[c]) THEN Uses({ConnHandle(c)}) ELSE NoUse
  /\ UNCHANGED <<heap, conns, stmts, res, rows, ltype>>

(***************************************************************************)
(* Query, of Conn and of Stmt: the native call fills a result object also  *)
(* when it fails; a call refused by either flag fills none.                *)
(***************************************************************************)
\* Assigning a result under an iterator: the iterator is not of it.
Stale(r) == rows' = IF rows.on = r THEN [rows EXCEPT !.fresh = FALSE] ELSE rows

\* Mutant: so_duckdb_query sets open only when the query succeeds.
FillOnSuccess(r, err) ==
  \E a \in FreeAddr, n \in Counts, m \in Counts, failed \in BOOLEAN :
    /\ failed => n = 0 /\ m = 0
    /\ heap' = [heap EXCEPT ![a] = [New("result") EXCEPT
                  !.rows = n, !.cols = m, !.failed = failed]]
    /\ res' = [res EXCEPT ![r] = [ZeroResult EXCEPT
                  !.open = ~failed, !.h = a, !.err = IF failed THEN err ELSE "nil"]]

Fill(r, err) ==
  \E a \in FreeAddr, n \in Counts, m \in Counts, failed \in BOOLEAN :
    /\ failed => n = 0 /\ m = 0
    /\ heap' = [heap EXCEPT ![a] = [New("result") EXCEPT
                  !.rows = n, !.cols = m, !.failed = failed]]
    /\ res' = [res EXCEPT ![r] = [ZeroResult EXCEPT
                  !.open = TRUE, !.h = a, !.err = IF failed THEN err ELSE "nil"]]

Refuse(r, closed, err) ==
  /\ res' = [res EXCEPT ![r] = [ZeroResult EXCEPT
                !.err = IF closed THEN "ErrClosed" ELSE err]]
  /\ NoUse /\ UNCHANGED heap

Query(c, r) ==
  /\ ~Owns(res[r])
  /\ IF Owns(conns[c]) THEN Fill(r, "ErrQuery") /\ Uses({ConnHandle(c)})
                       ELSE Refuse(r, conns[c].closed, "ErrQuery")
  /\ Stale(r)
  /\ UNCHANGED <<conns, stmts, ltype>>

StmtQuery(s, r) ==
  /\ ~Owns(res[r])
  /\ IF Owns(stmts[s]) THEN Fill(r, "ErrExec") /\ Uses({StmtHandle(s)})
                       ELSE Refuse(r, stmts[s].closed, "ErrExec")
  /\ Stale(r)
  /\ UNCHANGED <<conns, stmts, ltype>>

\* Mutant: the result of a failed query is not closed.
ExecLeaking(w, handle) ==
  /\ IF Owns(w)
     THEN /\ \E a \in FreeAddr :
               heap' = [heap EXCEPT ![a] = [New("result") EXCEPT !.failed = TRUE]]
          /\ Uses({handle})
     ELSE NoUse /\ UNCHANGED heap
  /\ UNCHANGED <<conns, stmts, res, rows, ltype>>

\* Exec, of Conn and of Stmt: a query whose result is closed on every path.
Exec(w, handle) ==
  /\ IF Owns(w) THEN FreeAddr # {} /\ Uses({handle}) ELSE NoUse
  /\ UNCHANGED <<heap, conns, stmts, res, rows, ltype>>

(***************************************************************************)
(* Stmt.                                                                   *)
(***************************************************************************)
Prepare(c, s) ==
  /\ ~Owns(stmts[s]) /\ Owns(conns[c])
  /\ \E a \in FreeAddr :
       /\ heap' = [heap EXCEPT ![a] = New("statement")]
       /\ stmts' = [stmts EXCEPT ![s] = [ZeroStmt EXCEPT !.open = TRUE, !.h = a]]
  /\ Uses({ConnHandle(c)})
  /\ UNCHANGED <<conns, res, rows, ltype>>

\* duckdb_prepare makes a statement that holds the error when it fails; the
\* shim leaves open unset, and Prepare returns Stmt{}.
PrepareFails(c, s) ==
  /\ ~Owns(stmts[s]) /\ Owns(conns[c])
  /\ \E a \in FreeAddr :
       heap' = [heap EXCEPT ![a] = [New("statement") EXCEPT !.failed = TRUE]]
  /\ stmts' = [stmts EXCEPT ![s] = [ZeroStmt EXCEPT !.err = "ErrPrepare"]]
  /\ Uses({ConnHandle(c)})
  /\ UNCHANGED <<conns, res, rows, ltype>>

PrepareRefused(c, s) ==
  /\ ~Owns(stmts[s]) /\ ~Owns(conns[c])
  /\ stmts' = [stmts EXCEPT ![s] = [ZeroStmt EXCEPT
                 !.err = IF conns[c].closed THEN "ErrClosed" ELSE "ErrPrepare"]]
  /\ NoUse
  /\ UNCHANGED <<heap, conns, res, rows, ltype>>

CloseStmt(s) ==
  /\ ~stmts[s].closed
  /\ stmts' = [stmts EXCEPT ![s].closed = TRUE, ![s].open = FALSE]
  /\ IF stmts[s].open
     THEN Uses({StmtHandle(s)}) /\ heap' = FreeAt({stmts[s].h})
     ELSE NoUse /\ UNCHANGED heap
  /\ UNCHANGED <<conns, res, rows, ltype>>

\* PrepareError tests the flag of the shim only.
PrepareError(s) ==
  /\ IF stmts[s].open THEN Uses({StmtHandle(s)}) ELSE NoUse
  /\ UNCHANGED <<heap, conns, stmts, res, rows, ltype>>

\* Mutant: parameters are counted from 0.
BindFromZero(s, i) ==
  /\ Owns(stmts[s])
  /\ LET index == ToInt(i)
     IN IF index \in 0 .. Params
        THEN /\ heap' = [heap EXCEPT ![stmts[s].h].bound = @ \cup {index + 1}]
             /\ stmts' = [stmts EXCEPT ![s].asked = @ \cup {i}]
        ELSE UNCHANGED <<heap, stmts>>
  /\ Uses({StmtHandle(s)})
  /\ UNCHANGED <<conns, res, rows, ltype>>

\* Parameters are counted from 1: the shim refuses an index below that, and
\* DuckDB one beyond the last.
Bind(s, i) ==
  /\ Owns(stmts[s])
  /\ LET index == ToInt(i)
     IN IF index \in 1 .. Params
        THEN /\ heap' = [heap EXCEPT ![stmts[s].h].bound = @ \cup {index}]
             /\ stmts' = [stmts EXCEPT ![s].asked = @ \cup {i}]
        ELSE UNCHANGED <<heap, stmts>>
  /\ Uses({StmtHandle(s)})
  /\ UNCHANGED <<conns, res, rows, ltype>>

ClearBindings(s) ==
  /\ Owns(stmts[s])
  /\ heap' = [heap EXCEPT ![stmts[s].h].bound = {}]
  /\ stmts' = [stmts EXCEPT ![s].asked = {}]
  /\ Uses({StmtHandle(s)})
  /\ UNCHANGED <<conns, res, rows, ltype>>

(***************************************************************************)
(* Result.  The shim answers 0 for the counts of a result that is not      *)
(* open; every index is tested against these counts, in Go.                *)
(***************************************************************************)
RowCount(r)    == IF res[r].open THEN ToInt(heap[res[r].h].rows) ELSE 0
ColumnCount(r) == IF res[r].open THEN ToInt(heap[res[r].h].cols) ELSE 0

ErrorText(r) == res[r].open /\ heap[res[r].h].failed

\* Mutant: so_duckdb_result_close does not reset open.
CloseResultHalf(r) ==
  /\ ~res[r].closed
  /\ res' = [res EXCEPT ![r].closed = TRUE]
  /\ IF res[r].open
     THEN Uses({ResultHandle(r)}) /\ heap' = FreeAt({res[r].h})
     ELSE NoUse /\ UNCHANGED heap
  /\ Stale(r)
  /\ UNCHANGED <<conns, stmts, ltype>>

CloseResult(r) ==
  /\ ~res[r].closed
  /\ res' = [res EXCEPT ![r].closed = TRUE, ![r].open = FALSE]
  /\ IF res[r].open
     THEN Uses({ResultHandle(r)}) /\ heap' = FreeAt({res[r].h})
     ELSE NoUse /\ UNCHANGED heap
  /\ Stale(r)
  /\ UNCHANGED <<conns, stmts, ltype>>

\* Error, RowCount, RowsChanged and ColumnCount test the flag of the shim
\* only; ErrorType and StatementType test both.
ReadResult(r) ==
  /\ IF res[r].open THEN Uses({ResultHandle(r)}) ELSE NoUse
  /\ UNCHANGED <<heap, conns, stmts, res, rows, ltype>>

\* ColumnName, ColumnType, ColumnData and NullmaskData.
ReadColumn(r, col) ==
  /\ 0 <= col /\ col < ColumnCount(r)
  /\ stray' = (stray \/ ~Names(res[r].h, "result") \/ col >= heap[res[r].h].cols)
  /\ UNCHANGED <<heap, conns, stmts, res, rows, ltype>>

\* Mutant: the test of the row is off by one.
ReadPastEnd(r, row, col) ==
  /\ 0 <= row /\ row <= RowCount(r)
  /\ 0 <= col /\ col < ColumnCount(r)
  /\ stray' = (stray \/ ~Names(res[r].h, "result")
                     \/ row >= heap[res[r].h].rows \/ col >= heap[res[r].h].cols)

\* IsNull tests the indices; Bool, Int64, Float64 and StringCopy rely on it,
\* for their native accessors test nothing.
Read(r, row, col) ==
  /\ 0 <= row /\ row < RowCount(r)
  /\ 0 <= col /\ col < ColumnCount(r)
  /\ stray' = (stray \/ ~Names(res[r].h, "result")
                     \/ row >= heap[res[r].h].rows \/ col >= heap[res[r].h].cols)

ReadCell(r, row, col) ==
  /\ Read(r, row, col)
  /\ UNCHANGED <<heap, conns, stmts, res, rows, ltype>>

\* A logical type is the client's to destroy, once.
ColumnLogicalType(r, col) ==
  /\ ltype = NULL
  /\ ~res[r].closed /\ 0 <= col /\ col < ColumnCount(r)
  /\ \E a \in FreeAddr : /\ heap' = [heap EXCEPT ![a] = New("type")]
                         /\ ltype' = a
  /\ Uses({ResultHandle(r)})
  /\ UNCHANGED <<conns, stmts, res, rows>>

DestroyLogicalType ==
  /\ ltype # NULL
  /\ Uses({Handle(ltype, "type")})
  /\ heap' = FreeAt({ltype}) /\ ltype' = NULL
  /\ UNCHANGED <<conns, stmts, res, rows>>

(***************************************************************************)
(* Rows: an iterator holds a pointer to the client's Result variable, and  *)
(* follows it when the variable is closed or assigned again.               *)
(***************************************************************************)
\* Mutant: the iterator starts on the first row instead of before it.
RowsFromFirst(r) == rows' = [NoRows EXCEPT !.on = r, !.row = 0,
                                           !.fresh = res[r].open]

RowsOf(r) == rows' = [NoRows EXCEPT !.on = r, !.fresh = res[r].open]

Rows(r) ==
  /\ RowsOf(r) /\ NoUse
  /\ UNCHANGED <<heap, conns, stmts, res, ltype>>

RowsNext ==
  /\ rows.on # NULL /\ rows.row < MaxRow
  /\ LET row  == rows.row + 1
         more == row < RowCount(rows.on)
     IN rows' = [rows EXCEPT !.row = row, !.done = ~more,
                             !.got = IF more THEN @ + 1 ELSE @]
  /\ IF res[rows.on].open THEN Uses({ResultHandle(rows.on)}) ELSE NoUse
  /\ UNCHANGED <<heap, conns, stmts, res, ltype>>

\* Bool, Int64, Float64, StringCopy and IsNull of the current row.
RowsRead(col) ==
  /\ rows.on # NULL
  /\ Read(rows.on, rows.row, col)
  /\ UNCHANGED <<heap, conns, stmts, res, rows, ltype>>

ConnCall(c) ==
  \/ Open(c) \/ OpenFails(c) \/ CloseConn(c) \/ CallConn(c)
  \/ Exec(conns[c], ConnHandle(c))
  \/ \E r \in Results : Query(c, r)
  \/ \E s \in Stmts : Prepare(c, s) \/ PrepareFails(c, s) \/ PrepareRefused(c, s)

StmtCall(s) ==
  \/ CloseStmt(s) \/ PrepareError(s) \/ ClearBindings(s)
  \/ \E i \in Indices : Bind(s, i)
  \/ Exec(stmts[s], StmtHandle(s))
  \/ \E r \in Results : StmtQuery(s, r)

ResultCall(r) ==
  \/ CloseResult(r) \/ ReadResult(r) \/ Rows(r)
  \/ \E col \in Indices : ReadColumn(r, col) \/ ColumnLogicalType(r, col)
  \/ \E row, col \in Indices : ReadCell(r, row, col)

Next ==
  \/ \E c \in Conns : ConnCall(c)
  \/ \E s \in Stmts : StmtCall(s)
  \/ \E r \in Results : ResultCall(r)
  \/ RowsNext \/ \E col \in Indices : RowsRead(col)
  \/ DestroyLogicalType

Spec == Init /\ [][Next]_vars
-----------------------------------------------------------------------------
(***************************************************************************)
(* Type invariant.                                                         *)
(***************************************************************************)
Handles == Addr \cup {NULL}

\* Every variable has its type; in particular no parameter but 1 .. Params
\* is ever bound (duckdb.c:102-135).
TypeOK ==
  /\ heap \in [Addr -> Object]
  /\ conns \in [Conns -> [closed : BOOLEAN, open : BOOLEAN,
                          db : Handles, conn : Handles]]
  /\ stmts \in [Stmts -> [closed : BOOLEAN, open : BOOLEAN, h : Handles,
                          err : Errors, asked : SUBSET Indices]]
  /\ res \in [Results -> [closed : BOOLEAN, open : BOOLEAN, h : Handles,
                          err : Errors]]
  /\ rows \in [on : Results \cup {NULL}, row : -1 .. MaxRow,
               got : 0 .. MaxRow + 1, done : BOOLEAN, fresh : BOOLEAN]
  /\ ltype \in Handles
  /\ stray \in BOOLEAN

(***************************************************************************)
(* Safety.                                                                 *)
(***************************************************************************)
\* The handles the client's open wrappers hold, one record per handle.
Held ==
  {[by |-> c, h |-> conns[c].db, kind |-> "database"] :
      c \in {x \in Conns : conns[x].open}}
  \cup {[by |-> c, h |-> conns[c].conn, kind |-> "connection"] :
      c \in {x \in Conns : conns[x].open}}
  \cup {[by |-> s, h |-> stmts[s].h, kind |-> "statement"] :
      s \in {x \in Stmts : stmts[x].open}}
  \cup {[by |-> r, h |-> res[r].h, kind |-> "result"] :
      r \in {x \in Results : res[x].open}}

\* A handle marked open names a live object of its kind, and no other handle
\* marked open names that object, although addresses are used again: closing
\* one wrapper never frees what another one holds (duckdb.c:31-38, 87-93,
\* 146-152).
OpenIsLive ==
  /\ \A x \in Held : Names(x.h, x.kind)
  /\ \A x, y \in Held : x.h = y.h => x = y

\* DuckDB is never handed a handle that is dead or of another kind, nor a
\* row or column the result does not have, whatever is called after Close,
\* before Open or after a failure (the accessors of duckdb.c:243-257 test
\* nothing).
NoStray == ~stray

\* Everything DuckDB holds for the client, prepared statements apart, can
\* still be released by closing a variable of the client: no path through a
\* failed Open, Query or Exec loses a database, a connection or a result
\* (duckdb.c:15-18, duckdb.go:148-166).
NothingLost ==
  \A a \in Addr :
    heap[a].kind \notin {"free", "statement"} =>
      \/ a = ltype
      \/ \E x \in Held : x.h = a

\* A failed query that reached DuckDB can be explained until its result is
\* closed, also when the connection or the statement was closed meanwhile
\* (duckdb.go:142-143, 318-326).
ErrorKept ==
  \A r \in Results :
    res[r].err \in {"ErrQuery", "ErrExec"} /\ ~res[r].closed /\ res[r].h # NULL
      => ErrorText(r)

\* The parameters of a statement that are bound are the ones the client was
\* told it bound, counted from 1, since it cleared them (duckdb.go:205-269).
BoundAsAsked ==
  \A s \in Stmts : Owns(stmts[s]) => heap[stmts[s].h].bound = stmts[s].asked

\* An iterator that has reached the end of the result it was made of has
\* announced every row of it, once (duckdb.go:491-506).
AllRows ==
  rows.fresh /\ rows.done => rows.got = heap[res[rows.on].h].rows

\* "PrepareError returns the latest prepare error for this statement."
PrepareErrorKept ==
  \A s \in Stmts : stmts[s].err = "ErrPrepare" /\ ~stmts[s].closed =>
    stmts[s].open /\ heap[stmts[s].h].failed

\* "Explicit resource ownership": a prepared statement DuckDB holds is one
\* the client can release.
StatementsOwned ==
  \A a \in Addr : heap[a].kind = "statement" => \E x \in Held : x.h = a
=============================================================================
