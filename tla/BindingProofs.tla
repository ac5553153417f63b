--------------------------- MODULE BindingProofs ----------------------------
(***************************************************************************)
(* Proofs about Binding, for every number of addresses, variables,         *)
(* parameters and counts: its type invariant and its safety invariants.    *)
(*                                                                         *)
(* IInv says who owns what.  It relates the two flags of a wrapper         *)
(* (FlagsAgree), the handles marked open to the objects at their addresses *)
(* (HandlesLive), the handles to each other (HandlesApart), and the        *)
(* objects to their owners (ObjectsOwned); the other parts are about the   *)
(* object an open handle names and hold because no other owner's call can  *)
(* touch it.                                                               *)
(***************************************************************************)
EXTENDS Binding, TLAPS

\* The sets TypeOK is made of.
ConnType == [closed : BOOLEAN, open : BOOLEAN, db : Handles, conn : Handles]
StmtType == [closed : BOOLEAN, open : BOOLEAN, h : Handles, err : Errors,
             asked : SUBSET Indices]
ResultType == [closed : BOOLEAN, open : BOOLEAN, h : Handles, err : Errors]
Iterator == [on : Results \cup {NULL}, row : -1 .. MaxRow,
             got : 0 .. MaxRow + 1, done : BOOLEAN, fresh : BOOLEAN]

\* A closed wrapper is not open: the shim resets its flag.
FlagsAgree ==
  /\ \A c \in Conns : ~(conns[c].closed /\ conns[c].open)
  /\ \A s \in Stmts : ~(stmts[s].closed /\ stmts[s].open)
  /\ \A r \in Results : ~(res[r].closed /\ res[r].open)

HandlesLive ==
  /\ \A c \in Conns : conns[c].open =>
       Names(conns[c].db, "database") /\ Names(conns[c].conn, "connection")
  /\ \A s \in Stmts : stmts[s].open => Names(stmts[s].h, "statement")
  /\ \A r \in Results : res[r].open => Names(res[r].h, "result")
  /\ ltype # NULL => Names(ltype, "type")

HandlesApart ==
  /\ \A c, d \in Conns : conns[c].open /\ conns[d].open /\ c # d =>
       conns[c].db # conns[d].db /\ conns[c].conn # conns[d].conn
  /\ \A s, t \in Stmts : stmts[s].open /\ stmts[t].open /\ s # t =>
       stmts[s].h # stmts[t].h
  /\ \A r, q \in Results : res[r].open /\ res[q].open /\ r # q =>
       res[r].h # res[q].h

ObjectsOwned ==
  \A a \in Addr :
    /\ heap[a].kind = "database" => \E c \in Conns : conns[c].open /\ conns[c].db = a
    /\ heap[a].kind = "connection" => \E c \in Conns : conns[c].open /\ conns[c].conn = a
    /\ heap[a].kind = "result" => \E r \in Results : res[r].open /\ res[r].h = a
    /\ heap[a].kind = "type" => a = ltype

\* An error that came with a result object is still in it.
ErrorsHeld ==
  \A r \in Results :
    res[r].err \in {"ErrQuery", "ErrExec"} /\ ~res[r].closed /\ res[r].h # NULL =>
      res[r].open /\ heap[res[r].h].failed

BoundKept ==
  \A s \in Stmts : stmts[s].open => heap[stmts[s].h].bound = stmts[s].asked

\* Where the iterator is in the result it was made of.
IteratorPlace ==
  rows.fresh =>
    /\ rows.on \in Results /\ res[rows.on].open
    /\ LET n == heap[res[rows.on].h].rows
       IN /\ rows.row < n => rows.got = rows.row + 1
          /\ rows.row >= n => rows.got = n
          /\ rows.done => rows.row >= n

\* Numbers the client passes fit into a C int: the build passes 64-bit
\* indices on as int (duckdb.go:205-269), and counts come back as int.
IndicesFit == \A i \in Indices : -(IntMax + 1) <= i /\ i <= IntMax
CountsFit  == \A n \in Counts : n <= IntMax

Ownership == FlagsAgree /\ HandlesLive /\ HandlesApart /\ ObjectsOwned

Contents ==
  /\ ErrorsHeld
  /\ IndicesFit => BoundKept
  /\ CountsFit => IteratorPlace

IInv == TypeOK /\ rows.got <= rows.row + 1 /\ Ownership /\ Contents /\ NoStray
-----------------------------------------------------------------------------
(***************************************************************************)
(* Conversions to a C int (duckdb.c:175-194).                              *)
(***************************************************************************)
\* A count never grows by the conversion.
LEMMA ToIntBelow ==
  ASSUME NEW n \in Nat
  PROVE  ToInt(n) \in Int /\ ToInt(n) <= n
  <1> DEFINE K == IntMax + 1
  <1>1. K \in Nat /\ K > 0
    BY NumberAssumption
  <1>2. n + K \in Nat /\ 2 * K \in Int /\ 2 * K > 0
    BY <1>1
  <1> HIDE DEF K
  <1>3. (n + K) % (2 * K) \in Int /\ (n + K) % (2 * K) <= n + K
    BY <1>2
  <1>4. ((n + K) % (2 * K)) - K \in Int /\ ((n + K) % (2 * K)) - K <= n
    BY <1>1, <1>3
  <1>5. ToInt(n) = ((n + K) % (2 * K)) - K
    BY NumberAssumption DEF ToInt, K
  <1> QED BY <1>4, <1>5

\* A number that fits is not changed by it.
LEMMA ToIntFits ==
  ASSUME NEW n \in Int, -(IntMax + 1) <= n, n <= IntMax
  PROVE  ToInt(n) = n
  <1> DEFINE K == IntMax + 1
  <1>1. K \in Nat /\ K > 0 /\ n + K \in Nat /\ n + K < 2 * K
    BY NumberAssumption
  <1>2. ToInt(n) = ((n + K) % (2 * K)) - K
    BY NumberAssumption DEF ToInt
  <1> HIDE DEF K
  <1>3. (n + K) % (2 * K) = n + K
    BY <1>1
  <1> QED BY <1>1, <1>2, <1>3
-----------------------------------------------------------------------------
(***************************************************************************)
(* Objects and handles.                                                    *)
(***************************************************************************)
\* A new object is an object of its kind.
LEMMA NewObject ==
  /\ Free \in Object /\ Free.kind = "free"
  /\ \A x \in Kinds : New(x) \in Object /\ New(x).kind = x /\ New(x).bound = {}
  <1>1. Free \in Object
    BY DEF Free, Object, Kinds
  <1>2. \A x \in Kinds : New(x) \in Object
    BY DEF New, Free, Object, Kinds
  <1>3. \A x \in Kinds : New(x).kind = x /\ New(x).bound = {}
    BY DEF New, Free
  <1>4. Free.kind = "free"
    BY DEF Free
  <1> QED BY <1>1, <1>2, <1>3, <1>4

\* An object has a kind, and numbers of rows and columns.
LEMMA ObjectShape ==
  ASSUME TypeOK, NEW a \in Addr
  PROVE  heap[a] \in Object /\ heap[a].rows \in Nat /\ heap[a].cols \in Nat
  <1>1. heap[a] \in Object
    BY DEF TypeOK
  <1>2. heap[a].rows \in Counts \cup {0} /\ heap[a].cols \in Counts \cup {0}
    BY <1>1 DEF Object
  <1>3. Counts \cup {0} \subseteq Nat
    BY NumberAssumption
  <1> QED BY <1>1, <1>2, <1>3

\* A column the wrapper lets through is one of a live result
\* (duckdb.go:355-414).
LEMMA ColumnInside ==
  ASSUME TypeOK, HandlesLive, NEW r \in Results, NEW col \in Int,
         0 <= col, col < ColumnCount(r)
  PROVE  res[r].open /\ Names(res[r].h, "result") /\ col < heap[res[r].h].cols
  <1>1. res[r].open
    BY DEF ColumnCount
  <1>2. Names(res[r].h, "result")
    BY <1>1 DEF HandlesLive
  <1>3. heap[res[r].h].cols \in Nat
    BY <1>2, ObjectShape DEF Names
  <1>4. ToInt(heap[res[r].h].cols) \in Int
        /\ ToInt(heap[res[r].h].cols) <= heap[res[r].h].cols
    BY <1>3, ToIntBelow
  <1> QED BY <1>1, <1>2, <1>3, <1>4 DEF ColumnCount

\* A row the wrapper lets through is one of a live result (duckdb.go:424-489).
LEMMA RowInside ==
  ASSUME TypeOK, HandlesLive, NEW r \in Results, NEW row \in Int,
         0 <= row, row < RowCount(r)
  PROVE  res[r].open /\ Names(res[r].h, "result") /\ row < heap[res[r].h].rows
  <1>1. res[r].open
    BY DEF RowCount
  <1>2. Names(res[r].h, "result")
    BY <1>1 DEF HandlesLive
  <1>3. heap[res[r].h].rows \in Nat
    BY <1>2, ObjectShape DEF Names
  <1>4. ToInt(heap[res[r].h].rows) \in Int
        /\ ToInt(heap[res[r].h].rows) <= heap[res[r].h].rows
    BY <1>3, ToIntBelow
  <1> QED BY <1>1, <1>2, <1>3, <1>4 DEF RowCount
-----------------------------------------------------------------------------
(***************************************************************************)
(* Calls that change no wrapper and no object.                             *)
(***************************************************************************)
\* What is said about wrappers and objects holds as long as they do.
LEMMA SameWrappers ==
  ASSUME IInv, UNCHANGED <<heap, conns, stmts, res, rows, ltype>>, stray' = FALSE
  PROVE  IInv'
  <1> USE DEF IInv
  <1>1. TypeOK'
    BY DEF TypeOK
  <1>2. Ownership'
    BY DEF Ownership, FlagsAgree, HandlesLive, HandlesApart, ObjectsOwned, Names
  <1>3. Contents'
    BY DEF Contents, ErrorsHeld, BoundKept, IteratorPlace, IndicesFit, CountsFit
  <1> QED BY <1>1, <1>2, <1>3 DEF NoStray

\* A call that tests the shim's flag reaches the live object (duckdb.c:40-144).
LEMMA OpenHandleLive ==
  ASSUME IInv
  PROVE  /\ \A c \in Conns : conns[c].open /\ Uses({ConnHandle(c)}) => stray' = FALSE
         /\ \A s \in Stmts : stmts[s].open /\ Uses({StmtHandle(s)}) => stray' = FALSE
         /\ \A r \in Results : res[r].open /\ Uses({ResultHandle(r)}) => stray' = FALSE
         /\ NoUse => stray' = FALSE
  <1>1. stray = FALSE
    BY DEF IInv, TypeOK, NoStray
  <1>2. ASSUME NEW h, NEW kind, Names(h, kind), Uses({Handle(h, kind)})
        PROVE  stray' = FALSE
    <2>1. ~ \E u \in {Handle(h, kind)} : ~Names(u.h, u.kind)
      BY <1>2 DEF Handle
    <2> QED BY <1>1, <1>2, <2>1, Zenon DEF Uses
  <1>3. \A c \in Conns : conns[c].open /\ Uses({ConnHandle(c)}) => stray' = FALSE
    BY <1>2 DEF IInv, Ownership, HandlesLive, ConnHandle
  <1>4. \A s \in Stmts : stmts[s].open /\ Uses({StmtHandle(s)}) => stray' = FALSE
    BY <1>2 DEF IInv, Ownership, HandlesLive, StmtHandle
  <1>5. \A r \in Results : res[r].open /\ Uses({ResultHandle(r)}) => stray' = FALSE
    BY <1>2 DEF IInv, Ownership, HandlesLive, ResultHandle
  <1> QED BY <1>1, <1>3, <1>4, <1>5 DEF NoUse

\* Interrupt and ExecSQL; Exec of a connection and of a statement.
LEMMA ConnQuiet ==
  ASSUME IInv, NEW c \in Conns, CallConn(c) \/ Exec(conns[c], ConnHandle(c))
  PROVE  IInv'
  <1>1. stray' = FALSE
    BY OpenHandleLive DEF CallConn, Exec, Owns
  <1> QED BY <1>1, SameWrappers DEF CallConn, Exec

\* Calls that read a statement and release or create nothing keep the
\* invariant.
LEMMA StmtQuiet ==
  ASSUME IInv, NEW s \in Stmts, PrepareError(s) \/ Exec(stmts[s], StmtHandle(s))
  PROVE  IInv'
  <1>1. stray' = FALSE
    BY OpenHandleLive DEF PrepareError, Exec, Owns
  <1> QED BY <1>1, SameWrappers DEF PrepareError, Exec

\* The counts, columns and cells of a result.
LEMMA ResultQuiet ==
  ASSUME IInv, NEW r \in Results,
         \/ ReadResult(r)
         \/ \E col \in Indices : ReadColumn(r, col)
         \/ \E row, col \in Indices : ReadCell(r, row, col)
  PROVE  IInv'
  <1>1. CASE ReadResult(r)
    <2>1. stray' = FALSE
      BY <1>1, OpenHandleLive DEF ReadResult
    <2> QED BY <1>1, <2>1, SameWrappers DEF ReadResult
  <1>2. CASE \E col \in Indices : ReadColumn(r, col)
    <2>1. PICK col \in Indices : ReadColumn(r, col)
      BY <1>2
    <2>2. col \in Int
      BY NumberAssumption
    <2>3. Names(res[r].h, "result") /\ col < heap[res[r].h].cols
      BY <2>1, <2>2, ColumnInside DEF IInv, Ownership, ReadColumn
    <2>4. heap[res[r].h].cols \in Nat
      BY <2>3, ObjectShape DEF Names, IInv
    <2>5. stray' = FALSE
      BY <2>1, <2>2, <2>3, <2>4 DEF ReadColumn, NoStray, TypeOK, IInv
    <2> QED BY <2>1, <2>5, SameWrappers DEF ReadColumn
  <1>3. CASE \E row, col \in Indices : ReadCell(r, row, col)
    <2>1. PICK row \in Indices, col \in Indices : ReadCell(r, row, col)
      BY <1>3
    <2>2. row \in Int /\ col \in Int
      BY NumberAssumption
    <2>3. /\ Names(res[r].h, "result")
          /\ col < heap[res[r].h].cols /\ row < heap[res[r].h].rows
      BY <2>1, <2>2, ColumnInside, RowInside DEF IInv, Ownership, ReadCell, Read
    <2>4. heap[res[r].h].cols \in Nat /\ heap[res[r].h].rows \in Nat
      BY <2>3, ObjectShape DEF Names, IInv
    <2>5. stray' = FALSE
      BY <2>1, <2>2, <2>3, <2>4 DEF ReadCell, Read, NoStray, TypeOK, IInv
    <2> QED BY <2>1, <2>5, SameWrappers DEF ReadCell
  <1> QED BY <1>1, <1>2, <1>3

\* The cells of an iterator's row.
LEMMA RowsReadQuiet ==
  ASSUME IInv, NEW col \in Indices, RowsRead(col)
  PROVE  IInv'
  <1>1. rows.on \in Results /\ rows.row \in Int /\ col \in Int
    BY NumberAssumption DEF IInv, TypeOK, RowsRead
  <1>2. /\ Names(res[rows.on].h, "result")
        /\ col < heap[res[rows.on].h].cols /\ rows.row < heap[res[rows.on].h].rows
    BY <1>1, ColumnInside, RowInside DEF IInv, Ownership, RowsRead, Read
  <1>3. heap[res[rows.on].h].cols \in Nat /\ heap[res[rows.on].h].rows \in Nat
    BY <1>2, ObjectShape DEF Names, IInv
  <1>4. stray' = FALSE
    BY <1>1, <1>2, <1>3 DEF RowsRead, Read, NoStray, TypeOK, IInv
  <1> QED BY <1>4, SameWrappers DEF RowsRead
-----------------------------------------------------------------------------
(***************************************************************************)
(* The iterator.                                                           *)
(***************************************************************************)
\* A new iterator stands before the first row (duckdb.go:491-497).
LEMMA RowsStart ==
  ASSUME IInv, NEW r \in Results, Rows(r)
  PROVE  IInv'
  <1> USE DEF IInv
  <1>1. rows' = [on |-> r, row |-> -1, got |-> 0, done |-> FALSE, fresh |-> res[r].open]
    BY DEF Rows, RowsOf, NoRows
  <1>2. stray' = FALSE /\ UNCHANGED <<heap, conns, stmts, res, ltype>>
    BY OpenHandleLive DEF Rows
  <1>3. res[r].open \in BOOLEAN
    BY DEF TypeOK
  <1>4. rows' \in Iterator /\ rows'.got <= rows'.row + 1
    BY <1>1, <1>3, NumberAssumption DEF Iterator
  <1>5. Ownership'
    BY <1>2 DEF Ownership, FlagsAgree, HandlesLive, HandlesApart, ObjectsOwned, Names
  <1>6. ErrorsHeld' /\ (IndicesFit => BoundKept)'
    BY <1>2 DEF Contents, ErrorsHeld, BoundKept, IndicesFit
  <1>7. IteratorPlace'
    <2>1. SUFFICES ASSUME rows'.fresh PROVE IteratorPlace'
      BY DEF IteratorPlace
    <2>2. res[r].open /\ Names(res[r].h, "result")
      BY <1>1, <2>1 DEF Ownership, HandlesLive
    <2>3. heap[res[r].h].rows \in Nat
      BY <2>2, ObjectShape DEF Names
    <2> QED BY <1>1, <1>2, <2>2, <2>3 DEF IteratorPlace
  <1>8. TypeOK'
    BY <1>2, <1>4 DEF TypeOK, Iterator
  <1> QED BY <1>2, <1>4, <1>5, <1>6, <1>7, <1>8 DEF Contents, NoStray

\* Next announces one row, or the end (duckdb.go:499-506).
LEMMA RowsAdvance ==
  ASSUME IInv, RowsNext
  PROVE  IInv'
  <1> USE DEF IInv
  <1> DEFINE row == rows.row + 1
             more == row < RowCount(rows.on)
  <1>0. /\ rows.on \in Results /\ rows.row \in -1 .. MaxRow /\ rows.row < MaxRow
        /\ rows.got \in 0 .. MaxRow + 1 /\ rows.fresh \in BOOLEAN
        /\ rows = [on |-> rows.on, row |-> rows.row, got |-> rows.got,
                   done |-> rows.done, fresh |-> rows.fresh]
    BY DEF RowsNext, TypeOK
  <1>1. rows' = [on |-> rows.on, row |-> row, done |-> ~more, fresh |-> rows.fresh,
                 got |-> IF more THEN rows.got + 1 ELSE rows.got]
    BY <1>0 DEF RowsNext
  <1>2. stray' = FALSE /\ UNCHANGED <<heap, conns, stmts, res, ltype>>
    BY <1>0, OpenHandleLive DEF RowsNext
  <1>3. /\ rows'.on = rows.on /\ rows'.row = row /\ rows'.fresh = rows.fresh
        /\ more => rows'.got = rows.got + 1
        /\ ~more => rows'.got = rows.got
        /\ rows'.done <=> ~more
    BY <1>1
  <1> HIDE DEF more
  <1>7. rows' \in Iterator /\ rows'.got <= rows'.row + 1
    <2>1. row \in -1 .. MaxRow /\ (~more) \in BOOLEAN
      BY <1>0, NumberAssumption
    <2>2. (IF more THEN rows.got + 1 ELSE rows.got) \in 0 .. MaxRow + 1
      BY <1>0, NumberAssumption
    <2>3. rows' \in Iterator
      BY <1>0, <1>1, <2>1, <2>2 DEF Iterator
    <2> QED BY <1>0, <1>3, <2>3
  <1>8. TypeOK'
    BY <1>2, <1>7 DEF TypeOK, Iterator
  <1>4. Ownership'
    BY <1>2 DEF Ownership, FlagsAgree, HandlesLive, HandlesApart, ObjectsOwned, Names
  <1>5. ErrorsHeld' /\ (IndicesFit => BoundKept)'
    BY <1>2 DEF Contents, ErrorsHeld, BoundKept, IndicesFit
  <1>6. ASSUME CountsFit PROVE IteratorPlace'
    <2>1. SUFFICES ASSUME rows.fresh PROVE IteratorPlace'
      BY <1>3 DEF IteratorPlace
    <2>2. IteratorPlace
      BY <1>6 DEF Contents
    <2> DEFINE n == heap[res[rows.on].h].rows
    <2>3. res[rows.on].open /\ Names(res[rows.on].h, "result")
      BY <1>0, <2>1, <2>2 DEF IteratorPlace, Ownership, HandlesLive
    <2>4. n \in Nat /\ heap[res[rows.on].h] \in Object
      BY <2>3, ObjectShape DEF Names
    <2>5. n \in Counts \cup {0}
      BY <2>4 DEF Object
    <2>6. n <= IntMax
      BY <1>6, <2>5, NumberAssumption DEF CountsFit
    <2>7. RowCount(rows.on) = n
      BY <2>3, <2>4, <2>6, ToIntFits, NumberAssumption DEF RowCount
    <2>8. more <=> row < n
      BY <2>7 DEF more
    <2> HIDE DEF n
    <2>9. /\ rows.row < n => rows.got = rows.row + 1
          /\ rows.row >= n => rows.got = n
      BY <2>1, <2>2 DEF IteratorPlace, n
    <2>10. /\ row < n => rows'.got = row + 1
           /\ row >= n => rows'.got = n
           /\ rows'.done => row >= n
      BY <1>0, <1>3, <2>4, <2>8, <2>9
    <2> QED BY <1>0, <1>2, <1>3, <2>3, <2>10 DEF IteratorPlace, n
  <1> QED BY <1>2, <1>4, <1>5, <1>6, <1>7, <1>8 DEF Contents, NoStray, CountsFit
-----------------------------------------------------------------------------
(***************************************************************************)
(* Objects that are left alone.                                            *)
(***************************************************************************)
Keeps(kind) == \A a \in Addr : heap[a].kind = kind => heap'[a] = heap[a]

\* What an assignment to one variable leaves of the type invariant.
LEMMA AssignConn ==
  ASSUME TypeOK, NEW c \in Conns, NEW w \in ConnType,
         conns' = [conns EXCEPT ![c] = w], heap' \in [Addr -> Object],
         UNCHANGED <<stmts, res, rows, ltype>>, stray' = FALSE
  PROVE  TypeOK'
  <1>1. conns' \in [Conns -> ConnType]
    BY DEF TypeOK, ConnType
  <1> QED BY <1>1 DEF TypeOK, ConnType

\* Assigning a statement variable keeps the types.
LEMMA AssignStmt ==
  ASSUME TypeOK, NEW s \in Stmts, NEW w \in StmtType,
         stmts' = [stmts EXCEPT ![s] = w], heap' \in [Addr -> Object],
         UNCHANGED <<conns, res, rows, ltype>>, stray' = FALSE
  PROVE  TypeOK'
  <1>1. stmts' \in [Stmts -> StmtType]
    BY DEF TypeOK, StmtType
  <1> QED BY <1>1 DEF TypeOK, StmtType

\* Assigning a result variable keeps the types.
LEMMA AssignResult ==
  ASSUME TypeOK, NEW r \in Results, NEW w \in ResultType,
         res' = [res EXCEPT ![r] = w], heap' \in [Addr -> Object],
         rows' \in Iterator, UNCHANGED <<conns, stmts, ltype>>, stray' = FALSE
  PROVE  TypeOK'
  <1>1. res' \in [Results -> ResultType]
    BY DEF TypeOK, ResultType
  <1> QED BY <1>1 DEF TypeOK, ResultType, Iterator

\* Results that are left alone keep their errors and rows.
LEMMA SameResults ==
  ASSUME IInv, UNCHANGED <<res, rows>>, Keeps("result")
  PROVE  ErrorsHeld' /\ (CountsFit => IteratorPlace)'
  <1>1. \A r \in Results : res[r].open => heap'[res[r].h] = heap[res[r].h]
    BY DEF IInv, Ownership, HandlesLive, Names, Keeps
  <1>2. ErrorsHeld'
    BY <1>1 DEF IInv, Contents, ErrorsHeld
  <1>3. (CountsFit => IteratorPlace)'
    BY <1>1 DEF IInv, Contents, CountsFit, IteratorPlace
  <1> QED BY <1>2, <1>3

\* Statements that are left alone keep their parameters.
LEMMA SameStatements ==
  ASSUME IInv, UNCHANGED stmts, Keeps("statement")
  PROVE  (IndicesFit => BoundKept)'
  BY DEF IInv, Ownership, HandlesLive, Names, Keeps, Contents, IndicesFit, BoundKept
-----------------------------------------------------------------------------
(***************************************************************************)
(* Connections.                                                            *)
(***************************************************************************)
\* A new connection takes two free addresses (duckdb.c:4-29).
LEMMA OpenIInv ==
  ASSUME IInv, NEW c \in Conns, Open(c)
  PROVE  IInv'
  <1> USE DEF IInv, Ownership
  <1>1. PICK d \in FreeAddr, k \in FreeAddr :
          /\ d # k
          /\ heap' = [heap EXCEPT ![d] = New("database"), ![k] = New("connection")]
          /\ conns' = [conns EXCEPT ![c] = [ZeroConn EXCEPT !.open = TRUE,
                                                            !.db = d, !.conn = k]]
    BY DEF Open
  <1>2. /\ d \in Addr /\ heap[d].kind = "free" /\ k \in Addr /\ heap[k].kind = "free"
        /\ UNCHANGED <<stmts, res, rows, ltype>> /\ ~Owns(conns[c])
    BY DEF Open, FreeAddr
  <1>3. stray' = FALSE
    BY OpenHandleLive DEF Open
  <1>4. heap' \in [Addr -> Object]
    BY <1>1, <1>2, NewObject DEF TypeOK, Kinds
  <1>5. /\ \A a \in Addr : a # d /\ a # k => heap'[a] = heap[a]
        /\ heap'[d].kind = "database" /\ heap'[k].kind = "connection"
    BY <1>1, <1>2, NewObject DEF TypeOK, Kinds
  <1>6. /\ \A x \in Conns : x # c => conns'[x] = conns[x]
        /\ conns'[c] = [closed |-> FALSE, open |-> TRUE, db |-> d, conn |-> k]
    BY <1>1 DEF TypeOK, ZeroConn
  <1>7. TypeOK'
    <2>1. conns'[c] \in ConnType
      BY <1>2, <1>6 DEF ConnType, Handles
    <2>2. conns' = [conns EXCEPT ![c] = conns'[c]]
      BY <1>1, <1>6 DEF TypeOK
    <2> QED BY <1>2, <1>3, <1>4, <2>1, <2>2, AssignConn
  <1>8. FlagsAgree'
    BY <1>2, <1>6 DEF FlagsAgree
  <1>9. HandlesLive'
    BY <1>2, <1>5, <1>6 DEF HandlesLive, Names
  <1>10. HandlesApart'
    BY <1>2, <1>6 DEF HandlesApart, HandlesLive, Names
  <1>11. ~conns[c].open
    BY <1>2 DEF Owns, FlagsAgree
  <1>12. ObjectsOwned'
    BY <1>2, <1>5, <1>6, <1>11 DEF ObjectsOwned
  <1>13. Contents'
    BY <1>2, <1>5, SameResults, SameStatements DEF Keeps, Contents
  <1> QED BY <1>2, <1>3, <1>7, <1>8, <1>9, <1>10, <1>12, <1>13 DEF NoStray

\* A failed Open leaves the variable closed to use and no object behind.
LEMMA OpenFailsIInv ==
  ASSUME IInv, NEW c \in Conns, OpenFails(c)
  PROVE  IInv'
  <1> USE DEF IInv, Ownership
  <1>1. /\ UNCHANGED <<heap, stmts, res, rows, ltype>> /\ ~conns[c].open
        /\ stray' = FALSE
    BY OpenHandleLive DEF OpenFails, Owns, FlagsAgree
  <1>2. /\ \A x \in Conns : x # c => conns'[x] = conns[x]
        /\ conns'[c] = [closed |-> FALSE, open |-> FALSE, db |-> NULL, conn |-> NULL]
        /\ conns' = [conns EXCEPT ![c] = conns'[c]]
    BY DEF OpenFails, TypeOK, ZeroConn
  <1>3. TypeOK'
    <2>1. conns'[c] \in ConnType
      BY <1>2 DEF ConnType, Handles
    <2>2. heap' \in [Addr -> Object]
      BY <1>1 DEF TypeOK
    <2> QED BY <1>1, <1>2, <2>1, <2>2, AssignConn
  <1>4. FlagsAgree' /\ HandlesLive' /\ HandlesApart'
    BY <1>1, <1>2 DEF FlagsAgree, HandlesLive, HandlesApart, Names
  <1>5. ObjectsOwned'
    BY <1>1, <1>2 DEF ObjectsOwned
  <1>6. Contents'
    BY <1>1, SameResults, SameStatements DEF Keeps, Contents
  <1> QED BY <1>1, <1>3, <1>4, <1>5, <1>6 DEF NoStray

\* Close frees the database and the connection of its variable only
\* (duckdb.c:31-38).
LEMMA CloseConnIInv ==
  ASSUME IInv, NEW c \in Conns, CloseConn(c)
  PROVE  IInv'
  <1> USE DEF IInv, Ownership
  <1> DEFINE d == conns[c].db
             k == conns[c].conn
  <1>1. /\ \A x \in Conns : x # c => conns'[x] = conns[x]
        /\ conns'[c] = [closed |-> TRUE, open |-> FALSE, db |-> d, conn |-> k]
        /\ conns' = [conns EXCEPT ![c] = conns'[c]]
        /\ UNCHANGED <<stmts, res, rows, ltype>>
    <2> DEFINE C == [closed : BOOLEAN, open : BOOLEAN, db : Handles, conn : Handles]
    <2>1. conns \in [Conns -> C]
      BY DEF TypeOK
    <2>2. /\ conns' = [conns EXCEPT ![c].closed = TRUE, ![c].open = FALSE]
          /\ UNCHANGED <<stmts, res, rows, ltype>>
      BY DEF CloseConn
    <2> QED BY <2>1, <2>2
  <1>4. conns'[c] \in ConnType
    BY <1>1 DEF TypeOK, ConnType
  <1>2. CASE ~conns[c].open
    <2>1. UNCHANGED heap /\ stray' = FALSE
      BY <1>2, OpenHandleLive DEF CloseConn
    <2>2. TypeOK'
      <3>1. heap' \in [Addr -> Object]
        BY <2>1 DEF TypeOK
      <3> QED BY <1>1, <1>4, <2>1, <3>1, AssignConn
    <2>3. FlagsAgree' /\ HandlesLive' /\ HandlesApart'
      BY <1>1, <2>1 DEF FlagsAgree, HandlesLive, HandlesApart, Names
    <2>4. ObjectsOwned'
      BY <1>1, <1>2, <2>1 DEF ObjectsOwned
    <2>5. Contents'
      BY <1>1, <2>1, SameResults, SameStatements DEF Keeps, Contents
    <2> QED BY <1>1, <2>1, <2>2, <2>3, <2>4, <2>5 DEF NoStray
  <1>3. CASE conns[c].open
    <2>1. Names(d, "database") /\ Names(k, "connection")
      BY <1>3 DEF HandlesLive
    <2>2. /\ heap' = [a \in Addr |-> IF a = d \/ a = k THEN Free ELSE heap[a]]
          /\ Uses({ConnHandle(c), Handle(d, "database")})
      BY <1>3 DEF CloseConn, FreeAt
    <2>3. stray' = FALSE
      <3>1. ~ \E u \in {ConnHandle(c), Handle(d, "database")} : ~Names(u.h, u.kind)
        BY <2>1 DEF ConnHandle, Handle
      <3>2. stray = FALSE
        BY DEF NoStray, TypeOK
      <3> QED BY <2>2, <3>1, <3>2, Zenon DEF Uses
    <2>4. heap' \in [Addr -> Object]
      BY <2>2, NewObject DEF TypeOK
    <2>5. /\ \A a \in Addr : a # d /\ a # k => heap'[a] = heap[a]
          /\ heap'[d].kind = "free" /\ heap'[k].kind = "free"
      BY <2>1, <2>2, NewObject DEF Names
    <2>6. TypeOK'
      BY <1>1, <1>4, <2>3, <2>4, AssignConn
    <2>7. FlagsAgree' /\ HandlesApart'
      BY <1>1 DEF FlagsAgree, HandlesApart
    <2>8. HandlesLive'
      <3>1. \A x \in Conns : x # c /\ conns[x].open =>
              /\ conns[x].db # d /\ conns[x].db # k
              /\ conns[x].conn # d /\ conns[x].conn # k
        BY <1>3, <2>1 DEF HandlesLive, HandlesApart, Names
      <3> QED BY <1>1, <2>1, <2>5, <3>1 DEF HandlesLive, Names
    <2>9. ObjectsOwned'
      BY <1>1, <2>5 DEF ObjectsOwned
    <2>10. Contents'
      BY <1>1, <2>1, <2>5, SameResults, SameStatements DEF Keeps, Contents, Names
    <2> QED BY <1>1, <2>3, <2>6, <2>7, <2>8, <2>9, <2>10 DEF NoStray
  <1> QED BY <1>2, <1>3
-----------------------------------------------------------------------------
(***************************************************************************)
(* Results.                                                                *)
(***************************************************************************)
\* An iterator over a variable that is assigned is no longer of its result.
LEMMA StaleIterator ==
  ASSUME IInv, NEW r \in Results, Stale(r)
  PROVE  /\ rows' \in Iterator /\ rows'.got <= rows'.row + 1
         /\ rows'.fresh => rows' = rows /\ rows.on # r
  <1>1. rows \in Iterator /\ rows.got <= rows.row + 1
    BY DEF IInv, TypeOK, Iterator
  <1>2. CASE rows.on = r
    <2>1. rows' = [rows EXCEPT !.fresh = FALSE]
      BY <1>2 DEF Stale
    <2> QED BY <1>1, <2>1 DEF Iterator
  <1>3. CASE rows.on # r
    BY <1>1, <1>3 DEF Stale
  <1> QED BY <1>2, <1>3

\* An iterator goes on in a result nobody touches.
LEMMA SameIterator ==
  ASSUME IInv, NEW r \in Results, Stale(r),
         \A q \in Results : q # r => res'[q] = res[q],
         \A q \in Results : q # r /\ res[q].open => heap'[res[q].h] = heap[res[q].h]
  PROVE  (CountsFit => IteratorPlace)'
  <1> SUFFICES ASSUME CountsFit, rows'.fresh PROVE IteratorPlace'
    BY DEF IteratorPlace, CountsFit
  <1>1. rows' = rows /\ rows.on # r /\ rows.fresh
    BY StaleIterator
  <1> QED BY <1>1 DEF IInv, Contents, IteratorPlace

\* A query that reaches DuckDB takes a free address for its result, also
\* when it fails (duckdb.c:51-58).
LEMMA FillIInv ==
  ASSUME IInv, NEW r \in Results, NEW err \in {"ErrQuery", "ErrExec"},
         ~Owns(res[r]), Fill(r, err), Stale(r),
         UNCHANGED <<conns, stmts, ltype>>, stray' = FALSE
  PROVE  IInv'
  <1> USE DEF IInv, Ownership
  <1>1. PICK a \in FreeAddr, n \in Counts, m \in Counts, failed \in BOOLEAN :
          /\ failed => n = 0 /\ m = 0
          /\ heap' = [heap EXCEPT ![a] = [New("result") EXCEPT
                        !.rows = n, !.cols = m, !.failed = failed]]
          /\ res' = [res EXCEPT ![r] = [ZeroResult EXCEPT
                        !.open = TRUE, !.h = a, !.err = IF failed THEN err ELSE "nil"]]
    BY Zenon DEF Fill
  <1> DEFINE o == [New("result") EXCEPT !.rows = n, !.cols = m, !.failed = failed]
             w == [ZeroResult EXCEPT !.open = TRUE, !.h = a,
                                     !.err = IF failed THEN err ELSE "nil"]
  <1>2. a \in Addr /\ heap[a].kind = "free" /\ ~res[r].open
    BY DEF FreeAddr, Owns, FlagsAgree
  <1>3. o \in Object /\ o.kind = "result" /\ o.failed = failed
    BY DEF New, Free, Object, Kinds
  <1>4. (IF failed THEN err ELSE "nil") \in Errors
    BY DEF Errors
  <1>5. w \in ResultType
    BY <1>2, <1>4 DEF ResultType, Handles, ZeroResult
  <1>6. heap' = [heap EXCEPT ![a] = o] /\ res' = [res EXCEPT ![r] = w]
    BY <1>1
  <1>7. /\ w.open /\ ~w.closed /\ w.h = a
        /\ w.err \in {"ErrQuery", "ErrExec"} => failed
    BY DEF ZeroResult
  <1> HIDE DEF o, w
  <1>8. heap' \in [Addr -> Object] /\ heap'[a] = o
        /\ \A x \in Addr : x # a => heap'[x] = heap[x]
    BY <1>2, <1>3, <1>6 DEF TypeOK
  <1>9. res'[r] = w /\ \A q \in Results : q # r => res'[q] = res[q]
    BY <1>6 DEF TypeOK
  <1>10. TypeOK' /\ rows'.got <= rows'.row + 1
    BY <1>5, <1>6, <1>8, AssignResult, StaleIterator
  <1>11. FlagsAgree'
    BY <1>7, <1>9 DEF FlagsAgree
  <1>12. HandlesLive'
    BY <1>2, <1>3, <1>7, <1>8, <1>9 DEF HandlesLive, Names
  <1>13. HandlesApart'
    BY <1>2, <1>7, <1>9 DEF HandlesApart, HandlesLive, Names
  <1>14. ObjectsOwned'
    BY <1>2, <1>3, <1>7, <1>8, <1>9 DEF ObjectsOwned
  <1>15. \A q \in Results : q # r /\ res[q].open => heap'[res[q].h] = heap[res[q].h]
    BY <1>2, <1>8 DEF HandlesLive, Names
  <1>16. ErrorsHeld'
    BY <1>3, <1>7, <1>8, <1>9, <1>15 DEF Contents, ErrorsHeld
  <1>17. (CountsFit => IteratorPlace)'
    BY <1>9, <1>15, SameIterator
  <1>18. (IndicesFit => BoundKept)'
    BY <1>2, <1>8, SameStatements DEF Keeps
  <1> QED BY <1>10, <1>11, <1>12, <1>13, <1>14, <1>16, <1>17, <1>18
          DEF NoStray, Contents

\* A query that a flag refuses makes no result object (duckdb.go:144-151).
LEMMA RefuseIInv ==
  ASSUME IInv, NEW r \in Results, NEW closed \in BOOLEAN,
         NEW err \in {"ErrQuery", "ErrExec"},
         ~Owns(res[r]), Refuse(r, closed, err), Stale(r),
         UNCHANGED <<conns, stmts, ltype>>
  PROVE  IInv'
  <1> USE DEF IInv, Ownership
  <1> DEFINE e == IF closed THEN "ErrClosed" ELSE err
             w == [ZeroResult EXCEPT !.err = e]
  <1>1. ~res[r].open /\ UNCHANGED heap /\ stray' = FALSE
    BY OpenHandleLive DEF Owns, FlagsAgree, Refuse
  <1>2. w \in ResultType /\ res' = [res EXCEPT ![r] = w]
    <2>1. e \in Errors /\ res' = [res EXCEPT ![r] = w]
      BY DEF Refuse, Errors
    <2> HIDE DEF e
    <2>2. w \in ResultType
      BY <2>1 DEF ResultType, Handles, ZeroResult
    <2> QED BY <2>1, <2>2
  <1>3. ~w.open /\ w.h = NULL
    BY DEF ZeroResult
  <1> HIDE DEF w
  <1>4. res'[r] = w /\ \A q \in Results : q # r => res'[q] = res[q]
    BY <1>2 DEF TypeOK
  <1>5. heap' \in [Addr -> Object]
    BY <1>1 DEF TypeOK
  <1>6. TypeOK' /\ rows'.got <= rows'.row + 1
    BY <1>1, <1>2, <1>5, AssignResult, StaleIterator
  <1>7. FlagsAgree' /\ HandlesLive' /\ HandlesApart'
    BY <1>1, <1>3, <1>4 DEF FlagsAgree, HandlesLive, HandlesApart, Names
  <1>8. ObjectsOwned'
    BY <1>1, <1>4 DEF ObjectsOwned
  <1>9. ErrorsHeld'
    BY <1>1, <1>3, <1>4 DEF Contents, ErrorsHeld
  <1>10. (CountsFit => IteratorPlace)'
    BY <1>1, <1>4, SameIterator
  <1>11. (IndicesFit => BoundKept)'
    BY <1>1, SameStatements DEF Keeps
  <1> QED BY <1>1, <1>6, <1>7, <1>8, <1>9, <1>10, <1>11 DEF NoStray, Contents

\* Query, of a connection and of a statement.
LEMMA QueryIInv ==
  ASSUME IInv, NEW r \in Results,
         \/ \E c \in Conns : Query(c, r)
         \/ \E s \in Stmts : StmtQuery(s, r)
  PROVE  IInv'
  <1>1. ASSUME NEW c \in Conns, Query(c, r) PROVE IInv'
    <2>1. CASE Owns(conns[c])
      <3>1. stray' = FALSE
        BY <1>1, <2>1, OpenHandleLive DEF Query, Owns
      <3> QED BY <1>1, <2>1, <3>1, FillIInv DEF Query
    <2>2. CASE ~Owns(conns[c])
      <3>1. conns[c].closed \in BOOLEAN
        BY DEF IInv, TypeOK
      <3> QED BY <1>1, <2>2, <3>1, RefuseIInv DEF Query
    <2> QED BY <2>1, <2>2
  <1>2. ASSUME NEW s \in Stmts, StmtQuery(s, r) PROVE IInv'
    <2>1. CASE Owns(stmts[s])
      <3>1. stray' = FALSE
        BY <1>2, <2>1, OpenHandleLive DEF StmtQuery, Owns
      <3> QED BY <1>2, <2>1, <3>1, FillIInv DEF StmtQuery
    <2>2. CASE ~Owns(stmts[s])
      <3>1. stmts[s].closed \in BOOLEAN
        BY DEF IInv, TypeOK
      <3> QED BY <1>2, <2>2, <3>1, RefuseIInv DEF StmtQuery
    <2> QED BY <2>1, <2>2
  <1> QED BY <1>1, <1>2

\* Close frees the object of its variable only (duckdb.c:146-152).
LEMMA CloseResultIInv ==
  ASSUME IInv, NEW r \in Results, CloseResult(r)
  PROVE  IInv'
  <1> USE DEF IInv, Ownership
  <1> DEFINE a == res[r].h
             w == [closed |-> TRUE, open |-> FALSE, h |-> a, err |-> res[r].err]
  <1>1. /\ w \in ResultType /\ res' = [res EXCEPT ![r] = w]
        /\ UNCHANGED <<conns, stmts, ltype>> /\ Stale(r)
    <2>1. res[r] \in ResultType
      BY DEF TypeOK, ResultType
    <2>2. res'[r] = w
      BY <2>1 DEF CloseResult, TypeOK, ResultType
    <2>3. res' = [res EXCEPT ![r] = res'[r]]
      BY DEF CloseResult, TypeOK
    <2>4. w \in ResultType
      BY <2>1 DEF ResultType
    <2> QED BY <2>2, <2>3, <2>4 DEF CloseResult
  <1>2. ~w.open /\ w.closed
    OBVIOUS
  <1> HIDE DEF w
  <1>3. res'[r] = w /\ \A q \in Results : q # r => res'[q] = res[q]
    BY <1>1 DEF TypeOK
  <1>4. /\ stray' = FALSE /\ heap' \in [Addr -> Object]
        /\ \A x \in Addr : \/ heap'[x] = heap[x]
                           \/ res[r].open /\ x = a /\ heap'[x].kind = "free"
        /\ res[r].open => Names(a, "result") /\ heap'[a].kind = "free"
    <2>1. CASE ~res[r].open
      BY <2>1, OpenHandleLive DEF CloseResult, TypeOK
    <2>2. CASE res[r].open
      <3>1. Names(a, "result")
        BY <2>2 DEF HandlesLive
      <3>2. heap' = [x \in Addr |-> IF x = a THEN Free ELSE heap[x]]
        BY <2>2 DEF CloseResult, FreeAt
      <3>3. stray' = FALSE
        BY <2>2, OpenHandleLive DEF CloseResult
      <3>4. heap' \in [Addr -> Object]
        BY <3>2, NewObject DEF TypeOK
      <3> QED BY <2>2, <3>1, <3>2, <3>3, <3>4, NewObject DEF Names
    <2> QED BY <2>1, <2>2
  <1>5. TypeOK' /\ rows'.got <= rows'.row + 1
    BY <1>1, <1>4, AssignResult, StaleIterator
  <1>6. FlagsAgree' /\ HandlesApart'
    BY <1>1, <1>2, <1>3 DEF FlagsAgree, HandlesApart
  <1>7. \A q \in Results : q # r /\ res[q].open => heap'[res[q].h] = heap[res[q].h]
    BY <1>4 DEF HandlesLive, HandlesApart, Names
  <1>8. Keeps("database") /\ Keeps("connection") /\ Keeps("statement") /\ Keeps("type")
    BY <1>4 DEF Keeps, Names
  <1>9. HandlesLive'
    BY <1>1, <1>2, <1>3, <1>7, <1>8 DEF HandlesLive, Names, Keeps
  <1>10. ObjectsOwned'
    BY <1>1, <1>3, <1>4 DEF ObjectsOwned
  <1>11. ErrorsHeld'
    BY <1>2, <1>3, <1>7 DEF Contents, ErrorsHeld
  <1>12. (CountsFit => IteratorPlace)'
    BY <1>1, <1>3, <1>7, SameIterator
  <1>13. (IndicesFit => BoundKept)'
    BY <1>1, <1>8, SameStatements
  <1> QED BY <1>4, <1>5, <1>6, <1>9, <1>10, <1>11, <1>12, <1>13 DEF NoStray, Contents
-----------------------------------------------------------------------------
(***************************************************************************)
(* Statements.                                                             *)
(***************************************************************************)
\* A statement takes a free address (duckdb.c:67-78).
LEMMA PrepareIInv ==
  ASSUME IInv, NEW c \in Conns, NEW s \in Stmts, Prepare(c, s)
  PROVE  IInv'
  <1> USE DEF IInv, Ownership
  <1>1. PICK a \in FreeAddr :
          /\ heap' = [heap EXCEPT ![a] = New("statement")]
          /\ stmts' = [stmts EXCEPT ![s] = [ZeroStmt EXCEPT !.open = TRUE, !.h = a]]
    BY Zenon DEF Prepare
  <1> DEFINE w == [ZeroStmt EXCEPT !.open = TRUE, !.h = a]
  <1>2. /\ a \in Addr /\ heap[a].kind = "free" /\ ~stmts[s].open
        /\ UNCHANGED <<conns, res, rows, ltype>> /\ stray' = FALSE
    BY OpenHandleLive DEF FreeAddr, Prepare, Owns, FlagsAgree
  <1>3. w \in StmtType /\ w.open /\ ~w.closed /\ w.h = a /\ w.asked = {}
    BY <1>2 DEF StmtType, Handles, ZeroStmt, Errors
  <1>4. stmts' = [stmts EXCEPT ![s] = w]
    BY <1>1
  <1> HIDE DEF w
  <1>5. stmts'[s] = w /\ \A t \in Stmts : t # s => stmts'[t] = stmts[t]
    BY <1>4 DEF TypeOK
  <1>6. /\ heap' \in [Addr -> Object]
        /\ heap'[a].kind = "statement" /\ heap'[a].bound = {}
        /\ \A x \in Addr : x # a => heap'[x] = heap[x]
    BY <1>1, <1>2, NewObject DEF TypeOK, Kinds
  <1>7. TypeOK'
    BY <1>2, <1>3, <1>4, <1>6, AssignStmt
  <1>8. FlagsAgree'
    BY <1>2, <1>3, <1>5 DEF FlagsAgree
  <1>9. HandlesLive'
    BY <1>2, <1>3, <1>5, <1>6 DEF HandlesLive, Names
  <1>10. HandlesApart'
    BY <1>2, <1>3, <1>5 DEF HandlesApart, HandlesLive, Names
  <1>11. ObjectsOwned'
    BY <1>2, <1>6 DEF ObjectsOwned
  <1>12. ErrorsHeld' /\ (CountsFit => IteratorPlace)'
    BY <1>2, <1>6, SameResults DEF Keeps
  <1>13. (IndicesFit => BoundKept)'
    <2>1. \A t \in Stmts : t # s /\ stmts[t].open => heap'[stmts[t].h] = heap[stmts[t].h]
      BY <1>2, <1>6 DEF HandlesLive, Names
    <2> SUFFICES ASSUME IndicesFit, NEW t \in Stmts, stmts'[t].open
                 PROVE  heap'[stmts'[t].h].bound = stmts'[t].asked
      BY DEF IndicesFit, BoundKept
    <2>2. BoundKept
      BY DEF Contents
    <2>3. CASE t = s
      BY <1>3, <1>5, <1>6, <2>3
    <2>4. CASE t # s
      BY <1>5, <2>1, <2>2, <2>4 DEF BoundKept
    <2> QED BY <2>3, <2>4
  <1> QED BY <1>2, <1>7, <1>8, <1>9, <1>10, <1>11, <1>12, <1>13 DEF NoStray, Contents

\* A failed Prepare leaves a statement object behind that nobody names, or,
\* refused by a flag, no object (duckdb.go:183-193).
LEMMA PrepareFailsIInv ==
  ASSUME IInv, NEW c \in Conns, NEW s \in Stmts,
         PrepareFails(c, s) \/ PrepareRefused(c, s)
  PROVE  IInv'
  <1> USE DEF IInv, Ownership
  <1>1. PICK err \in Errors : stmts' = [stmts EXCEPT ![s] = [ZeroStmt EXCEPT !.err = err]]
    BY DEF PrepareFails, PrepareRefused, Errors
  <1> DEFINE w == [ZeroStmt EXCEPT !.err = err]
  <1>2. ~stmts[s].open /\ UNCHANGED <<conns, res, rows, ltype>> /\ stray' = FALSE
    BY OpenHandleLive DEF PrepareFails, PrepareRefused, Owns, FlagsAgree
  <1>3. w \in StmtType /\ ~w.open
    BY DEF StmtType, Handles, ZeroStmt
  <1>4. stmts' = [stmts EXCEPT ![s] = w]
    BY <1>1
  <1> HIDE DEF w
  <1>5. stmts'[s] = w /\ \A t \in Stmts : t # s => stmts'[t] = stmts[t]
    BY <1>4 DEF TypeOK
  <1>6. /\ heap' \in [Addr -> Object]
        /\ \A x \in Addr : \/ heap'[x] = heap[x]
                           \/ heap[x].kind = "free" /\ heap'[x].kind = "statement"
    <2>1. CASE PrepareRefused(c, s)
      BY <2>1 DEF PrepareRefused, TypeOK
    <2>2. CASE PrepareFails(c, s)
      <3>1. PICK a \in FreeAddr :
              heap' = [heap EXCEPT ![a] = [New("statement") EXCEPT !.failed = TRUE]]
        BY <2>2 DEF PrepareFails
      <3>2. /\ [New("statement") EXCEPT !.failed = TRUE] \in Object
            /\ [New("statement") EXCEPT !.failed = TRUE].kind = "statement"
        BY DEF New, Free, Object, Kinds
      <3> QED BY <3>1, <3>2 DEF FreeAddr, TypeOK
    <2> QED BY <2>1, <2>2
  <1>7. TypeOK'
    BY <1>2, <1>3, <1>4, <1>6, AssignStmt
  <1>8. FlagsAgree' /\ HandlesApart'
    BY <1>2, <1>3, <1>5 DEF FlagsAgree, HandlesApart
  <1>9. HandlesLive'
    BY <1>2, <1>3, <1>5, <1>6 DEF HandlesLive, Names
  <1>10. ObjectsOwned'
    BY <1>2, <1>6 DEF ObjectsOwned
  <1>11. ErrorsHeld' /\ (CountsFit => IteratorPlace)'
    BY <1>2, <1>6, SameResults DEF Keeps
  <1>12. (IndicesFit => BoundKept)'
    BY <1>3, <1>5, <1>6 DEF IndicesFit, BoundKept, Contents, HandlesLive, Names
  <1> QED BY <1>2, <1>7, <1>8, <1>9, <1>10, <1>11, <1>12 DEF NoStray, Contents

\* Close frees the object of its variable only (duckdb.c:87-93).
LEMMA CloseStmtIInv ==
  ASSUME IInv, NEW s \in Stmts, CloseStmt(s)
  PROVE  IInv'
  <1> USE DEF IInv, Ownership
  <1> DEFINE a == stmts[s].h
             w == stmts'[s]
  <1>1. /\ w = [closed |-> TRUE, open |-> FALSE, h |-> a, err |-> stmts[s].err,
                asked |-> stmts[s].asked]
        /\ stmts' = [stmts EXCEPT ![s] = w]
        /\ UNCHANGED <<conns, res, rows, ltype>>
    BY DEF CloseStmt, TypeOK
  <1>2. w \in StmtType /\ ~w.open
    BY <1>1 DEF TypeOK, StmtType
  <1>3. \A t \in Stmts : t # s => stmts'[t] = stmts[t]
    BY <1>1 DEF TypeOK
  <1>4. /\ stray' = FALSE /\ heap' \in [Addr -> Object]
        /\ \A x \in Addr : \/ heap'[x] = heap[x]
                           \/ stmts[s].open /\ x = a /\ heap'[x].kind = "free"
        /\ stmts[s].open => Names(a, "statement")
    <2>1. CASE ~stmts[s].open
      BY <2>1, OpenHandleLive DEF CloseStmt, TypeOK
    <2>2. CASE stmts[s].open
      <3>1. Names(a, "statement")
        BY <2>2 DEF HandlesLive
      <3>2. heap' = [x \in Addr |-> IF x = a THEN Free ELSE heap[x]]
        BY <2>2 DEF CloseStmt, FreeAt
      <3>3. stray' = FALSE
        BY <2>2, OpenHandleLive DEF CloseStmt
      <3>4. heap' \in [Addr -> Object]
        BY <3>2, NewObject DEF TypeOK
      <3> QED BY <2>2, <3>1, <3>2, <3>3, <3>4, NewObject DEF Names
    <2> QED BY <2>1, <2>2
  <1>5. TypeOK'
    BY <1>1, <1>2, <1>4, AssignStmt
  <1>6. FlagsAgree' /\ HandlesApart'
    BY <1>1, <1>2, <1>3 DEF FlagsAgree, HandlesApart
  <1>7. \A t \in Stmts : t # s /\ stmts[t].open => heap'[stmts[t].h] = heap[stmts[t].h]
    BY <1>4 DEF HandlesLive, HandlesApart, Names
  <1>8. Keeps("database") /\ Keeps("connection") /\ Keeps("result") /\ Keeps("type")
    BY <1>4 DEF Keeps, Names
  <1>9. HandlesLive'
    BY <1>1, <1>2, <1>3, <1>7, <1>8 DEF HandlesLive, Names, Keeps
  <1>10. ObjectsOwned'
    BY <1>1, <1>4 DEF ObjectsOwned
  <1>11. ErrorsHeld' /\ (CountsFit => IteratorPlace)'
    BY <1>1, <1>8, SameResults
  <1>12. (IndicesFit => BoundKept)'
    <2> SUFFICES ASSUME IndicesFit, NEW t \in Stmts, stmts'[t].open
                 PROVE  heap'[stmts'[t].h].bound = stmts'[t].asked
      BY DEF IndicesFit, BoundKept
    <2>1. t # s /\ stmts'[t] = stmts[t]
      BY <1>2, <1>3
    <2>2. BoundKept
      BY DEF Contents
    <2> HIDE DEF w
    <2>3. stmts[t].open /\ stmts'[t].h = stmts[t].h /\ stmts'[t].asked = stmts[t].asked
      BY <2>1
    <2>4. heap[stmts[t].h].bound = stmts[t].asked
      BY <2>2, <2>3 DEF BoundKept
    <2>5. heap'[stmts[t].h] = heap[stmts[t].h]
      BY <1>7, <2>1, <2>3
    <2> QED BY <2>3, <2>4, <2>5
  <1> QED BY <1>1, <1>4, <1>5, <1>6, <1>9, <1>10, <1>11, <1>12 DEF NoStray, Contents

\* Parameters of a statement: asked and bound change together, at one object
\* (duckdb.go:205-269).
LEMMA ParametersIInv ==
  ASSUME IInv, NEW s \in Stmts, Owns(stmts[s]),
         NEW bound \in SUBSET (1 .. Params), NEW asked \in SUBSET Indices,
         IndicesFit /\ heap[stmts[s].h].bound = stmts[s].asked => bound = asked,
         heap' = [heap EXCEPT ![stmts[s].h].bound = bound],
         stmts' = [stmts EXCEPT ![s].asked = asked],
         UNCHANGED <<conns, res, rows, ltype>>, stray' = FALSE
  PROVE  IInv'
  <1> USE DEF IInv, Ownership
  <1> DEFINE a == stmts[s].h
             w == stmts'[s]
             o == heap'[a]
  <1>1. stmts[s].open /\ a \in Addr /\ heap[a].kind = "statement"
    BY DEF Owns, HandlesLive, Names
  <1>2. /\ w = [stmts[s] EXCEPT !.asked = asked] /\ stmts' = [stmts EXCEPT ![s] = w]
        /\ \A t \in Stmts : t # s => stmts'[t] = stmts[t]
    BY DEF TypeOK
  <1>3. stmts[s] \in StmtType /\ heap[a] \in Object
    BY <1>1 DEF TypeOK, StmtType
  <1>4. /\ w \in StmtType /\ w.asked = asked /\ w.h = a
        /\ w.open = stmts[s].open /\ w.closed = stmts[s].closed
    BY <1>2, <1>3 DEF StmtType
  <1>5. /\ o = [heap[a] EXCEPT !.bound = bound] /\ heap' = [heap EXCEPT ![a] = o]
        /\ \A x \in Addr : x # a => heap'[x] = heap[x]
    BY <1>1 DEF TypeOK
  <1>6. o \in Object /\ o.bound = bound /\ o.kind = "statement"
    BY <1>1, <1>3, <1>5 DEF Object
  <1>7. heap' \in [Addr -> Object]
    BY <1>5, <1>6 DEF TypeOK
  <1>8. TypeOK'
    BY <1>2, <1>4, <1>7, AssignStmt
  <1>9. \A t \in Stmts : /\ stmts'[t].open = stmts[t].open
                         /\ stmts'[t].closed = stmts[t].closed
                         /\ stmts'[t].h = stmts[t].h
    BY <1>2, <1>4
  <1>10. \A x \in Addr : heap'[x].kind = heap[x].kind
    BY <1>1, <1>5, <1>6
  <1>11. FlagsAgree' /\ HandlesApart'
    BY <1>9 DEF FlagsAgree, HandlesApart
  <1>12. HandlesLive'
    BY <1>9, <1>10 DEF HandlesLive, Names
  <1>13. ObjectsOwned'
    BY <1>10 DEF ObjectsOwned
  <1>14. ErrorsHeld' /\ (CountsFit => IteratorPlace)'
    BY <1>1, <1>5, SameResults DEF Keeps
  <1>15. (IndicesFit => BoundKept)'
    <2>1. SUFFICES ASSUME IndicesFit PROVE BoundKept'
      BY DEF IndicesFit
    <2>2. bound = asked
      BY <1>1, <2>1 DEF Contents, BoundKept
    <2>3. \A t \in Stmts : t # s /\ stmts[t].open => heap'[stmts[t].h] = heap[stmts[t].h]
      BY <1>1, <1>5 DEF HandlesLive, HandlesApart, Names
    <2>4. heap'[stmts'[s].h].bound = stmts'[s].asked
      BY <1>4, <1>6, <2>2
    <2>5. BoundKept
      BY <2>1 DEF Contents
    <2> HIDE DEF w
    <2>6. ASSUME NEW t \in Stmts, t # s, stmts'[t].open
          PROVE  heap'[stmts'[t].h].bound = stmts'[t].asked
      BY <1>2, <2>3, <2>5, <2>6 DEF BoundKept
    <2> QED BY <2>4, <2>6 DEF BoundKept
  <1> QED BY <1>8, <1>11, <1>12, <1>13, <1>14, <1>15 DEF NoStray, Contents

\* A bound parameter is the one asked for, if its index fits into an int.
LEMMA BindIInv ==
  ASSUME IInv, NEW s \in Stmts, NEW i \in Indices, Bind(s, i)
  PROVE  IInv'
  <1> DEFINE a == stmts[s].h
             index == ToInt(i)
  <1>1. /\ Owns(stmts[s]) /\ UNCHANGED <<conns, res, rows, ltype>>
        /\ stray' = FALSE /\ a \in Addr
    BY OpenHandleLive DEF Bind, Owns, IInv, Ownership, HandlesLive, Names
  <1>2. CASE index \in 1 .. Params
    <2> DEFINE bound == heap[a].bound \cup {index}
               asked == stmts[s].asked \cup {i}
    <2>1. /\ heap' = [heap EXCEPT ![a].bound = bound]
          /\ stmts' = [stmts EXCEPT ![s].asked = asked]
      BY <1>2 DEF Bind
    <2>2. heap[a] \in Object /\ stmts[s] \in StmtType
      BY <1>1 DEF IInv, TypeOK, StmtType
    <2>3. bound \in SUBSET (1 .. Params) /\ asked \in SUBSET Indices
      BY <1>2, <2>2 DEF Object, StmtType
    <2>4. IndicesFit => index = i
      BY ToIntFits, NumberAssumption DEF IndicesFit
    <2> HIDE DEF index
    <2>5. IndicesFit /\ heap[a].bound = stmts[s].asked => bound = asked
      BY <2>4
    <2> QED BY <1>1, <2>1, <2>3, <2>5, ParametersIInv
  <1>3. CASE index \notin 1 .. Params
    BY <1>1, <1>3, SameWrappers DEF Bind
  <1> QED BY <1>2, <1>3

\* Stmt.ClearBindings: the parameters of one statement are forgotten, in
\* DuckDB and in the history (duckdb.c:95-100).
LEMMA ClearBindingsIInv ==
  ASSUME IInv, NEW s \in Stmts, ClearBindings(s)
  PROVE  IInv'
  <1>1. /\ Owns(stmts[s]) /\ UNCHANGED <<conns, res, rows, ltype>> /\ stray' = FALSE
    BY OpenHandleLive DEF ClearBindings, Owns
  <1> DEFINE none == {}
  <1>2. /\ none \in SUBSET (1 .. Params) /\ none \in SUBSET Indices
        /\ heap' = [heap EXCEPT ![stmts[s].h].bound = none]
        /\ stmts' = [stmts EXCEPT ![s].asked = none]
    BY DEF ClearBindings
  <1> HIDE DEF none
  <1> QED BY <1>1, <1>2, ParametersIInv
-----------------------------------------------------------------------------
(***************************************************************************)
(* Logical types.                                                          *)
(***************************************************************************)
\* A logical type is an object of its own, with one owner (duckdb.c:220-234).
LEMMA LogicalTypeIInv ==
  ASSUME IInv, NEW r \in Results, NEW col \in Indices, ColumnLogicalType(r, col)
  PROVE  IInv'
  <1> USE DEF IInv, Ownership
  <1>1. PICK a \in FreeAddr : heap' = [heap EXCEPT ![a] = New("type")] /\ ltype' = a
    BY DEF ColumnLogicalType
  <1>2. /\ a \in Addr /\ heap[a].kind = "free" /\ ltype = NULL
        /\ UNCHANGED <<conns, stmts, res, rows>> /\ col \in Int
    BY NumberAssumption DEF FreeAddr, ColumnLogicalType
  <1>3. stray' = FALSE
    BY <1>2, ColumnInside, OpenHandleLive DEF ColumnLogicalType
  <1>4. /\ heap' \in [Addr -> Object] /\ heap'[a].kind = "type"
        /\ \A x \in Addr : x # a => heap'[x] = heap[x]
    BY <1>1, <1>2, NewObject DEF TypeOK, Kinds
  <1>5. TypeOK'
    BY <1>1, <1>2, <1>3, <1>4 DEF TypeOK, Handles
  <1>6. FlagsAgree' /\ HandlesApart'
    BY <1>2 DEF FlagsAgree, HandlesApart
  <1>7. HandlesLive'
    BY <1>1, <1>2, <1>4 DEF HandlesLive, Names
  <1>8. ObjectsOwned'
    BY <1>1, <1>2, <1>4, AddressAssumption DEF ObjectsOwned
  <1>9. Contents'
    BY <1>2, <1>4, SameResults, SameStatements DEF Keeps, Contents
  <1> QED BY <1>2, <1>3, <1>5, <1>6, <1>7, <1>8, <1>9 DEF NoStray

\* LogicalType.Destroy touches nothing that has an owner (duckdb.c:231-234).
LEMMA DestroyTypeIInv ==
  ASSUME IInv, DestroyLogicalType
  PROVE  IInv'
  <1> USE DEF IInv, Ownership
  <1>1. /\ Names(ltype, "type") /\ ltype' = NULL
        /\ UNCHANGED <<conns, stmts, res, rows>>
        /\ heap' = [x \in Addr |-> IF x = ltype THEN Free ELSE heap[x]]
    BY DEF DestroyLogicalType, HandlesLive, FreeAt
  <1>2. stray' = FALSE
    <2>1. ~ \E u \in {Handle(ltype, "type")} : ~Names(u.h, u.kind)
      BY <1>1 DEF Handle
    <2>2. stray = FALSE
      BY DEF NoStray, TypeOK
    <2> QED BY <2>1, <2>2, Zenon DEF DestroyLogicalType, Uses
  <1>3. /\ heap' \in [Addr -> Object] /\ heap'[ltype].kind = "free"
        /\ \A x \in Addr : x # ltype => heap'[x] = heap[x]
    BY <1>1, NewObject DEF TypeOK, Names
  <1>4. TypeOK'
    BY <1>1, <1>2, <1>3 DEF TypeOK, Handles
  <1>5. FlagsAgree' /\ HandlesApart'
    BY <1>1 DEF FlagsAgree, HandlesApart
  <1>6. HandlesLive'
    BY <1>1, <1>3 DEF HandlesLive, Names
  <1>7. ObjectsOwned'
    BY <1>1, <1>3 DEF ObjectsOwned
  <1>8. Contents'
    BY <1>1, <1>3, SameResults, SameStatements DEF Keeps, Contents, Names
  <1> QED BY <1>1, <1>2, <1>4, <1>5, <1>6, <1>7, <1>8 DEF NoStray
-----------------------------------------------------------------------------
(***************************************************************************)
(* The invariant, and what follows from it.                                *)
(***************************************************************************)
LEMMA InitIInv == Init => IInv
  <1> SUFFICES ASSUME Init PROVE IInv
    OBVIOUS
  <1>1. Free \in Object /\ Free.kind = "free"
    BY NewObject
  <1>2. TypeOK
    <2>1. heap \in [Addr -> Object]
      BY <1>1 DEF Init
    <2>2. conns \in [Conns -> ConnType]
      BY DEF Init, ZeroConn, ConnType, Handles
    <2>3. stmts \in [Stmts -> StmtType]
      BY DEF Init, ZeroStmt, StmtType, Handles, Errors
    <2>4. res \in [Results -> ResultType]
      BY DEF Init, ZeroResult, ResultType, Handles, Errors
    <2>5. rows \in Iterator
      BY NumberAssumption DEF Init, NoRows, Iterator
    <2>6. ltype \in Handles /\ stray \in BOOLEAN
      BY DEF Init, Handles
    <2> QED BY <2>1, <2>2, <2>3, <2>4, <2>5, <2>6
            DEF TypeOK, ConnType, StmtType, ResultType, Iterator
  <1>3. rows.got <= rows.row + 1
    BY DEF Init, NoRows
  <1>4. Ownership
    BY <1>1 DEF Init, Ownership, FlagsAgree, HandlesLive, HandlesApart, ObjectsOwned,
                ZeroConn, ZeroStmt, ZeroResult
  <1>5. Contents
    BY DEF Init, Contents, ErrorsHeld, BoundKept, IteratorPlace, ZeroStmt,
           ZeroResult, NoRows
  <1> QED BY <1>2, <1>3, <1>4, <1>5 DEF IInv, NoStray, Init

\* The invariant is inductive: one lemma per call of the binding.
LEMMA NextIInv == IInv /\ [Next]_vars => IInv'
  <1> SUFFICES ASSUME IInv, [Next]_vars PROVE IInv'
    OBVIOUS
  <1>1. CASE UNCHANGED vars
    BY <1>1, SameWrappers DEF vars, IInv, TypeOK, NoStray
  <1>2. ASSUME NEW c \in Conns, ConnCall(c) PROVE IInv'
    BY <1>2, OpenIInv, OpenFailsIInv, CloseConnIInv, ConnQuiet, QueryIInv,
       PrepareIInv, PrepareFailsIInv DEF ConnCall
  <1>3. ASSUME NEW s \in Stmts, StmtCall(s) PROVE IInv'
    BY <1>3, CloseStmtIInv, StmtQuiet, ClearBindingsIInv, BindIInv, QueryIInv
       DEF StmtCall
  <1>4. ASSUME NEW r \in Results, ResultCall(r) PROVE IInv'
    BY <1>4, CloseResultIInv, ResultQuiet, RowsStart, LogicalTypeIInv DEF ResultCall
  <1>5. CASE RowsNext \/ \E col \in Indices : RowsRead(col)
    BY <1>5, RowsAdvance, RowsReadQuiet
  <1>6. CASE DestroyLogicalType
    BY <1>6, DestroyTypeIInv
  <1> QED BY <1>1, <1>2, <1>3, <1>4, <1>5, <1>6 DEF Next

\* The ownership invariant holds in every reachable state.
THEOREM Invariance == Spec => []IInv
  BY InitIInv, NextIInv, PTL DEF Spec

\* Every variable has its type: no parameter but 1 .. Params is ever bound,
\* and no iterator counts a row twice (duckdb.c:102-135, duckdb.go:499-506).
THEOREM TypeCorrect == Spec => []TypeOK
  <1>1. IInv => TypeOK
    BY DEF IInv
  <1> QED BY <1>1, Invariance, PTL

\* DuckDB is never handed a dead or foreign handle, nor an index outside a
\* result, whatever the client calls and in whatever order, and however the
\* addresses are used again (duckdb.c:31-263).
THEOREM HandlesSafe == Spec => []NoStray
  <1>1. IInv => NoStray
    BY DEF IInv
  <1> QED BY <1>1, Invariance, PTL

\* What a wrapper marked open names is live and named by no other
\* (duckdb.c:31-38, 87-93, 146-152).
THEOREM HandlesExclusive == Spec => []OpenIsLive
  <1>1. IInv => OpenIsLive
    <2> SUFFICES ASSUME IInv PROVE OpenIsLive
      OBVIOUS
    <2> USE DEF IInv, Ownership
    <2>1. \A x \in Held :
            \/ /\ x.kind = "database" /\ x.by \in Conns /\ conns[x.by].open
               /\ x = [by |-> x.by, h |-> conns[x.by].db, kind |-> "database"]
            \/ /\ x.kind = "connection" /\ x.by \in Conns /\ conns[x.by].open
               /\ x = [by |-> x.by, h |-> conns[x.by].conn, kind |-> "connection"]
            \/ /\ x.kind = "statement" /\ x.by \in Stmts /\ stmts[x.by].open
               /\ x = [by |-> x.by, h |-> stmts[x.by].h, kind |-> "statement"]
            \/ /\ x.kind = "result" /\ x.by \in Results /\ res[x.by].open
               /\ x = [by |-> x.by, h |-> res[x.by].h, kind |-> "result"]
      BY DEF Held
    <2>2. \A x \in Held : Names(x.h, x.kind)
      BY <2>1 DEF HandlesLive
    <2>3. ASSUME NEW x \in Held, NEW y \in Held, x.h = y.h PROVE x = y
      <3>1. x.kind = y.kind
        BY <2>2, <2>3 DEF Names
      <3>2. x.by = y.by
        BY <2>1, <2>3, <3>1 DEF HandlesApart
      <3> QED BY <2>1, <2>3, <3>1, <3>2
    <2> QED BY <2>2, <2>3 DEF OpenIsLive
  <1> QED BY <1>1, Invariance, PTL

\* Prepared statements apart, DuckDB holds nothing that no variable of the
\* client could release (duckdb.c:15-18, duckdb.go:148-166).
THEOREM NothingIsLost == Spec => []NothingLost
  <1>1. IInv => NothingLost
    <2> SUFFICES ASSUME IInv, NEW a \in Addr,
                        heap[a].kind \notin {"free", "statement"}, a # ltype
                 PROVE  \E x \in Held : x.h = a
      BY DEF NothingLost
    <2>1. heap[a].kind \in {"database", "connection", "result"}
      <3>1. heap[a] \in Object
        BY DEF IInv, TypeOK
      <3>2. heap[a].kind \in Kinds
        BY <3>1 DEF Object
      <3> QED BY <3>2 DEF Kinds, IInv, Ownership, ObjectsOwned
    <2>2. CASE heap[a].kind = "database"
      <3>1. PICK c \in Conns : conns[c].open /\ conns[c].db = a
        BY <2>2 DEF IInv, Ownership, ObjectsOwned
      <3>2. [by |-> c, h |-> conns[c].db, kind |-> "database"] \in Held
        BY <3>1 DEF Held
      <3> QED BY <3>1, <3>2
    <2>3. CASE heap[a].kind = "connection"
      <3>1. PICK c \in Conns : conns[c].open /\ conns[c].conn = a
        BY <2>3 DEF IInv, Ownership, ObjectsOwned
      <3>2. [by |-> c, h |-> conns[c].conn, kind |-> "connection"] \in Held
        BY <3>1 DEF Held
      <3> QED BY <3>1, <3>2
    <2>4. CASE heap[a].kind = "result"
      <3>1. PICK r \in Results : res[r].open /\ res[r].h = a
        BY <2>4 DEF IInv, Ownership, ObjectsOwned
      <3>2. [by |-> r, h |-> res[r].h, kind |-> "result"] \in Held
        BY <3>1 DEF Held
      <3> QED BY <3>1, <3>2
    <2> QED BY <2>1, <2>2, <2>3, <2>4
  <1> QED BY <1>1, Invariance, PTL

\* The error of a failed query can be read until its result is closed, also
\* when the connection is closed first (duckdb.go:142-143, 318-326).
THEOREM ErrorsReadable == Spec => []ErrorKept
  <1>1. IInv => ErrorKept
    BY DEF IInv, Contents, ErrorsHeld, ErrorKept, ErrorText
  <1> QED BY <1>1, Invariance, PTL

\* If indices fit into a C int, the parameters DuckDB has bound are the ones
\* the client was told it bound (duckdb.go:205-269).
THEOREM ParametersBound == IndicesFit /\ Spec => []BoundAsAsked
  <1>1. IInv => (IndicesFit => BoundAsAsked)
    BY DEF IInv, Contents, BoundKept, BoundAsAsked, Owns
  <1>2. IndicesFit => (IInv => BoundAsAsked)
    BY <1>1
  <1>3. CASE IndicesFit
    <2>1. IInv => BoundAsAsked
      BY <1>2, <1>3
    <2> QED BY <2>1, Invariance, PTL
  <1>4. CASE ~IndicesFit
    BY <1>4
  <1> QED BY <1>3, <1>4

\* If row counts fit into a C int, an iterator that has reached the end of
\* its result has announced every row once (duckdb.go:491-506).
THEOREM RowsComplete == CountsFit /\ Spec => []AllRows
  <1>1. CASE CountsFit
    <2>1. IInv => AllRows
      BY <1>1 DEF IInv, Contents, IteratorPlace, AllRows
    <2> QED BY <2>1, Invariance, PTL
  <1>2. CASE ~CountsFit
    BY <1>2
  <1> QED BY <1>1, <1>2
=============================================================================
