# soloduck: TLA+ models and proofs

soloduck is a command-line shell for DuckDB, written in Go and translated to C
by Solod.  This directory holds its TLA+ models, the TLC configurations that
check them on small instances and the TLAPS proofs about them.  Line numbers
are those of the repository (`main.go`, `duckdb/duckdb.go`, `duckdb/duckdb.c`,
`replfd/replfd.c`).

The program has one thread.  What is hard in it is not interleaving but long
sequences: a line is interpreted in the context of the lines before it, scripts
nest inside lines, input arrives in pieces the lines do not know of, buffers are
freed by hand, the binding's wrappers may be called in any order, before `Open`,
after `Close` and after a failure, and six layouts read the same result twice,
once to measure it and once to print it.

## Inventory

| Component | State | Operations | What makes it correct | Module |
|---|---|---|---|---|
| Startup and flags, `main` (main.go:120-194) | flags, path, SQL argument | parse, open the database, choose between SQL, `-batch` and `repl` | exactly one of the three is run, on the database named; the process ends with the right code | `Startup` |
| Terminal and script input, `repl`'s reader, `readStdinAll`, `processScript`'s splitting, `replfd/` (232-291, 474-483) | descriptor 0, the buffer of bufio, the collected script | flush the prompt, `read(2)`, collect, split | the prompt is visible before the read blocks; no byte is lost or read twice | `Startup` |
| Interpreter loops, `repl`, `processScript` (260-355, 464-503) | the pending text of each loop, the mode, the C stack of nested loops | next line, end of input, accumulate, submit | a statement is run once, whole, when its last line is read; files do not leak into each other; the loop ends | `Session` |
| Dot and meta commands, `handleDot`, `handleMeta`, `reopenDB`, `runReadFile` (357-472) | the connection, the mode | `.mode`, `.open`, `.read`, `.tables`, `.schema`, `.quit`, ... | one connection is open; commands act at a prompt only | `Session` |
| Output modes, `normalizeMode` (505-531) | the text of the mode, a view into some buffer | canonical names, aliases | the mode is valid as long as it is used | `Session` |
| Statement runner, `runSQL` (578-613) | none | query, dispatch on the statement type, close the result | the result is closed on every path; errors are shown | `RunSQL` |
| Rendering, `printResult*`, widths, `formatCell`, escapes (18-110, 615-1169) | none | six layouts | what is printed can be read back (csv, json); columns line up; what fits is printed whole | `Render`, `RunSQL` |
| Column type tables (`duckdb/types.go`, `physical_label.go`) | none | constants, labels | every type has a label and one group | `Types` |
| DuckDB binding (`duckdb/duckdb.go`) over the C shim (`duckdb/duckdb.c`) | per wrapper a Go flag `closed`, a C flag `open`, a native handle | open, close, query, prepare, bind, read counts, columns, cells, iterate | no stale handle or index reaches DuckDB, nothing is lost, errors can be read | `Binding` |
| Completion, `completeSQL` (112-118, 558-576) | none | prefix search | prints the keywords with the prefix | not modelled |
| Benchmarks, Makefile, CI | none | | not part of the program's behaviour | not modelled |

`main` decides and opens the database; the loops take their lines from stdin or
from a script and call the commands; `.read` calls a loop again; commands and
loops call `runSQL`; `runSQL` and the renderers use the binding.  All of them
share one `Conn` (by pointer, except `runSQL`, which gets a copy) and one mode
(by pointer).  There are no callbacks, no threads and no timeouts.

The models are cut along these calls.  `Startup` knows a line as an interval of
stdin and lets the interpreter do anything with it; `Session` knows a line by
what it asks for and takes it from nowhere in particular; both leave what a
statement prints to `RunSQL`, which in turn uses the calls of `Binding`.

## Modules

| Module | What it is |
|---|---|
| `Startup`, `MCStartup` | the process: the command line, and the bytes of descriptor 0 on their way to the interpreter |
| `Session`, `MCSession` | the interpreter: loops, commands, modes, the connection |
| `Shell` | the promise made to the user: one shell, one stream of lines; `Session` implements it |
| `Binding`, `MCBinding` | the Go wrappers over the C shim over DuckDB's heap |
| `Types` | column types, their labels, the groups the renderers put them in |
| `Render` | cells, widths, escapes and the lines of the six layouts, as operators |
| `RunSQL`, `MCRunSQL` | `runSQL` and `printResult`: the composition of `Render` with `Binding` |
| `StartupProofs`, `SessionProofs`, `BindingProofs`, `RunSQLProofs` | the inductive invariants and what follows from them |
| `TextProofs` | lemmas about sequences, replacements and escapes: what a text or a line tells its reader |
| `RenderProofs` | theorems about the layouts of `Render`: widths, cells, csv fields, json rows |

Operators under the comment `Mutant:` are plausible mistakes in the definition
below them.  They are part of no specification: each shows that a property
notices the mistake.

### Startup

`phase` says where the process is: before the database is opened, `opened`, in
`repl` about to print the prompt or waiting in `read(2)`, in `readStdinAll`
(`slurp`), in `processScript` (`split`), or exited.  The correspondence:

* `Decide` is `main`: `NoDatabase` for bad flags, `-help` and `-version`,
  `OpenDB` with `Path` and `InitialMode`, then `RunSQLText`, `RefuseBatch`,
  `StartBatch` or `StartRepl` in the order of the tests in main.go:174-191.
* `taken` is the position of the last byte read from descriptor 0 and `start`
  the first byte that was not yet returned as a line, so `start .. taken` is the
  buffer of bufio.  `Fill` is one `read(2)` (replfd.c:13-25): it delivers any
  part of what is left, and is called only when the buffer holds no newline.
* `Prompt`, `ReadLine`, `ReadLastLine`, `ReadFails` are an iteration of `repl`;
  `CollectLine`, `CollectLast`, `CollectFails`, `BuilderFails` the loop of
  `readStdinAll`; `SplitLine` and `SplitLast` the loop of `processScript` over
  the positions `1 .. script` that were collected.
* `wrote` and `seen` are what was printed last and what of it was flushed.
* `Interpret` and `Quit` stand for the interpreter: it may print, leave a
  statement pending, or end the process.

### Session

An action is one iteration of `repl` or `processScript` with every call it
makes.  `Iterate` takes a line (`NextLine`) and does what the first branch that
applies to it does (`DoLine`).  The correspondence with the code:

* `frame[1 .. depth]` are the loops on the C stack: what is left of a script
  (`rest`), the builder (`acc`) and, for a loop that has called `.read`, whether
  stdin ended with the line it is working on (`eof`).  `frame[0]` stands for
  `main`.  `DotRead` pushes a loop; `EndScript` pops it and finishes the
  iteration that called it (`ReturnToCaller`).
* A line is a record: the first word, the argument, and whether the trimmed
  text ends with `;`.  That is all the interpreter looks at.  A line such as
  `.tables;` has an unknown first word and ends with `;`.
* `mode` is the text of the mode and the buffer the text lives in.
  `NormalizeMode` returns its argument for a canonical name, hence a view, and a
  literal for an alias.  `Release` is the freeing of a line or a file; a mode
  that pointed into it has buffer `Freed`, and `Rendered` gives the layouts
  freed memory may select.
* `conn` is main's `Conn`, `live` the connections DuckDB has open.  A new
  connection may get the handle of a closed one.
* `status` says where the process is: before the database is opened, opened, in
  a loop, ended with code 0 or 1, or crashed.
* `wanted`, `runs` and `last` are history: the mode asked for, and the texts
  handed to DuckDB with the path they ran on.

DuckDB is external: a text may fail, be no SELECT, or return rows.  So are
`os.ReadFile` (it may fail), stdin (it may fail, and end with or without a
newline) and the builder (it may fail to grow).

### Shell

One pending text, one database, no nesting: `Continue` adds a line,
`Complete` runs the text when a line ends with `;`, `Ask` and `Switch` are
commands at an empty prompt, `Drop` forgets what is pending.  `Session` maps to
it by taking the pending text of the innermost loop (`Promise`).

### Binding

The client is any program that calls the binding in any order on its variables
and does not assign to a variable that owns something.  `heap` is DuckDB's
memory: what object lies at an address, of what shape.  Addresses are used
again at once, so a stale handle may name a different object.  Each operation
makes the tests the code makes, in Go (`closed`) and in C (`open`), and calls
the library only if they pass; `Uses` records in `stray` a call with a handle
that names no live object of the right kind, `ReadColumn` and `Read` one with an
index outside the result.  Counts go through `ToInt`, the cast to `int`, for an
arbitrary `IntMax`.

An iterator (`Rows`) points to the client's variable, not to the result, so
`rows.on` is a variable and `rows.fresh` remembers whether the result in it is
still the one the iterator was made of.

### Render and RunSQL

A text is a sequence of characters; characters that no layout treats specially
stand for themselves.  A value is a text and the text of its cast to an `int64`,
so `formatCell`'s choice of accessor is visible; the text is strconv's for a
float, `true` or `false` for a truth value and DuckDB's own for the others.  A
value DuckDB has no text for (`unread`) makes `StringCopy` fail and is printed as
`?`.  The other `?` of `formatCell` need an index outside the result, which
`printResult` never asks for, or a null, which is tested before.  A printed
line is a sequence of fields, one for each column and one for the bar that ends
a table's line.  A field is a name, value, type label or rule with what is
printed before and after it (borders, separators, padding), so that a line can be
asked for its columns (`Width` of a field) and for its characters (`Printed`).
Widths count characters; the box-drawing characters are one each.  Of a type
label only the length matters.

Two assumptions on the results DuckDB may have: they are rectangular, with
names, known types and texts (`Tabular`), and what is printed for a number or a
truth value holds no quote, comma or brace and is not `null`
(`NumbersAssumption`: the digits, signs, points and letters of strconv and of
`true` and `false`).

`RunSQL` has one step per call that touches the database or per printed line:
`Query`, then `ShowError`, `ShowChanges`, `NoColumns`, or `PrintHeading`, a
`PrintRow` for each row and `PrintEnding`, then `Close`.  All of them call
actions of `Binding` on `runSQL`'s one result variable (assumption `OneResult`).
`Reconnect` is `.open` between statements, with its failures.  `ShowError` asks
for the error text before `Close`, as the code does.

## Runs

| Run | Instance | Shows |
|---|---|---|
| `repl` | 12 kinds of line, up to 4 typed, 2 files, one of which reads the other and one of which ends in the middle of a statement; 3 nested loops; 2 handles | type invariant, one connection, files apart, whole statements, nothing complete left pending, no overflow, refinement of `Shell` |
| `loops` | every script of `-batch` and every typed session of 1 to 3 lines over 11 kinds of line, modes by alias, a file that reads itself, 3 nested loops, fairness | results appear in the mode chosen last, also when the line and the file that chose it are gone; refinement of `Shell`; the process ends |
| `mode` | as `repl`, 3 lines | **violation**: a mode chosen by its canonical name dangles |
| `calls` | 1 connection, 1 statement with 2 parameters, 1 result, 4 addresses, indices -1 .. 3, counts 0 .. 2 | type invariant, open handles live and exclusive, no stray call, nothing lost, parameters bound as asked |
| `rows` | 1 connection, 2 results, an iterator, 4 addresses | no stray read, errors kept, every row announced once |
| `prepare` | as `calls` | **violation**: no error can be asked of a failed `Prepare` |
| `leak` | as `calls` | **violation**: the statement of a failed `duckdb_prepare` is never released |
| `process` | every combination of flags with up to 2 arguments, each of which may be empty; every text of up to 4 bytes over a letter, newline and carriage return; every way to cut it into reads; fairness | type invariant, lines in order and whole, none left out, the prompt visible, the job the command line asks for and no other, the process exits |
| `batchargs` | as `process` | **violation**: `-batch` with a second argument runs it as SQL |
| `render` | results of up to 2 columns and 2 rows over values of every group of types, null and unreadable ones included, with every character that needs an escape and texts around the caps; 3 addresses | type invariant, results released, errors shown, tables aligned, fitting values whole, csv fields and json rows readable |
| `csv` | as `render` | **violation**: different rows are printed as the same csv line |
| `values` | as `render` | **violation**: different dates are printed alike |

Why the bounds are enough.  A statement of the interpreter needs at most a line
that begins it and one that ends it, and what may go wrong between them is one
command, one file and one end of input: four lines hold all of these in any
order.  `loops` takes three, for it has every script of that length besides, and
its file adds four more at each level.  Canonical names of modes are left out of
it, because in a line or a file that is freed they show finding 1.  Two files give a nested `.read` that returns to a file and then to
`repl`; a third level adds nothing that the second does not have, and the proofs
hold for any depth.  In `Binding` four addresses hold a database, a connection
and two more objects, so a freed address is always taken by an object of another
kind or owner.  Four bytes of stdin hold two lines with a carriage return and a
last line without a newline, and are cut in every way; the proofs hold for any
text.  In `render` a column is at most 6 characters wide instead of 256, and a
text is printed up to 8 characters instead of 4096.  As in the program the first
is the smaller: names of 0, 1, 3, 4, 6 and 9 characters lie below, at and above
it, and texts of 6, 7, 8 and 9 characters at it, between the two, at the second
and above both.  Texts are chosen so that a wrong escape of one is the right
escape of another.

`MaxTyped`, `MaxDepth` and `MaxRow` are bounds of the models; `MaxDepth` also
stands for the finite C stack, so reaching it is a crash and not a stop.  In the
instance `repl`, where no file reads itself, it is never reached
(`NoOverflow`).  Deadlock is checked in every run: an ended process stutters
(`Stopped`, `Exited`).

Fairness.  Both `FairSpec`s say that the one thread goes on while something
other than a failure can happen: weak fairness of the steps of `main`, of the
loops and of the reader.  No failure is obliged to happen, so no process ends
because a call must fail one day.  They assume that stdin delivers bytes or its
end, that is, that the user does not sit idle for ever, and that DuckDB returns.

## Proofs

All theorems hold for every value of the constants under the named assumptions
of the modules; further hypotheses are in the theorems.

**`SessionProofs`**: `TypeCorrect`, `ConnectionUnique`, `FilesSeparate`,
`StatementsWhole`, `NothingToFlush`, and `ImplementsShell`
(`Spec => PromiseSpec`).  None of these invariants is inductive.  A loop that
returns changes its caller, so even the type invariant needs to know that a
running process has a loop on its stack, that `main` has no frame, and that
nothing is left above the top (`StackShape`).  That a submitted text is whole
needs to know what a pending text is: lines without `;`, the first of which is
SQL (`PendingText`).  `IInv` is the conjunction, grouped into the stack, the
connection and the runs, so that one lemma per group says when an action leaves
it alone.  `LineIInv` has one step per branch of an iteration.  The refinement
uses `AbstractStep`, which lists the five ways a step looks to the user; the
step that needs the invariant is the return of a nested loop: the text that
becomes pending again is the caller's, and `CallersIdle` says it is empty.

Two theorems say of which inputs a property holds that does not hold of all:

* `NoCircleNoOverflow`: if the files can be given ranks below `MaxDepth` such
  that each reads only files of a lower rank (`Ranked`), the stack is never
  exhausted.  The invariant `RanksLeft` says that a loop at depth d has only
  files of rank at most `MaxDepth - d` left to read.
* `AliasesKeepMode`: if modes are chosen by their aliases (`AliasesOnly`),
  results are printed in the mode asked for.  The invariant `ModeIsWanted` says
  that the mode is a literal with the wanted text; freeing a line leaves it
  alone.  The run `mode` shows that the hypothesis is needed.

**`BindingProofs`**: `TypeCorrect`, `HandlesSafe` (`NoStray`),
`HandlesExclusive` (`OpenIsLive`), `NothingIsLost`, `ErrorsReadable`, and under
hypotheses `ParametersBound` (if indices fit a C int, `IndicesFit`) and
`RowsComplete` (if counts do, `CountsFit`).  Without these two hypotheses the
casts in the shim make both false.  The invariant relates the two flags of a
wrapper, the handles to live objects, the handles to each other and the objects
to their owners (`Ownership`), and what is kept in an object nobody else can
touch (`Contents`).

**`StartupProofs`**: `TypeCorrect`, `LinesOrdered`, `LinesComplete`,
`PromptShown`, `JobUnique`.  `JobUnique` is for every command line: the SQL it
gives by `-c` or by the second argument is run (`GivenIsRun`) and then stdin is
left alone and nothing prompts; without SQL it is `-batch`, or else the shell;
`-batch` with two arguments never gets to either, and what it does when SQL is
given is `batchargs`.  The invariant says where the reader stands between
two lines: `start` is the beginning of the line after the one given last
(`Cursor`), and every line given while the input goes on is whole
(`WholeSoFar`).  That there is a first newline in the buffer, which the model
takes with CHOOSE, is `FirstExists`, by well-founded induction on the naturals.

**`RunSQLProofs`**: `TypeCorrect` (no row is printed the result does not have,
whatever the cast to `int` does to the count), `ResultsReleased`,
`ErrorsExplained`, `ColumnsAligned`, `ValuesWhole`, `CsvRead` and `JsonRead`:
every invariant of the run `render`.  The invariant has two parts.  A result in
DuckDB's memory belongs to `runSQL`'s variable, and the variable owns one
exactly while a statement runs, with the shape of the table and, after a
failure, the error (`ResultOwned`, `OwnsWhenBusy`).  And `OutShows` says what
was printed at every step, as a function of the table, the layout and the rows
printed so far (`Lines`): the heading and one line per row, then the ending, or
a single message.  None of the properties of what is printed is inductive, for
they speak of whole outputs; with `OutShows` each becomes a statement about the
layouts, which `RenderProofs` proves for all tables.

**`RenderProofs`** follows a value from its measure to its field.  A cut text is
no longer than asked for, and one that fits is not cut (`PreviewFits`); the
switch that measures a value and the switch that formats it agree for every
type (`MeasureAgrees`); a column is therefore at least as wide as any value that
fits (`ColumnWide`, `DuckboxWide`), although `columnWidth` is a maximum over the
rows, whose existence is `Greatest`; what is padded is as wide as its column and
holds a text that fits (`PaddedToWidth`); so every line is ruled alike
(`TableRuled`) and a fitting value is whole (`RowWhole`).  `CsvFieldReadable` and
`JsonRowReadable` are the two layouts that are read by programs.  For json the
argument is that of a parser: the fields of a row are separated by commas that
cannot occur in a number nor, unescaped, in a string, so a row that is printed
alike is cut in the same places.

**`TextProofs`** has what these need to know of texts.  What a replacement or a
concatenation does to every text takes an induction over the text.  The
library's induction theorems cannot be used with the installed provers, because
they take a predicate; `CountingUp`, `Appending` and `Prepending` take a set of
numbers or texts instead, and follow from the well-foundedness of the naturals.
`FlattenSeq` is defined by a fold, which `PartsExist` and `PartsAgree` replace by
the function of its prefixes.  From these: doubling the quotes is injective
(`DoubledInjective`, `CsvEscapeInjective`) and leaves no quote inside a field at
which a reader would end it (`DoubledUnclosed`, `CsvFieldEnds`); an escaped json
text shows where it ends and what it was (`ClosingInjective`); and lines of
delimited fields that are printed alike have the same texts (`LineReadable`).

Only model-checked: `Termination` and `Exits`, because liveness is beyond the
prover, and the six violations, which are single counterexamples.

## Findings

1. `.mode csv` and the other canonical names store a view into the line buffer
   as the current mode (main.go:507, 419); the buffer is freed at main.go:314
   (or 470, for a file).  Run `mode`.
2. The separator of a csv line is printed before it is set (main.go:853-854,
   868-869): the comma between the first two fields is missing in every line.
   Run `csv`.
3. `formatCell`'s default branch asks for an `int64` first, and that fails for
   nulls only (main.go:1145): dates, timestamps, decimals, lists print as the
   integer they are cast to; the branches below are dead.  Run `values`.
4. After a failed `Prepare`, `PrepareError` is always empty (duckdb.go:190,
   duckdb.c:73-75).  Run `prepare`.
5. The statement object of a failed `duckdb_prepare` is not destroyed
   (duckdb.c:74).  Run `leak`.
6. `-batch` with two arguments runs the second one as SQL and exits with 0
   (main.go:156-158, 174-177), although main.go:181 allows "at most one argument
   (database path)": the message is printed only when the second argument is
   empty.  Run `batchargs`.

Seen while modelling, and asked by no run because no document says otherwise:

* every path out of `main` is `os.Exit`, so the deferred `db.Close()`
  (main.go:165) never runs;
* row counts are cast to `int` (duckdb.c:179), which is why `RowsComplete` needs
  `CountsFit`; the counts of the run `rows` fit;
* the submission of a pending text at the end of the input (main.go:305-307) is
  dead code, for a pending text never ends with `;` (`NothingToFlush`);
* a script cut short by a read error is executed as far as it goes, with exit
  code 0 (main.go:249-252).

## Not modelled

The keyword list and its search (a filter over a constant table, no state); the
spelling of SQL (a `;` at the end of a line ends the statement even inside a
string literal: that is what the code does); `unquotePath`; `--readonly` (a
warning only); the texts of messages, usage and banner; bytes of UTF-8, which
`previewStr` may cut and the widths count; control characters other than the
newline in json strings, which the code leaves as they are; the error and
statement types of `types.go`, constants nothing reads but `StatementSelect`;
the benchmarks.

## Left to do

1. The composition of `Session` with `RunSQL`: the mode's text is what selects
   the layout, so finding 1 would show as a table in the wrong layout.
2. The keywords of `completeSQL`, if they ever depend on the database.
