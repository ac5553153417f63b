------------------------------ MODULE Startup -------------------------------
(***************************************************************************)
(* The process around the interpreter: main decides from the command line  *)
(* what to do (main.go:120-194), and for -batch and the interactive shell  *)
(* the bytes of descriptor 0 become the lines the interpreter is given.    *)
(* There are two ways from bytes to lines: repl reads a line at a time     *)
(* over read(2) (replfd), -batch collects all of stdin and splits it.      *)
(*                                                                         *)
(* A line is the interval of positions it has in the text of stdin, and    *)
(* the bufio reader is the interval of bytes read and not yet returned.    *)
(* What the interpreter does with a line is Session's subject: here it may *)
(* print, leave a statement pending or not, and end the process.           *)
(***************************************************************************)
EXTENDS Integers, Sequences

CONSTANTS
  CmdLines,  \* the command lines the process may be started with
  Texts      \* what stdin may hold: sequences over Chars

NL == "nl"
CR == "cr"
Chars == {"x", NL, CR}

Empty == ""    \* the SQL text of a flag or an argument that gives none

\* bad: the flags do not parse.  c is the text of -c, Empty if it is absent.
CmdLine == [bad : BOOLEAN, help : BOOLEAN, version : BOOLEAN, csv : BOOLEAN,
            json : BOOLEAN, batch : BOOLEAN, c : STRING, args : Seq(STRING)]

ASSUME CmdLinesAssumption == CmdLines \subseteq CmdLine
ASSUME TextsAssumption == Texts \subseteq Seq(Chars)

Memory == ":memory:"
-----------------------------------------------------------------------------
VARIABLES
  cmd, text,  \* the command line and what stdin holds
  phase,   \* "start", "opened", "prompt", "read", "slurp", "split", "exited"
  job,     \* what main decided to do
  db,      \* the database it opened, or "none"
  mode,    \* the initial output mode
  sql,     \* the SQL text of the command line that ran, or "none"
  taken,   \* position of the last byte read from descriptor 0
  start,   \* position of the first byte of the next line
  script,  \* -batch: position of the last byte collected
  given,   \* history: the lines the interpreter was given
  pending, \* a statement is pending in the interpreter
  wrote, seen,  \* what was written to stdout last, and what of it is visible
  code, why     \* exit code, and history: what ended the process

inVars   == <<cmd, text>>
mainVars == <<job, db, mode, sql>>
readVars == <<taken, start, script>>
ttyVars  == <<pending, wrote, seen>>
endVars  == <<code, why>>
vars == <<inVars, phase, mainVars, readVars, given, ttyVars, endVars>>

Init ==
  /\ cmd \in CmdLines /\ text \in Texts
  /\ phase = "start" /\ job = "none" /\ db = "none" /\ mode = "none"
  /\ sql = "none"
  /\ taken = 0 /\ start = 1 /\ script = 0 /\ given = <<>>
  /\ pending = FALSE /\ wrote = "none" /\ seen = "none"
  /\ code = 0 /\ why = "none"

Exit(c, reason) == phase' = "exited" /\ code' = c /\ why' = reason
GoTo(p) == phase' = p /\ UNCHANGED endVars
-----------------------------------------------------------------------------
(***************************************************************************)
(* main: flags that end the process at once, the database, then the SQL of *)
(* the command line, -batch or the interactive shell, in this order.       *)
(***************************************************************************)
Path == IF cmd.args = <<>> THEN Memory ELSE cmd.args[1]

\* Mutant: the positional SQL goes before -c.
ArgumentFirst == IF Len(cmd.args) >= 2 THEN cmd.args[2] ELSE cmd.c

\* Mutant: the positional SQL is not looked at.
FlagOnly == cmd.c

ExecSQL == IF cmd.c = Empty /\ Len(cmd.args) >= 2 THEN cmd.args[2] ELSE cmd.c

InitialMode == IF cmd.json THEN "json" ELSE IF cmd.csv THEN "csv" ELSE "duckbox"

\* A flag that does not parse (flag.ExitOnError), -help or -version.
NoDatabase ==
  /\ phase = "start" /\ (cmd.bad \/ cmd.help \/ cmd.version)
  /\ job' = IF cmd.bad THEN "usage" ELSE IF cmd.help THEN "help" ELSE "version"
  /\ Exit(IF cmd.bad THEN 2 ELSE 0, "main")
  /\ UNCHANGED <<inVars, db, mode, sql, readVars, given, ttyVars>>

Opening == phase = "start" /\ ~cmd.bad /\ ~cmd.help /\ ~cmd.version

OpenDB ==
  /\ Opening
  /\ db' = Path /\ mode' = InitialMode
  /\ GoTo("opened")
  /\ UNCHANGED <<inVars, job, sql, readVars, given, ttyVars>>

OpenDBFails ==
  /\ Opening
  /\ Exit(1, "failure")
  /\ UNCHANGED <<inVars, mainVars, readVars, given, ttyVars>>

RunSQLText ==
  /\ phase = "opened" /\ ExecSQL # Empty
  /\ job' = "sql" /\ sql' = ExecSQL
  /\ Exit(0, "main")
  /\ UNCHANGED <<inVars, db, mode, readVars, given, ttyVars>>

RefuseBatch ==
  /\ phase = "opened" /\ ExecSQL = Empty /\ cmd.batch /\ Len(cmd.args) >= 2
  /\ job' = "refused"
  /\ Exit(1, "main")
  /\ UNCHANGED <<inVars, db, mode, sql, readVars, given, ttyVars>>

\* Mutant: the flag -batch is looked at before -c.
StartBatchFirst ==
  /\ phase = "opened" /\ cmd.batch /\ Len(cmd.args) < 2
  /\ job' = "batch"
  /\ GoTo("slurp")
  /\ UNCHANGED <<inVars, db, mode, sql, readVars, given, ttyVars>>

StartBatch ==
  /\ phase = "opened" /\ ExecSQL = Empty /\ cmd.batch /\ Len(cmd.args) < 2
  /\ job' = "batch"
  /\ GoTo("slurp")
  /\ UNCHANGED <<inVars, db, mode, sql, readVars, given, ttyVars>>

\* The banner is printed, then the loop begins.
StartRepl ==
  /\ phase = "opened" /\ ExecSQL = Empty /\ ~cmd.batch
  /\ job' = "repl" /\ wrote' = "output"
  /\ GoTo("prompt")
  /\ UNCHANGED <<inVars, db, mode, sql, readVars, given, pending, seen>>
-----------------------------------------------------------------------------
(***************************************************************************)
(* The buffered reader over descriptor 0: bufio.ReadString returns the     *)
(* bytes up to a newline, and reads only while it has no newline.          *)
(***************************************************************************)
Breaks  == {p \in start .. taken : text[p] = NL}
HasLine == Breaks # {}
Break   == CHOOSE p \in Breaks : \A q \in Breaks : p <= q

\* read(2), or fread for -batch, delivers some of the bytes there are.
Fill ==
  /\ phase \in {"read", "slurp"} /\ ~HasLine
  /\ \E n \in taken + 1 .. Len(text) : taken' = n
  /\ UNCHANGED <<inVars, phase, mainVars, start, script, given, ttyVars, endVars>>

\* read(2) returns 0: io.EOF with what was read of the last line.
AtEOF == ~HasLine /\ taken = Len(text)

\* TrimSuffix of a carriage return, from the bytes start .. e.
Slice(e) == [from |-> start,
             to   |-> IF e >= start /\ text[e] = CR THEN e - 1 ELSE e]

Give(line) == given' = Append(given, line)

\* What the interpreter makes of a line: it may print, and a statement may
\* be pending afterwards.
Interpret == pending' \in BOOLEAN /\ wrote' \in {wrote, "output"} /\ UNCHANGED seen

\* A command, a failed .open or a failed builder ends the process.
Quit(line) ==
  /\ Give(line)
  /\ \E c \in {0, 1} : Exit(c, "command")
  /\ UNCHANGED ttyVars
-----------------------------------------------------------------------------
(***************************************************************************)
(* repl: print the prompt and flush it, read one line, interpret it.       *)
(***************************************************************************)
\* "D ", or two blanks where a statement is continued.
PromptText == IF pending THEN "blanks" ELSE "D"

\* Mutant: the flush comes before the prompt.
FlushThenPrompt ==
  /\ phase = "prompt"
  /\ wrote' = PromptText /\ seen' = wrote
  /\ GoTo("read")
  /\ UNCHANGED <<inVars, mainVars, readVars, given, pending>>

Prompt ==
  /\ phase = "prompt"
  /\ wrote' = PromptText /\ seen' = PromptText
  /\ GoTo("read")
  /\ UNCHANGED <<inVars, mainVars, readVars, given, pending>>

\* Mutant: a new reader for every line loses what the old one had buffered.
ReadLineFresh ==
  /\ phase = "read" /\ HasLine
  /\ start' = taken + 1
  /\ \/ Give(Slice(Break - 1)) /\ Interpret /\ GoTo("prompt")
     \/ Quit(Slice(Break - 1))
  /\ UNCHANGED <<inVars, mainVars, taken, script>>

ReadLine ==
  /\ phase = "read" /\ HasLine
  /\ start' = Break + 1
  /\ \/ Give(Slice(Break - 1)) /\ Interpret /\ GoTo("prompt")
     \/ Quit(Slice(Break - 1))
  /\ UNCHANGED <<inVars, mainVars, taken, script>>

\* Mutant: the end of stdin ends the loop before its last line is looked at.
DropLastLine ==
  /\ phase = "read" /\ AtEOF
  /\ start' = taken + 1
  /\ Exit(0, "end") /\ UNCHANGED <<given, ttyVars>>
  /\ UNCHANGED <<inVars, mainVars, taken, script>>

\* The last line, maybe empty: repl returns and main exits.
ReadLastLine ==
  /\ phase = "read" /\ AtEOF
  /\ start' = taken + 1
  /\ \/ Give(Slice(taken)) /\ Interpret /\ Exit(0, "end")
     \/ Quit(Slice(taken))
  /\ UNCHANGED <<inVars, mainVars, taken, script>>

\* read(2) fails: what was read of the line is given back and not run.
ReadFails ==
  /\ phase = "read" /\ ~HasLine
  /\ Exit(1, "failure")
  /\ UNCHANGED <<inVars, mainVars, readVars, given, ttyVars>>
-----------------------------------------------------------------------------
(***************************************************************************)
(* -batch: readStdinAll appends line after line to a builder, until stdin  *)
(* ends, it fails, or the builder does; then the text is split.            *)
(***************************************************************************)
\* Mutant: the newline is counted twice.
CollectPastBreak ==
  /\ phase = "slurp" /\ HasLine
  /\ script' = Break + 1 /\ start' = Break + 1
  /\ UNCHANGED <<inVars, phase, mainVars, taken, given, ttyVars, endVars>>

CollectLine ==
  /\ phase = "slurp" /\ HasLine
  /\ script' = Break /\ start' = Break + 1
  /\ UNCHANGED <<inVars, phase, mainVars, taken, given, ttyVars, endVars>>

\* Mutant: io.EOF does not leave the loop.
CollectForever ==
  /\ phase = "slurp" /\ AtEOF
  /\ script' = taken /\ start' = taken + 1
  /\ UNCHANGED <<inVars, phase, mainVars, taken, given, ttyVars, endVars>>

CollectLast ==
  /\ phase = "slurp" /\ AtEOF
  /\ script' = taken /\ start' = 1
  /\ GoTo("split")
  /\ UNCHANGED <<inVars, mainVars, taken, given, ttyVars>>

\* Stdin fails in the middle of a line: what was read of it is appended.
CollectFails ==
  /\ phase = "slurp" /\ ~HasLine
  /\ script' = taken /\ start' = 1 /\ wrote' = "output"
  /\ GoTo("split")
  /\ UNCHANGED <<inVars, mainVars, taken, given, pending, seen>>

\* The builder cannot take a line: reading stops.
BuilderFails ==
  /\ phase = "slurp" /\ (HasLine \/ start <= taken)
  /\ start' = 1
  /\ GoTo("split")
  /\ UNCHANGED <<inVars, mainVars, taken, script, given, ttyVars>>

(***************************************************************************)
(* processScript: a line ends before a newline or at the end of the text.  *)
(***************************************************************************)
ScriptBreaks == {p \in start .. script : text[p] = NL}
ScriptBreak  == CHOOSE p \in ScriptBreaks : \A q \in ScriptBreaks : p <= q

\* Mutant: the line that a newline does not end is left out.
SplitWholeLines ==
  /\ phase = "split" /\ ScriptBreaks = {}
  /\ start' = script + 1
  /\ Exit(0, "end") /\ UNCHANGED <<given, ttyVars>>
  /\ UNCHANGED <<inVars, mainVars, taken, script>>

SplitLine ==
  /\ phase = "split" /\ ScriptBreaks # {}
  /\ start' = ScriptBreak + 1
  /\ \/ Give(Slice(ScriptBreak - 1)) /\ Interpret /\ GoTo("split")
     \/ Quit(Slice(ScriptBreak - 1))
  /\ UNCHANGED <<inVars, mainVars, taken, script>>

SplitLast ==
  /\ phase = "split" /\ ScriptBreaks = {}
  /\ start' = script + 1
  /\ \/ Give(Slice(script)) /\ Interpret /\ Exit(0, "end")
     \/ Quit(Slice(script))
  /\ UNCHANGED <<inVars, mainVars, taken, script>>
-----------------------------------------------------------------------------
Decide == \/ NoDatabase \/ OpenDB \/ RunSQLText \/ RefuseBatch
          \/ StartBatch \/ StartRepl
Repl   == Prompt \/ ReadLine \/ ReadLastLine
Batch  == CollectLine \/ CollectLast \/ SplitLine \/ SplitLast
Fails  == OpenDBFails \/ ReadFails \/ CollectFails \/ BuilderFails

Exited == phase = "exited" /\ UNCHANGED vars

Next == Decide \/ Fill \/ Repl \/ Batch \/ Fails \/ Exited

Spec == Init /\ [][Next]_vars

\* One thread goes on while stdin delivers bytes or its end; nothing obliges
\* a call to fail.
FairSpec == Spec /\ WF_vars(Decide \/ Fill \/ Repl \/ Batch)
-----------------------------------------------------------------------------
(***************************************************************************)
(* Type invariant.                                                         *)
(***************************************************************************)
Jobs == {"none", "usage", "help", "version", "sql", "refused", "batch", "repl"}
Phases == {"start", "opened", "prompt", "read", "slurp", "split", "exited"}

\* Every variable has its type; in particular no position lies outside the
\* text, and a collected script is a part of what was read (main.go:234-257).
TypeOK ==
  /\ cmd \in CmdLines /\ text \in Texts
  /\ phase \in Phases /\ job \in Jobs
  /\ taken \in 0 .. Len(text) /\ start \in 1 .. Len(text) + 1
  /\ script \in 0 .. taken
  /\ given \in Seq([from : 1 .. Len(text) + 1, to : 0 .. Len(text)])
  /\ db \in {"none", Path} /\ sql \in {"none", ExecSQL}
  /\ mode \in {"none", "json", "csv", "duckbox"}
  /\ pending \in BOOLEAN
  /\ wrote \in {"none", "output", "blanks", "D"}
  /\ seen \in {"none", "blanks", "D"}
  /\ code \in 0 .. 2 /\ why \in {"none", "main", "command", "failure", "end"}

(***************************************************************************)
(* Safety.                                                                 *)
(***************************************************************************)
\* Where the lines of a text begin and end, whoever reads it.
Begins(t) == {1} \cup {p + 1 : p \in {q \in DOMAIN t : t[q] = NL}}

Ends(t, b, e) ==
  \E stop \in b - 1 .. Len(t) :
    /\ stop = Len(t) \/ t[stop + 1] = NL
    /\ \A p \in b .. stop : t[p] # NL
    /\ e = IF stop >= b /\ t[stop] = CR THEN stop - 1 ELSE stop

\* The interpreter is given the lines of stdin in order, each once and
\* whole, however read(2) cuts the bytes up, and a script of -batch is given
\* like interactive input (printHelp, main.go:544): only the last line of a
\* script may be cut short, if stdin or the builder failed
\* (main.go:232-258, 278-288, 474-483).
LinesInOrder ==
  \A i \in DOMAIN given :
    LET line == given[i] IN
    /\ line.from \in Begins(text) /\ (i = 1 => line.from = 1)
    /\ i > 1 =>
         /\ given[i - 1].from < line.from
         /\ \A b \in Begins(text) : b <= given[i - 1].from \/ b >= line.from
    /\ \/ Ends(text, line.from, line.to)
       \/ job = "batch" /\ i = Len(given) /\ script < Len(text)

\* When the input was read to its end, no line was left out, the last one
\* without a newline included (main.go:246-252, 341-345, 479).
AllLinesGiven ==
  why = "end" /\ (job = "batch" => script = Len(text)) =>
    /\ given # <<>>
    /\ \A b \in Begins(text) : b <= given[Len(given)].from

\* Whenever read(2) waits for the user, the last thing to be seen is the
\* prompt that tells whether a statement is pending (main.go:271-276,
\* replfd.go:27-30).
PromptVisible ==
  phase = "read" => seen = IF pending THEN "blanks" ELSE "D"

\* The SQL a command line gives, by -c or by a second argument.
GivenSQL ==
  ({cmd.c} \cup {cmd.args[i] : i \in {2} \cap DOMAIN cmd.args}) \ {Empty}

\* -batch with more than the path: printUsage and the message of main disagree
\* about it, see BatchArguments.
TooMany == cmd.batch /\ Len(cmd.args) >= 2

AskedJob ==
  IF GivenSQL # {} THEN "sql" ELSE IF cmd.batch THEN "batch" ELSE "repl"

\* Each command line leads to its job, on the database it names.  SQL runs
\* alone: with -c or a second argument stdin is left alone and nothing prompts,
\* and -c wins over the argument.  Without SQL, -batch reads stdin and never
\* prompts, and without -batch the shell does.  A command line with too many
\* arguments for -batch reads no stdin and does not prompt either.
\* README.md:68: "Interactive REPL (no -c and no SQL argument)"
\* (main.go:149-193).
OneJob ==
  /\ job \in {"sql", "batch", "repl"} /\ ~TooMany => job = AskedJob
  /\ TooMany => job \notin {"batch", "repl"}
  /\ job = "refused" => TooMany
  /\ job \in {"sql", "refused", "batch", "repl"} => db = Path
  /\ job = "sql" => sql \in GivenSQL /\ (cmd.c # Empty => sql = cmd.c)
  /\ taken > 0 \/ given # <<>> => job \in {"batch", "repl"}
  /\ seen # "none" => job = "repl"

\* "-batch allows at most one argument (database path)" (main.go:181): with
\* more of them nothing is run.
BatchArguments == TooMany => job # "sql"

(***************************************************************************)
(* Liveness: a process whose stdin ends exits, whatever its command line   *)
(* (main.go:120-194, 246-252, 341-345).                                    *)
(***************************************************************************)
Exits == <>(phase = "exited")
=============================================================================
