------------------------------ MODULE Session ------------------------------
(***************************************************************************)
(* The command interpreter of soloduck (main.go): the interactive loop     *)
(* repl, the script loop processScript (used by -batch and by .read), the  *)
(* dot and meta commands, and the statement runner runSQL.                 *)
(*                                                                         *)
(* One action is one iteration of one of the two loops, with every call it *)
(* makes; `.read` makes loops nest, so the C call stack is the function    *)
(* `frame` up to `depth`.  A line is abstracted to the three things the    *)
(* interpreter tells apart: its first word (cmd), its argument (arg) and   *)
(* whether its trimmed text ends with ';' (semi).                          *)
(*                                                                         *)
(* Strings are slice-backed (main.go:285): a trimmed line and the argument *)
(* cut out of it are views into the buffer of the line, so the model keeps *)
(* with the output mode the buffer its text lives in.                      *)
(***************************************************************************)
EXTENDS Integers, Sequences

CONSTANTS
  Lines,      \* the lines stdin and the script files may contain
  Args,       \* the arguments of those lines ("" is no argument)
  Files,      \* the readable script files: path -> sequence of lines
  Scripts,    \* the scripts -batch may find on stdin
  StartPath,  \* the database named on the command line
  StartModes, \* the modes the flags may select
  Handles,    \* handles the DuckDB library may return for a connection
  MaxTyped,   \* bound: lines stdin delivers to repl before it reports EOF
  MaxDepth    \* bound: nested interpreter loops the C stack holds

MetaWords == {"help", "quit"}
DotCmds   == {".help", ".quit", ".tables", ".schema", ".open", ".read",
              ".mode", ".complete", ".unknown"}
Cmds      == {"blank", "sql"} \cup MetaWords \cup DotCmds

Blank == [cmd |-> "blank", arg |-> "", semi |-> FALSE]

ASSUME LinesAssumption ==
  /\ Lines \subseteq [cmd : Cmds, arg : Args, semi : BOOLEAN]
  /\ Blank \in Lines
  /\ \A l \in Lines : l.cmd \in MetaWords \cup {"blank"} => ~l.semi

ASSUME InputAssumption ==
  /\ "" \in Args /\ StartPath \in Args
  /\ DOMAIN Files \subseteq Args
  /\ Files \in [DOMAIN Files -> Seq(Lines)]
  /\ Scripts \subseteq Seq(Lines)
  /\ <<>> \notin Scripts            \* an empty text is one blank line
  /\ \A p \in DOMAIN Files : Files[p] # <<>>

ASSUME BoundsAssumption ==
  /\ MaxTyped \in Nat /\ MaxDepth \in Nat \ {0}
  /\ Handles \subseteq Nat \ {0}      \* 0 is the handle of no connection

(***************************************************************************)
(* Output modes.  normalizeMode returns its own argument for the canonical *)
(* names, and a literal for every other spelling it accepts; "CSV" stands  *)
(* for all mixed-case spellings of the canonical names.                    *)
(***************************************************************************)
Modes   == {"csv", "json", "markdown", "duckbox", "column", "ascii"}
AliasOf == [CSV |-> "csv", md |-> "markdown", box |-> "duckbox",
            table |-> "duckbox", pipes |-> "ascii", line |-> "column",
            list |-> "column"]

ASSUME ModesAssumption == StartModes \subseteq Modes

Static == 0     \* a literal of the program
Freed  == -1    \* memory already given back

\* The text of a mode and the buffer that text lives in: a literal, the
\* line or script buffer of frame 1, 2, ..., or memory already freed.
ModeVal == [text : Modes \cup {"unknown"}, buf : Freed .. MaxDepth]

\* Mutant: the literal returned for an alias is cut out of the argument.
ViewOfAlias(arg, buf) ==
  CASE arg \in Modes          -> [text |-> arg, buf |-> buf]
    [] arg \in DOMAIN AliasOf -> [text |-> AliasOf[arg], buf |-> buf]
    [] OTHER                  -> [text |-> "unknown", buf |-> Static]

NormalizeMode(arg, buf) ==
  CASE arg \in Modes          -> [text |-> arg, buf |-> buf]
    [] arg \in DOMAIN AliasOf -> [text |-> AliasOf[arg], buf |-> Static]
    [] OTHER                  -> [text |-> "unknown", buf |-> Static]

\* Freeing buffer b leaves a mode that points into it dangling.
Release(m, b) == IF m.buf = b THEN [m EXCEPT !.buf = Freed] ELSE m

(***************************************************************************)
(* The layout runSQL uses for a result.  Freed memory may hold anything: a *)
(* slice of NameLen[t] bytes then normalizes to any mode with a name that  *)
(* fits (MinLen: "md" and "csv" are the short ones), or to "unknown",      *)
(* which runSQL replaces by "duckbox".                                     *)
(***************************************************************************)
NameLen == [csv |-> 3, json |-> 4, markdown |-> 8, duckbox |-> 7,
            column |-> 6, ascii |-> 5]
MinLen  == [csv |-> 3, json |-> 4, markdown |-> 2, duckbox |-> 0,
            column |-> 4, ascii |-> 5]

Rendered(m) ==
  IF m.buf = Freed THEN {o \in Modes : MinLen[o] <= NameLen[m.text]}
                   ELSE {m.text}
-----------------------------------------------------------------------------
VARIABLES
  status,  \* "start", "opened", "running", "exit0", "exit1" or "crash"
  depth,   \* number of interpreter loops on the C stack
  frame,   \* the loops, the innermost at depth; frame[0] stands for main
  typed,   \* lines stdin delivered to repl; MaxTyped once it is at its end
  conn,    \* main's Conn: the handle and the path it was opened with
  live,    \* connections DuckDB holds open
  mode,    \* the current output mode
  wanted,  \* history: the mode the user asked for last
  runs,    \* history: number of SQL texts handed to DuckDB
  last     \* history: the last of them, where and how it ran

vars == <<status, depth, frame, typed, conn, live, mode, wanted, runs, last>>
sqlVars  == <<runs, last>>
connVars == <<conn, live>>

Frame == [kind : {"none", "repl", "script"}, rest : Seq(Lines),
          acc : Seq(Lines), eof : BOOLEAN]
NoFrame == [kind |-> "none", rest |-> <<>>, acc |-> <<>>, eof |-> FALSE]

top == frame[depth]

NoConn == [handle |-> 0, path |-> ""]
NoRun  == [src |-> "none", sql |-> <<>>, path |-> "", wanted |-> "duckbox",
           shown |-> "none"]

Init ==
  /\ status = "start" /\ depth = 0 /\ typed = 0 /\ runs = 0
  /\ frame = [d \in 0 .. MaxDepth |-> NoFrame]
  /\ conn = NoConn /\ live = {}
  /\ mode = [text |-> "duckbox", buf |-> Static] /\ wanted = "duckbox"
  /\ last = NoRun

(***************************************************************************)
(* Running SQL.  DuckDB may fail the text or report that it is no SELECT   *)
(* (shown = "none"), or return rows, printed in the layout of the mode.    *)
(***************************************************************************)
RunSQL(src, sql) ==
  IF \A i \in DOMAIN sql : sql[i].cmd = "blank"
  THEN UNCHANGED sqlVars
  ELSE \E shown \in {"none"} \cup Rendered(mode) :
         /\ last' = [src |-> src, sql |-> sql, path |-> conn.path,
                     wanted |-> wanted, shown |-> shown]
         /\ runs' = runs + 1

(***************************************************************************)
(* main: open the database, then run the SQL argument, the script on stdin *)
(* or the interactive loop.                                                *)
(***************************************************************************)
OpenDB(h, m) ==
  /\ status = "start"
  /\ status' = "opened"
  /\ conn' = [handle |-> h, path |-> StartPath] /\ live' = {h}
  /\ mode' = [text |-> m, buf |-> Static] /\ wanted' = m
  /\ UNCHANGED <<depth, frame, typed, sqlVars>>

OpenDBFails ==
  /\ status = "start"
  /\ status' = "exit1"
  /\ UNCHANGED <<depth, frame, typed, connVars, mode, wanted, sqlVars>>

RunArgument(l) ==
  /\ status = "opened"
  /\ RunSQL("argument", <<l>>)
  /\ status' = "exit0"
  /\ UNCHANGED <<depth, frame, typed, connVars, mode, wanted>>

StartLoop(kind, script) ==
  /\ status = "opened"
  /\ status' = "running" /\ depth' = 1
  /\ frame' = [frame EXCEPT ![1] = [NoFrame EXCEPT !.kind = kind,
                                                   !.rest = script]]
  /\ UNCHANGED <<typed, connVars, mode, wanted, sqlVars>>

StartRepl  == StartLoop("repl", <<>>)
StartBatch == \E s \in Scripts : StartLoop("script", s)

(***************************************************************************)
(* Where the loops get their lines.  ReadString returns a line and whether *)
(* stdin ended with it; a script is split at its newlines.                 *)
(***************************************************************************)
NextLine(l, eof) ==
  /\ status = "running"
  /\ \/ /\ top.kind = "repl" /\ typed < MaxTyped
        /\ typed' = IF eof THEN MaxTyped ELSE typed + 1
     \/ top.kind = "repl" /\ l = Blank /\ eof /\ typed' = MaxTyped
     \/ /\ top.kind = "script" /\ top.rest # <<>>
        /\ l = Head(top.rest) /\ ~eof
        /\ UNCHANGED typed

\* Stdin failed: repl reports it and exits.
ReadFails ==
  /\ status = "running" /\ top.kind = "repl"
  /\ status' = "exit1"
  /\ UNCHANGED <<depth, frame, typed, connVars, mode, wanted, sqlVars>>

(***************************************************************************)
(* The end of an iteration: acc is the pending text, m the mode the        *)
(* handler left.  repl frees the buffer of the line, and returns to main   *)
(* (which exits) if the line was the last one.                             *)
(***************************************************************************)
EndLine(acc, m, eof) ==
  /\ frame' = [frame EXCEPT ![depth].acc = acc,
                            ![depth].rest = IF @ = <<>> THEN @ ELSE Tail(@)]
  /\ mode' = IF top.kind = "repl" THEN Release(m, depth) ELSE m
  /\ status' = IF eof THEN "exit0" ELSE "running"
  /\ UNCHANGED depth

(***************************************************************************)
(* End of stdin on an empty line (repl tests this before anything else).   *)
(* The submission of a pending text that ends with ';' is in the code.     *)
(***************************************************************************)
EndsStatement(acc) ==
  \E i \in DOMAIN acc : /\ acc[i].semi
                        /\ \A j \in DOMAIN acc : j > i => acc[j].cmd = "blank"

AtEof(l, eof) == top.kind = "repl" /\ eof /\ l.cmd = "blank"

\* Mutant: `continue` where repl returns.
EofIdleContinues(l, eof) ==
  /\ AtEof(l, eof) /\ top.acc = <<>>
  /\ EndLine(<<>>, mode, FALSE)
  /\ UNCHANGED <<connVars, wanted, sqlVars>>

EofIdle(l, eof) ==
  /\ AtEof(l, eof) /\ top.acc = <<>>
  /\ EndLine(<<>>, mode, TRUE)
  /\ UNCHANGED <<connVars, wanted, sqlVars>>

\* Mutant: the pending text is submitted whether or not it is complete.
EofPendingRuns(l, eof) ==
  /\ AtEof(l, eof) /\ top.acc # <<>>
  /\ RunSQL("lines", top.acc)
  /\ EndLine(<<>>, mode, TRUE)
  /\ UNCHANGED <<connVars, wanted>>

EofPending(l, eof) ==
  /\ AtEof(l, eof) /\ top.acc # <<>>
  /\ IF EndsStatement(top.acc) THEN RunSQL("lines", top.acc)
                               ELSE UNCHANGED sqlVars
  /\ EndLine(<<>>, mode, TRUE)
  /\ UNCHANGED <<connVars, wanted>>

(***************************************************************************)
(* handleDot and handleMeta: tried only while no statement is pending.     *)
(***************************************************************************)
AtPrompt == top.acc = <<>>

\* Mutant: dot commands are honoured in the middle of a statement too.
IsDotAnywhere(l) == l.cmd \in DotCmds

IsDot(l) == AtPrompt /\ l.cmd \in DotCmds

\* os.Exit: no deferred call runs, the connection stays open.
Quit(l) ==
  /\ \/ IsDot(l) /\ l.cmd = ".quit"
     \/ AtPrompt /\ l.cmd = "quit"
  /\ status' = "exit0"
  /\ UNCHANGED <<depth, frame, connVars, mode, wanted, sqlVars>>

\* .help, .complete, an unknown command, help, or a blank line: only output.
NoEffect(l, eof) ==
  /\ ~AtEof(l, eof)
  /\ \/ IsDot(l) /\ l.cmd \in {".help", ".complete", ".unknown"}
     \/ AtPrompt /\ l.cmd \in {"help", "blank"}
  /\ EndLine(<<>>, mode, eof)
  /\ UNCHANGED <<connVars, wanted, sqlVars>>

\* .tables and .schema run one statement the interpreter builds itself.
DotQuery(l, eof) ==
  /\ IsDot(l) /\ l.cmd \in {".tables", ".schema"}
  /\ RunSQL("command", <<l>>)
  /\ EndLine(top.acc, mode, eof)
  /\ UNCHANGED <<connVars, wanted>>

\* Mutant: the mode is set without testing for "unknown".
DotModeUnchecked(l, eof) ==
  /\ IsDot(l) /\ l.cmd = ".mode"
  /\ wanted' = wanted
  /\ EndLine(top.acc, NormalizeMode(l.arg, depth), eof)
  /\ UNCHANGED <<connVars, sqlVars>>

\* Mutant: handleDot gets the mode by value, so the caller keeps its own.
DotModeByValue(l, eof) ==
  /\ IsDot(l) /\ l.cmd = ".mode"
  /\ LET nm == NormalizeMode(l.arg, depth)
     IN wanted' = IF nm.text # "unknown" THEN nm.text ELSE wanted
  /\ EndLine(top.acc, mode, eof)
  /\ UNCHANGED <<connVars, sqlVars>>

DotMode(l, eof) ==
  /\ IsDot(l) /\ l.cmd = ".mode"
  /\ LET nm == NormalizeMode(l.arg, depth)
         ok == nm.text # "unknown"
     IN /\ wanted' = IF ok THEN nm.text ELSE wanted
        /\ EndLine(top.acc, IF ok THEN nm ELSE mode, eof)
  /\ UNCHANGED <<connVars, sqlVars>>

(***************************************************************************)
(* .open: reopenDB closes the current connection first, then opens the new *)
(* one (in memory for an empty path); it exits when that fails.            *)
(***************************************************************************)
\* Mutant: the current connection is not closed before the new one opens.
ReopenLeaks(h, path) ==
  /\ h \notin live
  /\ conn' = [handle |-> h, path |-> path]
  /\ live' = live \cup {h}

Reopen(h, path) ==
  /\ h \notin live \ {conn.handle}
  /\ conn' = [handle |-> h, path |-> path]
  /\ live' = (live \ {conn.handle}) \cup {h}

DotOpen(l, eof) ==
  /\ IsDot(l) /\ l.cmd = ".open"
  /\ \E h \in Handles : Reopen(h, l.arg)
  /\ EndLine(top.acc, mode, eof)
  /\ UNCHANGED <<wanted, sqlVars>>

DotOpenFails(l) ==
  /\ IsDot(l) /\ l.cmd = ".open"
  /\ live' = live \ {conn.handle}
  /\ status' = "exit1"
  /\ UNCHANGED <<depth, frame, conn, mode, wanted, sqlVars>>

(***************************************************************************)
(* .read: a nested script loop.  The calling loop has consumed its line,   *)
(* but its iteration ends only when the nested loop returns.               *)
(***************************************************************************)
\* No argument, or the file cannot be read: nothing but a message.
DotReadNothing(l, eof) ==
  /\ IsDot(l) /\ l.cmd = ".read"
  /\ EndLine(top.acc, mode, eof)
  /\ UNCHANGED <<connVars, wanted, sqlVars>>

\* Mutant: the nested loop is given the text of the loop that calls it.
DotReadOwnText(l, eof) ==
  /\ IsDot(l) /\ l.cmd = ".read"
  /\ l.arg \in DOMAIN Files /\ depth < MaxDepth
  /\ depth' = depth + 1
  /\ frame' = [frame EXCEPT
        ![depth].eof  = eof,
        ![depth].rest = IF @ = <<>> THEN @ ELSE Tail(@),
        ![depth + 1]  = [NoFrame EXCEPT
                           !.kind = "script",
                           !.rest = IF top.rest = <<>> THEN Files[l.arg]
                                                       ELSE top.rest]]
  /\ UNCHANGED <<status, connVars, mode, wanted, sqlVars>>

DotRead(l, eof) ==
  /\ IsDot(l) /\ l.cmd = ".read"
  /\ l.arg \in DOMAIN Files /\ depth < MaxDepth
  /\ depth' = depth + 1
  /\ frame' = [frame EXCEPT
        ![depth].eof  = eof,
        ![depth].rest = IF @ = <<>> THEN @ ELSE Tail(@),
        ![depth + 1]  = [NoFrame EXCEPT !.kind = "script",
                                        !.rest = Files[l.arg]]]
  /\ UNCHANGED <<status, connVars, mode, wanted, sqlVars>>

\* Files that read one another without end exhaust the C stack.
StackOverflow(l) ==
  /\ IsDot(l) /\ l.cmd = ".read"
  /\ l.arg \in DOMAIN Files /\ depth = MaxDepth
  /\ status' = "crash"
  /\ UNCHANGED <<depth, frame, connVars, mode, wanted, sqlVars>>

(***************************************************************************)
(* A script loop returns: its pending text is dropped and its buffer freed.*)
(* main then exits; repl ends the iteration that read the file.            *)
(***************************************************************************)
\* Mutant: the pending text of the script is left to the calling loop.
ReturnToCallerKeeping ==
  LET caller == frame[depth - 1]
      m      == Release(mode, depth)
  IN /\ depth' = depth - 1
     /\ frame' = [frame EXCEPT ![depth] = NoFrame, ![depth - 1].acc = top.acc]
     /\ mode' = IF caller.kind = "repl" THEN Release(m, depth - 1) ELSE m
     /\ status' = IF caller.kind = "none" \/ caller.eof THEN "exit0"
                                                        ELSE "running"

ReturnToCaller ==
  LET caller == frame[depth - 1]
      m      == Release(mode, depth)
  IN /\ depth' = depth - 1
     /\ frame' = [frame EXCEPT ![depth] = NoFrame]
     /\ mode' = IF caller.kind = "repl" THEN Release(m, depth - 1) ELSE m
     /\ status' = IF caller.kind = "none" \/ caller.eof THEN "exit0"
                                                        ELSE "running"

EndScript ==
  /\ status = "running" /\ top.kind = "script" /\ top.rest = <<>>
  /\ ReturnToCaller
  /\ UNCHANGED <<typed, connVars, wanted, sqlVars>>

(***************************************************************************)
(* Every other line is SQL text: writeLine appends it to the pending text, *)
(* and a line ending with ';' submits the text.                            *)
(***************************************************************************)
IsText(l, eof) == /\ ~AtEof(l, eof)
                  /\ ~IsDot(l)
                  /\ ~(AtPrompt /\ l.cmd \in MetaWords \cup {"blank"})

\* Mutant: the test for the ';' at the end of the line is missing.
AddEveryLine(l, eof) ==
  /\ IsText(l, eof)
  /\ EndLine(Append(top.acc, l), mode, eof)
  /\ UNCHANGED <<connVars, wanted, sqlVars>>

AddLine(l, eof) ==
  /\ IsText(l, eof) /\ ~l.semi
  /\ EndLine(Append(top.acc, l), mode, eof)
  /\ UNCHANGED <<connVars, wanted, sqlVars>>

\* Mutant: the builder is not reset after the statement ran.
SubmitWithoutReset(l, eof) ==
  /\ IsText(l, eof) /\ l.semi
  /\ RunSQL("lines", Append(top.acc, l))
  /\ EndLine(Append(top.acc, l), mode, eof)
  /\ UNCHANGED <<connVars, wanted>>

Submit(l, eof) ==
  /\ IsText(l, eof) /\ l.semi
  /\ RunSQL("lines", Append(top.acc, l))
  /\ EndLine(<<>>, mode, eof)
  /\ UNCHANGED <<connVars, wanted>>

\* The builder cannot take the line: repl exits, a script loop returns.
WriteFails(l, eof) ==
  /\ IsText(l, eof)
  /\ IF top.kind = "repl"
     THEN status' = "exit1" /\ UNCHANGED <<depth, frame, mode>>
     ELSE ReturnToCaller
  /\ UNCHANGED <<connVars, wanted, sqlVars>>

DoLine(l, eof) ==
  \/ EofIdle(l, eof) \/ EofPending(l, eof)
  \/ Quit(l) \/ NoEffect(l, eof)
  \/ DotQuery(l, eof) \/ DotMode(l, eof)
  \/ DotOpen(l, eof) \/ DotOpenFails(l)
  \/ DotReadNothing(l, eof) \/ DotRead(l, eof) \/ StackOverflow(l)
  \/ AddLine(l, eof) \/ Submit(l, eof) \/ WriteFails(l, eof)

Iterate == \E l \in Lines, eof \in BOOLEAN : NextLine(l, eof) /\ DoLine(l, eof)

Stopped == status \in {"exit0", "exit1", "crash"} /\ UNCHANGED vars

Main ==
  \/ \E h \in Handles, m \in StartModes : OpenDB(h, m)
  \/ \E l \in Lines : RunArgument(l)
  \/ StartRepl \/ StartBatch

Next == Main \/ OpenDBFails \/ Iterate \/ ReadFails \/ EndScript \/ Stopped

Spec == Init /\ [][Next]_vars

\* One thread that is not blocked goes on.  A failure to open the database
\* or to read stdin may end the process, but is never what must happen.
FairSpec == Spec /\ WF_vars(Main \/ Iterate \/ EndScript)
-----------------------------------------------------------------------------
(***************************************************************************)
(* Type invariant.                                                         *)
(***************************************************************************)
Statuses == {"start", "opened", "running", "exit0", "exit1", "crash"}

Run == [src : {"none", "argument", "command", "lines"}, sql : Seq(Lines),
        path : Args, wanted : Modes, shown : Modes \cup {"none"}]

\* Every variable has its type; in particular the mode is never "unknown"
\* and never a view into a buffer beyond the deepest loop (main.go:409-423).
TypeOK ==
  /\ status \in Statuses
  /\ depth \in 0 .. MaxDepth
  /\ frame \in [0 .. MaxDepth -> Frame]
  /\ typed \in 0 .. MaxTyped
  /\ conn.handle \in Handles \cup {0} /\ conn.path \in Args
  /\ conn = [handle |-> conn.handle, path |-> conn.path]
  /\ live \subseteq Handles
  /\ mode \in [text : Modes, buf : Freed .. MaxDepth]
  /\ wanted \in Modes
  /\ runs \in Nat
  /\ last \in Run

(***************************************************************************)
(* Safety.                                                                 *)
(***************************************************************************)
\* While commands are interpreted DuckDB holds exactly one connection open,
\* the one main's Conn names: reopenDB neither leaks the old connection nor
\* leaves the interpreter on a closed one (main.go:443-462).
OneConnection == status \in {"opened", "running"} => live = {conn.handle}

\* No statement continues across the beginning or the end of a file: a loop
\* starts with nothing pending, and so does the loop it returns to, because
\* .read is honoured at a prompt only and what the file leaves pending is
\* dropped (main.go:313, 464-476, 484).
FilesApart == [][depth' # depth => top'.acc = <<>>]_vars

\* What is submitted from typed or read lines is one whole statement: its
\* last line and no other ends with ';', and it does not begin with a blank
\* line, a dot command or a meta word (main.go:313-338, 484-500).
Whole(sql) ==
  /\ sql # <<>>
  /\ \A i \in DOMAIN sql : sql[i].semi <=> i = Len(sql)
  /\ sql[1].cmd = "sql"

WholeStatements == last.src = "lines" => Whole(last.sql)

\* The pending text is never complete between two iterations, so the
\* submission in repl's end-of-input branch (main.go:305-307) never happens.
PendingIncomplete ==
  \A d \in 0 .. MaxDepth : ~EndsStatement(frame[d].acc)

\* A result is printed in the mode the user chose last (main.go:416-421).
ModeKept == last.shown \in {"none", last.wanted}

\* Scripts that do not read one another in a circle never exhaust the stack.
NoOverflow == status # "crash"

(***************************************************************************)
(* Liveness: once stdin ends the process ends (main.go:293-311, 341-345).  *)
(***************************************************************************)
Termination == <>(status \in {"exit0", "exit1", "crash"})

(***************************************************************************)
(* Refinement: nested loops behave as one shell reading one stream of      *)
(* lines; the pending text of that shell is the one of the innermost loop. *)
(***************************************************************************)
Promise == INSTANCE Shell WITH
  up      <- status \in {"opened", "running"},
  db      <- conn.path,
  pending <- top.acc,
  count   <- runs,
  text    <- last.sql,
  ranOn   <- last.path

PromiseSpec == Promise!Spec
=============================================================================
