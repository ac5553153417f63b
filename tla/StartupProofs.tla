---------------------------- MODULE StartupProofs ---------------------------
(***************************************************************************)
(* Proofs about Startup, for all command lines and all texts of stdin: its *)
(* type invariant and its safety invariants.                               *)
(*                                                                         *)
(* The invariant says where the reader stands between two lines: start is  *)
(* the beginning of a line, the one that follows the line given last       *)
(* (Cursor), and every line given while the input goes on is whole         *)
(* (WholeSoFar): only the line that ends the process may be cut short.     *)
(***************************************************************************)
EXTENDS Startup, SequenceTheorems, WellFoundedInduction, TLAPS

Lines == [from : 1 .. Len(text) + 1, to : 0 .. Len(text)]

\* What main decided, and what follows from it.
Decided ==
  /\ phase \in {"start", "opened"} => job = "none"
  /\ phase \in {"prompt", "read"} => job = "repl"
  /\ phase \in {"slurp", "split"} => job = "batch"
  /\ phase # "exited" => why = "none"
  /\ phase = "opened" => db = Path
  /\ job \in {"sql", "refused", "batch", "repl"} => db = Path
  /\ job \in {"batch", "repl"} => ExecSQL = Empty
  /\ job \notin {"batch", "repl"} => taken = 0 /\ given = <<>>
  /\ job # "sql" => sql = "none"
  /\ job = "sql" => sql = ExecSQL /\ ExecSQL # Empty
  /\ job = "batch" => cmd.batch /\ Len(cmd.args) < 2
  /\ job = "refused" => TooMany
  /\ job # "repl" => seen = "none"
  /\ job = "repl" => ~cmd.batch

\* A line that begins at s follows the lines of g.
Follows(g, t, s) ==
  IF g = <<>> THEN s = 1
  ELSE /\ g[Len(g)].from < s
       /\ \A b \in Begins(t) : b <= g[Len(g)].from \/ b >= s

Cursor ==
  /\ start \in Begins(text)
  /\ phase \in {"start", "opened"} => start = 1
  /\ phase \in {"prompt", "read", "slurp"} => start <= taken + 1
  /\ phase = "slurp" => given = <<>> /\ script = start - 1
  /\ phase = "split" => start <= script + 1
  /\ phase \in {"prompt", "read", "split"} => Follows(given, text, start)

WholeSoFar == \A i \in DOMAIN given : Ends(text, given[i].from, given[i].to)

\* The part of LinesInOrder that is about the beginnings of lines.
Chain(g, t) ==
  \A i \in DOMAIN g :
    /\ g[i].from \in Begins(t) /\ (i = 1 => g[i].from = 1)
    /\ i > 1 =>
         /\ g[i - 1].from < g[i].from
         /\ \A b \in Begins(t) : b <= g[i - 1].from \/ b >= g[i].from

-----------------------------------------------------------------------------
(***************************************************************************)
(* Lines of a text.                                                        *)
(***************************************************************************)
\* A set of positions that is not empty has a first one.
LEMMA FirstExists ==
  ASSUME NEW S, S \subseteq Nat, S # {}
  PROVE  \E p \in S : \A q \in S : p <= q
<1>1. PICK p \in S : \A q \in S : ~(<<q, p>> \in OpToRel(<, Nat))
  BY NatLessThanWellFounded, WFMin
<1>2. \A q \in S : ~(q < p)
  BY <1>1 DEF OpToRel
<1> QED BY <1>2

\* What the types say of the positions in the text.
LEMMA TextFacts ==
  ASSUME TypeOK
  PROVE  /\ text \in Seq(Chars) /\ Len(text) \in Nat /\ DOMAIN text = 1 .. Len(text)
         /\ taken \in Nat /\ script \in Nat /\ start \in Nat
         /\ start >= 1 /\ taken <= Len(text) /\ script <= taken
         /\ start <= Len(text) + 1
<1>1. text \in Seq(Chars)
  BY TextsAssumption DEF TypeOK
<1>2. Len(text) \in Nat /\ DOMAIN text = 1 .. Len(text)
  BY <1>1
<1>3. /\ taken \in 0 .. Len(text) /\ script \in 0 .. taken
      /\ start \in 1 .. Len(text) + 1
  BY DEF TypeOK
<1>4. taken \in Nat /\ taken <= Len(text)
  BY <1>2, <1>3
<1> QED BY <1>1, <1>2, <1>3, <1>4

\* The first newline among the bytes read and not yet returned.
LEMMA BreakIsFirst ==
  ASSUME TypeOK, HasLine
  PROVE  /\ Break \in start .. taken /\ text[Break] = NL
         /\ \A q \in start .. taken : text[q] = NL => Break <= q
<1>1. Breaks \subseteq Nat /\ Breaks # {}
  BY TextFacts DEF Breaks, HasLine
<1>2. \E p \in Breaks : \A q \in Breaks : p <= q
  BY <1>1, FirstExists
<1>3. Break \in Breaks /\ \A q \in Breaks : Break <= q
  BY <1>2 DEF Break
<1> QED BY <1>3 DEF Breaks

\* ScriptBreak, chosen as the least one, is the first newline left in the
\* script.
LEMMA ScriptBreakIsFirst ==
  ASSUME TypeOK, ScriptBreaks # {}
  PROVE  /\ ScriptBreak \in start .. script /\ text[ScriptBreak] = NL
         /\ \A q \in start .. script : text[q] = NL => ScriptBreak <= q
<1>1. ScriptBreaks \subseteq Nat
  BY TextFacts DEF ScriptBreaks
<1>2. \E p \in ScriptBreaks : \A q \in ScriptBreaks : p <= q
  BY <1>1, FirstExists
<1>3. ScriptBreak \in ScriptBreaks /\ \A q \in ScriptBreaks : ScriptBreak <= q
  BY <1>2 DEF ScriptBreak
<1> QED BY <1>3 DEF ScriptBreaks

\* What Slice cuts out is a line of the text when a newline or the end of
\* the text follows it and no newline is in it.
LEMMA SliceIsWhole ==
  ASSUME TypeOK, NEW e \in start - 1 .. Len(text),
         e = Len(text) \/ text[e + 1] = NL,
         \A p \in start .. e : text[p] # NL
  PROVE  Ends(text, Slice(e).from, Slice(e).to)
<1>1. /\ Slice(e).from = start
      /\ Slice(e).to = IF e >= start /\ text[e] = CR THEN e - 1 ELSE e
  BY DEF Slice
<1> QED BY <1>1 DEF Ends

\* What is cut out of the text is a line.
LEMMA SliceType ==
  ASSUME TypeOK, NEW e \in 0 .. Len(text)
  PROVE  Slice(e) \in Lines
BY TextFacts DEF Slice, Lines

\* A line that follows the last one may be appended.
LEMMA ChainAppend ==
  ASSUME NEW t, NEW L, NEW g \in Seq(L), NEW line \in L,
         Chain(g, t), Follows(g, t, line.from), line.from \in Begins(t)
  PROVE  Chain(Append(g, line), t)
<1> DEFINE h == Append(g, line)
<1>1. /\ DOMAIN h = 1 .. Len(g) + 1 /\ h[Len(g) + 1] = line
      /\ \A i \in 1 .. Len(g) : h[i] = g[i]
      /\ DOMAIN g = 1 .. Len(g) /\ Len(g) \in Nat
  OBVIOUS
<1> SUFFICES ASSUME NEW i \in 1 .. Len(g) + 1
             PROVE  /\ h[i].from \in Begins(t) /\ (i = 1 => h[i].from = 1)
                    /\ i > 1 =>
                         /\ h[i - 1].from < h[i].from
                         /\ \A b \in Begins(t) :
                              b <= h[i - 1].from \/ b >= h[i].from
  BY <1>1 DEF Chain
<1> HIDE DEF h
<1>2. CASE i <= Len(g)
  <2>1. h[i] = g[i] /\ i \in DOMAIN g /\ (i > 1 => h[i - 1] = g[i - 1])
    BY <1>1, <1>2
  <2> QED BY <2>1 DEF Chain
<1>3. CASE i = Len(g) + 1
  <2>1. h[i] = line /\ (i > 1 => h[i - 1] = g[Len(g)] /\ g # <<>>)
    BY <1>1, <1>3
  <2>2. i = 1 => g = <<>>
    BY <1>3
  <2> QED BY <2>1, <2>2 DEF Follows
<1> QED BY <1>2, <1>3

\* After a line that a newline at p ends comes the one that begins behind p.
LEMMA NextFollows ==
  ASSUME TypeOK, NEW line \in Lines, line.from = start,
         NEW p \in start .. Len(text), text[p] = NL,
         \A q \in start .. Len(text) : text[q] = NL => p <= q
  PROVE  p + 1 \in Begins(text) /\ Follows(Append(given, line), text, p + 1)
<1>1. given \in Seq(Lines)
  BY DEF TypeOK, Lines
<1>2. /\ Append(given, line) # <<>>
      /\ Append(given, line)[Len(Append(given, line))] = line
  BY <1>1
<1>3. p \in DOMAIN text
  BY TextFacts
<1>4. \A b \in Begins(text) : b <= start \/ b >= p + 1
  BY TextFacts DEF Begins
<1> QED BY <1>2, <1>3, <1>4, TextFacts DEF Follows, Begins

-----------------------------------------------------------------------------
(***************************************************************************)
(* Types.                                                                  *)
(***************************************************************************)
LEMMA SameCommand ==
  ASSUME UNCHANGED inVars
  PROVE  Path' = Path /\ ExecSQL' = ExecSQL /\ TooMany' = TooMany /\ cmd' = cmd
BY DEF inVars, Path, ExecSQL, TooMany

\* The initial states are well typed.
LEMMA TypeInit == Init => TypeOK
<1> SUFFICES ASSUME Init PROVE TypeOK
  OBVIOUS
<1>1. text \in Seq(Chars)
  BY TextsAssumption DEF Init
<1>2. given \in Seq([from : 1 .. Len(text) + 1, to : 0 .. Len(text)])
  BY DEF Init
<1>3. /\ taken \in 0 .. Len(text) /\ start \in 1 .. Len(text) + 1
      /\ script \in 0 .. taken
  BY <1>1 DEF Init
<1>4. code \in 0 .. 2
  BY DEF Init
<1> QED BY <1>1, <1>2, <1>3, <1>4 DEF Init, TypeOK, Phases, Jobs

\* Giving the line that ends at e leaves the lines typed.
LEMMA GiveType ==
  ASSUME TypeOK, NEW e \in 0 .. Len(text), Give(Slice(e)), UNCHANGED inVars
  PROVE  given' \in Seq([from : 1 .. Len(text') + 1, to : 0 .. Len(text')])
<1>1. given \in Seq(Lines) /\ Slice(e) \in Lines
  <2>1. given \in Seq(Lines)
    BY DEF TypeOK, Lines
  <2> QED BY <2>1, SliceType
<1>2. given' \in Seq(Lines)
  BY <1>1 DEF Give
<1> QED BY <1>2 DEF Lines, inVars

\* The choices of main keep the types (main.go:120-194).
LEMMA TypeDecide == TypeOK /\ Decide => TypeOK'
<1> SUFFICES ASSUME TypeOK, Decide PROVE TypeOK'
  OBVIOUS
<1>1. CASE NoDatabase
  <2>1. /\ phase' \in Phases /\ code' \in 0 .. 2
        /\ why' \in {"none", "main", "command", "failure", "end"}
    BY <1>1 DEF NoDatabase, Exit, Phases
  <2>2. job' \in Jobs
    BY <1>1 DEF NoDatabase, Jobs
  <2> QED BY <1>1, <2>1, <2>2, SameCommand DEF NoDatabase, TypeOK, inVars, readVars, ttyVars
<1>2. CASE OpenDB
  BY <1>2, SameCommand DEF OpenDB, TypeOK, GoTo, InitialMode, endVars, inVars, readVars, ttyVars,
         Phases, Jobs
<1>3. CASE RunSQLText
  <2>1. /\ phase' \in Phases /\ code' \in 0 .. 2
        /\ why' \in {"none", "main", "command", "failure", "end"}
    BY <1>3 DEF RunSQLText, Exit, Phases
  <2>2. job' \in Jobs /\ sql' = ExecSQL
    BY <1>3 DEF RunSQLText, Jobs
  <2> QED BY <1>3, <2>1, <2>2, SameCommand DEF RunSQLText, TypeOK, inVars, readVars, ttyVars
<1>4. CASE RefuseBatch
  <2>1. /\ phase' \in Phases /\ code' \in 0 .. 2
        /\ why' \in {"none", "main", "command", "failure", "end"}
    BY <1>4 DEF RefuseBatch, Exit, Phases
  <2>2. job' \in Jobs
    BY <1>4 DEF RefuseBatch, Jobs
  <2> QED BY <1>4, <2>1, <2>2, SameCommand DEF RefuseBatch, TypeOK, inVars, readVars, ttyVars
<1>5. CASE StartBatch
  BY <1>5, SameCommand DEF StartBatch, TypeOK, GoTo, endVars, inVars, readVars, ttyVars,
              Phases, Jobs
<1>6. CASE StartRepl
  BY <1>6, SameCommand DEF StartRepl, TypeOK, GoTo, endVars, inVars, readVars, Phases, Jobs
<1> QED BY <1>1, <1>2, <1>3, <1>4, <1>5, <1>6 DEF Decide

\* The reader of repl keeps the types: no position leaves the text
\* (main.go:260-347).
LEMMA TypeRead == TypeOK /\ (Fill \/ Repl \/ ReadFails) => TypeOK'
<1> SUFFICES ASSUME TypeOK, Fill \/ Repl \/ ReadFails PROVE TypeOK'
  OBVIOUS
<1> USE TextFacts
<1>1. CASE Fill
  <2>1. taken' \in 0 .. Len(text) /\ script \in 0 .. taken'
    BY <1>1 DEF Fill
  <2> QED BY <1>1, <2>1, SameCommand DEF Fill, TypeOK, inVars, mainVars, ttyVars, endVars
<1>2. CASE Prompt
  BY <1>2, SameCommand DEF Prompt, TypeOK, GoTo, PromptText, inVars, mainVars, readVars,
              endVars, Phases
<1>3. CASE ReadLine
  <2>1. Break \in start .. taken
    BY <1>3, BreakIsFirst DEF ReadLine
  <2>2. Give(Slice(Break - 1)) /\ UNCHANGED inVars
    BY <1>3 DEF ReadLine, Quit
  <2>3. given' \in Seq([from : 1 .. Len(text') + 1, to : 0 .. Len(text')])
    BY <2>1, <2>2, GiveType
  <2>4. start' \in 1 .. Len(text) + 1
    BY <1>3, <2>1 DEF ReadLine
  <2>5. /\ phase' \in Phases /\ code' \in 0 .. 2
        /\ why' \in {"none", "main", "command", "failure", "end"}
    BY <1>3 DEF ReadLine, Quit, TypeOK, Exit, GoTo, endVars, Phases
  <2>6. /\ pending' \in BOOLEAN /\ seen' = seen
        /\ wrote' \in {"none", "output", "blanks", "D"}
    BY <1>3 DEF ReadLine, Interpret, Quit, ttyVars, TypeOK
  <2> QED BY <1>3, <2>2, <2>3, <2>4, <2>5, <2>6, SameCommand DEF ReadLine, TypeOK, inVars, mainVars
<1>4. CASE ReadLastLine
  <2>1. Give(Slice(taken)) /\ UNCHANGED inVars
    BY <1>4 DEF ReadLastLine, Quit
  <2>2. given' \in Seq([from : 1 .. Len(text') + 1, to : 0 .. Len(text')])
    BY <2>1, GiveType
  <2>3. start' \in 1 .. Len(text) + 1
    BY <1>4 DEF ReadLastLine
  <2>5. /\ phase' \in Phases /\ code' \in 0 .. 2
        /\ why' \in {"none", "main", "command", "failure", "end"}
    BY <1>4 DEF ReadLastLine, Quit, TypeOK, Exit, Phases
  <2>6. /\ pending' \in BOOLEAN /\ seen' = seen
        /\ wrote' \in {"none", "output", "blanks", "D"}
    BY <1>4 DEF ReadLastLine, Interpret, Quit, ttyVars, TypeOK
  <2> QED BY <1>4, <2>2, <2>3, <2>5, <2>6, SameCommand DEF ReadLastLine, TypeOK, inVars, mainVars
<1>5. CASE ReadFails
  <2>1. /\ phase' \in Phases /\ code' \in 0 .. 2
        /\ why' \in {"none", "main", "command", "failure", "end"}
    BY <1>5 DEF ReadFails, Exit, Phases
  <2> QED BY <1>5, <2>1, SameCommand DEF ReadFails, TypeOK, inVars, mainVars, readVars, ttyVars
<1> QED BY <1>1, <1>2, <1>3, <1>4, <1>5 DEF Repl

\* readStdinAll and processScript keep the types (main.go:232-258, 474-503).
LEMMA TypeBatch == TypeOK /\ (Batch \/ CollectFails \/ BuilderFails) => TypeOK'
<1> SUFFICES ASSUME TypeOK, Batch \/ CollectFails \/ BuilderFails PROVE TypeOK'
  OBVIOUS
<1> USE TextFacts
<1>1. CASE CollectLine
  <2>1. Break \in start .. taken
    BY <1>1, BreakIsFirst DEF CollectLine
  <2>2. script' \in 0 .. taken /\ start' \in 1 .. Len(text) + 1
    BY <1>1, <2>1 DEF CollectLine
  <2> QED BY <1>1, <2>2, SameCommand DEF CollectLine, TypeOK, inVars, mainVars, ttyVars, endVars
<1>2. CASE CollectLast
  <2>1. script' \in 0 .. taken /\ start' \in 1 .. Len(text) + 1
    BY <1>2 DEF CollectLast
  <2> QED BY <1>2, <2>1, SameCommand DEF CollectLast, TypeOK, GoTo, inVars, mainVars, ttyVars, endVars, Phases
<1>3. CASE CollectFails
  <2>1. script' \in 0 .. taken /\ start' \in 1 .. Len(text) + 1
    BY <1>3 DEF CollectFails
  <2> QED BY <1>3, <2>1, SameCommand DEF CollectFails, TypeOK, GoTo, inVars, mainVars, endVars, Phases
<1>4. CASE BuilderFails
  <2>1. start' \in 1 .. Len(text) + 1
    BY <1>4 DEF BuilderFails
  <2> QED BY <1>4, <2>1, SameCommand DEF BuilderFails, TypeOK, GoTo, inVars, mainVars, ttyVars, endVars, Phases
<1>5. CASE SplitLine
  <2>1. ScriptBreak \in start .. script
    BY <1>5, ScriptBreakIsFirst DEF SplitLine
  <2>2. Give(Slice(ScriptBreak - 1)) /\ UNCHANGED inVars
    BY <1>5 DEF SplitLine, Quit
  <2>3. given' \in Seq([from : 1 .. Len(text') + 1, to : 0 .. Len(text')])
    BY <2>1, <2>2, GiveType
  <2>4. start' \in 1 .. Len(text) + 1
    BY <1>5, <2>1 DEF SplitLine
  <2>5. /\ phase' \in Phases /\ code' \in 0 .. 2
        /\ why' \in {"none", "main", "command", "failure", "end"}
    BY <1>5 DEF SplitLine, Quit, TypeOK, Exit, GoTo, endVars, Phases
  <2>6. /\ pending' \in BOOLEAN /\ seen' = seen
        /\ wrote' \in {"none", "output", "blanks", "D"}
    BY <1>5 DEF SplitLine, Interpret, Quit, ttyVars, TypeOK
  <2> QED BY <1>5, <2>2, <2>3, <2>4, <2>5, <2>6, SameCommand DEF SplitLine, TypeOK, inVars, mainVars
<1>6. CASE SplitLast
  <2>1. Give(Slice(script)) /\ UNCHANGED inVars
    BY <1>6 DEF SplitLast, Quit
  <2>2. given' \in Seq([from : 1 .. Len(text') + 1, to : 0 .. Len(text')])
    BY <2>1, GiveType
  <2>3. start' \in 1 .. Len(text) + 1
    BY <1>6 DEF SplitLast
  <2>5. /\ phase' \in Phases /\ code' \in 0 .. 2
        /\ why' \in {"none", "main", "command", "failure", "end"}
    BY <1>6 DEF SplitLast, Quit, TypeOK, Exit, Phases
  <2>6. /\ pending' \in BOOLEAN /\ seen' = seen
        /\ wrote' \in {"none", "output", "blanks", "D"}
    BY <1>6 DEF SplitLast, Interpret, Quit, ttyVars, TypeOK
  <2> QED BY <1>6, <2>2, <2>3, <2>5, <2>6, SameCommand DEF SplitLast, TypeOK, inVars, mainVars
<1> QED BY <1>1, <1>2, <1>3, <1>4, <1>5, <1>6 DEF Batch

\* Every step keeps the types.
LEMMA TypeStep == TypeOK /\ [Next]_vars => TypeOK'
<1>1. ASSUME TypeOK, OpenDBFails PROVE TypeOK'
  <2>1. /\ phase' \in Phases /\ code' \in 0 .. 2
        /\ why' \in {"none", "main", "command", "failure", "end"}
    BY <1>1 DEF OpenDBFails, Exit, Phases
  <2> QED BY <1>1, <2>1, SameCommand DEF OpenDBFails, TypeOK, inVars, mainVars, readVars, ttyVars
<1>2. TypeOK /\ UNCHANGED vars => TypeOK'
  BY SameCommand DEF TypeOK, vars, inVars, mainVars, readVars, ttyVars, endVars
<1> QED BY <1>1, <1>2, TypeDecide, TypeRead, TypeBatch DEF Next, Fails, Exited
-----------------------------------------------------------------------------
(***************************************************************************)
(* What main decided.                                                      *)
(***************************************************************************)
LEMMA DecidedStep == TypeOK /\ Decided /\ [Next]_vars => Decided'
<1> SUFFICES ASSUME TypeOK, Decided, [Next]_vars PROVE Decided'
  OBVIOUS
<1>1. CASE NoDatabase
  BY <1>1, SameCommand
     DEF NoDatabase, Decided, inVars, readVars, ttyVars, Exit
<1>2. CASE OpenDB
  BY <1>2, SameCommand
     DEF OpenDB, Opening, Decided, inVars, readVars, ttyVars, GoTo, endVars
<1>3. CASE RunSQLText
  BY <1>3, SameCommand
     DEF RunSQLText, Decided, inVars, readVars, ttyVars, Exit
<1>4. CASE RefuseBatch
  BY <1>4, SameCommand
     DEF RefuseBatch, TooMany, Decided, inVars, readVars, ttyVars, Exit
<1>5. CASE StartBatch
  BY <1>5, SameCommand
     DEF StartBatch, Decided, inVars, readVars, ttyVars, GoTo, endVars
<1>6. CASE StartRepl
  BY <1>6, SameCommand
     DEF StartRepl, Decided, inVars, readVars, ttyVars, GoTo, endVars
<1>7. CASE OpenDBFails
  BY <1>7, SameCommand
     DEF OpenDBFails, Decided, inVars, readVars, ttyVars, Exit, mainVars
<1>8. CASE Fill
  BY <1>8, SameCommand
     DEF Fill, Decided, inVars, readVars, ttyVars, mainVars, endVars
<1>9. CASE Prompt
  BY <1>9, SameCommand
     DEF Prompt, Decided, inVars, readVars, ttyVars, GoTo, mainVars, endVars
<1>10. CASE ReadLine
  BY <1>10, SameCommand
     DEF ReadLine, Decided, inVars, readVars, ttyVars, GoTo, Exit, Quit, Interpret, mainVars, endVars
<1>11. CASE ReadLastLine
  BY <1>11, SameCommand
     DEF ReadLastLine, Decided, inVars, readVars, ttyVars, Exit, Quit, Interpret, mainVars
<1>12. CASE ReadFails
  BY <1>12, SameCommand
     DEF ReadFails, Decided, inVars, readVars, ttyVars, Exit, mainVars
<1>13. CASE CollectLine
  BY <1>13, SameCommand
     DEF CollectLine, Decided, inVars, readVars, ttyVars, mainVars, endVars
<1>14. CASE CollectLast
  BY <1>14, SameCommand
     DEF CollectLast, Decided, inVars, readVars, ttyVars, GoTo, mainVars, endVars
<1>15. CASE CollectFails
  BY <1>15, SameCommand
     DEF CollectFails, Decided, inVars, readVars, ttyVars, GoTo, mainVars, endVars
<1>16. CASE BuilderFails
  BY <1>16, SameCommand
     DEF BuilderFails, Decided, inVars, readVars, ttyVars, GoTo, mainVars, endVars
<1>17. CASE SplitLine
  BY <1>17, SameCommand
     DEF SplitLine, Decided, inVars, readVars, ttyVars, GoTo, Exit, Quit, Interpret, mainVars, endVars
<1>18. CASE SplitLast
  BY <1>18, SameCommand
     DEF SplitLast, Decided, inVars, readVars, ttyVars, Exit, Quit, Interpret, mainVars
<1>19. CASE UNCHANGED vars
  BY <1>19, SameCommand DEF vars, Decided, inVars, mainVars, readVars, ttyVars, endVars
<1> QED
  BY <1>1, <1>2, <1>3, <1>4, <1>5, <1>6, <1>7, <1>8, <1>9, <1>10, <1>11, <1>12, <1>13, <1>14, <1>15, <1>16, <1>17, <1>18, <1>19
     DEF Next, Decide, Repl, Batch, Fails, Exited

\* Every step keeps the prompt visible while a line is awaited.
LEMMA PromptStep ==
  TypeOK /\ Decided /\ PromptVisible /\ [Next]_vars => PromptVisible'
<1> SUFFICES ASSUME TypeOK, Decided, PromptVisible, [Next]_vars, phase' = "read"
             PROVE  seen' = IF pending' THEN "blanks" ELSE "D"
  BY DEF PromptVisible
<1>1. CASE Prompt
  BY <1>1 DEF Prompt, PromptVisible, PromptText, GoTo, ttyVars
<1>2. CASE Fill
  BY <1>2 DEF Fill, PromptVisible, PromptText, GoTo, ttyVars
<1>3. CASE UNCHANGED vars
  BY <1>3 DEF vars, ttyVars, PromptVisible
<1>4. CASE Decide \/ OpenDBFails
  BY <1>4 DEF Decide, OpenDBFails, NoDatabase, OpenDB, RunSQLText, RefuseBatch,
              StartBatch, StartRepl, Exit, GoTo
<1>5. CASE ReadLine \/ ReadLastLine \/ ReadFails
  BY <1>5 DEF ReadLine, ReadLastLine, ReadFails, Quit, Exit, GoTo
<1>6. CASE Batch \/ CollectFails \/ BuilderFails
  BY <1>6 DEF Batch, CollectLine, CollectLast, SplitLine, SplitLast, CollectFails,
              BuilderFails, Quit, Exit, GoTo
<1> QED BY <1>1, <1>2, <1>3, <1>4, <1>5, <1>6 DEF Next, Repl, Fails, Exited
-----------------------------------------------------------------------------
(***************************************************************************)
(* The lines the interpreter is given.                                     *)
(***************************************************************************)
\* A step that gives no line leaves the ones given as they are.
LEMMA NoLine ==
  ASSUME Chain(given, text), WholeSoFar, UNCHANGED <<text, given>>, why' # "end"
  PROVE  Chain(given, text)' /\ WholeSoFar' /\ LinesInOrder' /\ AllLinesGiven'
<1>1. Chain(given, text)' /\ WholeSoFar'
  BY DEF Chain, WholeSoFar
<1>2. LinesInOrder'
  BY DEF Chain, WholeSoFar, LinesInOrder
<1>3. AllLinesGiven'
  BY DEF AllLinesGiven
<1> QED BY <1>1, <1>2, <1>3

\* A step that gives the line that begins at start.
LEMMA OneLine ==
  ASSUME TypeOK, Chain(given, text), WholeSoFar, start \in Begins(text),
         Follows(given, text, start), text' = text,
         NEW e \in 0 .. Len(text), Give(Slice(e)),
         \/ Ends(text, Slice(e).from, Slice(e).to)
         \/ job' = "batch" /\ script' < Len(text)
  PROVE  /\ Chain(given, text)' /\ LinesInOrder'
         /\ Ends(text, Slice(e).from, Slice(e).to) => WholeSoFar'
<1> DEFINE line == Slice(e)
<1>1. given \in Seq(Lines) /\ line \in Lines /\ line.from = start
  BY SliceType DEF TypeOK, Lines, Slice
<1>2. given' = Append(given, line)
  BY DEF Give
<1> HIDE DEF line
<1>3. /\ DOMAIN given' = 1 .. Len(given) + 1 /\ Len(given') = Len(given) + 1
      /\ given'[Len(given) + 1] = line
      /\ \A i \in 1 .. Len(given) : given'[i] = given[i]
      /\ DOMAIN given = 1 .. Len(given) /\ Len(given) \in Nat
  BY <1>1, <1>2
<1>4. Chain(given', text)
  BY <1>1, <1>2, ChainAppend
<1>5. ASSUME NEW i \in DOMAIN given'
      PROVE  \/ Ends(text, given'[i].from, given'[i].to)
             \/ job' = "batch" /\ i = Len(given') /\ script' < Len(text)
  <2>1. CASE i \in DOMAIN given
    BY <1>3, <2>1 DEF WholeSoFar
  <2>2. CASE i = Len(given) + 1
    BY <1>3, <2>2 DEF line
  <2> QED BY <1>3, <2>1, <2>2
<1>6. LinesInOrder'
  BY <1>4, <1>5 DEF LinesInOrder, Chain
<1>7. ASSUME Ends(text, Slice(e).from, Slice(e).to) PROVE WholeSoFar'
  <2>1. ASSUME NEW i \in DOMAIN given' PROVE Ends(text, given'[i].from, given'[i].to)
    <3>1. CASE i \in DOMAIN given
      BY <1>3, <3>1 DEF WholeSoFar
    <3>2. CASE i = Len(given) + 1
      BY <1>3, <1>7, <3>2 DEF line
    <3> QED BY <1>3, <3>1, <3>2
  <2> QED BY <2>1 DEF WholeSoFar
<1> QED BY <1>4, <1>6, <1>7 DEF Chain

LinesInv ==
  /\ Chain(given, text)
  /\ phase # "exited" => Cursor /\ WholeSoFar
  /\ LinesInOrder /\ AllLinesGiven

\* The steps that give no line and end the process.
LEMMA LinesEnd ==
  ASSUME TypeOK, Decided, LinesInv,
         NoDatabase \/ RunSQLText \/ RefuseBatch \/ OpenDBFails \/ ReadFails
  PROVE  LinesInv'
<1>1. /\ phase # "exited" /\ phase' = "exited" /\ why' # "end"
      /\ UNCHANGED <<text, given>>
  BY DEF NoDatabase, RunSQLText, RefuseBatch, OpenDBFails, ReadFails, Opening,
         Exit, inVars
<1> QED BY <1>1, NoLine DEF LinesInv

\* The steps that give no line and go on.
LEMMA LinesGoOn ==
  ASSUME TypeOK, Decided, LinesInv,
         \/ OpenDB \/ StartBatch \/ StartRepl \/ Fill \/ Prompt
         \/ CollectLine \/ CollectLast \/ CollectFails \/ BuilderFails
  PROVE  LinesInv'
<1> USE TextFacts
<1>1. /\ phase # "exited" /\ why' # "end" /\ UNCHANGED <<text, given>>
  BY DEF OpenDB, StartBatch, StartRepl, Fill, Prompt, CollectLine, CollectLast,
         CollectFails, BuilderFails, Opening, GoTo, inVars, endVars, Decided
<1>2. Cursor
  BY <1>1 DEF LinesInv
<1>3. 1 \in Begins(text)
  BY DEF Begins
<1>4. Cursor'
  <2>1. CASE OpenDB \/ StartBatch \/ StartRepl
    <3>1. start = 1 /\ given = <<>> /\ taken = 0 /\ script \in 0 .. taken
      BY <1>2, <2>1 DEF OpenDB, StartBatch, StartRepl, Opening, Cursor, Decided,
                        TypeOK
    <3>2. /\ start' = 1 /\ taken' = 0 /\ script' = 0
          /\ phase' \in {"opened", "slurp", "prompt"}
      BY <2>1, <3>1 DEF OpenDB, StartBatch, StartRepl, GoTo, readVars
    <3> QED BY <1>1, <1>3, <3>1, <3>2 DEF Cursor, Follows
  <2>2. CASE Fill
    <3>1. taken' > taken /\ taken' \in Nat
      BY <2>2 DEF Fill
    <3> QED BY <1>1, <1>2, <2>2, <3>1 DEF Fill, Cursor, Follows
  <2>3. CASE Prompt
    BY <1>1, <1>2, <2>3 DEF Prompt, Cursor, Follows, GoTo, readVars
  <2>4. CASE CollectLine
    <3>1. Break \in start .. taken /\ text[Break] = NL
      BY <2>4, BreakIsFirst DEF CollectLine
    <3>2. Break + 1 \in Begins(text)
      BY <3>1 DEF Begins
    <3> QED BY <1>1, <1>2, <2>4, <3>1, <3>2 DEF CollectLine, Cursor
  <2>5. CASE CollectLast \/ CollectFails \/ BuilderFails
    <3>1. phase = "slurp" /\ start' = 1 /\ phase' = "split"
      BY <2>5 DEF CollectLast, CollectFails, BuilderFails, GoTo
    <3>2. given = <<>>
      BY <1>2, <3>1 DEF Cursor
    <3>3. script' \in Nat
      BY <2>5 DEF CollectLast, CollectFails, BuilderFails
    <3>4. Follows(given, text, start)'
      BY <1>1, <3>1, <3>2 DEF Follows
    <3>5. start' <= script' + 1
      <4>1. start' = 1
        BY <3>1
      <4>2. \A n \in Nat : 1 <= n + 1
        OBVIOUS
      <4> QED BY <3>3, <4>1, <4>2
    <3> QED BY <1>1, <1>3, <3>1, <3>4, <3>5 DEF Cursor, Begins
  <2> QED BY <2>1, <2>2, <2>3, <2>4, <2>5
<1> QED BY <1>1, <1>4, NoLine DEF LinesInv

\* A line that a newline ends, read from stdin or split from a script.
LEMMA LinesGiven ==
  ASSUME TypeOK, Decided, LinesInv, ReadLine \/ SplitLine
  PROVE  LinesInv'
<1> USE TextFacts
<1> DEFINE p == start' - 1
           line == Slice(p - 1)
<1>1. /\ p \in start .. Len(text) /\ text[p] = NL
      /\ \A q \in start .. Len(text) : text[q] = NL => p <= q
      /\ phase = "read" => p <= taken
      /\ phase = "split" => p <= script
  <2>1. CASE ReadLine
    <3>1. p = Break /\ phase = "read" /\ HasLine
      BY <2>1, BreakIsFirst DEF ReadLine
    <3> QED BY <3>1, BreakIsFirst
  <2>2. CASE SplitLine
    <3>1. p = ScriptBreak /\ phase = "split" /\ ScriptBreaks # {}
      BY <2>2, ScriptBreakIsFirst DEF SplitLine
    <3> QED BY <3>1, ScriptBreakIsFirst
  <2> QED BY <2>1, <2>2
<1>2. /\ phase \in {"read", "split"} /\ phase' \in {"prompt", "split", "exited"}
      /\ phase' = "prompt" => phase = "read"
      /\ phase' = "split" => phase = "split"
      /\ why' # "end" /\ text' = text /\ Give(line) /\ start' = p + 1
      /\ taken' = taken /\ script' = script
  <2>1. why = "none"
    BY DEF Decided, ReadLine, SplitLine
  <2>2. CASE ReadLine
    <3>1. p = Break
      BY <2>2, BreakIsFirst DEF ReadLine
    <3> QED BY <2>1, <2>2, <3>1
            DEF ReadLine, Quit, GoTo, Exit, endVars, inVars
  <2>3. CASE SplitLine
    <3>1. p = ScriptBreak
      BY <2>3, ScriptBreakIsFirst DEF SplitLine
    <3> QED BY <2>1, <2>3, <3>1
            DEF SplitLine, Quit, GoTo, Exit, endVars, inVars
  <2> QED BY <2>2, <2>3
<1> HIDE DEF p
<1>3. Cursor /\ WholeSoFar /\ Chain(given, text) /\ Follows(given, text, start)
  BY <1>2 DEF LinesInv, Cursor
<1>4. p - 1 \in start - 1 .. Len(text) /\ p - 1 \in 0 .. Len(text)
  BY <1>1
<1>5. Ends(text, line.from, line.to)
  <2>1. (p - 1) + 1 = p
    BY <1>1
  <2>2. text[(p - 1) + 1] = NL
    BY <1>1, <2>1
  <2>3. \A q \in start .. p - 1 : text[q] # NL
    BY <1>1
  <2> QED BY <1>4, <2>2, <2>3, SliceIsWhole
<1>6. Chain(given, text)' /\ LinesInOrder' /\ WholeSoFar'
  BY <1>2, <1>3, <1>4, <1>5, OneLine DEF Cursor
<1>7. line \in Lines /\ line.from = start
  BY <1>4, SliceType DEF Slice
<1>8. p + 1 \in Begins(text) /\ Follows(Append(given, line), text, p + 1)
  BY <1>1, <1>7, NextFollows
<1>9. phase' # "exited" => Cursor'
  <2>1. start' \in Begins(text)' /\ Follows(given, text, start)'
    BY <1>2, <1>8 DEF Give, Begins, Follows
  <2>2. /\ phase' = "prompt" => start' <= taken' + 1
        /\ phase' = "split" => start' <= script' + 1
    BY <1>1, <1>2
  <2> QED BY <1>2, <2>1, <2>2 DEF Cursor
<1>10. AllLinesGiven'
  BY <1>2 DEF AllLinesGiven
<1> QED BY <1>6, <1>9, <1>10 DEF LinesInv

\* No line begins behind a position from which no newline follows.
LEMMA NothingFollows ==
  ASSUME TypeOK, \A q \in start .. Len(text) : text[q] # NL
  PROVE  \A b \in Begins(text) : b <= start
BY TextFacts DEF Begins

\* The last line of stdin.
LEMMA LinesLastRead ==
  ASSUME TypeOK, Decided, LinesInv, ReadLastLine
  PROVE  LinesInv'
<1> USE TextFacts
<1>1. /\ phase = "read" /\ taken = Len(text) /\ phase' = "exited"
      /\ text' = text /\ Give(Slice(taken))
      /\ \A q \in start .. Len(text) : text[q] # NL
  BY DEF ReadLastLine, AtEOF, HasLine, Breaks, Quit, Exit, inVars
<1>2. /\ Cursor /\ WholeSoFar /\ Chain(given, text)
      /\ Follows(given, text, start) /\ start <= taken + 1
  BY <1>1 DEF LinesInv, Cursor
<1>3. Ends(text, Slice(taken).from, Slice(taken).to)
  <2>1. taken \in start - 1 .. Len(text)
    BY <1>1, <1>2
  <2>2. \A q \in start .. taken : text[q] # NL
    BY <1>1
  <2> QED BY <1>1, <2>1, <2>2, SliceIsWhole
<1>4. Chain(given, text)' /\ LinesInOrder'
  BY <1>1, <1>2, <1>3, OneLine DEF Cursor
<1>5. given' # <<>> /\ given'[Len(given')].from = start
  <2>1. given \in Seq(Lines) /\ Slice(taken) \in Lines
    BY <1>1, SliceType DEF TypeOK, Lines
  <2>2. given' = Append(given, Slice(taken)) /\ Slice(taken).from = start
    BY <1>1 DEF Give, Slice
  <2> QED BY <2>1, <2>2
<1>6. AllLinesGiven'
  BY <1>1, <1>5, NothingFollows DEF AllLinesGiven, Begins
<1> QED BY <1>1, <1>4, <1>6 DEF LinesInv

\* The last line of a script, which may be all there is of a longer line.
LEMMA LinesLastSplit ==
  ASSUME TypeOK, Decided, LinesInv, SplitLast
  PROVE  LinesInv'
<1> USE TextFacts
<1>1. /\ phase = "split" /\ phase' = "exited" /\ job' = "batch"
      /\ text' = text /\ script' = script /\ Give(Slice(script))
      /\ \A q \in start .. script : text[q] # NL
  BY DEF SplitLast, ScriptBreaks, Quit, Exit, inVars, mainVars, Decided
<1>2. /\ Cursor /\ WholeSoFar /\ Chain(given, text)
      /\ Follows(given, text, start) /\ start <= script + 1
  BY <1>1 DEF LinesInv, Cursor
<1>3. script = Len(text) => Ends(text, Slice(script).from, Slice(script).to)
  <2>1. script \in start - 1 .. Len(text)
    BY <1>1, <1>2
  <2> QED BY <1>1, <2>1, SliceIsWhole
<1>4. Chain(given, text)' /\ LinesInOrder'
  BY <1>1, <1>2, <1>3, OneLine DEF Cursor
<1>5. given' # <<>> /\ given'[Len(given')].from = start
  <2>1. given \in Seq(Lines) /\ Slice(script) \in Lines
    <3>1. script \in 0 .. Len(text)
      BY DEF TypeOK
    <3>2. given \in Seq(Lines)
      BY DEF TypeOK, Lines
    <3> QED BY <3>1, <3>2, SliceType
  <2>2. given' = Append(given, Slice(script)) /\ Slice(script).from = start
    BY <1>1 DEF Give, Slice
  <2> QED BY <2>1, <2>2
<1>6. AllLinesGiven'
  BY <1>1, <1>5, NothingFollows DEF AllLinesGiven, Begins
<1> QED BY <1>1, <1>4, <1>6 DEF LinesInv

\* Every step keeps the lines in order, whole and complete.
LEMMA LinesStep == TypeOK /\ Decided /\ LinesInv /\ [Next]_vars => LinesInv'
<1> SUFFICES ASSUME TypeOK, Decided, LinesInv, [Next]_vars PROVE LinesInv'
  OBVIOUS
<1>1. CASE UNCHANGED vars
  BY <1>1 DEF vars, inVars, mainVars, readVars, endVars, LinesInv, Chain, Cursor,
              WholeSoFar, Follows, LinesInOrder, AllLinesGiven
<1> QED
  BY <1>1, LinesEnd, LinesGoOn, LinesGiven, LinesLastRead, LinesLastSplit
     DEF Next, Decide, Repl, Batch, Fails, Exited
-----------------------------------------------------------------------------
(***************************************************************************)
(* The inductive invariant and its consequences.                           *)
(***************************************************************************)
IInv == TypeOK /\ Decided /\ PromptVisible /\ LinesInv

\* The initial states satisfy the invariant.
LEMMA InitIInv == Init => IInv
<1> SUFFICES ASSUME Init PROVE IInv
  OBVIOUS
<1>1. Decided /\ PromptVisible
  BY DEF Init, Decided, PromptVisible
<1>2. LinesInv
  BY DEF Init, LinesInv, Chain, Cursor, Begins, WholeSoFar, LinesInOrder,
         AllLinesGiven
<1> QED BY <1>1, <1>2, TypeInit DEF IInv

\* In every reachable state the process stands between two lines as the
\* invariant says.
THEOREM Invariance == Spec => []IInv
<1>1. IInv /\ [Next]_vars => IInv'
  BY TypeStep, DecidedStep, PromptStep, LinesStep DEF IInv
<1> QED BY <1>1, InitIInv, PTL DEF Spec

\* Every reachable state of the process is well typed.
THEOREM TypeCorrect == Spec => []TypeOK
<1>1. IInv => TypeOK
  BY DEF IInv
<1> QED BY <1>1, Invariance, PTL

\* The interpreter is given the lines of stdin in order, each once and whole,
\* however read(2) cuts the bytes up (main.go:232-258, 278-288, 474-483).
THEOREM LinesOrdered == Spec => []LinesInOrder
<1>1. IInv => LinesInOrder
  BY DEF IInv, LinesInv
<1> QED BY <1>1, Invariance, PTL

\* No line is left out when the input was read to its end
\* (main.go:246-252, 341-345, 479).
THEOREM LinesComplete == Spec => []AllLinesGiven
<1>1. IInv => AllLinesGiven
  BY DEF IInv, LinesInv
<1> QED BY <1>1, Invariance, PTL

\* The right prompt is on the screen whenever the process waits for a line
\* (main.go:271-276, replfd.go:27-30).
THEOREM PromptShown == Spec => []PromptVisible
<1>1. IInv => PromptVisible
  BY DEF IInv
<1> QED BY <1>1, Invariance, PTL

\* ExecSQL is a text the command line gives, if it gives one, and -c before
\* the argument (main.go:156-158).
LEMMA GivenIsRun ==
  ASSUME TypeOK
  PROVE  /\ ExecSQL # Empty => ExecSQL \in GivenSQL
         /\ ExecSQL = Empty => GivenSQL = {}
         /\ cmd.c # Empty => ExecSQL = cmd.c
         /\ Len(cmd.args) \in Nat
<1>1. cmd.args \in Seq(STRING)
  BY CmdLinesAssumption DEF TypeOK, CmdLine
<1>2. DOMAIN cmd.args = 1 .. Len(cmd.args) /\ Len(cmd.args) \in Nat
  BY <1>1
<1>3. 2 \in DOMAIN cmd.args <=> Len(cmd.args) >= 2
  BY <1>2
<1> QED BY <1>2, <1>3 DEF ExecSQL, GivenSQL

\* Every command line leads to the one job it asks for: the SQL it gives, by -c
\* or by the second argument, and nothing else, or else -batch, or else the
\* shell; and SQL runs without a byte of stdin read and without a prompt
\* (main.go:149-193).
THEOREM JobUnique == Spec => []OneJob
<1>1. IInv => OneJob
  <2> SUFFICES ASSUME IInv PROVE OneJob
    OBVIOUS
  <2>1. Decided /\ TypeOK
    BY DEF IInv
  <2>2. /\ ExecSQL # Empty => ExecSQL \in GivenSQL
        /\ ExecSQL = Empty => GivenSQL = {}
        /\ cmd.c # Empty => ExecSQL = cmd.c
        /\ Len(cmd.args) \in Nat
    BY <2>1, GivenIsRun
  <2>3. job \in {"sql", "batch", "repl"} => job = AskedJob
    BY <2>1, <2>2 DEF Decided, AskedJob
  <2>4. /\ TooMany => job \notin {"batch", "repl"}
        /\ job = "refused" => TooMany
        /\ job \in {"sql", "refused", "batch", "repl"} => db = Path
    BY <2>1, <2>2 DEF Decided, TooMany
  <2>5. job = "sql" => sql \in GivenSQL /\ (cmd.c # Empty => sql = cmd.c)
    BY <2>1, <2>2 DEF Decided
  <2>6. /\ taken > 0 \/ given # <<>> => job \in {"batch", "repl"}
        /\ seen # "none" => job = "repl"
    BY <2>1 DEF Decided
  <2> QED BY <2>3, <2>4, <2>5, <2>6 DEF OneJob
<1> QED BY <1>1, Invariance, PTL
=============================================================================
