--------------------------- MODULE SessionProofs ---------------------------
(***************************************************************************)
(* Proofs about Session, for every set of lines, files, scripts and        *)
(* handles and for every bound: its type invariant, its safety invariants  *)
(* and that it implements Shell.                                           *)
(*                                                                         *)
(* None of the invariants is inductive alone.  TypeOK needs the shape of   *)
(* the stack of loops (a loop that returns must have a caller);            *)
(* WholeStatements and PendingIncomplete need to know what a pending text  *)
(* looks like (PendingText).  IInv is their conjunction, grouped by the    *)
(* variables each part talks about: the stack, the connection, the runs.   *)
(* Two more theorems hold of some inputs only, and name them: files that   *)
(* do not read one another in a circle, and modes chosen by their aliases. *)
(***************************************************************************)
EXTENDS Session, SequenceTheorems, TLAPS

\* main has no frame of its own and nothing is kept of a loop that returned.
StackShape ==
  /\ status \in {"start", "opened"} => depth = 0
  /\ status = "running" => depth # 0
  /\ \A d \in 0 .. MaxDepth : d = 0 \/ d > depth => frame[d] = NoFrame

\* A pending text begins with SQL and contains no line that ends with ';'.
Pending(acc) ==
  /\ \A i \in DOMAIN acc : ~acc[i].semi
  /\ acc # <<>> => acc[1].cmd = "sql"

PendingText == \A d \in 0 .. MaxDepth : Pending(frame[d].acc)

\* A loop that called another one has nothing pending.
CallersIdle == \A d \in 0 .. MaxDepth : d < depth => frame[d].acc = <<>>

StackOK ==
  /\ status \in Statuses
  /\ depth \in 0 .. MaxDepth
  /\ frame \in [0 .. MaxDepth -> Frame]
  /\ mode \in [text : Modes, buf : Freed .. MaxDepth]
  /\ StackShape /\ PendingText /\ CallersIdle

ConnOK ==
  /\ conn.handle \in Handles \cup {0} /\ conn.path \in Args
  /\ conn = [handle |-> conn.handle, path |-> conn.path]
  /\ live \subseteq Handles
  /\ OneConnection

RunsOK == runs \in Nat /\ last \in Run /\ WholeStatements

IInv ==
  /\ StackOK /\ ConnOK /\ RunsOK
  /\ typed \in 0 .. MaxTyped /\ wanted \in Modes
-----------------------------------------------------------------------------
(***************************************************************************)
(* What the helpers of the model do.                                       *)
(***************************************************************************)
\* Removing the first line of a text leaves a text.
LEMMA RestIsText ==
  ASSUME NEW s \in Seq(Lines)
  PROVE  (IF s = <<>> THEN s ELSE Tail(s)) \in Seq(Lines)
  BY HeadTailProperties

\* Freeing a buffer keeps the text of a mode (main.go:314, 339, 470).
LEMMA ReleaseType ==
  ASSUME NEW m \in [text : Modes, buf : Freed .. MaxDepth], NEW b \in Nat
  PROVE  Release(m, b) \in [text : Modes, buf : Freed .. MaxDepth]
  <1>1. Freed \in Freed .. MaxDepth
    BY BoundsAssumption DEF Freed
  <1> QED BY <1>1 DEF Release

\* A mode normalizeMode accepts is a mode (main.go:505-531).
LEMMA NormalizeModeType ==
  ASSUME NEW arg, NEW b \in 0 .. MaxDepth,
         NormalizeMode(arg, b).text # "unknown"
  PROVE  NormalizeMode(arg, b) \in [text : Modes, buf : Freed .. MaxDepth]
  BY BoundsAssumption DEF NormalizeMode, Modes, AliasOf, Static, Freed

\* The end of an iteration leaves the stack well formed, if the text it
\* leaves pending is one (main.go:312-345).
LEMMA EndLineStack ==
  ASSUME StackOK, status = "running",
         NEW acc \in Seq(Lines), Pending(acc),
         NEW m \in [text : Modes, buf : Freed .. MaxDepth],
         NEW eof \in BOOLEAN,
         EndLine(acc, m, eof)
  PROVE  /\ StackOK'
         /\ depth' = depth /\ frame'[depth].acc = acc
         /\ status' \in {"running", "exit0"}
  <1> USE DEF StackOK
  <1>1. depth' = depth /\ status' \in {"running", "exit0"}
    BY DEF EndLine
  <1>2. frame[depth] \in Frame /\ frame[depth].rest \in Seq(Lines)
    BY DEF Frame
  <1>3. (IF frame[depth].rest = <<>> THEN frame[depth].rest
                                     ELSE Tail(frame[depth].rest)) \in Seq(Lines)
    BY <1>2, RestIsText
  <1>4. /\ frame' \in [0 .. MaxDepth -> Frame]
        /\ frame'[depth].acc = acc
        /\ \A d \in 0 .. MaxDepth : d # depth => frame'[d] = frame[d]
    BY <1>2, <1>3 DEF EndLine, top, Frame
  <1>5. mode' \in [text : Modes, buf : Freed .. MaxDepth]
    BY ReleaseType, BoundsAssumption DEF EndLine
  <1>6. StackShape'
    BY <1>1, <1>4 DEF StackShape
  <1>7. PendingText'
    BY <1>4 DEF PendingText
  <1>8. CallersIdle'
    BY <1>1, <1>4 DEF CallersIdle
  <1> QED BY <1>1, <1>4, <1>5, <1>6, <1>7, <1>8 DEF Statuses

\* What a script loop leaves behind when it returns (main.go:464-472).
LEMMA ReturnStack ==
  ASSUME StackOK, status = "running", ReturnToCaller
  PROVE  /\ StackOK'
         /\ status' \in {"running", "exit0"}
         /\ depth - 1 \in 0 .. MaxDepth /\ depth' = depth - 1
         /\ frame'[depth'].acc = <<>>
  <1> USE DEF StackOK
  <1>1. /\ depth \in 1 .. MaxDepth /\ depth - 1 \in 0 .. MaxDepth
        /\ depth' = depth - 1 /\ status' \in {"running", "exit0"}
    BY BoundsAssumption DEF StackShape, ReturnToCaller
  <1>2. NoFrame \in Frame /\ NoFrame.acc = <<>> /\ NoFrame.kind = "none"
    BY EmptySeq DEF NoFrame, Frame
  <1>3. /\ frame' \in [0 .. MaxDepth -> Frame]
        /\ frame'[depth] = NoFrame
        /\ \A d \in 0 .. MaxDepth : d # depth => frame'[d] = frame[d]
    BY <1>1, <1>2 DEF ReturnToCaller
  <1>4. mode' \in [text : Modes, buf : Freed .. MaxDepth]
    <2>1. Release(mode, depth) \in [text : Modes, buf : Freed .. MaxDepth]
      BY <1>1, ReleaseType, BoundsAssumption
    <2>2. Release(Release(mode, depth), depth - 1)
             \in [text : Modes, buf : Freed .. MaxDepth]
      <3> DEFINE m == Release(mode, depth)
      <3>1. m \in [text : Modes, buf : Freed .. MaxDepth] /\ depth - 1 \in Nat
        BY <2>1, <1>1
      <3> HIDE DEF m
      <3>2. Release(m, depth - 1) \in [text : Modes, buf : Freed .. MaxDepth]
        BY <3>1, ReleaseType
      <3> QED BY <3>2 DEF m
    <2> QED BY <2>1, <2>2 DEF ReturnToCaller
  <1>5. frame'[depth - 1].acc = <<>>
    BY <1>1, <1>3 DEF CallersIdle
  <1>6. StackShape'
    <2>1. status' = "running" => depth' # 0
      <3>1. depth - 1 = 0 => frame[depth - 1].kind = "none"
        BY <1>1, <1>2 DEF StackShape
      <3> QED BY <1>1, <3>1 DEF ReturnToCaller
    <2>2. \A d \in 0 .. MaxDepth : d = 0 \/ d > depth' => frame'[d] = NoFrame
      BY <1>1, <1>3 DEF StackShape
    <2> QED BY <1>1, <2>1, <2>2 DEF StackShape
  <1>7. PendingText'
    BY <1>2, <1>3 DEF PendingText, Pending
  <1>8. CallersIdle'
    BY <1>1, <1>3 DEF CallersIdle
  <1> QED BY <1>1, <1>3, <1>4, <1>5, <1>6, <1>7, <1>8 DEF Statuses

\* Only the modes have layouts, whatever freed memory holds (main.go:586).
LEMMA RenderedType ==
  ASSUME NEW m \in [text : Modes, buf : Freed .. MaxDepth]
  PROVE  Rendered(m) \subseteq Modes
  BY DEF Rendered

\* A run of SQL is recorded truthfully (main.go:578-613).
LEMMA RunSQLRuns ==
  ASSUME StackOK, ConnOK, RunsOK, wanted \in Modes,
         NEW src \in {"argument", "command", "lines"},
         NEW sql \in Seq(Lines), src = "lines" => Whole(sql),
         RunSQL(src, sql)
  PROVE  RunsOK'
  <1>1. CASE UNCHANGED sqlVars
    BY <1>1 DEF RunsOK, sqlVars, WholeStatements
  <1>2. ASSUME NEW shown \in {"none"} \cup Rendered(mode),
               last' = [src |-> src, sql |-> sql, path |-> conn.path,
                        wanted |-> wanted, shown |-> shown],
               runs' = runs + 1
        PROVE  RunsOK'
    <2>1. shown \in Modes \cup {"none"}
      BY <1>2, RenderedType DEF StackOK
    <2>2. last' \in Run
      BY <1>2, <2>1 DEF Run, ConnOK
    <2> QED BY <1>2, <2>2 DEF RunsOK, WholeStatements
  <1> QED BY <1>1, <1>2 DEF RunSQL

\* A line that extends a pending text extends it to a pending text, or to a
\* whole statement if it ends with ';' (main.go:329-338, 492-500).
LEMMA TextGrows ==
  ASSUME StackOK, NEW l \in Lines, NEW eof \in BOOLEAN, IsText(l, eof)
  PROVE  /\ Append(top.acc, l) \in Seq(Lines)
         /\ ~l.semi => Pending(Append(top.acc, l))
         /\ l.semi => Whole(Append(top.acc, l))
  <1> DEFINE acc == top.acc
  <1>1. acc \in Seq(Lines) /\ Pending(acc)
    BY DEF StackOK, top, Frame, PendingText
  <1>2. acc = <<>> => l.cmd = "sql"
    BY LinesAssumption DEF IsText, IsDot, AtPrompt, Cmds
  <1>3. l.semi \in BOOLEAN
    BY LinesAssumption
  <1>4. /\ Append(acc, l) \in Seq(Lines)
        /\ Len(Append(acc, l)) = Len(acc) + 1
        /\ DOMAIN Append(acc, l) = 1 .. Len(acc) + 1
        /\ \A i \in 1 .. Len(acc) : Append(acc, l)[i] = acc[i]
        /\ Append(acc, l)[Len(acc) + 1] = l
    BY <1>1
  <1>5. Append(acc, l) # <<>> /\ Append(acc, l)[1].cmd = "sql"
    <2>1. CASE acc = <<>>
      BY <2>1, <1>2, <1>4
    <2>2. CASE acc # <<>>
      BY <2>2, <1>1, <1>4 DEF Pending
    <2> QED BY <2>1, <2>2
  <1>6. Len(acc) \in Nat /\ \A i \in 1 .. Len(acc) : ~acc[i].semi
    BY <1>1 DEF Pending
  <1>7. ~l.semi => Pending(Append(acc, l))
    BY <1>4, <1>5, <1>6 DEF Pending
  <1>8. l.semi => Whole(Append(acc, l))
    BY <1>3, <1>4, <1>5, <1>6 DEF Whole
  <1> QED BY <1>4, <1>7, <1>8

\* No statement is pending that a ';' would complete (main.go:305-307).
LEMMA PendingNotComplete ==
  ASSUME NEW acc, Pending(acc)
  PROVE  ~EndsStatement(acc)
  BY DEF Pending, EndsStatement
-----------------------------------------------------------------------------
(***************************************************************************)
(* IInv is an inductive invariant.                                         *)
(***************************************************************************)
LEMMA InitIInv == Init => IInv
  <1> SUFFICES ASSUME Init PROVE IInv
    OBVIOUS
  <1>0. /\ status = "start" /\ depth = 0 /\ typed = 0 /\ runs = 0
        /\ frame = [d \in 0 .. MaxDepth |-> NoFrame]
        /\ conn = NoConn /\ live = {} /\ last = NoRun
        /\ mode = [text |-> "duckbox", buf |-> Static] /\ wanted = "duckbox"
    BY DEF Init
  <1>1. NoFrame \in Frame /\ NoFrame.acc = <<>>
    BY EmptySeq DEF NoFrame, Frame
  <1>2. frame \in [0 .. MaxDepth -> Frame]
        /\ \A d \in 0 .. MaxDepth : frame[d] = NoFrame
    BY <1>0, <1>1
  <1>3. StackOK
    <2>1. PendingText /\ CallersIdle
      BY <1>1, <1>2 DEF PendingText, Pending, CallersIdle
    <2>2. StackShape
      BY <1>0, <1>2 DEF StackShape
    <2>3. mode \in [text : Modes, buf : Freed .. MaxDepth]
      BY <1>0, BoundsAssumption DEF Modes, Static, Freed
    <2> QED
      BY <1>0, <1>2, <2>1, <2>2, <2>3, BoundsAssumption DEF StackOK, Statuses
  <1>4. ConnOK
    BY <1>0, InputAssumption DEF ConnOK, NoConn, OneConnection
  <1>5. RunsOK
    BY <1>0, EmptySeq, InputAssumption
       DEF RunsOK, NoRun, Run, WholeStatements, Modes
  <1> QED BY <1>0, <1>3, <1>4, <1>5, BoundsAssumption DEF IInv, Modes

\* While the connection is left alone nothing can go wrong with it, unless
\* the process comes back to life.
LEMMA SameConnection ==
  ASSUME ConnOK, UNCHANGED connVars,
         status' \in {"opened", "running"} => status \in {"opened", "running"}
  PROVE  ConnOK'
  BY DEF ConnOK, connVars, OneConnection

\* What runSQL does not touch stays true of the runs.
LEMMA SameRuns ==
  ASSUME RunsOK, UNCHANGED sqlVars
  PROVE  RunsOK'
  BY DEF RunsOK, sqlVars, WholeStatements

\* The process may end at any time: a stack that is left alone stays good.
LEMMA EndedStack ==
  ASSUME StackOK, UNCHANGED <<depth, frame, mode>>,
         status' \in {"exit0", "exit1", "crash"}
  PROVE  StackOK'
  BY DEF StackOK, StackShape, PendingText, CallersIdle, Statuses

\* The actions of main.
LEMMA MainIInv ==
  ASSUME IInv,
         Main \/ OpenDBFails
  PROVE  IInv'
  <1> USE DEF IInv
  <1>1. ASSUME NEW h \in Handles, NEW m \in StartModes, OpenDB(h, m)
        PROVE  IInv'
    <2>1. StackOK'
      <3>1. mode' \in [text : Modes, buf : Freed .. MaxDepth]
        BY <1>1, ModesAssumption, BoundsAssumption DEF OpenDB, Static, Freed
      <3>2. StackShape' /\ PendingText' /\ CallersIdle'
        BY <1>1 DEF OpenDB, StackOK, StackShape, PendingText, CallersIdle
      <3> QED BY <1>1, <3>1, <3>2 DEF OpenDB, StackOK, Statuses
    <2>2. ConnOK'
      BY <1>1, InputAssumption DEF OpenDB, ConnOK, OneConnection
    <2>3. RunsOK'
      BY <1>1, SameRuns DEF OpenDB
    <2> QED BY <1>1, <2>1, <2>2, <2>3, ModesAssumption DEF OpenDB
  <1>2. CASE OpenDBFails
    <2>1. StackOK' /\ ConnOK' /\ RunsOK'
      BY <1>2, EndedStack, SameConnection, SameRuns DEF OpenDBFails
    <2> QED BY <1>2, <2>1 DEF OpenDBFails
  <1>3. ASSUME NEW l \in Lines, RunArgument(l)
        PROVE  IInv'
    <2>1. StackOK' /\ ConnOK'
      BY <1>3, EndedStack, SameConnection DEF RunArgument
    <2>2. <<l>> \in Seq(Lines)
      OBVIOUS
    <2>3. RunsOK'
      BY <1>3, <2>2, RunSQLRuns DEF RunArgument
    <2> QED BY <1>3, <2>1, <2>3 DEF RunArgument
  <1>4. ASSUME NEW kind \in {"repl", "script"}, NEW script \in Seq(Lines),
               StartLoop(kind, script)
        PROVE  IInv'
    <2>1. [NoFrame EXCEPT !.kind = kind, !.rest = script] \in Frame
          /\ [NoFrame EXCEPT !.kind = kind, !.rest = script].acc = <<>>
      BY EmptySeq DEF NoFrame, Frame
    <2>2. /\ frame' \in [0 .. MaxDepth -> Frame] /\ frame'[1].acc = <<>>
          /\ \A d \in 0 .. MaxDepth : d # 1 => frame'[d] = frame[d]
      BY <1>4, <2>1, BoundsAssumption DEF StartLoop, StackOK
    <2>3. depth = 0 /\ depth' = 1 /\ status' = "running"
          /\ 1 \in 0 .. MaxDepth
      BY <1>4, BoundsAssumption DEF StartLoop, StackOK, StackShape
    <2>4. \A d \in 0 .. MaxDepth : frame[d] = NoFrame
      BY <2>3 DEF StackOK, StackShape
    <2>5. StackShape'
      BY <2>2, <2>3, <2>4 DEF StackShape
    <2>6. NoFrame.acc = <<>>
      BY DEF NoFrame
    <2>7. PendingText' /\ CallersIdle'
      BY <2>2, <2>3, <2>4, <2>6 DEF PendingText, Pending, CallersIdle
    <2>8. StackOK'
      BY <1>4, <2>2, <2>3, <2>5, <2>7 DEF StackOK, Statuses, StartLoop
    <2>9. ConnOK' /\ RunsOK'
      BY <1>4, SameConnection, SameRuns DEF StartLoop
    <2> QED BY <1>4, <2>8, <2>9 DEF StartLoop
  <1>5. CASE StartRepl
    BY <1>4, <1>5, EmptySeq DEF StartRepl
  <1>6. CASE StartBatch
    BY <1>4, <1>6, InputAssumption DEF StartBatch
  <1> QED BY <1>1, <1>2, <1>3, <1>5, <1>6 DEF Main

\* What a line gives and takes: the next step has a top frame to work on.
LEMMA LineFacts ==
  ASSUME IInv, NEW l \in Lines, NEW eof \in BOOLEAN, NextLine(l, eof)
  PROVE  /\ status = "running" /\ typed' \in 0 .. MaxTyped
         /\ top \in Frame /\ top.acc \in Seq(Lines) /\ Pending(top.acc)
         /\ <<>> \in Seq(Lines) /\ Pending(<<>>)
         /\ mode \in [text : Modes, buf : Freed .. MaxDepth]
  <1>1. typed' \in 0 .. MaxTyped
    BY BoundsAssumption DEF IInv, NextLine
  <1>2. Pending(<<>>)
    BY DEF Pending
  <1>3. top \in Frame /\ Pending(top.acc)
    BY DEF IInv, StackOK, top, PendingText
  <1> QED BY <1>1, <1>2, <1>3, EmptySeq DEF IInv, StackOK, NextLine, Frame

\* The actions of the two loops on a line.
LEMMA LineIInv ==
  ASSUME IInv, NEW l \in Lines, NEW eof \in BOOLEAN,
         NextLine(l, eof), DoLine(l, eof)
  PROVE  IInv'
  <1> USE DEF IInv
  <1>0. /\ status = "running" /\ typed' \in 0 .. MaxTyped
        /\ top \in Frame /\ top.acc \in Seq(Lines) /\ Pending(top.acc)
        /\ <<>> \in Seq(Lines) /\ Pending(<<>>)
        /\ mode \in [text : Modes, buf : Freed .. MaxDepth]
    BY LineFacts
  <1>1. ASSUME UNCHANGED connVars PROVE ConnOK'
    BY <1>0, <1>1, SameConnection
  <1>2. ASSUME UNCHANGED sqlVars PROVE RunsOK'
    BY <1>2, SameRuns
  <1>3. ASSUME NEW acc \in {<<>>, top.acc}, EndLine(acc, mode, eof)
        PROVE  StackOK'
    <2>1. acc \in Seq(Lines) /\ Pending(acc)
      BY <1>0
    <2> QED BY <1>0, <1>3, <2>1, EndLineStack
  <1>4. CASE EofIdle(l, eof)
    <2>1. StackOK'
      BY <1>3, <1>4, <1>0, EndLineStack DEF EofIdle
    <2> QED BY <1>0, <1>1, <1>2, <1>4, <2>1 DEF EofIdle
  <1>5. CASE EofPending(l, eof)
    <2>1. StackOK'
      BY <1>5, <1>0, EndLineStack DEF EofPending
    <2>2. UNCHANGED sqlVars
      BY <1>5, <1>0, PendingNotComplete DEF EofPending
    <2> QED BY <1>0, <1>1, <1>2, <1>5, <2>1, <2>2 DEF EofPending
  <1>6. CASE Quit(l)
    <2>1. StackOK'
      BY <1>6, EndedStack DEF Quit
    <2> QED BY <1>0, <1>1, <1>2, <1>6, <2>1 DEF Quit
  <1>7. CASE NoEffect(l, eof)
    <2>1. StackOK'
      BY <1>3, <1>7 DEF NoEffect
    <2> QED BY <1>0, <1>1, <1>2, <1>7, <2>1 DEF NoEffect
  <1>8. CASE DotQuery(l, eof)
    <2>1. StackOK'
      BY <1>3, <1>8 DEF DotQuery
    <2>2. <<l>> \in Seq(Lines)
      OBVIOUS
    <2>3. RunsOK'
      BY <1>8, <2>2, RunSQLRuns DEF DotQuery
    <2> QED BY <1>0, <1>1, <1>8, <2>1, <2>3 DEF DotQuery
  <1>9. CASE DotMode(l, eof)
    <2> DEFINE nm == NormalizeMode(l.arg, depth)
               ok == nm.text # "unknown"
               m  == IF ok THEN nm ELSE mode
    <2>1. depth \in 0 .. MaxDepth
      BY DEF StackOK
    <2>2. m \in [text : Modes, buf : Freed .. MaxDepth]
      BY <1>0, <2>1, NormalizeModeType
    <2>3. EndLine(top.acc, m, eof)
          /\ wanted' = (IF ok THEN nm.text ELSE wanted)
      BY <1>9 DEF DotMode
    <2>4. ok => nm.text \in Modes
      BY <2>1, NormalizeModeType
    <2>5. wanted' \in Modes
      BY <2>3, <2>4
    <2> HIDE DEF m
    <2>6. StackOK'
      BY <1>0, <2>2, <2>3, EndLineStack
    <2> QED BY <1>0, <1>1, <1>2, <1>9, <2>5, <2>6 DEF DotMode
  <1>10. CASE DotOpen(l, eof)
    <2>1. StackOK'
      BY <1>3, <1>10 DEF DotOpen
    <2>2. PICK h \in Handles : Reopen(h, l.arg)
      BY <1>10 DEF DotOpen
    <2>3. l.arg \in Args
      BY LinesAssumption
    <2>4. ConnOK'
      BY <1>0, <2>2, <2>3 DEF Reopen, ConnOK, OneConnection
    <2> QED BY <1>0, <1>2, <1>10, <2>1, <2>4 DEF DotOpen
  <1>11. CASE DotOpenFails(l)
    <2>1. StackOK'
      BY <1>11, EndedStack DEF DotOpenFails
    <2>2. ConnOK'
      BY <1>11 DEF DotOpenFails, ConnOK, OneConnection
    <2> QED BY <1>0, <1>2, <1>11, <2>1, <2>2 DEF DotOpenFails
  <1>12. CASE DotReadNothing(l, eof)
    <2>1. StackOK'
      BY <1>3, <1>12 DEF DotReadNothing
    <2> QED BY <1>0, <1>1, <1>2, <1>12, <2>1 DEF DotReadNothing
  <1>13. CASE DotRead(l, eof)
    <2> DEFINE nested == [NoFrame EXCEPT !.kind = "script",
                                         !.rest = Files[l.arg]]
    <2>1. Files[l.arg] \in Seq(Lines)
      BY <1>13, InputAssumption DEF DotRead
    <2>2. nested \in Frame /\ nested.acc = <<>>
      BY <1>0, <2>1 DEF NoFrame, Frame
    <2>3. /\ depth \in 0 .. MaxDepth /\ depth + 1 \in 0 .. MaxDepth
          /\ depth' = depth + 1 /\ status' = "running"
          /\ frame[depth].acc = <<>> /\ mode' = mode
      BY <1>0, <1>13, BoundsAssumption DEF DotRead, IsDot, AtPrompt, StackOK, top
    <2>4. frame[depth].rest \in Seq(Lines)
          /\ (IF frame[depth].rest = <<>> THEN frame[depth].rest
                                          ELSE Tail(frame[depth].rest))
                \in Seq(Lines)
      BY <1>0, RestIsText DEF top, Frame
    <2> DEFINE caller == [frame[depth] EXCEPT
                            !.eof = eof, !.rest = IF @ = <<>> THEN @ ELSE Tail(@)]
    <2>5. caller \in Frame /\ caller.acc = <<>>
      BY <1>0, <2>3, <2>4 DEF top, Frame
    <2>6. frame' = [[frame EXCEPT ![depth] = caller] EXCEPT ![depth + 1] = nested]
      BY <1>13, <2>3 DEF DotRead, StackOK, Frame, top
    <2> HIDE DEF caller, nested
    <2>7. /\ frame' \in [0 .. MaxDepth -> Frame]
          /\ frame'[depth].acc = <<>> /\ frame'[depth + 1].acc = <<>>
          /\ \A d \in 0 .. MaxDepth :
                d \notin {depth, depth + 1} => frame'[d] = frame[d]
      BY <2>2, <2>3, <2>5, <2>6 DEF StackOK
    <2>8. StackShape'
      BY <2>3, <2>7, <1>0 DEF StackOK, StackShape
    <2>9. PendingText' /\ CallersIdle'
      BY <1>0, <2>3, <2>7 DEF StackOK, PendingText, CallersIdle
    <2>10. StackOK'
      BY <1>0, <2>3, <2>7, <2>8, <2>9 DEF StackOK, Statuses
    <2> QED BY <1>0, <1>1, <1>2, <1>13, <2>10 DEF DotRead
  <1>14. CASE StackOverflow(l)
    <2>1. StackOK'
      BY <1>14, EndedStack DEF StackOverflow
    <2> QED BY <1>0, <1>1, <1>2, <1>14, <2>1 DEF StackOverflow
  <1>15. CASE AddLine(l, eof)
    <2>1. Append(top.acc, l) \in Seq(Lines) /\ Pending(Append(top.acc, l))
      BY <1>15, TextGrows DEF AddLine
    <2>2. StackOK'
      BY <1>0, <1>15, <2>1, EndLineStack DEF AddLine
    <2> QED BY <1>0, <1>1, <1>2, <1>15, <2>2 DEF AddLine
  <1>16. CASE Submit(l, eof)
    <2>1. Append(top.acc, l) \in Seq(Lines) /\ Whole(Append(top.acc, l))
      BY <1>16, TextGrows DEF Submit
    <2>2. StackOK'
      BY <1>0, <1>16, EndLineStack DEF Submit
    <2>3. RunsOK'
      BY <1>16, <2>1, RunSQLRuns DEF Submit
    <2> QED BY <1>0, <1>1, <1>16, <2>2, <2>3 DEF Submit
  <1>17. CASE WriteFails(l, eof)
    <2>1. StackOK'
      BY <1>0, <1>17, EndedStack, ReturnStack DEF WriteFails
    <2>2. ConnOK' /\ RunsOK'
      BY <1>0, <1>1, <1>2, <1>17 DEF WriteFails
    <2> QED BY <1>0, <1>17, <2>1, <2>2 DEF WriteFails
  <1> QED
    BY <1>4, <1>5, <1>6, <1>7, <1>8, <1>9, <1>10, <1>11, <1>12, <1>13,
       <1>14, <1>15, <1>16, <1>17 DEF DoLine

\* The invariant is inductive: a step of main, a line, or the end of a loop.
LEMMA NextIInv == IInv /\ [Next]_vars => IInv'
  <1> SUFFICES ASSUME IInv, [Next]_vars PROVE IInv'
    OBVIOUS
  <1>1. CASE Iterate
    BY <1>1, LineIInv DEF Iterate
  <1>2. CASE ReadFails
    <2>1. StackOK' /\ ConnOK' /\ RunsOK'
      BY <1>2, EndedStack, SameConnection, SameRuns DEF ReadFails, IInv
    <2> QED BY <1>2, <2>1 DEF ReadFails, IInv
  <1>3. CASE EndScript
    <2>1. StackOK'
      BY <1>3, ReturnStack DEF EndScript, IInv
    <2>2. ConnOK' /\ RunsOK'
      BY <1>3, SameConnection, SameRuns DEF EndScript, IInv
    <2> QED BY <1>3, <2>1, <2>2 DEF EndScript, IInv
  <1>4. CASE UNCHANGED vars
    BY <1>4 DEF vars, IInv, StackOK, StackShape, PendingText, CallersIdle,
       ConnOK, OneConnection, RunsOK, WholeStatements
  <1> QED BY <1>1, <1>2, <1>3, <1>4, MainIInv DEF Next, Stopped

\* In every reachable state the stack of loops, the connection and the runs
\* are as the invariant says (main.go:260-503).
THEOREM Invariance == Spec => []IInv
  BY InitIInv, NextIInv, PTL DEF Spec
-----------------------------------------------------------------------------
(***************************************************************************)
(* The invariants the runs of Session check on small instances.            *)
(***************************************************************************)
\* Every reachable state is well typed; the output mode is always one of
\* the six and never "unknown" (main.go:409-423).
THEOREM TypeCorrect == Spec => []TypeOK
  <1>1. IInv => TypeOK
    BY DEF IInv, StackOK, ConnOK, RunsOK, TypeOK
  <1> QED BY <1>1, Invariance, PTL

\* However often .open is used, DuckDB holds one connection open while
\* commands are interpreted, and Conn names it (main.go:443-462).
THEOREM ConnectionUnique == Spec => []OneConnection
  <1>1. IInv => OneConnection
    BY DEF IInv, ConnOK
  <1> QED BY <1>1, Invariance, PTL

\* No statement continues across the beginning or the end of a file, at
\* any depth of .read (main.go:313, 464-476, 484).
LEMMA LineKeepsFilesApart ==
  ASSUME IInv, NEW l \in Lines, NEW eof \in BOOLEAN,
         NextLine(l, eof), DoLine(l, eof)
  PROVE  depth' # depth => top'.acc = <<>>
  <1>1. CASE DotRead(l, eof)
    <2>1. depth + 1 \in 0 .. MaxDepth /\ depth' = depth + 1
      BY <1>1, BoundsAssumption DEF DotRead, IInv, StackOK
    <2>2. frame'[depth + 1].acc = <<>>
      BY <1>1, <2>1 DEF DotRead, IInv, StackOK, NoFrame
    <2> QED BY <2>1, <2>2 DEF top
  <1>2. CASE WriteFails(l, eof)
    <2>1. CASE top.kind = "repl"
      BY <1>2, <2>1 DEF WriteFails
    <2>2. CASE top.kind # "repl"
      BY <1>2, <2>2, LineFacts, ReturnStack DEF WriteFails, IInv, top
    <2> QED BY <2>1, <2>2
  <1> QED
    BY <1>1, <1>2 DEF DoLine, EofIdle, EofPending, Quit, NoEffect, DotQuery,
       DotMode, DotOpen, DotOpenFails, DotReadNothing, StackOverflow, AddLine,
       Submit, EndLine

\* No statement continues across the beginning or the end of a file: each
\* file has a builder of its own (main.go:464-503).
THEOREM FilesSeparate == Spec => FilesApart
  <1>1. IInv /\ [Next]_vars => [depth' # depth => top'.acc = <<>>]_vars
    <2> SUFFICES ASSUME IInv, Next
                 PROVE  depth' # depth => top'.acc = <<>>
      BY DEF vars
    <2>1. CASE Main
      <3>1. ASSUME NEW kind, NEW script, StartLoop(kind, script)
            PROVE  top'.acc = <<>>
        <4>1. depth = 0 /\ frame[1] = NoFrame /\ 1 \in 0 .. MaxDepth
          BY <3>1, BoundsAssumption DEF StartLoop, IInv, StackOK, StackShape
        <4>2. frame'[1].acc = <<>>
          BY <3>1, <4>1 DEF StartLoop, IInv, StackOK, NoFrame
        <4> QED BY <3>1, <4>2 DEF StartLoop, top
      <3> QED
        BY <2>1, <3>1 DEF Main, OpenDB, RunArgument, StartRepl, StartBatch
    <2>2. CASE Iterate
      BY <2>2, LineKeepsFilesApart DEF Iterate
    <2>3. CASE EndScript
      BY <2>3, ReturnStack DEF EndScript, IInv, top
    <2>4. CASE OpenDBFails \/ ReadFails \/ Stopped
      BY <2>4 DEF OpenDBFails, ReadFails, Stopped, vars
    <2> QED BY <2>1, <2>2, <2>3, <2>4 DEF Next
  <1> QED BY <1>1, Invariance, PTL DEF Spec, FilesApart

\* Text is submitted as whole statements only (main.go:313-338, 484-500).
THEOREM StatementsWhole == Spec => []WholeStatements
  <1>1. IInv => WholeStatements
    BY DEF IInv, RunsOK
  <1> QED BY <1>1, Invariance, PTL

\* The submission at the end of the input is dead code (main.go:305-307).
THEOREM NothingToFlush == Spec => []PendingIncomplete
  <1>1. IInv => PendingIncomplete
    BY PendingNotComplete DEF IInv, StackOK, PendingText, PendingIncomplete
  <1> QED BY <1>1, Invariance, PTL
-----------------------------------------------------------------------------
(***************************************************************************)
(* Files that can be ranked, so that a file reads only files of a lower    *)
(* rank, do not exhaust a stack deep enough for the ranks.  The ranks left *)
(* to read shrink as the stack grows (RanksLeft).                          *)
(***************************************************************************)
Reads(l, p) == l.cmd = ".read" /\ l.arg = p

Ranked(rank) ==
  /\ rank \in [DOMAIN Files -> 1 .. MaxDepth - 1]
  /\ \A p, q \in DOMAIN Files : \A i \in DOMAIN Files[p] :
       Reads(Files[p][i], q) => rank[q] < rank[p]

ReadsUpTo(s, rank, n) ==
  \A i \in DOMAIN s, q \in DOMAIN Files : Reads(s[i], q) => rank[q] <= n

RanksLeft(rank) ==
  \A d \in 1 .. MaxDepth : d <= depth =>
    /\ frame[d].kind = "repl" => d = 1 /\ frame[d].rest = <<>>
    /\ ReadsUpTo(frame[d].rest, rank, MaxDepth - d)

\* What is left of a text reads no more than the text.
LEMMA RestReads ==
  ASSUME NEW s \in Seq(Lines), NEW rank, NEW n, ReadsUpTo(s, rank, n)
  PROVE  ReadsUpTo(IF s = <<>> THEN s ELSE Tail(s), rank, n)
  <1>1. CASE s = <<>>
    BY <1>1
  <1>2. CASE s # <<>>
    <2>1. \A i \in DOMAIN Tail(s) : i + 1 \in DOMAIN s /\ Tail(s)[i] = s[i + 1]
      BY <1>2
    <2>2. ReadsUpTo(Tail(s), rank, n)
      BY <2>1 DEF ReadsUpTo
    <2> QED BY <1>2, <2>2
  <1> QED BY <1>1, <1>2

\* Finishing an iteration keeps what the loops have left to read below their
\* ranks.
LEMMA EndLineRanks ==
  ASSUME NEW CONSTANT rank, StackOK, status = "running", RanksLeft(rank),
         NEW acc, NEW m, NEW eof, EndLine(acc, m, eof)
  PROVE  RanksLeft(rank)' /\ NoOverflow'
  <1> USE DEF StackOK
  <1>1. NoOverflow' /\ depth' = depth
    BY DEF EndLine, NoOverflow
  <1>2. ASSUME NEW d \in 1 .. MaxDepth
        PROVE  /\ frame'[d].kind = frame[d].kind
               /\ frame'[d].rest \in {frame[d].rest,
                    IF frame[d].rest = <<>> THEN frame[d].rest ELSE Tail(frame[d].rest)}
    BY DEF EndLine, Frame
  <1>3. \A d \in 1 .. MaxDepth : frame[d].rest \in Seq(Lines)
    BY DEF Frame
  <1>4. ASSUME NEW d \in 1 .. MaxDepth, d <= depth
        PROVE  /\ frame'[d].kind = "repl" => d = 1 /\ frame'[d].rest = <<>>
               /\ ReadsUpTo(frame'[d].rest, rank, MaxDepth - d)
    <2>1. /\ frame[d].kind = "repl" => d = 1 /\ frame[d].rest = <<>>
          /\ ReadsUpTo(frame[d].rest, rank, MaxDepth - d)
      BY <1>4 DEF RanksLeft
    <2>2. frame[d].rest \in Seq(Lines)
      BY <1>3
    <2>3. ReadsUpTo(IF frame[d].rest = <<>> THEN frame[d].rest
                    ELSE Tail(frame[d].rest), rank, MaxDepth - d)
      BY <2>1, <2>2, RestReads
    <2> QED BY <1>2, <2>1, <2>3
  <1>5. RanksLeft(rank)'
    BY <1>1, <1>4 DEF RanksLeft
  <1> QED BY <1>1, <1>5

\* Returning to the caller of .read keeps the ranks, for the caller has read
\* a line and no more.
LEMMA ReturnRanks ==
  ASSUME NEW CONSTANT rank, StackOK, status = "running", RanksLeft(rank),
         ReturnToCaller
  PROVE  RanksLeft(rank)' /\ NoOverflow'
  <1> USE DEF StackOK
  <1>1. /\ depth \in 1 .. MaxDepth /\ depth' = depth - 1
        /\ status' \in {"running", "exit0"}
    BY BoundsAssumption DEF StackShape, ReturnToCaller
  <1>2. \A d \in 1 .. MaxDepth : d # depth => frame'[d] = frame[d]
    BY <1>1, BoundsAssumption DEF ReturnToCaller
  <1>3. RanksLeft(rank)'
    BY <1>1, <1>2, BoundsAssumption DEF RanksLeft
  <1> QED BY <1>1, <1>3 DEF NoOverflow

\* An iteration keeps the ranks: .read opens a file of a lower rank one level
\* up.
LEMMA LineRanks ==
  ASSUME NEW CONSTANT rank, Ranked(rank), IInv, RanksLeft(rank),
         NEW l \in Lines, NEW eof \in BOOLEAN, NextLine(l, eof), DoLine(l, eof)
  PROVE  RanksLeft(rank)' /\ NoOverflow'
  <1>0. StackOK /\ status = "running" /\ depth \in 1 .. MaxDepth
    BY LineFacts, BoundsAssumption DEF IInv, StackOK, StackShape
  \* The line is the first of the text, or was typed into the loop at the
  \* bottom of the stack.
  <1>1. \A q \in DOMAIN Files : Reads(l, q) => rank[q] <= MaxDepth - depth
    <2> SUFFICES ASSUME NEW q \in DOMAIN Files, Reads(l, q)
                 PROVE  rank[q] <= MaxDepth - depth
      OBVIOUS
    <2>1. CASE top.kind = "repl"
      <3>1. depth = 1
        BY <1>0, <2>1 DEF RanksLeft, top
      <3> QED BY <3>1, BoundsAssumption DEF Ranked
    <2>2. CASE top.kind = "script"
      <3>1. frame[depth].rest # <<>> /\ l = Head(frame[depth].rest)
            /\ frame[depth].rest \in Seq(Lines)
        BY <1>0, <2>2 DEF NextLine, top, StackOK, Frame
      <3>2. 1 \in DOMAIN frame[depth].rest /\ l = frame[depth].rest[1]
        BY <3>1
      <3> QED BY <1>0, <3>2 DEF RanksLeft, ReadsUpTo
    <2> QED BY <2>1, <2>2 DEF NextLine
  <1>2. CASE DotRead(l, eof)
    <2>1. /\ l.arg \in DOMAIN Files /\ Reads(l, l.arg)
          /\ depth' = depth + 1 /\ depth + 1 \in 1 .. MaxDepth
          /\ status' = "running"
      BY <1>0, <1>2, BoundsAssumption DEF DotRead, IsDot, Reads
    <2>2. Files[l.arg] \in Seq(Lines)
      BY <2>1, InputAssumption
    <2>3. /\ frame'[depth + 1].kind = "script"
          /\ frame'[depth + 1].rest = Files[l.arg]
      BY <1>0, <1>2, <2>1 DEF DotRead, StackOK, NoFrame, Frame
    <2>4. ASSUME NEW d \in 1 .. MaxDepth, d <= depth
          PROVE  /\ frame'[d].kind = frame[d].kind
                 /\ frame'[d].rest \in {frame[d].rest,
                      IF frame[d].rest = <<>> THEN frame[d].rest
                                             ELSE Tail(frame[d].rest)}
      <3>1. frame \in [0 .. MaxDepth -> Frame]
        BY <1>0 DEF StackOK
      <3>2. CASE d = depth
        <4> DEFINE rest == IF frame[depth].rest = <<>> THEN frame[depth].rest
                                                       ELSE Tail(frame[depth].rest)
                   new  == [NoFrame EXCEPT !.kind = "script",
                                           !.rest = Files[l.arg]]
        <4>1. depth \in 0 .. MaxDepth /\ depth # depth + 1
          BY <1>0
        <4>2. frame[depth] \in Frame
          BY <3>1, <4>1
        <4>3. frame' = [frame EXCEPT ![depth].eof = eof, ![depth].rest = rest,
                                     ![depth + 1] = new]
          BY <1>2, <3>1, <4>1, <4>2 DEF DotRead, Frame
        <4> HIDE DEF rest, new
        <4>4. frame'[depth].kind = frame[depth].kind /\ frame'[depth].rest = rest
          BY <3>1, <4>1, <4>2, <4>3 DEF Frame
        <4> QED BY <3>2, <4>4 DEF rest
      <3>3. CASE d # depth
        <4>1. d # depth + 1
          BY <1>0, <2>4
        <4>2. frame'[d] = frame[d]
          BY <1>2, <2>4, <3>1, <3>3, <4>1 DEF DotRead
        <4> QED BY <4>2
      <3> QED BY <3>2, <3>3
    <2>5. ASSUME NEW i \in DOMAIN Files[l.arg], NEW q \in DOMAIN Files,
                 Reads(Files[l.arg][i], q)
          PROVE  rank[q] <= MaxDepth - (depth + 1)
      <3>1. rank[q] < rank[l.arg] /\ rank[l.arg] <= MaxDepth - depth
        BY <1>1, <2>1, <2>5 DEF Ranked
      <3>2. rank[q] \in Int /\ rank[l.arg] \in Int
        BY <2>1 DEF Ranked
      <3> QED BY <1>0, <3>1, <3>2, BoundsAssumption
    <2>6. \A d \in 1 .. MaxDepth : frame[d].rest \in Seq(Lines)
      BY <1>0 DEF StackOK, Frame
    <2>7. ASSUME NEW d \in 1 .. MaxDepth, d <= depth + 1
          PROVE  /\ frame'[d].kind = "repl" => d = 1 /\ frame'[d].rest = <<>>
                 /\ ReadsUpTo(frame'[d].rest, rank, MaxDepth - d)
      <3>1. CASE d <= depth
        <4>1. /\ frame[d].kind = "repl" => d = 1 /\ frame[d].rest = <<>>
              /\ ReadsUpTo(frame[d].rest, rank, MaxDepth - d)
              /\ frame[d].rest \in Seq(Lines)
          BY <2>6, <3>1 DEF RanksLeft
        <4>2. ReadsUpTo(IF frame[d].rest = <<>> THEN frame[d].rest
                        ELSE Tail(frame[d].rest), rank, MaxDepth - d)
          BY <4>1, RestReads
        <4> QED BY <2>4, <3>1, <4>1, <4>2
      <3>2. CASE d = depth + 1
        BY <2>3, <2>5, <3>2 DEF ReadsUpTo
      <3> QED BY <1>0, <2>7, <3>1, <3>2
    <2>8. RanksLeft(rank)'
      BY <2>1, <2>7 DEF RanksLeft
    <2> QED BY <2>1, <2>8 DEF NoOverflow
  <1>3. CASE StackOverflow(l)
    <2>1. l.arg \in DOMAIN Files /\ Reads(l, l.arg) /\ depth = MaxDepth
      BY <1>3 DEF StackOverflow, IsDot, Reads
    <2>2. rank[l.arg] <= 0 /\ rank[l.arg] \in 1 .. MaxDepth - 1
      BY <1>0, <1>1, <2>1, BoundsAssumption DEF Ranked
    <2> QED BY <2>2, BoundsAssumption
  <1>4. CASE Quit(l) \/ DotOpenFails(l)
    BY <1>4 DEF Quit, DotOpenFails, RanksLeft, NoOverflow
  <1>5. CASE WriteFails(l, eof)
    <2>1. CASE top.kind = "repl"
      BY <1>5, <2>1 DEF WriteFails, RanksLeft, NoOverflow
    <2>2. CASE top.kind # "repl"
      BY <1>0, <1>5, <2>2, ReturnRanks DEF WriteFails
    <2> QED BY <2>1, <2>2
  <1>6. CASE \E acc, m : EndLine(acc, m, eof) \/ EndLine(acc, m, TRUE)
    BY <1>0, <1>6, EndLineRanks
  <1> QED
    BY <1>2, <1>3, <1>4, <1>5, <1>6 DEF DoLine, EofIdle, EofPending, NoEffect,
       DotQuery, DotMode, DotOpen, DotReadNothing, AddLine, Submit

\* Files that do not read one another in a circle never exhaust the stack
\* (main.go:407, 464-472).
THEOREM NoCircleNoOverflow ==
  ASSUME NEW CONSTANT rank, Ranked(rank)
  PROVE  Spec => []NoOverflow
  <1> DEFINE RInv == IInv /\ RanksLeft(rank) /\ NoOverflow
  <1>1. Init => RInv
    BY InitIInv, BoundsAssumption DEF Init, RanksLeft, NoOverflow
  <1>2. RInv /\ [Next]_vars => RInv'
    <2> SUFFICES ASSUME RInv, [Next]_vars PROVE RanksLeft(rank)' /\ NoOverflow'
      BY NextIInv
    <2>1. CASE Iterate
      BY <2>1, LineRanks DEF Iterate
    <2>2. CASE EndScript
      BY <2>2, ReturnRanks DEF EndScript, IInv
    <2>3. CASE ReadFails \/ OpenDBFails \/ UNCHANGED vars
      BY <2>3 DEF ReadFails, OpenDBFails, vars, RanksLeft, NoOverflow
    <2>4. ASSUME NEW kind \in {"repl", "script"}, NEW script \in Seq(Lines),
                 kind = "repl" => script = <<>>, StartLoop(kind, script)
          PROVE  RanksLeft(rank)' /\ NoOverflow'
      <3>1. depth' = 1 /\ status' = "running" /\ 1 \in 0 .. MaxDepth
        BY <2>4, BoundsAssumption DEF StartLoop
      <3>2. frame'[1].kind = kind /\ frame'[1].rest = script
        BY <2>4, <3>1 DEF StartLoop, IInv, StackOK, NoFrame
      <3>3. \A q \in DOMAIN Files : rank[q] <= MaxDepth - 1
        BY BoundsAssumption DEF Ranked
      <3>4. ReadsUpTo(frame'[1].rest, rank, MaxDepth - 1)
        BY <3>3 DEF ReadsUpTo
      <3>5. ASSUME NEW d \in 1 .. MaxDepth, d <= depth' PROVE d = 1
        BY <3>1, <3>5
      <3>6. frame'[1].kind = "repl" => frame'[1].rest = <<>>
        BY <2>4, <3>2
      <3> QED BY <3>1, <3>4, <3>5, <3>6 DEF RanksLeft, NoOverflow
    <2>5. CASE Main
      BY <2>4, <2>5, EmptySeq, InputAssumption
         DEF Main, OpenDB, RunArgument, StartRepl, StartBatch, RanksLeft,
             NoOverflow, IInv, StackOK, StackShape
    <2> QED BY <2>1, <2>2, <2>3, <2>5 DEF Next, Stopped
  <1>3. RInv => NoOverflow
    OBVIOUS
  <1> QED BY <1>1, <1>2, <1>3, PTL DEF Spec
-----------------------------------------------------------------------------
(***************************************************************************)
(* A mode chosen by an alias is a literal of the program, and stays what   *)
(* the user asked for: only the canonical names, which normalizeMode       *)
(* returns as they were typed, are views into a line that is freed.        *)
(***************************************************************************)
AliasesOnly == \A l \in Lines : l.cmd = ".mode" => l.arg \notin Modes

ModeIsWanted == mode = [text |-> wanted, buf |-> Static]

ModeInv == ModeIsWanted /\ ModeKept

\* Freeing the buffer of a loop leaves a literal alone (main.go:314, 470).
LEMMA ReleaseLiteral ==
  ASSUME NEW m, m.buf = Static, NEW b \in Nat \ {0}
  PROVE  Release(m, b) = m
  BY DEF Release, Static

\* Freeing the line leaves a mode that is a literal alone.
LEMMA EndLineKeepsMode ==
  ASSUME StackOK, status = "running", NEW m, m.buf = Static,
         NEW acc, NEW eof, EndLine(acc, m, eof)
  PROVE  mode' = m
  <1>1. depth \in Nat \ {0}
    BY BoundsAssumption DEF StackOK, StackShape
  <1> QED BY <1>1, ReleaseLiteral DEF EndLine

\* Freeing the file of a finished .read leaves a mode that is a literal
\* alone.
LEMMA ReturnKeepsMode ==
  ASSUME StackOK, status = "running", ModeIsWanted, ReturnToCaller
  PROVE  mode' = mode
  <1>1. depth \in Nat \ {0} /\ mode.buf = Static
    BY BoundsAssumption DEF StackOK, StackShape, ModeIsWanted
  <1>2. Release(mode, depth) = mode
    BY <1>1, ReleaseLiteral
  <1>3. CASE frame[depth - 1].kind = "repl"
    <2>1. depth - 1 \in Nat \ {0}
      BY <1>1, <1>3, BoundsAssumption DEF StackOK, StackShape, NoFrame
    <2>2. Release(mode, depth - 1) = mode
      BY <1>1, <2>1, ReleaseLiteral
    <2> QED BY <1>2, <1>3, <2>2 DEF ReturnToCaller
  <1>4. CASE frame[depth - 1].kind # "repl"
    BY <1>2, <1>4 DEF ReturnToCaller
  <1> QED BY <1>3, <1>4

\* What is printed is printed in the wanted mode (main.go:586-612).
LEMMA RunSQLShowsWanted ==
  ASSUME ModeInv, NEW src, NEW sql, RunSQL(src, sql)
  PROVE  ModeKept'
  <1>1. Rendered(mode) = {wanted}
    BY DEF ModeInv, ModeIsWanted, Rendered, Static, Freed
  <1> QED BY <1>1 DEF RunSQL, ModeInv, ModeKept, sqlVars

\* An iteration keeps the mode what was asked for, if aliases are used.
LEMMA LineKeepsMode ==
  ASSUME AliasesOnly, IInv, ModeInv, NEW l \in Lines, NEW eof \in BOOLEAN,
         NextLine(l, eof), DoLine(l, eof)
  PROVE  ModeInv'
  <1>0. /\ StackOK /\ status = "running" /\ ModeIsWanted
        /\ mode.buf = Static /\ mode.text = wanted
    BY LineFacts DEF IInv, ModeInv, ModeIsWanted
  <1>1. ASSUME NEW acc, EndLine(acc, mode, eof), UNCHANGED wanted
        PROVE  ModeIsWanted'
    <2>1. mode' = mode
      BY <1>0, <1>1, EndLineKeepsMode
    <2> QED BY <1>0, <1>1, <2>1 DEF ModeIsWanted
  <1>2. ASSUME UNCHANGED sqlVars PROVE ModeKept'
    BY <1>2 DEF ModeInv, ModeKept, sqlVars
  <1>3. ASSUME UNCHANGED <<mode, wanted, sqlVars>> PROVE ModeInv'
    BY <1>2, <1>3 DEF ModeInv, ModeIsWanted
  <1>4. CASE EofIdle(l, eof)
    BY <1>2, <1>4, <1>0, EndLineKeepsMode DEF EofIdle, ModeInv, ModeIsWanted
  <1>5. CASE EofPending(l, eof)
    <2>1. ModeIsWanted'
      BY <1>0, <1>5, EndLineKeepsMode DEF EofPending, ModeIsWanted
    <2> QED BY <1>2, <1>5, <2>1, RunSQLShowsWanted DEF EofPending, ModeInv
  <1>6. CASE NoEffect(l, eof)
    BY <1>1, <1>2, <1>6 DEF NoEffect, ModeInv
  <1>7. CASE DotQuery(l, eof)
    BY <1>1, <1>7, RunSQLShowsWanted DEF DotQuery, ModeInv
  <1>8. CASE DotMode(l, eof)
    <2> DEFINE nm == NormalizeMode(l.arg, depth)
    <2>1. l.arg \notin Modes
      BY <1>8 DEF DotMode, IsDot, AliasesOnly
    <2>2. nm.text # "unknown" => nm = [text |-> nm.text, buf |-> Static]
      BY <2>1 DEF NormalizeMode
    <2> DEFINE m == IF nm.text # "unknown" THEN nm ELSE mode
    <2>3. EndLine(top.acc, m, eof) /\ UNCHANGED sqlVars
          /\ wanted' = IF nm.text # "unknown" THEN nm.text ELSE wanted
      BY <1>8 DEF DotMode
    <2>4. m = [text |-> wanted', buf |-> Static]
      BY <1>0, <2>2, <2>3 DEF ModeIsWanted
    <2> HIDE DEF m
    <2>5. mode' = m
      BY <1>0, <2>3, <2>4, EndLineKeepsMode
    <2> QED BY <1>2, <2>3, <2>4, <2>5 DEF ModeInv, ModeIsWanted
  <1>9. CASE DotOpen(l, eof) \/ DotReadNothing(l, eof)
    BY <1>1, <1>2, <1>9 DEF DotOpen, DotReadNothing, ModeInv
  <1>10. CASE \/ Quit(l) \/ DotOpenFails(l)
              \/ DotRead(l, eof) \/ StackOverflow(l)
    BY <1>3, <1>10 DEF Quit, DotOpenFails, DotRead, StackOverflow
  <1>11. CASE AddLine(l, eof)
    BY <1>1, <1>2, <1>11 DEF AddLine, ModeInv
  <1>12. CASE Submit(l, eof)
    <2>1. ModeIsWanted'
      BY <1>0, <1>12, EndLineKeepsMode DEF Submit, ModeIsWanted
    <2> QED BY <1>12, <2>1, RunSQLShowsWanted DEF Submit, ModeInv
  <1>13. CASE WriteFails(l, eof)
    <2>1. UNCHANGED <<mode, wanted, sqlVars>>
      BY <1>0, <1>13, ReturnKeepsMode DEF WriteFails
    <2> QED BY <1>3, <2>1
  <1> QED
    BY <1>4, <1>5, <1>6, <1>7, <1>8, <1>9, <1>10, <1>11, <1>12, <1>13
       DEF DoLine

\* Who chooses modes by their aliases gets the mode asked for, whatever is
\* read, opened or run in between (main.go:409-423, 505-531).
THEOREM AliasesKeepMode ==
  ASSUME AliasesOnly
  PROVE  Spec => []ModeKept
  <1>1. Init => ModeInv
    <2>1. NoRun.shown = "none"
      BY Zenon DEF NoRun
    <2> QED BY <2>1 DEF Init, ModeInv, ModeIsWanted, ModeKept
  <1>2. IInv /\ ModeInv /\ [Next]_vars => ModeInv'
    <2> SUFFICES ASSUME IInv, ModeInv, [Next]_vars PROVE ModeInv'
      OBVIOUS
    <2>1. CASE Iterate
      BY <2>1, LineKeepsMode DEF Iterate
    <2>2. CASE EndScript
      <3>1. mode' = mode
        BY <2>2, ReturnKeepsMode DEF EndScript, IInv, ModeInv
      <3> QED
        BY <2>2, <3>1 DEF EndScript, ModeInv, ModeIsWanted, ModeKept, sqlVars
    <2>3. ASSUME NEW l \in Lines, RunArgument(l) PROVE ModeInv'
      BY <2>3, RunSQLShowsWanted DEF RunArgument, ModeInv, ModeIsWanted
    <2>4. ASSUME NEW kind, NEW script, StartLoop(kind, script) PROVE ModeInv'
      BY <2>4 DEF StartLoop, ModeInv, ModeIsWanted, ModeKept, sqlVars
    <2>5. CASE Main
      BY <2>3, <2>4, <2>5 DEF Main, OpenDB, StartRepl, StartBatch, ModeInv,
         ModeIsWanted, ModeKept, sqlVars
    <2>6. CASE OpenDBFails \/ ReadFails \/ UNCHANGED vars
      BY <2>6 DEF OpenDBFails, ReadFails, vars, ModeInv, ModeIsWanted,
         ModeKept, sqlVars
    <2> QED BY <2>1, <2>2, <2>5, <2>6 DEF Next, Stopped
  <1>3. ModeInv => ModeKept
    BY DEF ModeInv
  <1> QED BY <1>1, <1>2, <1>3, Invariance, PTL DEF Spec
-----------------------------------------------------------------------------
(***************************************************************************)
(* Session implements Shell: the stack of loops behaves as one shell that  *)
(* reads one stream of lines.  CallersIdle is what makes a loop that       *)
(* returns a Drop: the text that becomes pending again is empty.           *)
(***************************************************************************)
\* The five ways a step of the interpreter looks to the user.
LEMMA AbstractStep ==
  ASSUME status \in {"opened", "running"},
         \/ /\ top'.acc \in {<<>>, top.acc}
            /\ UNCHANGED conn.path /\ UNCHANGED sqlVars
         \/ \E l \in Lines :
              /\ top.acc = <<>> /\ UNCHANGED top.acc /\ UNCHANGED conn.path
              /\ runs' = runs + 1 /\ last'.sql = <<l>> /\ last'.path = conn.path
         \/ \E path \in Args :
              /\ top.acc = <<>> /\ top'.acc = <<>>
              /\ conn'.path = path /\ UNCHANGED sqlVars
         \/ \E l \in Lines :
              /\ top.acc = <<>> => l.cmd = "sql"
              /\ ~l.semi /\ top'.acc = Append(top.acc, l)
              /\ UNCHANGED conn.path /\ UNCHANGED sqlVars
         \/ \E l \in Lines :
              /\ top.acc = <<>> => l.cmd = "sql"
              /\ l.semi /\ top'.acc = <<>> /\ UNCHANGED conn.path
              /\ runs' = runs + 1 /\ last'.sql = Append(top.acc, l)
              /\ last'.path = conn.path
  PROVE  Promise!Step
  BY DEF Promise!Step, Promise!Drop, Promise!Ask, Promise!Switch,
     Promise!Continue, Promise!Complete, Promise!Text, Promise!Runs,
     Promise!ranVars, sqlVars

\* The initial states are initial states of the promise.
LEMMA InitRefines == Init => Promise!Init
  <1> SUFFICES ASSUME Init PROVE Promise!Init
    OBVIOUS
  <1>1. /\ status = "start" /\ depth = 0 /\ runs = 0 /\ conn = NoConn
        /\ frame = [d \in 0 .. MaxDepth |-> NoFrame] /\ last = NoRun
    BY DEF Init
  <1>2. top.acc = <<>>
    BY <1>1, BoundsAssumption DEF top, NoFrame
  <1>3. (status \in {"opened", "running"}) = FALSE
    BY <1>1
  <1>4. conn.path = "" /\ last.sql = <<>> /\ last.path = ""
    BY <1>1 DEF NoConn, NoRun
  <1> QED BY <1>1, <1>2, <1>3, <1>4 DEF Promise!Init

\* Handing text to DuckDB is one run of the shell, unless the text is blank.
LEMMA RunSQLIsRun ==
  ASSUME NEW src, NEW sql, RunSQL(src, sql),
         \E i \in DOMAIN sql : sql[i].cmd # "blank"
  PROVE  runs' = runs + 1 /\ last'.sql = sql /\ last'.path = conn.path
  BY DEF RunSQL

\* An iteration with a new line is a step of the abstract shell.
LEMMA LineRefines ==
  ASSUME IInv, NEW l \in Lines, NEW eof \in BOOLEAN,
         NextLine(l, eof), DoLine(l, eof)
  PROVE  Promise!Step
  <1>0. /\ status = "running" /\ StackOK
        /\ top \in Frame /\ top.acc \in Seq(Lines) /\ Pending(top.acc)
        /\ <<>> \in Seq(Lines) /\ Pending(<<>>)
        /\ mode \in [text : Modes, buf : Freed .. MaxDepth]
    BY LineFacts DEF IInv
  <1>1. ASSUME NEW acc \in Seq(Lines), Pending(acc),
               NEW m \in [text : Modes, buf : Freed .. MaxDepth],
               NEW end \in BOOLEAN, EndLine(acc, m, end)
        PROVE  top'.acc = acc
    BY <1>0, <1>1, EndLineStack DEF top
  <1>2. UNCHANGED <<depth, frame>> => UNCHANGED top
    BY DEF top
  <1>3. ASSUME NEW src, RunSQL(src, <<l>>)
        PROVE  \/ UNCHANGED sqlVars
               \/ runs' = runs + 1 /\ last'.sql = <<l>> /\ last'.path = conn.path
    BY <1>3 DEF RunSQL
  <1>4. ASSUME top'.acc \in {<<>>, top.acc}, UNCHANGED <<conn.path, sqlVars>>
        PROVE  Promise!Step
    BY <1>0, <1>4, AbstractStep DEF sqlVars
  <1>5. CASE EofIdle(l, eof)
    BY <1>0, <1>1, <1>4, <1>5 DEF EofIdle, connVars
  <1>6. CASE EofPending(l, eof)
    <2>1. UNCHANGED sqlVars
      BY <1>0, <1>6, PendingNotComplete DEF EofPending
    <2> QED BY <1>0, <1>1, <1>4, <1>6, <2>1 DEF EofPending, connVars
  <1>7. CASE Quit(l)
    BY <1>2, <1>4, <1>7 DEF Quit, connVars
  <1>8. CASE NoEffect(l, eof)
    BY <1>0, <1>1, <1>4, <1>8 DEF NoEffect, connVars
  <1>9. CASE DotQuery(l, eof)
    <2>1. top'.acc = <<>> /\ top.acc = <<>> /\ UNCHANGED conn.path
      BY <1>0, <1>1, <1>9 DEF DotQuery, IsDot, AtPrompt, connVars
    <2>2. CASE UNCHANGED sqlVars
      BY <1>4, <2>1, <2>2
    <2>3. CASE runs' = runs + 1 /\ last'.sql = <<l>> /\ last'.path = conn.path
      BY <1>0, <2>1, <2>3, AbstractStep
    <2> QED BY <1>3, <1>9, <2>2, <2>3 DEF DotQuery
  <1>10. CASE DotMode(l, eof)
    <2> DEFINE nm == NormalizeMode(l.arg, depth)
               m  == IF nm.text # "unknown" THEN nm ELSE mode
    <2>1. m \in [text : Modes, buf : Freed .. MaxDepth]
      BY <1>0, NormalizeModeType DEF StackOK
    <2>2. EndLine(top.acc, m, eof)
      BY <1>10 DEF DotMode
    <2> HIDE DEF m
    <2>3. top'.acc = top.acc
      BY <1>0, <1>1, <2>1, <2>2
    <2> QED BY <1>4, <1>10, <2>3 DEF DotMode, connVars
  <1>11. CASE DotOpen(l, eof)
    <2>1. top'.acc = <<>> /\ top.acc = <<>>
      BY <1>0, <1>1, <1>11 DEF DotOpen, IsDot, AtPrompt
    <2>2. conn'.path = l.arg /\ l.arg \in Args
      BY <1>11, LinesAssumption DEF DotOpen, Reopen
    <2>3. UNCHANGED sqlVars
      BY <1>11 DEF DotOpen
    <2> QED BY <1>0, <2>1, <2>2, <2>3, AbstractStep
  <1>12. CASE DotOpenFails(l)
    BY <1>2, <1>4, <1>12 DEF DotOpenFails
  <1>13. CASE DotReadNothing(l, eof)
    BY <1>0, <1>1, <1>4, <1>13 DEF DotReadNothing, connVars
  <1>14. CASE DotRead(l, eof)
    <2>1. depth + 1 \in 0 .. MaxDepth /\ depth' = depth + 1
      BY <1>0, <1>14, BoundsAssumption DEF DotRead, StackOK
    <2>2. frame'[depth + 1].acc = <<>>
      BY <1>0, <1>14, <2>1 DEF DotRead, StackOK, NoFrame
    <2>3. top'.acc = <<>>
      BY <2>1, <2>2 DEF top
    <2> QED BY <1>4, <1>14, <2>3 DEF DotRead, connVars
  <1>15. CASE StackOverflow(l)
    BY <1>2, <1>4, <1>15 DEF StackOverflow, connVars
  <1>16. CASE AddLine(l, eof)
    <2>1. /\ Append(top.acc, l) \in Seq(Lines) /\ Pending(Append(top.acc, l))
      BY <1>0, <1>16, TextGrows DEF AddLine
    <2>2. top'.acc = Append(top.acc, l) /\ ~l.semi
          /\ UNCHANGED conn.path /\ UNCHANGED sqlVars
      BY <1>0, <1>1, <1>16, <2>1 DEF AddLine, connVars
    <2>3. top.acc = <<>> => l.cmd = "sql"
      BY <1>16, LinesAssumption DEF AddLine, IsText, IsDot, AtPrompt, Cmds
    <2> QED BY <1>0, <2>2, <2>3, AbstractStep
  <1>17. CASE Submit(l, eof)
    <2> DEFINE sql == Append(top.acc, l)
    <2>1. top'.acc = <<>> /\ l.semi /\ UNCHANGED conn.path
      BY <1>0, <1>1, <1>17 DEF Submit, connVars
    <2>2. top.acc = <<>> => l.cmd = "sql"
      BY <1>17, LinesAssumption DEF Submit, IsText, IsDot, AtPrompt, Cmds
    <2>3. Len(top.acc) + 1 \in DOMAIN sql /\ sql[Len(top.acc) + 1] = l
      BY <1>0
    <2>4. l.cmd # "blank"
      BY <2>1, LinesAssumption
    <2>5. runs' = runs + 1 /\ last'.sql = sql /\ last'.path = conn.path
      BY <1>17, <2>3, <2>4, RunSQLIsRun DEF Submit
    <2> QED BY <1>0, <2>1, <2>2, <2>5, AbstractStep
  <1>18. CASE WriteFails(l, eof)
    <2>1. CASE top.kind = "repl"
      BY <1>2, <1>4, <1>18, <2>1 DEF WriteFails, connVars
    <2>2. CASE top.kind # "repl"
      <3>1. top'.acc = <<>>
        BY <1>0, <1>18, <2>2, ReturnStack DEF WriteFails, top
      <3> QED BY <1>4, <1>18, <3>1 DEF WriteFails, connVars
    <2> QED BY <2>1, <2>2
  <1> QED
    BY <1>5, <1>6, <1>7, <1>8, <1>9, <1>10, <1>11, <1>12, <1>13, <1>14,
       <1>15, <1>16, <1>17, <1>18 DEF DoLine

\* Every step of the nested loops is a step of the abstract shell or changes
\* nothing of it.
LEMMA StepRefines == IInv /\ [Next]_vars => [Promise!Next]_(Promise!shellVars)
  <1> SUFFICES ASSUME IInv, [Next]_vars
               PROVE  Promise!Next \/ UNCHANGED Promise!shellVars
    OBVIOUS
  <1>0. StackOK /\ depth \in 0 .. MaxDepth
    BY DEF IInv, StackOK
  <1>1. ASSUME NEW h \in Handles, NEW m \in StartModes, OpenDB(h, m)
        PROVE  Promise!Next
    <2>1. /\ (status \in {"opened", "running"}) = FALSE
          /\ (status' \in {"opened", "running"}) = TRUE
          /\ conn'.path = StartPath /\ UNCHANGED <<top, sqlVars>>
      BY <1>1 DEF OpenDB, top
    <2> QED BY <2>1 DEF Promise!Next, Promise!Connect, Promise!ranVars, sqlVars
  <1>2. CASE OpenDBFails
    <2>1. /\ (status \in {"opened", "running"}) = FALSE
          /\ (status' \in {"opened", "running"}) = FALSE
          /\ UNCHANGED <<top, conn, sqlVars>>
      BY <1>2 DEF OpenDBFails, top, connVars
    <2> QED BY <2>1 DEF Promise!shellVars, sqlVars
  <1>3. ASSUME NEW l \in Lines, RunArgument(l)
        PROVE  Promise!Next
    <2>1. top.acc = <<>> /\ UNCHANGED <<top, conn>> /\ status = "opened"
      <3>1. depth = 0 /\ frame[0] = NoFrame
        BY <1>0, <1>3, BoundsAssumption DEF RunArgument, StackOK, StackShape
      <3> QED BY <1>3, <3>1 DEF RunArgument, connVars, top, NoFrame
    <2>2. \/ UNCHANGED sqlVars
          \/ runs' = runs + 1 /\ last'.sql = <<l>> /\ last'.path = conn.path
      BY <1>3 DEF RunArgument, RunSQL
    <2> QED BY <2>1, <2>2, AbstractStep DEF Promise!Next
  <1>4. ASSUME NEW kind, NEW script, StartLoop(kind, script)
        PROVE  Promise!Next
    <2>1. top'.acc = <<>>
      <3>1. depth = 0 /\ frame[1] = NoFrame /\ 1 \in 0 .. MaxDepth
        BY <1>0, <1>4, BoundsAssumption DEF StartLoop, StackOK, StackShape
      <3>2. frame'[1].acc = <<>>
        BY <1>0, <1>4, <3>1 DEF StartLoop, StackOK, NoFrame
      <3> QED BY <1>4, <3>2 DEF StartLoop, top
    <2>2. status = "opened" /\ UNCHANGED conn.path /\ UNCHANGED sqlVars
      BY <1>4 DEF StartLoop, connVars
    <2> QED BY <2>1, <2>2, AbstractStep DEF Promise!Next
  <1>5. CASE StartRepl \/ StartBatch
    BY <1>4, <1>5 DEF StartRepl, StartBatch
  <1>6. CASE Iterate
    BY <1>6, LineRefines DEF Iterate, Promise!Next
  <1>7. CASE ReadFails
    <2>1. status = "running" /\ UNCHANGED <<top, conn>> /\ UNCHANGED sqlVars
      BY <1>7 DEF ReadFails, connVars, top
    <2> QED BY <2>1, AbstractStep DEF Promise!Next
  <1>8. CASE EndScript
    <2>1. status = "running" /\ UNCHANGED conn /\ UNCHANGED sqlVars
      BY <1>8 DEF EndScript, connVars
    <2>2. top'.acc = <<>>
      BY <1>0, <1>8, ReturnStack DEF EndScript, top
    <2> QED BY <2>1, <2>2, AbstractStep DEF Promise!Next
  <1>9. CASE UNCHANGED vars
    BY <1>9 DEF vars, Promise!shellVars, top
  <1> QED
    BY <1>1, <1>2, <1>3, <1>5, <1>6, <1>7, <1>8, <1>9 DEF Next, Main, Stopped

\* Every behaviour of the interpreter, with its stack of nested scripts, is
\* a behaviour of one shell that runs each statement once, when its last
\* line has been read, on the database opened last (main.go:260-355, 443-503).
THEOREM ImplementsShell == Spec => PromiseSpec
  <1>1. Init => Promise!Init
    BY InitRefines
  <1>2. IInv /\ [Next]_vars => [Promise!Next]_(Promise!shellVars)
    BY StepRefines
  <1> QED BY <1>1, <1>2, Invariance, PTL DEF Spec, PromiseSpec, Promise!Spec
=============================================================================
