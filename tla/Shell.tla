------------------------------- MODULE Shell --------------------------------
(***************************************************************************)
(* What a user of soloduck is promised (printHelp and printUsage in        *)
(* main.go): a shell that reads one stream of lines, runs each statement   *)
(* once, when the line that ends it with ';' has been read, on the         *)
(* database opened last, and runs a file "like interactive input".         *)
(*                                                                         *)
(* There is one pending text and no nesting: the loops of Session, with    *)
(* their stack of scripts, implement this specification.                   *)
(***************************************************************************)
EXTENDS Naturals, Sequences

CONSTANTS
  Lines,      \* lines, records with the fields cmd and semi
  Args,       \* paths of databases
  StartPath   \* the database named on the command line

VARIABLES
  up,         \* the shell is connected and reads lines
  db,         \* the database statements run on
  pending,    \* lines of the statement being typed
  count,      \* number of texts run so far
  text,       \* the text that ran last
  ranOn       \* the database it ran on

shellVars == <<up, db, pending, count, text, ranOn>>
ranVars   == <<count, text, ranOn>>

Init ==
  /\ up = FALSE /\ db = "" /\ pending = <<>>
  /\ count = 0 /\ text = <<>> /\ ranOn = ""

Runs(sql) == count' = count + 1 /\ text' = sql /\ ranOn' = db

Connect ==
  /\ ~up /\ up'
  /\ db' = StartPath
  /\ UNCHANGED <<pending, ranVars>>

\* The end of the input, of a file, or of the process drops what is pending.
Drop == pending' \in {<<>>, pending} /\ UNCHANGED <<db, ranVars>>

\* A command at an empty prompt, or the SQL argument, may run one text.
Ask(l) == pending = <<>> /\ Runs(<<l>>) /\ UNCHANGED <<db, pending>>

\* A command at an empty prompt may switch to another database.
Switch(path) == pending = <<>> /\ db' = path /\ UNCHANGED <<pending, ranVars>>

\* SQL text: dot commands, meta words and blank lines begin no statement.
Text(l) == pending = <<>> => l.cmd = "sql"

Continue(l) ==
  /\ Text(l) /\ ~l.semi
  /\ pending' = Append(pending, l)
  /\ UNCHANGED <<db, ranVars>>

Complete(l) ==
  /\ Text(l) /\ l.semi
  /\ Runs(Append(pending, l))
  /\ pending' = <<>>
  /\ UNCHANGED db

\* Any step may be the last one: a line may end the input or the process.
Step ==
  /\ up /\ up' \in BOOLEAN
  /\ \/ Drop
     \/ \E l \in Lines : Ask(l) \/ Continue(l) \/ Complete(l)
     \/ \E path \in Args : Switch(path)

Next == Connect \/ Step

Spec == Init /\ [][Next]_shellVars
=============================================================================
