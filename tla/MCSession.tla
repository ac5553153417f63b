----------------------------- MODULE MCSession ------------------------------
(***************************************************************************)
(* Small instances of Session for TLC: lines of every kind the interpreter *)
(* tells apart, and script files that end in the middle of a statement,    *)
(* set modes, read one another and read themselves.                        *)
(***************************************************************************)
EXTENDS Session

Ln(cmd, arg, semi) == [cmd |-> cmd, arg |-> arg, semi |-> semi]
Part == Ln("sql", "", FALSE)     \* SQL text that does not end with ';'
Stmt == Ln("sql", "", TRUE)      \* SQL text that ends with ';'

MCArgs == {"", "main.db", "other.db", "load.sql", "outer.sql", "self.sql",
           "csv", "json", "md", "CSV", "box", "bogus"}
MCStartModes == {"duckbox", "csv"}

(* Interactive runs.  ".unknown" with a ';' is a line such as ".tables;".  *)
ReplLines ==
  {Blank, Part, Stmt, Ln("quit", "", FALSE), Ln(".unknown", "", TRUE),
   Ln(".tables", "", FALSE), Ln(".open", "other.db", FALSE),
   Ln(".mode", "json", FALSE), Ln(".mode", "md", FALSE),
   Ln(".mode", "bogus", FALSE), Ln(".read", "load.sql", FALSE),
   Ln(".read", "outer.sql", FALSE)}

\* load.sql ends inside a statement; outer.sql reads it and goes on.
ReplFiles ==
  [p \in {"load.sql", "outer.sql"} |->
     IF p = "load.sql" THEN <<Ln(".mode", "json", FALSE), Part, Stmt, Part>>
                       ELSE <<Ln(".read", "load.sql", FALSE), Stmt>>]
NoScripts == {}

(* Scripts of -batch and typed lines, with modes chosen by their aliases   *)
(* only, and a file that reads itself.                                     *)
LoopLines ==
  {Blank, Part, Stmt, Ln(".quit", "", FALSE), Ln(".mode", "md", FALSE),
   Ln(".mode", "CSV", FALSE), Ln(".mode", "bogus", FALSE), Ln(".open", "", FALSE),
   Ln(".schema", "other.db", TRUE), Ln(".read", "self.sql", FALSE),
   Ln(".mode", "box", FALSE)}
LoopScripts == UNION {[1 .. n -> LoopLines] : n \in 1 .. 3}
LoopFiles ==
  [p \in {"self.sql"} |->
     <<Stmt, Ln(".mode", "box", FALSE), Ln(".read", "self.sql", FALSE), Part>>]
=============================================================================
