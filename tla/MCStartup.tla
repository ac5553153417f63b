----------------------------- MODULE MCStartup ------------------------------
(***************************************************************************)
(* Small instances of Startup for TLC: all texts of up to four bytes, and  *)
(* all combinations of flags and of up to two arguments, each of which may *)
(* be empty.                                                               *)
(***************************************************************************)
EXTENDS Startup

Flags == [bad : {FALSE}, help : {FALSE}, version : {FALSE},
          csv : BOOLEAN, json : BOOLEAN, batch : BOOLEAN,
          c : {"", "q1"}, args : UNION {[1 .. n -> {"", "q2"}] : n \in 0 .. 2}]

Early == {[f EXCEPT !.bad = b, !.help = h, !.version = ~h] :
            f \in Flags, b \in BOOLEAN, h \in BOOLEAN}

MCCmdLines == Flags \cup Early

MCTexts == UNION {[1 .. n -> Chars] : n \in 0 .. 4}
=============================================================================
