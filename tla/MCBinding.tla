----------------------------- MODULE MCBinding ------------------------------
(***************************************************************************)
(* Small instances of Binding for TLC.  DuckDB's addresses and the         *)
(* client's variables of one type are interchangeable.                     *)
(***************************************************************************)
EXTENDS Binding, TLC

Symmetry == Permutations(Addr) \cup Permutations(Conns)
                               \cup Permutations(Results)

MCIndices == -1 .. 3
MCCounts  == 0 .. 2
MCFlat    == {0}
=============================================================================
