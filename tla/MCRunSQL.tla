------------------------------ MODULE MCRunSQL ------------------------------
(***************************************************************************)
(* Small instances of RunSQL for TLC: results of up to two columns and two *)
(* rows over values of every group of types, with the characters that need *)
(* escapes and texts around the bounds.                                    *)
(***************************************************************************)
EXTENDS RunSQL

Symmetry == Permutations(Addr)

Text(s)  == Value(s, <<"0">>)
Number(s)   == Value(s, s)
Letters(n) == [i \in 1 .. n |-> "x"]

\* Texts that one escape turns into another, and long ones.
MCTexts == {Text(<<>>), Text(<<Comma>>), Text(<<Quote>>), Text(<<Quote, Quote>>),
            Text(<<"n">>), Text(<<Break>>), Text(<<Slash>>), Text(<<Slash, "n">>),
            Text(<<Slash, Quote>>), Text(Letters(6)), Text(Letters(7)), Text(Letters(8)),
            Text(Letters(9)), Text(<<"?">>), Unread, Null}
MCNumbers == {Number(<<"7">>), Number(<<"-", "4", "2", "1", "8">>), Null}
MCReals   == {Value(<<"1", ".", "5">>, <<"2">>), Value(<<"2">>, <<"2">>)}
MCOther   == {Value(<<"d", "a", "y", "1">>, <<"0">>),
              Value(<<"d", "a", "y", "2">>, <<"0">>)}
MCBools   == {Value(<<"t", "r", "u", "e">>, <<"1">>),
              Value(<<"f", "a", "l", "s", "e">>, <<"0">>)}

Of(names, types, rs) == [names |-> names, types |-> types, rows |-> rs]

One(name, type, vs) == {Of(<<name>>, <<type>>, << <<v>> >>) : v \in vs}

MCTables ==
  {NoTable, Of(<<Letters(1)>>, <<"Date">>, <<>>)}
  \cup One(Letters(1), "Varchar", MCTexts) \cup One(<<>>, "Boolean", MCBools)
  \cup One(Letters(9), "Double", MCReals) \cup One(Letters(3), "BigInt", MCNumbers)
  \cup One(Letters(4), "Date", MCOther) \cup One(Letters(6), "Decimal", MCReals)
  \cup {Of(<<Letters(1), <<Quote>> >>, <<"Varchar", "Varchar">>, << <<u, v>>, <<v, u>> >>) :
          u \in MCTexts, v \in MCTexts}
  \cup {Of(<<Letters(1), <<>> >>, <<"Double", "Varchar">>, << <<u, v>>, <<Null, Null>> >>) :
          u \in MCReals, v \in MCTexts}
MCCounts  == 0 .. 2
MCIndices == 0 .. 1
=============================================================================
