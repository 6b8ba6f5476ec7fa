---------------------------- MODULE MCStatements ----------------------------
(***************************************************************************)
(* A model of three tables, two of which hang on another.                  *)
(***************************************************************************)
EXTENDS Statements, TLC

CONSTANTS t1, t2, person

MCNames == {<<"author">>, <<"author", "name">>, <<"author", "country", "name">>,
            <<"editor">>}
MCRefTable == [n \in MCNames |->
                  IF n \in {<<"author">>, <<"editor">>} THEN person ELSE Plain]
Permuted == Permutations(Threads)

(* >5|a:b   and   ||c *)
MCSegmentLists ==
    {<<[op |-> ">", parts |-> <<"5">>], [op |-> "", parts |-> <<"a", "b">>]>>,
     <<[op |-> "", parts |-> <<>>], [op |-> "", parts |-> <<"c">>]>>}
MCIds == <<"id1", "id2">>
=============================================================================
