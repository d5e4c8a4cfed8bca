------------------------------ MODULE MCScreen ------------------------------
(***************************************************************************)
(* Two terminals with two lines of two columns, of which the last stays    *)
(* empty.                                                                  *)
(***************************************************************************)
EXTENDS Screen

MCTerms   == {0, 1}
MCStrings == {<<"a">>, <<"\n">>, <<"BS">>, <<"\n", "a">>}
MCMoves   == {<<1, 0>>, <<0, 1>>, <<-1, -1>>}
MCFish    == {0}
MCBanner  == <<"a", "\n">>
=============================================================================
