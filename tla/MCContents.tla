----------------------------- MODULE MCContents -----------------------------
EXTENDS Contents, TLC

MCId == {<<"x">>}
MCIdOdd == {<<"x">>, <<"c", "x">>}
MCPrices == {-1, 0, 1}
MCCutset == {"/", "c"}
Symmetry == Permutations(Cli)
=============================================================================
