--------------------------- MODULE MCRegistration ---------------------------
(* An instance of Registration for TLC, with the casemapping of Casemap:   *)
(* one name in two spellings, one that may be too long for a line, and the *)
(* bot's in two spellings.                                                 *)
EXTENDS Registration, Casemap, TLC

CONSTANTS c1, c2, c3

Spellings == {<<"a", "^">>, <<"A", "~">>, <<"l", "}">>,
              <<"m", "v">>, <<"M", "v">>}

Folding == [n \in Spellings |-> normalize(n)]

TooLong == {<<"l", "}">>}

Marvin == <<"m", "v">>

Permute == Permutations(Clients)
=============================================================================
