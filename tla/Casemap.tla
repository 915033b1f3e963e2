------------------------------ MODULE Casemap -------------------------------
(***************************************************************************)
(* IrcCasemap: which spellings of a nickname or channel name are the same. *)
(* A text is a sequence of characters, each a string of length one.        *)
(***************************************************************************)
EXTENDS Naturals, Sequences

Uppers == <<"A", "B", "C", "D", "E", "F", "G", "H", "I", "J", "K", "L", "M",
            "N", "O", "P", "Q", "R", "S", "T", "U", "V", "W", "X", "Y", "Z",
            "[", "]", "\\", "~">>

Lowers == <<"a", "b", "c", "d", "e", "f", "g", "h", "i", "j", "k", "l", "m",
            "n", "o", "p", "q", "r", "s", "t", "u", "v", "w", "x", "y", "z",
            "{", "}", "|", "^">>

(* toRfc1459Lower(): every other character, `^' included, is its own lower *)
(* case.                                                                   *)
Lower(ch) ==
    IF \E i \in DOMAIN Uppers : Uppers[i] = ch
    THEN Lowers[CHOOSE i \in DOMAIN Uppers : Uppers[i] = ch]
    ELSE ch

normalize(text) == [i \in DOMAIN text |-> Lower(text[i])]

equal(left, right) == normalize(left) = normalize(right)

=============================================================================
