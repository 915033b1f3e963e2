-------------------------------- MODULE Pipe --------------------------------
(***************************************************************************)
(* What a stream connection promises its user: bytes come out in the order *)
(* in which they were put in, none twice and none left out.                *)
(***************************************************************************)
EXTENDS Naturals, Sequences

VARIABLES
    put,        \* the bytes put in so far
    got         \* the bytes that have come out

Init == put = <<>> /\ got = <<>>

(* `longer' is `shorter' with something, or nothing, appended.             *)
Extends(longer, shorter) ==
    Len(longer) >= Len(shorter) /\ SubSeq(longer, 1, Len(shorter)) = shorter

Next ==
    /\ Extends(put', put)
    /\ Extends(got', got)
    /\ Extends(put', got')

Spec == Init /\ [][Next]_<<put, got>>
=============================================================================
