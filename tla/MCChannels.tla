----------------------------- MODULE MCChannels -----------------------------
(* Instances of Channels for TLC: which MODE change lists the clients of   *)
(* each run send.                                                          *)
EXTENDS Channels, TLC

CONSTANTS c1, c2, c3, Room, k1, t1

Change(flag, add, arg) == [mode |-> flag, add |-> add, arg |-> arg]

On(flag, arg) == Change(flag, TRUE, arg)
Off(flag, arg) == Change(flag, FALSE, arg)

(* Granting, revoking, handing over, and a list that revokes and grants.   *)
OperatorRequests ==
    {<<Change("o", b, p)>> : b \in BOOLEAN, p \in Users} \cup
    {<<On("o", p), Off("o", q)>> : p, q \in Users}

(* Every flag set and removed, alone and in lists whose changes interact.  *)
AccessRequests ==
    {<<On("i", NoKey)>>, <<Off("i", NoKey)>>,
     <<On("k", k1)>>, <<Off("k", NoKey)>>,
     <<On("l", 1)>>, <<On("l", 2)>>, <<Off("l", NoLimit)>>,
     <<On("k", k1), On("i", NoKey), Off("k", NoKey)>>,
     <<On("l", 2), On("t", NoKey)>>, <<Off("t", NoKey)>>,
     <<On("o", c1)>>, <<Off("o", c1)>>, <<On("o", c2)>>}

Permute == Permutations(Clients)
=============================================================================
