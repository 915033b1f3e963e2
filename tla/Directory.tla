----------------------------- MODULE Directory ------------------------------
(***************************************************************************)
(* What the nickname index promises: names have at most one owner, a user  *)
(* owns at most one name, and a name passes from one user to another only  *)
(* through being free.  The bot's name is reserved for good.               *)
(***************************************************************************)
CONSTANTS Clients, Bot, Nobody, Names, BotName

VARIABLE owner

Owned(u) == {n \in Names : owner[n] = u}

Init == owner = [n \in Names |-> IF n = BotName THEN Bot ELSE Nobody]

(* The first name of a client, or another in exchange for the one it has.  *)
Take(c, n) ==
    /\ owner[n] = Nobody
    /\ owner' = [m \in Names |->
                    IF m = n THEN c
                    ELSE IF m \in Owned(c) THEN Nobody ELSE owner[m]]

Release(c) ==
    /\ Owned(c) # {}
    /\ owner' = [m \in Names |-> IF m \in Owned(c) THEN Nobody ELSE owner[m]]

Next == \E c \in Clients : Release(c) \/ \E n \in Names : Take(c, n)

Spec == Init /\ [][Next]_owner

(* Nobody owns two names.                                                  *)
OneName ==
    \A m, n \in Names : owner[m] = owner[n] /\ owner[m] # Nobody => m = n
=============================================================================
