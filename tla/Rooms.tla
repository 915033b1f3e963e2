------------------------------- MODULE Rooms -------------------------------
(***************************************************************************)
(* What the channel subsystem promises, without how it stores it: rooms    *)
(* that users enter and leave one at a time or leave all at once, and the  *)
(* chairs of each room.  A room that is empty has no chair; whoever enters *)
(* an empty room becomes its chair; after that chairs come from chairs.    *)
(***************************************************************************)
CONSTANTS Users, Names, Keeper, Home

VARIABLES room, chairs

Init ==
    /\ room = [n \in Names |-> IF n = Home THEN {Keeper} ELSE {}]
    /\ chairs = [n \in Names |-> IF n = Home THEN {Keeper} ELSE {}]

Enter(u, n) ==
    /\ u \notin room[n]
    /\ room' = [room EXCEPT ![n] = @ \cup {u}]
    /\ chairs' = [chairs EXCEPT ![n] = IF room[n] = {} THEN {u} ELSE @]

Leave(u, n) ==
    /\ u \in room[n]
    /\ room' = [room EXCEPT ![n] = @ \ {u}]
    /\ chairs' = [chairs EXCEPT ![n] = @ \ {u}]

LeaveAll(u) ==
    /\ room' = [n \in Names |-> room[n] \ {u}]
    /\ chairs' = [n \in Names |-> chairs[n] \ {u}]

Appoint(n, chosen) ==
    /\ chairs[n] # {}
    /\ chosen \subseteq room[n]
    /\ chairs' = [chairs EXCEPT ![n] = chosen]
    /\ UNCHANGED room

Next ==
    \/ \E u \in Users : LeaveAll(u) \/ \E n \in Names : Enter(u, n) \/ Leave(u, n)
    \/ \E n \in Names : \E chosen \in SUBSET Users : Appoint(n, chosen)

Spec == Init /\ [][Next]_<<room, chairs>>
=============================================================================
