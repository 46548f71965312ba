--------------------------- MODULE MCRoomRequest ---------------------------
(* Instances of RoomRequest for TLC: who sits where, who is asked.            *)
EXTENDS RoomRequest, TLC

CONSTANTS u1, u2, bot

TwoHumans   == <<u1, u2>>
TwoAndBot   == <<u1, u2, bot>>
HumanAndBot == <<u1, bot>>
OneForTwo   == <<u1, u1>>      \* one human controls both seats

Everybody == {[s \in Seats |-> s]}
OnlyFirst == {<<1>>}
=============================================================================
