-------------------------- MODULE MCRoomLifecycle --------------------------
EXTENDS RoomLifecycle, TLC
CONSTANTS u1, u2
SameUsers == Permutations(Users)
=============================================================================
