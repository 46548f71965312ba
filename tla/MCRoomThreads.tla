--------------------------- MODULE MCRoomThreads ---------------------------
EXTENDS RoomThreads, TLC
CONSTANTS p1, p2
SameClients == Permutations(Clients)
=============================================================================
