------------------------------ MODULE MCRecords ------------------------------
EXTENDS Records
CONSTANTS a, b, u, v, g, h
Sat(user, general, state) == [user |-> user, general |-> general, state |-> state]
\* One stays and one is offline at the end; one ran away and plays elsewhere.
MCTables == { <<Sat(u, g, "online"), Sat(v, h, "offline")>>, <<Sat(v, g, "run")>> }
=============================================================================
