------------------------- MODULE MCConsoleSessions -------------------------
(* Small instances of ConsoleSessions for TLC.                             *)
EXTENDS ConsoleSessions, TLC

CONSTANTS r1, r2, r3, b1, b2, l1, l2, l3, s1, s2

Alike == Permutations(Requests) \cup Permutations(Browsers)
           \cup Permutations(Logins) \cup Permutations(Sessions)
=============================================================================
