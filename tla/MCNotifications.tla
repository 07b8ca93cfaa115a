---------------------------- MODULE MCNotifications ----------------------------
EXTENDS Notifications, TLC
CONSTANTS c1, c2
Calls == {c1, c2}
Symmetry == Permutations(Calls)
=============================================================================
