--------------------------- MODULE MC_NetworkTabs ---------------------------
EXTENDS NetworkTabs

CONSTANTS s1, s2, home, sub

MC_Session == {s1, s2}
MC_One == {s1}
MC_Open == {"open"}
MC_Login == {"login"}
MC_Path == {home, sub}
MC_Symmetry == Permutations(MC_Session)
MC_Traits == {"open", "login", "denies"}
=============================================================================
