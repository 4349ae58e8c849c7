--------------------------- MODULE MCProfileBLogin ---------------------------
(* ProfileBLogin with two threads, two owners and two credentials.            *)
EXTENDS ProfileBLogin, TLC
CONSTANTS t1, t2, ann, bob, k1, k2
Symm == Permutations({t1, t2}) \cup Permutations({ann, bob}) \cup Permutations({k1, k2})
=============================================================================
