----------------------------- MODULE MCSession -----------------------------
(* Small instances of Session.                                             *)
EXTENDS Session, TLC

CONSTANTS cl1, cl2, h1, h2, s1, s2, s3, o1, o2, o3

AllOps == {"login", "badLogin", "logout", "guarded"}

HandlerPair == {h1, h2}
SidPair     == {s1, s2}
ObjectPair  == {o1, o2}

SidTriple    == {s1, s2, s3}
ObjectTriple == {o1, o2, o3}

SessionSymmetry ==
    Permutations(HandlerPair) \cup Permutations(SidTriple) \cup Permutations(ObjectTriple)
=============================================================================
