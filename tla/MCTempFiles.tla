---------------------------- MODULE MCTempFiles ----------------------------
(* A small instance of TempFiles.                                          *)
EXTENDS TempFiles, TLC

CONSTANTS c1, c2, long, short, text, r1, r2, r3

Upload(c, f) == [op |-> "upload", certId |-> c, file |-> f]
Download(c)  == [op |-> "download", certId |-> c]

ManyJobs == {Upload(c1, long), Upload(c1, short), Upload(c1, text), Upload(c2, short), Download(c1)}

Lengths == [f \in {long, short, text} |-> IF f = long THEN 2 ELSE 1]

ThreeRequests == {r1, r2, r3}

(* Only invariants are checked.                                            *)
Symmetry == Permutations(ThreeRequests)
=============================================================================
