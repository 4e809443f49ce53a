---------------------------- MODULE MCIdentity ----------------------------
(* Identity on small instances.                                            *)
EXTENDS Identity, TLC

CONSTANTS root, guest, s1, s2, r1, r2

TwoUsers == {root, guest}
TwoSessions == {s1, s2}
TwoRequests == {r1, r2}

(* Suspending; demoting, which also reinstates.                            *)
SomeChanges ==
  [role: {"keep"}, status: {"disabled"}] \cup [role: {"user"}, status: {"active"}]

Interchangeable == Permutations(TwoSessions) \cup Permutations(TwoRequests)
===========================================================================
