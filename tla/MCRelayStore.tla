------------------------------ MODULE MCRelayStore -----------------------------
(* Small instances of RelayStore: processes racing on one database.          *)
EXTENDS RelayStore, TLC

CONSTANTS w1, w2, w3, t1, v1, v2, q1, q2, r1, r2, s1, a1, a2, h1, h2

\* Processes are interchangeable, and so are the values they bind.
Symmetry == Permutations(Workers) \cup Permutations(Records) \cup Permutations(Requests)
              \cup Permutations(Refs) \cup Permutations(Signatures) \cup Permutations(Hashes)
=============================================================================
