------------------------------ MODULE MCSubmission -----------------------------
(* Small instances of Submission: one transfer, four possible transactions. *)
EXTENDS Submission

CONSTANTS w1, w2, r1, r2, r3, r4
=============================================================================
