----------------------------- MODULE MCApprovalCycle ---------------------------
(* Small instances of ApprovalCycle: three signers, two of them needed.      *)
EXTENDS ApprovalCycle

CONSTANTS t1, t2
=============================================================================
