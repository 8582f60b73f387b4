------------------------------ MODULE MCSourceScan -----------------------------
(* Small instances of SourceScan: one honest provider and one that lies.     *)
EXTENDS SourceScan

CONSTANTS p1, p2, e1, e2
=============================================================================
