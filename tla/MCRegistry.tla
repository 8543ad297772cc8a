---------------------------- MODULE MCRegistry ----------------------------
(* Registry with four registration payloads as model values.              *)
EXTENDS Registry, TLC

CONSTANTS r1, r2, r3, r4

MCRegistrations == {r1, r2, r3, r4}
=============================================================================
