------------------------ MODULE MCTestSequencerIInv ------------------------
(* TLC check that the inductive invariant of TestSequencerProofs holds.   *)
EXTENDS TestSequencerProofs, TLC

CONSTANTS c1, c2, c3

MCClients3 == {c1, c2, c3}

MCSymmetry == Permutations(MCClients3)
=============================================================================
