-------------------------- MODULE MCTestSequencer --------------------------
(* TestSequencer instantiated for TLC with model-value handlers.          *)
EXTENDS TestSequencer, TLC

CONSTANTS c1, c2, c3

\* Two handlers: one preempts the other.
MCClients2 == {c1, c2}

\* Three handlers: a handler can be preempted while it waits on another.
MCClients3 == {c1, c2, c3}

\* Handlers are interchangeable for the safety runs.
MCSymmetry == Permutations(MCClients3)
=============================================================================
