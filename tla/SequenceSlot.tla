---------------------------- MODULE SequenceSlot ----------------------------
(***************************************************************************)
(* What the Sequence Controller promises, without locks, fan-outs or      *)
(* notifications: each RunTestSequence call requests the single slot,     *)
(* enters it only when it is empty, and leaves it by returning.  The slot *)
(* is running_test_sequence_context_ of src/distbench_test_sequencer.cc.   *)
(* TestSequencer implements this specification (ImplementsSlot).          *)
(***************************************************************************)
CONSTANTS
    Clients,    \* callers of RunTestSequence
    None        \* the empty slot

VARIABLES
    phase,      \* "idle", "waiting", "running" or "done" for each call
    owner       \* the call whose sequence holds the slot, or None

slotVars == <<phase, owner>>

Init ==
    /\ phase = [c \in Clients |-> "idle"]
    /\ owner = None

\* The call arrives and starts to claim the slot.
Request(c) ==
    /\ phase[c] = "idle"
    /\ phase' = [phase EXCEPT ![c] = "waiting"]
    /\ UNCHANGED owner

\* The slot is empty: the call takes it and runs its sequence.
Enter(c) ==
    /\ phase[c] = "waiting"
    /\ owner = None
    /\ phase' = [phase EXCEPT ![c] = "running"]
    /\ owner' = c

\* The call's sequence has ended: the slot is emptied and the call returns.
Leave(c) ==
    /\ phase[c] = "running"
    /\ owner = c
    /\ phase' = [phase EXCEPT ![c] = "done"]
    /\ owner' = None

Next == \E c \in Clients : Request(c) \/ Enter(c) \/ Leave(c)

Spec == Init /\ [][Next]_slotVars

\* At most one call runs its sequence, and it is the slot's owner.
OneRunning == \A c \in Clients : phase[c] = "running" => owner = c

=============================================================================
