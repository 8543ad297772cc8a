--------------------------- MODULE TestSequencer ---------------------------
(***************************************************************************)
(* The sequence controller of distbench's TestSequencer                   *)
(* (src/distbench_test_sequencer.cc): concurrent RunTestSequence handlers *)
(* that broadcast CancelTraffic, preempt the running sequence through the *)
(* (running_test_sequence_context_, running_test_notification_) slot,     *)
(* run their tests through the ConfigureNodes / IntroducePeers /          *)
(* RunTraffic fan-outs, and keep the per-node idle flags.                 *)
(*                                                                         *)
(* The registry is fixed here (Registry.tla models RegisterNode).  The    *)
(* placement of a test (Placer.tla models it) holds every registered node *)
(* except those named by a bundle with no services; ConfigureNodes,       *)
(* IntroducePeers and RunTraffic go to the placement's nodes, targets.    *)
(*                                                                         *)
(* mutex_ is an absl::Mutex.  Sections that take it exclusively never     *)
(* wait on anything while holding it except the ConfigureNodes and        *)
(* IntroducePeers fan-outs, whose RPCs no other thread can observe; each  *)
(* such section is one atomic step guarded by MutexFree.  The two         *)
(* fan-outs that hold it shared across their RPCs (CancelTraffic and      *)
(* RunTraffic) are modelled node by node, and readers records who holds   *)
(* it.                                                                     *)
(***************************************************************************)
EXTENDS Naturals, FiniteSets

CONSTANTS
    Clients,    \* callers of RunTestSequence; each makes one call
    NumNodes,   \* number of registered node managers
    MaxTests,   \* bound on the number of tests in one TestSequence
    None        \* a null context / notification pointer

ASSUME SequencerAssumption ==
    /\ IsFiniteSet(Clients)
    /\ NumNodes \in Nat \ {0}
    /\ MaxTests \in Nat
    /\ None \notin Clients

\* node_map_ iterates in alias order; node<k> is the k-th registered node.
Nodes == 1..NumNodes

VARIABLES
    pc,          \* where each handler is
    tests,       \* tests of the request still to run
    cursor,      \* next node of a dispatch loop over node_map_
    pending,     \* nodes whose RPC of the current fan-out is outstanding
    failed,      \* RunTraffic saw a non-OK status
    result,      \* status the handler returns
    idle,        \* Node::idle
    readers,     \* holders of the shared (reader) lock on mutex_
    runningContext,       \* running_test_sequence_context_
    runningNotification,  \* running_test_notification_ (its owner)
    notified,    \* handlers whose notification has been Notify()-ed
    prior,       \* prior_notification of each handler
    cancelled,   \* server contexts on which IsCancelled() holds
    targets      \* nodes of node_service_map, DoRunTest's local, for the
                 \* handler's current test

vars == <<pc, tests, cursor, pending, failed, result, idle, readers,
          runningContext, runningNotification, notified, prior, cancelled,
          targets>>

Locations == {"ready", "cancel_dispatch", "cancel_wait", "lock", "wait",
              "recheck", "check", "place", "configure", "introduce",
              "run_dispatch", "run_wait", "notify", "clear", "done"}

\* Inside DoRunTestSequence.
BodyLocs == {"check", "place", "configure", "introduce",
             "run_dispatch", "run_wait"}

\* Inside RunTraffic: node idle flags may be FALSE.
RunLocs == {"run_dispatch", "run_wait"}

\* From installing the context until clearing it.
OwnerLocs == BodyLocs \cup {"notify", "clear"}

\* The mutex can be acquired exclusively (absl::MutexLock, mutex_.Lock()).
MutexFree == readers = {}

-----------------------------------------------------------------------------

Init ==
    /\ pc = [c \in Clients |-> "ready"]
    /\ tests = [c \in Clients |-> 0]
    /\ cursor = [c \in Clients |-> 1]
    /\ pending = [c \in Clients |-> {}]
    /\ failed = [c \in Clients |-> FALSE]
    /\ result = [c \in Clients |-> "none"]
    /\ idle = [n \in Nodes |-> TRUE]
    /\ readers = {}
    /\ runningContext = None
    /\ runningNotification = None
    /\ notified = {}
    /\ prior = [c \in Clients |-> None]
    /\ cancelled = {}
    /\ targets = [c \in Clients |-> {}]

\* A RunTestSequence RPC arrives with k tests; its first act is CancelTraffic.
RunTestSequence(c) ==
    /\ pc[c] = "ready"
    /\ \E k \in 0..MaxTests : tests' = [tests EXCEPT ![c] = k]
    /\ pc' = [pc EXCEPT ![c] = "cancel_dispatch"]
    /\ cursor' = [cursor EXCEPT ![c] = 1]
    /\ UNCHANGED <<pending, failed, result, idle, readers, runningContext,
                   runningNotification, notified, prior, cancelled, targets>>

\* One iteration of CancelTraffic's loop over node_map_ under the reader
\* lock: a node that is not idle is sent an AsyncCancelTraffic.
CancelTrafficDispatch(c) ==
    LET n == cursor[c] IN
    /\ pc[c] = "cancel_dispatch"
    /\ readers' = readers \cup {c}
    /\ pending' = [pending EXCEPT ![c] = IF idle[n] THEN @ ELSE @ \cup {n}]
    /\ cursor' = [cursor EXCEPT ![c] = n + 1]
    /\ pc' = [pc EXCEPT ![c] = IF n = NumNodes THEN "cancel_wait" ELSE @]
    /\ UNCHANGED <<tests, failed, result, idle, runningContext,
                   runningNotification, notified, prior, cancelled, targets>>

\* cq.Next returns a CancelTraffic completion: whatever its status, the
\* node is marked idle.
CancelTrafficComplete(c, n) ==
    /\ pc[c] = "cancel_wait"
    /\ n \in pending[c]
    /\ pending' = [pending EXCEPT ![c] = @ \ {n}]
    /\ idle' = [idle EXCEPT ![n] = TRUE]
    /\ UNCHANGED <<pc, tests, cursor, failed, result, readers,
                   runningContext, runningNotification, notified, prior,
                   cancelled, targets>>

\* rpc_count reached zero: CancelTraffic returns and drops the reader lock.
CancelTrafficReturn(c) ==
    /\ pc[c] = "cancel_wait"
    /\ pending[c] = {}
    /\ readers' = readers \ {c}
    /\ cursor' = [cursor EXCEPT ![c] = 1]
    /\ pc' = [pc EXCEPT ![c] = "lock"]
    /\ UNCHANGED <<tests, pending, failed, result, idle,
                   runningContext, runningNotification, notified, prior,
                   cancelled, targets>>

\* The body of the do-while under mutex_: TryCancel the running context,
\* capture the current notification, unlock.  Taken on entry, and again
\* after every wait that finds a context still installed.
Preempt(c) ==
    /\ MutexFree
    /\ \/ pc[c] = "lock"
       \/ pc[c] = "recheck" /\ runningContext # None
    /\ IF runningContext # None
         THEN cancelled' = cancelled \cup {runningContext}
         ELSE UNCHANGED cancelled
    /\ prior' = [prior EXCEPT ![c] = runningNotification]
    /\ pc' = [pc EXCEPT ![c] = "wait"]
    /\ UNCHANGED <<tests, cursor, pending, failed, result, idle, readers,
                   runningContext, runningNotification, notified, targets>>

\* prior_notification->WaitForNotification(), skipped when it is null.
WaitForNotification(c) ==
    /\ pc[c] = "wait"
    /\ prior[c] = None \/ prior[c] \in notified
    /\ pc' = [pc EXCEPT ![c] = "recheck"]
    /\ UNCHANGED <<tests, cursor, pending, failed, result, idle, readers,
                   runningContext, runningNotification, notified, prior,
                   cancelled, targets>>

\* Mutant: the re-check is an `if`, not a `while`: after one wait the
\* handler installs its context whatever it finds.
InstallWithoutRecheck(c) ==
    /\ MutexFree
    /\ pc[c] = "recheck"
    /\ runningContext' = c
    /\ runningNotification' = c
    /\ pc' = [pc EXCEPT ![c] = "check"]
    /\ UNCHANGED <<tests, cursor, pending, failed, result, idle, readers,
                   notified, prior, cancelled, targets>>

\* The loop condition finds no context: install this handler's context and
\* a fresh notification, unlock, and enter DoRunTestSequence.
Install(c) ==
    /\ MutexFree
    /\ pc[c] = "recheck"
    /\ runningContext = None
    /\ runningContext' = c
    /\ runningNotification' = c
    /\ pc' = [pc EXCEPT ![c] = "check"]
    /\ UNCHANGED <<tests, cursor, pending, failed, result, idle, readers,
                   notified, prior, cancelled, targets>>


\* Mutant: the loop over the tests runs one iteration too many.
CheckCancelledOffByOne(c) ==
    /\ pc[c] = "check"
    /\ \/ /\ tests[c] < 0
          /\ result' = [result EXCEPT ![c] = "OK"]
          /\ pc' = [pc EXCEPT ![c] = "notify"]
       \/ /\ tests[c] >= 0
          /\ MutexFree
          /\ IF runningContext \in cancelled
               THEN /\ result' = [result EXCEPT ![c] = "ABORTED"]
                    /\ pc' = [pc EXCEPT ![c] = "notify"]
               ELSE /\ pc' = [pc EXCEPT ![c] = "place"]
                    /\ UNCHANGED result
    /\ UNCHANGED <<tests, cursor, pending, failed, idle, readers,
                   runningContext, runningNotification, notified, prior,
                   cancelled, targets>>

\* Head of DoRunTestSequence's loop over request->tests(): with no test
\* left it returns OK; otherwise, under mutex_, a cancelled running
\* context makes it return ABORTED.
CheckCancelled(c) ==
    /\ pc[c] = "check"
    /\ \/ /\ tests[c] = 0
          /\ result' = [result EXCEPT ![c] = "OK"]
          /\ pc' = [pc EXCEPT ![c] = "notify"]
       \/ /\ tests[c] > 0
          /\ MutexFree
          /\ IF runningContext \in cancelled
               THEN /\ result' = [result EXCEPT ![c] = "ABORTED"]
                    /\ pc' = [pc EXCEPT ![c] = "notify"]
               ELSE /\ pc' = [pc EXCEPT ![c] = "place"]
                    /\ UNCHANGED result
    /\ UNCHANGED <<tests, cursor, pending, failed, idle, readers,
                   runningContext, runningNotification, notified, prior,
                   cancelled, targets>>

\* DoRunTest up to its fan-outs: validation, the snapshot of node_map_
\* under mutex_, and placement.  Whether the test's services can be placed
\* depends on the request (Placer.tla models the algorithm); a failure
\* makes DoRunTestSequence return ABORTED.  A placement holds any set of
\* the nodes: a bundle with no services keeps its node out of it.
DoRunTest(c) ==
    /\ pc[c] = "place"
    /\ MutexFree
    /\ \/ \E placement \in SUBSET Nodes :
            /\ pc' = [pc EXCEPT ![c] = "configure"]
            /\ targets' = [targets EXCEPT ![c] = placement]
            /\ UNCHANGED result
       \/ /\ pc' = [pc EXCEPT ![c] = "notify"]
          /\ result' = [result EXCEPT ![c] = "ABORTED"]
          /\ UNCHANGED targets
    /\ UNCHANGED <<tests, cursor, pending, failed, idle, readers,
                   runningContext, runningNotification, notified, prior,
                   cancelled>>

\* A fan-out run entirely under the exclusive lock (ConfigureNodes,
\* IntroducePeers): every RPC is awaited and any non-OK status fails the
\* test.  No other thread can take mutex_ meanwhile, so the per-node
\* completions are not observable and the phase is one step.
ExclusivePhase(c, from, to) ==
    /\ pc[c] = from
    /\ MutexFree
    /\ \E ok \in BOOLEAN :
         IF ok
           THEN /\ pc' = [pc EXCEPT ![c] = to]
                /\ UNCHANGED <<result, targets>>
           ELSE /\ pc' = [pc EXCEPT ![c] = "notify"]
                /\ result' = [result EXCEPT ![c] = "ABORTED"]
                /\ targets' = [targets EXCEPT ![c] = {}]
    /\ UNCHANGED <<tests, cursor, pending, failed, idle, readers, runningContext,
                   runningNotification, notified, prior, cancelled>>

ConfigureNodes(c) == ExclusivePhase(c, "configure", "introduce")

IntroducePeers(c) == ExclusivePhase(c, "introduce", "run_dispatch")

\* One iteration of RunTraffic's dispatch loop under the reader lock: a
\* node of the placement is marked busy and sent an AsyncRunTraffic.
RunTrafficDispatch(c) ==
    LET n == cursor[c] IN
    /\ pc[c] = "run_dispatch"
    /\ readers' = readers \cup {c}
    /\ IF n \in targets[c]
         THEN /\ idle' = [idle EXCEPT ![n] = FALSE]
              /\ pending' = [pending EXCEPT ![c] = @ \cup {n}]
         ELSE UNCHANGED <<idle, pending>>
    /\ cursor' = [cursor EXCEPT ![c] = n + 1]
    /\ pc' = [pc EXCEPT ![c] = IF n = NumNodes THEN "run_wait" ELSE @]
    /\ UNCHANGED <<tests, failed, result, runningContext,
                   runningNotification, notified, prior, cancelled, targets>>

\* cq.Next returns a RunTraffic completion, OK or not: its logs are merged
\* and the node is marked idle again.
RunTrafficComplete(c, n) ==
    /\ pc[c] = "run_wait"
    /\ n \in pending[c]
    /\ \E ok \in BOOLEAN : failed' = [failed EXCEPT ![c] = @ \/ ~ok]
    /\ pending' = [pending EXCEPT ![c] = @ \ {n}]
    /\ idle' = [idle EXCEPT ![n] = TRUE]
    /\ UNCHANGED <<pc, tests, cursor, result, readers, runningContext,
                   runningNotification, notified, prior, cancelled, targets>>

\* Mutant: RunTraffic returns on the first failed RPC instead of draining
\* the completion queue.
RunTrafficReturnEarly(c) ==
    /\ pc[c] = "run_wait"
    /\ pending[c] = {} \/ failed[c]
    /\ readers' = readers \ {c}
    /\ IF failed[c]
         THEN /\ pc' = [pc EXCEPT ![c] = "notify"]
              /\ result' = [result EXCEPT ![c] = "ABORTED"]
              /\ UNCHANGED tests
         ELSE /\ pc' = [pc EXCEPT ![c] = "check"]
              /\ tests' = [tests EXCEPT ![c] = @ - 1]
              /\ UNCHANGED result
    /\ cursor' = [cursor EXCEPT ![c] = 1]
    /\ failed' = [failed EXCEPT ![c] = FALSE]
    /\ targets' = [targets EXCEPT ![c] = {}]
    /\ UNCHANGED <<pending, idle, runningContext,
                   runningNotification, notified, prior, cancelled>>

\* Every RunTraffic RPC has completed: RunTraffic returns, DoRunTest
\* returns its result and DoRunTestSequence goes on to the next test or
\* returns ABORTED.
RunTrafficReturn(c) ==
    /\ pc[c] = "run_wait"
    /\ pending[c] = {}
    /\ readers' = readers \ {c}
    /\ IF failed[c]
         THEN /\ pc' = [pc EXCEPT ![c] = "notify"]
              /\ result' = [result EXCEPT ![c] = "ABORTED"]
              /\ UNCHANGED tests
         ELSE /\ pc' = [pc EXCEPT ![c] = "check"]
              /\ tests' = [tests EXCEPT ![c] = @ - 1]
              /\ UNCHANGED result
    /\ cursor' = [cursor EXCEPT ![c] = 1]
    /\ failed' = [failed EXCEPT ![c] = FALSE]
    /\ targets' = [targets EXCEPT ![c] = {}]
    /\ UNCHANGED <<pending, idle, runningContext,
                   runningNotification, notified, prior, cancelled>>

\* notification->Notify() once DoRunTestSequence has returned.
Notify(c) ==
    /\ pc[c] = "notify"
    /\ notified' = notified \cup {c}
    /\ pc' = [pc EXCEPT ![c] = "clear"]
    /\ UNCHANGED <<tests, cursor, pending, failed, result, idle, readers,
                   runningContext, runningNotification, prior, cancelled,
                   targets>>

\* Mutant: the handler never resets running_test_sequence_context_.
ClearContextNoReset(c) ==
    /\ pc[c] = "clear"
    /\ MutexFree
    /\ pc' = [pc EXCEPT ![c] = "done"]
    /\ UNCHANGED <<tests, cursor, pending, failed, result, idle, readers,
                   runningContext, runningNotification, notified, prior,
                   cancelled, targets>>

\* running_test_sequence_context_ = nullptr under mutex_; the RPC returns.
ClearContext(c) ==
    /\ pc[c] = "clear"
    /\ MutexFree
    /\ runningContext' = None
    /\ pc' = [pc EXCEPT ![c] = "done"]
    /\ UNCHANGED <<tests, cursor, pending, failed, result, idle, readers,
                   runningNotification, notified, prior, cancelled, targets>>

\* The caller of RunTestSequence cancels its RPC (or its deadline passes):
\* the server context reports IsCancelled().
ClientCancel(c) ==
    /\ pc[c] \notin {"ready", "done"}
    /\ c \notin cancelled
    /\ cancelled' = cancelled \cup {c}
    /\ UNCHANGED <<pc, tests, cursor, pending, failed, result, idle, readers,
                   runningContext, runningNotification, notified, prior,
                   targets>>

\* The steps a handler takes once its RPC has arrived.
Handler(c) ==
    \/ CancelTrafficDispatch(c)
    \/ \E n \in Nodes : CancelTrafficComplete(c, n)
    \/ CancelTrafficReturn(c)
    \/ Preempt(c)
    \/ WaitForNotification(c)
    \/ Install(c)
    \/ CheckCancelled(c)
    \/ DoRunTest(c)
    \/ ConfigureNodes(c)
    \/ IntroducePeers(c)
    \/ RunTrafficDispatch(c)
    \/ \E n \in Nodes : RunTrafficComplete(c, n)
    \/ RunTrafficReturn(c)
    \/ Notify(c)
    \/ ClearContext(c)

\* Every call has returned: the system stops.
Terminated ==
    /\ \A c \in Clients : pc[c] = "done"
    /\ UNCHANGED vars

Next ==
    \/ \E c \in Clients : RunTestSequence(c) \/ Handler(c) \/ ClientCancel(c)
    \/ Terminated

\* gRPC keeps running every handler thread, every outstanding RPC is
\* eventually answered, and a released mutex_ is eventually acquired.
Fairness == \A c \in Clients : WF_vars(Handler(c))

Spec == Init /\ [][Next]_vars

FairSpec == Spec /\ Fairness

-----------------------------------------------------------------------------
(***************************************************************************)
(* Properties.                                                            *)
(***************************************************************************)

\* Every variable holds a value of its type.
TypeOK ==
    /\ pc \in [Clients -> Locations]
    /\ tests \in [Clients -> 0..MaxTests]
    /\ cursor \in [Clients -> 1..NumNodes + 1]
    /\ pending \in [Clients -> SUBSET Nodes]
    /\ failed \in [Clients -> BOOLEAN]
    /\ result \in [Clients -> {"none", "OK", "ABORTED"}]
    /\ idle \in [Nodes -> BOOLEAN]
    /\ readers \in SUBSET Clients
    /\ runningContext \in Clients \cup {None}
    /\ runningNotification \in Clients \cup {None}
    /\ notified \in SUBSET Clients
    /\ prior \in [Clients -> Clients \cup {None}]
    /\ cancelled \in SUBSET Clients
    /\ targets \in [Clients -> SUBSET Nodes]

\* The single-sequence interlock of RunTestSequence: the lock, wait,
\* relock and re-check loop lets at most one handler run
\* DoRunTestSequence at any time, however many handlers preempt each other.
MutualExclusion ==
    \A c, d \in Clients : pc[c] \in BodyLocs /\ pc[d] \in BodyLocs => c = d

\* RunTraffic marks its nodes busy and awaits every RPC, setting each node
\* idle again on completion, so whenever no handler is inside RunTraffic
\* every node is idle (spec: after any RunTraffic, successful or failed,
\* every participating node has idle = true).
IdleAfterTraffic ==
    (\A c \in Clients : pc[c] \notin RunLocs) => \A n \in Nodes : idle[n]

\* Node::idle means that no RunTraffic RPC is outstanding against the node
\* (spec, data model).  CancelTraffic, run by a newer handler under the
\* shared lock, marks a node idle when its cancel RPC completes, which may
\* be before the older handler's RunTraffic RPC to that node completes.
IdleMeansNoTraffic ==
    \A n \in Nodes :
        idle[n] => \A c \in Clients : ~(pc[c] = "run_wait" /\ n \in pending[c])

\* Every RunTestSequence call eventually returns, whether it completes,
\* fails or is preempted: no handler waits forever on a notification, the
\* mutex or a fan-out.
Termination ==
    \A c \in Clients : pc[c] = "cancel_dispatch" ~> pc[c] = "done"


\* The stage of a call at location l as SequenceSlot sees it: waiting from
\* its arrival until it installs its context, running until it clears it.
Stage(l) ==
    IF l = "ready" THEN "idle"
    ELSE IF l = "done" THEN "done"
    ELSE IF l \in OwnerLocs THEN "running"
    ELSE "waiting"

SlotPhase == [c \in Clients |-> Stage(pc[c])]

Slot == INSTANCE SequenceSlot WITH phase <- SlotPhase, owner <- runningContext

\* RunTestSequence implements the single-slot controller: a call installs
\* its context only into an empty slot, holds it for the whole of
\* DoRunTestSequence and Notify, and empties it exactly when it returns;
\* every other step (the fan-outs, the preemption waits, cancellation)
\* leaves the slot and the calls' stages alone.
ImplementsSlot == Slot!Spec

=============================================================================
