# TLA+ models of distbench's TestSequencer

This directory holds TLA+ models of the test sequencer in
`src/distbench_test_sequencer.cc` (lines 1-438). It also holds the TLC
configurations that check the models and the TLAPS proofs about them.
`PROJECT.json` maps every modelled definition to the lines it translates.

## The system

The sequencer is a gRPC service with two operations:

- **RegisterNode** (lines 26-64) is called by each node manager. Under
  the exclusive `mutex_` it allocates an id. A repeated payload reuses
  its id from `node_id_map_`; a new payload gets `node_map_.size()`. It
  then builds a stub and inserts or replaces `node_map_["node<id>"]`.
- **RunTestSequence** (lines 66-95) runs a client's tests, one sequence
  at a time. It proceeds in four stages:
  1. It calls **CancelTraffic**, which sends a cancel RPC to every busy
     node under the shared lock and marks each node idle on completion.
  2. It preempts the running sequence. A do-while loop TryCancels the
     installed context, waits on its notification and re-checks, until
     the slot is empty.
  3. It installs its own context and notification, then runs
     **DoRunTestSequence**. For each test, that function checks
     `IsCancelled` under the lock and then calls **DoRunTest**.
     DoRunTest snapshots the nodes, places the services, and runs three
     fan-outs:
     - **ConfigureNodes** under the exclusive lock;
     - **IntroducePeers** under the exclusive lock;
     - **RunTraffic** under the shared lock. It marks nodes busy,
       collects completions in any order and marks each node idle again.
  4. It calls `Notify` and clears the slot under the lock.

The parts interact through `mutex_` and through the Node `idle` flags. A
preempting handler's CancelTraffic runs concurrently with the preempted
handler's RunTraffic, because both hold the lock shared.

The following are not modelled:

- **Lifecycle** (lines 408-436: Initialize, Shutdown, Wait, the
  destructor). It only starts and stops the gRPC server.
- **Deployment scripts** (the cloudlab script after line 438, and
  `src/unnamed/part_000`).

## Modules

| Module | Models |
|---|---|
| `TestSequencer.tla` | Sequence Controller and Fan-out Coordinator: RunTestSequence, CancelTraffic, DoRunTestSequence, DoRunTest, the four fan-outs |
| `SequenceSlot.tla` | The abstract controller: one slot, entered only when empty |
| `Placer.tla` | DoRunTest's placement algorithm (lines 163-233) as a pure function, with a declarative reference |
| `Registry.tla` | RegisterNode: `node_id_map_`, `node_map_`, id allocation, stub failure |
| `NodeList.tla` | The abstract registry: a list of Nodes that only grows by one or has an element replaced |
| `TestSequencerProofs.tla` | Inductive invariant, type, mutual exclusion and refinement proofs for `TestSequencer` |
| `RegistryProofs.tla` | Proofs of `RInv`, `TypeOK`, `DenseAliases`, `IdsStable` and the refinement of `NodeList` |
| `MCTestSequencer.tla`, `MCTestSequencerIInv.tla`, `MCRegistry.tla`, `MCPlacer.tla` | Model values, inputs and symmetry for TLC |

### TestSequencer

Constants:

- `Clients`: the handlers, each making one RunTestSequence call.
- `NumNodes`: the registered nodes.
- `MaxTests`: a bound on the tests of one request.
- `None`: a null pointer.

Each handler has a program counter `pc`. It moves through the following
locations, each an action named after the code it models:

| Location | Action(s) |
|---|---|
| `ready` | RunTestSequence |
| `cancel_dispatch` | CancelTrafficDispatch |
| `cancel_wait` | CancelTrafficComplete, CancelTrafficReturn |
| `lock` / `recheck` | Preempt |
| `wait` | WaitForNotification |
| `recheck` | Install |
| `check` | CheckCancelled |
| `place` | DoRunTest |
| `configure` | ConfigureNodes |
| `introduce` | IntroducePeers |
| `run_dispatch` | RunTrafficDispatch |
| `run_wait` | RunTrafficComplete, RunTrafficReturn |
| `notify` | Notify |
| `clear` | ClearContext |
| `done` | (the call has returned) |

The other variables correspond to the code as follows:

- `runningContext` and `runningNotification` are the slot. A
  notification is identified with the handler that created it.
- `notified` holds the notifications that have fired.
- `cancelled` holds the contexts that report `IsCancelled()`. Both
  TryCancel and the client cancelling add to it (ClientCancel).
- `readers` holds the holders of the shared lock. An exclusive section
  is one atomic step guarded by `MutexFree`.
- `pending` holds a fan-out's outstanding RPCs.
- `idle` is `Node::idle`.
- `targets` is the set of nodes of DoRunTest's `node_service_map`. The
  RunTraffic fan-out addresses only these. It is emptied when DoRunTest
  returns.

These are abstractions, each justified by the code:

- **Placement chooses any set of nodes.** DoRunTest gives every node
  left idle an empty service set (lines 231-233), but a bundle with no
  services removes its node without adding it to `node_service_map`. So
  the nodes a test addresses can be any subset of the registered ones.
  `Placer` models which subset.
- **ConfigureNodes and IntroducePeers are one step each.** They hold
  `mutex_` exclusively across their RPCs, so no other thread can observe
  their completions. Their outcome is OK or failed.
- **Placement is a nondeterministic outcome here.** It is either a set of
  target nodes or NOT_FOUND. The algorithm itself is in `Placer`.
- **Payloads and merged results are left out.** No property reads them.

### Registry

- A registration payload is a model value.
- An alias `node<k>` is its id `k`.
- `alias` records what each caller was last told.
- Requests rejected with INVALID_ARGUMENT (lines 29-32) touch no state
  and are not modelled.

`NodeList` is what `node_map_` promises the rest of the sequencer. The
Nodes form a list addressed `node0`, `node1`, and so on. A registration
either appends a Node (`Add`) or replaces one (`Replace`). `Registry`
implements it under the mapping `NodeSeq`: `node_map_` read in alias
order, with `nodes[i]` standing for `node<i-1>`.

- A registration that creates a stub for a fresh id is `Add`.
- A registration for an id already in `node_map_` is `Replace`. This
  includes the collision that run registry_collision finds: another
  payload's Node is replaced, which the abstract list allows.
- A failed stub creation is a stutter.

### SequenceSlot and the refinement

`SequenceSlot` states what callers of RunTestSequence rely on, without
locks, fan-outs or notifications. Each call's `phase` moves from idle
to waiting (`Request`), then to running (`Enter`, only when `owner` is
None), then to done (`Leave`, which empties the slot). `TestSequencer`
implements it under this mapping:

- `owner` is `runningContext`.
- `phase[c]` is `Stage(pc[c])`:
  - `ready` maps to idle;
  - `done` maps to done;
  - the locations between Install and ClearContext (`OwnerLocs`) map to
    running;
  - every other location maps to waiting.

Under this mapping, RunTestSequence is `Request`, Install is `Enter` and
ClearContext is `Leave`. Every other step is a stutter. TLC checks
`ImplementsSlot == Slot!Spec` on the safety run, and `Refinement` proves
it.

### Placer

`Placer` models DoRunTest's placement as a pure function `Place(t)` of
a test description `t` and the `NumNodes` registered aliases. A string
is a sequence of character codes. `StrLess` is `std::string`'s
`operator<`, so `std::set` iteration order is kept: `node10` sorts
before `node2`, and `A/10` before `A/2`.

- `Decimal`, `Alias` and `Instance` are the `StrCat` calls.
- `PlaceBundles` walks `node_service_bundles` in key order and stops at
  the first NOT_FOUND.
- `AutoPlace` gives each remaining instance the smallest idle alias. An
  instance it cannot place joins the failure list.

The run enumerates test descriptions as the state, with `Next`
stuttering. Each property compares `Place(test)` with a reference
stated without the algorithm: `Feasible`, `ValidPlacement` and the
ordering by `RefLess`.

## Runs

| Run | Config | Result | What it shows |
|---|---|---|---|
| sequencer_safety | `MCTestSequencer3.cfg` | pass, about 92k states | 3 handlers, 2 nodes, 1 test, handler symmetry. `MutualExclusion`: at most one handler is in DoRunTestSequence, for every interleaving of preemption. `IdleAfterTraffic`: outside RunTraffic every node is idle, including after failed RPCs. `ImplementsSlot`: the controller refines `SequenceSlot`. |
| sequencer_liveness | `MCTestSequencer.cfg` | pass, about 165k states | 3 handlers, 1 node, 1 test, `FairSpec`, no symmetry (unsound for liveness). `Termination`: every call returns, including a waiter that re-locks, finds a third handler's sequence installed, and must cancel and wait again. |
| sequencer_inductive | `MCTestSequencerIInv.cfg` | pass, about 92k states | `BusyNodesPending`, the inductive strengthening of `IdleAfterTraffic`: with 3 handlers, a busy node always has an outstanding RunTraffic RPC of a handler inside RunTraffic. |
| idle_race | `MCIdleRace.cfg` | violation | `IdleMeansNoTraffic` fails: a newer handler's CancelTraffic completion (line 134) marks a node idle while the older handler's RunTraffic RPC to it is outstanding. |
| registry | `MCRegistry.cfg` | pass, 920 states | 4 payloads. `DenseAliases`: `node_map_` holds exactly node0..node(k-1). `IdsStable`: no step changes or forgets a recorded id, or removes an alias. So the `QCHECK` at line 289, run on an alias from an earlier snapshot, cannot fail. |
| registry_refinement | `MCRegistryList.cfg` | pass, 920 states | `ImplementsNodeList`: RegisterNode refines `NodeList`. |
| registry_inductive | `MCRegistryRInv.cfg` | pass, 920 states | The proof's inductive invariant `RInv` holds on the reachable states. |
| placer | `MCPlacer.cfg` | pass, 9125 states | 11 nodes, services of types A and B with 0, 1, 3 or 12 instances, bundles on `node1`, `node10` and `node11`. `PlacementSound`: placement succeeds exactly on placeable tests and returns a valid placement. `AutoPlacementSorted`: the smallest free aliases in string order are used, and a smaller instance gets a smaller alias. `FailuresExact`: NOT_FOUND lists exactly the largest unplaceable instances, in order. |
| registry_collision | `MCRegistryCollision.cfg` | violation | `AliasesDistinct` fails in 3 steps: a failed stub creation reserves an id (line 42) that the next new registration is also given. |

**Why these bounds are enough:**

- Three handlers are the smallest number in which a handler is
  preempted while it waits on another. This is the case the re-check
  loop exists for.
- Two nodes let completions arrive out of order.
- One test per request already crosses every location, and a
  cancelled handler leaves the loop over tests at its check.
- The liveness run keeps 3 handlers, so that the preempted-waiter case
  is among the behaviours `Termination` is checked on. It uses one node:
  with two nodes the same run takes over four minutes. Completion order
  across nodes is covered by the safety runs, and the liveness argument
  does not depend on it, because each completion is a step of the
  handler that awaits it.
- The placer needs 11 nodes so that `node10` exists and sorts between
  `node1` and `node2`. Counts of 3 and 12 give two-digit instance names
  and a service with more instances than nodes. Bundles repeat a name,
  name an unknown instance or are empty, and some name `node10` or
  `node11`.

Each property of a passing run has a mutant in `PROJECT.json`, and TLC
finds each mutant's property violated:

| Mutant | Breaks |
|---|---|
| the re-check as an `if` | MutualExclusion |
| the loop over tests run once too often | TypeOK |
| RunTraffic returning on the first failure | IdleAfterTraffic, BusyNodesPending |
| the slot never cleared | Termination, ImplementsSlot |
| a bundle's node not looked up in `idle_nodes` | PlacementSound |
| strings ordered shortest first | AutoPlacementSorted |
| auto-placement stopping at the first failure | FailuresExact |
| an id from `node_id_map_`'s size, or from `size() - 1` | DenseAliases, RInv, TypeOK |
| the lookup in `node_id_map_` dropped | IdsStable |
| a failed stub creation erasing the alias's Node | ImplementsNodeList |

**Fairness.** `FairSpec` assumes weak fairness of each handler's steps.
This holds because gRPC runs every handler on its own thread, a released
`absl::Mutex` is eventually acquired, and every RPC is eventually
answered. The last assumption is real: the fan-outs set no deadline
(line 127). A worker that never answers would block the sequencer
forever, and that case is outside what `Termination` shows.

## Proofs (TLAPS)

`TestSequencerProofs.tla` proves six theorems for every finite set of
handlers, every `NumNodes >= 1` and every `MaxTests >= 0`:

- `IInvHolds`: `Spec => []IInv`.
- `TypeCorrect`: `Spec => []TypeOK`.
- `MutualExclusionHolds`: `Spec => []MutualExclusion`.
- `BusyNodesPendingHolds`: `Spec => []BusyNodesPending`.
- `IdleAfterTrafficHolds`: `Spec => []IdleAfterTraffic`.
- `Refinement`: `Spec => ImplementsSlot`.

All rest on `SequencerAssumption`. Neither `TypeOK` nor
`MutualExclusion` is inductive by itself:

- `TypeOK` needs to know that the dispatch cursor is a node while a
  dispatch loop runs (`DispatchCursor`), so that `cursor + 1` stays in
  range.
- `TypeOK` also needs the cursor to be back at 1 between loops
  (`CursorReset`).
- `TypeOK` also needs a test to be left while one runs (`TestsLeft`),
  so that `tests - 1` stays a natural number.
- `MutualExclusion` follows from `OwnerHoldsContext`: every handler
  between Install and ClearContext is the one installed in the slot.
  The slot holds one value, so two such handlers are the same handler.
  `OwnerHoldsContext` is preserved because Install requires the slot to
  be empty, which is exactly the `while` re-check.

`IInv` is the conjunction of these facts. The proof has three lemmas:

- `InitIInv` shows that Init implies IInv.
- `NextIInv` shows that every step preserves IInv. It has one step per
  action, and under each action one step per changed variable's type and
  one per conjunct.
- The third lemma shows that IInv implies each invariant. PTL then
  combines them.

`IInv` is not a property of a run of its own. Its typing part is
`TypeOK`, and its ownership part follows from `ImplementsSlot`; both are
checked in the sequencer_safety run.

`IdleAfterTraffic` is not inductive either. A step of a handler leaving
RunTraffic would have to know that no node is still busy. The
strengthening is `BusyNodesPending`: a busy node is in the `pending`
set of some handler inside RunTraffic. It holds for these reasons:

- Only RunTrafficDispatch marks a node busy, and it adds the node to
  its own `pending`.
- A completion marks its node idle as it removes it from `pending`.
- RunTraffic returns only with `pending` empty, so the node that
  answers for a busy node is another handler's.
- CancelTraffic completions only ever set `idle`.

Lemma `BusyFrame` covers every action that moves one handler outside
RunTraffic and marks no node busy. `NextBusy` handles the three
RunTraffic actions by hand. The proof needs `TypeOK` only, not mutual
exclusion.

The race of run idle_race breaks the converse, "idle means no RPC
outstanding" (`IdleMeansNoTraffic`). The direction proved here holds
whatever the interleaving. TLC checks `BusyNodesPending` on the
sequencer_inductive run, and the early-return mutant of RunTraffic
breaks it.

`Refinement` follows the standard pattern:

- Init maps to `Slot!Init`.
- Lemma `NextRefinesSlot` shows that, under `IInv`, every step is a
  `Slot!Next` step or leaves `<<SlotPhase, runningContext>>` unchanged.
  It has one step per action.
- `Leave` needs `owner = c`. This comes from `OwnerHoldsContext`.
- PTL combines these with `[]IInv`.

`RegistryProofs.tla` proves five theorems for every finite set of
registrations:

- `RInvHolds`: `Spec => []RInv`.
- `RegistryTypeCorrect`: `Spec => []TypeOK`.
- `DenseAliasesHold`: `Spec => []DenseAliases`.
- `IdsStableHolds`: `Spec => IdsStable`. This is an action property:
  every step satisfies `IdsKept` or stutters. It needs no invariant,
  because `Put` only adds or overwrites entries. The id it writes for a
  known registration is the one already recorded.
- `RegistryRefinement`: `Spec => ImplementsNodeList`. The mapping of
  `Init` is the empty list. Lemma `NextRefinesList` shows that, under
  `RInv`, a stub created for id `n = node_map_.size()` is
  `Append(NodeSeq, r)` and one for `id < n` is
  `[NodeSeq EXCEPT ![id+1] = r]`. `RInv` supplies density and
  `id <= n`. Without these, `NodeSeq` would read an alias that is not
  there.

- `DenseAliases` is not inductive alone. A failed stub creation has
  recorded an id in `node_id_map_`, and a later successful retry inserts
  that id.
- `RInv` adds two facts: `node_map_` is finite, and every recorded id is
  at most `node_map_.size()`. An insert then either replaces an alias or
  appends the next one.
- The case split is on whether the id equals the size.
- `FS_Interval` gives the cardinality of `0..n`.

**Only model-checked.** The following stay with TLC:

- Liveness (`Termination`).
- The violation runs.
- Everything about `Placer`. It is recursive (`StrLess`, `Decimal`, the
  placement loops), and what a recursive definition computes for every
  input is beyond the prover.
- `AliasesDistinct` and `IdleMeansNoTraffic`. These are false, and TLC
  shows counterexamples.

## Plan for further work

- Compose `Registry` with `TestSequencer`, so that a re-registration
  between placement and a fan-out can be checked. `node_map_` only grows,
  so the `QCHECK` at line 289 cannot fail. A replaced stub changes only
  payloads, which are not modelled.
- Add a fault model for a worker that never answers (no deadline, line
  127). Every `Termination` argument assumes that case away.
