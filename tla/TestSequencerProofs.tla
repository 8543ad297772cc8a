------------------------ MODULE TestSequencerProofs ------------------------
(***************************************************************************)
(* Proofs about TestSequencer: type correctness and mutual exclusion of   *)
(* DoRunTestSequence, for every set of handlers, every number of nodes    *)
(* and every bound on the tests of a request.                             *)
(***************************************************************************)
EXTENDS TestSequencer, TLAPS

\* A dispatch loop's cursor is a node while the loop runs.
DispatchCursor ==
    \A c \in Clients :
        pc[c] \in {"cancel_dispatch", "run_dispatch"} => cursor[c] \in Nodes

\* Between the two dispatch loops the cursor is back at the first node.
CursorReset ==
    \A c \in Clients :
        pc[c] \in {"lock", "wait", "recheck", "check", "place", "configure",
                   "introduce"} => cursor[c] = 1

\* A test is being run only while one is left.
TestsLeft ==
    \A c \in Clients :
        pc[c] \in {"place", "configure", "introduce", "run_dispatch",
                   "run_wait"} => tests[c] \in 1..MaxTests

\* A handler from Install to ClearContext is the installed context: the
\* slot holds one context, so this gives mutual exclusion.
OwnerHoldsContext ==
    \A c \in Clients : pc[c] \in OwnerLocs => runningContext = c

\* The inductive invariant.
IInv == TypeOK /\ DispatchCursor /\ CursorReset /\ TestsLeft
                /\ OwnerHoldsContext

\* The inductive form of IdleAfterTraffic: a node is busy only while the
\* RunTraffic fan-out that marked it is in progress and its RPC to that
\* node is outstanding.  CancelTraffic completions of other handlers only
\* ever set idle, so they cannot break it; a RunTraffic that returned
\* before draining cq would.
BusyNodesPending ==
    \A n \in Nodes :
        ~idle[n] => \E c \in Clients : pc[c] \in RunLocs /\ n \in pending[c]
-----------------------------------------------------------------------------

\* Every state in which no handler has been called satisfies IInv.
LEMMA InitIInv == Init => IInv
  BY SequencerAssumption
  DEF Init, IInv, TypeOK, DispatchCursor, CursorReset, TestsLeft,
      OwnerHoldsContext, Locations, Nodes, OwnerLocs, BodyLocs

\* The constants' assumptions in the form the provers use.
LEMMA ConstantsOK == /\ NumNodes \in Nat \ {0}
                     /\ MaxTests \in Nat
                     /\ None \notin Clients
  BY SequencerAssumption

\* Every step of Next, or a stutter, preserves IInv: one step per action,
\* each split into the type of pc, the rest of TypeOK, and the other
\* conjuncts.
LEMMA NextIInv == IInv /\ [Next]_vars => IInv'
  <1> SUFFICES ASSUME IInv, [Next]_vars PROVE IInv'
    OBVIOUS
  <1> USE ConstantsOK DEF IInv
  <1>1. ASSUME NEW c \in Clients, RunTestSequence(c) PROVE IInv'
    <2>0. PICK k \in 0..MaxTests : tests' = [tests EXCEPT ![c] = k]
      BY <1>1 DEF RunTestSequence
    <2>1. tests' \in [Clients -> 0..MaxTests]
      BY <1>1, <2>0 DEF RunTestSequence, TypeOK
    <2>2. pc' \in [Clients -> Locations]
      BY <1>1, <2>0 DEF RunTestSequence, TypeOK, Locations
    <2>3. cursor' \in [Clients -> 1..NumNodes + 1]
      BY <1>1, <2>0 DEF RunTestSequence, TypeOK, Nodes
    <2>6. TypeOK'
      BY <1>1, <2>1, <2>2, <2>3 DEF RunTestSequence, TypeOK
    <2>7. DispatchCursor'
      BY <1>1, <2>0 DEF RunTestSequence, TypeOK, DispatchCursor, Nodes
    <2>8. CursorReset'
      BY <1>1, <2>0 DEF RunTestSequence, TypeOK, CursorReset
    <2>9. TestsLeft'
      BY <1>1, <2>0 DEF RunTestSequence, TypeOK, TestsLeft
    <2>10. OwnerHoldsContext'
      BY <1>1, <2>0 DEF RunTestSequence, TypeOK, OwnerHoldsContext, OwnerLocs, BodyLocs
    <2>11. QED
      BY <2>6, <2>7, <2>8, <2>9, <2>10
  <1>2. ASSUME NEW c \in Clients, CancelTrafficDispatch(c) PROVE IInv'
    <2>0. cursor[c] \in Nodes
      BY <1>2 DEF CancelTrafficDispatch, DispatchCursor
    <2>1. readers' \in SUBSET Clients
      BY <1>2, <2>0 DEF CancelTrafficDispatch, TypeOK
    <2>2. pending' \in [Clients -> SUBSET Nodes]
      BY <1>2, <2>0 DEF CancelTrafficDispatch, TypeOK, Nodes
    <2>3. cursor' \in [Clients -> 1..NumNodes + 1]
      <3>1. cursor[c] + 1 \in 1..NumNodes + 1
        BY <2>0 DEF Nodes
      <3>2. QED
        BY <1>2, <3>1 DEF CancelTrafficDispatch, TypeOK
    <2>4. pc' \in [Clients -> Locations]
      BY <1>2, <2>0 DEF CancelTrafficDispatch, TypeOK, Locations
    <2>5. TypeOK'
      BY <1>2, <2>1, <2>2, <2>3, <2>4 DEF CancelTrafficDispatch, TypeOK
    <2>6. DispatchCursor'
      BY <1>2, <2>0 DEF CancelTrafficDispatch, TypeOK, DispatchCursor, Nodes
    <2>7. CursorReset'
      BY <1>2, <2>0 DEF CancelTrafficDispatch, TypeOK, CursorReset
    <2>8. TestsLeft'
      BY <1>2, <2>0 DEF CancelTrafficDispatch, TypeOK, TestsLeft
    <2>9. OwnerHoldsContext'
      BY <1>2, <2>0 DEF CancelTrafficDispatch, TypeOK, OwnerHoldsContext, OwnerLocs, BodyLocs
    <2>10. QED
      BY <2>5, <2>6, <2>7, <2>8, <2>9
  <1>3. ASSUME NEW c \in Clients, NEW n \in Nodes, CancelTrafficComplete(c, n) PROVE IInv'
    <2>1. pending' \in [Clients -> SUBSET Nodes]
      BY <1>3 DEF CancelTrafficComplete, TypeOK, Nodes
    <2>2. idle' \in [Nodes -> BOOLEAN]
      BY <1>3 DEF CancelTrafficComplete, TypeOK, Nodes
    <2>3. TypeOK'
      BY <1>3, <2>1, <2>2 DEF CancelTrafficComplete, TypeOK
    <2>4. DispatchCursor'
      BY <1>3 DEF CancelTrafficComplete, DispatchCursor
    <2>5. CursorReset'
      BY <1>3 DEF CancelTrafficComplete, CursorReset
    <2>6. TestsLeft'
      BY <1>3 DEF CancelTrafficComplete, TestsLeft
    <2>7. OwnerHoldsContext'
      BY <1>3 DEF CancelTrafficComplete, OwnerHoldsContext
    <2>8. QED
      BY <2>3, <2>4, <2>5, <2>6, <2>7
  <1>4. ASSUME NEW c \in Clients, CancelTrafficReturn(c) PROVE IInv'
    <2>1. readers' \in SUBSET Clients
      BY <1>4 DEF CancelTrafficReturn, TypeOK
    <2>2. cursor' \in [Clients -> 1..NumNodes + 1]
      BY <1>4 DEF CancelTrafficReturn, TypeOK, Nodes
    <2>3. pc' \in [Clients -> Locations]
      BY <1>4 DEF CancelTrafficReturn, TypeOK, Locations
    <2>4. TypeOK'
      BY <1>4, <2>1, <2>2, <2>3 DEF CancelTrafficReturn, TypeOK
    <2>5. DispatchCursor'
      BY <1>4 DEF CancelTrafficReturn, TypeOK, DispatchCursor, Nodes
    <2>6. CursorReset'
      BY <1>4 DEF CancelTrafficReturn, TypeOK, CursorReset
    <2>7. TestsLeft'
      BY <1>4 DEF CancelTrafficReturn, TypeOK, TestsLeft
    <2>8. OwnerHoldsContext'
      BY <1>4 DEF CancelTrafficReturn, TypeOK, OwnerHoldsContext, OwnerLocs, BodyLocs
    <2>9. QED
      BY <2>4, <2>5, <2>6, <2>7, <2>8
  <1>5. ASSUME NEW c \in Clients, Preempt(c) PROVE IInv'
    <2>1. cancelled' \in SUBSET Clients
      BY <1>5 DEF Preempt, TypeOK
    <2>2. prior' \in [Clients -> Clients \cup {None}]
      BY <1>5 DEF Preempt, TypeOK
    <2>3. pc' \in [Clients -> Locations]
      BY <1>5 DEF Preempt, TypeOK, Locations
    <2>4. TypeOK'
      BY <1>5, <2>1, <2>2, <2>3 DEF Preempt, TypeOK
    <2>5. DispatchCursor'
      BY <1>5 DEF Preempt, TypeOK, DispatchCursor, Nodes
    <2>6. CursorReset'
      BY <1>5 DEF Preempt, TypeOK, CursorReset
    <2>7. TestsLeft'
      BY <1>5 DEF Preempt, TypeOK, TestsLeft
    <2>8. OwnerHoldsContext'
      BY <1>5 DEF Preempt, TypeOK, OwnerHoldsContext, OwnerLocs, BodyLocs
    <2>9. QED
      BY <2>4, <2>5, <2>6, <2>7, <2>8
  <1>6. ASSUME NEW c \in Clients, WaitForNotification(c) PROVE IInv'
    <2>1. pc' \in [Clients -> Locations]
      BY <1>6 DEF WaitForNotification, TypeOK, Locations
    <2>2. TypeOK'
      BY <1>6, <2>1 DEF WaitForNotification, TypeOK
    <2>3. DispatchCursor'
      BY <1>6 DEF WaitForNotification, TypeOK, DispatchCursor, Nodes
    <2>4. CursorReset'
      BY <1>6 DEF WaitForNotification, TypeOK, CursorReset
    <2>5. TestsLeft'
      BY <1>6 DEF WaitForNotification, TypeOK, TestsLeft
    <2>6. OwnerHoldsContext'
      BY <1>6 DEF WaitForNotification, TypeOK, OwnerHoldsContext, OwnerLocs, BodyLocs
    <2>7. QED
      BY <2>2, <2>3, <2>4, <2>5, <2>6
  <1>7. ASSUME NEW c \in Clients, Install(c) PROVE IInv'
    <2>1. runningContext' \in Clients \cup {None}
      BY <1>7 DEF Install, TypeOK
    <2>2. runningNotification' \in Clients \cup {None}
      BY <1>7 DEF Install, TypeOK
    <2>3. pc' \in [Clients -> Locations]
      BY <1>7 DEF Install, TypeOK, Locations
    <2>4. TypeOK'
      BY <1>7, <2>1, <2>2, <2>3 DEF Install, TypeOK
    <2>5. DispatchCursor'
      BY <1>7 DEF Install, TypeOK, DispatchCursor, Nodes
    <2>6. CursorReset'
      BY <1>7 DEF Install, TypeOK, CursorReset
    <2>7. TestsLeft'
      BY <1>7 DEF Install, TypeOK, TestsLeft
    <2>8. OwnerHoldsContext'
      BY <1>7 DEF Install, TypeOK, OwnerHoldsContext, OwnerLocs, BodyLocs
    <2>9. QED
      BY <2>4, <2>5, <2>6, <2>7, <2>8
  <1>8. ASSUME NEW c \in Clients, CheckCancelled(c) PROVE IInv'
    <2>1. result' \in [Clients -> {"none", "OK", "ABORTED"}]
      BY <1>8 DEF CheckCancelled, TypeOK
    <2>2. pc' \in [Clients -> Locations]
      BY <1>8 DEF CheckCancelled, TypeOK, Locations
    <2>3. TypeOK'
      BY <1>8, <2>1, <2>2 DEF CheckCancelled, TypeOK
    <2>4. DispatchCursor'
      BY <1>8 DEF CheckCancelled, TypeOK, DispatchCursor, Nodes
    <2>5. CursorReset'
      BY <1>8 DEF CheckCancelled, TypeOK, CursorReset
    <2>6. TestsLeft'
      BY <1>8 DEF CheckCancelled, TypeOK, TestsLeft
    <2>7. OwnerHoldsContext'
      BY <1>8 DEF CheckCancelled, TypeOK, OwnerHoldsContext, OwnerLocs, BodyLocs
    <2>8. QED
      BY <2>3, <2>4, <2>5, <2>6, <2>7
  <1>9. ASSUME NEW c \in Clients, DoRunTest(c) PROVE IInv'
    <2>1. pc' \in [Clients -> Locations]
      BY <1>9 DEF DoRunTest, TypeOK, Locations
    <2>2. result' \in [Clients -> {"none", "OK", "ABORTED"}]
      BY <1>9 DEF DoRunTest, TypeOK
    <2>3. targets' \in [Clients -> SUBSET Nodes]
      <3>1. CASE \E placement \in SUBSET Nodes :
                   targets' = [targets EXCEPT ![c] = placement]
        BY <3>1 DEF TypeOK
      <3>2. CASE UNCHANGED targets
        BY <3>2 DEF TypeOK
      <3>3. QED
        BY <1>9, <3>1, <3>2 DEF DoRunTest
    <2>4. TypeOK'
      BY <1>9, <2>1, <2>2, <2>3 DEF DoRunTest, TypeOK
    <2>5. DispatchCursor'
      BY <1>9 DEF DoRunTest, TypeOK, DispatchCursor, Nodes
    <2>6. CursorReset'
      BY <1>9 DEF DoRunTest, TypeOK, CursorReset
    <2>7. TestsLeft'
      BY <1>9 DEF DoRunTest, TypeOK, TestsLeft
    <2>8. OwnerHoldsContext'
      BY <1>9 DEF DoRunTest, TypeOK, OwnerHoldsContext, OwnerLocs, BodyLocs
    <2>9. QED
      BY <2>4, <2>5, <2>6, <2>7, <2>8
  <1>10. ASSUME NEW c \in Clients, ConfigureNodes(c) PROVE IInv'
    <2>1. pc' \in [Clients -> Locations]
      BY <1>10 DEF ConfigureNodes, ExclusivePhase, TypeOK, Locations
    <2>2. result' \in [Clients -> {"none", "OK", "ABORTED"}]
      BY <1>10 DEF ConfigureNodes, ExclusivePhase, TypeOK
    <2>3. targets' \in [Clients -> SUBSET Nodes]
      BY <1>10 DEF ConfigureNodes, ExclusivePhase, TypeOK, Nodes
    <2>4. TypeOK'
      BY <1>10, <2>1, <2>2, <2>3 DEF ConfigureNodes, ExclusivePhase, TypeOK
    <2>5. DispatchCursor'
      BY <1>10 DEF ConfigureNodes, ExclusivePhase, TypeOK, DispatchCursor, Nodes
    <2>6. CursorReset'
      BY <1>10 DEF ConfigureNodes, ExclusivePhase, TypeOK, CursorReset
    <2>7. TestsLeft'
      BY <1>10 DEF ConfigureNodes, ExclusivePhase, TypeOK, TestsLeft
    <2>8. OwnerHoldsContext'
      BY <1>10 DEF ConfigureNodes, ExclusivePhase, TypeOK, OwnerHoldsContext, OwnerLocs, BodyLocs
    <2>9. QED
      BY <2>4, <2>5, <2>6, <2>7, <2>8
  <1>11. ASSUME NEW c \in Clients, IntroducePeers(c) PROVE IInv'
    <2>1. pc' \in [Clients -> Locations]
      BY <1>11 DEF IntroducePeers, ExclusivePhase, TypeOK, Locations
    <2>2. result' \in [Clients -> {"none", "OK", "ABORTED"}]
      BY <1>11 DEF IntroducePeers, ExclusivePhase, TypeOK
    <2>3. targets' \in [Clients -> SUBSET Nodes]
      BY <1>11 DEF IntroducePeers, ExclusivePhase, TypeOK, Nodes
    <2>4. TypeOK'
      BY <1>11, <2>1, <2>2, <2>3 DEF IntroducePeers, ExclusivePhase, TypeOK
    <2>5. DispatchCursor'
      BY <1>11 DEF IntroducePeers, ExclusivePhase, TypeOK, DispatchCursor, Nodes, CursorReset
    <2>6. CursorReset'
      BY <1>11 DEF IntroducePeers, ExclusivePhase, TypeOK, CursorReset
    <2>7. TestsLeft'
      BY <1>11 DEF IntroducePeers, ExclusivePhase, TypeOK, TestsLeft
    <2>8. OwnerHoldsContext'
      BY <1>11 DEF IntroducePeers, ExclusivePhase, TypeOK, OwnerHoldsContext, OwnerLocs, BodyLocs
    <2>9. QED
      BY <2>4, <2>5, <2>6, <2>7, <2>8
  <1>12. ASSUME NEW c \in Clients, RunTrafficDispatch(c) PROVE IInv'
    <2>0. cursor[c] \in Nodes
      BY <1>12 DEF RunTrafficDispatch, DispatchCursor
    <2>1. readers' \in SUBSET Clients
      BY <1>12, <2>0 DEF RunTrafficDispatch, TypeOK
    <2>2. idle' \in [Nodes -> BOOLEAN]
      BY <1>12, <2>0 DEF RunTrafficDispatch, TypeOK, Nodes
    <2>3. pending' \in [Clients -> SUBSET Nodes]
      <3>1. CASE cursor[c] \in targets[c]
        BY <1>12, <2>0, <3>1 DEF RunTrafficDispatch, TypeOK
      <3>2. CASE cursor[c] \notin targets[c]
        BY <1>12, <3>2 DEF RunTrafficDispatch, TypeOK
      <3>3. QED
        BY <3>1, <3>2
    <2>4. cursor' \in [Clients -> 1..NumNodes + 1]
      <3>1. cursor[c] + 1 \in 1..NumNodes + 1
        BY <2>0 DEF Nodes
      <3>2. QED
        BY <1>12, <3>1 DEF RunTrafficDispatch, TypeOK
    <2>5. pc' \in [Clients -> Locations]
      BY <1>12, <2>0 DEF RunTrafficDispatch, TypeOK, Locations
    <2>6. TypeOK'
      BY <1>12, <2>1, <2>2, <2>3, <2>4, <2>5 DEF RunTrafficDispatch, TypeOK
    <2>7. DispatchCursor'
      <3>1. pc'[c] \in {"cancel_dispatch", "run_dispatch"} => cursor'[c] \in Nodes
        <4>1. pc'[c] \in {"cancel_dispatch", "run_dispatch"} => cursor[c] # NumNodes
          BY <1>12 DEF RunTrafficDispatch, TypeOK
        <4>2. cursor'[c] = cursor[c] + 1
          BY <1>12 DEF RunTrafficDispatch, TypeOK
        <4>3. QED
          BY <2>0, <4>1, <4>2 DEF Nodes
      <3>2. \A d \in Clients \ {c} : pc'[d] = pc[d] /\ cursor'[d] = cursor[d]
        BY <1>12 DEF RunTrafficDispatch, TypeOK
      <3>3. QED
        BY <3>1, <3>2 DEF DispatchCursor
    <2>8. CursorReset'
      BY <1>12, <2>0 DEF RunTrafficDispatch, TypeOK, CursorReset
    <2>9. TestsLeft'
      BY <1>12, <2>0 DEF RunTrafficDispatch, TypeOK, TestsLeft
    <2>10. OwnerHoldsContext'
      BY <1>12, <2>0 DEF RunTrafficDispatch, TypeOK, OwnerHoldsContext, OwnerLocs, BodyLocs
    <2>11. QED
      BY <2>6, <2>7, <2>8, <2>9, <2>10
  <1>13. ASSUME NEW c \in Clients, NEW n \in Nodes, RunTrafficComplete(c, n) PROVE IInv'
    <2>1. failed' \in [Clients -> BOOLEAN]
      BY <1>13 DEF RunTrafficComplete, TypeOK
    <2>2. pending' \in [Clients -> SUBSET Nodes]
      BY <1>13 DEF RunTrafficComplete, TypeOK, Nodes
    <2>3. idle' \in [Nodes -> BOOLEAN]
      BY <1>13 DEF RunTrafficComplete, TypeOK, Nodes
    <2>4. TypeOK'
      BY <1>13, <2>1, <2>2, <2>3 DEF RunTrafficComplete, TypeOK
    <2>5. DispatchCursor'
      BY <1>13 DEF RunTrafficComplete, DispatchCursor
    <2>6. CursorReset'
      BY <1>13 DEF RunTrafficComplete, CursorReset
    <2>7. TestsLeft'
      BY <1>13 DEF RunTrafficComplete, TestsLeft
    <2>8. OwnerHoldsContext'
      BY <1>13 DEF RunTrafficComplete, OwnerHoldsContext
    <2>9. QED
      BY <2>4, <2>5, <2>6, <2>7, <2>8
  <1>14. ASSUME NEW c \in Clients, RunTrafficReturn(c) PROVE IInv'
    <2>0. tests[c] \in 1..MaxTests
      BY <1>14 DEF RunTrafficReturn, TestsLeft
    <2>1. readers' \in SUBSET Clients
      BY <1>14, <2>0 DEF RunTrafficReturn, TypeOK
    <2>2. pc' \in [Clients -> Locations]
      BY <1>14, <2>0 DEF RunTrafficReturn, TypeOK, Locations
    <2>3. result' \in [Clients -> {"none", "OK", "ABORTED"}]
      BY <1>14, <2>0 DEF RunTrafficReturn, TypeOK
    <2>4. tests' \in [Clients -> 0..MaxTests]
      BY <1>14, <2>0 DEF RunTrafficReturn, TypeOK
    <2>5. cursor' \in [Clients -> 1..NumNodes + 1]
      BY <1>14, <2>0 DEF RunTrafficReturn, TypeOK, Nodes
    <2>6. failed' \in [Clients -> BOOLEAN]
      BY <1>14, <2>0 DEF RunTrafficReturn, TypeOK
    <2>7. targets' \in [Clients -> SUBSET Nodes]
      BY <1>14, <2>0 DEF RunTrafficReturn, TypeOK, Nodes
    <2>8. TypeOK'
      BY <1>14, <2>1, <2>2, <2>3, <2>4, <2>5, <2>6, <2>7 DEF RunTrafficReturn, TypeOK
    <2>9. DispatchCursor'
      BY <1>14, <2>0 DEF RunTrafficReturn, TypeOK, DispatchCursor, Nodes
    <2>10. CursorReset'
      BY <1>14, <2>0 DEF RunTrafficReturn, TypeOK, CursorReset
    <2>11. TestsLeft'
      BY <1>14, <2>0 DEF RunTrafficReturn, TypeOK, TestsLeft
    <2>12. OwnerHoldsContext'
      BY <1>14, <2>0 DEF RunTrafficReturn, TypeOK, OwnerHoldsContext, OwnerLocs, BodyLocs
    <2>13. QED
      BY <2>8, <2>9, <2>10, <2>11, <2>12
  <1>15. ASSUME NEW c \in Clients, Notify(c) PROVE IInv'
    <2>1. notified' \in SUBSET Clients
      BY <1>15 DEF Notify, TypeOK
    <2>2. pc' \in [Clients -> Locations]
      BY <1>15 DEF Notify, TypeOK, Locations
    <2>3. TypeOK'
      BY <1>15, <2>1, <2>2 DEF Notify, TypeOK
    <2>4. DispatchCursor'
      BY <1>15 DEF Notify, TypeOK, DispatchCursor, Nodes
    <2>5. CursorReset'
      BY <1>15 DEF Notify, TypeOK, CursorReset
    <2>6. TestsLeft'
      BY <1>15 DEF Notify, TypeOK, TestsLeft
    <2>7. OwnerHoldsContext'
      BY <1>15 DEF Notify, TypeOK, OwnerHoldsContext, OwnerLocs, BodyLocs
    <2>8. QED
      BY <2>3, <2>4, <2>5, <2>6, <2>7
  <1>16. ASSUME NEW c \in Clients, ClearContext(c) PROVE IInv'
    <2>1. runningContext' \in Clients \cup {None}
      BY <1>16 DEF ClearContext, TypeOK
    <2>2. pc' \in [Clients -> Locations]
      BY <1>16 DEF ClearContext, TypeOK, Locations
    <2>3. TypeOK'
      BY <1>16, <2>1, <2>2 DEF ClearContext, TypeOK
    <2>4. DispatchCursor'
      BY <1>16 DEF ClearContext, TypeOK, DispatchCursor, Nodes
    <2>5. CursorReset'
      BY <1>16 DEF ClearContext, TypeOK, CursorReset
    <2>6. TestsLeft'
      BY <1>16 DEF ClearContext, TypeOK, TestsLeft
    <2>7. OwnerHoldsContext'
      BY <1>16 DEF ClearContext, TypeOK, OwnerHoldsContext, OwnerLocs, BodyLocs
    <2>8. QED
      BY <2>3, <2>4, <2>5, <2>6, <2>7
  <1>17. ASSUME NEW c \in Clients, ClientCancel(c) PROVE IInv'
    <2>1. cancelled' \in SUBSET Clients
      BY <1>17 DEF ClientCancel, TypeOK
    <2>2. TypeOK'
      BY <1>17, <2>1 DEF ClientCancel, TypeOK
    <2>3. DispatchCursor'
      BY <1>17 DEF ClientCancel, DispatchCursor
    <2>4. CursorReset'
      BY <1>17 DEF ClientCancel, CursorReset
    <2>5. TestsLeft'
      BY <1>17 DEF ClientCancel, TestsLeft
    <2>6. OwnerHoldsContext'
      BY <1>17 DEF ClientCancel, OwnerHoldsContext
    <2>7. QED
      BY <2>2, <2>3, <2>4, <2>5, <2>6
  <1>18. CASE Terminated \/ UNCHANGED vars
    BY <1>18 DEF Terminated, vars, TypeOK, DispatchCursor, CursorReset,
                  TestsLeft, OwnerHoldsContext
  <1>19. QED
    BY <1>1, <1>2, <1>3, <1>4, <1>5, <1>6, <1>7, <1>8, <1>9, <1>10, <1>11,
       <1>12, <1>13, <1>14, <1>15, <1>16, <1>17, <1>18
    DEF Next, Handler

\* IInv (the invariant of the sequencer_inductive run) holds in every
\* reachable state: the dispatch cursors, the tests left and the
\* ownership of running_test_sequence_context_ stay consistent with where
\* each RunTestSequence handler is, for every value of the constants.
THEOREM IInvHolds == Spec => []IInv
  BY InitIInv, NextIInv, PTL DEF Spec

\* The controller's variables always hold values of their types.
THEOREM TypeCorrect == Spec => []TypeOK
  <1>1. Init => IInv
    BY InitIInv
  <1>2. IInv /\ [Next]_vars => IInv'
    BY NextIInv
  <1>3. IInv => TypeOK
    BY DEF IInv
  <1>4. QED
    BY <1>1, <1>2, <1>3, PTL DEF Spec

\* RunTestSequence's preemption loop admits at most one handler into
\* DoRunTestSequence at a time, for any number of handlers and nodes.
THEOREM MutualExclusionHolds == Spec => []MutualExclusion
  <1>1. IInv => MutualExclusion
    BY DEF IInv, OwnerHoldsContext, MutualExclusion, OwnerLocs
  <1>2. QED
    BY <1>1, InitIInv, NextIInv, PTL DEF Spec
\* Every step of Next, from a state satisfying IInv, is a step of
\* SequenceSlot under the mapping or leaves the mapped state unchanged.
LEMMA NextRefinesSlot ==
    IInv /\ [Next]_vars => [Slot!Next]_<<SlotPhase, runningContext>>
  <1> SUFFICES ASSUME IInv, [Next]_vars
               PROVE  [Slot!Next]_<<SlotPhase, runningContext>>
    OBVIOUS
  <1> USE DEF IInv
  <1>1. ASSUME NEW c \in Clients, RunTestSequence(c) PROVE Slot!Request(c)
    <2>1. SlotPhase[c] = "idle"
      BY <1>1 DEF RunTestSequence, SlotPhase, Stage
    <2>2. SlotPhase' = [SlotPhase EXCEPT ![c] = "waiting"]
      BY <1>1 DEF RunTestSequence, SlotPhase, Stage, TypeOK, OwnerLocs, BodyLocs
    <2>3. QED
      BY <1>1, <2>1, <2>2 DEF RunTestSequence, Slot!Request
  <1>2. ASSUME NEW c \in Clients, Install(c) PROVE Slot!Enter(c)
    <2>1. SlotPhase[c] = "waiting"
      BY <1>2 DEF Install, SlotPhase, Stage, OwnerLocs, BodyLocs
    <2>2. SlotPhase' = [SlotPhase EXCEPT ![c] = "running"]
      BY <1>2 DEF Install, SlotPhase, Stage, TypeOK, OwnerLocs, BodyLocs
    <2>3. QED
      BY <1>2, <2>1, <2>2 DEF Install, Slot!Enter
  <1>3. ASSUME NEW c \in Clients, ClearContext(c) PROVE Slot!Leave(c)
    <2>1. SlotPhase[c] = "running"
      BY <1>3 DEF ClearContext, SlotPhase, Stage, OwnerLocs, BodyLocs
    <2>2. runningContext = c
      BY <1>3 DEF ClearContext, OwnerHoldsContext, OwnerLocs, BodyLocs
    <2>3. SlotPhase' = [SlotPhase EXCEPT ![c] = "done"]
      BY <1>3 DEF ClearContext, SlotPhase, Stage, TypeOK, OwnerLocs, BodyLocs
    <2>4. QED
      BY <1>3, <2>1, <2>2, <2>3 DEF ClearContext, Slot!Leave
  <1>4. ASSUME NEW c \in Clients, CancelTrafficDispatch(c)
         PROVE  UNCHANGED <<SlotPhase, runningContext>>
    <2>1. \A d \in Clients : Stage(pc'[d]) = Stage(pc[d])
      BY <1>4 DEF CancelTrafficDispatch, TypeOK, Stage, OwnerLocs, BodyLocs
    <2>2. QED
      BY <1>4, <2>1 DEF CancelTrafficDispatch, SlotPhase
  <1>5. ASSUME NEW c \in Clients, NEW n \in Nodes, CancelTrafficComplete(c, n)
         PROVE  UNCHANGED <<SlotPhase, runningContext>>
    <2>1. \A d \in Clients : Stage(pc'[d]) = Stage(pc[d])
      BY <1>5 DEF CancelTrafficComplete, TypeOK, Stage, OwnerLocs, BodyLocs
    <2>2. QED
      BY <1>5, <2>1 DEF CancelTrafficComplete, SlotPhase
  <1>6. ASSUME NEW c \in Clients, CancelTrafficReturn(c)
         PROVE  UNCHANGED <<SlotPhase, runningContext>>
    <2>1. \A d \in Clients : Stage(pc'[d]) = Stage(pc[d])
      BY <1>6 DEF CancelTrafficReturn, TypeOK, Stage, OwnerLocs, BodyLocs
    <2>2. QED
      BY <1>6, <2>1 DEF CancelTrafficReturn, SlotPhase
  <1>7. ASSUME NEW c \in Clients, Preempt(c)
         PROVE  UNCHANGED <<SlotPhase, runningContext>>
    <2>1. \A d \in Clients : Stage(pc'[d]) = Stage(pc[d])
      BY <1>7 DEF Preempt, TypeOK, Stage, OwnerLocs, BodyLocs
    <2>2. QED
      BY <1>7, <2>1 DEF Preempt, SlotPhase
  <1>8. ASSUME NEW c \in Clients, WaitForNotification(c)
         PROVE  UNCHANGED <<SlotPhase, runningContext>>
    <2>1. \A d \in Clients : Stage(pc'[d]) = Stage(pc[d])
      BY <1>8 DEF WaitForNotification, TypeOK, Stage, OwnerLocs, BodyLocs
    <2>2. QED
      BY <1>8, <2>1 DEF WaitForNotification, SlotPhase
  <1>9. ASSUME NEW c \in Clients, CheckCancelled(c)
         PROVE  UNCHANGED <<SlotPhase, runningContext>>
    <2>1. \A d \in Clients : Stage(pc'[d]) = Stage(pc[d])
      BY <1>9 DEF CheckCancelled, TypeOK, Stage, OwnerLocs, BodyLocs
    <2>2. QED
      BY <1>9, <2>1 DEF CheckCancelled, SlotPhase
  <1>10. ASSUME NEW c \in Clients, DoRunTest(c)
         PROVE  UNCHANGED <<SlotPhase, runningContext>>
    <2>1. \A d \in Clients : Stage(pc'[d]) = Stage(pc[d])
      BY <1>10 DEF DoRunTest, TypeOK, Stage, OwnerLocs, BodyLocs
    <2>2. QED
      BY <1>10, <2>1 DEF DoRunTest, SlotPhase
  <1>11. ASSUME NEW c \in Clients, ConfigureNodes(c)
         PROVE  UNCHANGED <<SlotPhase, runningContext>>
    <2>1. \A d \in Clients : Stage(pc'[d]) = Stage(pc[d])
      BY <1>11 DEF ConfigureNodes, ExclusivePhase, TypeOK, Stage, OwnerLocs, BodyLocs
    <2>2. QED
      BY <1>11, <2>1 DEF ConfigureNodes, ExclusivePhase, SlotPhase
  <1>12. ASSUME NEW c \in Clients, IntroducePeers(c)
         PROVE  UNCHANGED <<SlotPhase, runningContext>>
    <2>1. \A d \in Clients : Stage(pc'[d]) = Stage(pc[d])
      BY <1>12 DEF IntroducePeers, ExclusivePhase, TypeOK, Stage, OwnerLocs, BodyLocs
    <2>2. QED
      BY <1>12, <2>1 DEF IntroducePeers, ExclusivePhase, SlotPhase
  <1>13. ASSUME NEW c \in Clients, RunTrafficDispatch(c)
         PROVE  UNCHANGED <<SlotPhase, runningContext>>
    <2>1. \A d \in Clients : Stage(pc'[d]) = Stage(pc[d])
      BY <1>13 DEF RunTrafficDispatch, TypeOK, Stage, OwnerLocs, BodyLocs
    <2>2. QED
      BY <1>13, <2>1 DEF RunTrafficDispatch, SlotPhase
  <1>14. ASSUME NEW c \in Clients, NEW n \in Nodes, RunTrafficComplete(c, n)
         PROVE  UNCHANGED <<SlotPhase, runningContext>>
    <2>1. \A d \in Clients : Stage(pc'[d]) = Stage(pc[d])
      BY <1>14 DEF RunTrafficComplete, TypeOK, Stage, OwnerLocs, BodyLocs
    <2>2. QED
      BY <1>14, <2>1 DEF RunTrafficComplete, SlotPhase
  <1>15. ASSUME NEW c \in Clients, RunTrafficReturn(c)
         PROVE  UNCHANGED <<SlotPhase, runningContext>>
    <2>1. \A d \in Clients : Stage(pc'[d]) = Stage(pc[d])
      BY <1>15 DEF RunTrafficReturn, TypeOK, Stage, OwnerLocs, BodyLocs
    <2>2. QED
      BY <1>15, <2>1 DEF RunTrafficReturn, SlotPhase
  <1>16. ASSUME NEW c \in Clients, Notify(c)
         PROVE  UNCHANGED <<SlotPhase, runningContext>>
    <2>1. \A d \in Clients : Stage(pc'[d]) = Stage(pc[d])
      BY <1>16 DEF Notify, TypeOK, Stage, OwnerLocs, BodyLocs
    <2>2. QED
      BY <1>16, <2>1 DEF Notify, SlotPhase
  <1>17. ASSUME NEW c \in Clients, ClientCancel(c)
         PROVE  UNCHANGED <<SlotPhase, runningContext>>
    <2>1. \A d \in Clients : Stage(pc'[d]) = Stage(pc[d])
      BY <1>17 DEF ClientCancel, TypeOK, Stage, OwnerLocs, BodyLocs
    <2>2. QED
      BY <1>17, <2>1 DEF ClientCancel, SlotPhase
  <1>18. CASE Terminated \/ UNCHANGED vars
    BY <1>18 DEF Terminated, vars, SlotPhase
  <1>19. QED
    BY <1>1, <1>2, <1>3, <1>4, <1>5, <1>6, <1>7, <1>8, <1>9, <1>10, <1>11, <1>12, <1>13, <1>14, <1>15, <1>16, <1>17, <1>18
    DEF Next, Handler, Slot!Next


\* RunTestSequence implements SequenceSlot: Init maps to its initial state
\* and, under IInv, every step to one of its steps or a stutter, for every
\* value of the constants (the ImplementsSlot property of the safety run).
THEOREM Refinement == Spec => ImplementsSlot
  <1>1. Init => Slot!Init
    BY DEF Init, Slot!Init, SlotPhase, Stage
  <1>2. Spec => []IInv
    BY InitIInv, NextIInv, PTL DEF Spec
  <1>3. QED
    BY <1>1, <1>2, NextRefinesSlot, PTL
    DEF Spec, ImplementsSlot, Slot!Spec, Slot!slotVars

\* A step that moves one handler c outside RunTraffic, marks no node busy
\* and leaves every other handler's location and outstanding RPCs alone
\* preserves BusyNodesPending: the fan-out that answers for a busy node is
\* another handler's.
LEMMA BusyFrame ==
    ASSUME NEW c \in Clients, BusyNodesPending, pc[c] \notin RunLocs,
           \A m \in Nodes : ~idle'[m] => ~idle[m],
           \A d \in Clients \ {c} : pc'[d] = pc[d] /\ pending'[d] = pending[d]
    PROVE  BusyNodesPending'
  <1> SUFFICES ASSUME NEW m \in Nodes, ~idle'[m]
               PROVE  \E d \in Clients : pc'[d] \in RunLocs /\ m \in pending'[d]
    BY DEF BusyNodesPending
  <1>1. PICK d \in Clients : pc[d] \in RunLocs /\ m \in pending[d]
    BY DEF BusyNodesPending
  <1>2. d # c
    BY <1>1
  <1>3. QED
    BY <1>1, <1>2

\* Every step preserves BusyNodesPending, given the type invariant.
LEMMA NextBusy == TypeOK /\ BusyNodesPending /\ [Next]_vars => BusyNodesPending'
  <1> SUFFICES ASSUME TypeOK, BusyNodesPending, [Next]_vars
               PROVE  BusyNodesPending'
    OBVIOUS
  <1>1. ASSUME NEW c \in Clients, RunTestSequence(c) PROVE BusyNodesPending'
    <2>1. pc[c] \notin RunLocs
      BY <1>1 DEF RunTestSequence, RunLocs
    <2>2. \A m \in Nodes : ~idle'[m] => ~idle[m]
      BY <1>1 DEF RunTestSequence, TypeOK
    <2>3. \A d \in Clients \ {c} : pc'[d] = pc[d] /\ pending'[d] = pending[d]
      BY <1>1 DEF RunTestSequence, TypeOK
    <2>4. QED
      BY <2>1, <2>2, <2>3, BusyFrame
  <1>2. ASSUME NEW c \in Clients, CancelTrafficDispatch(c) PROVE BusyNodesPending'
    <2>1. pc[c] \notin RunLocs
      BY <1>2 DEF CancelTrafficDispatch, RunLocs
    <2>2. \A m \in Nodes : ~idle'[m] => ~idle[m]
      BY <1>2 DEF CancelTrafficDispatch, TypeOK
    <2>3. \A d \in Clients \ {c} : pc'[d] = pc[d] /\ pending'[d] = pending[d]
      BY <1>2 DEF CancelTrafficDispatch, TypeOK
    <2>4. QED
      BY <2>1, <2>2, <2>3, BusyFrame
  <1>3. ASSUME NEW c \in Clients, CancelTrafficReturn(c) PROVE BusyNodesPending'
    <2>1. pc[c] \notin RunLocs
      BY <1>3 DEF CancelTrafficReturn, RunLocs
    <2>2. \A m \in Nodes : ~idle'[m] => ~idle[m]
      BY <1>3 DEF CancelTrafficReturn, TypeOK
    <2>3. \A d \in Clients \ {c} : pc'[d] = pc[d] /\ pending'[d] = pending[d]
      BY <1>3 DEF CancelTrafficReturn, TypeOK
    <2>4. QED
      BY <2>1, <2>2, <2>3, BusyFrame
  <1>4. ASSUME NEW c \in Clients, Preempt(c) PROVE BusyNodesPending'
    <2>1. pc[c] \notin RunLocs
      BY <1>4 DEF Preempt, RunLocs
    <2>2. \A m \in Nodes : ~idle'[m] => ~idle[m]
      BY <1>4 DEF Preempt, TypeOK
    <2>3. \A d \in Clients \ {c} : pc'[d] = pc[d] /\ pending'[d] = pending[d]
      BY <1>4 DEF Preempt, TypeOK
    <2>4. QED
      BY <2>1, <2>2, <2>3, BusyFrame
  <1>5. ASSUME NEW c \in Clients, WaitForNotification(c) PROVE BusyNodesPending'
    <2>1. pc[c] \notin RunLocs
      BY <1>5 DEF WaitForNotification, RunLocs
    <2>2. \A m \in Nodes : ~idle'[m] => ~idle[m]
      BY <1>5 DEF WaitForNotification, TypeOK
    <2>3. \A d \in Clients \ {c} : pc'[d] = pc[d] /\ pending'[d] = pending[d]
      BY <1>5 DEF WaitForNotification, TypeOK
    <2>4. QED
      BY <2>1, <2>2, <2>3, BusyFrame
  <1>6. ASSUME NEW c \in Clients, Install(c) PROVE BusyNodesPending'
    <2>1. pc[c] \notin RunLocs
      BY <1>6 DEF Install, RunLocs
    <2>2. \A m \in Nodes : ~idle'[m] => ~idle[m]
      BY <1>6 DEF Install, TypeOK
    <2>3. \A d \in Clients \ {c} : pc'[d] = pc[d] /\ pending'[d] = pending[d]
      BY <1>6 DEF Install, TypeOK
    <2>4. QED
      BY <2>1, <2>2, <2>3, BusyFrame
  <1>7. ASSUME NEW c \in Clients, CheckCancelled(c) PROVE BusyNodesPending'
    <2>1. pc[c] \notin RunLocs
      BY <1>7 DEF CheckCancelled, RunLocs
    <2>2. \A m \in Nodes : ~idle'[m] => ~idle[m]
      BY <1>7 DEF CheckCancelled, TypeOK
    <2>3. \A d \in Clients \ {c} : pc'[d] = pc[d] /\ pending'[d] = pending[d]
      BY <1>7 DEF CheckCancelled, TypeOK
    <2>4. QED
      BY <2>1, <2>2, <2>3, BusyFrame
  <1>8. ASSUME NEW c \in Clients, DoRunTest(c) PROVE BusyNodesPending'
    <2>1. pc[c] \notin RunLocs
      BY <1>8 DEF DoRunTest, RunLocs
    <2>2. \A m \in Nodes : ~idle'[m] => ~idle[m]
      BY <1>8 DEF DoRunTest, TypeOK
    <2>3. \A d \in Clients \ {c} : pc'[d] = pc[d] /\ pending'[d] = pending[d]
      BY <1>8 DEF DoRunTest, TypeOK
    <2>4. QED
      BY <2>1, <2>2, <2>3, BusyFrame
  <1>9. ASSUME NEW c \in Clients, ConfigureNodes(c) PROVE BusyNodesPending'
    <2>1. pc[c] \notin RunLocs
      BY <1>9 DEF ConfigureNodes, ExclusivePhase, RunLocs
    <2>2. \A m \in Nodes : ~idle'[m] => ~idle[m]
      BY <1>9 DEF ConfigureNodes, ExclusivePhase, TypeOK
    <2>3. \A d \in Clients \ {c} : pc'[d] = pc[d] /\ pending'[d] = pending[d]
      BY <1>9 DEF ConfigureNodes, ExclusivePhase, TypeOK
    <2>4. QED
      BY <2>1, <2>2, <2>3, BusyFrame
  <1>10. ASSUME NEW c \in Clients, IntroducePeers(c) PROVE BusyNodesPending'
    <2>1. pc[c] \notin RunLocs
      BY <1>10 DEF IntroducePeers, ExclusivePhase, RunLocs
    <2>2. \A m \in Nodes : ~idle'[m] => ~idle[m]
      BY <1>10 DEF IntroducePeers, ExclusivePhase, TypeOK
    <2>3. \A d \in Clients \ {c} : pc'[d] = pc[d] /\ pending'[d] = pending[d]
      BY <1>10 DEF IntroducePeers, ExclusivePhase, TypeOK
    <2>4. QED
      BY <2>1, <2>2, <2>3, BusyFrame
  <1>11. ASSUME NEW c \in Clients, Notify(c) PROVE BusyNodesPending'
    <2>1. pc[c] \notin RunLocs
      BY <1>11 DEF Notify, RunLocs
    <2>2. \A m \in Nodes : ~idle'[m] => ~idle[m]
      BY <1>11 DEF Notify, TypeOK
    <2>3. \A d \in Clients \ {c} : pc'[d] = pc[d] /\ pending'[d] = pending[d]
      BY <1>11 DEF Notify, TypeOK
    <2>4. QED
      BY <2>1, <2>2, <2>3, BusyFrame
  <1>12. ASSUME NEW c \in Clients, ClearContext(c) PROVE BusyNodesPending'
    <2>1. pc[c] \notin RunLocs
      BY <1>12 DEF ClearContext, RunLocs
    <2>2. \A m \in Nodes : ~idle'[m] => ~idle[m]
      BY <1>12 DEF ClearContext, TypeOK
    <2>3. \A d \in Clients \ {c} : pc'[d] = pc[d] /\ pending'[d] = pending[d]
      BY <1>12 DEF ClearContext, TypeOK
    <2>4. QED
      BY <2>1, <2>2, <2>3, BusyFrame
  <1>13. ASSUME NEW c \in Clients, NEW n \in Nodes, CancelTrafficComplete(c, n) PROVE BusyNodesPending'
    <2>1. pc[c] \notin RunLocs
      BY <1>13 DEF CancelTrafficComplete, RunLocs
    <2>2. \A m \in Nodes : ~idle'[m] => ~idle[m]
      BY <1>13 DEF CancelTrafficComplete, TypeOK
    <2>3. \A d \in Clients \ {c} : pc'[d] = pc[d] /\ pending'[d] = pending[d]
      BY <1>13 DEF CancelTrafficComplete, TypeOK
    <2>4. QED
      BY <2>1, <2>2, <2>3, BusyFrame
  <1>14. ASSUME NEW c \in Clients, RunTrafficDispatch(c) PROVE BusyNodesPending'
    <2> DEFINE n == cursor[c]
    <2> SUFFICES ASSUME NEW m \in Nodes, ~idle'[m]
                 PROVE  \E d \in Clients : pc'[d] \in RunLocs /\ m \in pending'[d]
      BY DEF BusyNodesPending
    <2>1. pc'[c] \in RunLocs
      BY <1>14 DEF RunTrafficDispatch, RunLocs, TypeOK
    <2>2. \A d \in Clients : pending[d] \subseteq pending'[d] /\ (pc[d] \in RunLocs => pc'[d] \in RunLocs)
      BY <1>14, <2>1 DEF RunTrafficDispatch, TypeOK
    <2>3. CASE n \in targets[c] /\ m = n
      <3>1. m \in pending'[c]
        BY <1>14, <2>3 DEF RunTrafficDispatch, TypeOK
      <3>2. QED
        BY <2>1, <3>1
    <2>4. CASE ~(n \in targets[c] /\ m = n)
      <3>1. ~idle[m]
        BY <1>14, <2>4 DEF RunTrafficDispatch, TypeOK
      <3>2. PICK d \in Clients : pc[d] \in RunLocs /\ m \in pending[d]
        BY <3>1 DEF BusyNodesPending
      <3>3. QED
        BY <2>2, <3>2
    <2>5. QED
      BY <2>3, <2>4
  <1>15. ASSUME NEW c \in Clients, NEW n \in Nodes, RunTrafficComplete(c, n)
         PROVE  BusyNodesPending'
    <2> SUFFICES ASSUME NEW m \in Nodes, ~idle'[m]
                 PROVE  \E d \in Clients : pc'[d] \in RunLocs /\ m \in pending'[d]
      BY DEF BusyNodesPending
    <2>1. m # n /\ ~idle[m]
      BY <1>15 DEF RunTrafficComplete, TypeOK
    <2>2. PICK d \in Clients : pc[d] \in RunLocs /\ m \in pending[d]
      BY <2>1 DEF BusyNodesPending
    <2>3. pc'[d] \in RunLocs /\ m \in pending'[d]
      BY <1>15, <2>1, <2>2 DEF RunTrafficComplete, TypeOK
    <2>4. QED
      BY <2>3
  <1>16. ASSUME NEW c \in Clients, RunTrafficReturn(c) PROVE BusyNodesPending'
    <2> SUFFICES ASSUME NEW m \in Nodes, ~idle'[m]
                 PROVE  \E d \in Clients : pc'[d] \in RunLocs /\ m \in pending'[d]
      BY DEF BusyNodesPending
    <2>1. ~idle[m]
      BY <1>16 DEF RunTrafficReturn
    <2>2. PICK d \in Clients : pc[d] \in RunLocs /\ m \in pending[d]
      BY <2>1 DEF BusyNodesPending
    <2>3. d # c
      BY <1>16, <2>2 DEF RunTrafficReturn
    <2>4. pc'[d] \in RunLocs /\ m \in pending'[d]
      BY <1>16, <2>2, <2>3 DEF RunTrafficReturn, TypeOK
    <2>5. QED
      BY <2>4
  <1>17. ASSUME NEW c \in Clients, ClientCancel(c) PROVE BusyNodesPending'
    BY <1>17 DEF ClientCancel, BusyNodesPending
  <1>18. CASE Terminated \/ UNCHANGED vars
    BY <1>18 DEF Terminated, vars, BusyNodesPending
  <1>19. QED
    BY <1>1, <1>2, <1>3, <1>4, <1>5, <1>6, <1>7, <1>8, <1>9, <1>10, <1>11, <1>12, <1>13, <1>14, <1>15, <1>16, <1>17, <1>18
    DEF Next, Handler

\* A busy node always has an outstanding RunTraffic RPC of a handler inside
\* RunTraffic (the BusyNodesPending invariant of the sequencer_inductive
\* run), for every value of the constants: no interleaving of fan-outs and
\* completions leaves a node busy with nobody to mark it idle.
THEOREM BusyNodesPendingHolds == Spec => []BusyNodesPending
  <1>1. Init => BusyNodesPending
    BY DEF Init, BusyNodesPending
  <1>2. QED
    BY <1>1, TypeCorrect, NextBusy, PTL DEF Spec

\* Outside RunTraffic every node is idle (the IdleAfterTraffic invariant of
\* the safety run), for every value of the constants: a failed RunTraffic
\* RPC, or a CancelTraffic completion racing RunTraffic, never leaves a
\* node marked busy once RunTraffic has returned.
THEOREM IdleAfterTrafficHolds == Spec => []IdleAfterTraffic
  <1>1. BusyNodesPending => IdleAfterTraffic
    BY DEF BusyNodesPending, IdleAfterTraffic
  <1>2. QED
    BY <1>1, BusyNodesPendingHolds, PTL



=============================================================================
