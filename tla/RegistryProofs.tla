--------------------------- MODULE RegistryProofs ---------------------------
(***************************************************************************)
(* TLAPS proofs for Registry: RegisterNode keeps node_map_'s aliases       *)
(* dense for every finite set of registration payloads.  DenseAliases is   *)
(* not inductive by itself: a registration whose stub creation failed has  *)
(* recorded an id in node_id_map_, and a later successful call inserts     *)
(* node_map_[node<id>] with that id, so the proof also needs every         *)
(* recorded id to be at most node_map_.size() (RInv).                      *)
(***************************************************************************)
EXTENDS Registry, Sequences, FiniteSetTheorems, TLAPS

\* The interval 0..n-1 is finite and has n elements.
LEMMA IntervalCard ==
    ASSUME NEW n \in Nat
    PROVE  IsFiniteSet(0..n-1) /\ Cardinality(0..n-1) = n
  BY FS_Interval

\* The initial state satisfies RInv.
LEMMA InitRInv == Init => RInv
  <1> SUFFICES ASSUME Init PROVE RInv
    OBVIOUS
  <1>1. DOMAIN nodeMap = {} /\ DOMAIN nodeIdMap = {}
    BY DEF Init
  <1>2. IsFiniteSet(DOMAIN nodeMap) /\ Cardinality(DOMAIN nodeMap) = 0
    BY <1>1, FS_EmptySet
  <1>3. 0..Cardinality(DOMAIN nodeMap) - 1 = {}
    BY <1>2
  <1>4. TypeOK
    BY <1>1 DEF Init, TypeOK, NoAlias
  <1>5. QED
    BY <1>1, <1>2, <1>3, <1>4 DEF RInv, DenseAliases

\* Every RegisterNode step, with or without a stub, preserves RInv.
LEMMA NextRInv == RInv /\ [Next]_vars => RInv'
  <1> SUFFICES ASSUME RInv, [Next]_vars PROVE RInv'
    OBVIOUS
  <1> DEFINE n == Cardinality(DOMAIN nodeMap)
  <1>1. n \in Nat /\ DOMAIN nodeMap = 0..n-1
    BY FS_CardinalityType DEF RInv, DenseAliases
  <1>2. CASE UNCHANGED vars
    BY <1>2 DEF vars, RInv, DenseAliases, TypeOK
  <1>3. ASSUME NEW r \in Registrations, RegisterNode(r) PROVE RInv'
    <2> DEFINE id == NodeId(r)
    <2>1. id \in 0..n
      BY <1>1 DEF NodeId, RInv
    <2>2. nodeIdMap' = Put(nodeIdMap, r, id)
      BY <1>3 DEF RegisterNode
    <2>3. /\ DOMAIN nodeIdMap' \subseteq Registrations
          /\ nodeIdMap' \in [DOMAIN nodeIdMap' -> Nat]
      BY <2>1, <2>2 DEF Put, RInv, TypeOK
    <2>4. CASE nodeMap' = Put(nodeMap, id, r) /\ alias' = [alias EXCEPT ![r] = id]
      <3>0. /\ DOMAIN nodeMap' \subseteq Nat
            /\ nodeMap' \in [DOMAIN nodeMap' -> Registrations]
            /\ alias' \in [Registrations -> Nat \cup {NoAlias}]
        BY <1>1, <2>1, <2>4 DEF Put, RInv, TypeOK
      <3>1. CASE id = n
        <4>1. DOMAIN nodeMap' = 0..(n+1)-1
          BY <1>1, <2>4, <3>1 DEF Put
        <4>2. IsFiniteSet(DOMAIN nodeMap') /\ Cardinality(DOMAIN nodeMap') = n+1
          BY <1>1, <4>1, IntervalCard
        <4>3. TypeOK'
          BY <2>3, <3>0 DEF TypeOK
        <4>4. \A s \in DOMAIN nodeIdMap' : nodeIdMap'[s] \in 0..n+1
          BY <1>1, <2>1, <2>2 DEF Put, RInv
        <4>5. QED
          BY <1>1, <4>1, <4>2, <4>3, <4>4 DEF RInv, DenseAliases
      <3>2. CASE id # n
        <4>0. id \in DOMAIN nodeMap
          BY <1>1, <2>1, <3>2
        <4>1. DOMAIN nodeMap' = DOMAIN nodeMap
          BY <2>4, <4>0 DEF Put
        <4>2. TypeOK'
          BY <2>3, <3>0 DEF TypeOK
        <4>3. \A s \in DOMAIN nodeIdMap' : nodeIdMap'[s] \in 0..n
          BY <1>1, <2>1, <2>2 DEF Put, RInv
        <4>4. QED
          BY <1>1, <4>1, <4>2, <4>3 DEF RInv, DenseAliases
      <3>3. QED
        BY <3>1, <3>2
    <2>5. CASE UNCHANGED <<nodeMap, alias>>
      <3>1. TypeOK'
        BY <2>3, <2>5 DEF RInv, TypeOK
      <3>2. \A s \in DOMAIN nodeIdMap' : nodeIdMap'[s] \in 0..n
        BY <1>1, <2>1, <2>2 DEF Put, RInv
      <3>3. QED
        BY <2>5, <3>1, <3>2 DEF RInv, DenseAliases
    <2>6. QED
      BY <1>3, <2>4, <2>5 DEF RegisterNode
  <1>4. QED
    BY <1>2, <1>3 DEF Next

\* RInv (the invariant of the registry_inductive run) holds in every
\* reachable state: node_map_ is finite and dense and every id recorded in
\* node_id_map_ is at most node_map_.size(), whichever stub creations fail.
THEOREM RInvHolds == Spec => []RInv
  BY InitRInv, NextRInv, PTL DEF Spec

\* The registry's variables always hold values of their types (TypeOK of
\* the registry run): ids are naturals and node_map_ holds registrations.
THEOREM RegistryTypeCorrect == Spec => []TypeOK
  <1>1. RInv => TypeOK
    BY DEF RInv
  <1>2. QED
    BY <1>1, RInvHolds, PTL

\* node_map_ always holds exactly the aliases node0 .. node<k-1> (the
\* DenseAliases invariant of the registry run), for every finite set of
\* registrations: RegisterNode never skips an alias, whichever stub
\* creations fail.
THEOREM DenseAliasesHold == Spec => []DenseAliases
  <1>1. RInv => DenseAliases
    BY DEF RInv
  <1>2. QED
    BY <1>1, RInvHolds, PTL

\* RegisterNode keeps every id it recorded and every alias of node_map_
\* (the IdsStable property of the registry run), for every finite set of
\* registrations: Put only adds or overwrites an entry, and the id it
\* records for a known registration is the one node_id_map_ holds.
THEOREM IdsStableHolds == Spec => IdsStable
  <1>1. ASSUME NEW r \in Registrations, RegisterNode(r) PROVE IdsKept
    BY <1>1 DEF RegisterNode, NodeId, Put, IdsKept
  <1>2. [Next]_vars => [IdsKept]_vars
    BY <1>1 DEF Next
  <1>3. QED
    BY <1>2, PTL DEF Spec, IdsStable



\* Under RInv every step of RegisterNode is a NodeList step on node_map_
\* read as a list, or leaves that list unchanged.
LEMMA NextRefinesList == RInv /\ [Next]_vars => [List!Next]_NodeSeq
  <1> SUFFICES ASSUME RInv, [Next]_vars PROVE [List!Next]_NodeSeq
    OBVIOUS
  <1> DEFINE n == Cardinality(DOMAIN nodeMap)
  <1>1. n \in Nat /\ DOMAIN nodeMap = 0..n-1
    BY FS_CardinalityType DEF RInv, DenseAliases
  <1>2. NodeSeq \in Seq(Registrations) /\ Len(NodeSeq) = n
    BY <1>1 DEF NodeSeq, RInv, TypeOK
  <1>3. CASE UNCHANGED vars
    BY <1>3 DEF vars, NodeSeq
  <1>4. ASSUME NEW r \in Registrations, RegisterNode(r) PROVE [List!Next]_NodeSeq
    <2> DEFINE id == NodeId(r)
    <2>1. id \in 0..n
      BY <1>1 DEF NodeId, RInv
    <2>2. CASE nodeMap' = Put(nodeMap, id, r)
      <3>1. CASE id = n
        <4>1. DOMAIN nodeMap' = 0..(n+1)-1
          BY <1>1, <2>2, <3>1 DEF Put
        <4>2. Cardinality(DOMAIN nodeMap') = n+1
          BY <1>1, <4>1, IntervalCard
        <4>3. NodeSeq' = Append(NodeSeq, r)
          <5>1. NodeSeq' = [i \in 1..n+1 |-> IF i = n+1 THEN r ELSE nodeMap[i-1]]
            <6>1. NodeSeq' = [i \in 1..n+1 |-> nodeMap'[i-1]]
              BY <4>2 DEF NodeSeq
            <6>2. \A i \in 1..n+1 : nodeMap'[i-1] = IF i = n+1 THEN r ELSE nodeMap[i-1]
              BY <1>1, <2>2, <3>1 DEF Put
            <6>3. QED
              BY <6>1, <6>2
          <5>2. Append(NodeSeq, r)
                  = [i \in 1..n+1 |-> IF i = n+1 THEN r ELSE nodeMap[i-1]]
            BY <1>1, <1>2 DEF NodeSeq
          <5>3. QED
            BY <5>1, <5>2
        <4>4. QED
          BY <4>3 DEF List!Next, List!Add
      <3>2. CASE id # n
        <4>1. id \in DOMAIN nodeMap
          BY <1>1, <2>1, <3>2
        <4>2. DOMAIN nodeMap' = DOMAIN nodeMap
          BY <2>2, <4>1 DEF Put
        <4>3. NodeSeq' = [NodeSeq EXCEPT ![id + 1] = r]
          <5>1. NodeSeq' = [i \in 1..n |-> IF i = id+1 THEN r ELSE nodeMap[i-1]]
            <6>1. NodeSeq' = [i \in 1..n |-> nodeMap'[i-1]]
              BY <4>2 DEF NodeSeq
            <6>2. \A i \in 1..n : nodeMap'[i-1] = IF i = id+1 THEN r ELSE nodeMap[i-1]
              BY <1>1, <2>2, <4>1 DEF Put
            <6>3. QED
              BY <6>1, <6>2
          <5>2. [NodeSeq EXCEPT ![id + 1] = r]
                  = [i \in 1..n |-> IF i = id+1 THEN r ELSE nodeMap[i-1]]
            BY <1>1, <4>1 DEF NodeSeq
          <5>3. QED
            BY <5>1, <5>2
        <4>4. id + 1 \in 1..Len(NodeSeq)
          BY <1>1, <1>2, <4>1
        <4>5. QED
          BY <4>3, <4>4 DEF List!Next, List!Replace
      <3>3. QED
        BY <3>1, <3>2
    <2>3. CASE UNCHANGED <<nodeMap, alias>>
      BY <2>3 DEF NodeSeq
    <2>4. QED
      BY <1>4, <2>2, <2>3 DEF RegisterNode
  <1>5. QED
    BY <1>3, <1>4 DEF Next

\* RegisterNode implements NodeList (the ImplementsNodeList property of the
\* registry_refinement run), for every finite set of registrations:
\* node_map_ only ever gains the next alias or has a Node replaced, however
\* repeated registrations and failed stub creations interleave.
THEOREM RegistryRefinement == Spec => ImplementsNodeList
  <1>1. Init => List!Init
    <2> SUFFICES ASSUME Init PROVE NodeSeq = <<>>
      BY DEF List!Init
    <2>1. Cardinality(DOMAIN nodeMap) = 0
      BY FS_EmptySet DEF Init
    <2>2. QED
      BY <2>1 DEF NodeSeq
  <1>2. QED
    BY <1>1, RInvHolds, NextRefinesList, PTL DEF Spec, ImplementsNodeList, List!Spec

=============================================================================
