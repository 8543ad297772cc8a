------------------------------ MODULE Registry ------------------------------
(***************************************************************************)
(* TestSequencer::RegisterNode (src/distbench_test_sequencer.cc): the     *)
(* node_id_map_ from a registration's DebugString to a node id, and the   *)
(* node_map_ from alias node<id> to the Node holding that registration    *)
(* and its stub.  The handler runs entirely under the exclusive mutex_,   *)
(* so each call is one step.  A registration is a model value standing    *)
(* for its DebugString; a request with an empty hostname or a             *)
(* non-positive port returns INVALID_ARGUMENT before touching any state   *)
(* and is not modelled.  An alias node<id> is represented by id.          *)
(***************************************************************************)
EXTENDS Integers, FiniteSets

CONSTANTS
    Registrations   \* distinct valid NodeRegistration payloads

ASSUME RegistryAssumption == IsFiniteSet(Registrations)

VARIABLES
    nodeIdMap,   \* node_id_map_: registration -> node id
    nodeMap,     \* node_map_: alias (its id) -> registration of the Node
    alias        \* history: the alias last returned to each registration

vars == <<nodeIdMap, nodeMap, alias>>

NoAlias == -1

Init ==
    /\ nodeIdMap = [r \in {} |-> 0]
    /\ nodeMap = [a \in {} |-> CHOOSE r \in Registrations : TRUE]
    /\ alias = [r \in Registrations |-> NoAlias]

\* Mutant: the lookup in node_id_map_ is dropped; every call takes a fresh id.
NodeIdAlwaysFresh(r) == Cardinality(DOMAIN nodeMap)

\* Mutant: a fresh id is taken from the size of node_id_map_.
NodeIdFromIdMap(r) ==
    IF r \in DOMAIN nodeIdMap THEN nodeIdMap[r]
                              ELSE Cardinality(DOMAIN nodeIdMap)

\* Mutant: a fresh id is the index of the last Node, size() - 1.
NodeIdOffByOne(r) ==
    IF r \in DOMAIN nodeIdMap THEN nodeIdMap[r]
                              ELSE Cardinality(DOMAIN nodeMap) - 1

\* The id RegisterNode allocates: the registration's recorded id if its
\* payload was seen before, otherwise node_map_.size().
NodeId(r) ==
    IF r \in DOMAIN nodeIdMap THEN nodeIdMap[r]
                              ELSE Cardinality(DOMAIN nodeMap)

\* f with x mapped to y (an insert or a replace).
Put(f, x, y) == [z \in DOMAIN f \cup {x} |-> IF z = x THEN y ELSE f[z]]

\* Mutant: a failed stub creation erases the Node the alias held.
RegisterNodeEraseOnFailure(r) ==
    LET id == NodeId(r) IN
    /\ nodeIdMap' = Put(nodeIdMap, r, id)
    /\ \E stubCreated \in BOOLEAN :
         IF stubCreated
           THEN /\ nodeMap' = Put(nodeMap, id, r)
                /\ alias' = [alias EXCEPT ![r] = id]
           ELSE /\ nodeMap' = [z \in DOMAIN nodeMap \ {id} |-> nodeMap[z]]
                /\ UNCHANGED alias

\* RegisterNode(r): the id is allocated and recorded in node_id_map_ before
\* the stub is built; if NewStub returns null the call returns UNKNOWN,
\* otherwise node_map_[node<id>] is inserted or replaced and the alias is
\* returned.
RegisterNode(r) ==
    LET id == NodeId(r) IN
    /\ nodeIdMap' = Put(nodeIdMap, r, id)
    /\ \E stubCreated \in BOOLEAN :
         IF stubCreated
           THEN /\ nodeMap' = Put(nodeMap, id, r)
                /\ alias' = [alias EXCEPT ![r] = id]
           ELSE UNCHANGED <<nodeMap, alias>>

Next == \E r \in Registrations : RegisterNode(r)

Spec == Init /\ [][Next]_vars

-----------------------------------------------------------------------------

\* Every variable holds a value of its type.
TypeOK ==
    /\ DOMAIN nodeIdMap \subseteq Registrations
    /\ nodeIdMap \in [DOMAIN nodeIdMap -> Nat]
    /\ DOMAIN nodeMap \subseteq Nat
    /\ nodeMap \in [DOMAIN nodeMap -> Registrations]
    /\ alias \in [Registrations -> Nat \cup {NoAlias}]

\* The aliases in node_map_ are node0 .. node<k-1>, so node_map_.size() is
\* always an alias no Node holds yet, whatever stub creations failed in
\* between: a new registration never replaces another's Node.
DenseAliases ==
    DOMAIN nodeMap = 0..Cardinality(DOMAIN nodeMap) - 1

\* The inductive form of DenseAliases: node_map_ is finite and dense, and
\* every id recorded in node_id_map_ is at most node_map_.size(), so that
\* a stub created later for that id either replaces a Node or appends the
\* next alias, never leaving a gap.
RInv ==
    /\ TypeOK
    /\ IsFiniteSet(DOMAIN nodeMap)
    /\ DenseAliases
    /\ \A r \in DOMAIN nodeIdMap :
          nodeIdMap[r] \in 0..Cardinality(DOMAIN nodeMap)

\* A step keeps every id recorded in node_id_map_ and every alias of
\* node_map_.
IdsKept ==
    /\ \A r \in DOMAIN nodeIdMap :
          r \in DOMAIN nodeIdMap' /\ nodeIdMap'[r] = nodeIdMap[r]
    /\ DOMAIN nodeMap \subseteq DOMAIN nodeMap'

\* RegisterNode never forgets or changes an id it recorded in node_id_map_,
\* so a node manager that registers again is told its old alias, and
\* node_map_ never loses an alias, so a lookup of an alias taken from an
\* earlier snapshot (the QCHECK in ConfigureNodes) always finds a Node.
IdsStable == [][IdsKept]_vars

\* The spec: aliases are unique, and a repeated registration never leaks a
\* new id, so two different node managers that were both told an alias
\* were told different ones, and node_map_ holds the registration of
\* each.  A failed stub creation leaves its id recorded in node_id_map_
\* while node_map_.size() stays the same, so the next new registration is
\* handed the same id.
AliasesDistinct ==
    \A r \in Registrations :
        alias[r] # NoAlias => nodeMap[alias[r]] = r

-----------------------------------------------------------------------------

\* node_map_ read as the list of its Nodes in alias order.
NodeSeq == [i \in 1..Cardinality(DOMAIN nodeMap) |-> nodeMap[i - 1]]

List == INSTANCE NodeList WITH nodes <- NodeSeq

\* RegisterNode implements NodeList: each call that creates a stub either
\* appends node<size> or replaces an existing Node, and a failed stub
\* creation leaves the list alone, whatever node_id_map_ recorded.
ImplementsNodeList == List!Spec


=============================================================================
