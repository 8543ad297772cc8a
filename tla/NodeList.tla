------------------------------ MODULE NodeList ------------------------------
(***************************************************************************)
(* What node_map_ of src/distbench_test_sequencer.cc promises the rest of *)
(* the sequencer: the registered Nodes form a list addressed node0,       *)
(* node1, ...; a registration either adds a Node at the end or replaces  *)
(* the Node at an existing position, and no position is ever removed or   *)
(* skipped.  Registry implements this specification (ImplementsNodeList). *)
(***************************************************************************)
EXTENDS Naturals, Sequences

CONSTANT Registrations   \* the payloads a Node can hold

VARIABLE nodes           \* nodes[i] is the Node with alias node<i-1>

Init == nodes = <<>>

\* A new Node takes the next alias.
Add(r) == nodes' = Append(nodes, r)

\* The Node at an existing alias is replaced.
Replace(i, r) ==
    /\ i \in 1..Len(nodes)
    /\ nodes' = [nodes EXCEPT ![i] = r]

Next == \E r \in Registrations : Add(r) \/ \E i \in 1..Len(nodes) : Replace(i, r)

Spec == Init /\ [][Next]_nodes

=============================================================================
