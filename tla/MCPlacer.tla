---------------------------- MODULE MCPlacer ----------------------------
(* Placer over a bounded space of test descriptions and eleven nodes, so  *)
(* that node10 is registered and sorts between node1 and node2.           *)
EXTENDS Placer, TLC

\* server_type names "A" and "B".
TypeA == <<65>>
TypeB == <<66>>

MCNumNodes == 11

\* ServiceNodes: a type and an instance count; 12 exceeds the eleven nodes
\* and has the two-digit instance "A/10".
ServiceNodes == [type : {TypeA, TypeB}, count : {0, 1, 3, 12}]

\* services(): at most two entries (a type may repeat).
ServiceLists == {<<>>} \cup {<<x>> : x \in ServiceNodes}
                       \cup {<<x, y>> : x, y \in ServiceNodes}

\* Bundle keys: two registered aliases and one that is not.
BundleKeys == {Alias(1), Alias(10), Alias(11)}

\* Bundle service lists: empty, one name, a two-digit name, two names.
BundleLists == {<<>>, <<Instance(TypeA, 0)>>, <<Instance(TypeA, 10)>>,
                <<Instance(TypeA, 0), Instance(TypeB, 0)>>}

MCTests == [services : ServiceLists,
            bundles : UNION {[K -> BundleLists] : K \in SUBSET BundleKeys}]
=============================================================================
