------------------------------- MODULE Placer -------------------------------
(***************************************************************************)
(* The service placement of TestSequencer::DoRunTest                       *)
(* (src/distbench_test_sequencer.cc, lines 163-233) as a pure function of  *)
(* the test description and the registered node aliases.                   *)
(*                                                                         *)
(* Strings are sequences of character codes, so that the std::set          *)
(* iteration order the algorithm relies on is std::string's: "node10"      *)
(* sorts before "node2" and "A/10" before "A/2".  An alias is              *)
(* StrCat("node", id), a service instance StrCat(server_type, "/", i).     *)
(* The error messages are left out except for the list of services that   *)
(* found no idle node, which is kept as the sequence of their names.       *)
(***************************************************************************)
EXTENDS Naturals, Sequences, FiniteSets

CONSTANTS
    NumNodes,   \* size of node_map_ when DoRunTest takes its snapshot
    Tests       \* the test descriptions the placement is applied to

ASSUME PlacerAssumption == NumNodes \in Nat

\* The test description whose placement is examined.
VARIABLE test

\* absl::StrCat of a non-negative int: its decimal digits.
RECURSIVE Decimal(_)
Decimal(n) == IF n < 10 THEN <<48 + n>>
                        ELSE Decimal(n \div 10) \o <<48 + (n % 10)>>

\* absl::StrCat("node", node_id) (RegisterNode).
Alias(k) == <<110, 111, 100, 101>> \o Decimal(k)

\* absl::StrCat(server_type, "/", i).
Instance(type, i) == type \o <<47>> \o Decimal(i)

\* Mutant: aliases and names compared shortest-first, as numbers would be.
ShortLexLess(s, t) ==
    \/ Len(s) < Len(t)
    \/ /\ Len(s) = Len(t)
       /\ \E i \in 1..Len(s) : s[i] < t[i] /\ \A j \in 1..i-1 : s[j] = t[j]

\* std::string's operator<: lexicographic on characters, a proper prefix
\* first.
RECURSIVE StrLess(_, _)
StrLess(s, t) ==
    IF t = <<>> THEN FALSE
    ELSE IF s = <<>> THEN TRUE
    ELSE IF Head(s) # Head(t) THEN Head(s) < Head(t)
    ELSE StrLess(Tail(s), Tail(t))

\* *set.begin() of a non-empty std::set<std::string>.
StrMin(S) == CHOOSE x \in S : \A y \in S \ {x} : StrLess(x, y)

\* The aliases in node_map_, copied into idle_nodes (lines 167-173).
Registered == {Alias(k) : k \in 0..NumNodes - 1}

\* unplaced_services: every instance of every service (lines 175-181).
Instances(t) ==
    UNION {{Instance(t.services[j].type, i) : i \in 0..t.services[j].count - 1}
            : j \in DOMAIN t.services}

\* node_service_map[a].insert(s).
AddService(m, a, s) ==
    [x \in DOMAIN m \cup {a} |->
        IF x = a THEN (IF a \in DOMAIN m THEN m[a] ELSE {}) \cup {s} ELSE m[x]]

\* The services of one bundle (lines 185-194): each must still be
\* unplaced; it is pinned to the bundle's node.
RECURSIVE PlaceList(_, _, _)
PlaceList(st, a, list) ==
    IF list = <<>> THEN st
    ELSE IF Head(list) \notin st.unplaced THEN [st EXCEPT !.err = TRUE]
    ELSE PlaceList([st EXCEPT !.unplaced = @ \ {Head(list)},
                              !.nsm = AddService(@, a, Head(list))],
                   a, Tail(list))

\* Mutant: a bundle's node is not looked up in idle_nodes.
PlaceBundleNoNodeCheck(st, a, list) ==
    LET s2 == PlaceList(st, a, list) IN
    IF s2.err THEN s2 ELSE [s2 EXCEPT !.idle = @ \ {a}]

\* One entry of node_service_bundles (lines 184-202): its services, then
\* its node, which must be in idle_nodes and leaves it.
PlaceBundle(st, a, list) ==
    LET s2 == PlaceList(st, a, list) IN
    IF s2.err THEN s2
    ELSE IF a \notin s2.idle THEN [s2 EXCEPT !.err = TRUE]
    ELSE [s2 EXCEPT !.idle = @ \ {a}]

\* The loop over the protobuf map, in the order of the keys in ks, stopping
\* at the first error.
RECURSIVE PlaceBundles(_, _, _)
PlaceBundles(st, bundles, ks) ==
    IF ks = {} \/ st.err THEN st
    ELSE LET a == StrMin(ks) IN
         PlaceBundles(PlaceBundle(st, a, bundles[a]), bundles, ks \ {a})

\* Mutant: auto-placement gives up at the first service without a node.
RECURSIVE AutoPlaceFailFast(_, _)
AutoPlaceFailFast(st, failures) ==
    IF st.unplaced = {} THEN [st EXCEPT !.failures = failures]
    ELSE LET s == StrMin(st.unplaced) IN
         IF st.idle = {}
           THEN [st EXCEPT !.failures = Append(failures, s)]
           ELSE LET a == StrMin(st.idle) IN
                AutoPlaceFailFast([st EXCEPT !.unplaced = @ \ {s},
                                             !.idle = @ \ {a},
                                             !.nsm = AddService(@, a, s)],
                                  failures)

\* Auto-placement (lines 211-224): in sorted order, each unplaced service
\* takes the first idle node; once none is left, its name joins failures.
RECURSIVE AutoPlace(_, _)
AutoPlace(st, failures) ==
    IF st.unplaced = {} THEN [st EXCEPT !.failures = failures]
    ELSE LET s == StrMin(st.unplaced) IN
         IF st.idle = {}
           THEN AutoPlace([st EXCEPT !.unplaced = @ \ {s}],
                          Append(failures, s))
           ELSE LET a == StrMin(st.idle) IN
                AutoPlace([st EXCEPT !.unplaced = @ \ {s},
                                     !.idle = @ \ {a},
                                     !.nsm = AddService(@, a, s)],
                          failures)

\* DoRunTest's placement: INVALID_ARGUMENT without services, NOT_FOUND on a
\* bad bundle or when services are left over, otherwise node_service_map
\* with every node still idle given an empty service set (lines 231-233).
Place(t) ==
    LET st0 == [err |-> FALSE, unplaced |-> Instances(t),
                idle |-> Registered, nsm |-> [x \in {} |-> {}],
                failures |-> <<>>]
        st1 == PlaceBundles(st0, t.bundles, DOMAIN t.bundles)
        st2 == AutoPlace(st1, <<>>)
    IN  IF t.services = <<>>
          THEN [status |-> "INVALID_ARGUMENT", failures |-> <<>>]
        ELSE IF st1.err
          THEN [status |-> "NOT_FOUND", failures |-> <<>>]
        ELSE IF st2.failures # <<>>
          THEN [status |-> "NOT_FOUND", failures |-> st2.failures]
        ELSE [status |-> "OK", failures |-> <<>>,
              placement |-> [a \in DOMAIN st2.nsm \cup st2.idle |->
                               IF a \in DOMAIN st2.nsm THEN st2.nsm[a] ELSE {}]]


\* Any description of Tests; placement does not change it.
Init == test \in Tests

Next == UNCHANGED test

Spec == Init /\ [][Next]_test

-----------------------------------------------------------------------------
(* A reference for the placement, stated without the algorithm.            *)

\* std::string order, stated directly: at the first difference the smaller
\* character wins; a proper prefix comes first.
RefLess(s, t) ==
    \/ \E i \in 1..Len(s) :
          /\ i <= Len(t) /\ s[i] < t[i]
          /\ \A j \in 1..i-1 : s[j] = t[j]
    \/ Len(s) < Len(t) /\ s = SubSeq(t, 1, Len(s))

\* The (node, service) pairs of node_service_bundles.
Pinned(t) == UNION {{<<a, t.bundles[a][i]>> : i \in DOMAIN t.bundles[a]}
                    : a \in DOMAIN t.bundles}

PinnedNames(t) == {p[2] : p \in Pinned(t)}

\* Every pinned name is an instance of the test, named once overall.
BundlesWellFormed(t) ==
    /\ PinnedNames(t) \subseteq Instances(t)
    /\ \A a, b \in DOMAIN t.bundles :
          \A i \in DOMAIN t.bundles[a], j \in DOMAIN t.bundles[b] :
             t.bundles[a][i] = t.bundles[b][j] => a = b /\ i = j

\* Nodes that no bundle names.
Free(t) == Registered \ DOMAIN t.bundles

\* Instances no bundle names.
Floating(t) == Instances(t) \ PinnedNames(t)

\* The test is placeable: it has services, its bundles are well formed and
\* name registered nodes, and every other instance can get a node of its own.
Feasible(t) ==
    /\ t.services # <<>>
    /\ BundlesWellFormed(t)
    /\ DOMAIN t.bundles \subseteq Registered
    /\ Cardinality(Floating(t)) <= Cardinality(Free(t))

\* A placement of t: pinned services on their nodes, every instance on
\* exactly one node, at most one service on a node no bundle names, and
\* every registered node present except those of empty bundles.
ValidPlacement(t, p) ==
    /\ DOMAIN p = Registered \ {a \in DOMAIN t.bundles : t.bundles[a] = <<>>}
    /\ \A a \in DOMAIN p : p[a] \subseteq Instances(t)
    /\ \A s \in Instances(t) : \E a \in DOMAIN p :
          /\ s \in p[a]
          /\ \A b \in DOMAIN p \ {a} : s \notin p[b]
    /\ \A q \in Pinned(t) : q[2] \in p[q[1]]
    /\ \A a \in Free(t) : Cardinality(p[a]) <= 1

-----------------------------------------------------------------------------

\* DoRunTest's placement accepts exactly the placeable tests, rejects an
\* empty service list with INVALID_ARGUMENT, and what it returns is a
\* placement of the test: the bundle checks and the auto-placement loop
\* together neither lose, duplicate nor misplace a service instance.
PlacementSound ==
    LET r == Place(test) IN
    /\ (r.status = "INVALID_ARGUMENT") = (test.services = <<>>)
    /\ (r.status = "OK") = Feasible(test)
    /\ r.status = "OK" => ValidPlacement(test, r.placement)

\* The spec's ordering guarantee for auto-placement, in std::string
\* order: the nodes used are the smallest free aliases ("node10" before
\* "node2"), and a smaller instance name gets a smaller alias.
AutoPlacementSorted ==
    LET r == Place(test) IN
    r.status = "OK" =>
        LET Used == {a \in Free(test) : r.placement[a] # {}}
            Svc(a) == CHOOSE s \in r.placement[a] : TRUE
        IN  /\ \A a \in Used, b \in Free(test) \ Used : RefLess(a, b)
            /\ \A a, b \in Used : RefLess(a, b) => RefLess(Svc(a), Svc(b))

\* When auto-placement runs out of idle nodes, the NOT_FOUND status lists
\* exactly the instances left without a node (spec: "listing exactly the
\* unplaced names"), each once, in sorted order, and these are the
\* largest of the floating instances.
FailuresExact ==
    LET r == Place(test)
        F == {r.failures[i] : i \in DOMAIN r.failures}
    IN  /\ (r.failures # <<>>) =
              /\ test.services # <<>>
              /\ BundlesWellFormed(test)
              /\ DOMAIN test.bundles \subseteq Registered
              /\ Cardinality(Floating(test)) > Cardinality(Free(test))
        /\ r.failures # <<>> =>
              /\ F \subseteq Floating(test)
              /\ Len(r.failures)
                    = Cardinality(Floating(test)) - Cardinality(Free(test))
              /\ \A i, j \in DOMAIN r.failures :
                    i < j => RefLess(r.failures[i], r.failures[j])
              /\ \A s \in F, u \in Floating(test) \ F : RefLess(u, s)

=============================================================================
