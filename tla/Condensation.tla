---------------------------- MODULE Condensation ----------------------------
(***************************************************************************)
(* What finalize expects of tarjanSccs: the strongly connected components  *)
(* of the import graph, each once, and none before one that it imports     *)
(* from ("reverse-topological, leaves first").                             *)
(***************************************************************************)
EXTENDS Sequences

CONSTANT Nodes     \* files

VARIABLES
  graph,     \* the files that each file imports
  order      \* the components given out so far

\* v is in every set of files that has u and all that its members import.
Closed(C) == \A n \in C : graph[n] \subseteq C

Reaches(u, v) == \A C \in SUBSET Nodes : u \in C /\ Closed(C) => v \in C

Component(S) ==
  /\ S # {}
  /\ \A u \in S : S = {v \in Nodes : Reaches(u, v) /\ Reaches(v, u)}

Given == UNION {order[i] : i \in DOMAIN order}

Init == graph \in [Nodes -> SUBSET Nodes] /\ order = << >>

Give(S) ==
  /\ order' = Append(order, S)
  /\ Component(S) /\ S \cap Given = {}
  /\ \A n \in S : graph[n] \subseteq S \cup Given
  /\ UNCHANGED graph

Next == \E S \in SUBSET Nodes : Give(S)

Spec == Init /\ [][Next]_<<graph, order>>
=============================================================================
