-------------------------- MODULE TopologicalOrder --------------------------
(***************************************************************************)
(* What a topological sort of a growing graph promises, without saying how *)
(* it is computed: vertices are placed one at a time, each after all of    *)
(* its parents, and the sort ends only when no vertex can be placed.       *)
(***************************************************************************)
EXTENDS Sequences, Integers

CONSTANT Hashes  \* names of vertices

VARIABLES
    present,  \* the vertices of the graph
    parents,  \* Hashes -> set of parents
    order,    \* the vertices the sort under way has placed
    sorting   \* whether a sort is under way

orderVars == <<present, parents, order, sorting>>

Placed == {order[i] : i \in DOMAIN order}

Placeable(v) ==
    /\ v \in present
    /\ v \notin Placed
    /\ parents[v] \subseteq Placed

OrderInit ==
    /\ present = {}
    /\ parents = [h \in Hashes |-> {}]
    /\ order = <<>>
    /\ sorting = FALSE

\* The graph does not change under a sort.
Insert(v, ps) ==
    /\ ~sorting
    /\ present' = present \cup {v}
    /\ parents' = [parents EXCEPT ![v] = ps]
    /\ UNCHANGED <<order, sorting>>

Begin ==
    /\ ~sorting
    /\ sorting' = TRUE
    /\ UNCHANGED <<present, parents, order>>

Place(v) ==
    /\ sorting
    /\ Placeable(v)
    /\ order' = Append(order, v)
    /\ UNCHANGED <<present, parents, sorting>>

\* The order is returned.
End ==
    /\ sorting
    /\ \A v \in Hashes : ~Placeable(v)
    /\ sorting' = FALSE
    /\ order' = <<>>
    /\ UNCHANGED <<present, parents>>

OrderNext ==
    \/ \E v \in Hashes : Place(v) \/ \E ps \in SUBSET Hashes : Insert(v, ps)
    \/ Begin \/ End

OrderSpec == OrderInit /\ [][OrderNext]_orderVars
=============================================================================
