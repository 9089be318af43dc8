----------------------------- MODULE DagOrdering -----------------------------
(***************************************************************************)
(* The DAG of transactions and blocks (src/src/consensus/mod.rs,           *)
(* DagOrdering): two maps, each behind a lock of its own, Kahn's algorithm *)
(* over one of them and a search for ancestors over the other.             *)
(*                                                                         *)
(* add_vertex takes the two locks one after the other and is two actions.  *)
(* topological_sort keeps both read locks to its end, get_ancestors that   *)
(* of the edges; one iteration of their loops is one action.  Readers only *)
(* read what they share, so one of them at a time is enough.  A HashMap    *)
(* yields its entries in any order.                                        *)
(***************************************************************************)
EXTENDS Integers, Sequences, FiniteSets

CONSTANTS
    Inserters,      \* callers of add_vertex
    Hashes,       \* hashes of vertices
    ParentLists,  \* values of DagVertex.parents
    MaxInserts,   \* bound: calls of add_vertex
    NoEntry       \* None: no entry

ASSUME ParentListsAssumption == ParentLists \subseteq Seq(Hashes)
ASSUME NoEntryAssumption == NoEntry \notin ParentLists \cup Hashes \cup [hash : Hashes, list : ParentLists]
ASSUME HashesAssumption == IsFiniteSet(Hashes) /\ MaxInserts \in Nat

VARIABLES
    vertices,   \* Hashes -> list of parents, or NoEntry
    edges,      \* the same, written later
    inserting,  \* Threads -> [hash, list] between the statements of add_vertex, or NoEntry
    inserts,    \* number of calls of add_vertex
    sorting,    \* topological_sort is under way
    in_degree,  \* its counters
    queue,      \* its queue
    result,     \* what it returns
    start,      \* the argument of the get_ancestors under way, or NoEntry
    stack,      \* its stack
    ancestors,  \* what it returns; also the keys of visited
    raced       \* history: hashes inserted by two overlapping calls

sortVars == <<sorting, in_degree, queue, result>>
walkVars == <<start, stack, ancestors>>
insertVars == <<vertices, edges, inserting, inserts, raced>>
dagVars == <<insertVars, sortVars, walkVars>>

Elements(s) == {s[i] : i \in DOMAIN s}

DagInit ==
    /\ vertices = [h \in Hashes |-> NoEntry]
    /\ edges = [h \in Hashes |-> NoEntry]
    /\ inserting = [t \in Inserters |-> NoEntry]
    /\ inserts = 0
    /\ sorting = FALSE
    /\ in_degree = [h \in Hashes |-> 0] /\ queue = <<>> /\ result = <<>>
    /\ start = NoEntry /\ stack = <<>> /\ ancestors = <<>>
    /\ raced = {}

-----------------------------------------------------------------------------
(* add_vertex                                                              *)

\* Fault: the lock of the vertices is not waited for.
InsertUnderSort(t, h, list) ==
    /\ inserting[t] = NoEntry /\ inserts < MaxInserts
    /\ vertices' = [vertices EXCEPT ![h] = list]
    /\ inserting' = [inserting EXCEPT ![t] = [hash |-> h, list |-> list]]
    /\ inserts' = inserts + 1
    /\ raced' = IF \E u \in Inserters : inserting[u] # NoEntry /\ inserting[u].hash = h
                THEN raced \cup {h} ELSE raced
    /\ UNCHANGED <<edges, sortVars, walkVars>>

InsertVertex(t, h, list) ==
    /\ inserting[t] = NoEntry /\ inserts < MaxInserts
    /\ ~sorting
    /\ vertices' = [vertices EXCEPT ![h] = list]
    /\ inserting' = [inserting EXCEPT ![t] = [hash |-> h, list |-> list]]
    /\ inserts' = inserts + 1
    /\ raced' = IF \E u \in Inserters : inserting[u] # NoEntry /\ inserting[u].hash = h
                THEN raced \cup {h} ELSE raced
    /\ UNCHANGED <<edges, sortVars, walkVars>>

\* Fault: the entry of a hash that is there already is kept.
InsertEdgesOnce(t) ==
    /\ inserting[t] # NoEntry
    /\ ~sorting /\ start = NoEntry
    /\ edges' = IF edges[inserting[t].hash] # NoEntry THEN edges
                ELSE [edges EXCEPT ![inserting[t].hash] = inserting[t].list]
    /\ inserting' = [inserting EXCEPT ![t] = NoEntry]
    /\ UNCHANGED <<vertices, inserts, raced, sortVars, walkVars>>

InsertEdges(t) ==
    /\ inserting[t] # NoEntry
    /\ ~sorting /\ start = NoEntry
    /\ edges' = [edges EXCEPT ![inserting[t].hash] = inserting[t].list]
    /\ inserting' = [inserting EXCEPT ![t] = NoEntry]
    /\ UNCHANGED <<vertices, inserts, raced, sortVars, walkVars>>

-----------------------------------------------------------------------------
(* topological_sort                                                        *)

\* The ways to list a set.
Listings(S) == {s \in [1..Cardinality(S) -> S] : \A i, j \in DOMAIN s : s[i] = s[j] => i = j}

Present == {h \in Hashes : vertices[h] # NoEntry}

\* Fault: the same parent listed twice is counted once.
DegreeOfSet(h) == IF vertices[h] = NoEntry THEN 0 ELSE Cardinality(Elements(vertices[h]))

\* A parent counts as often as it is listed, whether it is present or not.
Degree(h) == IF vertices[h] = NoEntry THEN 0 ELSE Len(vertices[h])

BeginSort ==
    /\ ~sorting /\ start = NoEntry
    /\ sorting' = TRUE
    /\ in_degree' = [h \in Hashes |-> Degree(h)]
    /\ queue' \in Listings({h \in Present : in_degree'[h] = 0})
    /\ UNCHANGED <<insertVars, result, walkVars>>

\* How often p is a parent of h: h is that often in adj[p].
Multiplicity(h, p) ==
    IF vertices[h] = NoEntry THEN 0
    ELSE Cardinality({i \in DOMAIN vertices[h] : vertices[h][i] = p})

VisitNext ==
    /\ sorting
    /\ queue # <<>>
    /\ result' = Append(result, Head(queue))
    /\ in_degree' = [h \in Hashes |-> in_degree[h] - Multiplicity(h, Head(queue))]
    /\ \E ready \in Listings({h \in Hashes : in_degree'[h] = 0 /\ in_degree[h] # 0}) :
           queue' = Tail(queue) \o ready
    /\ UNCHANGED <<insertVars, sorting, walkVars>>

\* The order is returned and the locals are gone.
EndSort ==
    /\ sorting
    /\ queue = <<>>
    /\ sorting' = FALSE
    /\ in_degree' = [h \in Hashes |-> 0]
    /\ result' = <<>>
    /\ UNCHANGED <<insertVars, queue, walkVars>>

-----------------------------------------------------------------------------
(* get_ancestors                                                           *)

BeginWalk(h) ==
    /\ ~sorting /\ start = NoEntry
    /\ start' = h
    /\ stack' = <<h>>
    /\ UNCHANGED <<insertVars, ancestors, sortVars>>

Top == stack[Len(stack)]
Popped == SubSeq(stack, 1, Len(stack) - 1)

\* Fault: only the last parent is pushed.
PushLast(h) ==
    IF edges[h] = NoEntry \/ edges[h] = <<>> THEN Popped ELSE Append(Popped, edges[h][Len(edges[h])])

PushParents(h) == IF edges[h] = NoEntry THEN Popped ELSE Popped \o edges[h]

WalkNext ==
    /\ start # NoEntry
    /\ stack # <<>>
    /\ IF Top \in Elements(ancestors)
       THEN /\ stack' = Popped
            /\ UNCHANGED ancestors
       ELSE /\ stack' = PushParents(Top)
            /\ ancestors' = Append(ancestors, Top)
    /\ UNCHANGED <<insertVars, sortVars, start>>

EndWalk ==
    /\ start # NoEntry
    /\ stack = <<>>
    /\ start' = NoEntry
    /\ ancestors' = <<>>
    /\ UNCHANGED <<insertVars, sortVars, stack>>

-----------------------------------------------------------------------------
DagNext ==
    \/ \E t \in Inserters : \/ \E h \in Hashes, list \in ParentLists : InsertVertex(t, h, list)
                            \/ InsertEdges(t)
    \/ BeginSort \/ VisitNext \/ EndSort
    \/ \E h \in Hashes : BeginWalk(h)
    \/ WalkNext \/ EndWalk

DagSpec == DagInit /\ [][DagNext]_dagVars

-----------------------------------------------------------------------------
(* Properties                                                              *)

\* Type invariant: no counter of the sort goes below zero, although a parent
\* may be listed twice, be missing or be added later.
DagTypeOK ==
    /\ vertices \in [Hashes -> ParentLists \cup {NoEntry}]
    /\ edges \in [Hashes -> ParentLists \cup {NoEntry}]
    /\ inserting \in [Inserters -> [hash : Hashes, list : ParentLists] \cup {NoEntry}]
    /\ inserts \in 0..MaxInserts
    /\ sorting \in BOOLEAN
    /\ in_degree \in [Hashes -> Nat]
    /\ queue \in Seq(Hashes) /\ result \in Seq(Hashes)
    /\ start \in Hashes \cup {NoEntry}
    /\ stack \in Seq(Hashes) /\ ancestors \in Seq(Hashes)
    /\ raced \subseteq Hashes

Abstract == INSTANCE TopologicalOrder WITH
    present <- Present,
    parents <- [h \in Hashes |-> IF vertices[h] = NoEntry THEN {} ELSE Elements(vertices[h])],
    order <- result

\* Kahn's algorithm with its counters and its queue computes a topological
\* order: every vertex comes once and after all its parents, and what is left
\* out at the end has an ancestor that is missing or lies on a cycle.
SortImplements == Abstract!OrderSpec

\* The least set that holds h and the parents of its members.
Reachable(h) ==
    LET closed == {S \in SUBSET Hashes :
                      h \in S /\ \A x \in S : edges[x] # NoEntry => Elements(edges[x]) \subseteq S}
    IN  {x \in Hashes : \A S \in closed : x \in S}

\* The search from a vertex ends with the vertex and all its ancestors, each
\* once, on cycles and with missing parents too.
AncestorsComplete ==
    start # NoEntry /\ stack = <<>> =>
        /\ Elements(ancestors) = Reachable(start)
        /\ Len(ancestors) = Cardinality(Reachable(start))

\* Both maps describe the same graph when no insertion is between its two
\* statements, unless two insertions of one hash overlapped.
MapsAgree ==
    \A h \in Hashes \ raced :
        (\A t \in Inserters : inserting[t] # NoEntry => inserting[t].hash # h) => vertices[h] = edges[h]
=============================================================================
