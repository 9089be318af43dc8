---------------------------- MODULE MCOrdering -----------------------------
(***************************************************************************)
(* The consensus engine and the DAG that orders transactions, for TLC.     *)
(* They share no state in the code and do not call each other, so each     *)
(* behaviour is one of a single part, chosen at the start, while the other *)
(* stays in its initial state.                                             *)
(*                                                                         *)
(* The DAG has three vertices, with lists of parents that are empty,       *)
(* shared, repeated, cyclic or not inserted yet.                           *)
(***************************************************************************)
EXTENDS MCConsensus, DagOrdering

CONSTANTS a, b, c

VARIABLE part   \* the part whose operations this behaviour performs

MCParentLists == {<<>>, <<a>>, <<b>>, <<a, b>>, <<c, c>>}

MCSymmetry == MCTxSymmetry \cup Permutations(Inserters)

mcVars == <<vars, dagVars, part>>

MCInit == Init /\ DagInit /\ part \in {"consensus", "dag"}

MCNext ==
    /\ UNCHANGED part
    /\ \/ part = "consensus" /\ Next /\ UNCHANGED dagVars
       \/ part = "dag" /\ DagNext /\ UNCHANGED vars

MCSpec == MCInit /\ [][MCNext]_mcVars
=============================================================================
