---------------------------- MODULE MCExecution ------------------------------
(***************************************************************************)
(* What executing blocks changes, for TLC: the executor, the storage       *)
(* manager, the staking contract in Solidity and, in Rust, the bridge, the *)
(* private token and the exchange.  They share no state and do not call    *)
(* each other (the executor keeps its accounts itself and runs no contract *)
(* code): each behaviour of this model is a behaviour of one of them,      *)
(* chosen at the start, while the others stay in their initial state.      *)
(*                                                                         *)
(* x1 and x2, y1 and y2, z1 and z2 are interchangeable: validators of the  *)
(* bridge or threads; delegators or accounts; values of accounts.          *)
(***************************************************************************)
EXTENDS MCExecutor, StateStorage, BridgeRs, PrivateTokenRs, DexRs, Staking, TLC

CONSTANTS x1, x2, y1, y2, z1, z2

VARIABLE part   \* the part whose calls this behaviour makes

MCSymmetry == Permutations({x1, x2}) \cup Permutations({y1, y2}) \cup Permutations({z1, z2})

mcVars == <<vmVars, storageVars, bridgeVars, tokenVars, dexVars, vars, part>>

MCInit ==
    /\ VMInit /\ StorageInit /\ BridgeInit /\ TokenInit /\ DexInit /\ Init
    /\ part \in {"executor", "storage", "bridge", "token", "dex", "staking"}
    /\ part # "staking" => minStake = 1 /\ unbondingPeriod = 0   \* not used then

MCNext ==
    /\ UNCHANGED part
    /\ \/ part = "executor" /\ VMNext /\ UNCHANGED <<storageVars, bridgeVars, tokenVars, dexVars, vars>>
       \/ part = "storage" /\ StorageNext /\ UNCHANGED <<vmVars, bridgeVars, tokenVars, dexVars, vars>>
       \/ part = "bridge" /\ BridgeNext /\ UNCHANGED <<vmVars, storageVars, tokenVars, dexVars, vars>>
       \/ part = "token" /\ TokenNext /\ UNCHANGED <<vmVars, storageVars, bridgeVars, dexVars, vars>>
       \/ part = "dex" /\ DexNext /\ UNCHANGED <<vmVars, storageVars, bridgeVars, tokenVars, vars>>
       \/ part = "staking" /\ Next /\ UNCHANGED <<vmVars, storageVars, bridgeVars, tokenVars, dexVars>>

MCSpec == MCInit /\ [][MCNext]_mcVars
=============================================================================
