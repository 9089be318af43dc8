------------------------------ MODULE MCEscrow ------------------------------
(***************************************************************************)
(* Two of the contracts that hold tokens for their users, for TLC: the     *)
(* bridge in Solidity and staking in Rust.  (The staking contract in       *)
(* Solidity and the bridge in Rust are in MCExecution: the two versions of *)
(* a contract share names.)  They do not call each other, so each          *)
(* behaviour is one of a single contract, chosen at the start, while the   *)
(* other stays in its initial state.  The bridge has a request to this     *)
(* chain, one to another chain and a private one.                          *)
(***************************************************************************)
EXTENDS Bridge, StakingRs, TLC

VARIABLE contract   \* the contract this behaviour calls

MCRequests == {[private |-> FALSE, target |-> 1, amount |-> 1],
               [private |-> FALSE, target |-> 2, amount |-> 1],
               [private |-> TRUE,  target |-> 1, amount |-> 0]}

\* The validators of the bridge are those of the staking contract.
MCSymmetry == Permutations(BridgeValidators)

mcVars == <<bridgeVars, stakingVars, contract>>

MCInit ==
    /\ BridgeInit /\ StakingInit
    /\ contract \in {"bridge", "staking"}
    /\ contract = "staking" => validatorThreshold = 1   \* not used then

MCNext ==
    /\ UNCHANGED contract
    /\ \/ contract = "bridge" /\ BridgeNext /\ UNCHANGED stakingVars
       \/ contract = "staking" /\ StakingNext /\ UNCHANGED bridgeVars

MCSpec == MCInit /\ [][MCNext]_mcVars
=============================================================================
