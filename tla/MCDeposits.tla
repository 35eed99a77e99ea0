------------------------------ MODULE MCDeposits ------------------------------
(***************************************************************************)
(* Instances of Deposits for TLC.  Ann was referred by Bob, and nobody     *)
(* referred Bob.  One deposit of 60.00 leaves a user below level 1, two    *)
(* reach it, and one of 500.00 reaches level 2; 60.50 does not fit a       *)
(* Transaction row.                                                        *)
(***************************************************************************)
EXTENDS Deposits, TLC

CONSTANTS Ann, Bob

MCReferrer == [u \in Users |-> IF u = Ann /\ Bob \in Users THEN Bob ELSE NoUser]
MCTeamOf == [u \in Users |-> [A |-> IF u = Bob THEN 1 ELSE 0, B |-> 0, C |-> 0]]
WholeDollars == {6000, 50000}
LiveAmounts == {6000, 6050}

Symmetry == Permutations(DepositIds) \cup Permutations(Handlers)
==============================================================================
