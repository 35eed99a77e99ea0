---------------------------- MODULE MCWithdrawals ----------------------------
(***************************************************************************)
(* Instances of Withdrawals for TLC.                                       *)
(***************************************************************************)
EXTENDS Withdrawals, TLC

(* 50.00, the least a user may ask for, and 50.17, whose fee of 1.5051 is   *)
(* rounded.                                                                 *)
MCAmounts == {5000, 5017}

(* Ann can pay for two requests of 50.00, but lacks a cent to pay for one   *)
(* of each; Bob can pay for one and all but the fee of another.             *)
CONSTANTS Ann, Bob
OpeningAnn == (Ann :> 10317)
OpeningBoth == (Ann :> 10317) @@ (Bob :> 10250)

Symmetry == Permutations(Withdraws) \cup Permutations(Procs)
==============================================================================
