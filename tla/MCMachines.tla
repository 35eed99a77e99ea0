------------------------------ MODULE MCMachines ------------------------------
(***************************************************************************)
(* Instances of Machines for TLC.  Ann was referred by Bob, and Bob by the *)
(* seller.  A drill costs 150.00, a rig 300.00, for which 15 points are    *)
(* needed: the price of a drill.  The trial fund of 200.00 pays one drill  *)
(* and a part of the next machine.                                         *)
(***************************************************************************)
EXTENDS Machines, TLC

CONSTANTS Ann, Bob, Drill, Rig

MCReferrer == [a \in Accounts |-> CASE a = Ann /\ Bob \in Users -> Bob
                                     [] a = Bob -> Seller
                                     [] OTHER -> NoUser]
MCOpening == [a \in Accounts |-> CASE a = Ann -> 25000 [] a = Bob -> 20000 [] OTHER -> 0]
MCPrice == [p \in Products |-> IF p = Drill THEN 15000 ELSE 30000]
MCProductLevel == [p \in Products |-> IF p = Drill THEN 1 ELSE 2]
MCLevelRows == {[level |-> 0, points |-> 0], [level |-> 2, points |-> 15]}

Symmetry == Permutations(MachineIds) \cup Permutations(Handlers) \cup Permutations(Jobs)
==============================================================================
