------------------------------ MODULE MCAccounts ------------------------------
(***************************************************************************)
(* Instances of Accounts for TLC.  User 1 referred user 2.  Ids 3 and 4    *)
(* are free; clients are invited by nobody, by 2, or by 3, whose code does *)
(* not exist at first.  The teams are chosen so that the accounts created  *)
(* complete a requirement of level 2 for user 1 (10, 4, 4) and of level 1  *)
(* for user 2 (4, 2, 2), on all three depths.                              *)
(***************************************************************************)
EXTENDS Accounts, TLC

CONSTANTS AnnsEmail, BobsEmail, e1, e2

Chain == <<NoUser, 1>>
Addresses == <<AnnsEmail, BobsEmail>>
AllEmails == {AnnsEmail, BobsEmail, e1, e2}
Levels2 == [u \in UserIds |-> IF u = 2 THEN 0 ELSE 1]
NoDeposits == [u \in UserIds |-> 0]
MCCrowd == [u \in UserIds |-> IF u = 1 THEN [A |-> 9, B |-> 3, C |-> 4]
                          ELSE IF u = 2 THEN [A |-> 3, B |-> 4, C |-> 2]
                          ELSE [A |-> 0, B |-> 0, C |-> 0]]
(* A purchase reaches level 2.                                              *)
MCThreshold == [l \in Levels |-> IF l = 0 THEN 0 ELSE 5 * 2^l]
Invited == {NoUser, 2, 3}

Symmetry == Permutations(Handlers) \cup Permutations({e1, e2})
==============================================================================
