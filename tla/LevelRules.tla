------------------------------ MODULE LevelRules ------------------------------
(***************************************************************************)
(* The level matrix of level.service.ts and the scan that turns a user's   *)
(* deposits and team into a level.  Deposits are in cents, the matrix in   *)
(* dollars.                                                                *)
(***************************************************************************)
EXTENDS Integers

Row(level, deposit, a, b, c) == [level |-> level, deposit |-> 100 * deposit,
                                 A |-> a, B |-> b, C |-> c]

LEVELS == << Row(6, 6000, 70, 35, 20),
             Row(5, 4500, 50, 20, 15),
             Row(4, 3000, 30, 15, 7),
             Row(3, 1500, 20, 10, 6),
             Row(2,  500, 10,  4, 4),
             Row(1,  100,  4,  2, 2),
             Row(0,    0,  0,  0, 0) >>

Team == [A : Nat, B : Nat, C : Nat]

(* A row is met by personal deposits or by the team, both counts inclusive. *)
MeetsStrictly(row, deposits, team) ==
  \/ deposits > row.deposit
  \/ team.A >= row.A /\ team.B >= row.B /\ team.C >= row.C
Meets(row, deposits, team) ==
  \/ deposits >= row.deposit
  \/ team.A >= row.A /\ team.B >= row.B /\ team.C >= row.C

(* The scan stops at the first row that is met; the last one always is.     *)
FirstMet(deposits, team) ==
  CHOOSE i \in 1..7 : /\ Meets(LEVELS[i], deposits, team)
                      /\ \A j \in 1..(i - 1) : ~Meets(LEVELS[j], deposits, team)
LevelOf(deposits, team) == LEVELS[FirstMet(deposits, team)].level

Levels == 0..6
==============================================================================
