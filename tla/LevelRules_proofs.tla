-------------------------- MODULE LevelRules_proofs --------------------------
(***************************************************************************)
(* Theorems about the level matrix, for any deposits and any team.         *)
(***************************************************************************)
EXTENDS LevelRules, TLAPS

(* The scan finds a row, and none before it is met.                         *)
LEMMA FirstMetExists ==
  ASSUME NEW d, NEW t \in Team
  PROVE  /\ FirstMet(d, t) \in 1..7
         /\ Meets(LEVELS[FirstMet(d, t)], d, t)
         /\ \A j \in 1..(FirstMet(d, t) - 1) : ~Meets(LEVELS[j], d, t)
<1> DEFINE First(i) == /\ Meets(LEVELS[i], d, t)
                       /\ \A j \in 1..(i - 1) : ~Meets(LEVELS[j], d, t)
<1>1. Meets(LEVELS[7], d, t)
  BY DEF Meets, LEVELS, Row, Team
<1>2. \E i \in 1..7 : First(i)
  <2> DEFINE M(i) == Meets(LEVELS[i], d, t)
  <2> HIDE DEF M
  <2>1. \E i \in 1..7 : M(i) /\ \A j \in 1..(i - 1) : ~M(j)
    <3>1. M(7)
      BY <1>1 DEF M
    <3>2. CASE M(1)
      BY <3>2
    <3>3. CASE ~M(1) /\ M(2)
      BY <3>3
    <3>4. CASE ~M(1) /\ ~M(2) /\ M(3)
      <4>1. \A j \in 1..(3 - 1) : j = 1 \/ j = 2
        OBVIOUS
      <4> QED BY <3>4, <4>1
    <3>5. CASE ~M(1) /\ ~M(2) /\ ~M(3) /\ M(4)
      <4>1. \A j \in 1..(4 - 1) : j = 1 \/ j = 2 \/ j = 3
        OBVIOUS
      <4> QED BY <3>5, <4>1
    <3>6. CASE ~M(1) /\ ~M(2) /\ ~M(3) /\ ~M(4) /\ M(5)
      <4>1. \A j \in 1..(5 - 1) : j = 1 \/ j = 2 \/ j = 3 \/ j = 4
        OBVIOUS
      <4> QED BY <3>6, <4>1
    <3>7. CASE ~M(1) /\ ~M(2) /\ ~M(3) /\ ~M(4) /\ ~M(5) /\ M(6)
      <4>1. \A j \in 1..(6 - 1) : j = 1 \/ j = 2 \/ j = 3 \/ j = 4 \/ j = 5
        OBVIOUS
      <4> QED BY <3>7, <4>1
    <3>8. CASE ~M(1) /\ ~M(2) /\ ~M(3) /\ ~M(4) /\ ~M(5) /\ ~M(6)
      <4>1. \A j \in 1..(7 - 1) : j = 1 \/ j = 2 \/ j = 3 \/ j = 4 \/ j = 5 \/ j = 6
        OBVIOUS
      <4> QED BY <3>1, <3>8, <4>1
    <3> QED BY <3>2, <3>3, <3>4, <3>5, <3>6, <3>7, <3>8
  <2> QED BY <2>1 DEF M
<1> HIDE DEF First
<1>3. First(CHOOSE i \in 1..7 : First(i)) /\ (CHOOSE i \in 1..7 : First(i)) \in 1..7
  BY <1>2
<1> QED BY <1>3 DEF FirstMet, First

(* Row i of the matrix is for level 7 - i.                                  *)
LEMMA RowLevel == \A i \in 1..7 : LEVELS[i].level = 7 - i
BY DEF LEVELS, Row

(* The level is one of those the matrix has.                                *)
LEMMA LevelType == \A d : \A t \in Team : LevelOf(d, t) \in Levels
<1> TAKE d
<1> TAKE t \in Team
<1>1. FirstMet(d, t) \in 1..7 /\ LEVELS[FirstMet(d, t)].level = 7 - FirstMet(d, t)
  BY FirstMetExists, RowLevel
<1>2. LevelOf(d, t) = 7 - FirstMet(d, t)
  BY <1>1 DEF LevelOf
<1> QED BY <1>1, <1>2 DEF Levels

(* A requirement that is met stays met with more deposits and a larger team. *)
LEMMA MeetsMonotone ==
  ASSUME NEW i \in 1..7, NEW d \in Int, NEW d2 \in Int, d <= d2,
         NEW t \in Team, NEW t2 \in Team, t.A <= t2.A, t.B <= t2.B, t.C <= t2.C,
         Meets(LEVELS[i], d, t)
  PROVE  Meets(LEVELS[i], d2, t2)
<1>1. /\ LEVELS[i].deposit \in Int /\ LEVELS[i].A \in Int
      /\ LEVELS[i].B \in Int /\ LEVELS[i].C \in Int
  BY DEF LEVELS, Row
<1>2. /\ t.A \in Int /\ t.B \in Int /\ t.C \in Int
      /\ t2.A \in Int /\ t2.B \in Int /\ t2.C \in Int
  BY DEF Team
<1> HIDE DEF LEVELS
<1> QED BY <1>1, <1>2 DEF Meets

(* More deposits and a larger team never give a lower level: the rows of    *)
(* the matrix are in descending order, so the scan of level.service.ts      *)
(* lines 132-143 stops no later.                                            *)
THEOREM LevelMonotone ==
  ASSUME NEW d \in Int, NEW d2 \in Int, d <= d2,
         NEW t \in Team, NEW t2 \in Team, t.A <= t2.A, t.B <= t2.B, t.C <= t2.C
  PROVE  LevelOf(d, t) <= LevelOf(d2, t2)
<1> DEFINE i == FirstMet(d, t)
           i2 == FirstMet(d2, t2)
<1>1. i \in 1..7 /\ i2 \in 1..7 /\ Meets(LEVELS[i], d, t)
  BY FirstMetExists
<1>2. \A j \in 1..(i2 - 1) : ~Meets(LEVELS[j], d2, t2)
  BY FirstMetExists
<1>3. Meets(LEVELS[i], d2, t2)
  BY <1>1, MeetsMonotone
<1>4. LEVELS[i].level = 7 - i /\ LEVELS[i2].level = 7 - i2
  BY <1>1, RowLevel
<1> HIDE DEF i, i2
<1>5. i2 <= i
  BY <1>1, <1>2, <1>3
<1> QED BY <1>1, <1>4, <1>5 DEF LevelOf, i, i2
==============================================================================
