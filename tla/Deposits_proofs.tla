--------------------------- MODULE Deposits_proofs ---------------------------
(***************************************************************************)
(* Theorems about Deposits, for any users, referrals, teams, amounts and   *)
(* number of webhook calls.                                                *)
(***************************************************************************)
EXTENDS Deposits, LevelRules_proofs, Sums_proofs

LEMMA MoneyIsInt == \A a \in Nat : /\ Percent(DEPOSIT_BONUS_PERCENT, a) \in Int
                                   /\ Percent(REFERRAL_BONUS_PERCENT, a) \in Int
BY DEF Percent, DEPOSIT_BONUS_PERCENT, REFERRAL_BONUS_PERCENT

LEMMA DepositMoveType ==
  ASSUME NEW wal \in [Users -> Wallet], NEW u \in Users, NEW b \in Int, NEW r \in Int
  PROVE  Move(wal, u, b, r) \in [Users -> Wallet]
BY DEF Move, Wallet

LEMMA DepositIsNotAbsent == ASSUME NEW x \in Deposit PROVE x # Absent
<1>1. x.status \in {"PENDING", "SUCCESS", "FAILED"}
  BY DEF Deposit
<1>2. Absent.status = "ABSENT"
  BY DEF Absent
<1> QED BY <1>1, <1>2

LEMMA RecordedType ==
  ASSUME NEW row \in Entries, NEW bonus \in Nat PROVE Recorded(row, bonus) \in Entries
<1> DEFINE a == row.transactions + 1
           b == row.firstBonus + bonus
<1>1. a \in Nat /\ b \in Nat
  BY DEF Entries
<1>2. Recorded(row, bonus) = [row EXCEPT !.transactions = a, !.firstBonus = b]
  BY DEF Recorded
<1> HIDE DEF a, b
<1> QED BY <1>1, <1>2 DEF Entries

(* A handler in flight works on an existing deposit of some user.           *)
LEMMA WorksOnDeposit ==
  ASSUME TypeOK, NEW h \in Handlers, ipn[h] # Idle
  PROVE  /\ ipn[h].d \in DepositIds
         /\ deposit[ipn[h].d] \in Deposit
         /\ UserOf(h) \in Users
         /\ deposit[ipn[h].d].amount \in Nat
         /\ ipn[h] \in [at : {"found", "failed", "credited", "referral", "commission", "pay",
                              "bonus", "level", "sum", "evaluated"},
                        d : DepositIds, seen : Levels, target : Levels, saw : BOOLEAN]
<1>1. ipn[h].d \in DepositIds /\ deposit[ipn[h].d] # Absent
  BY DEF TypeOK, Call
<1>2. deposit[ipn[h].d] \in Deposit
  BY <1>1 DEF TypeOK
<1>3. ipn[h] \in Call
  BY DEF TypeOK
<1>4. deposit[ipn[h].d].amount \in Amounts /\ deposit[ipn[h].d].user \in Users
  BY <1>2 DEF Deposit
<1> QED BY <1>1, <1>2, <1>3, <1>4, DepositsAssumption DEF Call, UserOf

-----------------------------------------------------------------------------
(* What the two history variables hold.                                     *)
LEMMA HistoryType ==
  TypeOK /\ [Next]_vars => twice' \subseteq DepositIds /\ disturbed' \subseteq Users
<1> SUFFICES ASSUME TypeOK, [Next]_vars
             PROVE  twice' \subseteq DepositIds /\ disturbed' \subseteq Users
  OBVIOUS
<1>0. twice \subseteq DepositIds /\ disturbed \subseteq Users
  BY DEF TypeOK
<1>1. CASE UNCHANGED <<twice, disturbed>>
  BY <1>0, <1>1
<1>2. ASSUME NEW h \in Handlers, NEW d \in DepositIds, NEW outcome \in {"SUCCESS", "FAILURE"},
             IpnRead(h, d, outcome)
      PROVE  twice' \subseteq DepositIds /\ disturbed' \subseteq Users
  <2>1. deposit[d].user \in Users
    BY <1>2 DEF TypeOK, IpnRead, StillPending, Absent, Deposit
  <2>2. \A g \in Handlers : ipn[g] # Idle => ipn[g].d \in DepositIds
    BY WorksOnDeposit
  <2>3. /\ twice' = twice \cup {ipn[g].d : g \in {g \in Handlers : ipn[g] # Idle /\ ipn[g].d = d}}
        /\ disturbed' = disturbed \cup {u \in {deposit[d].user} : Busy(u)}
    BY <1>2 DEF IpnRead
  <2> QED BY <1>0, <2>1, <2>2, <2>3
<1>3. ASSUME NEW h \in Handlers, IpnFailure(h)
      PROVE  twice' \subseteq DepositIds /\ disturbed' \subseteq Users
  <2>1. UserOf(h) \in Users
    BY <1>3, WorksOnDeposit DEF IpnFailure
  <2> QED BY <1>0, <1>3, <2>1 DEF IpnFailure
<1>4. CASE Crash
  <2>1. \A h \in Handlers : Credited(h) => UserOf(h) \in Users
    BY WorksOnDeposit DEF Credited, Idle
  <2> QED BY <1>0, <1>4, <2>1 DEF Crash
<1>5. ASSUME NEW h \in Handlers, Ipn(h)
      PROVE  \/ UNCHANGED <<twice, disturbed>>
             \/ \E d \in DepositIds, outcome \in {"SUCCESS", "FAILURE"} : IpnRead(h, d, outcome)
  BY <1>5 DEF Ipn, IpnFail, IpnCredit, IpnCommit, IpnUnfit, IpnReferral, IpnCommission,
              IpnPayReferrer, IpnReferralBonus, EvalReadUser, EvalReadSum, EvalWrite
<1>6. ASSUME NEW d \in DepositIds, NEW u \in Users, NEW amount \in Amounts,
             InitDeposit(d, u, amount) \/ AdminDeposit(d, u, amount)
      PROVE  UNCHANGED <<twice, disturbed>>
  BY <1>6 DEF InitDeposit, AdminDeposit
<1>7. ASSUME NEW d \in DepositIds, NEW outcome \in {"SUCCESS", "FAILURE"},
             GatewayDecides(d, outcome) \/ LockEnds(d)
      PROVE  UNCHANGED <<twice, disturbed>>
  BY <1>7 DEF GatewayDecides, LockEnds
<1>8. CASE UNCHANGED vars
  BY <1>0, <1>8 DEF vars
<1> QED BY <1>1, <1>2, <1>3, <1>4, <1>5, <1>6, <1>7, <1>8 DEF Next

(* A meeting is not forgotten.                                              *)
LEMMA HistoryStays == [Next]_vars => twice \subseteq twice' /\ disturbed \subseteq disturbed'
<1> SUFFICES ASSUME [Next]_vars PROVE twice \subseteq twice' /\ disturbed \subseteq disturbed'
  OBVIOUS
<1>1. ASSUME NEW h \in Handlers, Ipn(h) \/ IpnFailure(h)
      PROVE  twice \subseteq twice' /\ disturbed \subseteq disturbed'
  BY <1>1 DEF Ipn, IpnRead, IpnFail, IpnCredit, IpnCommit, IpnUnfit, IpnReferral, IpnCommission,
              IpnPayReferrer, IpnReferralBonus, EvalReadUser, EvalReadSum, EvalWrite, IpnFailure
<1>2. ASSUME NEW d \in DepositIds, NEW u \in Users, NEW amount \in Amounts,
             InitDeposit(d, u, amount) \/ AdminDeposit(d, u, amount)
      PROVE  twice \subseteq twice' /\ disturbed \subseteq disturbed'
  BY <1>2 DEF InitDeposit, AdminDeposit
<1>3. ASSUME NEW d \in DepositIds, NEW outcome \in {"SUCCESS", "FAILURE"},
             GatewayDecides(d, outcome) \/ LockEnds(d)
      PROVE  twice \subseteq twice' /\ disturbed \subseteq disturbed'
  BY <1>3 DEF GatewayDecides, LockEnds
<1>4. CASE Crash
  BY <1>4 DEF Crash
<1>5. CASE UNCHANGED vars
  BY <1>5 DEF vars
<1> QED BY <1>1, <1>2, <1>3, <1>4, <1>5 DEF Next

LEMMA DepositsTypeStep == TypeOK /\ [Next]_vars => TypeOK'
<1> SUFFICES ASSUME TypeOK, [Next]_vars PROVE TypeOK'
  OBVIOUS
<1>0. /\ wallet \in [Users -> Wallet]
      /\ user \in [Users -> [firstDepositBonus : BOOLEAN, level : Levels]]
      /\ deposit \in [DepositIds -> Deposit \cup {Absent}]
      /\ entries \in [DepositIds -> Entries]
      /\ gateway \in [DepositIds -> SUBSET {"SUCCESS", "FAILURE"}]
      /\ ipn \in [Handlers -> Call]
      /\ \A h \in Handlers : ipn[h] # Idle => deposit[ipn[h].d] # Absent
      /\ twice' \subseteq DepositIds /\ disturbed' \subseteq Users
  BY HistoryType DEF TypeOK
(* Steps that change no row: a handler moves on, or ends.                   *)
<1>1. ASSUME UNCHANGED <<wallet, user, deposit, entries, gateway>>,
             NEW h \in Handlers, NEW c \in Call, ipn' = [ipn EXCEPT ![h] = c],
             c # Idle => deposit[c.d] # Absent
      PROVE  TypeOK'
  BY <1>0, <1>1 DEF TypeOK
(* Steps of a handler that change rows other than the deposits.             *)
<1>2. ASSUME wallet' \in [Users -> Wallet],
             user' \in [Users -> [firstDepositBonus : BOOLEAN, level : Levels]],
             entries' \in [DepositIds -> Entries],
             UNCHANGED <<deposit, gateway>>,
             NEW h \in Handlers, NEW c \in Call, ipn' = [ipn EXCEPT ![h] = c],
             c # Idle => deposit[c.d] # Absent
      PROVE  TypeOK'
  BY <1>0, <1>2 DEF TypeOK
<1>3. ASSUME NEW h \in Handlers, ipn[h] # Idle, NEW at \in {"found", "failed", "credited",
               "referral", "commission", "pay", "bonus", "level", "sum", "evaluated"}
      PROVE  /\ [ipn[h] EXCEPT !.at = at] \in Call
             /\ [ipn[h] EXCEPT !.at = at].d = ipn[h].d
  BY <1>3, WorksOnDeposit DEF Call
<1>4. Idle \in Call
  BY DEF Call
<1>5. ASSUME NEW d \in DepositIds, NEW u \in Users, NEW amount \in Amounts,
             InitDeposit(d, u, amount)
      PROVE  TypeOK'
  <2>1. [user |-> u, amount |-> amount, provider |-> NoProvider, status |-> "PENDING",
         locked |-> FALSE] \in Deposit
    BY DEF Deposit
  <2>2. \A e \in DepositIds : deposit[e] # Absent => deposit'[e] = deposit[e]
    BY <1>0, <1>5 DEF InitDeposit
  <2>3. \A h \in Handlers : ipn[h] # Idle => ipn[h].d \in DepositIds
    BY WorksOnDeposit
  <2> QED BY <1>0, <1>5, <2>1, <2>2, <2>3 DEF InitDeposit, TypeOK
<1>6. ASSUME NEW d \in DepositIds, NEW u \in Users, NEW amount \in Amounts,
             AdminDeposit(d, u, amount)
      PROVE  TypeOK'
  <2>1. [user |-> u, amount |-> amount, provider |-> "admin-manual", status |-> "SUCCESS",
         locked |-> FALSE] \in Deposit
    BY DEF Deposit
  <2>2. \A e \in DepositIds : deposit[e] # Absent => deposit'[e] = deposit[e]
    BY <1>0, <1>6 DEF AdminDeposit
  <2>3. \A h \in Handlers : ipn[h] # Idle => ipn[h].d \in DepositIds
    BY WorksOnDeposit
  <2>4. wallet' \in [Users -> Wallet]
    <3>1. amount \in Int
      BY DepositsAssumption
    <3> QED BY <1>0, <1>6, <3>1, DepositMoveType DEF AdminDeposit
  <2>5. entries' \in [DepositIds -> Entries]
    BY <1>0, <1>6 DEF AdminDeposit, Entries
  <2> QED BY <1>0, <1>6, <2>1, <2>2, <2>3, <2>4, <2>5 DEF AdminDeposit, TypeOK
<1>7. ASSUME NEW d \in DepositIds, NEW outcome \in {"SUCCESS", "FAILURE"},
             GatewayDecides(d, outcome)
      PROVE  TypeOK'
  BY <1>0, <1>7 DEF GatewayDecides, TypeOK
(* Steps that change a deposit's status or lock only.                       *)
<1>8. ASSUME NEW d \in DepositIds, deposit[d] # Absent,
             deposit'[d] \in Deposit, \A e \in DepositIds \ {d} : deposit'[e] = deposit[e]
      PROVE  \A h \in Handlers : ipn[h] # Idle => deposit'[ipn[h].d] # Absent
  <2>1. deposit'[d] # Absent
    BY <1>8, DepositIsNotAbsent
  <2> QED BY <1>0, <1>8, <2>1, WorksOnDeposit
<1>9. ASSUME NEW d \in DepositIds, LockEnds(d)
      PROVE  TypeOK'
  <2>1. deposit[d] \in Deposit
    BY <1>0, <1>9 DEF LockEnds, Absent
  <2>2. deposit'[d] \in Deposit /\ \A e \in DepositIds \ {d} : deposit'[e] = deposit[e]
    BY <1>0, <1>9, <2>1 DEF LockEnds, Deposit
  <2>3. deposit' \in [DepositIds -> Deposit \cup {Absent}] /\ deposit[d] # Absent
    BY <1>0, <1>9, <2>1, <2>2 DEF LockEnds, Absent
  <2> QED BY <1>0, <1>8, <1>9, <2>2, <2>3 DEF LockEnds, TypeOK
<1>10. ASSUME NEW h \in Handlers, NEW d \in DepositIds,
             NEW outcome \in {"SUCCESS", "FAILURE"}, IpnRead(h, d, outcome)
       PROVE  TypeOK'
  <2> DEFINE c == [at |-> IF outcome = "SUCCESS" THEN "found" ELSE "failed",
                   d |-> d, seen |-> 0, target |-> 0, saw |-> FALSE]
  <2>1. c \in Call /\ deposit[c.d] # Absent
    BY <1>10 DEF IpnRead, StillPending, Absent, Call, Levels
  <2> HIDE DEF c
  <2>2. ipn' = [ipn EXCEPT ![h] = c] /\ UNCHANGED <<wallet, user, deposit, entries, gateway>>
    BY <1>10 DEF IpnRead, c
  <2> QED BY <1>1, <2>1, <2>2
<1>11. ASSUME NEW h \in Handlers, IpnFail(h)
       PROVE  TypeOK'
  <2> DEFINE d == ipn[h].d
  <2>1. d \in DepositIds /\ deposit[d] \in Deposit /\ deposit[d] # Absent
    BY <1>0, <1>11, WorksOnDeposit DEF IpnFail, Idle
  <2>2. deposit'[d] \in Deposit /\ \A e \in DepositIds \ {d} : deposit'[e] = deposit[e]
    BY <1>0, <1>11, <2>1 DEF IpnFail, Deposit
  <2>3. deposit' \in [DepositIds -> Deposit \cup {Absent}]
    BY <1>0, <1>11, <2>1, <2>2 DEF IpnFail
  <2>4. ipn' = [ipn EXCEPT ![h] = Idle] /\ UNCHANGED <<wallet, user, entries, gateway>>
    BY <1>11 DEF IpnFail, Done
  <2>5. \A g \in Handlers : ipn[g] # Idle => deposit'[ipn[g].d] # Absent
    <3> HIDE DEF d
    <3> QED BY <1>8, <2>1, <2>2
  <2> QED BY <1>0, <1>4, <2>3, <2>4, <2>5 DEF TypeOK
<1>12. ASSUME NEW h \in Handlers, IpnCredit(h)
       PROVE  TypeOK'
  <2> DEFINE c == [ipn[h] EXCEPT !.at = "credited", !.saw = user[UserOf(h)].firstDepositBonus]
  <2>1. ipn[h] # Idle
    BY <1>12 DEF IpnCredit, Idle
  <2>2. user[UserOf(h)].firstDepositBonus \in BOOLEAN
    BY <1>0, <2>1, WorksOnDeposit
  <2>3. c \in Call /\ deposit[c.d] # Absent
    BY <1>0, <2>1, <2>2, WorksOnDeposit DEF Call
  <2>4. ipn' = [ipn EXCEPT ![h] = c] /\ UNCHANGED <<wallet, user, deposit, entries, gateway>>
    BY <1>12 DEF IpnCredit
  <2> HIDE DEF c
  <2> QED BY <1>1, <2>3, <2>4
<1>13. ASSUME NEW h \in Handlers, IpnCommit(h)
       PROVE  TypeOK'
  <2> DEFINE d == ipn[h].d
             u == UserOf(h)
             c == [ipn[h] EXCEPT !.at = "referral"]
             money == deposit[d].amount + (IF ipn[h].saw THEN 0 ELSE Bonus(d))
  <2>1. /\ ipn[h] # Idle /\ d \in DepositIds /\ deposit[d] \in Deposit /\ u \in Users
        /\ deposit[d] # Absent /\ deposit[d].amount \in Nat
    BY <1>0, <1>13, WorksOnDeposit DEF IpnCommit, Idle
  <2>2. deposit'[d] \in Deposit /\ \A e \in DepositIds \ {d} : deposit'[e] = deposit[e]
    <3>1. deposit'[d] = [deposit[d] EXCEPT !.status = "SUCCESS", !.locked = TRUE]
      BY <1>0, <1>13, <2>1 DEF IpnCommit
    <3> QED BY <1>0, <1>13, <2>1, <3>1 DEF IpnCommit, Deposit
  <2>3. deposit' \in [DepositIds -> Deposit \cup {Absent}]
    BY <1>0, <1>13, <2>1, <2>2 DEF IpnCommit
  <2>4. wallet' \in [Users -> Wallet]
    <3>1. Bonus(d) \in Int
      BY <2>1, MoneyIsInt DEF Bonus
    <3>2. money \in Int
      BY <2>1, <3>1
    <3>3. wallet' = Move(wallet, u, money, 0)
      BY <1>13 DEF IpnCommit
    <3> HIDE DEF money, u
    <3> QED BY <1>0, <2>1, <3>2, <3>3, DepositMoveType
  <2>5. user' \in [Users -> [firstDepositBonus : BOOLEAN, level : Levels]]
    BY <1>0, <1>13 DEF IpnCommit
  <2>6. entries' \in [DepositIds -> Entries]
    <3> DEFINE bonus == IF ipn[h].saw THEN 0 ELSE 1
    <3>1. entries[d] \in Entries /\ bonus \in Nat
      BY <1>0, <2>1
    <3>2. Recorded(entries[d], bonus) \in Entries
      <4> HIDE DEF bonus, d
      <4> QED BY <3>1, RecordedType
    <3>3. entries' = [entries EXCEPT ![d] = Recorded(entries[d], bonus)]
      BY <1>13 DEF IpnCommit
    <3> HIDE DEF bonus, d
    <3> QED BY <1>0, <2>1, <3>2, <3>3
  <2>7. c \in Call /\ c.d = d
    BY <1>3, <2>1
  <2>8. ipn' = [ipn EXCEPT ![h] = c] /\ gateway' = gateway
    BY <1>13 DEF IpnCommit, Goto
  <2>9. \A g \in Handlers : ipn[g] # Idle => deposit'[ipn[g].d] # Absent
    <3> HIDE DEF d
    <3> QED BY <1>8, <2>1, <2>2
  <2>10. deposit'[c.d] # Absent
    <3> HIDE DEF c, d
    <3> QED BY <2>2, <2>7, DepositIsNotAbsent
  <2> HIDE DEF c, d, u, money
  <2> QED BY <1>0, <2>3, <2>4, <2>5, <2>6, <2>7, <2>8, <2>9, <2>10 DEF TypeOK
<1>14. ASSUME NEW h \in Handlers, ipn[h] # Idle, Done(h),
              UNCHANGED <<wallet, user, deposit, entries, gateway>>
       PROVE  TypeOK'
  BY <1>1, <1>4, <1>14 DEF Done
<1>15. ASSUME NEW h \in Handlers, IpnReferral(h)
       PROVE  TypeOK'
  <2>1. PICK at \in {"commission", "level"} : Goto(h, at)
    BY <1>15 DEF IpnReferral
  <2> DEFINE c == [ipn[h] EXCEPT !.at = at]
  <2>2. ipn[h] # Idle /\ UNCHANGED <<wallet, user, deposit, entries, gateway>>
    BY <1>15 DEF IpnReferral, Idle
  <2>3. c \in Call /\ c.d = ipn[h].d
    BY <1>3, <2>1, <2>2
  <2>4. ipn' = [ipn EXCEPT ![h] = c]
    BY <2>1 DEF Goto
  <2> HIDE DEF c
  <2> QED BY <1>0, <1>1, <2>2, <2>3, <2>4
<1>16. ASSUME NEW h \in Handlers, IpnCommission(h)
       PROVE  TypeOK'
  <2>1. ipn[h] # Idle
    BY <1>16 DEF IpnCommission, Idle
  <2>2. entries' \in [DepositIds -> Entries]
    BY <1>0, <1>16, <2>1, WorksOnDeposit DEF IpnCommission, Entries
  <2> QED BY <1>0, <1>2, <1>3, <1>16, <2>1, <2>2 DEF IpnCommission, Goto
<1>17. ASSUME NEW h \in Handlers, IpnReferralBonus(h)
       PROVE  TypeOK'
  <2>1. ipn[h] # Idle
    BY <1>17 DEF IpnReferralBonus, Idle
  <2>2. entries' \in [DepositIds -> Entries]
    BY <1>0, <1>17, <2>1, WorksOnDeposit DEF IpnReferralBonus, Entries
  <2> QED BY <1>0, <1>2, <1>3, <1>17, <2>1, <2>2 DEF IpnReferralBonus, Goto
<1>18. ASSUME NEW h \in Handlers, IpnPayReferrer(h)
       PROVE  TypeOK'
  <2>1. ipn[h] # Idle
    BY <1>18 DEF IpnPayReferrer, Idle
  <2>2. wallet' \in [Users -> Wallet]
    <3> DEFINE r == Referrer[UserOf(h)]
               money == Commission(ipn[h].d)
    <3>1. wallet' = Move(wallet, r, money, 0)
      BY <1>18 DEF IpnPayReferrer
    <3>2. money \in Int
      BY <2>1, WorksOnDeposit, MoneyIsInt DEF Commission
    <3> HIDE DEF r, money
    <3>3. CASE r \in Users
      BY <1>0, <3>1, <3>2, <3>3, DepositMoveType
    <3>4. CASE r \notin Users
      BY <1>0, <3>1, <3>4 DEF Move
    <3> QED BY <3>3, <3>4
  <2> QED BY <1>0, <1>2, <1>3, <1>18, <2>1, <2>2 DEF IpnPayReferrer, Goto
<1>19. ASSUME NEW h \in Handlers, EvalReadUser(h)
       PROVE  TypeOK'
  <2> DEFINE c == [ipn[h] EXCEPT !.at = "sum", !.seen = user[UserOf(h)].level]
  <2>1. ipn[h] # Idle
    BY <1>19 DEF EvalReadUser, Idle
  <2>2. user[UserOf(h)].level \in Levels
    BY <1>0, <2>1, WorksOnDeposit
  <2>3. c \in Call /\ deposit[c.d] # Absent
    BY <1>0, <2>1, <2>2, WorksOnDeposit DEF Call
  <2>4. ipn' = [ipn EXCEPT ![h] = c] /\ UNCHANGED <<wallet, user, deposit, entries, gateway>>
    BY <1>19 DEF EvalReadUser
  <2> HIDE DEF c
  <2> QED BY <1>1, <2>3, <2>4
<1>20. ASSUME NEW h \in Handlers, EvalReadSum(h)
       PROVE  TypeOK'
  <2> DEFINE c == [ipn[h] EXCEPT !.at = "evaluated", !.target = Target(UserOf(h))]
  <2>1. ipn[h] # Idle
    BY <1>20 DEF EvalReadSum, Idle
  <2>2. Target(UserOf(h)) \in Levels
    BY <2>1, WorksOnDeposit, LevelType, DepositsAssumption DEF Target
  <2>3. c \in Call /\ deposit[c.d] # Absent
    BY <1>0, <2>1, <2>2, WorksOnDeposit DEF Call
  <2>4. ipn' = [ipn EXCEPT ![h] = c] /\ UNCHANGED <<wallet, user, deposit, entries, gateway>>
    BY <1>20 DEF EvalReadSum
  <2> HIDE DEF c
  <2> QED BY <1>1, <2>3, <2>4
<1>21. ASSUME NEW h \in Handlers, EvalWrite(h)
       PROVE  TypeOK'
  <2>1. ipn[h] # Idle /\ ipn[h].target \in Levels
    BY <1>21, WorksOnDeposit DEF EvalWrite, Idle
  <2>2. user' \in [Users -> [firstDepositBonus : BOOLEAN, level : Levels]]
    BY <1>0, <1>21, <2>1 DEF EvalWrite
  <2> QED BY <1>0, <1>2, <1>4, <1>21, <2>2 DEF EvalWrite, Done
<1>22. CASE Crash
  BY <1>0, <1>4, <1>22 DEF Crash, TypeOK
<1>23. CASE UNCHANGED vars
  BY <1>0, <1>23 DEF vars, TypeOK
<1>24. ASSUME NEW h \in Handlers, IpnUnfit(h) \/ IpnFailure(h)
       PROVE  TypeOK'
  BY <1>14, <1>24 DEF IpnUnfit, IpnFailure, Idle
<1> QED BY <1>5, <1>6, <1>7, <1>9, <1>10, <1>11, <1>12, <1>13, <1>15, <1>16, <1>17, <1>18,
           <1>19, <1>20, <1>21, <1>22, <1>23, <1>24 DEF Next, Ipn

(* Every reachable state has the declared shape; in particular no webhook    *)
(* call works on a deposit that does not exist, and levels are in 0..6.      *)
THEOREM DepositsTypeCorrect == Spec => []TypeOK
<1>1. Init => TypeOK
  BY DEF Init, TypeOK, Wallet, Levels, Entries, NoEntries, Call, Idle
<1> QED BY <1>1, DepositsTypeStep, PTL DEF Spec

-----------------------------------------------------------------------------
(* What a handler's move does to the handlers.                              *)
LEMMA HandlerMoves ==
  ASSUME TypeOK, NEW h \in Handlers, ipn[h] # Idle, NEW at, Goto(h, at)
  PROVE  /\ ipn'[h].at = at /\ ipn'[h].d = ipn[h].d
         /\ \A g \in Handlers \ {h} : ipn'[g] = ipn[g]
BY WorksOnDeposit DEF Goto, TypeOK

LEMMA HandlerEnds ==
  ASSUME TypeOK, NEW h \in Handlers, Done(h)
  PROVE  ipn'[h] = Idle /\ \A g \in Handlers \ {h} : ipn'[g] = ipn[g]
BY DEF Done, TypeOK

(* A deposit that exists goes on existing, with its user, amount and origin. *)
SameDeposit(row, old) == /\ row # Absent
                         /\ row.user = old.user
                         /\ row.amount = old.amount
                         /\ row.provider = old.provider

LEMMA DepositStays ==
  ASSUME TypeOK, Next, NEW e \in DepositIds, deposit[e] # Absent
  PROVE  /\ deposit'[e] # Absent
         /\ deposit'[e].user = deposit[e].user
         /\ deposit'[e].amount = deposit[e].amount
         /\ deposit'[e].provider = deposit[e].provider
<1> SUFFICES SameDeposit(deposit'[e], deposit[e])
  BY DEF SameDeposit
<1>1. deposit[e] \in Deposit
  BY DEF TypeOK
<1>2. ASSUME NEW row, row.status # "ABSENT", row.user = deposit[e].user,
             row.amount = deposit[e].amount, row.provider = deposit[e].provider,
             deposit'[e] = row
      PROVE  SameDeposit(deposit'[e], deposit[e])
  BY <1>2 DEF SameDeposit, Absent
<1>3. CASE deposit'[e] = deposit[e]
  BY <1>3 DEF SameDeposit
<1>4. ASSUME NEW s, NEW d \in DepositIds, deposit' = [deposit EXCEPT ![d].status = s],
             s # "ABSENT"
      PROVE  SameDeposit(deposit'[e], deposit[e])
  <2>1. CASE e # d
    BY <1>3, <1>4, <2>1 DEF TypeOK
  <2>2. CASE e = d
    <3> DEFINE row == [deposit[e] EXCEPT !.status = s]
    <3>1. /\ row.status = s /\ row.user = deposit[e].user
          /\ row.amount = deposit[e].amount /\ row.provider = deposit[e].provider
      BY <1>1 DEF Deposit
    <3>2. deposit'[e] = row
      BY <1>4, <2>2 DEF TypeOK
    <3> HIDE DEF row
    <3> QED BY <1>2, <1>4, <3>1, <3>2
  <2> QED BY <2>1, <2>2
<1>5. ASSUME NEW d \in DepositIds, NEW u \in Users, NEW amount \in Amounts,
             InitDeposit(d, u, amount) \/ AdminDeposit(d, u, amount)
      PROVE  SameDeposit(deposit'[e], deposit[e])
  BY <1>3, <1>5 DEF InitDeposit, AdminDeposit, TypeOK
<1>6. ASSUME NEW d \in DepositIds, LockEnds(d)
      PROVE  SameDeposit(deposit'[e], deposit[e])
  <2>1. CASE e # d
    BY <1>3, <1>6, <2>1 DEF LockEnds, TypeOK
  <2>2. CASE e = d
    <3> DEFINE row == [deposit[e] EXCEPT !.locked = FALSE]
    <3>1. /\ row.status # "ABSENT" /\ row.user = deposit[e].user
          /\ row.amount = deposit[e].amount /\ row.provider = deposit[e].provider
      BY <1>1 DEF Deposit
    <3>2. deposit'[e] = row
      BY <1>6, <2>2 DEF LockEnds, TypeOK
    <3> HIDE DEF row
    <3> QED BY <1>2, <3>1, <3>2
  <2> QED BY <2>1, <2>2
<1>7. ASSUME NEW h \in Handlers, IpnFail(h)
      PROVE  SameDeposit(deposit'[e], deposit[e])
  <2>1. ipn[h].d \in DepositIds
    BY <1>7, WorksOnDeposit DEF IpnFail, Idle
  <2> QED BY <1>4, <1>7, <2>1 DEF IpnFail
<1>8. ASSUME NEW h \in Handlers, IpnCommit(h)
      PROVE  SameDeposit(deposit'[e], deposit[e])
  <2> DEFINE row == [deposit[e] EXCEPT !.status = "SUCCESS", !.locked = TRUE]
  <2>1. ipn[h].d \in DepositIds
    BY <1>8, WorksOnDeposit DEF IpnCommit, Idle
  <2>2. deposit'[e] = deposit[e] \/ deposit'[e] = row
    BY <1>8, <2>1 DEF IpnCommit, TypeOK
  <2>3. /\ row.status # "ABSENT" /\ row.user = deposit[e].user
        /\ row.amount = deposit[e].amount /\ row.provider = deposit[e].provider
    BY <1>1 DEF Deposit
  <2> HIDE DEF row
  <2> QED BY <1>2, <1>3, <2>2, <2>3
<1>9. CASE UNCHANGED deposit
  BY <1>3, <1>9
<1>10. ASSUME NEW h \in Handlers, Ipn(h) \/ IpnFailure(h)
       PROVE  IpnFail(h) \/ IpnCommit(h) \/ UNCHANGED deposit
  BY <1>10 DEF Ipn, IpnRead, IpnCredit, IpnUnfit, IpnReferral, IpnCommission, IpnPayReferrer,
               IpnReferralBonus, EvalReadUser, EvalReadSum, EvalWrite, IpnFailure
<1>11. ASSUME NEW d \in DepositIds, NEW outcome \in {"SUCCESS", "FAILURE"},
              GatewayDecides(d, outcome)
       PROVE  UNCHANGED deposit
  BY <1>11 DEF GatewayDecides
<1>12. Crash => UNCHANGED deposit
  BY DEF Crash
<1> QED BY <1>5, <1>6, <1>7, <1>8, <1>9, <1>10, <1>11, <1>12 DEF Next

-----------------------------------------------------------------------------
(* The first-deposit bonus.  UniqueBonus is FirstBonusOnce without its        *)
(* condition on the status, which LockHolderKnows makes superfluous.          *)
UniqueBonus ==
  \A d, e \in DepositIds :
     entries[d].firstBonus > 0 /\ entries[e].firstBonus > 0 /\ deposit[d].user = deposit[e].user
       => d = e /\ entries[d].firstBonus = 1

BonusInv == TypeOK /\ LockHolderKnows /\ UniqueBonus

(* A step that gives no bonus and lets no handler into the transaction.       *)
LEMMA BonusFrame ==
  ASSUME BonusInv, Next, TypeOK',
         \A u \in Users : user'[u].firstDepositBonus = user[u].firstDepositBonus,
         \A e \in DepositIds : entries'[e].firstBonus = entries[e].firstBonus,
         \A g \in Handlers : ipn'[g].at = "credited" => ipn'[g] = ipn[g]
  PROVE  BonusInv'
<1>1. \A e \in DepositIds :
         deposit[e] # Absent => deposit'[e] # Absent /\ deposit'[e].user = deposit[e].user
  BY DepositStays DEF BonusInv
<1>2. \A g \in Handlers :
         ipn'[g].at = "credited" => ipn[g].at = "credited" /\ ipn'[g] = ipn[g] /\ UserOf(g)' = UserOf(g)
                                    /\ UserOf(g) \in Users
  <2> SUFFICES ASSUME NEW g \in Handlers, ipn'[g].at = "credited"
               PROVE  ipn[g].at = "credited" /\ ipn'[g] = ipn[g] /\ UserOf(g)' = UserOf(g)
                      /\ UserOf(g) \in Users
    OBVIOUS
  <2>1. ipn[g] # Idle /\ ipn'[g] = ipn[g]
    BY DEF Idle
  <2>2. ipn[g].d \in DepositIds /\ deposit[ipn[g].d] # Absent /\ UserOf(g) \in Users
    BY <2>1, WorksOnDeposit DEF BonusInv, TypeOK
  <2> QED BY <1>1, <2>1, <2>2 DEF UserOf
<1>3. \A e \in DepositIds : deposit[e] # Absent => deposit[e].user \in Users
  BY DEF BonusInv, TypeOK, Deposit
<1>4. LockHolderKnows'
  BY <1>1, <1>2, <1>3 DEF BonusInv, LockHolderKnows
<1>5. UniqueBonus'
  <2> SUFFICES ASSUME NEW d \in DepositIds, NEW e \in DepositIds,
                      entries'[d].firstBonus > 0, entries'[e].firstBonus > 0,
                      deposit'[d].user = deposit'[e].user
               PROVE  d = e /\ entries'[d].firstBonus = 1
    BY DEF UniqueBonus
  <2>1. entries[d].firstBonus > 0 /\ entries[e].firstBonus > 0
    OBVIOUS
  <2>2. deposit[d] # Absent /\ deposit[e] # Absent
    BY <2>1 DEF BonusInv, LockHolderKnows
  <2>3. deposit[d].user = deposit[e].user
    BY <1>1, <2>2
  <2> QED BY <2>1, <2>3 DEF BonusInv, UniqueBonus
<1> QED BY <1>4, <1>5 DEF BonusInv

(* The commit: nobody else is at this user's wallet, so if the handler has   *)
(* read FALSE no bonus was given, and now this one is.                       *)
LEMMA BonusCommit ==
  ASSUME BonusInv, Next, TypeOK', NEW h \in Handlers, IpnCommit(h)
  PROVE  BonusInv'
<1> DEFINE d == ipn[h].d
           u == UserOf(h)
<1>1. /\ ipn[h] # Idle /\ ipn[h].at = "credited"
      /\ d \in DepositIds /\ u \in Users /\ deposit[d] # Absent /\ u = deposit[d].user
      /\ ipn[h].saw \in BOOLEAN /\ ipn[h].saw = user[u].firstDepositBonus
  <2>1. ipn[h] # Idle /\ ipn[h].at = "credited" /\ TypeOK
    BY DEF IpnCommit, Idle, BonusInv
  <2>2. d \in DepositIds /\ u \in Users /\ ipn[h].saw \in BOOLEAN
    BY <2>1, WorksOnDeposit
  <2>3. deposit[d] # Absent /\ u = deposit[d].user
    BY <2>1 DEF TypeOK, UserOf
  <2>4. ipn[h].saw = user[u].firstDepositBonus
    BY <2>1 DEF BonusInv, LockHolderKnows
  <2> QED BY <2>1, <2>2, <2>3, <2>4
<1>2. ipn'[h].at = "referral" /\ \A g \in Handlers \ {h} : ipn'[g] = ipn[g]
  <2>1. TypeOK /\ Goto(h, "referral")
    BY DEF IpnCommit, BonusInv
  <2> QED BY <1>1, <2>1, HandlerMoves
<1>3. \A e \in DepositIds :
         deposit[e] # Absent => deposit'[e] # Absent /\ deposit'[e].user = deposit[e].user
  BY DepositStays DEF BonusInv
<1>4. /\ user'[u].firstDepositBonus
      /\ \A v \in Users \ {u} : user'[v] = user[v]
      /\ \A v \in Users : user[v].firstDepositBonus => user'[v].firstDepositBonus
  <2>1. user' = [user EXCEPT ![u].firstDepositBonus = TRUE]
    BY DEF IpnCommit
  <2>2. user \in [Users -> [firstDepositBonus : BOOLEAN, level : Levels]]
    BY DEF BonusInv, TypeOK
  <2>3. u \in Users
    BY <1>1
  <2> HIDE DEF u
  <2>4. /\ user'[u] = [user[u] EXCEPT !.firstDepositBonus = TRUE]
        /\ \A v \in Users \ {u} : user'[v] = user[v]
    BY <2>1, <2>2, <2>3
  <2>5. user'[u].firstDepositBonus
    BY <2>2, <2>3, <2>4
  <2> QED BY <2>3, <2>4, <2>5
<1>5. /\ \A e \in DepositIds \ {d} : entries'[e] = entries[e]
      /\ entries'[d].firstBonus = entries[d].firstBonus + (IF ipn[h].saw THEN 0 ELSE 1)
  <2> DEFINE bonus == IF ipn[h].saw THEN 0 ELSE 1
  <2>1. entries' = [entries EXCEPT ![d] = Recorded(entries[d], bonus)]
    BY DEF IpnCommit
  <2>2. entries[d] \in Entries
    BY <1>1 DEF BonusInv, TypeOK
  <2>3. Recorded(entries[d], bonus).firstBonus = entries[d].firstBonus + bonus
    <3> HIDE DEF bonus, d
    <3> QED BY <2>2 DEF Recorded, Entries
  <2> HIDE DEF d
  <2>4. entries'[d] = Recorded(entries[d], bonus)
    BY <1>1, <2>1 DEF BonusInv, TypeOK
  <2> QED BY <1>1, <2>1, <2>3, <2>4 DEF BonusInv, TypeOK
<1>6. ~ipn[h].saw => \A e \in DepositIds :
                        entries[e].firstBonus > 0 => deposit[e].user # u
  BY <1>1 DEF BonusInv, LockHolderKnows
<1>7. entries[d].firstBonus \in Nat
  BY <1>1 DEF BonusInv, TypeOK, Entries
<1>8. \A g \in Handlers : ipn'[g].at = "credited" =>
         /\ g # h /\ ipn[g].at = "credited" /\ ipn'[g] = ipn[g] /\ UserOf(g)' = UserOf(g)
         /\ UserOf(g) \in Users /\ UserOf(g) # u
  <2> SUFFICES ASSUME NEW g \in Handlers, ipn'[g].at = "credited"
               PROVE  /\ g # h /\ ipn[g].at = "credited" /\ ipn'[g] = ipn[g]
                      /\ UserOf(g)' = UserOf(g) /\ UserOf(g) \in Users /\ UserOf(g) # u
    OBVIOUS
  <2>1. g # h /\ ipn'[g] = ipn[g] /\ ipn[g].at = "credited" /\ ipn[g] # Idle
    BY <1>2 DEF Idle
  <2>2. ipn[g].d \in DepositIds /\ deposit[ipn[g].d] # Absent /\ UserOf(g) \in Users
    BY <2>1, WorksOnDeposit DEF BonusInv, TypeOK
  <2>3. UserOf(g) # u
    BY <1>1, <2>1 DEF BonusInv, LockHolderKnows
  <2> QED BY <1>3, <2>1, <2>2, <2>3 DEF UserOf
<1>9. \A e \in DepositIds : deposit[e] # Absent => deposit[e].user \in Users
  BY DEF BonusInv, TypeOK, Deposit
<1>10. \A e \in DepositIds : entries'[e].firstBonus > 0 =>
          deposit[e] # Absent /\ user'[deposit[e].user].firstDepositBonus
  <2> SUFFICES ASSUME NEW e \in DepositIds, entries'[e].firstBonus > 0
               PROVE  deposit[e] # Absent /\ user'[deposit[e].user].firstDepositBonus
    OBVIOUS
  <2>1. CASE e = d
    BY <1>1, <1>4, <2>1
  <2>2. CASE e # d
    BY <1>4, <1>5, <1>9, <2>2 DEF BonusInv, LockHolderKnows
  <2> QED BY <2>1, <2>2
<1> HIDE DEF d, u
<1>11. LockHolderKnows'
  <2>1. \A e \in DepositIds : entries'[e].firstBonus > 0 =>
           deposit'[e] # Absent /\ user'[deposit'[e].user].firstDepositBonus
    BY <1>3, <1>10
  <2>2. \A g \in Handlers : ipn'[g].at = "credited" =>
           ipn'[g].saw = user'[UserOf(g)'].firstDepositBonus
    BY <1>4, <1>8 DEF BonusInv, LockHolderKnows
  <2>3. \A g, k \in Handlers :
           ipn'[g].at = "credited" /\ ipn'[k].at = "credited" /\ UserOf(g)' = UserOf(k)' => g = k
    BY <1>8 DEF BonusInv, LockHolderKnows
  <2> QED BY <2>1, <2>2, <2>3 DEF LockHolderKnows
<1>12. UniqueBonus'
  <2> SUFFICES ASSUME NEW e \in DepositIds, NEW f \in DepositIds,
                      entries'[e].firstBonus > 0, entries'[f].firstBonus > 0,
                      deposit'[e].user = deposit'[f].user
               PROVE  e = f /\ entries'[e].firstBonus = 1
    BY DEF UniqueBonus
  <2>1. deposit[e].user = deposit[f].user
    BY <1>3, <1>10
  <2>2. CASE ipn[h].saw
    <3>1. entries'[d].firstBonus = entries[d].firstBonus
      BY <1>5, <1>7, <2>2
    <3>2. \A x \in DepositIds : entries'[x].firstBonus = entries[x].firstBonus
      BY <1>5, <3>1
    <3> QED BY <2>1, <3>2 DEF BonusInv, UniqueBonus
  <2>3. CASE ~ipn[h].saw
    <3>1. ~(entries[d].firstBonus > 0)
      BY <1>1, <1>6, <2>3
    <3>2. entries'[d].firstBonus = 1
      BY <1>5, <1>7, <2>3, <3>1
    <3>3. CASE e = d \/ f = d
      BY <1>1, <1>5, <1>6, <2>1, <2>3, <3>2, <3>3
    <3>4. CASE e # d /\ f # d
      BY <1>5, <2>1, <3>4 DEF BonusInv, UniqueBonus
    <3> QED BY <3>3, <3>4
  <2> QED BY <1>1, <2>2, <2>3
<1> QED BY <1>11, <1>12 DEF BonusInv

(* A handler gets into the transaction when nobody else is at the wallet.    *)
LEMMA BonusCredit ==
  ASSUME BonusInv, Next, TypeOK', NEW h \in Handlers, IpnCredit(h)
  PROVE  BonusInv'
<1>1. UNCHANGED <<wallet, user, deposit, entries, gateway>>
  BY DEF IpnCredit
<1>2. ipn[h] # Idle /\ WalletFree(UserOf(h)) /\ TypeOK
  BY DEF IpnCredit, Idle, BonusInv
<1>3. /\ ipn'[h].at = "credited" /\ ipn'[h].d = ipn[h].d
      /\ ipn'[h].saw = user[UserOf(h)].firstDepositBonus
      /\ \A g \in Handlers \ {h} : ipn'[g] = ipn[g]
  <2> DEFINE c == [ipn[h] EXCEPT !.at = "credited", !.saw = user[UserOf(h)].firstDepositBonus]
  <2>1. ipn' = [ipn EXCEPT ![h] = c]
    BY DEF IpnCredit
  <2>2. c.at = "credited" /\ c.d = ipn[h].d /\ c.saw = user[UserOf(h)].firstDepositBonus
    BY <1>2, WorksOnDeposit
  <2> HIDE DEF c
  <2> QED BY <1>2, <2>1, <2>2 DEF TypeOK
<1>4. \A g \in Handlers : UserOf(g)' = UserOf(g)
  BY <1>1, <1>3 DEF UserOf
<1>5. \A g \in Handlers \ {h} : ipn[g].at = "credited" => UserOf(g) # UserOf(h)
  BY <1>2 DEF WalletFree
<1>6. LockHolderKnows'
  <2>1. \A g \in Handlers : ipn'[g].at = "credited" =>
           ipn'[g].saw = user'[UserOf(g)'].firstDepositBonus
    BY <1>1, <1>3, <1>4 DEF BonusInv, LockHolderKnows
  <2>2. \A g, k \in Handlers :
           ipn'[g].at = "credited" /\ ipn'[k].at = "credited" /\ UserOf(g)' = UserOf(k)' => g = k
    BY <1>3, <1>4, <1>5 DEF BonusInv, LockHolderKnows
  <2>3. \A d \in DepositIds : entries'[d].firstBonus > 0 =>
           deposit'[d] # Absent /\ user'[deposit'[d].user].firstDepositBonus
    BY <1>1 DEF BonusInv, LockHolderKnows
  <2> QED BY <2>1, <2>2, <2>3 DEF LockHolderKnows
<1>7. UniqueBonus'
  BY <1>1 DEF BonusInv, UniqueBonus
<1> QED BY <1>6, <1>7 DEF BonusInv

LEMMA BonusStep == BonusInv /\ [Next]_vars => BonusInv'
<1> SUFFICES ASSUME BonusInv, [Next]_vars PROVE BonusInv'
  OBVIOUS
<1>0. TypeOK /\ TypeOK'
  BY DepositsTypeStep DEF BonusInv
<1>1. CASE UNCHANGED vars
  BY <1>1 DEF vars, BonusInv, TypeOK, LockHolderKnows, UniqueBonus, UserOf
<1> SUFFICES ASSUME Next PROVE BonusInv'
  BY <1>1
(* A handler that moves on does not move into the transaction ...            *)
<1>2. ASSUME NEW h \in Handlers, ipn[h] # Idle, NEW at, Goto(h, at), at # "credited"
      PROVE  \A g \in Handlers : ipn'[g].at = "credited" => ipn'[g] = ipn[g]
  BY <1>0, <1>2, HandlerMoves
(* ... nor does one that ends.                                               *)
<1>3. ASSUME NEW h \in Handlers, Done(h)
      PROVE  \A g \in Handlers : ipn'[g].at = "credited" => ipn'[g] = ipn[g]
  BY <1>0, <1>3, HandlerEnds DEF Idle
<1>4. ASSUME NEW d \in DepositIds, NEW u \in Users, NEW amount \in Amounts,
             InitDeposit(d, u, amount)
      PROVE  BonusInv'
  BY <1>0, <1>4, BonusFrame DEF InitDeposit
<1>5. ASSUME NEW d \in DepositIds, NEW u \in Users, NEW amount \in Amounts,
             AdminDeposit(d, u, amount)
      PROVE  BonusInv'
  <2>1. \A e \in DepositIds : entries'[e].firstBonus = entries[e].firstBonus
    BY <1>0, <1>5 DEF AdminDeposit, TypeOK, Entries
  <2> QED BY <1>0, <1>5, <2>1, BonusFrame DEF AdminDeposit
<1>6. ASSUME NEW d \in DepositIds, NEW outcome \in {"SUCCESS", "FAILURE"},
             GatewayDecides(d, outcome) \/ LockEnds(d)
      PROVE  BonusInv'
  BY <1>0, <1>6, BonusFrame DEF GatewayDecides, LockEnds
<1>7. ASSUME NEW h \in Handlers, NEW d \in DepositIds,
             NEW outcome \in {"SUCCESS", "FAILURE"}, IpnRead(h, d, outcome)
      PROVE  BonusInv'
  <2>1. ipn'[h].at # "credited" /\ \A g \in Handlers \ {h} : ipn'[g] = ipn[g]
    BY <1>0, <1>7 DEF IpnRead, TypeOK
  <2> QED BY <1>0, <1>7, <2>1, BonusFrame DEF IpnRead
<1>8. ASSUME NEW h \in Handlers, IpnFail(h) \/ IpnUnfit(h) \/ IpnFailure(h)
      PROVE  BonusInv'
  BY <1>0, <1>3, <1>8, BonusFrame DEF IpnFail, IpnUnfit, IpnFailure
<1>9. ASSUME NEW h \in Handlers, IpnReferral(h) \/ IpnPayReferrer(h)
      PROVE  BonusInv'
  <2>1. PICK at \in {"commission", "level", "bonus"} : Goto(h, at)
    BY <1>9 DEF IpnReferral, IpnPayReferrer
  <2>2. ipn[h] # Idle
    BY <1>9 DEF IpnReferral, IpnPayReferrer, Idle
  <2>3. \A g \in Handlers : ipn'[g].at = "credited" => ipn'[g] = ipn[g]
    BY <1>2, <2>1, <2>2
  <2>4. UNCHANGED <<user, entries>>
    BY <1>9 DEF IpnReferral, IpnPayReferrer
  <2> QED BY <1>0, <2>3, <2>4, BonusFrame
<1>10. ASSUME NEW h \in Handlers, IpnCommission(h) \/ IpnReferralBonus(h)
       PROVE  BonusInv'
  <2>1. PICK at \in {"pay", "level"} : Goto(h, at)
    BY <1>10 DEF IpnCommission, IpnReferralBonus
  <2>2. ipn[h] # Idle
    BY <1>10 DEF IpnCommission, IpnReferralBonus, Idle
  <2>3. \A g \in Handlers : ipn'[g].at = "credited" => ipn'[g] = ipn[g]
    BY <1>2, <2>1, <2>2
  <2>4. \A e \in DepositIds : entries'[e].firstBonus = entries[e].firstBonus
    BY <1>0, <1>10 DEF IpnCommission, IpnReferralBonus, TypeOK, Entries
  <2>5. user' = user
    BY <1>10 DEF IpnCommission, IpnReferralBonus
  <2> QED BY <1>0, <2>3, <2>4, <2>5, BonusFrame
<1>11. ASSUME NEW h \in Handlers, EvalReadUser(h) \/ EvalReadSum(h)
       PROVE  BonusInv'
  <2>1. ipn[h] # Idle
    BY <1>11 DEF EvalReadUser, EvalReadSum, Idle
  <2> DEFINE sum == [ipn[h] EXCEPT !.at = "sum", !.seen = user[UserOf(h)].level]
             evaluated == [ipn[h] EXCEPT !.at = "evaluated", !.target = Target(UserOf(h))]
  <2>2. sum.at = "sum" /\ evaluated.at = "evaluated"
    BY <1>0, <2>1, WorksOnDeposit
  <2>3. ipn' = [ipn EXCEPT ![h] = sum] \/ ipn' = [ipn EXCEPT ![h] = evaluated]
    BY <1>11 DEF EvalReadUser, EvalReadSum
  <2>4. ipn'[h].at # "credited" /\ \A g \in Handlers \ {h} : ipn'[g] = ipn[g]
    <3> HIDE DEF sum, evaluated
    <3> QED BY <1>0, <2>2, <2>3 DEF TypeOK
  <2> QED BY <1>0, <1>11, <2>4, BonusFrame DEF EvalReadUser, EvalReadSum
<1>12. ASSUME NEW h \in Handlers, EvalWrite(h)
       PROVE  BonusInv'
  <2>1. \A u \in Users : user'[u].firstDepositBonus = user[u].firstDepositBonus
    BY <1>0, <1>12 DEF EvalWrite, TypeOK
  <2>2. \A g \in Handlers : ipn'[g].at = "credited" => ipn'[g] = ipn[g]
    BY <1>3, <1>12 DEF EvalWrite
  <2> QED BY <1>0, <1>12, <2>1, <2>2, BonusFrame DEF EvalWrite
<1>13. CASE Crash
  <2>1. \A g \in Handlers : ipn'[g].at # "credited"
    BY <1>13 DEF Crash, Idle
  <2> QED BY <1>0, <1>13, <2>1, BonusFrame DEF Crash
<1>14. ASSUME NEW h \in Handlers, IpnCredit(h) \/ IpnCommit(h)
       PROVE  BonusInv'
  BY <1>0, <1>14, BonusCredit, BonusCommit
<1> QED BY <1>4, <1>5, <1>6, <1>7, <1>8, <1>9, <1>10, <1>11, <1>12, <1>13, <1>14 DEF Next, Ipn

LEMMA BonusStart == Init => BonusInv
<1>1. Init => TypeOK
  BY DEF Init, TypeOK, Wallet, Levels, Entries, NoEntries, Call, Idle
<1>2. ASSUME Init PROVE LockHolderKnows /\ UniqueBonus
  <2>1. \A h \in Handlers : ipn[h].at # "credited"
    BY <1>2 DEF Init, Idle
  <2>2. \A d \in DepositIds : ~(entries[d].firstBonus > 0)
    BY <1>2 DEF Init, NoEntries
  <2> QED BY <2>1, <2>2 DEF LockHolderKnows, UniqueBonus
<1> QED BY <1>1, <1>2 DEF BonusInv

(* No user gets the first-deposit bonus twice, however many webhook calls     *)
(* for one or several deposits overlap, fail or are repeated.                 *)
THEOREM OneFirstBonus == Spec => []FirstBonusOnce
<1>1. BonusInv => FirstBonusOnce
  BY DEF BonusInv, UniqueBonus, FirstBonusOnce, SameUser
<1> QED BY <1>1, BonusStart, BonusStep, PTL DEF Spec

-----------------------------------------------------------------------------
(* Crediting once: the deposits that never had two calls in flight at once.   *)
CreditInv == TypeOK /\ CheckHolds /\ CreditedOnce

BeforeOutcome == {"found", "failed", "credited"}

(* Handlers move on or end, and no status changes.                            *)
LEMMA CreditFrame ==
  ASSUME CreditInv, TypeOK', twice \subseteq twice',
         \A e \in DepositIds : /\ deposit'[e].status = deposit[e].status
                               /\ entries'[e].transactions = entries[e].transactions,
         \A g \in Handlers : ipn'[g] # Idle => ipn[g] # Idle /\ ipn'[g].d = ipn[g].d,
         \A g \in Handlers : ipn'[g].at \in BeforeOutcome => ipn[g].at \in BeforeOutcome
  PROVE  CreditInv'
<1>1. CreditedOnce'
  BY DEF CreditInv, CreditedOnce
<1>2. \A g \in Handlers : ipn'[g].at \in BeforeOutcome => ipn'[g] # Idle
  BY DEF BeforeOutcome, Idle
<1>3. \A g \in Handlers : ipn'[g] # Idle => ipn[g].d \in DepositIds
  BY WorksOnDeposit DEF CreditInv
<1>4. CheckHolds'
  BY <1>2, <1>3 DEF CreditInv, CheckHolds, BeforeOutcome
<1> QED BY <1>1, <1>4 DEF CreditInv

(* One deposit changes its status, and no handler relies on the old one.      *)
LEMMA CreditWrite ==
  ASSUME CreditInv, TypeOK', twice \subseteq twice', NEW d \in DepositIds,
         \A e \in DepositIds \ {d} : /\ deposit'[e].status = deposit[e].status
                                     /\ entries'[e].transactions = entries[e].transactions,
         d \notin twice =>
            entries'[d].transactions = IF deposit'[d].status = "SUCCESS" THEN 1 ELSE 0,
         \A g \in Handlers : ipn'[g] # Idle => ipn[g] # Idle /\ ipn'[g].d = ipn[g].d,
         \A g \in Handlers : ipn'[g].at \in BeforeOutcome =>
                                 ipn[g].at \in BeforeOutcome /\ (ipn[g].d # d \/ d \in twice)
  PROVE  CreditInv'
<1>1. CreditedOnce'
  BY DEF CreditInv, CreditedOnce
<1>2. \A g \in Handlers : ipn'[g].at \in BeforeOutcome => ipn'[g] # Idle
  BY DEF BeforeOutcome, Idle
<1>3. \A g \in Handlers : ipn'[g] # Idle => ipn[g].d \in DepositIds
  BY WorksOnDeposit DEF CreditInv
<1>4. CheckHolds'
  BY <1>2, <1>3 DEF CreditInv, CheckHolds, BeforeOutcome
<1> QED BY <1>1, <1>4 DEF CreditInv

LEMMA CreditStep == CreditInv /\ [Next]_vars => CreditInv'
<1> SUFFICES ASSUME CreditInv, [Next]_vars PROVE CreditInv'
  OBVIOUS
<1>0. TypeOK /\ TypeOK'
  BY DepositsTypeStep DEF CreditInv
<1>1. CASE UNCHANGED vars
  BY <1>1 DEF vars, CreditInv, TypeOK, CheckHolds, CreditedOnce
<1> SUFFICES ASSUME Next PROVE CreditInv'
  BY <1>1
<1>20. twice \subseteq twice'
  BY HistoryStays
(* A handler that moves on to a later place, or ends.                         *)
<1>2. ASSUME NEW h \in Handlers, ipn[h] # Idle, NEW at, Goto(h, at), at \notin BeforeOutcome
      PROVE  \A g \in Handlers :
               /\ ipn'[g] # Idle => ipn[g] # Idle /\ ipn'[g].d = ipn[g].d
               /\ ipn'[g].at \in BeforeOutcome => ipn[g].at \in BeforeOutcome /\ g # h
  BY <1>0, <1>2, HandlerMoves
<1>3. ASSUME NEW h \in Handlers, Done(h)
      PROVE  \A g \in Handlers :
               /\ ipn'[g] # Idle => ipn[g] # Idle /\ ipn'[g].d = ipn[g].d
               /\ ipn'[g].at \in BeforeOutcome => ipn[g].at \in BeforeOutcome /\ g # h
  BY <1>0, <1>3, HandlerEnds DEF Idle, BeforeOutcome
<1>4. ASSUME NEW d \in DepositIds, NEW u \in Users, NEW amount \in Amounts,
             InitDeposit(d, u, amount) \/ AdminDeposit(d, u, amount)
      PROVE  CreditInv'
  <2>1. deposit[d] = Absent /\ ipn' = ipn
    BY <1>4 DEF InitDeposit, AdminDeposit
  <2>2. d \notin twice => entries[d].transactions = 0
    BY <2>1 DEF CreditInv, CreditedOnce, Absent
  <2>3. \/ deposit'[d].status = "PENDING" /\ entries' = entries
        \/ deposit'[d].status = "SUCCESS" /\ (d \notin twice => entries'[d].transactions = 1)
    <3>1. CASE InitDeposit(d, u, amount)
      BY <1>0, <3>1 DEF InitDeposit, TypeOK
    <3>2. CASE AdminDeposit(d, u, amount)
      <4>1. entries[d] \in Entries
        BY <1>0 DEF TypeOK
      <4>2. entries'[d].transactions = entries[d].transactions + 1
        BY <1>0, <3>2, <4>1 DEF AdminDeposit, TypeOK, Entries
      <4> QED BY <1>0, <2>2, <3>2, <4>2 DEF AdminDeposit, TypeOK
    <3> QED BY <1>4, <3>1, <3>2
  <2>4. \A e \in DepositIds \ {d} : deposit'[e] = deposit[e] /\ entries'[e] = entries[e]
    BY <1>0, <1>4 DEF InitDeposit, AdminDeposit, TypeOK
  <2>5. \A g \in Handlers : ipn[g].at \in BeforeOutcome => ipn[g] # Idle /\ ipn[g].d # d
    BY <1>0, <2>1 DEF TypeOK, BeforeOutcome, Idle
  <2> QED BY <1>0, <2>1, <2>2, <2>3, <2>4, <2>5, <1>20, CreditWrite
<1>5. ASSUME NEW d \in DepositIds, NEW outcome \in {"SUCCESS", "FAILURE"},
             GatewayDecides(d, outcome)
      PROVE  CreditInv'
  BY <1>0, <1>5, <1>20, CreditFrame DEF GatewayDecides
<1>6. ASSUME NEW d \in DepositIds, LockEnds(d)
      PROVE  CreditInv'
  <2>1. deposit[d] \in Deposit
    BY <1>0, <1>6 DEF LockEnds, TypeOK, Absent
  <2>2. \A e \in DepositIds : deposit'[e].status = deposit[e].status
    BY <1>0, <1>6, <2>1 DEF LockEnds, TypeOK, Deposit
  <2>3. UNCHANGED <<entries, ipn>>
    BY <1>6 DEF LockEnds
  <2> QED BY <1>0, <2>2, <2>3, <1>20, CreditFrame
<1>7. ASSUME NEW h \in Handlers, NEW d \in DepositIds,
             NEW outcome \in {"SUCCESS", "FAILURE"}, IpnRead(h, d, outcome)
      PROVE  CreditInv'
  <2>1. UNCHANGED <<deposit, entries>> /\ ipn[h] = Idle /\ deposit[d].status = "PENDING"
    BY <1>7 DEF IpnRead, StillPending
  <2>2. /\ ipn'[h].d = d
        /\ \A g \in Handlers \ {h} : ipn'[g] = ipn[g]
    BY <1>0, <1>7 DEF IpnRead, TypeOK
  <2>3. \A g \in Handlers : ipn[g] # Idle /\ ipn[g].d = d => d \in twice'
    BY <1>7 DEF IpnRead
  <2>4. CheckHolds'
    BY <1>20, <2>1, <2>2, <2>3 DEF CreditInv, CheckHolds, Idle
  <2> QED BY <1>0, <1>20, <2>1, <2>4 DEF CreditInv, CreditedOnce
<1>8. ASSUME NEW h \in Handlers, IpnFail(h)
      PROVE  CreditInv'
  <2> DEFINE d == ipn[h].d
  <2>1. ipn[h] # Idle /\ d \in DepositIds /\ deposit[d] \in Deposit
    BY <1>0, <1>8, WorksOnDeposit DEF IpnFail, Idle
  <2>2. d \notin twice => deposit[d].status = "PENDING"
    BY <1>8, <2>1 DEF IpnFail, CreditInv, CheckHolds
  <2>3. /\ deposit'[d].status = "FAILED"
        /\ \A e \in DepositIds \ {d} : deposit'[e] = deposit[e]
        /\ entries' = entries
    BY <1>0, <1>8, <2>1 DEF IpnFail, TypeOK, Deposit
  <2>4. \A g \in Handlers :
          /\ ipn'[g] # Idle => ipn[g] # Idle /\ ipn'[g].d = ipn[g].d
          /\ ipn'[g].at \in BeforeOutcome => ipn[g].at \in BeforeOutcome /\ g # h
    BY <1>3, <1>8 DEF IpnFail
  <2>5. \A g \in Handlers : ipn[g].at \in BeforeOutcome /\ g # h => ipn[g].d # d \/ d \in twice
    BY <2>1 DEF CreditInv, CheckHolds, BeforeOutcome, Idle
  <2>6. d \notin twice => entries[d].transactions = 0
    BY <2>1, <2>2 DEF CreditInv, CreditedOnce
  <2> HIDE DEF d
  <2> QED BY <1>0, <2>1, <2>3, <2>4, <2>5, <2>6, <1>20, CreditWrite
<1>9. ASSUME NEW h \in Handlers, IpnCommit(h)
      PROVE  CreditInv'
  <2> DEFINE d == ipn[h].d
  <2>1. ipn[h] # Idle /\ d \in DepositIds /\ deposit[d] \in Deposit
    BY <1>0, <1>9, WorksOnDeposit DEF IpnCommit, Idle
  <2>2. d \notin twice => deposit[d].status = "PENDING"
    BY <1>9, <2>1 DEF IpnCommit, CreditInv, CheckHolds
  <2>3. deposit'[d].status = "SUCCESS" /\ \A e \in DepositIds \ {d} : deposit'[e] = deposit[e]
    <3>1. deposit' = [deposit EXCEPT ![d] = [deposit[d] EXCEPT !.status = "SUCCESS",
                                                               !.locked = TRUE]]
      BY <1>9 DEF IpnCommit
    <3>2. [deposit[d] EXCEPT !.status = "SUCCESS", !.locked = TRUE].status = "SUCCESS"
      BY <2>1 DEF Deposit
    <3> HIDE DEF d
    <3> QED BY <1>0, <2>1, <3>1, <3>2 DEF TypeOK
  <2>4. \A g \in Handlers :
          /\ ipn'[g] # Idle => ipn[g] # Idle /\ ipn'[g].d = ipn[g].d
          /\ ipn'[g].at \in BeforeOutcome => ipn[g].at \in BeforeOutcome /\ g # h
    BY <1>2, <1>9, <2>1 DEF IpnCommit, BeforeOutcome
  <2>5. \A g \in Handlers : ipn[g].at \in BeforeOutcome /\ g # h => ipn[g].d # d \/ d \in twice
    BY <2>1 DEF CreditInv, CheckHolds, BeforeOutcome, Idle
  <2>6. d \notin twice => entries[d].transactions = 0
    BY <2>1, <2>2 DEF CreditInv, CreditedOnce
  <2>7. (d \notin twice => entries'[d].transactions = 1) /\ \A e \in DepositIds \ {d} : entries'[e] = entries[e]
    <3> DEFINE bonus == IF ipn[h].saw THEN 0 ELSE 1
    <3>1. entries' = [entries EXCEPT ![d] = Recorded(entries[d], bonus)]
      BY <1>9 DEF IpnCommit
    <3>2. entries[d] \in Entries
      BY <1>0, <2>1 DEF TypeOK
    <3> HIDE DEF bonus, d
    <3>3. Recorded(entries[d], bonus).transactions = entries[d].transactions + 1
      BY <3>2 DEF Recorded, Entries
    <3>4. entries'[d] = Recorded(entries[d], bonus)
      BY <1>0, <2>1, <3>1 DEF TypeOK
    <3>5. \A e \in DepositIds \ {d} : entries'[e] = entries[e]
      BY <1>0, <3>1 DEF TypeOK
    <3> QED BY <2>6, <3>3, <3>4, <3>5
  <2> HIDE DEF d
  <2> QED BY <1>0, <2>1, <2>3, <2>4, <2>5, <2>7, <1>20, CreditWrite
<1>10. ASSUME NEW h \in Handlers, IpnUnfit(h) \/ IpnFailure(h)
       PROVE  CreditInv'
  BY <1>0, <1>3, <1>10, <1>20, CreditFrame DEF IpnUnfit, IpnFailure
<1>11. ASSUME NEW h \in Handlers, IpnReferral(h) \/ IpnPayReferrer(h)
       PROVE  CreditInv'
  <2>1. PICK at \in {"commission", "level", "bonus"} : Goto(h, at)
    BY <1>11 DEF IpnReferral, IpnPayReferrer
  <2>2. ipn[h] # Idle /\ UNCHANGED <<deposit, entries>>
    BY <1>11 DEF IpnReferral, IpnPayReferrer, Idle
  <2>3. at \notin BeforeOutcome
    BY <2>1 DEF BeforeOutcome
  <2> QED BY <1>0, <1>2, <2>1, <2>2, <2>3, <1>20, CreditFrame
<1>12. ASSUME NEW h \in Handlers, IpnCommission(h) \/ IpnReferralBonus(h)
       PROVE  CreditInv'
  <2>1. PICK at \in {"pay", "level"} : Goto(h, at)
    BY <1>12 DEF IpnCommission, IpnReferralBonus
  <2>2. ipn[h] # Idle /\ deposit' = deposit
    BY <1>12 DEF IpnCommission, IpnReferralBonus, Idle
  <2>3. at \notin BeforeOutcome
    BY <2>1 DEF BeforeOutcome
  <2>4. \A e \in DepositIds : entries'[e].transactions = entries[e].transactions
    BY <1>0, <1>12 DEF IpnCommission, IpnReferralBonus, TypeOK, Entries
  <2> QED BY <1>0, <1>2, <2>1, <2>2, <2>3, <2>4, <1>20, CreditFrame
<1>13. ASSUME NEW h \in Handlers, EvalReadUser(h) \/ EvalReadSum(h) \/ IpnCredit(h)
       PROVE  CreditInv'
  <2> DEFINE sum == [ipn[h] EXCEPT !.at = "sum", !.seen = user[UserOf(h)].level]
             evaluated == [ipn[h] EXCEPT !.at = "evaluated", !.target = Target(UserOf(h))]
             credited == [ipn[h] EXCEPT !.at = "credited",
                                        !.saw = user[UserOf(h)].firstDepositBonus]
  <2>1. ipn[h] # Idle /\ UNCHANGED <<deposit, entries>>
    BY <1>13 DEF EvalReadUser, EvalReadSum, IpnCredit, Idle
  <2>2. /\ sum.at = "sum" /\ sum.d = ipn[h].d
        /\ evaluated.at = "evaluated" /\ evaluated.d = ipn[h].d
        /\ credited.at = "credited" /\ credited.d = ipn[h].d
    BY <1>0, <2>1, WorksOnDeposit
  <2>3. \/ ipn' = [ipn EXCEPT ![h] = sum]
        \/ ipn' = [ipn EXCEPT ![h] = evaluated]
        \/ ipn' = [ipn EXCEPT ![h] = credited] /\ ipn[h].at = "found"
    BY <1>13 DEF EvalReadUser, EvalReadSum, IpnCredit
  <2>4. \A g \in Handlers :
          /\ ipn'[g] # Idle => ipn[g] # Idle /\ ipn'[g].d = ipn[g].d
          /\ ipn'[g].at \in BeforeOutcome => ipn[g].at \in BeforeOutcome
    <3> HIDE DEF sum, evaluated, credited
    <3> QED BY <1>0, <2>1, <2>2, <2>3 DEF TypeOK, BeforeOutcome
  <2> QED BY <1>0, <2>1, <2>4, <1>20, CreditFrame
<1>14. ASSUME NEW h \in Handlers, EvalWrite(h)
       PROVE  CreditInv'
  BY <1>0, <1>3, <1>14, <1>20, CreditFrame DEF EvalWrite
<1>15. CASE Crash
  <2>1. \A g \in Handlers : ipn'[g] = Idle /\ ipn'[g].at \notin BeforeOutcome
    BY <1>15 DEF Crash, Idle, BeforeOutcome
  <2> QED BY <1>0, <1>15, <2>1, <1>20, CreditFrame DEF Crash
<1> QED BY <1>4, <1>5, <1>6, <1>7, <1>8, <1>9, <1>10, <1>11, <1>12, <1>13, <1>14, <1>15
        DEF Next, Ipn

LEMMA CreditStart == Init => CreditInv
<1>1. Init => TypeOK
  BY DEF Init, TypeOK, Wallet, Levels, Entries, NoEntries, Call, Idle
<1>2. ASSUME Init PROVE CheckHolds /\ CreditedOnce
  <2>1. \A h \in Handlers : ipn[h] = Idle /\ ipn[h].at \notin BeforeOutcome
    BY <1>2 DEF Init, Idle, BeforeOutcome
  <2>2. \A d \in DepositIds : entries[d].transactions = 0 /\ deposit[d].status = "ABSENT"
    BY <1>2 DEF Init, NoEntries, Absent
  <2> QED BY <2>1, <2>2 DEF CheckHolds, CreditedOnce, BeforeOutcome
<1> QED BY <1>1, <1>2 DEF CreditInv

(* No deposit is credited twice, and none is credited that did not become     *)
(* SUCCESS, however its calls fail, are repeated and contradict each other,   *)
(* unless two calls for it were in flight at once (deposit.service.ts:114).   *)
THEOREM NoDoubleCredit == Spec => []CreditedOnce
<1>1. CreditInv => CreditedOnce
  BY DEF CreditInv
<1> QED BY <1>1, CreditStart, CreditStep, PTL DEF Spec

-----------------------------------------------------------------------------
(* What each step writes, field by field.                                     *)
LEMMA AdminDepositDoes ==
  ASSUME TypeOK, NEW d \in DepositIds, NEW u \in Users, NEW amount \in Amounts,
         AdminDeposit(d, u, amount)
  PROVE  /\ deposit[d] = Absent
         /\ deposit'[d] \in Deposit /\ deposit'[d].user = u /\ deposit'[d].amount = amount
         /\ deposit'[d].status = "SUCCESS" /\ deposit'[d].provider = "admin-manual"
         /\ \A e \in DepositIds \ {d} : deposit'[e] = deposit[e] /\ entries'[e] = entries[e]
         /\ entries'[d].transactions = entries[d].transactions + 1
         /\ entries'[d].firstBonus = entries[d].firstBonus
         /\ entries'[d].commission = entries[d].commission
         /\ entries'[d].referralBonus = entries[d].referralBonus
         /\ wallet'[u].balance = wallet[u].balance + amount
         /\ \A v \in Users \ {u} : wallet'[v] = wallet[v]
         /\ UNCHANGED <<user, gateway, ipn>>
<1>1. /\ deposit' = [deposit EXCEPT ![d] = [user |-> u, amount |-> amount,
                                           provider |-> "admin-manual", status |-> "SUCCESS",
                                           locked |-> FALSE]]
      /\ wallet' = Move(wallet, u, amount, 0)
      /\ entries' = [entries EXCEPT ![d].transactions = @ + 1]
      /\ deposit[d] = Absent /\ UNCHANGED <<user, gateway, ipn>>
  BY DEF AdminDeposit
<1>2. deposit \in [DepositIds -> Deposit \cup {Absent}] /\ entries \in [DepositIds -> Entries]
      /\ wallet \in [Users -> Wallet]
  BY DEF TypeOK
<1>3. /\ deposit'[d] = [user |-> u, amount |-> amount, provider |-> "admin-manual",
                        status |-> "SUCCESS", locked |-> FALSE]
      /\ \A e \in DepositIds \ {d} : deposit'[e] = deposit[e] /\ entries'[e] = entries[e]
  BY <1>1, <1>2
<1>4. deposit'[d] \in Deposit
  BY <1>3 DEF Deposit
<1>5. /\ entries'[d].transactions = entries[d].transactions + 1
      /\ entries'[d].firstBonus = entries[d].firstBonus
      /\ entries'[d].commission = entries[d].commission
      /\ entries'[d].referralBonus = entries[d].referralBonus
  BY <1>1, <1>2 DEF Entries
<1>6. /\ wallet'[u].balance = wallet[u].balance + amount
      /\ \A v \in Users \ {u} : wallet'[v] = wallet[v]
  BY <1>1, <1>2 DEF Move
<1> QED BY <1>1, <1>3, <1>4, <1>5, <1>6

(* What the commit of handler h writes for deposit d of user u                *)
Committed(h, d, u) ==
  /\ ipn[h].at = "credited" /\ ipn[h] # Idle
  /\ d \in DepositIds /\ deposit[d] \in Deposit /\ u \in Users /\ u = deposit[d].user
  /\ deposit[d].amount \in Nat /\ deposit[d] # Absent
  /\ deposit'[d].status = "SUCCESS"
  /\ \A e \in DepositIds \ {d} : deposit'[e] = deposit[e] /\ entries'[e] = entries[e]
  /\ entries'[d].transactions = entries[d].transactions + 1
  /\ entries'[d].firstBonus = entries[d].firstBonus + (IF ipn[h].saw THEN 0 ELSE 1)
  /\ entries'[d].commission = entries[d].commission
  /\ entries'[d].referralBonus = entries[d].referralBonus
  /\ wallet'[u].balance = wallet[u].balance
                          + (deposit[d].amount + (IF ipn[h].saw THEN 0 ELSE Bonus(d)))
  /\ \A v \in Users \ {u} : wallet'[v] = wallet[v]
  /\ user'[u].firstDepositBonus = TRUE /\ user'[u].level = user[u].level
  /\ \A v \in Users \ {u} : user'[v] = user[v]
  /\ ipn'[h].at = "referral" /\ ipn'[h].d = d
  /\ \A g \in Handlers \ {h} : ipn'[g] = ipn[g]
  /\ gateway' = gateway

LEMMA CommitDoes ==
  ASSUME TypeOK, NEW h \in Handlers, IpnCommit(h), NEW d, d = ipn[h].d, NEW u, u = UserOf(h)
  PROVE  Committed(h, d, u)
<1> DEFINE bonus == IF ipn[h].saw THEN 0 ELSE 1
           money == deposit[d].amount + (IF ipn[h].saw THEN 0 ELSE Bonus(d))
           row == [deposit[d] EXCEPT !.status = "SUCCESS", !.locked = TRUE]
<1>1. /\ deposit' = [deposit EXCEPT ![d] = row]
      /\ wallet' = Move(wallet, u, money, 0)
      /\ user' = [user EXCEPT ![u].firstDepositBonus = TRUE]
      /\ entries' = [entries EXCEPT ![d] = Recorded(entries[d], bonus)]
      /\ Goto(h, "referral") /\ gateway' = gateway
      /\ ipn[h].at = "credited" /\ ipn[h] # Idle
  BY DEF IpnCommit, Idle
<1>2. /\ deposit \in [DepositIds -> Deposit \cup {Absent}] /\ entries \in [DepositIds -> Entries]
      /\ wallet \in [Users -> Wallet]
      /\ user \in [Users -> [firstDepositBonus : BOOLEAN, level : Levels]]
  BY DEF TypeOK
<1>3. /\ d \in DepositIds /\ deposit[d] \in Deposit /\ u \in Users /\ u = deposit[d].user
      /\ deposit[d].amount \in Nat /\ deposit[d] # Absent
  BY <1>1, WorksOnDeposit, DepositIsNotAbsent DEF UserOf
<1>4. row.status = "SUCCESS"
  BY <1>3 DEF Deposit
<1>5. bonus \in Nat /\ entries[d] \in Entries
  BY <1>2, <1>3
<1> HIDE DEF bonus, money, row
<1>6. /\ deposit'[d] = row
      /\ \A e \in DepositIds \ {d} : deposit'[e] = deposit[e] /\ entries'[e] = entries[e]
      /\ entries'[d] = Recorded(entries[d], bonus)
  BY <1>1, <1>2, <1>3
<1>7. /\ Recorded(entries[d], bonus).transactions = entries[d].transactions + 1
      /\ Recorded(entries[d], bonus).firstBonus = entries[d].firstBonus + bonus
      /\ Recorded(entries[d], bonus).commission = entries[d].commission
      /\ Recorded(entries[d], bonus).referralBonus = entries[d].referralBonus
  BY <1>5 DEF Recorded, Entries
<1>8. /\ wallet'[u].balance = wallet[u].balance + money
      /\ \A v \in Users \ {u} : wallet'[v] = wallet[v]
  BY <1>1, <1>2, <1>3 DEF Move
<1>9. /\ user'[u].firstDepositBonus = TRUE /\ user'[u].level = user[u].level
      /\ \A v \in Users \ {u} : user'[v] = user[v]
  BY <1>1, <1>2, <1>3
<1>10. /\ ipn'[h].at = "referral" /\ ipn'[h].d = d
       /\ \A g \in Handlers \ {h} : ipn'[g] = ipn[g]
  BY <1>1, HandlerMoves
<1>11. entries'[d].firstBonus = entries[d].firstBonus + (IF ipn[h].saw THEN 0 ELSE 1)
  BY <1>6, <1>7 DEF bonus
<1>12. wallet'[u].balance = wallet[u].balance
                            + (deposit[d].amount + (IF ipn[h].saw THEN 0 ELSE Bonus(d)))
  BY <1>8 DEF money
<1>13. /\ deposit'[d].status = "SUCCESS"
       /\ entries'[d].transactions = entries[d].transactions + 1
       /\ entries'[d].commission = entries[d].commission
       /\ entries'[d].referralBonus = entries[d].referralBonus
  BY <1>4, <1>6, <1>7
<1> QED BY <1>1, <1>3, <1>6, <1>8, <1>9, <1>10, <1>11, <1>12, <1>13, Zenon DEF Committed

LEMMA RowDoes ==
  ASSUME TypeOK, NEW h \in Handlers, IpnCommission(h) \/ IpnReferralBonus(h),
         NEW d, d = ipn[h].d
  PROVE  /\ ipn[h] # Idle /\ d \in DepositIds /\ deposit[d] \in Deposit /\ deposit[d] # Absent
         /\ \A e \in DepositIds \ {d} : entries'[e] = entries[e]
         /\ entries'[d].transactions = entries[d].transactions
         /\ entries'[d].firstBonus = entries[d].firstBonus
         /\ IpnCommission(h) =>
               /\ ipn[h].at = "commission" /\ ipn'[h].at = "pay"
               /\ entries'[d].commission = entries[d].commission + 1
               /\ entries'[d].referralBonus = entries[d].referralBonus
         /\ IpnReferralBonus(h) =>
               /\ ipn[h].at = "bonus" /\ ipn'[h].at = "level"
               /\ entries'[d].commission = entries[d].commission
               /\ entries'[d].referralBonus = entries[d].referralBonus + 1
         /\ ipn'[h].d = d /\ \A g \in Handlers \ {h} : ipn'[g] = ipn[g]
         /\ UNCHANGED <<wallet, user, deposit, gateway>>
<1>1. ipn[h] # Idle /\ UNCHANGED <<wallet, user, deposit, gateway>>
  BY DEF IpnCommission, IpnReferralBonus, Idle
<1>2. d \in DepositIds /\ deposit[d] \in Deposit /\ deposit[d] # Absent
  BY <1>1, WorksOnDeposit, DepositIsNotAbsent
<1>3. entries \in [DepositIds -> Entries] /\ entries[d] \in Entries
  BY <1>2 DEF TypeOK
<1>4. CASE IpnCommission(h)
  <2>1. /\ entries' = [entries EXCEPT ![d].commission = @ + 1] /\ ipn[h].at = "commission"
        /\ Goto(h, "pay") /\ ~IpnReferralBonus(h)
    BY <1>4 DEF IpnCommission, IpnReferralBonus
  <2>2. /\ ipn'[h].at = "pay" /\ ipn'[h].d = d /\ \A g \in Handlers \ {h} : ipn'[g] = ipn[g]
    BY <1>1, <2>1, HandlerMoves
  <2>3. /\ \A e \in DepositIds \ {d} : entries'[e] = entries[e]
        /\ entries'[d].transactions = entries[d].transactions
        /\ entries'[d].firstBonus = entries[d].firstBonus
        /\ entries'[d].commission = entries[d].commission + 1
        /\ entries'[d].referralBonus = entries[d].referralBonus
    BY <1>2, <1>3, <2>1 DEF Entries
  <2> QED BY <1>1, <1>2, <1>4, <2>1, <2>2, <2>3
<1>5. CASE IpnReferralBonus(h)
  <2>1. /\ entries' = [entries EXCEPT ![d].referralBonus = @ + 1] /\ ipn[h].at = "bonus"
        /\ Goto(h, "level") /\ ~IpnCommission(h)
    BY <1>5 DEF IpnCommission, IpnReferralBonus
  <2>2. /\ ipn'[h].at = "level" /\ ipn'[h].d = d /\ \A g \in Handlers \ {h} : ipn'[g] = ipn[g]
    BY <1>1, <2>1, HandlerMoves
  <2>3. /\ \A e \in DepositIds \ {d} : entries'[e] = entries[e]
        /\ entries'[d].transactions = entries[d].transactions
        /\ entries'[d].firstBonus = entries[d].firstBonus
        /\ entries'[d].commission = entries[d].commission
        /\ entries'[d].referralBonus = entries[d].referralBonus + 1
    BY <1>2, <1>3, <2>1 DEF Entries
  <2> QED BY <1>1, <1>2, <1>5, <2>1, <2>2, <2>3
<1> QED BY <1>4, <1>5

LEMMA PayDoes ==
  ASSUME TypeOK, NEW h \in Handlers, IpnPayReferrer(h), NEW d, d = ipn[h].d
  PROVE  /\ ipn[h] # Idle /\ d \in DepositIds /\ deposit[d] \in Deposit /\ deposit[d] # Absent
         /\ ipn[h].at = "pay" /\ ipn'[h].at = "bonus" /\ ipn'[h].d = d
         /\ \A g \in Handlers \ {h} : ipn'[g] = ipn[g]
         /\ \A v \in Users : wallet'[v].balance = wallet[v].balance
                                + (IF v = Referrer[deposit[d].user] THEN Commission(d) ELSE 0)
         /\ UNCHANGED <<user, deposit, entries, gateway>>
<1> DEFINE r == Referrer[deposit[d].user]
           money == Commission(d)
<1>1. /\ ipn[h] # Idle /\ ipn[h].at = "pay" /\ Goto(h, "bonus")
      /\ UNCHANGED <<user, deposit, entries, gateway>>
      /\ wallet' = Move(wallet, r, money, 0)
  BY DEF IpnPayReferrer, Idle, UserOf
<1>2. d \in DepositIds /\ deposit[d] \in Deposit /\ deposit[d] # Absent
      /\ deposit[d].amount \in Nat
  BY <1>1, WorksOnDeposit, DepositIsNotAbsent
<1>3. ipn'[h].at = "bonus" /\ ipn'[h].d = d /\ \A g \in Handlers \ {h} : ipn'[g] = ipn[g]
  BY <1>1, HandlerMoves
<1>4. money \in Int /\ wallet \in [Users -> Wallet]
  BY <1>2, MoneyIsInt DEF Commission, TypeOK
<1>5. \A v \in Users : wallet'[v].balance = wallet[v].balance + (IF v = r THEN money ELSE 0)
  <2> HIDE DEF r, money
  <2> QED BY <1>1, <1>4 DEF Move, Wallet
<1> QED BY <1>1, <1>2, <1>3, <1>5, Zenon

LEMMA EvaluationDoes ==
  ASSUME TypeOK, NEW h \in Handlers
  PROVE  /\ IpnCredit(h) =>
               /\ ipn[h].at = "found" /\ ipn'[h].at = "credited"
               /\ ipn'[h].d = ipn[h].d /\ \A g \in Handlers \ {h} : ipn'[g] = ipn[g]
               /\ ipn[h] # Idle
         /\ EvalReadUser(h) =>
               /\ ipn[h].at = "level" /\ ipn'[h].at = "sum"
               /\ ipn'[h].seen = user[UserOf(h)].level
               /\ ipn'[h].d = ipn[h].d /\ \A g \in Handlers \ {h} : ipn'[g] = ipn[g]
               /\ ipn[h] # Idle
         /\ EvalReadSum(h) =>
               /\ ipn[h].at = "sum" /\ ipn'[h].at = "evaluated"
               /\ ipn'[h].seen = ipn[h].seen /\ ipn'[h].target = Target(UserOf(h))
               /\ ipn'[h].d = ipn[h].d /\ \A g \in Handlers \ {h} : ipn'[g] = ipn[g]
               /\ ipn[h] # Idle
<1> DEFINE sum == [ipn[h] EXCEPT !.at = "sum", !.seen = user[UserOf(h)].level]
           evaluated == [ipn[h] EXCEPT !.at = "evaluated", !.target = Target(UserOf(h))]
           credited == [ipn[h] EXCEPT !.at = "credited",
                                      !.saw = user[UserOf(h)].firstDepositBonus]
<1>1. CASE ipn[h] = Idle
  BY <1>1 DEF IpnCredit, EvalReadUser, EvalReadSum, Idle
<1>2. CASE ipn[h] # Idle
  <2>1. /\ sum.at = "sum" /\ sum.d = ipn[h].d /\ sum.seen = user[UserOf(h)].level
        /\ evaluated.at = "evaluated" /\ evaluated.d = ipn[h].d /\ evaluated.seen = ipn[h].seen
        /\ evaluated.target = Target(UserOf(h))
        /\ credited.at = "credited" /\ credited.d = ipn[h].d
    BY <1>2, WorksOnDeposit
  <2>2. /\ IpnCredit(h) => ipn[h].at = "found" /\ ipn' = [ipn EXCEPT ![h] = credited]
        /\ EvalReadUser(h) => ipn[h].at = "level" /\ ipn' = [ipn EXCEPT ![h] = sum]
        /\ EvalReadSum(h) => ipn[h].at = "sum" /\ ipn' = [ipn EXCEPT ![h] = evaluated]
    BY DEF IpnCredit, EvalReadUser, EvalReadSum
  <2>3. \A c : ipn' = [ipn EXCEPT ![h] = c] =>
                  ipn'[h] = c /\ \A g \in Handlers \ {h} : ipn'[g] = ipn[g]
    BY DEF TypeOK
  <2> HIDE DEF sum, evaluated, credited
  <2> QED BY <1>2, <2>1, <2>2, <2>3
<1> QED BY <1>1, <1>2

-----------------------------------------------------------------------------
(* Where the money of a balance comes from, with the commissions a handler    *)
(* has written down but not paid, or paid but not entered as a bonus.         *)
OwnPart(u, row, e) ==
  IF row # Absent /\ row.user = u
  THEN e.transactions * row.amount
       + e.firstBonus * Percent(DEPOSIT_BONUS_PERCENT, row.amount)
  ELSE 0
ReferredPart(u, row, n) ==
  IF row # Absent /\ Referrer[row.user] = u
  THEN n * Percent(REFERRAL_BONUS_PERCENT, row.amount) ELSE 0

OwnShare(u) == [d \in DepositIds |-> OwnPart(u, deposit[d], entries[d])]
BeforeShare(u) == [d \in DepositIds |-> ReferredPart(u, deposit[d], entries[d].commission)]
AfterShare(u) == [d \in DepositIds |-> ReferredPart(u, deposit[d], entries[d].referralBonus)]
HandlerShare(at, u) ==
  [h \in Handlers |-> IF ipn[h].at = at THEN ReferredPart(u, deposit[ipn[h].d], 1) ELSE 0]

Owned(u) == SumFunctionOnSet(OwnShare(u), DepositIds)
Before(u) == SumFunctionOnSet(BeforeShare(u), DepositIds)
After(u) == SumFunctionOnSet(AfterShare(u), DepositIds)
InFlight(at, u) == SumFunctionOnSet(HandlerShare(at, u), Handlers)

(* Nothing points to a deposit that does not exist yet.                       *)
AbsentIsEmpty == \A d \in DepositIds : deposit[d] = Absent => entries[d] = NoEntries

Traced(u) == /\ wallet[u].balance >= Owned(u) + After(u) + InFlight("bonus", u)
             /\ wallet[u].balance + InFlight("pay", u) <= Owned(u) + Before(u)

TraceInv == TypeOK /\ AbsentIsEmpty /\ \A u \in Users : Traced(u)

LEMMA ProductsAreNat == \A a, b \in Nat : a * b \in Nat
OBVIOUS

LEMMA OneMore ==
  \A a, b \in Nat : (a + 1) * b = a * b + b /\ (a + 0) * b = a * b /\ 0 * b = 0 /\ 1 * b = b
OBVIOUS

LEMMA PercentsAreNat == \A a \in Nat : /\ Percent(DEPOSIT_BONUS_PERCENT, a) \in Nat
                                       /\ Percent(REFERRAL_BONUS_PERCENT, a) \in Nat
BY DEF Percent, DEPOSIT_BONUS_PERCENT, REFERRAL_BONUS_PERCENT

LEMMA OwnPartIsNat ==
  ASSUME NEW u, NEW row \in Deposit \cup {Absent}, NEW e \in Entries
  PROVE  OwnPart(u, row, e) \in Nat
<1>1. CASE row # Absent
  <2> DEFINE percent == Percent(DEPOSIT_BONUS_PERCENT, row.amount)
  <2>1. row.amount \in Nat
    BY <1>1, DepositsAssumption DEF Deposit
  <2>2. percent \in Nat
    BY <2>1, PercentsAreNat
  <2>3. e.transactions \in Nat /\ e.firstBonus \in Nat
    BY DEF Entries
  <2> HIDE DEF percent
  <2>4. e.transactions * row.amount \in Nat /\ e.firstBonus * percent \in Nat
    BY <2>1, <2>2, <2>3, ProductsAreNat
  <2>5. e.transactions * row.amount + e.firstBonus * percent \in Nat
    BY <2>4
  <2> QED BY <2>5 DEF OwnPart, percent
<1>2. CASE row = Absent
  BY <1>2 DEF OwnPart
<1> QED BY <1>1, <1>2

LEMMA ReferredPartIsNat ==
  ASSUME NEW u, NEW row \in Deposit \cup {Absent}, NEW n \in Nat
  PROVE  ReferredPart(u, row, n) \in Nat
<1>1. CASE row # Absent
  <2> DEFINE percent == Percent(REFERRAL_BONUS_PERCENT, row.amount)
  <2>1. row.amount \in Nat
    BY <1>1, DepositsAssumption DEF Deposit
  <2>2. percent \in Nat
    BY <2>1, PercentsAreNat
  <2> HIDE DEF percent
  <2>3. n * percent \in Nat
    BY <2>2, ProductsAreNat
  <2> QED BY <2>3 DEF ReferredPart, percent
<1>2. CASE row = Absent
  BY <1>2 DEF ReferredPart
<1> QED BY <1>1, <1>2

(* The shares are natural numbers, and so are their sums.                     *)
LEMMA SharesAreNat ==
  ASSUME TypeOK, NEW u \in Users
  PROVE  /\ \A d \in DepositIds : /\ OwnShare(u)[d] \in Nat
                                  /\ BeforeShare(u)[d] \in Nat
                                  /\ AfterShare(u)[d] \in Nat
         /\ \A at \in {"pay", "bonus"} : \A h \in Handlers : HandlerShare(at, u)[h] \in Nat
<1>1. ASSUME NEW d \in DepositIds
      PROVE  /\ OwnShare(u)[d] \in Nat
             /\ BeforeShare(u)[d] \in Nat
             /\ AfterShare(u)[d] \in Nat
  <2>1. deposit[d] \in Deposit \cup {Absent} /\ entries[d] \in Entries
    BY DEF TypeOK
  <2>2. entries[d].commission \in Nat /\ entries[d].referralBonus \in Nat
    BY <2>1 DEF Entries
  <2> QED BY <2>1, <2>2, OwnPartIsNat, ReferredPartIsNat DEF OwnShare, BeforeShare, AfterShare
<1>2. ASSUME NEW at \in {"pay", "bonus"}, NEW h \in Handlers
      PROVE  HandlerShare(at, u)[h] \in Nat
  <2>1. CASE ipn[h] # Idle
    <3>1. deposit[ipn[h].d] \in Deposit \cup {Absent}
      BY <2>1, WorksOnDeposit
    <3>2. 1 \in Nat
      OBVIOUS
    <3>3. ReferredPart(u, deposit[ipn[h].d], 1) \in Nat
      BY ONLY <3>1, <3>2, ReferredPartIsNat
    <3> QED BY <3>3 DEF HandlerShare
  <2>2. CASE ipn[h] = Idle
    BY <2>2 DEF HandlerShare, Idle
  <2> QED BY <2>1, <2>2
<1> QED BY <1>1, <1>2

SharesNat ==
  \A u \in Users :
     /\ \A d \in DepositIds : /\ OwnShare(u)[d] \in Nat
                              /\ BeforeShare(u)[d] \in Nat
                              /\ AfterShare(u)[d] \in Nat
     /\ \A at \in {"pay", "bonus"} : \A h \in Handlers : HandlerShare(at, u)[h] \in Nat

LEMMA SharesHold == TypeOK => SharesNat
BY SharesAreNat DEF SharesNat

LEMMA SharesHoldNext == TypeOK' => SharesNat'
BY SharesHold, PTL

LEMMA TotalsAreNat ==
  ASSUME TypeOK, NEW u \in Users
  PROVE  /\ Owned(u) \in Nat /\ Before(u) \in Nat /\ After(u) \in Nat
         /\ InFlight("pay", u) \in Nat /\ InFlight("bonus", u) \in Nat
<1>1. IsFiniteSet(DepositIds) /\ IsFiniteSet(Handlers)
  BY DepositsAssumption
<1>2. SumFunctionOnSet(OwnShare(u), DepositIds) \in Nat
  <2>1. \A d \in DepositIds : OwnShare(u)[d] \in Nat
    BY SharesAreNat
  <2> QED BY <1>1, <2>1, SumNat
<1>3. SumFunctionOnSet(BeforeShare(u), DepositIds) \in Nat
  <2>1. \A d \in DepositIds : BeforeShare(u)[d] \in Nat
    BY SharesAreNat
  <2> QED BY <1>1, <2>1, SumNat
<1>4. SumFunctionOnSet(AfterShare(u), DepositIds) \in Nat
  <2>1. \A d \in DepositIds : AfterShare(u)[d] \in Nat
    BY SharesAreNat
  <2> QED BY <1>1, <2>1, SumNat
<1>5. SumFunctionOnSet(HandlerShare("pay", u), Handlers) \in Nat
  <2>1. \A h \in Handlers : HandlerShare("pay", u)[h] \in Nat
    BY SharesAreNat
  <2> QED BY <1>1, <2>1, SumNat
<1>6. SumFunctionOnSet(HandlerShare("bonus", u), Handlers) \in Nat
  <2>1. \A h \in Handlers : HandlerShare("bonus", u)[h] \in Nat
    BY SharesAreNat
  <2> QED BY <1>1, <2>1, SumNat
<1> QED BY <1>2, <1>3, <1>4, <1>5, <1>6 DEF Owned, Before, After, InFlight

TotalsNat == \A u \in Users : /\ Owned(u) \in Nat /\ Before(u) \in Nat /\ After(u) \in Nat
                              /\ InFlight("pay", u) \in Nat /\ InFlight("bonus", u) \in Nat

LEMMA TotalsHold == TypeOK => TotalsNat
BY TotalsAreNat DEF TotalsNat

LEMMA TotalsHoldNext == TypeOK' => TotalsNat'
BY TotalsHold, PTL

(* The rows of one deposit change, and the totals with them.                  *)
LEMMA RowTotals ==
  ASSUME TypeOK, TypeOK', NEW u \in Users, NEW d \in DepositIds,
         \A e \in DepositIds \ {d} : deposit'[e] = deposit[e] /\ entries'[e] = entries[e]
  PROVE  /\ Owned(u)' = Owned(u) - OwnPart(u, deposit[d], entries[d])
                                 + OwnPart(u, deposit'[d], entries'[d])
         /\ Before(u)' = Before(u) - ReferredPart(u, deposit[d], entries[d].commission)
                                   + ReferredPart(u, deposit'[d], entries'[d].commission)
         /\ After(u)' = After(u) - ReferredPart(u, deposit[d], entries[d].referralBonus)
                                 + ReferredPart(u, deposit'[d], entries'[d].referralBonus)
<1>1. IsFiniteSet(DepositIds)
  BY DepositsAssumption
<1>2. \A e \in DepositIds : /\ OwnShare(u)[e] \in Nat /\ OwnShare(u)'[e] \in Nat
                            /\ BeforeShare(u)[e] \in Nat /\ BeforeShare(u)'[e] \in Nat
                            /\ AfterShare(u)[e] \in Nat /\ AfterShare(u)'[e] \in Nat
  <2>1. \A e \in DepositIds : OwnShare(u)[e] \in Nat /\ BeforeShare(u)[e] \in Nat
                              /\ AfterShare(u)[e] \in Nat
    BY SharesAreNat
  <2>2. (\A e \in DepositIds : OwnShare(u)[e] \in Nat /\ BeforeShare(u)[e] \in Nat
                               /\ AfterShare(u)[e] \in Nat)'
    BY SharesHoldNext DEF SharesNat
  <2> QED BY <2>1, <2>2
<1>3. \A e \in DepositIds \ {d} : /\ OwnShare(u)'[e] = OwnShare(u)[e]
                                  /\ BeforeShare(u)'[e] = BeforeShare(u)[e]
                                  /\ AfterShare(u)'[e] = AfterShare(u)[e]
  BY DEF OwnShare, BeforeShare, AfterShare
<1>4. /\ OwnShare(u)[d] = OwnPart(u, deposit[d], entries[d])
      /\ OwnShare(u)'[d] = OwnPart(u, deposit'[d], entries'[d])
      /\ BeforeShare(u)[d] = ReferredPart(u, deposit[d], entries[d].commission)
      /\ BeforeShare(u)'[d] = ReferredPart(u, deposit'[d], entries'[d].commission)
      /\ AfterShare(u)[d] = ReferredPart(u, deposit[d], entries[d].referralBonus)
      /\ AfterShare(u)'[d] = ReferredPart(u, deposit'[d], entries'[d].referralBonus)
  BY DEF OwnShare, BeforeShare, AfterShare
<1>5. SumFunctionOnSet(OwnShare(u)', DepositIds)
        = SumFunctionOnSet(OwnShare(u), DepositIds) - OwnShare(u)[d] + OwnShare(u)'[d]
  <2>1. \A e \in DepositIds : OwnShare(u)[e] \in Int /\ OwnShare(u)'[e] \in Int
    BY <1>2
  <2>2. \A e \in DepositIds \ {d} : OwnShare(u)'[e] = OwnShare(u)[e]
    BY <1>3
  <2> QED BY ONLY <1>1, <2>1, <2>2, SumChange, d \in DepositIds
<1>6. SumFunctionOnSet(BeforeShare(u)', DepositIds)
        = SumFunctionOnSet(BeforeShare(u), DepositIds) - BeforeShare(u)[d] + BeforeShare(u)'[d]
  <2>1. \A e \in DepositIds : BeforeShare(u)[e] \in Int /\ BeforeShare(u)'[e] \in Int
    BY <1>2
  <2>2. \A e \in DepositIds \ {d} : BeforeShare(u)'[e] = BeforeShare(u)[e]
    BY <1>3
  <2> QED BY ONLY <1>1, <2>1, <2>2, SumChange, d \in DepositIds
<1>7. SumFunctionOnSet(AfterShare(u)', DepositIds)
        = SumFunctionOnSet(AfterShare(u), DepositIds) - AfterShare(u)[d] + AfterShare(u)'[d]
  <2>1. \A e \in DepositIds : AfterShare(u)[e] \in Int /\ AfterShare(u)'[e] \in Int
    BY <1>2
  <2>2. \A e \in DepositIds \ {d} : AfterShare(u)'[e] = AfterShare(u)[e]
    BY <1>3
  <2> QED BY ONLY <1>1, <2>1, <2>2, SumChange, d \in DepositIds
<1> QED BY <1>4, <1>5, <1>6, <1>7 DEF Owned, Before, After

(* No deposit's share changes.                                                *)
LEMMA SameTotals ==
  ASSUME NEW u \in Users,
         \A d \in DepositIds :
            /\ OwnPart(u, deposit'[d], entries'[d]) = OwnPart(u, deposit[d], entries[d])
            /\ ReferredPart(u, deposit'[d], entries'[d].commission)
                  = ReferredPart(u, deposit[d], entries[d].commission)
            /\ ReferredPart(u, deposit'[d], entries'[d].referralBonus)
                  = ReferredPart(u, deposit[d], entries[d].referralBonus)
  PROVE  Owned(u)' = Owned(u) /\ Before(u)' = Before(u) /\ After(u)' = After(u)
<1>1. /\ OwnShare(u)' = OwnShare(u)
      /\ BeforeShare(u)' = BeforeShare(u)
      /\ AfterShare(u)' = AfterShare(u)
  BY DEF OwnShare, BeforeShare, AfterShare
<1> QED BY <1>1 DEF Owned, Before, After

(* No handler begins to owe money, and some may end.                          *)
LEMMA QuietHandlers ==
  ASSUME TypeOK, TypeOK', NEW u \in Users, NEW at \in {"pay", "bonus"},
         \A g \in Handlers : ipn'[g].at = at =>
            /\ ipn[g].at = at
            /\ ReferredPart(u, deposit'[ipn'[g].d], 1) = ReferredPart(u, deposit[ipn[g].d], 1)
  PROVE  InFlight(at, u)' <= InFlight(at, u)
<1>1. IsFiniteSet(Handlers)
  BY DepositsAssumption
<1>2. \A g \in Handlers : HandlerShare(at, u)[g] \in Nat
  BY SharesAreNat
<1>3. \A g \in Handlers : HandlerShare(at, u)'[g] \in Nat
  BY SharesHoldNext DEF SharesNat
<1>4. \A g \in Handlers : HandlerShare(at, u)'[g] <= HandlerShare(at, u)[g]
  BY <1>2, <1>3 DEF HandlerShare
<1>5. \A g \in Handlers : HandlerShare(at, u)'[g] \in Int /\ HandlerShare(at, u)[g] \in Int
                          /\ HandlerShare(at, u)'[g] <= HandlerShare(at, u)[g]
  BY <1>2, <1>3, <1>4
<1>6. SumFunctionOnSet(HandlerShare(at, u)', Handlers)
        <= SumFunctionOnSet(HandlerShare(at, u), Handlers)
  BY ONLY <1>1, <1>5, SumAtMost
<1> QED BY <1>6 DEF InFlight

(* One handler changes its place, and no deposit its user or amount.          *)
LEMMA HandlerTotals ==
  ASSUME TypeOK, TypeOK', NEW u \in Users, NEW at \in {"pay", "bonus"}, NEW h \in Handlers,
         \A g \in Handlers \ {h} : ipn'[g] = ipn[g], ipn'[h].d = ipn[h].d,
         deposit' = deposit
  PROVE  InFlight(at, u)'
           = InFlight(at, u)
             - (IF ipn[h].at = at THEN ReferredPart(u, deposit[ipn[h].d], 1) ELSE 0)
             + (IF ipn'[h].at = at THEN ReferredPart(u, deposit[ipn[h].d], 1) ELSE 0)
<1>1. IsFiniteSet(Handlers)
  BY DepositsAssumption
<1>2. \A g \in Handlers : HandlerShare(at, u)[g] \in Nat
  BY SharesAreNat
<1>3. \A g \in Handlers : HandlerShare(at, u)'[g] \in Nat
  BY SharesHoldNext DEF SharesNat
<1>4. \A g \in Handlers \ {h} : HandlerShare(at, u)'[g] = HandlerShare(at, u)[g]
  BY DEF HandlerShare
<1>5. /\ HandlerShare(at, u)[h]
           = IF ipn[h].at = at THEN ReferredPart(u, deposit[ipn[h].d], 1) ELSE 0
      /\ HandlerShare(at, u)'[h]
           = IF ipn'[h].at = at THEN ReferredPart(u, deposit[ipn[h].d], 1) ELSE 0
  BY DEF HandlerShare
<1>6. \A g \in Handlers : HandlerShare(at, u)[g] \in Int /\ HandlerShare(at, u)'[g] \in Int
  BY <1>2, <1>3
<1>7. SumFunctionOnSet(HandlerShare(at, u)', Handlers)
        = SumFunctionOnSet(HandlerShare(at, u), Handlers) - HandlerShare(at, u)[h]
          + HandlerShare(at, u)'[h]
  BY ONLY <1>1, <1>4, <1>6, SumChange, h \in Handlers
<1> QED BY <1>5, <1>7 DEF InFlight

(* A share depends on the user and the amount of a deposit only.              *)
LEMMA SharesFollowRows ==
  ASSUME NEW u, NEW new, NEW old, new # Absent, old # Absent,
         new.user = old.user, new.amount = old.amount
  PROVE  /\ \A e : OwnPart(u, new, e) = OwnPart(u, old, e)
         /\ \A n : ReferredPart(u, new, n) = ReferredPart(u, old, n)
BY DEF OwnPart, ReferredPart

(* Deposits with nothing pointing to them contribute nothing.                 *)
LEMMA NothingFromNoEntries ==
  ASSUME NEW u, NEW row \in Deposit \cup {Absent}
  PROVE  /\ OwnPart(u, row, NoEntries) = 0
         /\ ReferredPart(u, row, NoEntries.commission) = 0
         /\ ReferredPart(u, row, NoEntries.referralBonus) = 0
<1>1. NoEntries.transactions = 0 /\ NoEntries.firstBonus = 0 /\ NoEntries.commission = 0
      /\ NoEntries.referralBonus = 0
  BY DEF NoEntries
<1>2. CASE row # Absent
  <2> DEFINE first == Percent(DEPOSIT_BONUS_PERCENT, row.amount)
             referral == Percent(REFERRAL_BONUS_PERCENT, row.amount)
  <2>1. row.amount \in Nat
    BY <1>2, DepositsAssumption DEF Deposit
  <2>2. first \in Nat /\ referral \in Nat
    BY <2>1, PercentsAreNat
  <2> HIDE DEF first, referral
  <2>3. 0 * row.amount = 0 /\ 0 * first = 0 /\ 0 * referral = 0
    BY <2>1, <2>2, OneMore
  <2> QED BY <1>1, <2>3 DEF OwnPart, ReferredPart, first, referral
<1>3. CASE row = Absent
  BY <1>3 DEF OwnPart, ReferredPart
<1> QED BY <1>2, <1>3

(* A step that moves no money and changes no entries.                         *)
LEMMA TraceFrame ==
  ASSUME TraceInv, Next, TypeOK', UNCHANGED <<wallet, entries>>,
         \A d \in DepositIds : deposit'[d] = Absent => deposit[d] = Absent,
         \A g \in Handlers : ipn'[g].at \in {"pay", "bonus"} => ipn'[g] = ipn[g]
  PROVE  TraceInv'
<1>0. TypeOK /\ AbsentIsEmpty
  BY DEF TraceInv
<1>1. AbsentIsEmpty'
  BY <1>0 DEF AbsentIsEmpty
<1>2. ASSUME NEW u \in Users PROVE Traced(u)'
  <2>1. \A d \in DepositIds :
           /\ OwnPart(u, deposit'[d], entries'[d]) = OwnPart(u, deposit[d], entries[d])
           /\ ReferredPart(u, deposit'[d], entries'[d].commission)
                = ReferredPart(u, deposit[d], entries[d].commission)
           /\ ReferredPart(u, deposit'[d], entries'[d].referralBonus)
                = ReferredPart(u, deposit[d], entries[d].referralBonus)
    <3> TAKE d \in DepositIds
    <3>1. CASE deposit[d] # Absent
      <4>1. /\ deposit'[d] # Absent
            /\ deposit'[d].user = deposit[d].user
            /\ deposit'[d].amount = deposit[d].amount
        BY <1>0, <3>1, DepositStays
      <4> QED BY <3>1, <4>1, SharesFollowRows
    <3>2. CASE deposit[d] = Absent
      <4>1. entries[d] = NoEntries /\ entries'[d] = NoEntries
        BY <1>0, <3>2 DEF AbsentIsEmpty
      <4>2. deposit[d] \in Deposit \cup {Absent} /\ deposit'[d] \in Deposit \cup {Absent}
        BY <1>0 DEF TypeOK
      <4> QED BY <4>1, <4>2, NothingFromNoEntries
    <3> QED BY <3>1, <3>2
  <2>2. Owned(u)' = Owned(u) /\ Before(u)' = Before(u) /\ After(u)' = After(u)
    BY <2>1, SameTotals
  <2>3. ASSUME NEW at \in {"pay", "bonus"} PROVE InFlight(at, u)' <= InFlight(at, u)
    <3>1. ASSUME NEW g \in Handlers, ipn'[g].at = at
          PROVE  /\ ipn[g].at = at
                 /\ ReferredPart(u, deposit'[ipn'[g].d], 1) = ReferredPart(u, deposit[ipn[g].d], 1)
      <4>1. ipn'[g] = ipn[g] /\ ipn[g].at = at /\ ipn[g] # Idle
        BY <3>1 DEF Idle
      <4> DEFINE d == ipn[g].d
      <4>2. d \in DepositIds /\ deposit[d] # Absent
        BY <1>0, <4>1, WorksOnDeposit DEF TypeOK
      <4> HIDE DEF d
      <4>3. /\ deposit'[d] # Absent
            /\ deposit'[d].user = deposit[d].user
            /\ deposit'[d].amount = deposit[d].amount
        BY <1>0, <4>2, DepositStays
      <4>4. ReferredPart(u, deposit'[d], 1) = ReferredPart(u, deposit[d], 1)
        BY <4>2, <4>3, SharesFollowRows
      <4> QED BY <4>1, <4>4 DEF d
    <3> QED BY <1>0, <3>1, QuietHandlers
  <2>4. InFlight("pay", u)' <= InFlight("pay", u) /\ InFlight("bonus", u)' <= InFlight("bonus", u)
    BY <2>3
  <2>5. /\ Owned(u) \in Nat /\ Before(u) \in Nat /\ After(u) \in Nat
        /\ InFlight("pay", u) \in Nat /\ InFlight("bonus", u) \in Nat
    BY <1>0, TotalsAreNat
  <2>6. InFlight("pay", u)' \in Nat /\ InFlight("bonus", u)' \in Nat
    BY TotalsHoldNext DEF TotalsNat
  <2>7. wallet[u].balance \in Int /\ wallet'[u].balance = wallet[u].balance
    BY <1>0 DEF TypeOK, Wallet
  <2> QED BY <2>2, <2>4, <2>5, <2>6, <2>7 DEF TraceInv, Traced
<1> QED BY <1>1, <1>2 DEF TraceInv

(* A transaction writes a deposit, its row and the money together.            *)
LEMMA TraceCredit ==
  ASSUME TraceInv, Next, TypeOK', NEW d \in DepositIds, NEW v \in Users, NEW bonus \in {0, 1},
         deposit'[d] # Absent, deposit'[d].user = v,
         \A e \in DepositIds \ {d} : deposit'[e] = deposit[e] /\ entries'[e] = entries[e],
         entries'[d].transactions = entries[d].transactions + 1,
         entries'[d].firstBonus = entries[d].firstBonus + bonus,
         entries'[d].commission = entries[d].commission,
         entries'[d].referralBonus = entries[d].referralBonus,
         wallet'[v].balance = wallet[v].balance + deposit'[d].amount
              + bonus * Percent(DEPOSIT_BONUS_PERCENT, deposit'[d].amount),
         \A u \in Users \ {v} : wallet'[u] = wallet[u],
         \A g \in Handlers : ipn'[g].at \in {"pay", "bonus"} => ipn'[g] = ipn[g]
  PROVE  TraceInv'
<1>0. TypeOK /\ AbsentIsEmpty
  BY DEF TraceInv
<1>1. AbsentIsEmpty'
  BY <1>0 DEF AbsentIsEmpty
<1>2. /\ deposit[d] \in Deposit \cup {Absent} /\ deposit'[d] \in Deposit
      /\ entries[d] \in Entries /\ entries'[d] \in Entries
  BY <1>0 DEF TypeOK
<1> DEFINE amount == deposit'[d].amount
           percent == Percent(DEPOSIT_BONUS_PERCENT, amount)
<1>3. amount \in Nat /\ percent \in Nat
  <2>1. amount \in Nat
    BY <1>2, DepositsAssumption DEF Deposit
  <2> QED BY <2>1, PercentsAreNat
<1>4. deposit[d] # Absent => deposit[d].user = v /\ deposit[d].amount = amount
  BY <1>0, DepositStays
<1>5. ASSUME NEW u \in Users
      PROVE  /\ OwnPart(u, deposit'[d], entries'[d])
                  = OwnPart(u, deposit[d], entries[d])
                    + (IF u = v THEN amount + bonus * percent ELSE 0)
             /\ ReferredPart(u, deposit'[d], entries'[d].commission)
                  = ReferredPart(u, deposit[d], entries[d].commission)
             /\ ReferredPart(u, deposit'[d], entries'[d].referralBonus)
                  = ReferredPart(u, deposit[d], entries[d].referralBonus)
  <2>1. /\ entries[d].transactions \in Nat /\ entries[d].firstBonus \in Nat
        /\ deposit[d] = Absent => entries[d].transactions = 0 /\ entries[d].firstBonus = 0
                                  /\ entries[d].commission = 0 /\ entries[d].referralBonus = 0
    BY <1>0, <1>2 DEF AbsentIsEmpty, NoEntries, Entries
  <2>2. OwnPart(u, deposit'[d], entries'[d])
          = IF u = v THEN (entries[d].transactions + 1) * amount
                          + (entries[d].firstBonus + bonus) * percent
                     ELSE 0
    BY DEF OwnPart
  <2>3. OwnPart(u, deposit[d], entries[d])
          = IF u = v THEN entries[d].transactions * amount + entries[d].firstBonus * percent
                     ELSE 0
    <3>1. CASE deposit[d] # Absent
      BY <1>4, <3>1 DEF OwnPart
    <3>2. CASE deposit[d] = Absent
      <4> HIDE DEF amount, percent
      <4>1. 0 * amount = 0 /\ 0 * percent = 0
        BY <1>3, OneMore
      <4> QED BY <2>1, <3>2, <4>1 DEF OwnPart
    <3> QED BY <3>1, <3>2
  <2>4. /\ ReferredPart(u, deposit'[d], entries'[d].commission)
             = ReferredPart(u, deposit[d], entries[d].commission)
        /\ ReferredPart(u, deposit'[d], entries'[d].referralBonus)
             = ReferredPart(u, deposit[d], entries[d].referralBonus)
    <3>1. CASE deposit[d] # Absent
      BY <1>4, <3>1, SharesFollowRows
    <3>2. CASE deposit[d] = Absent
      <4>1. NoEntries.commission = 0 /\ NoEntries.referralBonus = 0
        BY DEF NoEntries
      <4> QED BY <1>2, <2>1, <3>2, <4>1, NothingFromNoEntries
    <3> QED BY <3>1, <3>2
  <2> HIDE DEF amount, percent
  <2>5. /\ (entries[d].transactions + 1) * amount = entries[d].transactions * amount + amount
        /\ (entries[d].firstBonus + bonus) * percent
              = entries[d].firstBonus * percent + bonus * percent
        /\ entries[d].transactions * amount \in Nat
        /\ entries[d].firstBonus * percent \in Nat /\ bonus * percent \in Nat
    <3>1. (entries[d].transactions + 1) * amount = entries[d].transactions * amount + amount
      BY <1>3, <2>1, OneMore
    <3>2. (entries[d].firstBonus + bonus) * percent
             = entries[d].firstBonus * percent + bonus * percent
      BY <1>3, <2>1, OneMore
    <3>3. entries[d].transactions * amount \in Nat /\ entries[d].firstBonus * percent \in Nat
      BY <1>3, <2>1, ProductsAreNat
    <3>4. bonus * percent \in Nat
      BY <1>3, OneMore
    <3> QED BY <3>1, <3>2, <3>3, <3>4
  <2> QED BY <1>3, <2>2, <2>3, <2>4, <2>5
<1>6. ASSUME NEW u \in Users PROVE Traced(u)'
  <2> DEFINE more == IF u = v THEN amount + bonus * percent ELSE 0
  <2>1. /\ Owned(u)' = Owned(u) - OwnPart(u, deposit[d], entries[d])
                                 + OwnPart(u, deposit'[d], entries'[d])
        /\ Before(u)' = Before(u) - ReferredPart(u, deposit[d], entries[d].commission)
                                   + ReferredPart(u, deposit'[d], entries'[d].commission)
        /\ After(u)' = After(u) - ReferredPart(u, deposit[d], entries[d].referralBonus)
                                 + ReferredPart(u, deposit'[d], entries'[d].referralBonus)
    BY <1>0, RowTotals
  <2>2. /\ OwnPart(u, deposit[d], entries[d]) \in Nat
        /\ ReferredPart(u, deposit[d], entries[d].commission) \in Nat
        /\ ReferredPart(u, deposit[d], entries[d].referralBonus) \in Nat
    <3>1. entries[d].commission \in Nat /\ entries[d].referralBonus \in Nat
      BY <1>2 DEF Entries
    <3> QED BY <1>2, <3>1, OwnPartIsNat, ReferredPartIsNat
  <2>3. /\ Owned(u) \in Nat /\ Before(u) \in Nat /\ After(u) \in Nat
        /\ InFlight("pay", u) \in Nat /\ InFlight("bonus", u) \in Nat
    BY <1>0, TotalsAreNat
  <2>4. more \in Int
    <3> HIDE DEF amount, percent
    <3>1. bonus * percent \in Nat
      BY <1>3, OneMore
    <3> QED BY <1>3, <3>1
  <2>5. OwnPart(u, deposit'[d], entries'[d]) = OwnPart(u, deposit[d], entries[d]) + more
    BY <1>5
  <2>6. wallet'[u].balance = wallet[u].balance + more /\ wallet[u].balance \in Int
    <3>1. wallet[u] \in Wallet
      BY <1>0 DEF TypeOK
    <3>2. CASE u = v
      <4> HIDE DEF amount, percent
      <4>1. bonus * percent \in Nat
        BY <1>3, OneMore
      <4> QED BY <1>3, <3>1, <3>2, <4>1 DEF Wallet, amount, percent
    <3>3. CASE u # v
      BY <3>1, <3>3 DEF Wallet
    <3> QED BY <3>2, <3>3
  <2> HIDE DEF more, amount, percent
  <2>7. Owned(u)' = Owned(u) + more /\ Before(u)' = Before(u) /\ After(u)' = After(u)
    <3>1. OwnPart(u, deposit[d], entries[d]) + more \in Int
      BY <2>2, <2>4
    <3> QED BY <1>5, <2>1, <2>2, <2>3, <2>4, <2>5
  <2>8. ASSUME NEW at \in {"pay", "bonus"} PROVE InFlight(at, u)' <= InFlight(at, u)
    <3>1. ASSUME NEW g \in Handlers, ipn'[g].at = at
          PROVE  /\ ipn[g].at = at
                 /\ ReferredPart(u, deposit'[ipn'[g].d], 1) = ReferredPart(u, deposit[ipn[g].d], 1)
      <4>1. ipn'[g] = ipn[g] /\ ipn[g].at = at /\ ipn[g] # Idle
        BY <3>1 DEF Idle
      <4> DEFINE e == ipn[g].d
      <4>2. e \in DepositIds /\ deposit[e] # Absent
        BY <1>0, <4>1, WorksOnDeposit DEF TypeOK
      <4> HIDE DEF e
      <4>3. /\ deposit'[e] # Absent
            /\ deposit'[e].user = deposit[e].user
            /\ deposit'[e].amount = deposit[e].amount
        BY <1>0, <4>2, DepositStays
      <4>4. ReferredPart(u, deposit'[e], 1) = ReferredPart(u, deposit[e], 1)
        BY <4>2, <4>3, SharesFollowRows
      <4> QED BY <4>1, <4>4 DEF e
    <3> QED BY <1>0, <3>1, QuietHandlers
  <2>9. InFlight("pay", u)' <= InFlight("pay", u) /\ InFlight("bonus", u)' <= InFlight("bonus", u)
    BY <2>8
  <2>10. InFlight("pay", u)' \in Nat /\ InFlight("bonus", u)' \in Nat
    BY TotalsHoldNext DEF TotalsNat
  <2> QED BY <2>3, <2>4, <2>6, <2>7, <2>9, <2>10 DEF TraceInv, Traced
<1> QED BY <1>1, <1>6 DEF TraceInv

(* The three steps of the commission: the row, the money, the bonus row.      *)
LEMMA TraceCommission ==
  ASSUME TraceInv, Next, TypeOK', NEW h \in Handlers,
         IpnCommission(h) \/ IpnReferralBonus(h) \/ IpnPayReferrer(h)
  PROVE  TraceInv'
<1> DEFINE d == ipn[h].d
<1>0. TypeOK /\ AbsentIsEmpty
  BY DEF TraceInv
<1>1. /\ ipn[h] # Idle /\ d \in DepositIds /\ deposit[d] \in Deposit /\ deposit[d] # Absent
      /\ UNCHANGED <<deposit, gateway>> /\ ipn'[h].d = d
      /\ \A g \in Handlers \ {h} : ipn'[g] = ipn[g]
      /\ \A e \in DepositIds \ {d} : entries'[e] = entries[e]
      /\ entries'[d].transactions = entries[d].transactions
      /\ entries'[d].firstBonus = entries[d].firstBonus
  <2>1. CASE IpnCommission(h) \/ IpnReferralBonus(h)
    BY <1>0, <2>1, RowDoes
  <2>2. CASE IpnPayReferrer(h)
    BY <1>0, <2>2, PayDoes
  <2> QED BY <2>1, <2>2
<1>2. AbsentIsEmpty'
  BY <1>0, <1>1 DEF AbsentIsEmpty
<1>3. ASSUME NEW u \in Users PROVE Traced(u)'
  <2> DEFINE c == ReferredPart(u, deposit[d], 1)
             n == entries[d].commission
             m == entries[d].referralBonus
             percent == Percent(REFERRAL_BONUS_PERCENT, deposit[d].amount)
  <2>1. entries[d] \in Entries /\ entries'[d] \in Entries /\ n \in Nat /\ m \in Nat
    BY <1>0, <1>1 DEF TypeOK, Entries
  <2>2. percent \in Nat /\ c \in Nat /\ c = (IF Referrer[deposit[d].user] = u THEN percent ELSE 0)
    <3>1. deposit[d].amount \in Nat
      BY <1>1, DepositsAssumption DEF Deposit
    <3>2. percent \in Nat
      BY <3>1, PercentsAreNat
    <3>3. c = IF Referrer[deposit[d].user] = u THEN 1 * percent ELSE 0
      BY <1>1 DEF ReferredPart
    <3> HIDE DEF percent, c
    <3>4. 1 * percent = percent
      BY <3>2, OneMore
    <3> QED BY <3>2, <3>3, <3>4
  <2>3. \A k \in Nat : /\ ReferredPart(u, deposit[d], k + 1) = ReferredPart(u, deposit[d], k) + c
                       /\ ReferredPart(u, deposit[d], k) \in Nat
    <3> TAKE k \in Nat
    <3>1. ReferredPart(u, deposit[d], k) \in Nat
      BY <1>1, ReferredPartIsNat
    <3>2. /\ ReferredPart(u, deposit[d], k)
               = IF Referrer[deposit[d].user] = u THEN k * percent ELSE 0
          /\ ReferredPart(u, deposit[d], k + 1)
               = IF Referrer[deposit[d].user] = u THEN (k + 1) * percent ELSE 0
      BY <1>1 DEF ReferredPart
    <3> HIDE DEF percent, c
    <3>3. (k + 1) * percent = k * percent + percent /\ k * percent \in Nat
      BY <2>2, OneMore, ProductsAreNat
    <3> QED BY <2>2, <3>1, <3>2, <3>3
  <2>4. OwnPart(u, deposit'[d], entries'[d]) = OwnPart(u, deposit[d], entries[d])
        /\ OwnPart(u, deposit[d], entries[d]) \in Nat
    <3>1. OwnPart(u, deposit[d], entries'[d]) = OwnPart(u, deposit[d], entries[d])
      BY <1>1 DEF OwnPart
    <3> QED BY <1>1, <2>1, <3>1, OwnPartIsNat
  <2>5. /\ Owned(u)' = Owned(u) - OwnPart(u, deposit[d], entries[d])
                                 + OwnPart(u, deposit'[d], entries'[d])
        /\ Before(u)' = Before(u) - ReferredPart(u, deposit[d], n)
                                   + ReferredPart(u, deposit'[d], entries'[d].commission)
        /\ After(u)' = After(u) - ReferredPart(u, deposit[d], m)
                                 + ReferredPart(u, deposit'[d], entries'[d].referralBonus)
    BY <1>0, <1>1, RowTotals
  <2>6. ASSUME NEW at \in {"pay", "bonus"}
        PROVE  InFlight(at, u)' = InFlight(at, u) - (IF ipn[h].at = at THEN c ELSE 0)
                                                  + (IF ipn'[h].at = at THEN c ELSE 0)
    BY <1>0, <1>1, HandlerTotals
  <2>7. /\ InFlight("pay", u)' = InFlight("pay", u) - (IF ipn[h].at = "pay" THEN c ELSE 0)
                                                    + (IF ipn'[h].at = "pay" THEN c ELSE 0)
        /\ InFlight("bonus", u)' = InFlight("bonus", u) - (IF ipn[h].at = "bonus" THEN c ELSE 0)
                                                        + (IF ipn'[h].at = "bonus" THEN c ELSE 0)
    BY <2>6
  <2>8. /\ Owned(u) \in Nat /\ Before(u) \in Nat /\ After(u) \in Nat
        /\ InFlight("pay", u) \in Nat /\ InFlight("bonus", u) \in Nat
    BY <1>0, TotalsAreNat
  <2>9. wallet[u].balance \in Int
    BY <1>0 DEF TypeOK, Wallet
  <2>10. Traced(u)
    BY DEF TraceInv
  <2>11. CASE IpnCommission(h)
    <3>1. /\ ipn[h].at = "commission" /\ ipn'[h].at = "pay" /\ wallet' = wallet
          /\ entries'[d].commission = n + 1 /\ entries'[d].referralBonus = m
      BY <1>0, <2>11, RowDoes
    <3>2. ReferredPart(u, deposit'[d], entries'[d].commission)
             = ReferredPart(u, deposit[d], n) + c
          /\ ReferredPart(u, deposit'[d], entries'[d].referralBonus)
             = ReferredPart(u, deposit[d], m)
          /\ ReferredPart(u, deposit[d], n) \in Nat /\ ReferredPart(u, deposit[d], m) \in Nat
      BY <1>1, <2>1, <2>3, <3>1
    <3> HIDE DEF c, n, m, d
    <3>3. /\ Owned(u)' = Owned(u) /\ Before(u)' = Before(u) + c /\ After(u)' = After(u)
      BY <2>2, <2>4, <2>5, <2>8, <3>2
    <3>4. /\ InFlight("pay", u)' = InFlight("pay", u) + c
          /\ InFlight("bonus", u)' = InFlight("bonus", u)
      BY <2>2, <2>7, <2>8, <3>1
    <3> QED BY <2>2, <2>8, <2>9, <2>10, <3>1, <3>3, <3>4 DEF Traced
  <2>12. CASE IpnReferralBonus(h)
    <3>1. /\ ipn[h].at = "bonus" /\ ipn'[h].at = "level" /\ wallet' = wallet
          /\ entries'[d].commission = n /\ entries'[d].referralBonus = m + 1
      BY <1>0, <2>12, RowDoes
    <3>2. ReferredPart(u, deposit'[d], entries'[d].commission)
             = ReferredPart(u, deposit[d], n)
          /\ ReferredPart(u, deposit'[d], entries'[d].referralBonus)
             = ReferredPart(u, deposit[d], m) + c
          /\ ReferredPart(u, deposit[d], n) \in Nat /\ ReferredPart(u, deposit[d], m) \in Nat
      BY <1>1, <2>1, <2>3, <3>1
    <3> HIDE DEF c, n, m, d
    <3>3. /\ Owned(u)' = Owned(u) /\ Before(u)' = Before(u) /\ After(u)' = After(u) + c
      BY <2>2, <2>4, <2>5, <2>8, <3>2
    <3>4. /\ InFlight("pay", u)' = InFlight("pay", u)
          /\ InFlight("bonus", u)' = InFlight("bonus", u) - c
      BY <2>2, <2>7, <2>8, <3>1
    <3> QED BY <2>2, <2>8, <2>9, <2>10, <3>1, <3>3, <3>4 DEF Traced
  <2>13. CASE IpnPayReferrer(h)
    <3>1. /\ ipn[h].at = "pay" /\ ipn'[h].at = "bonus" /\ entries' = entries
          /\ wallet'[u].balance = wallet[u].balance
                + (IF u = Referrer[deposit[d].user] THEN Commission(d) ELSE 0)
      BY <1>0, <2>13, PayDoes
    <3>2. wallet'[u].balance = wallet[u].balance + c
      BY <2>2, <3>1 DEF Commission
    <3>3. ReferredPart(u, deposit'[d], entries'[d].commission)
             = ReferredPart(u, deposit[d], n)
          /\ ReferredPart(u, deposit'[d], entries'[d].referralBonus)
             = ReferredPart(u, deposit[d], m)
          /\ ReferredPart(u, deposit[d], n) \in Nat /\ ReferredPart(u, deposit[d], m) \in Nat
      BY <1>1, <2>1, <2>3, <3>1
    <3> HIDE DEF c, n, m, d
    <3>4. /\ Owned(u)' = Owned(u) /\ Before(u)' = Before(u) /\ After(u)' = After(u)
      BY <2>2, <2>4, <2>5, <2>8, <3>3
    <3>5. /\ InFlight("pay", u)' = InFlight("pay", u) - c
          /\ InFlight("bonus", u)' = InFlight("bonus", u) + c
      BY <2>2, <2>7, <2>8, <3>1
    <3> QED BY <2>2, <2>8, <2>9, <2>10, <3>2, <3>4, <3>5 DEF Traced
  <2> QED BY <2>11, <2>12, <2>13
<1> QED BY <1>2, <1>3 DEF TraceInv

LEMMA TraceStep == TraceInv /\ [Next]_vars => TraceInv'
<1> SUFFICES ASSUME TraceInv, [Next]_vars PROVE TraceInv'
  OBVIOUS
<1>0. TypeOK /\ TypeOK'
  BY DepositsTypeStep DEF TraceInv
<1>1. CASE UNCHANGED vars
  <2>1. AbsentIsEmpty'
    BY <1>1 DEF vars, TraceInv, AbsentIsEmpty
  <2>2. \A u \in Users : Traced(u)'
    BY <1>1 DEF vars, TraceInv, Traced, Owned, Before, After, InFlight, OwnShare, BeforeShare,
                AfterShare, HandlerShare
  <2> QED BY <1>0, <2>1, <2>2 DEF TraceInv
<1> SUFFICES ASSUME Next PROVE TraceInv'
  BY <1>1
<1>2. \A d \in DepositIds : deposit'[d] = Absent => deposit[d] = Absent
  BY <1>0, DepositStays
(* A handler that moves on to a place where it owes nothing, or ends.         *)
<1>3. ASSUME NEW h \in Handlers, ipn[h] # Idle, NEW at, Goto(h, at), at \notin {"pay", "bonus"}
      PROVE  \A g \in Handlers : ipn'[g].at \in {"pay", "bonus"} => ipn'[g] = ipn[g]
  BY <1>0, <1>3, HandlerMoves
<1>4. ASSUME NEW h \in Handlers, Done(h)
      PROVE  \A g \in Handlers : ipn'[g].at \in {"pay", "bonus"} => ipn'[g] = ipn[g]
  BY <1>0, <1>4, HandlerEnds DEF Idle
<1>5. ASSUME NEW d \in DepositIds, NEW u \in Users, NEW amount \in Amounts,
             InitDeposit(d, u, amount)
      PROVE  TraceInv'
  BY <1>0, <1>2, <1>5, TraceFrame DEF InitDeposit
<1>6. ASSUME NEW d \in DepositIds, NEW u \in Users, NEW amount \in Amounts,
             AdminDeposit(d, u, amount)
      PROVE  TraceInv'
  <2>1. /\ deposit'[d] \in Deposit /\ deposit'[d].user = u /\ deposit'[d].amount = amount
        /\ \A e \in DepositIds \ {d} : deposit'[e] = deposit[e] /\ entries'[e] = entries[e]
        /\ entries'[d].transactions = entries[d].transactions + 1
        /\ entries'[d].firstBonus = entries[d].firstBonus
        /\ entries'[d].commission = entries[d].commission
        /\ entries'[d].referralBonus = entries[d].referralBonus
        /\ wallet'[u].balance = wallet[u].balance + amount
        /\ \A v \in Users \ {u} : wallet'[v] = wallet[v]
        /\ UNCHANGED <<gateway, ipn>>
    BY <1>0, <1>6, AdminDepositDoes
  <2> DEFINE percent == Percent(DEPOSIT_BONUS_PERCENT, deposit'[d].amount)
  <2>2. percent \in Nat /\ amount \in Nat
    <3>1. amount \in Nat
      BY DepositsAssumption
    <3> QED BY <2>1, <3>1, PercentsAreNat
  <2>3. entries[d].firstBonus \in Nat /\ wallet[u].balance \in Int
    BY <1>0 DEF TypeOK, Entries, Wallet
  <2>4. deposit'[d] # Absent
    BY <2>1, DepositIsNotAbsent
  <2>5. entries'[d].firstBonus = entries[d].firstBonus + 0
    BY <2>1, <2>3
  <2>6. wallet'[u].balance = wallet[u].balance + deposit'[d].amount + 0 * percent
    <3> HIDE DEF percent
    <3>1. 0 * percent = 0
      BY <2>2, OneMore
    <3> QED BY <2>1, <2>2, <2>3, <3>1
  <2>7. \A g \in Handlers : ipn'[g].at \in {"pay", "bonus"} => ipn'[g] = ipn[g]
    BY <2>1
  <2> QED BY <1>0, <2>1, <2>4, <2>5, <2>6, <2>7, TraceCredit
<1>7. ASSUME NEW d \in DepositIds, NEW outcome \in {"SUCCESS", "FAILURE"},
             GatewayDecides(d, outcome)
      PROVE  TraceInv'
  <2>1. UNCHANGED <<wallet, deposit, entries, ipn>>
    BY <1>7 DEF GatewayDecides
  <2> QED BY <1>0, <2>1, TraceFrame
<1>8. ASSUME NEW d \in DepositIds, LockEnds(d)
      PROVE  TraceInv'
  BY <1>0, <1>2, <1>8, TraceFrame DEF LockEnds
<1>9. ASSUME NEW h \in Handlers, NEW d \in DepositIds,
             NEW outcome \in {"SUCCESS", "FAILURE"}, IpnRead(h, d, outcome)
      PROVE  TraceInv'
  <2>1. ipn'[h].at \notin {"pay", "bonus"} /\ \A g \in Handlers \ {h} : ipn'[g] = ipn[g]
    BY <1>0, <1>9 DEF IpnRead, TypeOK
  <2> QED BY <1>0, <1>2, <1>9, <2>1, TraceFrame DEF IpnRead
<1>10. ASSUME NEW h \in Handlers, IpnFail(h) \/ IpnUnfit(h) \/ IpnFailure(h) \/ EvalWrite(h)
       PROVE  TraceInv'
  <2>1. Done(h) /\ UNCHANGED <<wallet, entries, gateway>>
    BY <1>10 DEF IpnFail, IpnUnfit, IpnFailure, EvalWrite
  <2> QED BY <1>0, <1>2, <1>4, <2>1, TraceFrame
<1>11. ASSUME NEW h \in Handlers, IpnReferral(h)
       PROVE  TraceInv'
  <2>1. PICK at \in {"commission", "level"} : Goto(h, at)
    BY <1>11 DEF IpnReferral
  <2>2. ipn[h] # Idle /\ UNCHANGED <<wallet, deposit, entries, gateway>>
    BY <1>11 DEF IpnReferral, Idle
  <2>3. \A g \in Handlers : ipn'[g].at \in {"pay", "bonus"} => ipn'[g] = ipn[g]
    BY <1>3, <2>1, <2>2
  <2> QED BY <1>0, <1>2, <2>2, <2>3, TraceFrame
<1>12. ASSUME NEW h \in Handlers, IpnCredit(h) \/ EvalReadUser(h) \/ EvalReadSum(h)
       PROVE  TraceInv'
  <2>1. UNCHANGED <<wallet, deposit, entries, gateway>>
    BY <1>12 DEF IpnCredit, EvalReadUser, EvalReadSum
  <2>2. /\ ipn'[h].at \in {"credited", "sum", "evaluated"}
        /\ \A g \in Handlers \ {h} : ipn'[g] = ipn[g]
    BY <1>0, <1>12, EvaluationDoes
  <2> QED BY <1>0, <1>2, <2>1, <2>2, TraceFrame
<1>13. ASSUME NEW h \in Handlers, IpnCommit(h)
       PROVE  TraceInv'
  <2>0. PICK d, u : d = ipn[h].d /\ u = UserOf(h)
    OBVIOUS
  <2>00. Committed(h, d, u)
    BY <1>0, <1>13, <2>0, CommitDoes
  <2> DEFINE bonus == IF ipn[h].saw THEN 0 ELSE 1
             percent == Percent(DEPOSIT_BONUS_PERCENT, deposit'[d].amount)
  <2> HIDE DEF percent
  <2>1. /\ d \in DepositIds /\ u \in Users /\ u = deposit[d].user
        /\ deposit[d].amount \in Nat /\ deposit[d] # Absent
        /\ \A e \in DepositIds \ {d} : deposit'[e] = deposit[e] /\ entries'[e] = entries[e]
        /\ entries'[d].transactions = entries[d].transactions + 1
        /\ entries'[d].firstBonus = entries[d].firstBonus + bonus
        /\ entries'[d].commission = entries[d].commission
        /\ entries'[d].referralBonus = entries[d].referralBonus
        /\ wallet'[u].balance = wallet[u].balance
                                + (deposit[d].amount + (IF ipn[h].saw THEN 0 ELSE Bonus(d)))
        /\ \A v \in Users \ {u} : wallet'[v] = wallet[v]
        /\ ipn'[h].at = "referral"
        /\ \A g \in Handlers \ {h} : ipn'[g] = ipn[g]
        /\ gateway' = gateway
    BY <2>00 DEF Committed
  <2>2. /\ deposit'[d] # Absent /\ deposit'[d].user = u /\ deposit'[d].amount = deposit[d].amount
    BY <1>0, <2>1, DepositStays
  <2>3. percent \in Nat /\ Bonus(d) = percent /\ bonus \in {0, 1} /\ wallet[u].balance \in Int
    BY <1>0, <2>1, <2>2, PercentsAreNat DEF Bonus, TypeOK, Wallet, percent
  <2>4. wallet'[u].balance = wallet[u].balance + deposit'[d].amount + bonus * percent
    <3>1. CASE ipn[h].saw
      <4>1. 0 * percent = 0
        BY <2>3, OneMore
      <4> QED BY <2>1, <2>2, <2>3, <3>1, <4>1
    <3>2. CASE ~ipn[h].saw
      <4>1. 1 * percent = percent
        BY <2>3, OneMore
      <4> QED BY <2>1, <2>2, <2>3, <3>2, <4>1
    <3> QED BY <3>1, <3>2
  <2>5. \A g \in Handlers : ipn'[g].at \in {"pay", "bonus"} => ipn'[g] = ipn[g]
    BY <2>1
  <2> HIDE DEF bonus
  <2> QED BY <1>0, <2>1, <2>2, <2>3, <2>4, <2>5, TraceCredit DEF percent
<1>14. ASSUME NEW h \in Handlers, IpnCommission(h) \/ IpnReferralBonus(h) \/ IpnPayReferrer(h)
       PROVE  TraceInv'
  BY <1>0, <1>14, TraceCommission
<1>15. CASE Crash
  <2>1. \A g \in Handlers : ipn'[g].at \notin {"pay", "bonus"}
    BY <1>15 DEF Crash, Idle
  <2> QED BY <1>0, <1>2, <1>15, <2>1, TraceFrame DEF Crash
<1> QED BY <1>5, <1>6, <1>7, <1>8, <1>9, <1>10, <1>11, <1>12, <1>13, <1>14, <1>15
        DEF Next, Ipn

LEMMA TraceStart == Init => TraceInv
<1> SUFFICES ASSUME Init PROVE TraceInv
  OBVIOUS
<1>1. TypeOK
  BY DEF Init, TypeOK, Wallet, Levels, Entries, NoEntries, Call, Idle
<1>2. AbsentIsEmpty
  BY DEF Init, AbsentIsEmpty
<1>3. ASSUME NEW u \in Users PROVE Traced(u)
  <2>1. IsFiniteSet(DepositIds) /\ IsFiniteSet(Handlers)
    BY DepositsAssumption
  <2>2. \A d \in DepositIds : /\ OwnShare(u)[d] = 0 /\ BeforeShare(u)[d] = 0
                              /\ AfterShare(u)[d] = 0
    BY DEF Init, OwnShare, BeforeShare, AfterShare, OwnPart, ReferredPart
  <2>3. \A h \in Handlers : HandlerShare("pay", u)[h] = 0 /\ HandlerShare("bonus", u)[h] = 0
    BY DEF Init, HandlerShare, Idle
  <2>4. SumFunctionOnSet(OwnShare(u), DepositIds) = 0
    BY <2>1, <2>2, SumZeros
  <2>5. SumFunctionOnSet(BeforeShare(u), DepositIds) = 0
    BY <2>1, <2>2, SumZeros
  <2>6. SumFunctionOnSet(AfterShare(u), DepositIds) = 0
    BY <2>1, <2>2, SumZeros
  <2>7. SumFunctionOnSet(HandlerShare("pay", u), Handlers) = 0
    BY <2>1, <2>3, SumZeros
  <2>8. SumFunctionOnSet(HandlerShare("bonus", u), Handlers) = 0
    BY <2>1, <2>3, SumZeros
  <2>9. wallet[u].balance = 0
    BY DEF Init
  <2>10. /\ Owned(u) = 0 /\ Before(u) = 0 /\ After(u) = 0
         /\ InFlight("pay", u) = 0 /\ InFlight("bonus", u) = 0
    BY <2>4, <2>5, <2>6, <2>7, <2>8 DEF Owned, Before, After, InFlight
  <2> QED BY <2>9, <2>10 DEF Traced
<1> QED BY <1>1, <1>2, <1>3 DEF TraceInv

(* The sums of BalanceIsTraceable run over the deposits of a user, or of those *)
(* the user referred; the others have no share.                               *)
LEMMA TotalsOfRows ==
  ASSUME TypeOK, NEW u \in Users
  PROVE  /\ SumFunctionOnSet([d \in DepositsOf(u) |->
                                 entries[d].transactions * deposit[d].amount
                                 + entries[d].firstBonus * Bonus(d)], DepositsOf(u)) = Owned(u)
         /\ SumFunctionOnSet([d \in ReferredOf(u) |-> entries[d].commission * Commission(d)],
                             ReferredOf(u)) = Before(u)
         /\ SumFunctionOnSet([d \in ReferredOf(u) |-> entries[d].referralBonus * Commission(d)],
                             ReferredOf(u)) = After(u)
<1> DEFINE own == [d \in DepositsOf(u) |-> entries[d].transactions * deposit[d].amount
                                           + entries[d].firstBonus * Bonus(d)]
           before == [d \in ReferredOf(u) |-> entries[d].commission * Commission(d)]
           after == [d \in ReferredOf(u) |-> entries[d].referralBonus * Commission(d)]
<1>1. IsFiniteSet(DepositIds)
  BY DepositsAssumption
<1>2. DepositsOf(u) \in SUBSET DepositIds /\ ReferredOf(u) \in SUBSET DepositIds
  BY DEF DepositsOf, ReferredOf
<1>3. \A d \in DepositIds : /\ OwnShare(u)[d] \in Int /\ BeforeShare(u)[d] \in Int
                            /\ AfterShare(u)[d] \in Int
  <2>1. \A d \in DepositIds : /\ OwnShare(u)[d] \in Nat /\ BeforeShare(u)[d] \in Nat
                              /\ AfterShare(u)[d] \in Nat
    BY SharesAreNat
  <2> QED BY <2>1
<1>4. \A d \in DepositIds \ DepositsOf(u) : OwnShare(u)[d] = 0
  BY DEF DepositsOf, OwnShare, OwnPart
<1>5. \A d \in DepositIds \ ReferredOf(u) : BeforeShare(u)[d] = 0 /\ AfterShare(u)[d] = 0
  BY DEF ReferredOf, BeforeShare, AfterShare, ReferredPart
<1>6. \A d \in DepositsOf(u) : own[d] = OwnShare(u)[d]
  BY DEF DepositsOf, OwnShare, OwnPart, Bonus
<1>7. \A d \in ReferredOf(u) : before[d] = BeforeShare(u)[d] /\ after[d] = AfterShare(u)[d]
  BY DEF ReferredOf, BeforeShare, AfterShare, ReferredPart, Commission
<1> HIDE DEF own, before, after
<1>8. SumFunctionOnSet(own, DepositsOf(u)) = SumFunctionOnSet(OwnShare(u), DepositIds)
  <2>1. \A d \in DepositIds : OwnShare(u)[d] \in Int
    BY <1>3
  <2> QED BY ONLY <1>1, <1>2, <1>4, <1>6, <2>1, SumWithZeros
<1>9. SumFunctionOnSet(before, ReferredOf(u)) = SumFunctionOnSet(BeforeShare(u), DepositIds)
  <2>1. /\ \A d \in DepositIds : BeforeShare(u)[d] \in Int
        /\ \A d \in DepositIds \ ReferredOf(u) : BeforeShare(u)[d] = 0
        /\ \A d \in ReferredOf(u) : before[d] = BeforeShare(u)[d]
    BY <1>3, <1>5, <1>7
  <2> QED BY ONLY <1>1, <1>2, <2>1, SumWithZeros
<1>10. SumFunctionOnSet(after, ReferredOf(u)) = SumFunctionOnSet(AfterShare(u), DepositIds)
  <2>1. /\ \A d \in DepositIds : AfterShare(u)[d] \in Int
        /\ \A d \in DepositIds \ ReferredOf(u) : AfterShare(u)[d] = 0
        /\ \A d \in ReferredOf(u) : after[d] = AfterShare(u)[d]
    BY <1>3, <1>5, <1>7
  <2> QED BY ONLY <1>1, <1>2, <2>1, SumWithZeros
<1> QED BY <1>8, <1>9, <1>10 DEF Owned, Before, After, own, before, after

(* Every cent of a balance can be traced to the rows of deposits, bonuses and *)
(* commissions, whatever calls overlap, fail or are repeated, and wherever    *)
(* the server stops between the three steps of a commission.                  *)
THEOREM BalancesAreTraceable == Spec => []BalanceIsTraceable
<1>1. TraceInv => BalanceIsTraceable
  <2> SUFFICES ASSUME TraceInv, NEW u \in Users
               PROVE  LET own == [d \in DepositsOf(u) |->
                                    entries[d].transactions * deposit[d].amount
                                    + entries[d].firstBonus * Bonus(d)]
                          before == [d \in ReferredOf(u) |->
                                       entries[d].commission * Commission(d)]
                          after == [d \in ReferredOf(u) |->
                                      entries[d].referralBonus * Commission(d)]
                          owned == SumFunctionOnSet(own, DepositsOf(u))
                      IN /\ wallet[u].balance >= owned + SumFunctionOnSet(after, ReferredOf(u))
                         /\ wallet[u].balance <= owned + SumFunctionOnSet(before, ReferredOf(u))
    BY DEF BalanceIsTraceable
  <2>1. Traced(u) /\ TypeOK
    BY DEF TraceInv
  <2>2. /\ Owned(u) \in Nat /\ Before(u) \in Nat /\ After(u) \in Nat
        /\ InFlight("pay", u) \in Nat /\ InFlight("bonus", u) \in Nat
    BY <2>1, TotalsAreNat
  <2>3. wallet[u].balance \in Int
    BY <2>1 DEF TypeOK, Wallet
  <2>4. /\ wallet[u].balance >= Owned(u) + After(u)
        /\ wallet[u].balance <= Owned(u) + Before(u)
    BY <2>1, <2>2, <2>3 DEF Traced
  <2> QED BY <2>1, <2>4, TotalsOfRows
<1> QED BY <1>1, TraceStart, TraceStep, PTL DEF Spec

-----------------------------------------------------------------------------
(* The level.  A deposit that is SUCCESS has been credited, whatever becomes  *)
(* of its status later, and a credit is never taken back: so what was credited *)
(* to a user only grows, and a level written late is still earned.            *)
CreditedTo(u) == {d \in DepositsOf(u) : entries[d].transactions > 0}
CreditedSum(u) == SumFunctionOnSet([d \in CreditedTo(u) |-> deposit[d].amount], CreditedTo(u))

SuccessIsCredited ==
  \A d \in DepositIds : deposit[d].status = "SUCCESS" => entries[d].transactions > 0
TargetIsEarned ==
  \A h \in Handlers : ipn[h].at = "evaluated" => ipn[h].target <= Earned(UserOf(h))
GrantsAreEarned == \A u \in Users : user[u].level <= 1 \/ user[u].level <= Earned(u)

LevelInv == TraceInv /\ SuccessIsCredited /\ TargetIsEarned /\ GrantsAreEarned

LEMMA EarnedIs == \A u : Earned(u) = LevelOf(CreditedSum(u), TeamOf[u])
BY DEF Earned, CreditedSum, CreditedTo

LEMMA CountedSumIsNat ==
  ASSUME TypeOK, NEW u \in Users
  PROVE  CountedSum(u) \in Nat /\ Target(u) \in Levels
<1> DEFINE amount == [d \in Counted(u) |-> deposit[d].amount]
<1>1. IsFiniteSet(DepositIds) /\ Counted(u) \in SUBSET DepositIds
  BY DepositsAssumption DEF Counted
<1>2. IsFiniteSet(Counted(u))
  BY <1>1, FS_Subset
<1>3. ASSUME NEW d \in Counted(u) PROVE amount[d] \in Nat
  <2>1. d \in DepositIds /\ deposit[d].status = "SUCCESS"
    BY DEF Counted
  <2>2. deposit[d] \in Deposit
    BY <2>1 DEF TypeOK, Absent
  <2> QED BY <2>2, DepositsAssumption DEF Deposit
<1> HIDE DEF amount
<1>4. SumFunctionOnSet(amount, Counted(u)) \in Nat
  BY <1>2, <1>3, SumNat
<1>5. TeamOf[u] \in Team
  BY DepositsAssumption
<1> QED BY <1>4, <1>5, LevelType DEF CountedSum, Target, amount

LEMMA CreditedSumIsNat ==
  ASSUME TypeOK, NEW u \in Users
  PROVE  CreditedSum(u) \in Nat /\ Earned(u) \in Levels
<1> DEFINE amount == [d \in CreditedTo(u) |-> deposit[d].amount]
<1>1. IsFiniteSet(DepositIds) /\ CreditedTo(u) \in SUBSET DepositIds
  BY DepositsAssumption DEF CreditedTo, DepositsOf
<1>2. IsFiniteSet(CreditedTo(u))
  BY <1>1, FS_Subset
<1>3. ASSUME NEW d \in CreditedTo(u) PROVE amount[d] \in Nat
  <2>1. d \in DepositIds /\ deposit[d] # Absent
    BY DEF CreditedTo, DepositsOf
  <2>2. deposit[d] \in Deposit
    BY <2>1 DEF TypeOK
  <2> QED BY <2>2, DepositsAssumption DEF Deposit
<1> HIDE DEF amount
<1>4. SumFunctionOnSet(amount, CreditedTo(u)) \in Nat
  BY <1>2, <1>3, SumNat
<1>5. TeamOf[u] \in Team
  BY DepositsAssumption
<1>6. CreditedSum(u) \in Nat
  BY <1>4 DEF CreditedSum, amount
<1> QED BY <1>5, <1>6, LevelType, EarnedIs

SumsNat == \A u \in Users : CreditedSum(u) \in Nat /\ Earned(u) \in Levels

LEMMA SumsHold == TypeOK => SumsNat
BY CreditedSumIsNat DEF SumsNat

LEMMA SumsHoldNext == TypeOK' => SumsNat'
BY SumsHold, PTL

(* What is computed from the SUCCESS deposits is no more than what was         *)
(* credited is worth.                                                         *)
LEMMA TargetWithinEarned ==
  ASSUME TypeOK, SuccessIsCredited, NEW u \in Users
  PROVE  Target(u) <= Earned(u)
<1> DEFINE counted == [d \in Counted(u) |-> deposit[d].amount]
           credited == [d \in CreditedTo(u) |-> deposit[d].amount]
<1>1. IsFiniteSet(DepositIds) /\ CreditedTo(u) \in SUBSET DepositIds
  BY DepositsAssumption DEF CreditedTo, DepositsOf
<1>2. Counted(u) \in SUBSET CreditedTo(u)
  BY DEF Counted, CreditedTo, DepositsOf, SuccessIsCredited, Absent
<1>3. IsFiniteSet(CreditedTo(u)) /\ IsFiniteSet(Counted(u))
  <2>1. IsFiniteSet(CreditedTo(u))
    BY <1>1, FS_Subset
  <2> QED BY <1>2, <2>1, FS_Subset
<1>4. ASSUME NEW d \in CreditedTo(u) PROVE credited[d] \in Nat
  <2>1. d \in DepositIds /\ deposit[d] # Absent
    BY DEF CreditedTo, DepositsOf
  <2>2. deposit[d] \in Deposit
    BY <2>1 DEF TypeOK
  <2> QED BY <2>2, DepositsAssumption DEF Deposit
<1>5. \A d \in Counted(u) : counted[d] = credited[d]
  BY <1>2
<1> HIDE DEF counted, credited
<1>6. SumFunctionOnSet(credited, Counted(u)) <= SumFunctionOnSet(credited, CreditedTo(u))
  BY <1>2, <1>3, <1>4, SumPart
<1>7. SumFunctionOnSet(counted, Counted(u)) = SumFunctionOnSet(credited, Counted(u))
  BY <1>3, <1>5, SumSame
<1>8. CountedSum(u) <= CreditedSum(u)
  BY <1>6, <1>7 DEF CountedSum, CreditedSum, counted, credited
<1>9. CountedSum(u) \in Int /\ CreditedSum(u) \in Int
  BY CountedSumIsNat, CreditedSumIsNat
<1>10. TeamOf[u] \in Team /\ TeamOf[u].A <= TeamOf[u].A /\ TeamOf[u].B <= TeamOf[u].B
       /\ TeamOf[u].C <= TeamOf[u].C
  BY DepositsAssumption DEF Team
<1>11. LevelOf(CountedSum(u), TeamOf[u]) <= LevelOf(CreditedSum(u), TeamOf[u])
  BY <1>8, <1>9, <1>10, LevelMonotone
<1> QED BY <1>11, EarnedIs DEF Target

(* No credit is taken back.                                                   *)
CreditsStay ==
  \A d \in DepositIds : /\ entries[d].transactions \in Nat /\ entries'[d].transactions \in Nat
                        /\ entries'[d].transactions >= entries[d].transactions

(* As credits stay, what they are worth grows.                                *)
LEMMA EarnedGrows ==
  ASSUME TypeOK, TypeOK', Next, NEW u \in Users, CreditsStay
  PROVE  Earned(u) <= Earned(u)'
<1> DEFINE old == [d \in CreditedTo(u) |-> deposit[d].amount]
           new == [d \in CreditedTo(u)' |-> deposit'[d].amount]
<1>1. IsFiniteSet(DepositIds) /\ CreditedTo(u)' \in SUBSET DepositIds
  BY DepositsAssumption DEF CreditedTo, DepositsOf
<1>2. ASSUME NEW d \in CreditedTo(u)
      PROVE  d \in CreditedTo(u)' /\ deposit'[d].amount = deposit[d].amount
  <2>1. d \in DepositIds /\ deposit[d].user = u /\ deposit[d] # Absent
        /\ entries[d].transactions > 0
    BY DEF CreditedTo, DepositsOf
  <2>2. /\ deposit'[d].user = u /\ deposit'[d].amount = deposit[d].amount
        /\ deposit'[d] # Absent
    BY <2>1, DepositStays
  <2>3. entries'[d].transactions > 0
    BY <2>1 DEF CreditsStay
  <2> QED BY <2>1, <2>2, <2>3 DEF CreditedTo, DepositsOf
<1>3. CreditedTo(u) \in SUBSET CreditedTo(u)' /\ IsFiniteSet(CreditedTo(u)')
      /\ IsFiniteSet(CreditedTo(u))
  <2>1. CreditedTo(u) \in SUBSET CreditedTo(u)'
    BY <1>2
  <2>2. IsFiniteSet(CreditedTo(u)')
    BY <1>1, FS_Subset
  <2> QED BY <2>1, <2>2, FS_Subset
<1>4. ASSUME NEW d \in CreditedTo(u)' PROVE new[d] \in Nat
  <2>1. d \in DepositIds /\ deposit'[d] # Absent
    BY DEF CreditedTo, DepositsOf
  <2>2. deposit'[d] \in Deposit
    BY <2>1 DEF TypeOK
  <2> QED BY <2>2, DepositsAssumption DEF Deposit
<1>5. \A d \in CreditedTo(u) : old[d] = new[d]
  BY <1>2
<1> HIDE DEF old, new
<1>6. SumFunctionOnSet(new, CreditedTo(u)) <= SumFunctionOnSet(new, CreditedTo(u)')
  BY <1>3, <1>4, SumPart
<1>7. SumFunctionOnSet(old, CreditedTo(u)) = SumFunctionOnSet(new, CreditedTo(u))
  BY <1>3, <1>5, SumSame
<1>8. CreditedSum(u) <= CreditedSum(u)'
  BY <1>6, <1>7 DEF CreditedSum, old, new
<1>9. CreditedSum(u) \in Int /\ CreditedSum(u)' \in Int
  <2>1. CreditedSum(u) \in Nat
    BY CreditedSumIsNat
  <2>2. CreditedSum(u)' \in Nat
    BY SumsHoldNext DEF SumsNat
  <2> QED BY <2>1, <2>2
<1>10. TeamOf[u] \in Team /\ TeamOf[u].A <= TeamOf[u].A /\ TeamOf[u].B <= TeamOf[u].B
       /\ TeamOf[u].C <= TeamOf[u].C
  BY DepositsAssumption DEF Team
<1>11. LevelOf(CreditedSum(u), TeamOf[u]) <= LevelOf(CreditedSum(u)', TeamOf[u])
  BY <1>8, <1>9, <1>10, LevelMonotone
<1>12. Earned(u) = LevelOf(CreditedSum(u), TeamOf[u])
       /\ Earned(u)' = LevelOf(CreditedSum(u)', TeamOf[u])
  BY DEF Earned, CreditedSum, CreditedTo
<1> QED BY <1>11, <1>12

(* A deposit becomes SUCCESS in the step that credits it.                     *)
LEMMA CreditsStep ==
  ASSUME TypeOK, TypeOK', SuccessIsCredited, Next
  PROVE  CreditsStay /\ SuccessIsCredited'
<1>1. \A d \in DepositIds : entries[d].transactions \in Nat /\ entries'[d].transactions \in Nat
  BY DEF TypeOK, Entries
<1>2. CASE /\ \A d \in DepositIds : entries'[d].transactions = entries[d].transactions
           /\ \A d \in DepositIds : deposit'[d].status = "SUCCESS" => deposit[d].status = "SUCCESS"
  BY <1>1, <1>2 DEF CreditsStay, SuccessIsCredited
<1>3. ASSUME NEW d \in DepositIds, entries'[d].transactions = entries[d].transactions + 1,
             \A e \in DepositIds \ {d} : deposit'[e] = deposit[e] /\ entries'[e] = entries[e]
      PROVE  CreditsStay /\ SuccessIsCredited'
  BY <1>1, <1>3 DEF CreditsStay, SuccessIsCredited
<1>4. ASSUME NEW d \in DepositIds, NEW u \in Users, NEW amount \in Amounts,
             InitDeposit(d, u, amount)
      PROVE  CreditsStay /\ SuccessIsCredited'
  BY <1>2, <1>4 DEF InitDeposit, TypeOK
<1>5. ASSUME NEW d \in DepositIds, NEW u \in Users, NEW amount \in Amounts,
             AdminDeposit(d, u, amount)
      PROVE  CreditsStay /\ SuccessIsCredited'
  BY <1>3, <1>5, AdminDepositDoes
<1>6. ASSUME NEW d \in DepositIds, LockEnds(d)
      PROVE  CreditsStay /\ SuccessIsCredited'
  <2>1. deposit[d] \in Deposit
    BY <1>6 DEF LockEnds, TypeOK, Absent
  <2>2. \A e \in DepositIds : deposit'[e].status = deposit[e].status
    BY <1>6, <2>1 DEF LockEnds, TypeOK, Deposit
  <2> QED BY <1>2, <1>6, <2>2 DEF LockEnds
<1>7. ASSUME NEW h \in Handlers, IpnFail(h)
      PROVE  CreditsStay /\ SuccessIsCredited'
  <2>0. PICK d : d = ipn[h].d
    OBVIOUS
  <2>1. d \in DepositIds /\ deposit[d] \in Deposit
    BY <1>7, <2>0, WorksOnDeposit DEF IpnFail, Idle
  <2>2. /\ deposit'[d].status = "FAILED" /\ entries' = entries
        /\ \A e \in DepositIds \ {d} : deposit'[e] = deposit[e]
    BY <1>7, <2>0, <2>1 DEF IpnFail, TypeOK, Deposit
  <2> QED BY <1>2, <2>2
<1>8. ASSUME NEW h \in Handlers, IpnCommit(h)
      PROVE  CreditsStay /\ SuccessIsCredited'
  <2>0. PICK d, u : d = ipn[h].d /\ u = UserOf(h)
    OBVIOUS
  <2>1. Committed(h, d, u)
    BY <1>8, <2>0, CommitDoes
  <2>2. /\ d \in DepositIds /\ entries'[d].transactions = entries[d].transactions + 1
        /\ \A e \in DepositIds \ {d} : deposit'[e] = deposit[e] /\ entries'[e] = entries[e]
    BY <2>1 DEF Committed
  <2> QED BY <1>3, <2>2
<1>9. ASSUME NEW h \in Handlers, IpnCommission(h) \/ IpnReferralBonus(h)
      PROVE  CreditsStay /\ SuccessIsCredited'
  <2>0. PICK d : d = ipn[h].d
    OBVIOUS
  <2>1. /\ d \in DepositIds /\ entries'[d].transactions = entries[d].transactions
        /\ \A e \in DepositIds \ {d} : entries'[e] = entries[e]
        /\ deposit' = deposit
    BY <1>9, <2>0, RowDoes
  <2> QED BY <1>2, <2>1
<1>10. CASE UNCHANGED <<deposit, entries>>
  BY <1>2, <1>10
<1>11. ASSUME NEW h \in Handlers, Ipn(h) \/ IpnFailure(h)
       PROVE  IpnFail(h) \/ IpnCommit(h) \/ IpnCommission(h) \/ IpnReferralBonus(h)
              \/ UNCHANGED <<deposit, entries>>
  BY <1>11 DEF Ipn, IpnRead, IpnCredit, IpnUnfit, IpnReferral, IpnPayReferrer, EvalReadUser,
               EvalReadSum, EvalWrite, IpnFailure
<1>12. ASSUME NEW d \in DepositIds, NEW outcome \in {"SUCCESS", "FAILURE"},
              GatewayDecides(d, outcome)
       PROVE  UNCHANGED <<deposit, entries>>
  BY <1>12 DEF GatewayDecides
<1>13. Crash => UNCHANGED <<deposit, entries>>
  BY DEF Crash
<1> QED BY <1>4, <1>5, <1>6, <1>7, <1>8, <1>9, <1>10, <1>11, <1>12, <1>13 DEF Next

(* A step that writes no level.                                               *)
LEMMA LevelFrame ==
  ASSUME LevelInv, Next, TraceInv', CreditsStay, SuccessIsCredited',
         \A u \in Users : user'[u].level = user[u].level,
         \A g \in Handlers : ipn'[g].at = "evaluated" => ipn'[g] = ipn[g]
  PROVE  LevelInv'
<1>0. TypeOK /\ TypeOK'
  BY DEF LevelInv, TraceInv
<1>1. \A u \in Users : Earned(u) <= Earned(u)' /\ Earned(u) \in Int /\ Earned(u)' \in Int
  <2>1. \A u \in Users : Earned(u) \in Levels /\ Earned(u)' \in Levels
    BY <1>0, SumsHold, SumsHoldNext DEF SumsNat
  <2> QED BY <1>0, <2>1, EarnedGrows DEF Levels
<1>2. TargetIsEarned'
  <2> SUFFICES ASSUME NEW h \in Handlers, ipn'[h].at = "evaluated"
               PROVE  ipn'[h].target <= Earned(UserOf(h))'
    BY DEF TargetIsEarned
  <2>1. ipn'[h] = ipn[h] /\ ipn[h] # Idle /\ ipn[h].target <= Earned(UserOf(h))
    BY DEF LevelInv, TargetIsEarned, Idle
  <2>2. PICK u \in Users : u = UserOf(h)
    BY <1>0, <2>1, WorksOnDeposit
  <2>3. ipn[h].d \in DepositIds /\ deposit[ipn[h].d] # Absent /\ ipn[h].target \in Int
    <3>1. ipn[h].d \in DepositIds /\ ipn[h].target \in Levels
      BY <1>0, <2>1, WorksOnDeposit
    <3>2. deposit[ipn[h].d] # Absent
      BY <1>0, <2>1 DEF TypeOK
    <3> QED BY <3>1, <3>2 DEF Levels
  <2>4. UserOf(h)' = u
    BY <1>0, <2>1, <2>2, <2>3, DepositStays DEF UserOf
  <2>5. Earned(UserOf(h)) = Earned(u) /\ Earned(UserOf(h))' = Earned(u)'
    BY <2>2, <2>4 DEF Earned, DepositsOf
  <2> QED BY <1>1, <2>1, <2>3, <2>5
<1>3. GrantsAreEarned'
  <2> SUFFICES ASSUME NEW u \in Users PROVE user'[u].level <= 1 \/ user'[u].level <= Earned(u)'
    BY DEF GrantsAreEarned
  <2>1. user[u].level \in Int /\ user'[u].level = user[u].level
    BY <1>0 DEF TypeOK, Levels
  <2>2. user[u].level <= 1 \/ user[u].level <= Earned(u)
    BY DEF LevelInv, GrantsAreEarned
  <2> QED BY <1>1, <2>1, <2>2
<1> QED BY <1>2, <1>3 DEF LevelInv

LEMMA LevelStep == LevelInv /\ [Next]_vars => LevelInv'
<1> SUFFICES ASSUME LevelInv, [Next]_vars PROVE LevelInv'
  OBVIOUS
<1>1. CASE UNCHANGED vars
  <2>0. TraceInv'
    BY TraceStep DEF LevelInv
  <2>1. SuccessIsCredited'
    BY <1>1 DEF vars, LevelInv, SuccessIsCredited
  <2>2. TargetIsEarned'
    BY <1>1 DEF vars, LevelInv, TargetIsEarned, Earned, DepositsOf, UserOf
  <2>3. GrantsAreEarned'
    BY <1>1 DEF vars, LevelInv, GrantsAreEarned, Earned, DepositsOf
  <2> QED BY <2>0, <2>1, <2>2, <2>3 DEF LevelInv
<1> SUFFICES ASSUME Next PROVE LevelInv'
  BY <1>1
<1>0. TypeOK /\ TypeOK' /\ TraceInv' /\ CreditsStay /\ SuccessIsCredited'
  <2>1. TraceInv /\ TraceInv' /\ SuccessIsCredited
    BY TraceStep DEF LevelInv
  <2>2. TypeOK /\ TypeOK'
    BY <2>1 DEF TraceInv
  <2> QED BY <2>1, <2>2, CreditsStep
(* A handler that moves on, or ends                                           *)
<1>2. ASSUME NEW h \in Handlers, ipn[h] # Idle, NEW at, Goto(h, at), at # "evaluated"
      PROVE  \A g \in Handlers : ipn'[g].at = "evaluated" => ipn'[g] = ipn[g]
  BY <1>0, <1>2, HandlerMoves
<1>3. ASSUME NEW h \in Handlers, Done(h)
      PROVE  \A g \in Handlers : ipn'[g].at = "evaluated" => ipn'[g] = ipn[g]
  BY <1>0, <1>3, HandlerEnds DEF Idle
<1>4. ASSUME NEW d \in DepositIds, NEW u \in Users, NEW amount \in Amounts,
             InitDeposit(d, u, amount) \/ AdminDeposit(d, u, amount)
      PROVE  LevelInv'
  <2>1. UNCHANGED <<user, ipn>>
    BY <1>4 DEF InitDeposit, AdminDeposit
  <2> QED BY <1>0, <2>1, LevelFrame
<1>5. ASSUME NEW d \in DepositIds, NEW outcome \in {"SUCCESS", "FAILURE"},
             GatewayDecides(d, outcome) \/ LockEnds(d)
      PROVE  LevelInv'
  <2>1. UNCHANGED <<user, ipn>>
    BY <1>5 DEF GatewayDecides, LockEnds
  <2> QED BY <1>0, <2>1, LevelFrame
<1>6. ASSUME NEW h \in Handlers, NEW d \in DepositIds,
             NEW outcome \in {"SUCCESS", "FAILURE"}, IpnRead(h, d, outcome)
      PROVE  LevelInv'
  <2>1. /\ ipn'[h].at # "evaluated" /\ \A g \in Handlers \ {h} : ipn'[g] = ipn[g]
        /\ user' = user
    BY <1>0, <1>6 DEF IpnRead, TypeOK
  <2> QED BY <1>0, <2>1, LevelFrame
<1>7. ASSUME NEW h \in Handlers, IpnFail(h) \/ IpnUnfit(h) \/ IpnFailure(h)
      PROVE  LevelInv'
  <2>1. Done(h) /\ user' = user
    BY <1>7 DEF IpnFail, IpnUnfit, IpnFailure
  <2> QED BY <1>0, <1>3, <2>1, LevelFrame
<1>8. ASSUME NEW h \in Handlers, IpnCommit(h)
      PROVE  LevelInv'
  <2>0. PICK d, u : d = ipn[h].d /\ u = UserOf(h)
    OBVIOUS
  <2>1. Committed(h, d, u)
    BY <1>0, <1>8, <2>0, CommitDoes
  <2>2. /\ user'[u].level = user[u].level /\ \A v \in Users \ {u} : user'[v] = user[v]
        /\ ipn'[h].at = "referral" /\ \A g \in Handlers \ {h} : ipn'[g] = ipn[g]
    BY <2>1 DEF Committed
  <2>3. /\ \A v \in Users : user'[v].level = user[v].level
        /\ \A g \in Handlers : ipn'[g].at = "evaluated" => ipn'[g] = ipn[g]
    BY <2>2
  <2> QED BY <1>0, <2>3, LevelFrame
<1>9. ASSUME NEW h \in Handlers,
             IpnReferral(h) \/ IpnCommission(h) \/ IpnPayReferrer(h) \/ IpnReferralBonus(h)
      PROVE  LevelInv'
  <2>1. PICK at \in {"commission", "pay", "bonus", "level"} : Goto(h, at)
    BY <1>9 DEF IpnReferral, IpnCommission, IpnPayReferrer, IpnReferralBonus
  <2>2. ipn[h] # Idle /\ user' = user
    BY <1>9 DEF IpnReferral, IpnCommission, IpnPayReferrer, IpnReferralBonus, Idle
  <2>3. \A g \in Handlers : ipn'[g].at = "evaluated" => ipn'[g] = ipn[g]
    BY <1>2, <2>1, <2>2
  <2> QED BY <1>0, <2>2, <2>3, LevelFrame
<1>10. ASSUME NEW h \in Handlers, IpnCredit(h) \/ EvalReadUser(h)
       PROVE  LevelInv'
  <2>1. user' = user
    BY <1>10 DEF IpnCredit, EvalReadUser
  <2>2. /\ ipn'[h].at \in {"credited", "sum"}
        /\ \A g \in Handlers \ {h} : ipn'[g] = ipn[g]
    BY <1>0, <1>10, EvaluationDoes
  <2>3. \A g \in Handlers : ipn'[g].at = "evaluated" => ipn'[g] = ipn[g]
    BY <2>2
  <2> QED BY <1>0, <2>1, <2>3, LevelFrame
(* The sum is read: from here on what is to be written is earned ...          *)
<1>11. ASSUME NEW h \in Handlers, EvalReadSum(h)
       PROVE  LevelInv'
  <2>1. UNCHANGED <<user, deposit, entries>>
    BY <1>11 DEF EvalReadSum
  <2>2. /\ ipn[h].at = "sum" /\ ipn'[h].at = "evaluated" /\ ipn'[h].target = Target(UserOf(h))
        /\ ipn'[h].d = ipn[h].d /\ ipn[h] # Idle
        /\ \A g \in Handlers \ {h} : ipn'[g] = ipn[g]
    BY <1>0, <1>11, EvaluationDoes
  <2>3. \A g \in Handlers : UserOf(g)' = UserOf(g)
    BY <2>1, <2>2 DEF UserOf
  <2>4. \A v : Earned(v)' = Earned(v)
    BY <2>1 DEF Earned, DepositsOf
  <2>5. TargetIsEarned'
    <3> SUFFICES ASSUME NEW g \in Handlers, ipn'[g].at = "evaluated"
                 PROVE  ipn'[g].target <= Earned(UserOf(g))'
      BY DEF TargetIsEarned
    <3>1. PICK v : v = UserOf(g)
      OBVIOUS
    <3>2. Earned(UserOf(g)) = Earned(v) /\ Earned(UserOf(g))' = Earned(v)
      BY <2>1, <2>3, <3>1 DEF Earned, DepositsOf
    <3>3. CASE g = h
      <4>1. v \in Users
        BY <1>0, <2>2, <3>1, <3>3, WorksOnDeposit
      <4>2. Target(v) <= Earned(v)
        BY <1>0, <4>1, TargetWithinEarned DEF LevelInv
      <4>3. ipn'[g].target = Target(v)
        BY <2>2, <3>1, <3>3
      <4> QED BY <3>2, <4>2, <4>3
    <3>4. CASE g # h
      BY <2>2, <3>2, <3>4 DEF LevelInv, TargetIsEarned
    <3> QED BY <3>3, <3>4
  <2>6. GrantsAreEarned'
    BY <2>1, <2>4 DEF LevelInv, GrantsAreEarned
  <2> QED BY <1>0, <2>5, <2>6 DEF LevelInv
(* ... and it is when it is written.                                          *)
<1>12. ASSUME NEW h \in Handlers, EvalWrite(h)
       PROVE  LevelInv'
  <2>1. UNCHANGED <<deposit, entries>> /\ ipn[h].at = "evaluated" /\ ipn[h] # Idle /\ Done(h)
    BY <1>12 DEF EvalWrite, Idle
  <2>2. \A v : Earned(v)' = Earned(v)
    BY <2>1 DEF Earned, DepositsOf
  <2>3. TargetIsEarned'
    <3> SUFFICES ASSUME NEW g \in Handlers, ipn'[g].at = "evaluated"
                 PROVE  ipn'[g].target <= Earned(UserOf(g))'
      BY DEF TargetIsEarned
    <3>1. ipn'[g] = ipn[g] /\ UserOf(g)' = UserOf(g)
      BY <1>3, <2>1 DEF UserOf
    <3>2. Earned(UserOf(g))' = Earned(UserOf(g))
      BY <2>1, <3>1 DEF Earned, DepositsOf
    <3> QED BY <3>1, <3>2 DEF LevelInv, TargetIsEarned
  <2>4. PICK u \in Users : u = UserOf(h)
    BY <1>0, <2>1, WorksOnDeposit
  <2>5. /\ \A v \in Users \ {u} : user'[v].level = user[v].level
        /\ user'[u].level = user[u].level \/ user'[u].level = ipn[h].target
    BY <1>0, <1>12, <2>4 DEF EvalWrite, TypeOK
  <2>6. ipn[h].target <= Earned(u)
    <3>1. Earned(UserOf(h)) = Earned(u)
      BY <2>4
    <3> QED BY <2>1, <3>1 DEF LevelInv, TargetIsEarned
  <2>7. GrantsAreEarned'
    BY <2>2, <2>5, <2>6 DEF LevelInv, GrantsAreEarned
  <2> QED BY <1>0, <2>3, <2>7 DEF LevelInv
<1>13. CASE Crash
  <2>1. \A g \in Handlers : ipn'[g].at # "evaluated"
    BY <1>13 DEF Crash, Idle
  <2>2. user' = user
    BY <1>13 DEF Crash
  <2> QED BY <1>0, <2>1, <2>2, LevelFrame
<1> QED BY <1>4, <1>5, <1>6, <1>7, <1>8, <1>9, <1>10, <1>11, <1>12, <1>13 DEF Next, Ipn

LEMMA LevelStart == Init => LevelInv
<1> SUFFICES ASSUME Init PROVE LevelInv
  OBVIOUS
<1>1. TraceInv
  BY TraceStart
<1>2. SuccessIsCredited /\ TargetIsEarned
  BY DEF Init, SuccessIsCredited, TargetIsEarned, Idle, Absent
<1>3. GrantsAreEarned
  BY DEF Init, GrantsAreEarned
<1> QED BY <1>1, <1>2, <1>3 DEF LevelInv

(* No user has a level that the money credited to the user and the team do    *)
(* not earn, although a level is computed from a sum that may be old when it  *)
(* is written, by handlers that overlap, and although a call that announces   *)
(* the opposite outcome may turn a SUCCESS deposit into a FAILED one          *)
(* (level.service.ts:103-149).  Locked deposits count: see LockedFundsDoNotCount. *)
THEOREM LevelsAreEarned == Spec => []LevelIsEarned
<1>1. LevelInv => LevelIsEarned
  <2> SUFFICES ASSUME LevelInv, NEW u \in Users PROVE user[u].level <= Max({1, Earned(u)})
    BY DEF LevelIsEarned
  <2>1. TypeOK
    BY DEF LevelInv, TraceInv
  <2>2. Earned(u) \in Int /\ user[u].level \in Int
    BY <2>1, CreditedSumIsNat DEF TypeOK, Levels
  <2>3. Max({1, Earned(u)}) = IF 1 >= Earned(u) THEN 1 ELSE Earned(u)
    BY <2>2, MaxOfTwo
  <2>4. user[u].level <= 1 \/ user[u].level <= Earned(u)
    BY DEF LevelInv, GrantsAreEarned
  <2> QED BY <2>2, <2>3, <2>4
<1> QED BY <1>1, LevelStart, LevelStep, PTL DEF Spec

-----------------------------------------------------------------------------
(* The commission.  A deposit is claimed when its commission row is written   *)
(* or about to be; it is a SUCCESS deposit then, so the next one of that user *)
(* finds it among the previous deposits.  All this is about the deposits that *)
(* never had two calls in flight at once.                                     *)
BeforeRow == {"referral", "commission"}
BeforeBonusRow == BeforeRow \cup {"pay", "bonus"}

Claimed(d) == \/ entries[d].commission > 0
              \/ \E h \in Handlers : ipn[h].at = "commission" /\ ipn[h].d = d

ClaimsAreSingle ==
  \A d, e \in DepositIds \ twice :
     Claimed(d) /\ Claimed(e) /\ deposit[d].user = deposit[e].user => d = e

RowsFollowHandlers ==
  /\ \A d \in DepositIds \ twice : deposit[d].status # "SUCCESS" =>
        entries[d].commission = 0 /\ entries[d].referralBonus = 0
  /\ \A d \in DepositIds \ twice : entries[d].commission <= 1 /\ entries[d].referralBonus <= 1
  /\ \A h \in Handlers : ipn[h].at \in BeforeBonusRow /\ ipn[h].d \notin twice =>
        /\ deposit[ipn[h].d].status = "SUCCESS" /\ entries[ipn[h].d].referralBonus = 0
        /\ ipn[h].at \in BeforeRow => entries[ipn[h].d].commission = 0
        /\ ipn[h].at \in {"pay", "bonus"} => entries[ipn[h].d].commission = 1

CommissionInv == CreditInv /\ TraceInv /\ ClaimsAreSingle /\ RowsFollowHandlers

(* A claimed deposit is SUCCESS, and goes on being the same user's.           *)
LEMMA ClaimedDeposit ==
  ASSUME CommissionInv, NEW d \in DepositIds \ twice, Claimed(d)
  PROVE  deposit[d].status = "SUCCESS" /\ deposit[d] # Absent
<1>1. deposit[d].status = "SUCCESS"
  <2>1. CASE entries[d].commission > 0
    BY <2>1 DEF CommissionInv, RowsFollowHandlers
  <2>2. CASE ~(entries[d].commission > 0)
    <3>1. PICK h \in Handlers : ipn[h].at = "commission" /\ ipn[h].d = d
      BY <2>2 DEF Claimed
    <3> QED BY <3>1 DEF CommissionInv, RowsFollowHandlers, BeforeBonusRow, BeforeRow
  <2> QED BY <2>1, <2>2
<1> QED BY <1>1 DEF Absent

(* No new claim.                                                              *)
LEMMA ClaimsFrame ==
  ASSUME CommissionInv, Next, \A d \in DepositIds \ twice : Claimed(d)' => Claimed(d)
  PROVE  ClaimsAreSingle'
<1>1. TypeOK /\ twice \subseteq twice'
  BY HistoryStays DEF CommissionInv, CreditInv
<1>2. \A d \in DepositIds \ twice :
         Claimed(d)' => Claimed(d) /\ deposit'[d].user = deposit[d].user
  BY <1>1, ClaimedDeposit, DepositStays
<1> QED BY <1>1, <1>2 DEF CommissionInv, ClaimsAreSingle

(* A step that writes none of these rows and moves no handler on its way.     *)
LEMMA CommissionFrame ==
  ASSUME CommissionInv, Next, CreditInv', TraceInv',
         \A e \in DepositIds : /\ entries'[e].commission = entries[e].commission
                               /\ entries'[e].referralBonus = entries[e].referralBonus
                               /\ deposit[e].status = "SUCCESS" /\ e \notin twice =>
                                     deposit'[e].status = "SUCCESS",
         \A g \in Handlers : ipn'[g].at \in BeforeBonusRow => ipn'[g] = ipn[g]
  PROVE  CommissionInv'
<1>0. twice \subseteq twice'
  BY HistoryStays
<1>1. \A d \in DepositIds : Claimed(d)' => Claimed(d)
  BY DEF Claimed, BeforeBonusRow, BeforeRow
<1>2. ClaimsAreSingle'
  BY <1>1, ClaimsFrame
<1>3. \A g \in Handlers : ipn'[g].at \in BeforeBonusRow => ipn[g].d \in DepositIds
  <2>1. \A g \in Handlers : ipn'[g].at \in BeforeBonusRow => ipn[g] # Idle
    BY DEF BeforeBonusRow, BeforeRow, Idle
  <2> QED BY <2>1, WorksOnDeposit DEF CommissionInv, CreditInv
<1>4. RowsFollowHandlers'
  <2>1. ASSUME NEW d \in DepositIds, d \notin twice'
        PROVE  /\ deposit'[d].status # "SUCCESS" =>
                     entries'[d].commission = 0 /\ entries'[d].referralBonus = 0
               /\ entries'[d].commission <= 1 /\ entries'[d].referralBonus <= 1
    BY <1>0, <2>1 DEF CommissionInv, RowsFollowHandlers
  <2>2. ASSUME NEW h \in Handlers, ipn'[h].at \in BeforeBonusRow, ipn'[h].d \notin twice'
        PROVE  /\ deposit'[ipn'[h].d].status = "SUCCESS" /\ entries'[ipn'[h].d].referralBonus = 0
               /\ ipn'[h].at \in BeforeRow => entries'[ipn'[h].d].commission = 0
               /\ ipn'[h].at \in {"pay", "bonus"} => entries'[ipn'[h].d].commission = 1
    BY <1>0, <1>3, <2>2 DEF CommissionInv, RowsFollowHandlers
  <2> QED BY <2>1, <2>2 DEF RowsFollowHandlers
<1> QED BY <1>2, <1>4 DEF CommissionInv

(* What the rows of deposit d, where handler h is, must be                    *)
RowsFit(h, d) ==
  /\ deposit[d].status = "SUCCESS"
  /\ entries[d].commission \in {0, 1} /\ entries[d].referralBonus \in {0, 1}
  /\ ipn[h].at \in BeforeBonusRow => entries[d].referralBonus = 0
  /\ ipn[h].at \in BeforeRow => entries[d].commission = 0
  /\ ipn[h].at \in {"pay", "bonus"} => entries[d].commission = 1

(* A handler moves on its way; no other works on the same deposit.            *)
LEMMA RowsMove ==
  ASSUME CommissionInv, Next, NEW h \in Handlers, ipn[h] # Idle,
         NEW d \in DepositIds, d = ipn[h].d,
         \A g \in Handlers \ {h} : ipn'[g] = ipn[g], ipn'[h].d = d,
         \A e \in DepositIds \ {d} : entries'[e] = entries[e] /\ deposit'[e] = deposit[e],
         d \notin twice => RowsFit(h, d)'
  PROVE  RowsFollowHandlers'
<1>0. twice \subseteq twice'
  BY HistoryStays
<1>1. ASSUME NEW g \in Handlers, ipn'[g].at \in BeforeBonusRow, ipn'[g].d \notin twice'
      PROVE  /\ deposit'[ipn'[g].d].status = "SUCCESS" /\ entries'[ipn'[g].d].referralBonus = 0
             /\ ipn'[g].at \in BeforeRow => entries'[ipn'[g].d].commission = 0
             /\ ipn'[g].at \in {"pay", "bonus"} => entries'[ipn'[g].d].commission = 1
  <2>1. CASE g = h
    BY <1>0, <1>1, <2>1 DEF RowsFit
  <2>2. CASE g # h
    <3>1. ipn'[g] = ipn[g] /\ ipn[g] # Idle /\ ipn[g].d \notin twice
      BY <1>0, <1>1, <2>2 DEF BeforeBonusRow, BeforeRow, Idle
    <3>2. ipn[g].d \in DepositIds
      BY <3>1, WorksOnDeposit DEF CommissionInv, CreditInv
    <3>3. ipn[g].d # d
      BY <2>2, <3>1 DEF CommissionInv, CreditInv, CheckHolds
    <3> QED BY <1>1, <3>1, <3>2, <3>3 DEF CommissionInv, RowsFollowHandlers
  <2> QED BY <2>1, <2>2
<1>2. ASSUME NEW e \in DepositIds, e \notin twice'
      PROVE  /\ deposit'[e].status # "SUCCESS" =>
                    entries'[e].commission = 0 /\ entries'[e].referralBonus = 0
             /\ entries'[e].commission <= 1 /\ entries'[e].referralBonus <= 1
  <2>1. CASE e = d
    BY <1>0, <1>2, <2>1 DEF RowsFit
  <2>2. CASE e # d
    BY <1>0, <1>2, <2>2 DEF CommissionInv, RowsFollowHandlers
  <2> QED BY <2>1, <2>2
<1> QED BY <1>1, <1>2 DEF RowsFollowHandlers

LEMMA CommissionStep == CommissionInv /\ [Next]_vars => CommissionInv'
<1> SUFFICES ASSUME CommissionInv, [Next]_vars PROVE CommissionInv'
  OBVIOUS
<1>0. TypeOK /\ TypeOK' /\ CreditInv' /\ TraceInv'
  <2>1. CreditInv' /\ TraceInv'
    BY CreditStep, TraceStep DEF CommissionInv
  <2> QED BY <2>1 DEF CommissionInv, TraceInv
<1>1. CASE UNCHANGED vars
  <2>1. ClaimsAreSingle' /\ RowsFollowHandlers'
    BY <1>1 DEF vars, CommissionInv, ClaimsAreSingle, Claimed, RowsFollowHandlers
  <2> QED BY <1>0, <2>1 DEF CommissionInv
<1> SUFFICES ASSUME Next PROVE CommissionInv'
  BY <1>1
<1>2. ASSUME NEW h \in Handlers, Done(h)
      PROVE  \A g \in Handlers : ipn'[g].at \in BeforeBonusRow => ipn'[g] = ipn[g]
  BY <1>0, <1>2, HandlerEnds DEF Idle, BeforeBonusRow, BeforeRow
<1>3. ASSUME NEW d \in DepositIds, NEW u \in Users, NEW amount \in Amounts,
             InitDeposit(d, u, amount)
      PROVE  CommissionInv'
  <2>1. deposit[d] = Absent /\ UNCHANGED <<entries, ipn>>
        /\ \A e \in DepositIds \ {d} : deposit'[e] = deposit[e]
    BY <1>0, <1>3 DEF InitDeposit, TypeOK
  <2>2. \A e \in DepositIds : deposit[e].status = "SUCCESS" => deposit'[e].status = "SUCCESS"
    BY <2>1 DEF Absent
  <2> QED BY <1>0, <2>1, <2>2, CommissionFrame
<1>4. ASSUME NEW d \in DepositIds, NEW u \in Users, NEW amount \in Amounts,
             AdminDeposit(d, u, amount)
      PROVE  CommissionInv'
  <2>1. /\ deposit'[d].status = "SUCCESS"
        /\ \A e \in DepositIds \ {d} : deposit'[e] = deposit[e] /\ entries'[e] = entries[e]
        /\ entries'[d].commission = entries[d].commission
        /\ entries'[d].referralBonus = entries[d].referralBonus
        /\ ipn' = ipn
    BY <1>0, <1>4, AdminDepositDoes
  <2> QED BY <1>0, <2>1, CommissionFrame
<1>5. ASSUME NEW d \in DepositIds, NEW outcome \in {"SUCCESS", "FAILURE"},
             GatewayDecides(d, outcome)
      PROVE  CommissionInv'
  BY <1>0, <1>5, CommissionFrame DEF GatewayDecides
<1>6. ASSUME NEW d \in DepositIds, LockEnds(d)
      PROVE  CommissionInv'
  <2>1. deposit[d] \in Deposit
    BY <1>0, <1>6 DEF LockEnds, TypeOK, Absent
  <2>2. \A e \in DepositIds : deposit'[e].status = deposit[e].status
    BY <1>0, <1>6, <2>1 DEF LockEnds, TypeOK, Deposit
  <2> QED BY <1>0, <1>6, <2>2, CommissionFrame DEF LockEnds
<1>7. ASSUME NEW h \in Handlers, NEW d \in DepositIds,
             NEW outcome \in {"SUCCESS", "FAILURE"}, IpnRead(h, d, outcome)
      PROVE  CommissionInv'
  <2>1. ipn'[h].at \notin BeforeBonusRow /\ \A g \in Handlers \ {h} : ipn'[g] = ipn[g]
    BY <1>0, <1>7 DEF IpnRead, TypeOK, BeforeBonusRow, BeforeRow
  <2> QED BY <1>0, <1>7, <2>1, CommissionFrame DEF IpnRead
<1>8. ASSUME NEW h \in Handlers, IpnFail(h)
      PROVE  CommissionInv'
  <2>0. PICK d : d = ipn[h].d
    OBVIOUS
  <2>1. ipn[h] # Idle /\ d \in DepositIds /\ deposit[d] \in Deposit
    BY <1>0, <1>8, <2>0, WorksOnDeposit DEF IpnFail, Idle
  <2>2. d \notin twice => deposit[d].status = "PENDING"
    BY <1>8, <2>0, <2>1 DEF IpnFail, CommissionInv, CreditInv, CheckHolds
  <2>3. /\ \A e \in DepositIds \ {d} : deposit'[e] = deposit[e]
        /\ entries' = entries /\ Done(h)
    BY <1>0, <1>8, <2>0, <2>1 DEF IpnFail, TypeOK
  <2>4. \A e \in DepositIds : deposit[e].status = "SUCCESS" /\ e \notin twice =>
                                deposit'[e].status = "SUCCESS"
    BY <2>2, <2>3
  <2> QED BY <1>0, <1>2, <2>3, <2>4, CommissionFrame
<1>9. ASSUME NEW h \in Handlers, IpnUnfit(h) \/ IpnFailure(h) \/ EvalWrite(h)
      PROVE  CommissionInv'
  <2>1. Done(h) /\ UNCHANGED <<deposit, entries>>
    BY <1>9 DEF IpnUnfit, IpnFailure, EvalWrite
  <2> QED BY <1>0, <1>2, <2>1, CommissionFrame
<1>10. ASSUME NEW h \in Handlers, IpnCredit(h) \/ EvalReadUser(h) \/ EvalReadSum(h)
       PROVE  CommissionInv'
  <2>1. UNCHANGED <<deposit, entries>>
    BY <1>10 DEF IpnCredit, EvalReadUser, EvalReadSum
  <2>2. /\ ipn'[h].at \in {"credited", "sum", "evaluated"}
        /\ \A g \in Handlers \ {h} : ipn'[g] = ipn[g]
    BY <1>0, <1>10, EvaluationDoes
  <2>3. \A g \in Handlers : ipn'[g].at \in BeforeBonusRow => ipn'[g] = ipn[g]
    BY <2>2 DEF BeforeBonusRow, BeforeRow
  <2> QED BY <1>0, <2>1, <2>3, CommissionFrame
<1>11. CASE Crash
  <2>1. \A g \in Handlers : ipn'[g].at \notin BeforeBonusRow
    BY <1>11 DEF Crash, Idle, BeforeBonusRow, BeforeRow
  <2> QED BY <1>0, <1>11, <2>1, CommissionFrame DEF Crash
(* The deposit becomes SUCCESS: it was not, so nothing points to it yet.      *)
<1>12. ASSUME NEW h \in Handlers, IpnCommit(h)
       PROVE  CommissionInv'
  <2>0. PICK d, u : d = ipn[h].d /\ u = UserOf(h)
    OBVIOUS
  <2>1. Committed(h, d, u)
    BY <1>0, <1>12, <2>0, CommitDoes
  <2>2. /\ ipn[h].at = "credited" /\ ipn[h] # Idle /\ d \in DepositIds
        /\ deposit'[d].status = "SUCCESS"
        /\ \A e \in DepositIds \ {d} : deposit'[e] = deposit[e] /\ entries'[e] = entries[e]
        /\ entries'[d].commission = entries[d].commission
        /\ entries'[d].referralBonus = entries[d].referralBonus
        /\ ipn'[h].at = "referral" /\ ipn'[h].d = d
        /\ \A g \in Handlers \ {h} : ipn'[g] = ipn[g]
    BY <2>1 DEF Committed
  <2>3. d \notin twice => deposit[d].status = "PENDING"
    BY <2>0, <2>2 DEF CommissionInv, CreditInv, CheckHolds
  <2>4. d \notin twice => entries[d].commission = 0 /\ entries[d].referralBonus = 0
    BY <2>2, <2>3 DEF CommissionInv, RowsFollowHandlers
  <2>5. RowsFollowHandlers'
    <3>1. d \notin twice => RowsFit(h, d)'
      BY <2>2, <2>4 DEF RowsFit
    <3> QED BY <2>0, <2>2, <3>1, RowsMove
  <2>6. \A e \in DepositIds : Claimed(e)' => Claimed(e)
    BY <2>2 DEF Claimed
  <2>7. ClaimsAreSingle'
    BY <2>6, ClaimsFrame
  <2> QED BY <1>0, <2>5, <2>7 DEF CommissionInv
(* The claim: it is the user's only SUCCESS deposit.                          *)
<1>13. ASSUME NEW h \in Handlers, IpnReferral(h)
       PROVE  CommissionInv'
  <2>0. PICK d, u : d = ipn[h].d /\ u = UserOf(h)
    OBVIOUS
  <2>1. PICK at \in {"commission", "level"} :
           Goto(h, at) /\ (at = "commission" => PreviousDeposits(d) = {})
    BY <1>13, <2>0 DEF IpnReferral
  <2>2. ipn[h] # Idle /\ ipn[h].at = "referral" /\ UNCHANGED <<deposit, entries>>
    BY <1>13 DEF IpnReferral, Idle
  <2>3. d \in DepositIds /\ deposit[d].user = u
    BY <1>0, <2>0, <2>2, WorksOnDeposit DEF UserOf
  <2>4. ipn'[h].at = at /\ ipn'[h].d = d /\ \A g \in Handlers \ {h} : ipn'[g] = ipn[g]
    BY <1>0, <2>0, <2>1, <2>2, HandlerMoves
  <2>5. d \notin twice => /\ deposit[d].status = "SUCCESS"
                          /\ entries[d].referralBonus = 0 /\ entries[d].commission = 0
    BY <2>0, <2>2 DEF CommissionInv, RowsFollowHandlers, BeforeBonusRow, BeforeRow
  <2>6. RowsFollowHandlers'
    <3>1. at \notin {"pay", "bonus"}
      BY <2>1
    <3>2. d \notin twice => RowsFit(h, d)'
      BY <2>2, <2>4, <2>5, <3>1 DEF RowsFit
    <3> QED BY <2>0, <2>2, <2>3, <2>4, <3>2, RowsMove
  <2>7. \A e \in DepositIds : Claimed(e)' => Claimed(e) \/ e = d
    BY <2>2, <2>4 DEF Claimed
  <2>8. CASE at = "level" \/ d \in twice
    <3>1. \A e \in DepositIds \ twice : Claimed(e)' => Claimed(e)
      BY <2>2, <2>4, <2>7, <2>8 DEF Claimed
    <3> QED BY <1>0, <2>6, <3>1, ClaimsFrame DEF CommissionInv
  <2>9. CASE at = "commission" /\ d \notin twice
    <3>0. twice \subseteq twice'
      BY HistoryStays
    <3>1. \A e \in DepositIds : deposit[e].status = "SUCCESS" /\ deposit[e].user = u => e = d
      BY <2>1, <2>3, <2>9 DEF PreviousDeposits, Counted
    <3>2. \A e \in DepositIds \ twice : Claimed(e)' => deposit[e].status = "SUCCESS"
      BY <2>5, <2>7, <2>9, ClaimedDeposit
    <3>3. ClaimsAreSingle'
      <4> SUFFICES ASSUME NEW e \in DepositIds \ twice, NEW f \in DepositIds \ twice,
                          Claimed(e)', Claimed(f)', deposit'[e].user = deposit'[f].user
                   PROVE  e = f
        BY <3>0 DEF ClaimsAreSingle
      <4>1. CASE deposit[e].user = u
        BY <2>2, <3>1, <3>2, <4>1
      <4>2. CASE deposit[e].user # u
        BY <2>2, <2>3, <2>7, <4>2 DEF CommissionInv, ClaimsAreSingle
      <4> QED BY <4>1, <4>2
    <3> QED BY <1>0, <2>6, <3>3 DEF CommissionInv
  <2> QED BY <2>1, <2>8, <2>9
<1>14. ASSUME NEW h \in Handlers, IpnCommission(h) \/ IpnReferralBonus(h)
       PROVE  CommissionInv'
  <2>0. PICK d : d = ipn[h].d
    OBVIOUS
  <2>1. /\ ipn[h] # Idle /\ d \in DepositIds /\ ipn'[h].d = d
        /\ \A e \in DepositIds \ {d} : entries'[e] = entries[e]
        /\ \/ /\ ipn[h].at = "commission" /\ ipn'[h].at = "pay"
              /\ entries'[d].commission = entries[d].commission + 1
              /\ entries'[d].referralBonus = entries[d].referralBonus
           \/ /\ ipn[h].at = "bonus" /\ ipn'[h].at = "level"
              /\ entries'[d].commission = entries[d].commission
              /\ entries'[d].referralBonus = entries[d].referralBonus + 1
        /\ \A g \in Handlers \ {h} : ipn'[g] = ipn[g]
        /\ deposit' = deposit
    BY <1>0, <1>14, <2>0, RowDoes
  <2>2. d \notin twice =>
           /\ deposit[d].status = "SUCCESS" /\ entries[d].referralBonus = 0
           /\ ipn[h].at = "commission" => entries[d].commission = 0
           /\ ipn[h].at = "bonus" => entries[d].commission = 1
    BY <2>0, <2>1 DEF CommissionInv, RowsFollowHandlers, BeforeBonusRow, BeforeRow
  <2>3. /\ d \notin twice => /\ entries'[d].commission = 1
                             /\ ipn'[h].at = "pay" => entries'[d].referralBonus = 0
                             /\ entries'[d].referralBonus \in {0, 1}
        /\ ipn'[h].at \in {"pay", "level"}
    BY <2>1, <2>2
  <2>4. ipn'[h].at \notin BeforeRow /\ (ipn'[h].at \in BeforeBonusRow => ipn'[h].at = "pay")
    BY <2>3 DEF BeforeBonusRow, BeforeRow
  <2>5. RowsFollowHandlers'
    <3>1. d \notin twice => RowsFit(h, d)'
      BY <2>1, <2>2, <2>3, <2>4 DEF RowsFit
    <3> QED BY <2>0, <2>1, <3>1, RowsMove
  <2>6. \A e \in DepositIds \ twice : Claimed(e)' => Claimed(e)
    <3>1. d \notin twice => Claimed(d)
      BY <2>0, <2>1, <2>2 DEF Claimed
    <3>2. \A e \in DepositIds \ {d} : Claimed(e)' => Claimed(e)
      BY <2>1, <2>3 DEF Claimed
    <3> QED BY <3>1, <3>2
  <2> QED BY <1>0, <2>5, <2>6, ClaimsFrame DEF CommissionInv
<1>15. ASSUME NEW h \in Handlers, IpnPayReferrer(h)
       PROVE  CommissionInv'
  <2>0. PICK d : d = ipn[h].d
    OBVIOUS
  <2>1. /\ ipn[h] # Idle /\ d \in DepositIds /\ ipn[h].at = "pay" /\ ipn'[h].at = "bonus"
        /\ ipn'[h].d = d /\ \A g \in Handlers \ {h} : ipn'[g] = ipn[g]
        /\ UNCHANGED <<deposit, entries>>
    BY <1>0, <1>15, <2>0, PayDoes
  <2>2. d \notin twice => /\ deposit[d].status = "SUCCESS" /\ entries[d].referralBonus = 0
                          /\ entries[d].commission = 1
    BY <2>0, <2>1 DEF CommissionInv, RowsFollowHandlers, BeforeBonusRow, BeforeRow
  <2>3. ipn'[h].at \notin BeforeRow
    BY <2>1 DEF BeforeRow
  <2>4. RowsFollowHandlers'
    <3>1. d \notin twice => RowsFit(h, d)'
      BY <2>1, <2>2, <2>3 DEF RowsFit
    <3> QED BY <2>0, <2>1, <3>1, RowsMove
  <2>5. \A e \in DepositIds : Claimed(e)' => Claimed(e)
    BY <2>1 DEF Claimed
  <2> QED BY <1>0, <2>4, <2>5, ClaimsFrame DEF CommissionInv
<1> QED BY <1>3, <1>4, <1>5, <1>6, <1>7, <1>8, <1>9, <1>10, <1>11, <1>12, <1>13, <1>14, <1>15
        DEF Next, Ipn

LEMMA CommissionStart == Init => CommissionInv
<1> SUFFICES ASSUME Init PROVE CommissionInv
  OBVIOUS
<1>1. CreditInv /\ TraceInv
  BY CreditStart, TraceStart
<1>2. /\ \A h \in Handlers : /\ ipn[h].at \notin BeforeBonusRow
                             /\ ipn[h].at \notin {"pay", "bonus", "referral", "commission"}
      /\ \A d \in DepositIds : entries[d].commission = 0 /\ entries[d].referralBonus = 0
  BY DEF Init, Idle, BeforeBonusRow, BeforeRow, NoEntries
<1>3. ClaimsAreSingle
  BY <1>2 DEF ClaimsAreSingle, Claimed
<1>4. RowsFollowHandlers
  BY <1>2 DEF RowsFollowHandlers, BeforeRow
<1> QED BY <1>1, <1>3, <1>4 DEF CommissionInv

(* A referrer is paid for one deposit of the user referred, and once, if no   *)
(* two calls for one deposit were in flight at once (deposit.service.ts:204):  *)
(* two first deposits that become SUCCESS at the same time may both earn       *)
(* nothing, but never both something.                                         *)
THEOREM OneCommission == Spec => []CommissionOnce
<1>1. CommissionInv => CommissionOnce
  <2> SUFFICES ASSUME CommissionInv, NEW d \in DepositIds \ twice, NEW e \in DepositIds \ twice,
                      entries[d].commission > 0, entries[e].commission > 0, SameUser(d, e)
               PROVE  d = e /\ entries[d].commission = 1
    BY DEF CommissionOnce
  <2>1. d = e
    BY DEF CommissionInv, ClaimsAreSingle, Claimed, SameUser
  <2>2. entries[d].commission \in Nat /\ entries[d].commission <= 1
    BY DEF CommissionInv, RowsFollowHandlers, TraceInv, TypeOK, Entries
  <2> QED BY <2>1, <2>2
<1> QED BY <1>1, CommissionStart, CommissionStep, PTL DEF Spec

-----------------------------------------------------------------------------
(* A SUCCESS deposit stays one if no two calls for it were in flight at once.   *)
LEMMA SuccessStays ==
  ASSUME CreditInv, Next, NEW e \in DepositIds \ twice, deposit[e].status = "SUCCESS"
  PROVE  deposit'[e].status = "SUCCESS"
<1>0. TypeOK /\ deposit[e] # Absent
  BY DEF CreditInv, Absent
<1>1. ASSUME NEW d \in DepositIds, NEW u \in Users, NEW amount \in Amounts,
             InitDeposit(d, u, amount) \/ AdminDeposit(d, u, amount)
      PROVE  deposit'[e].status = "SUCCESS"
  BY <1>0, <1>1 DEF InitDeposit, AdminDeposit, TypeOK
<1>2. ASSUME NEW d \in DepositIds, LockEnds(d)
      PROVE  deposit'[e].status = "SUCCESS"
  <2>1. deposit[e] \in Deposit
    BY <1>0 DEF TypeOK
  <2> QED BY <1>0, <1>2, <2>1 DEF LockEnds, TypeOK, Deposit
<1>3. ASSUME NEW h \in Handlers, IpnFail(h)
      PROVE  deposit'[e].status = "SUCCESS"
  <2>1. ipn[h] # Idle /\ ipn[h].d \in DepositIds /\ ipn[h].at = "failed"
    BY <1>0, <1>3, WorksOnDeposit DEF IpnFail, Idle
  <2>2. ipn[h].d # e
    BY <2>1 DEF CreditInv, CheckHolds
  <2>3. deposit'[e] = deposit[e]
    BY <1>0, <1>3, <2>1, <2>2 DEF IpnFail, TypeOK
  <2> QED BY <2>3
<1>4. ASSUME NEW h \in Handlers, IpnCommit(h)
      PROVE  deposit'[e].status = "SUCCESS"
  <2>0. PICK d, u : d = ipn[h].d /\ u = UserOf(h)
    OBVIOUS
  <2>1. Committed(h, d, u)
    BY <1>0, <1>4, <2>0, CommitDoes
  <2>2. deposit'[d].status = "SUCCESS" /\ \A x \in DepositIds \ {d} : deposit'[x] = deposit[x]
    BY <2>1 DEF Committed
  <2> QED BY <2>2
<1>5. ASSUME NEW h \in Handlers, Ipn(h) \/ IpnFailure(h)
      PROVE  IpnFail(h) \/ IpnCommit(h) \/ UNCHANGED deposit
  BY <1>5 DEF Ipn, IpnRead, IpnCredit, IpnUnfit, IpnReferral, IpnCommission, IpnPayReferrer,
              IpnReferralBonus, EvalReadUser, EvalReadSum, EvalWrite, IpnFailure
<1>6. ASSUME NEW d \in DepositIds, NEW outcome \in {"SUCCESS", "FAILURE"},
             GatewayDecides(d, outcome)
      PROVE  UNCHANGED deposit
  BY <1>6 DEF GatewayDecides
<1>7. Crash => UNCHANGED deposit
  BY DEF Crash
<1> QED BY <1>1, <1>2, <1>3, <1>4, <1>5, <1>6, <1>7 DEF Next

-----------------------------------------------------------------------------
(* The flag firstDepositBonus is up exactly when the bonus has been given:    *)
(* every deposit the webhook credits comes with the bonus or after it.        *)
FlagMeansBonus ==
  /\ \A d \in DepositIds :
        deposit[d].status = "SUCCESS" /\ deposit[d].provider = NoProvider =>
           user[deposit[d].user].firstDepositBonus
  /\ \A u \in Users :
        user[u].firstDepositBonus => \E d \in DepositsOf(u) : entries[d].firstBonus > 0

FlagInv == LevelInv /\ BonusInv /\ FlagMeansBonus

(* A step that raises no flag and adds no deposit of the webhook's.           *)
LEMMA FlagFrame ==
  ASSUME FlagInv, Next, LevelInv', BonusInv',
         \A u \in Users : user'[u].firstDepositBonus = user[u].firstDepositBonus,
         \A e \in DepositIds : entries'[e].firstBonus = entries[e].firstBonus,
         \A e \in DepositIds : deposit'[e].status = "SUCCESS" =>
            deposit[e].status = "SUCCESS" \/ deposit'[e].provider # NoProvider
  PROVE  FlagInv'
<1>0. TypeOK
  BY DEF FlagInv, BonusInv
<1>1. \A e \in DepositIds : deposit[e] # Absent =>
         /\ deposit'[e] # Absent /\ deposit'[e].user = deposit[e].user
         /\ deposit'[e].provider = deposit[e].provider /\ deposit[e].user \in Users
  BY <1>0, DepositStays DEF TypeOK, Deposit
<1>2. \A d \in DepositIds :
         deposit'[d].status = "SUCCESS" /\ deposit'[d].provider = NoProvider =>
            user'[deposit'[d].user].firstDepositBonus
  <2> SUFFICES ASSUME NEW d \in DepositIds, deposit'[d].status = "SUCCESS",
                      deposit'[d].provider = NoProvider
               PROVE  user'[deposit'[d].user].firstDepositBonus
    OBVIOUS
  <2>1. deposit[d].status = "SUCCESS" /\ deposit[d] # Absent
    BY DEF Absent
  <2> QED BY <1>1, <2>1 DEF FlagInv, FlagMeansBonus
<1>3. \A u \in Users :
        user'[u].firstDepositBonus => \E d \in DepositsOf(u)' : entries'[d].firstBonus > 0
  <2> SUFFICES ASSUME NEW u \in Users, user'[u].firstDepositBonus
               PROVE  \E d \in DepositsOf(u)' : entries'[d].firstBonus > 0
    OBVIOUS
  <2>1. PICK d \in DepositsOf(u) : entries[d].firstBonus > 0
    BY DEF FlagInv, FlagMeansBonus
  <2>2. d \in DepositsOf(u)' /\ entries'[d].firstBonus > 0
    BY <1>1, <2>1 DEF DepositsOf
  <2> QED BY <2>2
<1> QED BY <1>2, <1>3 DEF FlagInv, FlagMeansBonus

LEMMA FlagStep == FlagInv /\ [Next]_vars => FlagInv'
<1> SUFFICES ASSUME FlagInv, [Next]_vars PROVE FlagInv'
  OBVIOUS
<1>0. TypeOK /\ TypeOK' /\ LevelInv' /\ BonusInv'
  <2>1. LevelInv' /\ BonusInv'
    BY LevelStep, BonusStep DEF FlagInv
  <2> QED BY <2>1 DEF FlagInv, BonusInv
<1>1. CASE UNCHANGED vars
  <2>1. FlagMeansBonus'
    BY <1>1 DEF vars, FlagInv, FlagMeansBonus, DepositsOf
  <2> QED BY <1>0, <2>1 DEF FlagInv
<1> SUFFICES ASSUME Next PROVE FlagInv'
  BY <1>1
<1>2. ASSUME NEW d \in DepositIds, NEW u \in Users, NEW amount \in Amounts,
             InitDeposit(d, u, amount)
      PROVE  FlagInv'
  <2>1. /\ UNCHANGED <<user, entries>> /\ deposit'[d].status # "SUCCESS"
        /\ \A e \in DepositIds \ {d} : deposit'[e] = deposit[e]
    BY <1>0, <1>2 DEF InitDeposit, TypeOK
  <2> QED BY <1>0, <2>1, FlagFrame
<1>3. ASSUME NEW d \in DepositIds, NEW u \in Users, NEW amount \in Amounts,
             AdminDeposit(d, u, amount)
      PROVE  FlagInv'
  <2>1. /\ deposit'[d].provider = "admin-manual" /\ user' = user
        /\ \A e \in DepositIds \ {d} : deposit'[e] = deposit[e] /\ entries'[e] = entries[e]
        /\ entries'[d].firstBonus = entries[d].firstBonus
    BY <1>0, <1>3, AdminDepositDoes
  <2>2. "admin-manual" # NoProvider
    BY Zenon DEF NoProvider
  <2> QED BY <1>0, <2>1, <2>2, FlagFrame
<1>4. ASSUME NEW d \in DepositIds, LockEnds(d)
      PROVE  FlagInv'
  <2>1. deposit[d] \in Deposit
    BY <1>0, <1>4 DEF LockEnds, TypeOK, Absent
  <2>2. \A e \in DepositIds : deposit'[e].status = deposit[e].status
    BY <1>0, <1>4, <2>1 DEF LockEnds, TypeOK, Deposit
  <2> QED BY <1>0, <1>4, <2>2, FlagFrame DEF LockEnds
<1>5. ASSUME NEW h \in Handlers, IpnFail(h)
      PROVE  FlagInv'
  <2>0. PICK d : d = ipn[h].d
    OBVIOUS
  <2>1. d \in DepositIds /\ deposit[d] \in Deposit
    BY <1>0, <1>5, <2>0, WorksOnDeposit DEF IpnFail, Idle
  <2>2. /\ deposit'[d].status = "FAILED" /\ UNCHANGED <<user, entries>>
        /\ \A e \in DepositIds \ {d} : deposit'[e] = deposit[e]
    BY <1>0, <1>5, <2>0, <2>1 DEF IpnFail, TypeOK, Deposit
  <2> QED BY <1>0, <2>2, FlagFrame
<1>6. ASSUME NEW h \in Handlers, IpnCommission(h) \/ IpnReferralBonus(h)
      PROVE  FlagInv'
  <2>1. \A e \in DepositIds : entries'[e].firstBonus = entries[e].firstBonus
    BY <1>0, <1>6 DEF IpnCommission, IpnReferralBonus, TypeOK, Entries
  <2>2. UNCHANGED <<user, deposit>>
    BY <1>6 DEF IpnCommission, IpnReferralBonus
  <2> QED BY <1>0, <2>1, <2>2, FlagFrame
<1>7. ASSUME NEW h \in Handlers, EvalWrite(h)
      PROVE  FlagInv'
  <2>1. \A u \in Users : user'[u].firstDepositBonus = user[u].firstDepositBonus
    BY <1>0, <1>7 DEF EvalWrite, TypeOK
  <2>2. UNCHANGED <<entries, deposit>>
    BY <1>7 DEF EvalWrite
  <2> QED BY <1>0, <2>1, <2>2, FlagFrame
<1>8. CASE UNCHANGED <<user, deposit, entries>>
  BY <1>0, <1>8, FlagFrame
<1>9. ASSUME NEW h \in Handlers, IpnCommit(h)
      PROVE  FlagInv'
  <2>0. PICK d, u : d = ipn[h].d /\ u = UserOf(h)
    OBVIOUS
  <2>1. Committed(h, d, u)
    BY <1>0, <1>9, <2>0, CommitDoes
  <2>2. /\ d \in DepositIds /\ u \in Users /\ u = deposit[d].user /\ deposit[d] # Absent
        /\ ipn[h].at = "credited" /\ deposit'[d].status = "SUCCESS"
        /\ \A e \in DepositIds \ {d} : deposit'[e] = deposit[e] /\ entries'[e] = entries[e]
        /\ entries'[d].firstBonus = entries[d].firstBonus + (IF ipn[h].saw THEN 0 ELSE 1)
        /\ user'[u].firstDepositBonus = TRUE /\ \A v \in Users \ {u} : user'[v] = user[v]
    BY <2>1 DEF Committed
  <2>3. deposit'[d].user = u
    BY <1>0, <2>2, DepositStays
  <2>4. \A e \in DepositIds : deposit[e] # Absent =>
           deposit'[e] # Absent /\ deposit'[e].user = deposit[e].user
    BY <1>0, DepositStays
  <2>5. \A e \in DepositIds :
           deposit'[e].status = "SUCCESS" /\ deposit'[e].provider = NoProvider =>
              user'[deposit'[e].user].firstDepositBonus
    <3> SUFFICES ASSUME NEW e \in DepositIds, deposit'[e].status = "SUCCESS",
                        deposit'[e].provider = NoProvider
                 PROVE  user'[deposit'[e].user].firstDepositBonus
      OBVIOUS
    <3>1. CASE e = d \/ deposit'[e].user = u
      BY <2>2, <2>3, <3>1
    <3>2. CASE e # d /\ deposit'[e].user # u
      <4>1. deposit'[e] = deposit[e] /\ user[deposit[e].user].firstDepositBonus
        BY <2>2, <3>2 DEF FlagInv, FlagMeansBonus
      <4>2. deposit[e] \in Deposit
        BY <1>0, <4>1 DEF TypeOK, Absent
      <4>3. deposit[e].user \in Users
        BY <4>2 DEF Deposit
      <4> QED BY <2>2, <3>2, <4>1, <4>3
    <3> QED BY <3>1, <3>2
  <2>6. \A v \in Users :
          user'[v].firstDepositBonus => \E e \in DepositsOf(v)' : entries'[e].firstBonus > 0
    <3> SUFFICES ASSUME NEW v \in Users, user'[v].firstDepositBonus
                 PROVE  \E e \in DepositsOf(v)' : entries'[e].firstBonus > 0
      OBVIOUS
    <3>1. entries[d].firstBonus \in Nat
      BY <1>0, <2>2 DEF TypeOK, Entries
    <3>2. CASE v = u /\ ~ipn[h].saw
      <4>1. d \in DepositsOf(v)' /\ entries'[d].firstBonus > 0
        BY <2>2, <2>3, <2>4, <3>1, <3>2 DEF DepositsOf
      <4> QED BY <4>1
    <3>3. CASE user[v].firstDepositBonus
      <4>1. PICK e \in DepositsOf(v) : entries[e].firstBonus > 0
        BY <3>3 DEF FlagInv, FlagMeansBonus
      <4>2. e \in DepositsOf(v)'
        BY <2>4, <4>1 DEF DepositsOf
      <4>3. entries'[e].firstBonus > 0
        BY <2>2, <3>1, <4>1 DEF DepositsOf
      <4> QED BY <4>2, <4>3
    <3>4. user[v].firstDepositBonus \/ (v = u /\ ~ipn[h].saw)
      <4>1. ipn[h].saw = user[UserOf(h)].firstDepositBonus
        BY <2>2 DEF FlagInv, BonusInv, LockHolderKnows
      <4>2. v = u => ipn[h].saw = user[v].firstDepositBonus
        BY <2>0, <4>1
      <4> QED BY <2>2, <4>2
    <3> QED BY <3>2, <3>3, <3>4
  <2> QED BY <1>0, <2>5, <2>6 DEF FlagInv, FlagMeansBonus
<1>10. ASSUME NEW h \in Handlers, Ipn(h) \/ IpnFailure(h)
       PROVE  \/ IpnFail(h) \/ IpnCommit(h) \/ IpnCommission(h) \/ IpnReferralBonus(h)
              \/ EvalWrite(h) \/ UNCHANGED <<user, deposit, entries>>
  BY <1>10 DEF Ipn, IpnRead, IpnCredit, IpnUnfit, IpnReferral, IpnPayReferrer, EvalReadUser,
               EvalReadSum, IpnFailure
<1>11. ASSUME NEW d \in DepositIds, NEW outcome \in {"SUCCESS", "FAILURE"},
              GatewayDecides(d, outcome)
       PROVE  FlagInv'
  BY <1>8, <1>11 DEF GatewayDecides
<1>12. CASE Crash
  BY <1>8, <1>12 DEF Crash
<1> QED BY <1>2, <1>3, <1>4, <1>5, <1>6, <1>7, <1>8, <1>9, <1>10, <1>11, <1>12 DEF Next

LEMMA FlagStart == Init => FlagInv
<1> SUFFICES ASSUME Init PROVE FlagInv
  OBVIOUS
<1>1. LevelInv /\ BonusInv
  BY LevelStart, BonusStart
<1>2. FlagMeansBonus
  BY DEF Init, FlagMeansBonus, Absent
<1> QED BY <1>1, <1>2 DEF FlagInv

(* A user with a deposit credited by the webhook has been given the           *)
(* first-deposit bonus, whatever calls overlap, fail or are repeated: it is   *)
(* part of the transaction that credits the first of them.                    *)
THEOREM FirstBonusIsGiven == Spec => []FlagMeansBonus
<1>1. FlagInv => FlagMeansBonus
  BY DEF FlagInv
<1> QED BY <1>1, FlagStart, FlagStep, PTL DEF Spec

-----------------------------------------------------------------------------
(* What follows from the deposits of a user of whom no two calls were in      *)
(* flight at once, and none failed after crediting: the only handler of the   *)
(* user is on its way to do it, or it is done.                                *)
Working == BeforeBonusRow \cup {"level", "sum", "evaluated"}

OneCallPerUser ==
  \A g, h \in Handlers :
     ipn[g] # Idle /\ ipn[h] # Idle /\ UserOf(g) = UserOf(h) /\ UserOf(h) \notin disturbed => g = h

TwiceIsDisturbed == \A d \in twice : deposit[d] # Absent /\ deposit[d].user \in disturbed

FromWebhook(u) == Counted(u) # {} /\ \A d \in Counted(u) : deposit[d].provider = NoProvider

Paying(u) == \E h \in Handlers : /\ ipn[h].at \in BeforeBonusRow /\ UserOf(h) = u
                                 /\ ipn[h].at = "referral" => Counted(u) = {ipn[h].d}
Paid(u) == \E d \in Counted(u) : entries[d].commission = 1 /\ entries[d].referralBonus = 1
ReferrerServed(u) == FromWebhook(u) /\ Referrer[u] # NoUser => Paying(u) \/ Paid(u)

Evaluating(u) == \E h \in Handlers : ipn[h].at \in Working /\ UserOf(h) = u
LevelServed(u) == FromWebhook(u) => Evaluating(u) \/ user[u].level = Target(u)

EvaluationCurrent(u) ==
  FromWebhook(u) => \A h \in Handlers : UserOf(h) = u =>
     /\ ipn[h].at \in {"sum", "evaluated"} => ipn[h].seen = user[u].level
     /\ ipn[h].at = "evaluated" => ipn[h].target = Target(u)

Served(u) == ReferrerServed(u) /\ LevelServed(u) /\ EvaluationCurrent(u)

ServedInv == /\ CommissionInv /\ FlagInv /\ OneCallPerUser /\ TwiceIsDisturbed
             /\ \A u \in Users \ disturbed : Served(u)

LEMMA WorkingIsNotIdle == \A h \in Handlers : ipn[h].at \in Working => ipn[h] # Idle
BY DEF Working, BeforeBonusRow, BeforeRow, Idle

LEMMA ServedTypes == ServedInv => TypeOK /\ CreditInv
BY DEF ServedInv, CommissionInv, CreditInv

(* The two calls that are in flight for one deposit are calls of one user.    *)
LEMMA TwiceStep == ServedInv /\ Next => TwiceIsDisturbed'
<1> SUFFICES ASSUME ServedInv, Next PROVE TwiceIsDisturbed'
  OBVIOUS
<1>0. TypeOK /\ twice \subseteq DepositIds /\ disturbed \subseteq disturbed'
  BY ServedTypes, HistoryStays DEF TypeOK
<1>1. \A d \in twice : deposit'[d] # Absent /\ deposit'[d].user \in disturbed'
  BY <1>0, DepositStays DEF ServedInv, TwiceIsDisturbed
<1>2. ASSUME NEW h \in Handlers, NEW d \in DepositIds,
             NEW outcome \in {"SUCCESS", "FAILURE"}, IpnRead(h, d, outcome)
      PROVE  TwiceIsDisturbed'
  <2>1. /\ deposit' = deposit /\ deposit[d] # Absent
        /\ twice' = twice \cup {ipn[g].d : g \in {g \in Handlers : ipn[g] # Idle /\ ipn[g].d = d}}
        /\ disturbed' = disturbed \cup {u \in {deposit[d].user} : Busy(u)}
    BY <1>2 DEF IpnRead, StillPending, Absent
  <2>2. ASSUME NEW e \in twice', e \notin twice
        PROVE  deposit'[e] # Absent /\ deposit'[e].user \in disturbed'
    <3>1. PICK g \in Handlers : ipn[g] # Idle /\ ipn[g].d = d /\ e = d
      BY <2>1, <2>2
    <3>2. Busy(deposit[d].user)
      BY <3>1 DEF Busy, UserOf
    <3> QED BY <2>1, <3>1, <3>2
  <2> QED BY <1>1, <2>2 DEF TwiceIsDisturbed
<1>3. CASE twice' = twice
  BY <1>1, <1>3 DEF TwiceIsDisturbed
<1>4. ASSUME NEW h \in Handlers, Ipn(h) \/ IpnFailure(h)
      PROVE  \/ \E d \in DepositIds, outcome \in {"SUCCESS", "FAILURE"} : IpnRead(h, d, outcome)
             \/ twice' = twice
  BY <1>4 DEF Ipn, IpnFail, IpnCredit, IpnCommit, IpnUnfit, IpnReferral, IpnCommission,
              IpnPayReferrer, IpnReferralBonus, EvalReadUser, EvalReadSum, EvalWrite, IpnFailure
<1>5. ASSUME NEW d \in DepositIds, NEW u \in Users, NEW amount \in Amounts,
             InitDeposit(d, u, amount) \/ AdminDeposit(d, u, amount)
      PROVE  twice' = twice
  BY <1>5 DEF InitDeposit, AdminDeposit
<1>6. ASSUME NEW d \in DepositIds, NEW outcome \in {"SUCCESS", "FAILURE"},
             GatewayDecides(d, outcome) \/ LockEnds(d)
      PROVE  twice' = twice
  BY <1>6 DEF GatewayDecides, LockEnds
<1>7. Crash => twice' = twice
  BY DEF Crash
<1> QED BY <1>2, <1>3, <1>4, <1>5, <1>6, <1>7 DEF Next

(* A counted deposit goes on being counted; the count of a user is the same   *)
(* when no other deposit of the user's becomes a SUCCESS.                     *)
LEMMA CountedStay ==
  ASSUME ServedInv, Next, NEW v \in Users \ disturbed
  PROVE  \A d \in Counted(v) : /\ d \in Counted(v)'
                               /\ deposit'[d].provider = deposit[d].provider
                               /\ deposit'[d].amount = deposit[d].amount
<1> TAKE d \in Counted(v)
<1>1. d \in DepositIds \ twice /\ deposit[d].status = "SUCCESS" /\ deposit[d].user = v
      /\ deposit[d] # Absent
  BY DEF Counted, Absent, ServedInv, TwiceIsDisturbed
<1>2. deposit'[d].status = "SUCCESS"
  BY <1>1, SuccessStays, ServedTypes
<1>3. deposit'[d].user = v /\ deposit'[d].provider = deposit[d].provider
      /\ deposit'[d].amount = deposit[d].amount
  BY <1>1, DepositStays, ServedTypes
<1> QED BY <1>1, <1>2, <1>3 DEF Counted

LEMMA CountedSame ==
  ASSUME ServedInv, Next, NEW v \in Users \ disturbed,
         \A e \in DepositIds :
            deposit'[e].status = "SUCCESS" => deposit[e].status = "SUCCESS" \/ deposit'[e].user # v
  PROVE  Counted(v)' = Counted(v) /\ Target(v)' = Target(v) /\ FromWebhook(v)' = FromWebhook(v)
<1>1. \A d \in Counted(v) : /\ d \in Counted(v)'
                            /\ deposit'[d].provider = deposit[d].provider
                            /\ deposit'[d].amount = deposit[d].amount
  BY CountedStay
<1>2. ASSUME NEW d \in Counted(v)' PROVE d \in Counted(v)
  <2>1. d \in DepositIds /\ deposit'[d].user = v /\ deposit[d].status = "SUCCESS"
        /\ deposit[d] # Absent
    BY DEF Counted, Absent
  <2>2. deposit[d].user = v
    BY <2>1, DepositStays, ServedTypes
  <2> QED BY <2>1, <2>2 DEF Counted
<1>3. Counted(v)' = Counted(v)
  BY <1>1, <1>2
<1>4. [d \in Counted(v) |-> deposit'[d].amount] = [d \in Counted(v) |-> deposit[d].amount]
  BY <1>1
<1>5. CountedSum(v)' = CountedSum(v)
  BY <1>3, <1>4 DEF CountedSum
<1>6. FromWebhook(v)' = FromWebhook(v)
  BY <1>1, <1>3 DEF FromWebhook
<1> QED BY <1>3, <1>5, <1>6 DEF Target

(* The only handler of a user past the bonus row: the referrer is paid.       *)
LEMMA PaidAlready ==
  ASSUME ServedInv, NEW h \in Handlers, ipn[h] # Idle, ipn[h].at \notin BeforeBonusRow,
         NEW u \in Users \ disturbed, u = UserOf(h), FromWebhook(u), Referrer[u] # NoUser
  PROVE  Paid(u)
<1>1. Paying(u) \/ Paid(u)
  BY DEF ServedInv, Served, ReferrerServed
<1>2. CASE Paying(u)
  <2>1. PICK g \in Handlers : ipn[g].at \in BeforeBonusRow /\ UserOf(g) = u
    BY <1>2 DEF Paying
  <2>2. ipn[g] # Idle
    BY <2>1, WorkingIsNotIdle DEF Working
  <2>3. g = h
    BY <2>1, <2>2 DEF ServedInv, OneCallPerUser
  <2> QED BY <2>1, <2>3
<1> QED BY <1>1, <1>2

(* A step that leaves alone what a user is owed: the deposits, the rows, the  *)
(* level, and the handler that is at work for the user.                       *)
LEMMA ServedFrame ==
  ASSUME ServedInv, Next, NEW v \in Users \ disturbed',
         \A e \in DepositIds :
            deposit'[e].status = "SUCCESS" => deposit[e].status = "SUCCESS" \/ deposit'[e].user # v,
         \A e \in Counted(v) : /\ entries'[e].commission = entries[e].commission
                               /\ entries'[e].referralBonus = entries[e].referralBonus,
         user'[v].level = user[v].level,
         \A g \in Handlers : \/ ipn'[g] = ipn[g]
                             \/ ipn[g].at \notin Working /\ ipn'[g].at \notin Working
                             \/ UserOf(g) # v /\ (ipn'[g].at \in Working => UserOf(g)' # v)
  PROVE  Served(v)'
<1>0. TypeOK /\ v \in Users \ disturbed
  BY ServedTypes, HistoryStays
<1>1. /\ Counted(v)' = Counted(v) /\ Target(v)' = Target(v)
      /\ FromWebhook(v)' = FromWebhook(v)
  BY <1>0, CountedSame
<1>2. \A g \in Handlers : ipn'[g] = ipn[g] /\ ipn[g].at \in Working => UserOf(g)' = UserOf(g)
  <2> SUFFICES ASSUME NEW g \in Handlers, ipn'[g] = ipn[g], ipn[g].at \in Working
               PROVE  UserOf(g)' = UserOf(g)
    OBVIOUS
  <2>1. ipn[g] # Idle
    BY WorkingIsNotIdle
  <2>2. ipn[g].d \in DepositIds /\ deposit[ipn[g].d] # Absent
    BY <1>0, <2>1, WorksOnDeposit DEF TypeOK
  <2> QED BY <1>0, <2>2, DepositStays DEF UserOf
<1>3. ASSUME NEW g \in Handlers, ipn[g].at \in Working, UserOf(g) = v
      PROVE  ipn'[g] = ipn[g] /\ UserOf(g)' = v
  BY <1>2, <1>3
<1>4. ASSUME NEW g \in Handlers, ipn'[g].at \in Working, UserOf(g)' = v
      PROVE  ipn'[g] = ipn[g] /\ UserOf(g) = v
  BY <1>2, <1>4
<1>5. ReferrerServed(v)'
  <2> SUFFICES ASSUME FromWebhook(v)', Referrer[v] # NoUser PROVE Paying(v)' \/ Paid(v)'
    BY DEF ReferrerServed
  <2>1. Paying(v) \/ Paid(v)
    BY <1>0, <1>1 DEF ServedInv, Served, ReferrerServed
  <2>2. CASE Paying(v)
    <3>1. PICK g \in Handlers : /\ ipn[g].at \in BeforeBonusRow /\ UserOf(g) = v
                                /\ ipn[g].at = "referral" => Counted(v) = {ipn[g].d}
      BY <2>2 DEF Paying
    <3>2. ipn'[g] = ipn[g] /\ UserOf(g)' = v
      BY <1>3, <3>1 DEF Working
    <3>3. /\ ipn'[g].at \in BeforeBonusRow /\ UserOf(g)' = v
          /\ ipn'[g].at = "referral" => Counted(v)' = {ipn'[g].d}
      BY <1>1, <3>1, <3>2
    <3> QED BY <3>3 DEF Paying
  <2>3. CASE Paid(v)
    BY <1>1, <2>3 DEF Paid
  <2> QED BY <2>1, <2>2, <2>3
<1>6. LevelServed(v)'
  <2> SUFFICES ASSUME FromWebhook(v)' PROVE Evaluating(v)' \/ user'[v].level = Target(v)'
    BY DEF LevelServed
  <2>1. Evaluating(v) \/ user[v].level = Target(v)
    BY <1>0, <1>1 DEF ServedInv, Served, LevelServed
  <2>2. CASE Evaluating(v)
    <3>1. PICK g \in Handlers : ipn[g].at \in Working /\ UserOf(g) = v
      BY <2>2 DEF Evaluating
    <3>2. ipn'[g].at \in Working /\ UserOf(g)' = v
      BY <1>3, <3>1
    <3> QED BY <3>2 DEF Evaluating
  <2> QED BY <1>1, <2>1, <2>2
<1>7. EvaluationCurrent(v)'
  <2> SUFFICES ASSUME FromWebhook(v)', NEW g \in Handlers, UserOf(g)' = v
               PROVE  /\ ipn'[g].at \in {"sum", "evaluated"} => ipn'[g].seen = user'[v].level
                      /\ ipn'[g].at = "evaluated" => ipn'[g].target = Target(v)'
    BY DEF EvaluationCurrent
  <2>1. CASE ipn'[g].at \in {"sum", "evaluated"}
    <3>1. ipn'[g] = ipn[g] /\ UserOf(g) = v
      BY <1>4, <2>1 DEF Working
    <3>2. EvaluationCurrent(v)
      BY <1>0 DEF ServedInv, Served
    <3> QED BY <1>1, <2>1, <3>1, <3>2 DEF EvaluationCurrent
  <2>2. CASE ipn'[g].at \notin {"sum", "evaluated"}
    BY <2>2
  <2> QED BY <2>1, <2>2
<1> QED BY <1>5, <1>6, <1>7 DEF Served

(* A step of one handler: the other users are served as before.               *)
LEMMA OthersServed ==
  ASSUME ServedInv, Next, NEW h \in Handlers, ipn[h] # Idle, NEW d, d = ipn[h].d,
         NEW u, u = UserOf(h),
         \A g \in Handlers \ {h} : ipn'[g] = ipn[g],
         ipn'[h] = Idle \/ ipn'[h].d = d,
         \A e \in DepositIds : deposit'[e].status = "SUCCESS" => deposit[e].status = "SUCCESS" \/ e = d,
         \A e \in DepositIds \ {d} : entries'[e] = entries[e],
         NEW v \in Users \ disturbed', v # u, user'[v].level = user[v].level
  PROVE  Served(v)'
<1>0. TypeOK
  BY ServedTypes
<1>1. d \in DepositIds /\ deposit[d] # Absent /\ deposit[d].user = u
  BY <1>0, WorksOnDeposit DEF UserOf, TypeOK
<1>2. deposit'[d].user = u
  BY <1>0, <1>1, DepositStays
<1>3. ipn'[h].at \in Working => UserOf(h)' # v
  <2>1. Idle.at \notin Working
    BY DEF Idle, Working, BeforeBonusRow, BeforeRow
  <2> QED BY <1>2, <2>1 DEF UserOf
<1>4. \A g \in Handlers : \/ ipn'[g] = ipn[g]
                          \/ ipn[g].at \notin Working /\ ipn'[g].at \notin Working
                          \/ UserOf(g) # v /\ (ipn'[g].at \in Working => UserOf(g)' # v)
  BY <1>3
<1>5. \A e \in Counted(v) : e # d /\ e \in DepositIds
  BY <1>1 DEF Counted
<1>6. \A e \in Counted(v) : /\ entries'[e].commission = entries[e].commission
                            /\ entries'[e].referralBonus = entries[e].referralBonus
  BY <1>5
<1>7. \A e \in DepositIds :
        deposit'[e].status = "SUCCESS" => deposit[e].status = "SUCCESS" \/ deposit'[e].user # v
  BY <1>2
<1> QED BY <1>4, <1>6, <1>7, ServedFrame

(* While no call starts, calls go on for the users they were for.             *)
LEMMA CallsFrame ==
  ASSUME ServedInv, Next,
         \A g \in Handlers : ipn'[g] # Idle => ipn[g] # Idle /\ ipn'[g].d = ipn[g].d
  PROVE  OneCallPerUser'
<1>0. TypeOK
  BY ServedTypes
<1>1. ASSUME NEW g \in Handlers, ipn'[g] # Idle
      PROVE  ipn[g] # Idle /\ UserOf(g)' = UserOf(g)
  <2>1. ipn[g] # Idle /\ ipn'[g].d = ipn[g].d
    BY <1>1
  <2>2. ipn[g].d \in DepositIds /\ deposit[ipn[g].d] # Absent
    BY <1>0, <2>1, WorksOnDeposit DEF TypeOK
  <2>3. deposit'[ipn[g].d].user = deposit[ipn[g].d].user
    BY <1>0, <2>2, DepositStays
  <2> QED BY <2>1, <2>3 DEF UserOf
<1>2. disturbed \subseteq disturbed'
  BY HistoryStays
<1> QED BY <1>1, <1>2 DEF ServedInv, OneCallPerUser

(* A step of the handler at work for u, after the deposit is credited.        *)
LEMMA OwnServed ==
  ASSUME ServedInv, Next, OneCallPerUser', NEW h \in Handlers, ipn[h] # Idle,
         NEW u \in Users \ disturbed', u = UserOf(h), UNCHANGED <<user, deposit>>,
         ipn'[h].d = ipn[h].d, ipn'[h].at \in Working,
         FromWebhook(u) /\ Referrer[u] # NoUser => Paying(u)' \/ Paid(u)',
         FromWebhook(u) /\ ipn'[h].at \in {"sum", "evaluated"} => ipn'[h].seen = user[u].level,
         FromWebhook(u) /\ ipn'[h].at = "evaluated" => ipn'[h].target = Target(u)
  PROVE  Served(u)'
<1>1. /\ Target(u)' = Target(u) /\ FromWebhook(u)' = FromWebhook(u)
  BY HistoryStays, CountedSame
<1>2. UserOf(h)' = u
  BY DEF UserOf
<1>3. ReferrerServed(u)'
  BY <1>1 DEF ReferrerServed
<1>4. Evaluating(u)'
  BY <1>2 DEF Evaluating
<1>5. LevelServed(u)'
  BY <1>4 DEF LevelServed
<1>6. EvaluationCurrent(u)'
  <2> SUFFICES ASSUME FromWebhook(u)', NEW g \in Handlers, UserOf(g)' = u
               PROVE  /\ ipn'[g].at \in {"sum", "evaluated"} => ipn'[g].seen = user'[u].level
                      /\ ipn'[g].at = "evaluated" => ipn'[g].target = Target(u)'
    BY DEF EvaluationCurrent
  <2>1. CASE ipn'[g] = Idle
    BY <2>1 DEF Idle
  <2>2. CASE ipn'[g] # Idle
    <3>1. ipn'[h] # Idle
      BY DEF Working, BeforeBonusRow, BeforeRow, Idle
    <3>2. g = h
      BY <1>2, <2>2, <3>1 DEF OneCallPerUser
    <3> QED BY <1>1, <3>2
  <2> QED BY <2>1, <2>2
<1> QED BY <1>3, <1>5, <1>6 DEF Served

(* The commit: the deposit is the user's first, or the referrer was paid for  *)
(* an earlier one.                                                            *)
LEMMA CommitServed ==
  ASSUME ServedInv, Next, OneCallPerUser', NEW h \in Handlers, NEW d, NEW u,
         d = ipn[h].d, u = UserOf(h), Committed(h, d, u), u \notin disturbed'
  PROVE  Served(u)'
<1>0. TypeOK /\ u \notin disturbed
  BY ServedTypes, HistoryStays
<1>1. /\ ipn[h].at = "credited" /\ ipn[h] # Idle /\ u \in Users /\ d \in DepositIds
      /\ deposit[d] # Absent /\ u = deposit[d].user
      /\ deposit'[d].status = "SUCCESS"
      /\ \A e \in DepositIds \ {d} : deposit'[e] = deposit[e] /\ entries'[e] = entries[e]
      /\ entries'[d].commission = entries[d].commission
      /\ entries'[d].referralBonus = entries[d].referralBonus
      /\ ipn'[h].at = "referral" /\ ipn'[h].d = d
  BY DEF Committed
<1>2. deposit'[d].user = u /\ UserOf(h)' = u
  BY <1>0, <1>1, DepositStays DEF UserOf
<1>3. d \in Counted(u)'
  BY <1>1, <1>2 DEF Counted
<1>4. \A e \in Counted(u)' : e = d \/ e \in Counted(u)
  BY <1>1 DEF Counted
<1>5. \A e \in Counted(u) : e \in Counted(u)' /\ deposit'[e].provider = deposit[e].provider
  BY <1>0, <1>1, CountedStay
<1>6. ReferrerServed(u)'
  <2> SUFFICES ASSUME FromWebhook(u)', Referrer[u] # NoUser PROVE Paying(u)' \/ Paid(u)'
    BY DEF ReferrerServed
  <2>1. CASE Counted(u) = {}
    <3>1. Counted(u)' = {d}
      BY <1>3, <1>4, <2>1
    <3>2. /\ ipn'[h].at \in BeforeBonusRow /\ UserOf(h)' = u
          /\ ipn'[h].at = "referral" => Counted(u)' = {ipn'[h].d}
      BY <1>1, <1>2, <3>1 DEF BeforeBonusRow, BeforeRow
    <3> QED BY <3>2 DEF Paying
  <2>2. CASE Counted(u) # {}
    <3>1. FromWebhook(u)
      BY <1>5, <2>2 DEF FromWebhook
    <3>2. ipn[h].at \notin BeforeBonusRow
      BY <1>1 DEF BeforeBonusRow, BeforeRow
    <3>3. Paid(u)
      BY <1>0, <1>1, <3>1, <3>2, PaidAlready
    <3>4. PICK e \in Counted(u) : entries[e].commission = 1 /\ entries[e].referralBonus = 1
      BY <3>3 DEF Paid
    <3>5. e \in DepositIds
      BY DEF Counted
    <3>6. e \in Counted(u)' /\ entries'[e].commission = 1 /\ entries'[e].referralBonus = 1
      BY <1>1, <1>5, <3>4, <3>5
    <3> QED BY <3>6 DEF Paid
  <2> QED BY <2>1, <2>2
<1>7. LevelServed(u)'
  <2>1. ipn'[h].at \in Working
    BY <1>1 DEF Working, BeforeBonusRow, BeforeRow
  <2> QED BY <1>2, <2>1 DEF LevelServed, Evaluating
<1>8. EvaluationCurrent(u)'
  <2> SUFFICES ASSUME NEW g \in Handlers, UserOf(g)' = u
               PROVE  ipn'[g].at \notin {"sum", "evaluated"}
    BY DEF EvaluationCurrent
  <2>1. CASE ipn'[g] = Idle
    BY <2>1 DEF Idle
  <2>2. CASE ipn'[g] # Idle
    <3>1. ipn'[h] # Idle
      BY <1>1 DEF Idle
    <3>2. g = h
      BY <1>2, <2>2, <3>1 DEF OneCallPerUser
    <3> QED BY <1>1, <3>2
  <2> QED BY <2>1, <2>2
<1> QED BY <1>1, <1>6, <1>7, <1>8 DEF Served

LEMMA ServedStep == ServedInv /\ [Next]_vars => ServedInv'
<1> SUFFICES ASSUME ServedInv, [Next]_vars PROVE ServedInv'
  OBVIOUS
<1>0. TypeOK /\ CommissionInv' /\ FlagInv' /\ disturbed \subseteq disturbed'
  <2>1. CommissionInv'
    BY CommissionStep DEF ServedInv
  <2>2. FlagInv'
    BY FlagStep DEF ServedInv
  <2> QED BY <2>1, <2>2, ServedTypes, HistoryStays
<1>1. CASE UNCHANGED vars
  <2>1. OneCallPerUser' /\ TwiceIsDisturbed'
    BY <1>1 DEF vars, ServedInv, OneCallPerUser, TwiceIsDisturbed, UserOf
  <2>2. ASSUME NEW v \in Users \ disturbed' PROVE Served(v)'
    <3>1. Served(v)
      BY <1>1 DEF vars, ServedInv
    <3>2. /\ Counted(v)' = Counted(v) /\ Target(v)' = Target(v)
          /\ \A h \in Handlers : UserOf(h)' = UserOf(h)
      BY <1>1 DEF vars, Target, CountedSum, Counted, UserOf
    <3>3. FromWebhook(v)' = FromWebhook(v) /\ Paid(v)' = Paid(v)
      BY <1>1, <3>2 DEF vars, FromWebhook, Paid
    <3>4. Paying(v)' = Paying(v) /\ Evaluating(v)' = Evaluating(v)
      BY <1>1, <3>2 DEF vars, Paying, Evaluating
    <3>5. EvaluationCurrent(v)'
      BY <1>1, <3>1, <3>2, <3>3 DEF vars, Served, EvaluationCurrent
    <3>6. ReferrerServed(v)'
      BY <3>1, <3>3, <3>4 DEF Served, ReferrerServed
    <3>7. LevelServed(v)'
      BY <1>1, <3>1, <3>2, <3>3, <3>4 DEF vars, Served, LevelServed
    <3> QED BY <3>5, <3>6, <3>7 DEF Served
  <2> QED BY <1>0, <2>1, <2>2 DEF ServedInv
<1> SUFFICES ASSUME Next PROVE OneCallPerUser' /\ \A v \in Users \ disturbed' : Served(v)'
  BY <1>0, <1>1, TwiceStep DEF ServedInv
(* One handler goes on, or ends before it is at work.                         *)
<1>2. ASSUME NEW h \in Handlers, ipn[h] # Idle, \A g \in Handlers \ {h} : ipn'[g] = ipn[g],
             ipn'[h] = Idle \/ ipn'[h].d = ipn[h].d
      PROVE  OneCallPerUser'
  BY <1>2, CallsFrame
<1>3. ASSUME NEW h \in Handlers, ipn[h] # Idle, \A g \in Handlers \ {h} : ipn'[g] = ipn[g],
             ipn[h].at \notin Working, ipn'[h].at \notin Working, UNCHANGED <<user, entries>>,
             \A e \in DepositIds : deposit'[e].status = "SUCCESS" => deposit[e].status = "SUCCESS"
      PROVE  \A v \in Users \ disturbed' : Served(v)'
  <2> TAKE v \in Users \ disturbed'
  <2>1. \A g \in Handlers : \/ ipn'[g] = ipn[g]
                            \/ ipn[g].at \notin Working /\ ipn'[g].at \notin Working
    BY <1>3
  <2> QED BY <1>3, <2>1, ServedFrame
(* No handler goes on.                                                        *)
<1>4. ASSUME UNCHANGED ipn PROVE OneCallPerUser'
  BY <1>4, CallsFrame
<1>5. ASSUME NEW d \in DepositIds, NEW u \in Users, NEW amount \in Amounts,
             InitDeposit(d, u, amount)
      PROVE  OneCallPerUser' /\ \A v \in Users \ disturbed' : Served(v)'
  <2>1. /\ UNCHANGED <<user, entries, ipn>> /\ deposit'[d].status # "SUCCESS"
        /\ \A e \in DepositIds \ {d} : deposit'[e] = deposit[e]
    BY <1>0, <1>5 DEF InitDeposit, TypeOK
  <2>2. ASSUME NEW v \in Users \ disturbed' PROVE Served(v)'
    BY <2>1, ServedFrame
  <2> QED BY <1>4, <2>1, <2>2
<1>6. ASSUME NEW d \in DepositIds, NEW u \in Users, NEW amount \in Amounts,
             AdminDeposit(d, u, amount)
      PROVE  OneCallPerUser' /\ \A v \in Users \ disturbed' : Served(v)'
  <2>1. /\ deposit[d] = Absent
        /\ deposit'[d].user = u /\ deposit'[d].status = "SUCCESS"
        /\ deposit'[d].provider = "admin-manual"
        /\ \A e \in DepositIds \ {d} : deposit'[e] = deposit[e] /\ entries'[e] = entries[e]
        /\ UNCHANGED <<user, ipn>>
    BY <1>0, <1>6, AdminDepositDoes
  <2>2. ASSUME NEW v \in Users \ disturbed', v # u PROVE Served(v)'
    <3>1. \A e \in Counted(v) : e # d /\ e \in DepositIds
      BY <2>1 DEF Counted, Absent
    <3>2. \A e \in DepositIds :
            deposit'[e].status = "SUCCESS" => deposit[e].status = "SUCCESS" \/ deposit'[e].user # v
      BY <2>1, <2>2
    <3> QED BY <2>1, <3>1, <3>2, ServedFrame
  <2>3. Served(u)'
    <3>1. d \in Counted(u)'
      BY <2>1 DEF Counted
    <3>2. "admin-manual" # NoProvider
      BY Zenon DEF NoProvider
    <3>3. ~FromWebhook(u)'
      BY <2>1, <3>1, <3>2 DEF FromWebhook
    <3> QED BY <3>3 DEF Served, ReferrerServed, LevelServed, EvaluationCurrent
  <2> QED BY <1>4, <2>1, <2>2, <2>3
<1>7. ASSUME NEW d \in DepositIds, NEW outcome \in {"SUCCESS", "FAILURE"},
             GatewayDecides(d, outcome)
      PROVE  OneCallPerUser' /\ \A v \in Users \ disturbed' : Served(v)'
  <2>1. UNCHANGED <<user, deposit, entries, ipn>>
    BY <1>7 DEF GatewayDecides
  <2>2. ASSUME NEW v \in Users \ disturbed' PROVE Served(v)'
    BY <2>1, ServedFrame
  <2> QED BY <1>4, <2>1, <2>2
<1>8. ASSUME NEW d \in DepositIds, LockEnds(d)
      PROVE  OneCallPerUser' /\ \A v \in Users \ disturbed' : Served(v)'
  <2>1. deposit[d] \in Deposit
    BY <1>0, <1>8 DEF LockEnds, TypeOK, Absent
  <2>2. /\ \A e \in DepositIds : deposit'[e].status = deposit[e].status
        /\ UNCHANGED <<user, entries, ipn>>
    BY <1>0, <1>8, <2>1 DEF LockEnds, TypeOK, Deposit
  <2>3. ASSUME NEW v \in Users \ disturbed' PROVE Served(v)'
    BY <2>2, ServedFrame
  <2> QED BY <1>4, <2>2, <2>3
<1>9. ASSUME NEW h \in Handlers, NEW d \in DepositIds,
             NEW outcome \in {"SUCCESS", "FAILURE"}, IpnRead(h, d, outcome)
      PROVE  OneCallPerUser' /\ \A v \in Users \ disturbed' : Served(v)'
  <2>1. /\ UNCHANGED <<user, deposit, entries>> /\ ipn[h] = Idle
        /\ disturbed' = disturbed \cup {u \in {deposit[d].user} : Busy(u)}
    BY <1>9 DEF IpnRead
  <2>2. /\ ipn'[h].at \in {"found", "failed"} /\ ipn'[h].d = d
        /\ \A g \in Handlers \ {h} : ipn'[g] = ipn[g]
    BY <1>0, <1>9 DEF IpnRead, TypeOK
  <2>3. OneCallPerUser'
    <3>1. deposit[d].user \in disturbed' \/ ~Busy(deposit[d].user)
      BY <2>1
    <3>2. UserOf(h)' = deposit[d].user /\ \A g \in Handlers \ {h} : UserOf(g)' = UserOf(g)
      BY <2>1, <2>2 DEF UserOf
    <3>3. ASSUME NEW g \in Handlers \ {h}, ipn'[g] # Idle, UserOf(g)' = UserOf(h)'
          PROVE  UserOf(h)' \in disturbed'
      BY <2>2, <3>1, <3>2, <3>3 DEF Busy
    <3> QED BY <1>0, <2>2, <3>2, <3>3 DEF ServedInv, OneCallPerUser
  <2>4. ASSUME NEW v \in Users \ disturbed' PROVE Served(v)'
    <3>1. ipn[h].at \notin Working /\ ipn'[h].at \notin Working
      BY <2>1, <2>2 DEF Idle, Working, BeforeBonusRow, BeforeRow
    <3>2. \A g \in Handlers : \/ ipn'[g] = ipn[g]
                              \/ ipn[g].at \notin Working /\ ipn'[g].at \notin Working
      BY <2>2, <3>1
    <3> QED BY <2>1, <3>2, ServedFrame
  <2> QED BY <2>3, <2>4
<1>10. ASSUME NEW h \in Handlers, IpnFail(h) \/ IpnUnfit(h)
       PROVE  OneCallPerUser' /\ \A v \in Users \ disturbed' : Served(v)'
  <2>1. /\ ipn[h].at \in {"failed", "credited"} /\ Done(h) /\ UNCHANGED <<user, entries>>
    BY <1>10 DEF IpnFail, IpnUnfit
  <2>2. ipn[h] # Idle /\ ipn'[h] = Idle /\ \A g \in Handlers \ {h} : ipn'[g] = ipn[g]
    BY <1>0, <2>1, HandlerEnds DEF Idle
  <2>3. ipn[h].d \in DepositIds /\ deposit[ipn[h].d] \in Deposit
    BY <1>0, <2>2, WorksOnDeposit
  <2>4. \A e \in DepositIds : deposit'[e].status = "SUCCESS" => deposit[e].status = "SUCCESS"
    <3>1. CASE IpnFail(h)
      BY <1>0, <2>3, <3>1 DEF IpnFail, TypeOK, Deposit
    <3>2. CASE IpnUnfit(h)
      BY <3>2 DEF IpnUnfit
    <3> QED BY <1>10, <3>1, <3>2
  <2>5. ipn[h].at \notin Working /\ ipn'[h].at \notin Working
    BY <2>1, <2>2 DEF Idle, Working, BeforeBonusRow, BeforeRow
  <2> QED BY <1>2, <1>3, <2>1, <2>2, <2>4, <2>5
<1>11. ASSUME NEW h \in Handlers, IpnCredit(h)
       PROVE  OneCallPerUser' /\ \A v \in Users \ disturbed' : Served(v)'
  <2>1. /\ ipn[h].at = "found" /\ ipn'[h].at = "credited" /\ ipn[h] # Idle
        /\ ipn'[h].d = ipn[h].d /\ \A g \in Handlers \ {h} : ipn'[g] = ipn[g]
    BY <1>0, <1>11, EvaluationDoes
  <2>2. UNCHANGED <<user, deposit, entries>>
    BY <1>11 DEF IpnCredit
  <2>3. ipn[h].at \notin Working /\ ipn'[h].at \notin Working
    BY <2>1 DEF Working, BeforeBonusRow, BeforeRow
  <2> QED BY <1>2, <1>3, <2>1, <2>2, <2>3

<1>12. ASSUME NEW h \in Handlers, IpnCommit(h)
       PROVE  OneCallPerUser' /\ \A v \in Users \ disturbed' : Served(v)'
  <2>0. PICK d, u : d = ipn[h].d /\ u = UserOf(h)
    OBVIOUS
  <2>1. Committed(h, d, u)
    BY <1>0, <1>12, <2>0, CommitDoes
  <2>2. /\ ipn[h] # Idle /\ \A g \in Handlers \ {h} : ipn'[g] = ipn[g]
        /\ ipn'[h].d = d
        /\ \A e \in DepositIds \ {d} : deposit'[e] = deposit[e] /\ entries'[e] = entries[e]
        /\ \A v \in Users \ {u} : user'[v] = user[v]
    BY <2>1 DEF Committed
  <2>3. OneCallPerUser'
    BY <1>2, <2>0, <2>2
  <2>4. u \notin disturbed' => Served(u)'
    BY <2>0, <2>1, <2>3, CommitServed
  <2>5. ASSUME NEW v \in Users \ disturbed', v # u PROVE Served(v)'
    BY <2>0, <2>2, <2>5, OthersServed
  <2> QED BY <2>3, <2>4, <2>5
(* The steps after the commit: the deposits stay as they are.                 *)
<1>13. ASSUME NEW h \in Handlers, ipn[h] # Idle, NEW d, d = ipn[h].d, NEW u, u = UserOf(h),
              \A g \in Handlers \ {h} : ipn'[g] = ipn[g], ipn'[h].d = d,
              UNCHANGED <<user, deposit>>,
              \A e \in DepositIds \ {d} : entries'[e] = entries[e],
              ipn'[h].at \in Working,
             u \notin disturbed /\ FromWebhook(u) =>
                /\ Referrer[u] # NoUser => Paying(u)' \/ Paid(u)'
                /\ ipn'[h].at \in {"sum", "evaluated"} => ipn'[h].seen = user[u].level
                /\ ipn'[h].at = "evaluated" => ipn'[h].target = Target(u)
       PROVE  OneCallPerUser' /\ \A v \in Users \ disturbed' : Served(v)'
  <2>1. OneCallPerUser'
    BY <1>2, <1>13
  <2>2. u \in Users
    BY <1>0, <1>13, WorksOnDeposit
  <2>3. u \notin disturbed' => Served(u)'
    BY <1>0, <1>13, <2>1, <2>2, OwnServed
  <2>4. ASSUME NEW v \in Users \ disturbed', v # u PROVE Served(v)'
    BY <1>13, <2>4, OthersServed
  <2> QED BY <2>1, <2>3, <2>4
<1>14. ASSUME NEW u \in Users, Paid(u), UNCHANGED <<deposit, entries>>
       PROVE  Paid(u)'
  BY <1>14 DEF Paid, Counted
<1>15. ASSUME NEW h \in Handlers, IpnReferral(h)
       PROVE  OneCallPerUser' /\ \A v \in Users \ disturbed' : Served(v)'
  <2>0. PICK d, u : d = ipn[h].d /\ u = UserOf(h)
    OBVIOUS
  <2>1. /\ ipn[h].at = "referral" /\ ipn[h] # Idle /\ UNCHANGED <<user, deposit, entries>>
        /\ Goto(h, IF Referrer[u] # NoUser /\ PreviousDeposits(d) = {}
                   THEN "commission" ELSE "level")
    BY <1>15, <2>0 DEF IpnReferral, Idle
  <2>2. /\ ipn'[h].at = (IF Referrer[u] # NoUser /\ PreviousDeposits(d) = {}
                         THEN "commission" ELSE "level")
        /\ ipn'[h].d = d /\ \A g \in Handlers \ {h} : ipn'[g] = ipn[g]
    BY <1>0, <2>0, <2>1, HandlerMoves
  <2>3. u \in Users /\ UserOf(h)' = u /\ u = deposit[d].user
    BY <1>0, <2>0, <2>1, <2>2, WorksOnDeposit DEF UserOf
  <2>4. u \notin disturbed /\ FromWebhook(u) /\ Referrer[u] # NoUser => Paying(u)' \/ Paid(u)'
    <3> SUFFICES ASSUME u \notin disturbed, FromWebhook(u), Referrer[u] # NoUser
                 PROVE  Paying(u)' \/ Paid(u)'
      OBVIOUS
    <3>1. Paying(u) \/ Paid(u)
      BY <2>3 DEF ServedInv, Served, ReferrerServed
    <3>2. CASE Paying(u)
      <4>1. PICK g \in Handlers : /\ ipn[g].at \in BeforeBonusRow /\ UserOf(g) = u
                                  /\ ipn[g].at = "referral" => Counted(u) = {ipn[g].d}
        BY <3>2 DEF Paying
      <4>2. g = h
        BY <2>0, <2>1, <4>1, WorkingIsNotIdle DEF Working, ServedInv, OneCallPerUser
      <4>3. PreviousDeposits(d) = {}
        BY <2>0, <2>1, <2>3, <4>1, <4>2 DEF PreviousDeposits
      <4>4. ipn'[h].at = "commission"
        BY <2>2, <4>3
      <4> QED BY <2>3, <4>4 DEF Paying, BeforeBonusRow, BeforeRow
    <3> QED BY <1>14, <2>1, <2>3, <3>1, <3>2
  <2>5. ipn'[h].at \in Working /\ ipn'[h].at \notin {"sum", "evaluated"}
    BY <2>2 DEF Working, BeforeBonusRow, BeforeRow
  <2> QED BY <1>13, <2>0, <2>1, <2>2, <2>4, <2>5
<1>16. ASSUME NEW h \in Handlers, IpnCommission(h) \/ IpnPayReferrer(h)
       PROVE  OneCallPerUser' /\ \A v \in Users \ disturbed' : Served(v)'
  <2>0. PICK d, u : d = ipn[h].d /\ u = UserOf(h)
    OBVIOUS
  <2>1. /\ ipn[h] # Idle /\ ipn'[h].at \in {"pay", "bonus"} /\ ipn'[h].d = d
        /\ \A g \in Handlers \ {h} : ipn'[g] = ipn[g] /\ UNCHANGED <<user, deposit>>
        /\ \A e \in DepositIds \ {d} : entries'[e] = entries[e]
    <3>1. CASE IpnCommission(h)
      BY <1>0, <2>0, <3>1, RowDoes
    <3>2. CASE IpnPayReferrer(h)
      BY <1>0, <2>0, <3>2, PayDoes
    <3> QED BY <1>16, <3>1, <3>2
  <2>2. UNCHANGED <<user, deposit>>
    BY <1>16 DEF IpnCommission, IpnPayReferrer
  <2>3. UserOf(h)' = u
    BY <2>0, <2>1, <2>2 DEF UserOf
  <2>4. Paying(u)'
    BY <2>1, <2>3 DEF Paying, BeforeBonusRow
  <2>5. ipn'[h].at \in Working /\ ipn'[h].at \notin {"sum", "evaluated"}
    BY <2>1 DEF Working, BeforeBonusRow
  <2> QED BY <1>13, <2>0, <2>1, <2>2, <2>4, <2>5
<1>17. ASSUME NEW h \in Handlers, IpnReferralBonus(h)
       PROVE  OneCallPerUser' /\ \A v \in Users \ disturbed' : Served(v)'
  <2>0. PICK d, u : d = ipn[h].d /\ u = UserOf(h)
    OBVIOUS
  <2>1. /\ ipn[h] # Idle /\ ipn[h].at = "bonus" /\ ipn'[h].at = "level" /\ ipn'[h].d = d
        /\ d \in DepositIds
        /\ \A e \in DepositIds \ {d} : entries'[e] = entries[e]
        /\ entries'[d].commission = entries[d].commission
        /\ entries'[d].referralBonus = entries[d].referralBonus + 1
    BY <1>0, <1>17, <2>0, RowDoes
  <2>2. UNCHANGED <<user, deposit>> /\ \A g \in Handlers \ {h} : ipn'[g] = ipn[g]
    BY <1>0, <1>17, <2>0, RowDoes
  <2>3. ASSUME u \notin disturbed PROVE Paid(u)'
    <3>1. d \notin twice
      BY <2>0, <2>3 DEF ServedInv, TwiceIsDisturbed, UserOf
    <3>2. /\ deposit[d].status = "SUCCESS" /\ entries[d].referralBonus = 0
          /\ entries[d].commission = 1
      BY <2>0, <2>1, <3>1 DEF ServedInv, CommissionInv, RowsFollowHandlers, BeforeBonusRow
    <3>3. d \in Counted(u)'
      BY <2>0, <2>1, <2>2, <3>2 DEF Counted, UserOf
    <3> QED BY <2>1, <3>2, <3>3 DEF Paid
  <2>6. ipn'[h].at \in Working /\ ipn'[h].at \notin {"sum", "evaluated"}
    BY <2>1 DEF Working
  <2> QED BY <1>13, <2>0, <2>1, <2>2, <2>3, <2>6
<1>18. ASSUME NEW h \in Handlers, EvalReadUser(h) \/ EvalReadSum(h)
       PROVE  OneCallPerUser' /\ \A v \in Users \ disturbed' : Served(v)'
  <2>0. PICK d, u : d = ipn[h].d /\ u = UserOf(h)
    OBVIOUS
  <2>1. UNCHANGED <<user, deposit, entries>>
    BY <1>18 DEF EvalReadUser, EvalReadSum
  <2>2. /\ ipn[h] # Idle /\ ipn[h].at \in {"level", "sum"} /\ ipn'[h].at \in {"sum", "evaluated"}
        /\ ipn'[h].d = d /\ \A g \in Handlers \ {h} : ipn'[g] = ipn[g]
    BY <1>0, <1>18, <2>0, EvaluationDoes
  <2>3. u \in Users
    BY <1>0, <2>0, <2>2, WorksOnDeposit
  <2>4. u \notin disturbed /\ FromWebhook(u) /\ Referrer[u] # NoUser => Paid(u)
    BY <2>0, <2>2, <2>3, PaidAlready DEF BeforeBonusRow, BeforeRow
  <2>5. Target(UserOf(h)) = Target(u) /\ user[UserOf(h)].level = user[u].level
    BY <2>0
  <2>6. u \notin disturbed /\ FromWebhook(u) =>
           /\ ipn'[h].seen = user[u].level
           /\ ipn'[h].at = "evaluated" => ipn'[h].target = Target(u)
    <3>1. CASE EvalReadUser(h)
      BY <1>0, <2>5, <3>1, EvaluationDoes
    <3>2. CASE EvalReadSum(h)
      <4>1. ipn[h].at = "sum" /\ ipn'[h].seen = ipn[h].seen /\ ipn'[h].target = Target(u)
        BY <1>0, <2>5, <3>2, EvaluationDoes
      <4>2. u \notin disturbed /\ FromWebhook(u) => ipn[h].seen = user[u].level
        BY <2>0, <2>3, <4>1 DEF ServedInv, Served, EvaluationCurrent
      <4> QED BY <4>1, <4>2
    <3> QED BY <1>18, <3>1, <3>2
  <2>7. ipn'[h].at \in Working
    BY <2>2 DEF Working
  <2>8. u \notin disturbed /\ FromWebhook(u) /\ Referrer[u] # NoUser => Paid(u)'
    BY <1>14, <2>1, <2>3, <2>4
  <2> QED BY <1>13, <2>0, <2>1, <2>2, <2>6, <2>7, <2>8
<1>19. ASSUME NEW h \in Handlers, EvalWrite(h)
       PROVE  OneCallPerUser' /\ \A v \in Users \ disturbed' : Served(v)'
  <2>0. PICK d, u : d = ipn[h].d /\ u = UserOf(h)
    OBVIOUS
  <2>1. /\ ipn[h].at = "evaluated" /\ ipn[h] # Idle /\ Done(h)
        /\ UNCHANGED <<deposit, entries>>
    BY <1>19 DEF EvalWrite, Idle
  <2>2. ipn'[h] = Idle /\ \A g \in Handlers \ {h} : ipn'[g] = ipn[g]
    BY <1>0, <2>1, HandlerEnds
  <2>3. OneCallPerUser'
    BY <1>2, <2>1, <2>2
  <2>4. u \in Users
    BY <1>0, <2>0, <2>1, WorksOnDeposit
  <2>5. \A v \in Users \ {u} : user'[v].level = user[v].level
    BY <1>0, <1>19, <2>0, <2>4 DEF EvalWrite, TypeOK
  <2>6. ASSUME NEW v \in Users \ disturbed', v # u PROVE Served(v)'
    BY <2>0, <2>1, <2>2, <2>5, <2>6, OthersServed
  <2>7. ASSUME u \notin disturbed' PROVE Served(u)'
    <3>0. u \in Users \ disturbed
      BY <1>0, <2>4, <2>7
    <3>1. /\ Target(u)' = Target(u) /\ FromWebhook(u)' = FromWebhook(u)
      BY <2>1, <3>0, CountedSame
    <3>2. LevelServed(u)'
      <4> SUFFICES ASSUME FromWebhook(u) PROVE user'[u].level = Target(u)'
        BY <3>1 DEF LevelServed
      <4>1. ipn[h].seen = user[u].level /\ ipn[h].target = Target(u)
        BY <2>0, <2>1, <3>0 DEF ServedInv, Served, EvaluationCurrent
      <4>2. user'[u].level = ipn[h].target
        BY <1>0, <1>19, <2>0, <2>4, <4>1 DEF EvalWrite, TypeOK
      <4> QED BY <3>1, <4>1, <4>2
    <3>3. ReferrerServed(u)'
      <4> SUFFICES ASSUME FromWebhook(u), Referrer[u] # NoUser PROVE Paid(u)'
        BY <3>1 DEF ReferrerServed
      <4>1. ipn[h].at \notin BeforeBonusRow
        BY <2>1 DEF BeforeBonusRow, BeforeRow
      <4>2. Paid(u)
        BY <2>0, <2>1, <3>0, <4>1, PaidAlready
      <4> QED BY <1>14, <2>1, <2>4, <4>2
    <3>4. EvaluationCurrent(u)'
      <4> SUFFICES ASSUME NEW g \in Handlers, UserOf(g)' = u, ipn'[g].at \in {"sum", "evaluated"}
                   PROVE  FALSE
        BY DEF EvaluationCurrent
      <4>1. g # h
        BY <2>2 DEF Idle
      <4>2. ipn'[g] = ipn[g] /\ ipn[g] # Idle /\ UserOf(g) = u
        BY <2>1, <2>2, <4>1 DEF UserOf, Idle
      <4> QED BY <2>0, <2>1, <3>0, <4>1, <4>2 DEF ServedInv, OneCallPerUser
    <3> QED BY <3>2, <3>3, <3>4 DEF Served
  <2> QED BY <2>3, <2>6, <2>7
(* A handler that is at work leaves its user disturbed when it fails.         *)
<1>20. ASSUME NEW failing \in SUBSET Handlers, UNCHANGED <<user, deposit, entries>>,
              disturbed' = disturbed \cup {UserOf(g) : g \in {g \in failing : Credited(g)}},
              \A g \in failing : ipn'[g] = Idle,
              \A g \in Handlers \ failing : ipn'[g] = ipn[g]
       PROVE  OneCallPerUser' /\ \A v \in Users \ disturbed' : Served(v)'
  <2>1. OneCallPerUser'
    BY <1>20, CallsFrame
  <2>2. ASSUME NEW v \in Users \ disturbed' PROVE Served(v)'
    <3>1. Idle.at \notin Working
      BY DEF Idle, Working, BeforeBonusRow, BeforeRow
    <3>2. \A g \in Handlers : Credited(g) <=> ipn[g].at \in Working
      BY DEF Credited, Working, BeforeBonusRow, BeforeRow
    <3>3. \A g \in Handlers : \/ ipn'[g] = ipn[g]
                              \/ ipn[g].at \notin Working /\ ipn'[g].at \notin Working
                              \/ UserOf(g) # v /\ (ipn'[g].at \in Working => UserOf(g)' # v)
      BY <1>20, <3>1, <3>2
    <3> QED BY <1>20, <3>3, ServedFrame
  <2> QED BY <2>1, <2>2
<1>21. ASSUME NEW h \in Handlers, IpnFailure(h)
       PROVE  OneCallPerUser' /\ \A v \in Users \ disturbed' : Served(v)'
  <2>1. /\ UNCHANGED <<user, deposit, entries>> /\ Done(h)
        /\ disturbed' = disturbed \cup {UserOf(g) : g \in {g \in {h} : Credited(g)}}
    BY <1>21 DEF IpnFailure
  <2>2. ipn'[h] = Idle /\ \A g \in Handlers \ {h} : ipn'[g] = ipn[g]
    BY <1>0, <2>1, HandlerEnds
  <2>3. PICK failing : failing = {h}
    OBVIOUS
  <2>4. /\ failing \in SUBSET Handlers
        /\ disturbed' = disturbed \cup {UserOf(g) : g \in {g \in failing : Credited(g)}}
        /\ \A g \in failing : ipn'[g] = Idle
        /\ \A g \in Handlers \ failing : ipn'[g] = ipn[g]
    BY <2>1, <2>2, <2>3
  <2> QED BY <1>20, <2>1, <2>4
<1>22. CASE Crash
  <2>1. /\ UNCHANGED <<user, deposit, entries>>
        /\ disturbed' = disturbed \cup {UserOf(g) : g \in {g \in Handlers : Credited(g)}}
        /\ \A g \in Handlers : ipn'[g] = Idle
    BY <1>22 DEF Crash
  <2> QED BY <1>20, <2>1
<1>23. ASSUME NEW h \in Handlers, Ipn(h)
       PROVE  OneCallPerUser' /\ \A v \in Users \ disturbed' : Served(v)'
  BY <1>9, <1>10, <1>11, <1>12, <1>15, <1>16, <1>17, <1>18, <1>19, <1>23 DEF Ipn
<1> QED BY <1>5, <1>6, <1>7, <1>8, <1>21, <1>22, <1>23 DEF Next

LEMMA ServedStart == Init => ServedInv
<1> SUFFICES ASSUME Init PROVE ServedInv
  OBVIOUS
<1>1. CommissionInv /\ FlagInv
  BY CommissionStart, FlagStart
<1>2. /\ \A h \in Handlers : ipn[h] = Idle /\ ipn[h].at \notin {"sum", "evaluated"}
      /\ \A u \in Users : Counted(u) = {}
  BY DEF Init, Idle, Counted, Absent
<1> QED BY <1>1, <1>2
        DEF Init, ServedInv, OneCallPerUser, TwiceIsDisturbed, Served, ReferrerServed,
            LevelServed, FromWebhook, EvaluationCurrent

(* Whoever is at rest and was credited by the webhook only has had one        *)
(* first-deposit bonus, whatever calls overlapped and failed; and the referrer *)
(* one commission with its bonus row, unless a call of the user met another   *)
(* one or failed on its way (handleIPN, deposit.service.ts:95-249).           *)
THEOREM RewardsAreComplete == Spec => []RewardsComplete
<1>1. ServedInv => RewardsComplete
  <2> SUFFICES ASSUME ServedInv, NEW u \in Users, ~Busy(u), FromWebhook(u)
               PROVE  /\ \E d \in DepositsOf(u) : entries[d].firstBonus = 1
                      /\ Referrer[u] # NoUser /\ u \notin disturbed => Paid(u)
    BY DEF RewardsComplete, ThroughWebhook, FromWebhook, Paid
  <2>1. PICK d \in DepositsOf(u) : entries[d].firstBonus > 0
    <3>1. PICK d \in Counted(u) : deposit[d].provider = NoProvider
      BY DEF FromWebhook
    <3>2. user[u].firstDepositBonus
      BY <3>1 DEF ServedInv, FlagInv, FlagMeansBonus, Counted
    <3> QED BY <3>2 DEF ServedInv, FlagInv, FlagMeansBonus
  <2>2. entries[d].firstBonus = 1
    BY <2>1 DEF ServedInv, FlagInv, BonusInv, UniqueBonus, DepositsOf
  <2>3. ~Paying(u)
    <3> SUFFICES ASSUME NEW h \in Handlers, ipn[h].at \in BeforeBonusRow, UserOf(h) = u
                 PROVE  FALSE
      BY DEF Paying
    <3>1. ipn[h] # Idle
      BY WorkingIsNotIdle DEF Working
    <3> QED BY <3>1 DEF Busy
  <2>4. Referrer[u] # NoUser /\ u \notin disturbed => Paid(u)
    BY <2>3 DEF ServedInv, Served, ReferrerServed
  <2> QED BY <2>2, <2>4
<1> QED BY <1>1, ServedStart, ServedStep, PTL DEF Spec

(* ... and the level that the deposits credited to the user and the team are  *)
(* worth, under the same condition (evaluateUserLevel, level.service.ts).     *)
THEOREM LevelsAreGranted == Spec => []LevelIsGranted
<1>1. ServedInv => LevelIsGranted
  <2> SUFFICES ASSUME ServedInv, NEW u \in Users \ disturbed, ~Busy(u), FromWebhook(u)
               PROVE  user[u].level = Earned(u)
    BY DEF LevelIsGranted, ThroughWebhook, FromWebhook
  <2>1. ~Evaluating(u)
    <3> SUFFICES ASSUME NEW h \in Handlers, ipn[h].at \in Working, UserOf(h) = u
                 PROVE  FALSE
      BY DEF Evaluating
    <3> QED BY WorkingIsNotIdle DEF Busy
  <2>2. user[u].level = Target(u)
    BY <2>1 DEF ServedInv, Served, LevelServed
  <2>3. CreditedTo(u) = Counted(u)
    <3>1. ASSUME NEW d \in DepositIds, deposit[d] # Absent, deposit[d].user = u
          PROVE  entries[d].transactions > 0 <=> deposit[d].status = "SUCCESS"
      <4>1. d \notin twice
        BY <3>1 DEF ServedInv, TwiceIsDisturbed
      <4>2. entries[d].transactions = IF deposit[d].status = "SUCCESS" THEN 1 ELSE 0
        BY <4>1, ServedTypes DEF CreditInv, CreditedOnce
      <4> QED BY <4>2
    <3>2. \A d \in DepositIds : deposit[d].status = "SUCCESS" => deposit[d] # Absent
      BY DEF Absent
    <3> QED BY <3>1, <3>2 DEF CreditedTo, DepositsOf, Counted
  <2>4. Earned(u) = Target(u)
    BY <2>3, EarnedIs DEF Target, CountedSum, CreditedSum
  <2> QED BY <2>2, <2>4
<1> QED BY <1>1, ServedStart, ServedStep, PTL DEF Spec
==============================================================================
