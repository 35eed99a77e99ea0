------------------------- MODULE Withdrawals_proofs -------------------------
(***************************************************************************)
(* Theorems about Withdrawals, for any users, rows, amounts, number of     *)
(* overlapping handlers and opening balances.                              *)
(***************************************************************************)
EXTENDS Withdrawals, Sums_proofs, TLAPS

(* The sums computed from an amount are whole cents.                        *)
LEMMA FeeIsNat == \A a \in Nat : /\ Fee(a) \in Nat
                                 /\ Total(a) \in Nat
                                 /\ Net(a) \in Int
BY DEF Fee, FEE_RATE, Percent, Total, Net

(* What Move does to a wallet table, field by field.                        *)
LEMMA MoveType ==
  ASSUME NEW wal \in [Users -> Wallet], NEW u \in Users, NEW b \in Int, NEW r \in Int
  PROVE  /\ Move(wal, u, b, r) \in [Users -> Wallet]
         /\ Move(wal, u, b, r)[u].balance = wal[u].balance + b
         /\ Move(wal, u, b, r)[u].reserved = wal[u].reserved + r
         /\ \A v \in Users \ {u} : Move(wal, u, b, r)[v] = wal[v]
BY DEF Move, Wallet

-----------------------------------------------------------------------------
LEMMA TypeStep == TypeOK /\ [Next]_vars => TypeOK'
<1> SUFFICES ASSUME TypeOK, [Next]_vars PROVE TypeOK'
  OBVIOUS
<1> USE DEF TypeOK
<1>0. raced' \subseteq Withdraws /\ rushed' \subseteq Users
  <2>1. UNCHANGED <<raced, rushed>> \/ Meet
    BY DEF Next, vars, Request, Approve, Reject, RequestRead, ApproveRead, RejectRead, Begin,
           RequestCommit, ApproveCommit, RejectCommit, Rollback, FlagRead, FlagCommit, Crash, Age
  <2> QED BY <2>1 DEF Meet
<1>1. ASSUME NEW p \in Procs, NEW u \in Users, NEW amount \in Amounts,
             RequestRead(p, u, amount)
      PROVE  TypeOK'
  BY <1>0, <1>1 DEF RequestRead, Begin, Call
<1>2. ASSUME NEW p \in Procs, NEW w \in Withdraws, NEW payee \in BOOLEAN,
             RequestCommit(p, w, payee)
      PROVE  TypeOK'
  <2> DEFINE u == call[p].user
             amount == call[p].amount
  <2>1. u \in Users /\ amount \in Amounts /\ amount \in Nat
    <3>1. call[p] \in [op : {"request"}, user : Users, amount : Amounts]
      BY <1>2 DEF RequestCommit, Call, Idle
    <3> QED BY <3>1, WithdrawalsAssumption
  <2>2. Fee(amount) \in Int /\ Total(amount) \in Int /\ -Total(amount) \in Int
    BY <2>1, FeeIsNat
  <2>3. wallet' \in [Users -> Wallet]
    BY <1>2, <2>1, <2>2, MoveType DEF RequestCommit
  <2>4. row' \in [Withdraws -> Withdraw \cup {Absent}]
    BY <1>2, <2>1, <2>2 DEF RequestCommit, Withdraw
  <2>5. \A v \in Withdraws : row[v] # Absent => row'[v] # Absent
    BY <1>2 DEF RequestCommit
  <2>6. call' \in [Procs -> Call] /\ \A q \in Procs : call'[q] # Idle => call'[q] = call[q]
    BY <1>2 DEF RequestCommit, End, Call
  <2>7. \A q \in Procs : call'[q].op \in {"approve", "reject"} => row'[call'[q].id] # Absent
    BY <2>5, <2>6 DEF Idle, Call
  <2> QED BY <1>0, <1>2, <2>3, <2>4, <2>5, <2>6, <2>7 DEF RequestCommit
<1>3. ASSUME NEW p \in Procs, NEW w \in Withdraws, ApproveRead(p, w)
      PROVE  TypeOK'
  BY <1>0, <1>3 DEF ApproveRead, Begin, Call, Pending, Absent
<1>4. ASSUME NEW p \in Procs, ApproveCommit(p)
      PROVE  TypeOK'
  <2> DEFINE w == call[p].id
             wd == call[p].wd
  <2>1. w \in Withdraws /\ row[w] # Absent /\ wd \in Withdraw
    BY <1>4 DEF ApproveCommit, Call, Idle
  <2>2. row[w] \in Withdraw /\ wd.amount \in Nat /\ wd.user \in Users
    BY <2>1, WithdrawalsAssumption DEF Withdraw
  <2>3. Fee(wd.amount) \in Int /\ Net(wd.amount) \in Int /\ -wd.amount \in Int
    BY <2>2, FeeIsNat
  <2>4. wallet' \in [Users -> Wallet]
    <3>1. wallet' = Move(wallet, wd.user, 0, -wd.amount)
      BY <1>4 DEF ApproveCommit
    <3> HIDE DEF wd
    <3> QED BY <2>2, <2>3, <3>1, MoveType
  <2>5. row'[w] \in Withdraw /\ row' \in [Withdraws -> Withdraw \cup {Absent}]
    BY <1>4, <2>1, <2>2, <2>3 DEF ApproveCommit, Withdraw
  <2>6. \A v \in Withdraws : row[v] # Absent => row'[v] # Absent
    <3>1. \A v \in Withdraws : v # w => row'[v] = row[v]
      BY <1>4 DEF ApproveCommit
    <3>2. row'[w] # Absent
      BY <2>5 DEF Withdraw, Absent
    <3> QED BY <3>1, <3>2
  <2>7. call' \in [Procs -> Call] /\ \A q \in Procs : call'[q] # Idle => call'[q] = call[q]
    BY <1>4 DEF ApproveCommit, End, Call
  <2>8. payouts' \in [Withdraws -> Nat] /\ disbursed' \in [Users -> Nat]
    BY <1>4, <2>1, <2>2 DEF ApproveCommit
  <2>9. \A q \in Procs : call'[q].op \in {"approve", "reject"} => row'[call'[q].id] # Absent
    BY <2>6, <2>7 DEF Idle, Call
  <2> QED BY <1>0, <1>4, <2>4, <2>5, <2>6, <2>7, <2>8, <2>9 DEF ApproveCommit
<1>5. ASSUME NEW p \in Procs, NEW w \in Withdraws, RejectRead(p, w)
      PROVE  TypeOK'
  BY <1>0, <1>5 DEF RejectRead, Begin, Call, Pending, Absent
<1>6. ASSUME NEW p \in Procs, RejectCommit(p)
      PROVE  TypeOK'
  <2> DEFINE w == call[p].id
             wd == call[p].wd
  <2>1. w \in Withdraws /\ row[w] # Absent /\ wd \in Withdraw
    BY <1>6 DEF RejectCommit, Call, Idle
  <2>2. row[w] \in Withdraw /\ wd.user \in Users /\ Refund(wd) \in Int /\ -Refund(wd) \in Int
    BY <2>1 DEF Withdraw, Refund
  <2>3. wallet' \in [Users -> Wallet]
    BY <1>6, <2>2, MoveType DEF RejectCommit
  <2>4. row'[w] \in Withdraw /\ row' \in [Withdraws -> Withdraw \cup {Absent}]
    BY <1>6, <2>1, <2>2 DEF RejectCommit, Withdraw
  <2>5. \A v \in Withdraws : row[v] # Absent => row'[v] # Absent
    BY <1>6, <2>4 DEF RejectCommit, Withdraw, Absent
  <2>6. call' \in [Procs -> Call] /\ \A q \in Procs : call'[q] # Idle => call'[q] = call[q]
    BY <1>6 DEF RejectCommit, End, Call
  <2>7. returns' \in [Withdraws -> Nat]
    BY <1>6, <2>1 DEF RejectCommit
  <2>8. \A q \in Procs : call'[q].op \in {"approve", "reject"} => row'[call'[q].id] # Absent
    BY <2>5, <2>6 DEF Idle, Call
  <2> QED BY <1>0, <1>6, <2>3, <2>4, <2>5, <2>6, <2>7, <2>8 DEF RejectCommit
<1>7. ASSUME NEW p \in Procs, Rollback(p)
      PROVE  TypeOK'
  BY <1>0, <1>7 DEF Rollback, End, Call, Idle
<1>8. CASE FlagRead
  BY <1>0, <1>8 DEF FlagRead, Overdue, Absent
<1>9. CASE FlagCommit
  <2>1. ASSUME NEW w \in Withdraws, row[w] # Absent
        PROVE  row'[w] \in Withdraw
    BY <1>9, <2>1 DEF FlagCommit, FlaggedStatus, Withdraw
  <2>2. ASSUME NEW w \in Withdraws, row[w] = Absent
        PROVE  row'[w] = Absent
    <3>1. w \notin job
      BY <2>2
    <3> QED BY <1>9, <2>2, <3>1 DEF FlagCommit, FlaggedStatus
  <2>3. \A w \in Withdraws : row[w] # Absent => row'[w] # Absent
    BY <2>1 DEF Withdraw, Absent
  <2>4. row' \in [Withdraws -> Withdraw \cup {Absent}]
    BY <1>9, <2>1, <2>2 DEF FlagCommit, FlaggedStatus
  <2>5. \A p \in Procs : call[p].op \in {"approve", "reject"} => row'[call[p].id] # Absent
    BY <2>3 DEF Call, Idle
  <2>6. UNCHANGED <<wallet, aged, call, payouts, returns, disbursed>> /\ job' = {}
    BY <1>9 DEF FlagCommit, FlaggedStatus
  <2> QED BY <1>0, <2>3, <2>4, <2>5, <2>6
<1>10. CASE Crash
  BY <1>0, <1>10 DEF Crash, Call, Idle
<1>11. ASSUME NEW w \in Withdraws, Age(w)
       PROVE  TypeOK'
  BY <1>0, <1>11 DEF Age, Pending, Absent
<1>12. CASE UNCHANGED vars
  BY <1>0, <1>12 DEF vars
<1> QED BY <1>1, <1>2, <1>3, <1>4, <1>5, <1>6, <1>7, <1>8, <1>9, <1>10, <1>11, <1>12
        DEF Next, Request, Approve, Reject

(* Every reachable state has the declared shape; in particular no handler   *)
(* and no batch of the job refers to a row that does not exist.             *)
THEOREM TypeCorrect == Spec => []TypeOK
<1>1. Init => TypeOK
  BY WithdrawalsAssumption DEF Init, TypeOK, Wallet, Call, Idle
<1>2. TypeOK /\ [Next]_vars => TypeOK'
  BY TypeStep
<1> QED BY <1>1, <1>2, PTL DEF Spec

-----------------------------------------------------------------------------
(* A move changes what a user has in balance and reserved together by the    *)
(* sum of its two parts, and nobody else's.                                  *)
LEMMA MoveSum ==
  ASSUME NEW wal \in [Users -> Wallet], NEW u \in Users, NEW b \in Int, NEW r \in Int,
         NEW v \in Users
  PROVE  /\ Move(wal, u, b, r)[v].balance + Move(wal, u, b, r)[v].reserved
            = wal[v].balance + wal[v].reserved + (IF v = u THEN b + r ELSE 0)
         /\ wal[v].balance + wal[v].reserved \in Int
<1>1. wal[v].balance \in Int /\ wal[v].reserved \in Int
  BY DEF Wallet
<1>2. CASE v = u
  <2>1. /\ Move(wal, u, b, r)[v].balance = wal[v].balance + b
        /\ Move(wal, u, b, r)[v].reserved = wal[v].reserved + r
    BY <1>2, MoveType
  <2> QED BY <1>1, <1>2, <2>1
<1>3. CASE v # u
  <2>1. Move(wal, u, b, r)[v] = wal[v]
    BY <1>3, MoveType
  <2> QED BY <1>1, <1>3, <2>1
<1> QED BY <1>2, <1>3

(* FundsConserved: no transaction creates or loses a cent, whatever overlaps *)
(* and whatever fails, since each moves between balance, reserved and the    *)
(* outside world what it takes.                                              *)
THEOREM Conservation == Spec => []FundsConserved
<1> DEFINE Funds(u) == wallet[u].balance + wallet[u].reserved + disbursed[u]
<1>1. Init => FundsConserved
  BY WithdrawalsAssumption DEF Init, FundsConserved
<1>2. TypeOK /\ FundsConserved /\ [Next]_vars => FundsConserved'
  <2> SUFFICES ASSUME TypeOK, FundsConserved, [Next]_vars, NEW v \in Users
               PROVE  Funds(v)' = Funds(v)
    BY DEF FundsConserved
  <2>1. wallet \in [Users -> Wallet] /\ disbursed \in [Users -> Nat]
    BY DEF TypeOK
  <2>2. ASSUME NEW p \in Procs, NEW w \in Withdraws, NEW payee \in BOOLEAN,
               RequestCommit(p, w, payee)
        PROVE  Funds(v)' = Funds(v)
    <3> DEFINE u == call[p].user
               total == Total(call[p].amount)
    <3>1. call[p] \in [op : {"request"}, user : Users, amount : Amounts]
      BY <2>2 DEF RequestCommit, Call, Idle, TypeOK
    <3>2. u \in Users /\ total \in Int
      <4>1. call[p].user \in Users /\ call[p].amount \in Nat
        BY <3>1, WithdrawalsAssumption
      <4> QED BY <4>1, FeeIsNat
    <3>3. wallet' = Move(wallet, u, -total, total) /\ disbursed' = disbursed
      BY <2>2 DEF RequestCommit
    <3> HIDE DEF u, total
    <3>4. -total \in Int /\ -total + total = 0
      BY <3>2
    <3>5. /\ wallet'[v].balance + wallet'[v].reserved
             = wallet[v].balance + wallet[v].reserved + (IF v = u THEN -total + total ELSE 0)
          /\ wallet[v].balance + wallet[v].reserved \in Int
      <4> DEFINE less == -total
      <4>1. less \in Int /\ wallet' = Move(wallet, u, less, total)
        BY <3>3, <3>4
      <4> HIDE DEF less
      <4>2. /\ Move(wallet, u, less, total)[v].balance + Move(wallet, u, less, total)[v].reserved
               = wallet[v].balance + wallet[v].reserved + (IF v = u THEN less + total ELSE 0)
            /\ wallet[v].balance + wallet[v].reserved \in Int
        <5>1. wallet \in [Users -> Wallet] /\ u \in Users /\ less \in Int /\ total \in Int
          BY <2>1, <3>2, <4>1
        <5> QED BY ONLY v \in Users, <5>1, MoveSum
      <4> QED BY <4>1, <4>2 DEF less
    <3> QED BY <3>3, <3>4, <3>5
  <2>3. ASSUME NEW p \in Procs, ApproveCommit(p)
        PROVE  Funds(v)' = Funds(v)
    <3> DEFINE u == call[p].wd.user
               amount == call[p].wd.amount
    <3>1. u \in Users /\ amount \in Nat /\ amount \in Int
      BY <2>3, WithdrawalsAssumption DEF ApproveCommit, Call, Idle, TypeOK, Withdraw
    <3>2. /\ wallet' = Move(wallet, u, 0, -amount)
          /\ disbursed' = [disbursed EXCEPT ![u] = @ + amount]
      BY <2>3 DEF ApproveCommit
    <3> HIDE DEF u, amount
    <3>3. disbursed'[v] = disbursed[v] + (IF v = u THEN amount ELSE 0) /\ disbursed[v] \in Int
      BY <2>1, <3>1, <3>2
    <3>4. -amount \in Int /\ 0 + -amount = -amount
      BY <3>1
    <3>5. /\ wallet'[v].balance + wallet'[v].reserved
             = wallet[v].balance + wallet[v].reserved + (IF v = u THEN -amount ELSE 0)
          /\ wallet[v].balance + wallet[v].reserved \in Int
      BY <2>1, <3>1, <3>2, <3>4, MoveSum
    <3> QED BY <3>1, <3>3, <3>5
  <2>4. ASSUME NEW p \in Procs, RejectCommit(p)
        PROVE  Funds(v)' = Funds(v)
    <3> DEFINE u == call[p].wd.user
               refund == Refund(call[p].wd)
    <3>1. u \in Users /\ refund \in Int
      BY <2>4 DEF RejectCommit, Call, Idle, TypeOK, Withdraw, Refund
    <3>2. wallet' = Move(wallet, u, refund, -refund) /\ disbursed' = disbursed
      BY <2>4 DEF RejectCommit
    <3> HIDE DEF u, refund
    <3>3. wallet'[v].balance + wallet'[v].reserved = wallet[v].balance + wallet[v].reserved
      <4> DEFINE less == -refund
      <4>1. less \in Int /\ refund + less = 0 /\ wallet' = Move(wallet, u, refund, less)
        BY <3>1, <3>2
      <4> HIDE DEF less
      <4>2. /\ Move(wallet, u, refund, less)[v].balance + Move(wallet, u, refund, less)[v].reserved
               = wallet[v].balance + wallet[v].reserved + (IF v = u THEN refund + less ELSE 0)
            /\ wallet[v].balance + wallet[v].reserved \in Int
        <5>1. wallet \in [Users -> Wallet] /\ u \in Users /\ less \in Int /\ refund \in Int
          BY <2>1, <3>1, <4>1
        <5> QED BY ONLY v \in Users, <5>1, MoveSum
      <4> QED BY <4>1, <4>2
    <3> QED BY <3>2, <3>3
  <2>5. ASSUME UNCHANGED <<wallet, disbursed>>
        PROVE  Funds(v)' = Funds(v)
    BY <2>5
  <2> QED
    BY <2>2, <2>3, <2>4, <2>5
    DEF Next, vars, Request, Approve, Reject, RequestRead, ApproveRead, RejectRead, Begin,
        Rollback, FlagRead, FlagCommit, Crash, Age
<1> QED BY <1>1, <1>2, TypeCorrect, PTL DEF Spec

-----------------------------------------------------------------------------
(* TotalTellsPayment needs two facts beside itself: the amount a handler has *)
(* read is still the row's, since no handler changes a row's amount, and a   *)
(* row is not paid before it exists.                                         *)
AmountReadIsRows ==
  \A p \in Procs : call[p].op \in {"approve", "reject"} =>
     call[p].wd.amount = row[call[p].id].amount

UnpaidUntilCreated == \A w \in Withdraws : row[w] = Absent => payouts[w] = 0

TellInv == AmountReadIsRows /\ UnpaidUntilCreated /\ TotalTellsPayment

(* Whether a withdrawal was paid can be read off its row at any time, even   *)
(* when approve, reject and the job have raced for it.                       *)
THEOREM TotalTells == Spec => []TotalTellsPayment
<1>1. Init => TellInv
  BY DEF Init, TellInv, AmountReadIsRows, UnpaidUntilCreated, TotalTellsPayment, Idle
<1>2. TypeOK /\ TellInv /\ [Next]_vars => TellInv'
  <2> SUFFICES ASSUME TypeOK, TellInv, [Next]_vars PROVE TellInv'
    OBVIOUS
  <2> USE DEF TellInv
  <2>1. ASSUME NEW p \in Procs, NEW u \in Users, NEW amount \in Amounts,
               RequestRead(p, u, amount)
        PROVE  TellInv'
    BY <2>1 DEF RequestRead, Begin, TypeOK, AmountReadIsRows, UnpaidUntilCreated,
                TotalTellsPayment
  <2>2. ASSUME NEW p \in Procs, NEW w \in Withdraws, NEW payee \in BOOLEAN,
               RequestCommit(p, w, payee)
        PROVE  TellInv'
    <3>1. /\ row[w] = Absent /\ row' = [row EXCEPT ![w] = row'[w]]
          /\ row'[w].amount = call[p].amount
          /\ row'[w].total = call[p].amount + Fee(call[p].amount)
          /\ row'[w] # Absent
          /\ payouts' = payouts
      BY <2>2 DEF RequestCommit, TypeOK, Total, Absent
    <3>2. AmountReadIsRows'
      <4> SUFFICES ASSUME NEW q \in Procs, call'[q].op \in {"approve", "reject"}
                   PROVE  call'[q].wd.amount = row'[call'[q].id].amount
        BY DEF AmountReadIsRows
      <4>1. call'[q] = call[q]
        BY <2>2 DEF RequestCommit, End, Idle, TypeOK
      <4>2. row[call[q].id] # Absent
        BY <4>1 DEF TypeOK
      <4>3. call[q].id \in Withdraws
        BY <4>1 DEF TypeOK, Call, Idle
      <4> QED BY <3>1, <4>1, <4>2, <4>3 DEF AmountReadIsRows, TypeOK
    <3>3. UnpaidUntilCreated' /\ TotalTellsPayment'
      BY <3>1 DEF UnpaidUntilCreated, TotalTellsPayment, TypeOK
    <3> QED BY <3>2, <3>3
  <2>3. ASSUME NEW p \in Procs, NEW w \in Withdraws, ApproveRead(p, w) \/ RejectRead(p, w)
        PROVE  TellInv'
    BY <2>3 DEF ApproveRead, RejectRead, Begin, TypeOK, AmountReadIsRows,
                UnpaidUntilCreated, TotalTellsPayment
  <2>4. ASSUME NEW p \in Procs, ApproveCommit(p)
        PROVE  TellInv'
    <3> DEFINE w == call[p].id
    <3>1. w \in Withdraws /\ row[w] \in Withdraw /\ call[p].wd.amount = row[w].amount
      BY <2>4 DEF ApproveCommit, TypeOK, Call, Idle, AmountReadIsRows
    <3>2. /\ row'[w].amount = row[w].amount
          /\ row'[w].total = row[w].amount - Fee(row[w].amount)
          /\ row'[w] # Absent
          /\ payouts'[w] > 0
          /\ \A v \in Withdraws \ {w} : payouts'[v] = payouts[v] /\ row'[v] = row[v]
      <4>1. row'[w] = [row[w] EXCEPT !.status = "APPROVED", !.fee = Fee(row[w].amount),
                                     !.total = Net(row[w].amount)]
        BY <2>4, <3>1 DEF ApproveCommit, TypeOK
      <4>2. /\ row'[w].amount = row[w].amount /\ row'[w].status = "APPROVED"
            /\ row'[w].total = Net(row[w].amount)
        BY <3>1, <4>1 DEF Withdraw
      <4>3. payouts'[w] > 0
        BY <2>4, <3>1 DEF ApproveCommit, TypeOK
      <4>4. \A v \in Withdraws \ {w} : payouts'[v] = payouts[v] /\ row'[v] = row[v]
        BY <2>4 DEF ApproveCommit, TypeOK
      <4> QED BY <4>2, <4>3, <4>4 DEF Net, Absent
    <3>3. \A q \in Procs : call'[q].op \in {"approve", "reject"} => call'[q] = call[q]
      BY <2>4 DEF ApproveCommit, End, Idle, TypeOK
    <3> HIDE DEF w
    <3>4. AmountReadIsRows'
      BY <3>1, <3>2, <3>3 DEF AmountReadIsRows, TypeOK, Call, Idle
    <3>5. UnpaidUntilCreated' /\ TotalTellsPayment'
      BY <3>1, <3>2 DEF UnpaidUntilCreated, TotalTellsPayment, TypeOK
    <3> QED BY <3>4, <3>5
  <2>5. ASSUME NEW batch \in SUBSET {w \in Withdraws : row[w] # Absent},
               \A w \in Withdraws \ batch : row'[w] = row[w],
               \A w \in batch : row'[w] = [row[w] EXCEPT !.status = "SUSPENDED"],
               \A q \in Procs : call'[q].op \in {"approve", "reject"} => call'[q] = call[q],
               payouts' = payouts
        PROVE  TellInv'
    <3>1. \A w \in Withdraws : row[w] # Absent =>
             row'[w] # Absent /\ row'[w].amount = row[w].amount /\ row'[w].total = row[w].total
      <4> SUFFICES ASSUME NEW w \in Withdraws, row[w] # Absent
                   PROVE  row'[w] # Absent /\ row'[w].amount = row[w].amount
                          /\ row'[w].total = row[w].total
        OBVIOUS
      <4>1. row[w] \in Withdraw
        BY DEF TypeOK
      <4>2. CASE w \in batch
        BY <2>5, <4>1, <4>2 DEF Withdraw, Absent
      <4>3. CASE w \notin batch
        BY <2>5, <4>3
      <4> QED BY <4>2, <4>3
    <3>2. \A w \in Withdraws : row[w] = Absent => row'[w] = Absent
      BY <2>5
    <3>3. AmountReadIsRows'
      BY <2>5, <3>1 DEF AmountReadIsRows, TypeOK, Call, Idle
    <3>4. UnpaidUntilCreated' /\ TotalTellsPayment'
      BY <2>5, <3>1, <3>2 DEF UnpaidUntilCreated, TotalTellsPayment
    <3> QED BY <3>3, <3>4
  <2>6. ASSUME NEW p \in Procs, RejectCommit(p)
        PROVE  TellInv'
    <3> DEFINE batch == {call[p].id}
    <3>1. batch \in SUBSET {w \in Withdraws : row[w] # Absent}
      BY <2>6 DEF RejectCommit, TypeOK, Call, Idle
    <3>2. /\ \A w \in Withdraws \ batch : row'[w] = row[w]
          /\ \A w \in batch : row'[w] = [row[w] EXCEPT !.status = "SUSPENDED"]
          /\ payouts' = payouts
      BY <2>6, <3>1 DEF RejectCommit, TypeOK
    <3>3. \A q \in Procs : call'[q].op \in {"approve", "reject"} => call'[q] = call[q]
      BY <2>6 DEF RejectCommit, End, Idle, TypeOK
    <3> HIDE DEF batch
    <3> QED BY <2>5, <3>1, <3>2, <3>3
  <2>7. CASE FlagCommit
    <3>1. /\ job \in SUBSET {w \in Withdraws : row[w] # Absent}
          /\ \A w \in Withdraws \ job : row'[w] = row[w]
          /\ \A w \in job : row'[w] = [row[w] EXCEPT !.status = "SUSPENDED"]
          /\ UNCHANGED <<call, payouts>>
      BY <2>7 DEF FlagCommit, FlaggedStatus, TypeOK
    <3> QED BY <2>5, <3>1
  <2>8. ASSUME UNCHANGED <<row, payouts>>,
               \A q \in Procs : call'[q].op \in {"approve", "reject"} => call'[q] = call[q]
        PROVE  TellInv'
    BY <2>8 DEF AmountReadIsRows, UnpaidUntilCreated, TotalTellsPayment
  <2>9. ASSUME NEW p \in Procs, Rollback(p)
        PROVE  TellInv'
    BY <2>8, <2>9 DEF Rollback, End, Idle, TypeOK
  <2>10. CASE FlagRead \/ Crash \/ (\E w \in Withdraws : Age(w)) \/ UNCHANGED vars
    BY <2>8, <2>10 DEF FlagRead, Crash, Age, vars, Idle
  <2> QED BY <2>1, <2>2, <2>3, <2>4, <2>6, <2>7, <2>9, <2>10
          DEF Next, Request, Approve, Reject
<1>3. TellInv => TotalTellsPayment
  BY DEF TellInv
<1> QED BY <1>1, <1>2, <1>3, TypeCorrect, PTL DEF Spec

-----------------------------------------------------------------------------
(* When no handler starts, the rows and users that handlers are busy with    *)
(* can only become fewer.                                                    *)
LEMMA FewerHandlers ==
  ASSUME \A q \in Procs : call'[q] = Idle \/ call'[q] = call[q]
  PROVE  /\ \A w : Holding(w)' \subseteq Holding(w)
         /\ \A u : \A q \in Requesting(u)' : q \in Requesting(u) /\ call'[q] = call[q]
         /\ \A q \in Procs : call'[q].op = "reject" => call'[q] = call[q]
BY DEF Holding, Requesting, Idle

(* Whoever meets another is recorded.                                        *)
LEMMA MeetingIsRecorded ==
  ASSUME Meet
  PROVE  /\ \A w \in Withdraws \ raced' : /\ w \notin raced
                                          /\ \A p, q \in Holding(w)' : p = q
                                          /\ w \in job' => Holding(w)' = {}
         /\ \A u \in Users \ rushed' : u \notin rushed /\ \A p, q \in Requesting(u)' : p = q
BY DEF Meet

(* A row that nobody raced for is settled by whoever holds it.               *)
RowInv == OnePerRow /\ SettledOnce

LEMMA RowInvRequest ==
  ASSUME TypeOK, RowInv, NEW p \in Procs, NEW w \in Withdraws, NEW payee \in BOOLEAN,
         RequestCommit(p, w, payee)
  PROVE  RowInv'
<1>1. /\ row[w] = Absent /\ row'[w].status = "PENDING"
      /\ \A v \in Withdraws : v # w => row'[v] = row[v]
      /\ UNCHANGED <<job, payouts, returns, raced>>
  BY DEF RequestCommit, TypeOK
<1>2. \A v : Holding(v)' \subseteq Holding(v)
  BY FewerHandlers DEF RequestCommit, End, TypeOK
<1>3. \A v \in Withdraws : /\ Pending(v) => row'[v].status = "PENDING"
                           /\ row'[v] = Absent \/ row'[v].status = "PENDING"
                                => row[v] = Absent \/ Pending(v)
  BY <1>1 DEF Pending
<1>4. OnePerRow'
  BY <1>1, <1>2, <1>3 DEF RowInv, OnePerRow, Pending
<1> QED BY <1>1, <1>4 DEF RowInv, SettledOnce

(* approve and reject settle a row that, unless it is raced for, is PENDING  *)
(* and held by nothing else.                                                 *)
LEMMA RowInvSettle ==
  ASSUME TypeOK, RowInv, NEW p \in Procs, ApproveCommit(p) \/ RejectCommit(p)
  PROVE  RowInv'
<1>0. PICK w : w = call[p].id
  OBVIOUS
<1>1. w \in Withdraws /\ p \in Holding(w) /\ row[w] \in Withdraw
  <2>1. call[p].op \in {"approve", "reject"}
    BY DEF ApproveCommit, RejectCommit
  <2> QED BY <1>0, <2>1 DEF TypeOK, Call, Idle, Holding
<1>2. /\ \A v \in Withdraws : v # w => /\ row'[v] = row[v] /\ payouts'[v] = payouts[v]
                                      /\ returns'[v] = returns[v]
      /\ UNCHANGED <<job, raced>>
      /\ payouts'[w] + returns'[w] = payouts[w] + returns[w] + 1
  <2>1. CASE ApproveCommit(p)
    BY <1>0, <1>1, <2>1 DEF ApproveCommit, TypeOK
  <2>2. CASE RejectCommit(p)
    BY <1>0, <1>1, <2>2 DEF RejectCommit, TypeOK
  <2> QED BY <2>1, <2>2
<1>3. row'[w].status \in {"APPROVED", "SUSPENDED"}
  <2>1. CASE ApproveCommit(p)
    <3>1. row'[w] = [row[w] EXCEPT !.status = "APPROVED", !.fee = Fee(call[p].wd.amount),
                                   !.total = Net(call[p].wd.amount)]
      BY <1>0, <1>1, <2>1 DEF ApproveCommit, TypeOK
    <3> QED BY <1>1, <3>1 DEF Withdraw
  <2>2. CASE RejectCommit(p)
    <3>1. row'[w] = [row[w] EXCEPT !.status = "SUSPENDED"]
      BY <1>0, <1>1, <2>2 DEF RejectCommit, TypeOK
    <3> QED BY <1>1, <3>1 DEF Withdraw
  <2> QED BY <2>1, <2>2
<1>4. /\ \A v : Holding(v)' \subseteq Holding(v)
      /\ \A v : p \notin Holding(v)'
  <2>1. call' = [call EXCEPT ![p] = Idle]
    BY DEF ApproveCommit, RejectCommit, End
  <2> QED BY <2>1, FewerHandlers DEF TypeOK, Holding, Idle
<1>5. row'[w] # Absent /\ row'[w].status # "PENDING"
  BY <1>3 DEF Absent
<1>6. w \notin raced => /\ w \notin job /\ Holding(w)' = {}
                       /\ payouts[w] + returns[w] = 0
  BY <1>1, <1>4 DEF RowInv, OnePerRow
<1>7. OnePerRow'
  <2>1. \A v \in Withdraws : row'[v] = Absent \/ row'[v].status = "PENDING"
                            => payouts'[v] + returns'[v] = 0
    BY <1>2, <1>5 DEF RowInv, OnePerRow, Pending
  <2>2. ASSUME NEW v \in Withdraws, v \notin raced
        PROVE  /\ v \in job' \/ Holding(v)' # {} => row'[v].status = "PENDING"
               /\ \A q, r \in Holding(v)' : q = r
               /\ v \in job' => Holding(v)' = {}
    BY <1>2, <1>4, <1>6, <2>2 DEF RowInv, OnePerRow, Pending
  <2> QED BY <1>2, <2>1, <2>2 DEF OnePerRow, Pending
<1>8. SettledOnce'
  BY <1>2, <1>6 DEF RowInv, SettledOnce
<1> QED BY <1>7, <1>8 DEF RowInv

(* The job suspends rows that, unless raced for, no handler holds.           *)
LEMMA RowInvFlag ==
  ASSUME TypeOK, RowInv, FlagCommit
  PROVE  RowInv'
<1>1. /\ \A w \in Withdraws : w \notin job => row'[w] = row[w]
      /\ \A w \in job : row'[w] # Absent /\ row'[w].status = "SUSPENDED"
      /\ job' = {}
      /\ UNCHANGED <<call, payouts, returns, raced>>
  <2>1. ASSUME NEW w \in job
        PROVE  row'[w].status = "SUSPENDED"
    <3>1. w \in Withdraws /\ row[w] \in Withdraw
      BY DEF TypeOK
    <3>2. row'[w] = [row[w] EXCEPT !.status = "SUSPENDED"]
      BY <3>1 DEF FlagCommit, FlaggedStatus
    <3> QED BY <3>1, <3>2 DEF Withdraw
  <2>2. \A w \in job : row'[w] # Absent
    BY <2>1 DEF Absent
  <2> QED BY <2>1, <2>2 DEF FlagCommit
<1>2. \A w : Holding(w)' = Holding(w)
  BY <1>1 DEF Holding
<1>3. OnePerRow'
  BY <1>1, <1>2 DEF RowInv, OnePerRow, Pending
<1> QED BY <1>1, <1>3 DEF RowInv, SettledOnce

LEMMA RowInvStep == TypeOK /\ RowInv /\ [Next]_vars => RowInv'
<1> SUFFICES ASSUME TypeOK, RowInv, [Next]_vars PROVE RowInv'
  OBVIOUS
<1>1. ASSUME Meet, UNCHANGED <<row, payouts, returns>>,
             \A w \in Withdraws : w \in job' \/ Holding(w)' # {} =>
                Pending(w) \/ w \in job \/ Holding(w) # {}
      PROVE  RowInv'
  <2>1. OnePerRow'
    <3>1. \A w \in Withdraws \ raced' : w \in job' \/ Holding(w)' # {} => Pending(w)
      BY <1>1, MeetingIsRecorded DEF RowInv, OnePerRow
    <3> QED BY <1>1, <3>1, MeetingIsRecorded DEF RowInv, OnePerRow, Pending
  <2> QED BY <1>1, <2>1, MeetingIsRecorded DEF RowInv, SettledOnce
<1>2. ASSUME NEW p \in Procs, NEW u \in Users, NEW amount \in Amounts, RequestRead(p, u, amount)
      PROVE  RowInv'
  <2>1. Meet /\ UNCHANGED <<row, payouts, returns, job>>
    BY <1>2 DEF RequestRead, Begin
  <2>2. \A w : Holding(w)' \subseteq Holding(w)
    BY <1>2 DEF RequestRead, Begin, TypeOK, Holding
  <2> QED BY <1>1, <2>1, <2>2
<1>3. ASSUME NEW p \in Procs, NEW w \in Withdraws, ApproveRead(p, w) \/ RejectRead(p, w)
      PROVE  RowInv'
  <2>1. Meet /\ UNCHANGED <<row, payouts, returns, job>> /\ Pending(w)
    BY <1>3 DEF ApproveRead, RejectRead, Begin
  <2>2. \A v : v # w => Holding(v)' \subseteq Holding(v)
    BY <1>3 DEF ApproveRead, RejectRead, Begin, TypeOK, Holding
  <2> QED BY <1>1, <2>1, <2>2
<1>4. CASE FlagRead
  <2>1. /\ Meet /\ UNCHANGED <<row, payouts, returns, call>>
        /\ \A w \in job' : Pending(w)
    BY <1>4 DEF FlagRead, Overdue, Pending
  <2>2. \A w : Holding(w)' = Holding(w)
    BY <2>1 DEF Holding
  <2> QED BY <1>1, <2>1, <2>2
<1>5. ASSUME UNCHANGED <<row, payouts, returns, raced>>, job' \subseteq job,
             \A q \in Procs : call'[q] = Idle \/ call'[q] = call[q]
      PROVE  RowInv'
  <2>1. \A w : Holding(w)' \subseteq Holding(w)
    BY <1>5, FewerHandlers
  <2>2. OnePerRow'
    BY <1>5, <2>1 DEF RowInv, OnePerRow, Pending
  <2> QED BY <1>5, <2>2 DEF RowInv, SettledOnce
<1>6. ASSUME NEW p \in Procs, Rollback(p) PROVE RowInv'
  BY <1>5, <1>6 DEF Rollback, End, TypeOK
<1>7. CASE Crash \/ (\E w \in Withdraws : Age(w)) \/ UNCHANGED vars
  BY <1>5, <1>7 DEF Crash, Age, vars
<1> QED BY <1>2, <1>3, <1>4, <1>6, <1>7, RowInvRequest, RowInvSettle, RowInvFlag
        DEF Next, Request, Approve, Reject

(* Only answers that are under way together (two handlers, or a handler and  *)
(* the auto-flag job, that have read the same row) can both be carried out:  *)
(* any other withdrawal is paid or returned at most once, for any number of  *)
(* handlers that overlap, fail and are cut short.                            *)
THEOREM SettlesOnce == Spec => []SettledOnce
<1>1. Init => RowInv
  <2> SUFFICES ASSUME Init PROVE RowInv
    OBVIOUS
  <2>1. \A w : Holding(w) = {}
    BY DEF Init, Holding, Idle
  <2> QED BY <2>1 DEF Init, RowInv, OnePerRow, SettledOnce, Pending
<1>2. RowInv => SettledOnce
  BY DEF RowInv
<1> QED BY <1>1, <1>2, RowInvStep, TypeCorrect, PTL DEF Spec

-----------------------------------------------------------------------------
(* What request locks and reject gives back is the amount and its fee.       *)
LEMMA TotalsStep == TypeOK /\ TotalsAreGross /\ [Next]_vars => TotalsAreGross'
<1> SUFFICES ASSUME TypeOK, TotalsAreGross, [Next]_vars PROVE TotalsAreGross'
  OBVIOUS
<1>1. ASSUME \A q \in Procs : call'[q] = Idle \/ call'[q] = call[q],
             \A w \in Withdraws : row'[w] # row[w] /\ row'[w].status = "PENDING" =>
                row'[w].total = Total(row'[w].amount)
      PROVE  TotalsAreGross'
  <2>1. \A q \in Procs : call'[q].op = "reject" => call'[q] = call[q]
    BY <1>1, FewerHandlers
  <2> QED BY <1>1, <2>1 DEF TotalsAreGross, Pending
<1>2. ASSUME NEW p \in Procs, NEW u \in Users, NEW amount \in Amounts, RequestRead(p, u, amount)
      PROVE  TotalsAreGross'
  BY <1>2 DEF RequestRead, Begin, TotalsAreGross, Pending, TypeOK
<1>3. ASSUME NEW p \in Procs, NEW w \in Withdraws, ApproveRead(p, w) \/ RejectRead(p, w)
      PROVE  TotalsAreGross'
  BY <1>3 DEF ApproveRead, RejectRead, Begin, TotalsAreGross, Pending, TypeOK
<1>4. ASSUME NEW p \in Procs, NEW w \in Withdraws, NEW payee \in BOOLEAN,
             RequestCommit(p, w, payee)
      PROVE  TotalsAreGross'
  BY <1>1, <1>4 DEF RequestCommit, End, TypeOK
<1>5. ASSUME NEW p \in Procs, ApproveCommit(p) \/ RejectCommit(p)
      PROVE  TotalsAreGross'
  <2>1. call[p].id \in Withdraws /\ row[call[p].id] \in Withdraw
    <3>1. call[p].op \in {"approve", "reject"}
      BY <1>5 DEF ApproveCommit, RejectCommit
    <3> QED BY <3>1 DEF TypeOK, Call, Idle
  <2>2. row'[call[p].id].status \in {"APPROVED", "SUSPENDED"}
    <3>1. CASE ApproveCommit(p)
      <4>1. row'[call[p].id].status = "APPROVED"
        BY <2>1, <3>1 DEF ApproveCommit, TypeOK, Withdraw
      <4> QED BY <4>1
    <3>2. CASE RejectCommit(p)
      <4>1. row'[call[p].id].status = "SUSPENDED"
        BY <2>1, <3>2 DEF RejectCommit, TypeOK, Withdraw
      <4> QED BY <4>1
    <3> QED BY <1>5, <3>1, <3>2
  <2>3. \A w \in Withdraws : w # call[p].id => row'[w] = row[w]
    BY <1>5 DEF ApproveCommit, RejectCommit, TypeOK
  <2>4. \A q \in Procs : call'[q] = Idle \/ call'[q] = call[q]
    BY <1>5 DEF ApproveCommit, RejectCommit, End, TypeOK
  <2> QED BY <1>1, <2>2, <2>3, <2>4
<1>6. CASE FlagCommit
  <2>1. ASSUME NEW w \in job PROVE row'[w].status = "SUSPENDED"
    <3>1. w \in Withdraws /\ row[w] \in Withdraw
      BY DEF TypeOK
    <3>2. row'[w] = [row[w] EXCEPT !.status = "SUSPENDED"]
      BY <1>6, <3>1 DEF FlagCommit, FlaggedStatus
    <3> QED BY <3>1, <3>2 DEF Withdraw
  <2>2. \A w \in Withdraws : w \notin job => row'[w] = row[w]
    BY <1>6 DEF FlagCommit
  <2>3. call' = call
    BY <1>6 DEF FlagCommit
  <2> QED BY <1>1, <2>1, <2>2, <2>3
<1>7. ASSUME NEW p \in Procs, Rollback(p) PROVE TotalsAreGross'
  BY <1>1, <1>7 DEF Rollback, End, TypeOK
<1>8. CASE FlagRead \/ Crash \/ (\E w \in Withdraws : Age(w)) \/ UNCHANGED vars
  BY <1>1, <1>8 DEF FlagRead, Crash, Age, vars
<1> QED BY <1>2, <1>3, <1>4, <1>5, <1>6, <1>7, <1>8 DEF Next, Request, Approve, Reject

(* What a request has seen is there as long as no balance shrinks.           *)
MoneyInv == OneRequestPerUser /\ BalanceNeverNegative

LEMMA MoneyInvKeeps ==
  ASSUME TypeOK, TypeOK', MoneyInv, rushed' = rushed,
         \A q \in Procs : call'[q] = Idle \/ call'[q] = call[q],
         NEW spender, \A u \in Users \ rushed : u # spender => wallet'[u].balance >= wallet[u].balance,
         spender \in Users \ rushed => wallet'[spender].balance >= 0 /\ Requesting(spender)' = {}
  PROVE  MoneyInv'
<1>1. \A u \in Users : wallet[u].balance \in Int /\ wallet'[u].balance \in Int
  BY DEF TypeOK, Wallet
<1>2. ASSUME NEW u \in Users, u \notin rushed
      PROVE  /\ \A p, q \in Requesting(u)' : p = q
             /\ \A p \in Requesting(u)' : wallet'[u].balance >= Total(call'[p].amount)
             /\ wallet'[u].balance >= 0
  <2>1. CASE u = spender
    BY <1>2, <2>1
  <2>2. CASE u # spender
    <3>1. wallet'[u].balance >= wallet[u].balance /\ wallet[u].balance >= 0
      BY <1>2, <2>2 DEF MoneyInv, BalanceNeverNegative
    <3>2. \A p \in Requesting(u)' : p \in Requesting(u) /\ call'[p] = call[p]
      BY FewerHandlers
    <3>3. ASSUME NEW p \in Requesting(u)'
          PROVE  wallet'[u].balance >= Total(call'[p].amount)
      <4>1. wallet[u].balance >= Total(call[p].amount) /\ call'[p] = call[p]
        BY <1>2, <3>2 DEF MoneyInv, OneRequestPerUser, Affords
      <4>2. Total(call[p].amount) \in Int
        <5>1. call[p].amount \in Nat
          <6>1. p \in Procs /\ call[p].op = "request"
            BY <3>2 DEF Requesting
          <6>2. call[p] \in [op : {"request"}, user : Users, amount : Amounts]
            BY <6>1 DEF TypeOK, Call, Idle
          <6> QED BY <6>2, WithdrawalsAssumption
        <5> QED BY <5>1, FeeIsNat
      <4> QED BY <1>1, <3>1, <4>1, <4>2
    <3>4. \A p, q \in Requesting(u)' : p = q
      BY <1>2, <3>2 DEF MoneyInv, OneRequestPerUser
    <3> QED BY <1>1, <3>1, <3>3, <3>4
  <2> QED BY <2>1, <2>2
<1>3. OneRequestPerUser'
  BY <1>2 DEF OneRequestPerUser, Affords
<1>4. BalanceNeverNegative'
  BY <1>2 DEF BalanceNeverNegative
<1> QED BY <1>3, <1>4 DEF MoneyInv

LEMMA MoneyInvRequest ==
  ASSUME TypeOK, TypeOK', MoneyInv, NEW p \in Procs, NEW w \in Withdraws, NEW payee \in BOOLEAN,
         RequestCommit(p, w, payee)
  PROVE  MoneyInv'
<1>0. PICK u, total, less : u = call[p].user /\ total = Total(call[p].amount) /\ less = -total
  OBVIOUS
<1>1. u \in Users /\ total \in Int /\ less \in Int /\ p \in Requesting(u)
  <2>1. call[p] \in [op : {"request"}, user : Users, amount : Amounts]
    BY DEF RequestCommit, Call, Idle, TypeOK
  <2>2. call[p].op = "request" /\ u \in Users /\ call[p].amount \in Nat
    BY <1>0, <2>1, WithdrawalsAssumption
  <2>3. total \in Int
    BY <1>0, <2>2, FeeIsNat
  <2> QED BY <1>0, <2>2, <2>3 DEF Requesting
<1>2. /\ wallet' = Move(wallet, u, less, total) /\ rushed' = rushed
      /\ call' = [call EXCEPT ![p] = Idle]
      /\ wallet \in [Users -> Wallet]
  BY <1>0 DEF RequestCommit, End, TypeOK
<1>3. u \notin rushed => wallet[u].balance >= total /\ \A q \in Requesting(u) : q = p
  BY <1>0, <1>1 DEF MoneyInv, OneRequestPerUser, Affords
<1>4. /\ wallet'[u].balance = wallet[u].balance + less
      /\ \A v \in Users \ {u} : wallet'[v] = wallet[v]
  BY <1>1, <1>2, MoveType
<1>5. \A q \in Procs : call'[q] = Idle \/ call'[q] = call[q]
  BY <1>2 DEF TypeOK
<1>6. \A v \in Users : wallet[v].balance \in Int
  BY DEF TypeOK, Wallet
<1>7. u \notin rushed => wallet'[u].balance >= 0
  BY <1>0, <1>1, <1>3, <1>4, <1>6
<1>8. u \notin rushed => Requesting(u)' = {}
  <2>1. p \notin Requesting(u)'
    BY <1>2 DEF TypeOK, Requesting, Idle
  <2>2. \A q \in Requesting(u)' : q \in Requesting(u)
    BY <1>5, FewerHandlers
  <2> QED BY <1>3, <2>1, <2>2
<1>9. \A v \in Users \ rushed : v # u => wallet'[v].balance >= wallet[v].balance
  BY <1>4, <1>6
<1> QED BY <1>2, <1>5, <1>7, <1>8, <1>9, MoneyInvKeeps

(* approve takes nothing from balance, and reject gives the total back.      *)
LEMMA MoneyInvSettle ==
  ASSUME TypeOK, TypeOK', TotalsAreGross, MoneyInv, NEW p \in Procs,
         ApproveCommit(p) \/ RejectCommit(p)
  PROVE  MoneyInv'
<1>1. PICK u \in Users, b \in Nat, r \in Int : wallet' = Move(wallet, u, b, r)
  <2>1. /\ call[p] \in [op : {"approve", "reject"}, id : Withdraws, wd : Withdraw]
        /\ call[p].wd.user \in Users /\ call[p].wd.amount \in Nat
    <3>1. call[p] \in [op : {"approve", "reject"}, id : Withdraws, wd : Withdraw]
      BY DEF ApproveCommit, RejectCommit, TypeOK, Call, Idle
    <3>2. call[p].wd \in Withdraw
      BY <3>1
    <3> QED BY <3>1, <3>2, WithdrawalsAssumption DEF Withdraw
  <2>2. CASE ApproveCommit(p)
    <3>1. -call[p].wd.amount \in Int /\ 0 \in Nat
      BY <2>1
    <3> QED BY <2>1, <2>2, <3>1 DEF ApproveCommit
  <2>3. CASE RejectCommit(p)
    <3>1. Refund(call[p].wd) = Total(call[p].wd.amount)
      BY <2>3 DEF RejectCommit, TotalsAreGross, Refund
    <3>2. Refund(call[p].wd) \in Nat
      BY <2>1, <3>1, FeeIsNat
    <3>3. -Refund(call[p].wd) \in Int
      BY <3>2
    <3> QED BY <2>1, <2>3, <3>2, <3>3 DEF RejectCommit
  <2> QED BY <2>2, <2>3
<1>2. wallet \in [Users -> Wallet] /\ \A v \in Users : wallet[v].balance \in Int
  BY DEF TypeOK, Wallet
<1>3. /\ wallet'[u].balance = wallet[u].balance + b
      /\ \A v \in Users \ {u} : wallet'[v] = wallet[v]
  <2>1. b \in Int
    OBVIOUS
  <2> QED BY <1>1, <1>2, <2>1, MoveType
<1>4. \A v \in Users : wallet'[v].balance >= wallet[v].balance
  BY <1>2, <1>3
<1>5. rushed' = rushed /\ \A q \in Procs : call'[q] = Idle \/ call'[q] = call[q]
  BY DEF ApproveCommit, RejectCommit, End, TypeOK
<1>6. PICK nobody : nobody \notin Users
  BY NoSetContainsEverything
<1> QED BY <1>4, <1>5, <1>6, MoneyInvKeeps

LEMMA MoneyInvStep == TypeOK /\ TypeOK' /\ TotalsAreGross /\ MoneyInv /\ [Next]_vars => MoneyInv'
<1> SUFFICES ASSUME TypeOK, TypeOK', TotalsAreGross, MoneyInv, [Next]_vars PROVE MoneyInv'
  OBVIOUS
<1>1. ASSUME NEW p \in Procs, NEW u \in Users, NEW amount \in Amounts, RequestRead(p, u, amount)
      PROVE  MoneyInv'
  <2>1. /\ Meet /\ wallet' = wallet /\ Affords(u, amount)
        /\ call' = [call EXCEPT ![p] = [op |-> "request", user |-> u, amount |-> amount]]
    BY <1>1 DEF RequestRead, Begin
  <2>2. ASSUME NEW v \in Users, v \notin rushed', NEW q \in Requesting(v)'
        PROVE  wallet'[v].balance >= Total(call'[q].amount)
    <3>1. CASE q = p
      BY <2>1, <2>2, <3>1 DEF Requesting, Affords, TypeOK
    <3>2. CASE q # p
      <4>1. q \in Requesting(v) /\ call'[q] = call[q]
        BY <2>1, <3>2 DEF Requesting, TypeOK
      <4>2. v \notin rushed
        BY <2>1, <2>2, MeetingIsRecorded
      <4> QED BY <2>1, <4>1, <4>2 DEF MoneyInv, OneRequestPerUser, Affords
    <3> QED BY <3>1, <3>2
  <2>3. OneRequestPerUser'
    BY <2>1, <2>2, MeetingIsRecorded DEF OneRequestPerUser, Affords
  <2>4. BalanceNeverNegative'
    BY <2>1, MeetingIsRecorded DEF MoneyInv, BalanceNeverNegative
  <2> QED BY <2>3, <2>4 DEF MoneyInv
<1>2. ASSUME Meet, wallet' = wallet, \A u : Requesting(u)' \subseteq Requesting(u),
             \A q \in Procs : call'[q].op = "request" => call'[q] = call[q]
      PROVE  MoneyInv'
  <2>1. \A u \in Users \ rushed' : u \notin rushed
    BY <1>2, MeetingIsRecorded
  <2>2. \A u : \A q \in Requesting(u)' : q \in Requesting(u) /\ call'[q] = call[q]
    BY <1>2 DEF Requesting
  <2>3. OneRequestPerUser'
    BY <1>2, <2>1, <2>2 DEF MoneyInv, OneRequestPerUser, Affords
  <2>4. BalanceNeverNegative'
    BY <1>2, <2>1 DEF MoneyInv, BalanceNeverNegative
  <2> QED BY <2>3, <2>4 DEF MoneyInv
<1>3. ASSUME NEW p \in Procs, NEW w \in Withdraws, ApproveRead(p, w) \/ RejectRead(p, w)
      PROVE  MoneyInv'
  <2>1. Meet /\ wallet' = wallet
    BY <1>3 DEF ApproveRead, RejectRead, Begin
  <2>2. \A q \in Procs : call'[q].op = "request" => call'[q] = call[q]
    BY <1>3 DEF ApproveRead, RejectRead, Begin, TypeOK
  <2>3. \A u : Requesting(u)' \subseteq Requesting(u)
    BY <2>2 DEF Requesting
  <2> QED BY <1>2, <2>1, <2>2, <2>3
<1>4. CASE FlagRead
  <2>1. Meet /\ UNCHANGED <<wallet, call>>
    BY <1>4 DEF FlagRead
  <2>2. \A u : Requesting(u)' = Requesting(u)
    BY <2>1 DEF Requesting
  <2> QED BY <1>2, <2>1, <2>2
<1>5. ASSUME UNCHANGED <<wallet, rushed>>,
             \A q \in Procs : call'[q] = Idle \/ call'[q] = call[q]
      PROVE  MoneyInv'
  <2>1. PICK nobody : nobody \notin Users
    BY NoSetContainsEverything
  <2>2. \A u \in Users \ rushed : wallet'[u].balance >= wallet[u].balance
    BY <1>5 DEF TypeOK, Wallet
  <2> QED BY <1>5, <2>1, <2>2, MoneyInvKeeps
<1>6. ASSUME NEW p \in Procs, Rollback(p) PROVE MoneyInv'
  BY <1>5, <1>6 DEF Rollback, End, TypeOK
<1>7. CASE FlagCommit \/ Crash \/ (\E w \in Withdraws : Age(w)) \/ UNCHANGED vars
  BY <1>5, <1>7 DEF FlagCommit, Crash, Age, vars
<1> QED BY <1>1, <1>3, <1>4, <1>6, <1>7, MoneyInvRequest, MoneyInvSettle
        DEF Next, Request, Approve, Reject

(* Only requests of one user that are in flight together can take more than  *)
(* there is: whatever else overlaps, fails or is cut short, the balance a    *)
(* request has compared with its total is still there when it is taken.      *)
THEOREM OnlyRushedOverdraw == Spec => []BalanceNeverNegative
<1>1. Init => TotalsAreGross /\ MoneyInv
  <2> SUFFICES ASSUME Init PROVE TotalsAreGross /\ MoneyInv
    OBVIOUS
  <2>1. \A u : Requesting(u) = {}
    BY DEF Init, Requesting, Idle
  <2>2. TotalsAreGross
    BY DEF Init, TotalsAreGross, Pending, Absent, Idle
  <2> QED BY <2>1, <2>2, WithdrawalsAssumption
          DEF Init, MoneyInv, OneRequestPerUser, BalanceNeverNegative
<1>2. MoneyInv => BalanceNeverNegative
  BY DEF MoneyInv
<1> QED BY <1>1, <1>2, TotalsStep, MoneyInvStep, TypeCorrect, PTL DEF Spec

-----------------------------------------------------------------------------
(* SerialInv is inductive when the handlers of a user do not overlap.        *)
LEMMA SerialInvStep ==
  ASSUME ~Overlap, TypeOK, SerialInv, [Next]_vars PROVE SerialInv'
<1> USE DEF SerialInv
<1> DEFINE Fewer == \A q \in Procs : call'[q] = Idle \/ call'[q] = call[q]
<1>1. ASSUME NEW p \in Procs, NEW c, call[p] = Idle, c # Idle,
             call' = [call EXCEPT ![p] = c], MayStart(UserOf(c)), UNCHANGED <<row, job>>
      PROVE  HandlersApart'
  <2>1. \A q \in Procs \ {p} : call[q] # Idle => UserOf(call[q]) # UserOf(c)
    BY <1>1 DEF MayStart, Busy
  <2>2. \A w \in job : row[w].user # UserOf(c)
    BY <1>1 DEF MayStart, Busy
  <2>3. call'[p] = c /\ \A q \in Procs \ {p} : call'[q] = call[q]
    BY <1>1 DEF TypeOK
  <2> QED BY <1>1, <2>1, <2>2, <2>3 DEF HandlersApart
<1>2. ASSUME Fewer, job' \subseteq job, \A w \in job : row'[w].user = row[w].user
      PROVE  HandlersApart'
  BY <1>2 DEF HandlersApart
<1>3. ASSUME NEW p \in Procs, NEW u \in Users, NEW amount \in Amounts,
             RequestRead(p, u, amount)
      PROVE  SerialInv'
  <2> DEFINE c == [op |-> "request", user |-> u, amount |-> amount]
  <2>1. /\ c # Idle /\ UserOf(c) = u /\ call[p] = Idle /\ MayStart(u)
        /\ call' = [call EXCEPT ![p] = c] /\ Affords(u, amount)
        /\ UNCHANGED <<wallet, row, job, payouts, returns>>
    BY <1>3 DEF RequestRead, Begin, Idle, UserOf
  <2>2. HandlersApart'
    BY <1>1, <2>1
  <2>3. ReadsAreFresh'
    BY <2>1 DEF ReadsAreFresh, Affords, Pending, TypeOK
  <2> QED BY <2>1, <2>2, <2>3 DEF HistoryMatchesStatus, Pending
<1>4. ASSUME NEW p \in Procs, NEW w \in Withdraws,
             ApproveRead(p, w) \/ RejectRead(p, w)
      PROVE  SerialInv'
  <2>1. PICK o \in {"approve", "reject"} :
          Begin(p, row[w].user, [op |-> o, id |-> w, wd |-> row[w]])
    BY <1>4 DEF ApproveRead, RejectRead
  <2> DEFINE c == [op |-> o, id |-> w, wd |-> row[w]]
  <2>2. /\ c # Idle /\ UserOf(c) = row[w].user /\ call[p] = Idle /\ MayStart(row[w].user)
        /\ call' = [call EXCEPT ![p] = c] /\ Pending(w)
        /\ UNCHANGED <<wallet, row, job, payouts, returns>>
    BY <1>4, <2>1 DEF ApproveRead, RejectRead, Begin, Idle, UserOf
  <2>3. HandlersApart'
    BY <1>1, <2>2
  <2>4. ReadsAreFresh'
    BY <2>2 DEF ReadsAreFresh, Affords, Pending, TypeOK
  <2> QED BY <2>2, <2>3, <2>4 DEF HistoryMatchesStatus, Pending
<1>5. ASSUME NEW p \in Procs, NEW w \in Withdraws, NEW payee \in BOOLEAN,
             RequestCommit(p, w, payee)
      PROVE  SerialInv'
  <2> DEFINE u == call[p].user
             total == Total(call[p].amount)
  <2>1. /\ u \in Users /\ call[p].amount \in Nat /\ UserOf(call[p]) = u /\ call[p] # Idle
        /\ Affords(u, call[p].amount)
    <3>1. call[p] \in [op : {"request"}, user : Users, amount : Amounts]
      BY <1>5 DEF RequestCommit, Call, Idle, TypeOK
    <3>2. call[p].op = "request" /\ u \in Users /\ call[p].amount \in Nat
      BY <3>1, WithdrawalsAssumption
    <3> QED BY <3>2 DEF UserOf, Idle, ReadsAreFresh
  <2>2. total \in Nat /\ total \in Int /\ -total \in Int /\ wallet[u].balance >= total
    BY <2>1, FeeIsNat DEF Affords
  <2>3. /\ wallet'[u].balance = wallet[u].balance - total
        /\ \A v \in Users \ {u} : wallet'[v] = wallet[v]
    <3>1. wallet' = Move(wallet, u, -total, total)
      BY <1>5 DEF RequestCommit
    <3>2. wallet[u].balance \in Int /\ wallet \in [Users -> Wallet]
      BY <2>1 DEF TypeOK, Wallet
    <3> HIDE DEF u, total
    <3>3. /\ wallet'[u].balance = wallet[u].balance + (-total)
          /\ \A v \in Users \ {u} : wallet'[v] = wallet[v]
      <4> DEFINE less == -total
      <4>1. less \in Int /\ wallet' = Move(wallet, u, less, total)
        BY <2>2, <3>1
      <4> HIDE DEF less
      <4>2. /\ Move(wallet, u, less, total)[u].balance = wallet[u].balance + less
            /\ \A v \in Users \ {u} : Move(wallet, u, less, total)[v] = wallet[v]
        BY <2>1, <2>2, <3>2, <4>1, MoveType
      <4> QED BY <4>1, <4>2 DEF less
    <3> QED BY <2>2, <3>2, <3>3
  <2>4. /\ row[w] = Absent
        /\ row'[w].status = "PENDING" /\ row'[w].total = Total(row'[w].amount)
        /\ \A v \in Withdraws \ {w} : row'[v] = row[v]
        /\ UNCHANGED <<job, payouts, returns>>
    BY <1>5 DEF RequestCommit, TypeOK
  <2>5. Fewer /\ \A q \in Procs : call'[q] # Idle => q # p
    BY <1>5 DEF RequestCommit, End, TypeOK
  <2>6. HandlersApart'
    BY <1>2, <2>4, <2>5 DEF TypeOK
  <2>7. ReadsAreFresh'
    <3>1. ASSUME NEW q \in Procs, call'[q].op = "request"
          PROVE  wallet'[call'[q].user].balance >= Total(call'[q].amount)
      <4>1. /\ call'[q] = call[q] /\ call[q] # Idle /\ q # p
            /\ call[q].user \in Users /\ UserOf(call[q]) = call[q].user
        BY <2>5, <3>1 DEF Idle, TypeOK, Call, UserOf
      <4>2. call[q].user # u
        BY <2>1, <4>1 DEF HandlersApart
      <4> HIDE DEF u, total
      <4> QED BY <2>3, <3>1, <4>1, <4>2 DEF Affords, ReadsAreFresh
    <3>2. ASSUME NEW q \in Procs, call'[q].op \in {"approve", "reject"}
          PROVE  call'[q].wd = row'[call'[q].id] /\ row'[call'[q].id].status = "PENDING"
      <4>1. call'[q] = call[q] /\ call[q].id \in Withdraws /\ row[call[q].id] # Absent
        BY <2>5, <3>2 DEF Idle, TypeOK, Call
      <4> QED BY <2>4, <3>2, <4>1 DEF ReadsAreFresh, Pending
    <3>3. \A v \in job' : row'[v].status = "PENDING"
      BY <2>4 DEF ReadsAreFresh, Pending, TypeOK
    <3> QED BY <3>1, <3>2, <3>3 DEF ReadsAreFresh, Affords, Pending
  <2>8. HistoryMatchesStatus'
    <3>1. payouts[w] = 0 /\ returns[w] = 0
      BY <2>4 DEF HistoryMatchesStatus, Absent
    <3> QED BY <2>4, <3>1 DEF HistoryMatchesStatus, Pending
  <2> QED BY <2>6, <2>7, <2>8
(* A step that changes the row of one withdrawal whose handler is in flight. *)
<1>6. ASSUME NEW p \in Procs, call[p].op \in {"approve", "reject"},
             Fewer, call'[p] = Idle, job' = job,
             NEW w, w = call[p].id, NEW u, u = row[w].user,
             row'[w].user = u, row'[w].status \in {"APPROVED", "SUSPENDED"},
             \A v \in Withdraws \ {w} : /\ row'[v] = row[v]
                                        /\ payouts'[v] = payouts[v]
                                        /\ returns'[v] = returns[v],
             payouts'[w] = IF row'[w].status = "APPROVED" THEN 1 ELSE 0,
             returns'[w] = IF row'[w].status = "APPROVED" THEN 0 ELSE 1,
             wallet'[u].balance >= wallet[u].balance,
             \A v \in Users \ {u} : wallet'[v] = wallet[v]
      PROVE  SerialInv'
  <2>1. /\ w \in Withdraws /\ row[w] \in Withdraw /\ u \in Users
        /\ call[p] # Idle /\ UserOf(call[p]) = u
    <3>1. w \in Withdraws /\ row[w] # Absent
      BY <1>6 DEF TypeOK, Call, Idle
    <3>2. row[w] \in Withdraw
      BY <3>1 DEF TypeOK
    <3>3. call[p].wd = row[w] /\ call[p] # Idle /\ call[p].op # "request"
      BY <1>6 DEF ReadsAreFresh, Idle
    <3> QED BY <1>6, <3>1, <3>2, <3>3 DEF UserOf, Withdraw
  <2>2. HandlersApart'
    <3>1. \A v \in job : row'[v].user = row[v].user
      BY <1>6 DEF TypeOK
    <3> QED BY <1>2, <1>6, <3>1
  <2>3. \A q \in Procs : call'[q] # Idle =>
           q # p /\ call'[q] = call[q] /\ UserOf(call[q]) # u
    BY <1>6, <2>1 DEF HandlersApart
  <2>4. ReadsAreFresh'
    <3>1. ASSUME NEW q \in Procs, call'[q].op = "request"
          PROVE  wallet'[call'[q].user].balance >= Total(call'[q].amount)
      <4>1. call'[q] = call[q] /\ call[q].user # u /\ call[q].user \in Users
        BY <2>3, <3>1 DEF Idle, UserOf, TypeOK, Call
      <4> QED BY <1>6, <3>1, <4>1 DEF Affords, ReadsAreFresh
    <3>2. ASSUME NEW q \in Procs, call'[q].op \in {"approve", "reject"}
          PROVE  call'[q].wd = row'[call'[q].id] /\ row'[call'[q].id].status = "PENDING"
      <4>1. call'[q] = call[q] /\ UserOf(call[q]) # u
        BY <2>3, <3>2 DEF Idle
      <4>2. call[q].wd = row[call[q].id] /\ row[call[q].id].status = "PENDING"
        BY <3>2, <4>1 DEF ReadsAreFresh, Pending
      <4>3. call[q].id \in Withdraws /\ call[q].id # w
        BY <1>6, <3>2, <4>1, <4>2 DEF UserOf, TypeOK, Call, Idle
      <4> QED BY <1>6, <4>1, <4>2, <4>3
    <3>3. \A v \in job' : row'[v].status = "PENDING"
      <4>1. \A v \in job : v # w /\ row[v].status = "PENDING"
        BY <1>6, <2>1 DEF HandlersApart, ReadsAreFresh, Pending
      <4> QED BY <1>6, <4>1 DEF TypeOK
    <3> QED BY <3>1, <3>2, <3>3 DEF ReadsAreFresh, Affords, Pending
  <2>5. HistoryMatchesStatus'
    BY <1>6 DEF HistoryMatchesStatus, Pending
  <2> QED BY <2>2, <2>4, <2>5
<1>7. ASSUME NEW p \in Procs, ApproveCommit(p)
      PROVE  SerialInv'
  <2> DEFINE w == call[p].id
             wd == call[p].wd
  <2>1. /\ call[p].op = "approve" /\ w \in Withdraws /\ row[w] \in Withdraw /\ wd = row[w]
        /\ row[w].user \in Users /\ row[w].amount \in Nat /\ row[w].status = "PENDING"
    <3>1. call[p].op = "approve" /\ w \in Withdraws /\ row[w] # Absent
      BY <1>7 DEF ApproveCommit, TypeOK, Call, Idle
    <3>2. row[w] \in Withdraw
      BY <3>1 DEF TypeOK
    <3> QED BY <3>1, <3>2, WithdrawalsAssumption DEF ReadsAreFresh, Pending, Withdraw
  <2>2. /\ row'[w] = [row[w] EXCEPT !.status = "APPROVED", !.fee = Fee(wd.amount),
                                    !.total = Net(wd.amount)]
        /\ \A v \in Withdraws \ {w} : row'[v] = row[v]
    BY <1>7, <2>1 DEF ApproveCommit, TypeOK
  <2>3. row'[w].status = "APPROVED" /\ row'[w].user = row[w].user
    BY <2>1, <2>2 DEF Withdraw
  <2>4. payouts'[w] = payouts[w] + 1 /\ \A v \in Withdraws \ {w} : payouts'[v] = payouts[v]
    BY <1>7, <2>1 DEF ApproveCommit, TypeOK
  <2>5. returns' = returns /\ job' = job
    BY <1>7 DEF ApproveCommit
  <2>6. payouts[w] = 0 /\ returns[w] = 0
    BY <2>1 DEF HistoryMatchesStatus
  <2>7. call'[p] = Idle /\ Fewer
    BY <1>7 DEF ApproveCommit, End, TypeOK
  <2>8. /\ wallet'[row[w].user].balance = wallet[row[w].user].balance
        /\ \A v \in Users \ {row[w].user} : wallet'[v] = wallet[v]
    <3>1. wallet' = Move(wallet, wd.user, 0, -wd.amount)
      BY <1>7 DEF ApproveCommit
    <3>2. -row[w].amount \in Int /\ wallet[row[w].user].balance \in Int
      BY <2>1 DEF TypeOK, Wallet
    <3>3. wallet' = Move(wallet, row[w].user, 0, -row[w].amount) /\ wallet \in [Users -> Wallet]
      BY <2>1, <3>1 DEF TypeOK
    <3>4. /\ wallet'[row[w].user].balance = wallet[row[w].user].balance + 0
          /\ \A v \in Users \ {row[w].user} : wallet'[v] = wallet[v]
      BY <2>1, <3>2, <3>3, MoveType
    <3> QED BY <3>2, <3>4
  <2>9. wallet'[row[w].user].balance >= wallet[row[w].user].balance
    BY <2>1, <2>8 DEF TypeOK, Wallet
  <2>10. /\ payouts'[w] = IF row'[w].status = "APPROVED" THEN 1 ELSE 0
         /\ returns'[w] = IF row'[w].status = "APPROVED" THEN 0 ELSE 1
         /\ row'[w].status \in {"APPROVED", "SUSPENDED"}
         /\ \A v \in Withdraws \ {w} : /\ row'[v] = row[v]
                                        /\ payouts'[v] = payouts[v]
                                        /\ returns'[v] = returns[v]
    BY <2>1, <2>2, <2>3, <2>4, <2>5, <2>6
  <2>11. call[p].op \in {"approve", "reject"}
    BY <2>1
  <2> QED BY <1>6, <2>3, <2>5, <2>7, <2>8, <2>9, <2>10, <2>11
<1>8. ASSUME NEW p \in Procs, RejectCommit(p)
      PROVE  SerialInv'
  <2> DEFINE w == call[p].id
             wd == call[p].wd
  <2>1. /\ call[p].op = "reject" /\ w \in Withdraws /\ row[w] \in Withdraw /\ wd = row[w]
        /\ row[w].user \in Users /\ row[w].status = "PENDING"
        /\ row[w].total \in Nat
    <3>1. call[p].op = "reject" /\ w \in Withdraws /\ row[w] # Absent
      BY <1>8 DEF RejectCommit, TypeOK, Call, Idle
    <3>2. row[w] \in Withdraw
      BY <3>1 DEF TypeOK
    <3>3. wd = row[w] /\ Pending(w) /\ row[w].total = Total(row[w].amount)
      BY <3>1 DEF ReadsAreFresh, HistoryMatchesStatus
    <3>4. row[w].amount \in Nat
      BY <3>2, WithdrawalsAssumption DEF Withdraw
    <3> QED BY <3>1, <3>2, <3>3, <3>4, FeeIsNat DEF Pending, Withdraw
  <2>2. /\ row'[w] = [row[w] EXCEPT !.status = "SUSPENDED"]
        /\ \A v \in Withdraws \ {w} : row'[v] = row[v]
    BY <1>8, <2>1 DEF RejectCommit, TypeOK
  <2>3. row'[w].status = "SUSPENDED" /\ row'[w].user = row[w].user
    BY <2>1, <2>2 DEF Withdraw
  <2>4. returns'[w] = returns[w] + 1 /\ \A v \in Withdraws \ {w} : returns'[v] = returns[v]
    BY <1>8, <2>1 DEF RejectCommit, TypeOK
  <2>5. payouts' = payouts /\ job' = job
    BY <1>8 DEF RejectCommit
  <2>6. payouts[w] = 0 /\ returns[w] = 0
    BY <2>1 DEF HistoryMatchesStatus
  <2>7. call'[p] = Idle /\ Fewer
    BY <1>8 DEF RejectCommit, End, TypeOK
  <2>8. /\ wallet'[row[w].user].balance = wallet[row[w].user].balance + row[w].total
        /\ \A v \in Users \ {row[w].user} : wallet'[v] = wallet[v]
    <3>1. wallet' = Move(wallet, row[w].user, row[w].total, -row[w].total)
      BY <1>8, <2>1 DEF RejectCommit, Refund
    <3>2. -row[w].total \in Int /\ row[w].total \in Int /\ wallet \in [Users -> Wallet]
      BY <2>1 DEF TypeOK
    <3> QED BY <2>1, <3>1, <3>2, MoveType
  <2>9. wallet'[row[w].user].balance >= wallet[row[w].user].balance
    BY <2>1, <2>8 DEF TypeOK, Wallet
  <2>10. /\ payouts'[w] = IF row'[w].status = "APPROVED" THEN 1 ELSE 0
         /\ returns'[w] = IF row'[w].status = "APPROVED" THEN 0 ELSE 1
         /\ row'[w].status \in {"APPROVED", "SUSPENDED"}
         /\ \A v \in Withdraws \ {w} : /\ row'[v] = row[v]
                                        /\ payouts'[v] = payouts[v]
                                        /\ returns'[v] = returns[v]
    BY <2>1, <2>2, <2>3, <2>4, <2>5, <2>6
  <2>11. call[p].op \in {"approve", "reject"}
    BY <2>1
  <2> QED BY <1>6, <2>3, <2>5, <2>7, <2>8, <2>9, <2>10, <2>11
<1>9. CASE FlagRead
  <2>1. HandlersApart'
    <3> SUFFICES ASSUME NEW p \in Procs, call'[p] # Idle
                 PROVE  /\ \A q \in Procs \ {p} :
                             call'[q] # Idle => UserOf(call'[q]) # UserOf(call'[p])
                        /\ \A w \in job' : row'[w].user # UserOf(call'[p])
      BY DEF HandlersApart
    <3>1. call' = call /\ row' = row /\ job' = Overdue
      BY <1>9 DEF FlagRead
    <3>2. \A w \in Overdue : ~Busy(row[w].user)
      BY <1>9 DEF FlagRead, MayStart
    <3> QED BY <3>1, <3>2 DEF Busy, HandlersApart
  <2>2. ReadsAreFresh'
    BY <1>9 DEF FlagRead, Overdue, ReadsAreFresh, Affords, Pending
  <2> QED BY <1>9, <2>1, <2>2 DEF FlagRead, HistoryMatchesStatus, Pending
<1>10. CASE FlagCommit
  <2>1. /\ \A w \in Withdraws \ job : row'[w] = row[w]
        /\ \A w \in job : row[w] \in Withdraw /\ row'[w] = [row[w] EXCEPT !.status = "SUSPENDED"]
        /\ job' = {}
        /\ UNCHANGED <<wallet, call, payouts, returns>>
    BY <1>10 DEF FlagCommit, FlaggedStatus, TypeOK
  <2>2. \A w \in job : row'[w].status = "SUSPENDED" /\ row'[w].user = row[w].user
    BY <2>1 DEF Withdraw
  <2>3. HandlersApart'
    BY <1>2, <2>1, <2>2
  <2>4. ReadsAreFresh'
    <3>1. ASSUME NEW q \in Procs, call[q].op \in {"approve", "reject"}
          PROVE  row'[call[q].id] = row[call[q].id]
      <4>1. call[q].wd = row[call[q].id] /\ call[q] # Idle /\ call[q].id \in Withdraws
        BY <3>1 DEF ReadsAreFresh, Idle, TypeOK, Call
      <4>2. call[q].id \notin job
        BY <3>1, <4>1 DEF HandlersApart, UserOf
      <4> QED BY <2>1, <4>1, <4>2
    <3> QED BY <2>1, <3>1 DEF ReadsAreFresh, Affords, Pending
  <2>5. HistoryMatchesStatus'
    <3>1. \A w \in job : payouts[w] = 0 /\ returns[w] = 0
      BY DEF HistoryMatchesStatus, ReadsAreFresh, Pending, TypeOK
    <3> QED BY <2>1, <2>2, <3>1 DEF HistoryMatchesStatus, Pending
  <2> QED BY <2>1, <2>3, <2>4, <2>5
<1>11. ASSUME Fewer, job' \subseteq job, UNCHANGED <<wallet, row, payouts, returns>>
       PROVE  SerialInv'
  <2>1. HandlersApart'
    BY <1>2, <1>11
  <2>2. ReadsAreFresh'
    BY <1>11 DEF ReadsAreFresh, Affords, Pending, Idle
  <2> QED BY <1>11, <2>1, <2>2 DEF HistoryMatchesStatus, Pending
<1>12. ASSUME NEW p \in Procs, Rollback(p)
       PROVE  SerialInv'
  BY <1>11, <1>12 DEF Rollback, End, TypeOK
<1>13. CASE Crash \/ (\E w \in Withdraws : Age(w)) \/ UNCHANGED vars
  BY <1>11, <1>13 DEF Crash, Age, vars
<1> QED BY <1>3, <1>4, <1>5, <1>7, <1>8, <1>9, <1>10, <1>12, <1>13
        DEF Next, Request, Approve, Reject

LEMMA SerialInvInit == Init => SerialInv
BY WithdrawalsAssumption
DEF Init, SerialInv, HandlersApart, ReadsAreFresh, HistoryMatchesStatus, Idle, Absent, Pending

(* When the handlers of a user do not overlap, what they have read stays so. *)
LEMMA SerialInvHolds == ASSUME ~Overlap PROVE Spec => []SerialInv
<1>1. TypeOK /\ SerialInv /\ [Next]_vars => SerialInv'
  BY SerialInvStep
<1> QED BY <1>1, SerialInvInit, TypeCorrect, PTL DEF Spec

-----------------------------------------------------------------------------
(* The claim a row stands for, case by case.                                 *)
LEMMA ClaimOfRow ==
  ASSUME NEW w \in Withdraws, row[w] \in Withdraw
  PROVE  /\ Pending(w) => Claim(w) = [phase |-> "open", user |-> row[w].user,
                                      sum |-> Total(row[w].amount)]
         /\ row[w].status = "APPROVED" =>
              Claim(w) = [phase |-> "paid", user |-> row[w].user, sum |-> Total(row[w].amount)]
         /\ row[w].status = "SUSPENDED" /\ returns[w] > 0 =>
              Claim(w) = [phase |-> "returned", user |-> row[w].user,
                          sum |-> Total(row[w].amount)]
         /\ row[w].status = "SUSPENDED" /\ ~(returns[w] > 0) =>
              Claim(w) = [phase |-> "frozen", user |-> row[w].user,
                          sum |-> Total(row[w].amount)]
<1>1. row[w] # Absent
  BY DEF Withdraw, Absent
<1> QED BY <1>1 DEF Claim, Pending

(* A claim depends on its row and on how often the row was returned only.    *)
LEMMA ClaimUnchanged ==
  ASSUME NEW w \in Withdraws, row'[w] = row[w], returns'[w] = returns[w]
  PROVE  Claim(w)' = Claim(w)
BY DEF Claim

(* The withdrawal service implements WithdrawalContract when the handlers of *)
(* a user do not overlap: each transaction is one step of the contract, and  *)
(* every other step, failures included, leaves the contract where it is.     *)
THEOREM Refinement == ASSUME ~Overlap PROVE Spec => ImplementsContract
<1> DEFINE available == [u \in Users |-> wallet[u].balance]
           claim == [w \in Withdraws |-> Claim(w)]
<1>1. Init => Contract!Init
  BY WithdrawalsAssumption DEF Init, Contract!Init, Contract!NoClaim, Claim, Absent
<1>2. ASSUME TypeOK, TypeOK', SerialInv, SerialInv', [Next]_vars
      PROVE  [Contract!Next]_<<available, claim>>
  <2> USE <1>2
  <2>1. ASSUME UNCHANGED <<wallet, row, returns>>
        PROVE  UNCHANGED <<available, claim>>
    BY <2>1 DEF Claim
  <2>2. ASSUME NEW p \in Procs, NEW w \in Withdraws, NEW payee \in BOOLEAN,
               RequestCommit(p, w, payee)
        PROVE  Contract!Next
    <3> DEFINE u == call[p].user
               amount == call[p].amount
               total == Total(amount)
    <3>1. call[p] \in [op : {"request"}, user : Users, amount : Amounts]
      BY <2>2 DEF RequestCommit, Call, Idle, TypeOK
    <3>2. u \in Users /\ amount \in Amounts /\ amount \in Nat /\ call[p].op = "request"
      BY <3>1, WithdrawalsAssumption
    <3>3. total \in {Total(a) : a \in Amounts} /\ total \in Int /\ -total \in Int
      BY <3>2, FeeIsNat
    <3>4. wallet[u].balance >= total
      BY <3>2 DEF SerialInv, ReadsAreFresh, Affords
    <3>5. /\ row[w] = Absent /\ row'[w].status = "PENDING" /\ row'[w].user = u
          /\ row'[w].amount = amount /\ row'[w] # Absent
          /\ \A v \in Withdraws \ {w} : row'[v] = row[v] /\ returns'[v] = returns[v]
          /\ wallet' = Move(wallet, u, -total, total)
      BY <2>2 DEF RequestCommit, TypeOK, Absent
    <3>6. row'[w] \in Withdraw
      BY <3>5 DEF TypeOK
    <3>7. claim[w] = Contract!NoClaim
      BY <3>5 DEF Claim, Contract!NoClaim
    <3>8. claim' = [claim EXCEPT ![w] = [phase |-> "open", user |-> u, sum |-> total]]
      <4>1. Claim(w)' = [phase |-> "open", user |-> u, sum |-> total]
        BY <3>5 DEF Claim
      <4>2. \A v \in Withdraws \ {w} : Claim(v)' = Claim(v)
        BY <3>5, ClaimUnchanged
      <4> QED BY <4>1, <4>2
    <3>9. available' = [available EXCEPT ![u] = @ - total]
      <4> HIDE DEF u, amount, total
      <4>1. wallet \in [Users -> Wallet] /\ wallet[u].balance \in Int
        BY <3>2 DEF TypeOK, Wallet
      <4>2. /\ wallet'[u].balance = wallet[u].balance + (-total)
            /\ \A v \in Users \ {u} : wallet'[v] = wallet[v]
        BY <3>2, <3>3, <3>5, <4>1, MoveType
      <4>3. wallet'[u].balance = wallet[u].balance - total
        BY <3>3, <4>1, <4>2
      <4> QED BY <3>2, <4>2, <4>3
    <3>10. PICK v \in Users, sum \in {Total(a) : a \in Amounts} : v = u /\ sum = total
      BY <3>2, <3>3
    <3>11. Contract!Open(w, v, sum)
      BY <3>2, <3>4, <3>7, <3>8, <3>9, <3>10 DEF Contract!Open
    <3> QED BY <3>11 DEF Contract!Next
  <2>3. ASSUME NEW p \in Procs, ApproveCommit(p)
        PROVE  Contract!Next
    <3> DEFINE w == call[p].id
               wd == call[p].wd
    <3>1. /\ w \in Withdraws /\ row[w] \in Withdraw /\ Pending(w) /\ wd = row[w]
          /\ wd.user \in Users /\ wd.amount \in Nat
      <4>1. w \in Withdraws /\ row[w] # Absent /\ call[p].op = "approve"
        BY <2>3 DEF ApproveCommit, TypeOK, Call, Idle
      <4>2. row[w] \in Withdraw
        BY <4>1 DEF TypeOK
      <4> QED BY <4>1, <4>2, WithdrawalsAssumption
              DEF SerialInv, ReadsAreFresh, Withdraw
    <3>2. /\ row'[w] = [row[w] EXCEPT !.status = "APPROVED", !.fee = Fee(wd.amount),
                                      !.total = Net(wd.amount)]
          /\ \A v \in Withdraws \ {w} : row'[v] = row[v]
          /\ returns' = returns
      BY <2>3, <3>1 DEF ApproveCommit, TypeOK
    <3>3. /\ row'[w].status = "APPROVED" /\ row'[w].user = row[w].user
          /\ row'[w].amount = row[w].amount /\ row'[w] # Absent
      BY <3>1, <3>2 DEF Withdraw, Absent
    <3>4. available' = available
      <4>1. wallet' = Move(wallet, wd.user, 0, -wd.amount)
        BY <2>3 DEF ApproveCommit
      <4> HIDE DEF wd
      <4>2. /\ -wd.amount \in Int /\ wallet \in [Users -> Wallet]
            /\ wallet[wd.user].balance \in Int
        BY <3>1 DEF TypeOK, Wallet
      <4>3. /\ wallet'[wd.user].balance = wallet[wd.user].balance + 0
            /\ \A v \in Users \ {wd.user} : wallet'[v] = wallet[v]
        BY <3>1, <4>1, <4>2, MoveType
      <4> QED BY <4>2, <4>3
    <3>5. claim' = [claim EXCEPT ![w].phase = "paid"] /\ claim[w].phase = "open"
      <4>1. Claim(w) = [phase |-> "open", user |-> row[w].user, sum |-> Total(row[w].amount)]
        BY <3>1, ClaimOfRow
      <4>2. claim'[w] = [phase |-> "paid", user |-> row[w].user, sum |-> Total(row[w].amount)]
        BY <3>1, <3>3 DEF Claim
      <4>3. \A v \in Withdraws \ {w} : Claim(v)' = Claim(v)
        BY <3>2, ClaimUnchanged
      <4>4. claim[w] = [phase |-> "open", user |-> row[w].user, sum |-> Total(row[w].amount)]
        BY <3>1, <4>1
      <4>5. [claim[w] EXCEPT !.phase = "paid"] = claim'[w]
        BY <4>2, <4>4
      <4>6. \A v \in Withdraws \ {w} : claim'[v] = claim[v]
        BY <4>3
      <4>7. claim' = [v \in Withdraws |-> claim'[v]] /\ claim = [v \in Withdraws |-> claim[v]]
        OBVIOUS
      <4> HIDE DEF claim, w
      <4> QED BY <3>1, <4>4, <4>5, <4>6, <4>7
    <3>6. Contract!Pay(w)
      BY <3>4, <3>5 DEF Contract!Pay
    <3> QED BY <3>1, <3>6 DEF Contract!Next
  <2>4. ASSUME NEW p \in Procs, RejectCommit(p)
        PROVE  Contract!Next
    <3> DEFINE w == call[p].id
               wd == call[p].wd
    <3>1. /\ w \in Withdraws /\ row[w] \in Withdraw /\ Pending(w) /\ wd = row[w]
          /\ wd.user \in Users /\ wd.total = Total(wd.amount) /\ wd.total \in Nat
          /\ returns[w] = 0
      <4>1. w \in Withdraws /\ row[w] # Absent /\ call[p].op = "reject"
        BY <2>4 DEF RejectCommit, TypeOK, Call, Idle
      <4>2. row[w] \in Withdraw
        BY <4>1 DEF TypeOK
      <4>3. wd = row[w] /\ Pending(w) /\ row[w].total = Total(row[w].amount)
        BY <4>1 DEF SerialInv, ReadsAreFresh, HistoryMatchesStatus
      <4>4. row[w].amount \in Nat /\ row[w].user \in Users
        BY <4>2, WithdrawalsAssumption DEF Withdraw
      <4>5. returns[w] = 0
        BY <4>1, <4>3 DEF SerialInv, HistoryMatchesStatus, Pending
      <4> QED BY <4>1, <4>2, <4>3, <4>4, <4>5, FeeIsNat
    <3>2. /\ row'[w] = [row[w] EXCEPT !.status = "SUSPENDED"]
          /\ \A v \in Withdraws \ {w} : row'[v] = row[v] /\ returns'[v] = returns[v]
          /\ returns'[w] = returns[w] + 1
      BY <2>4, <3>1 DEF RejectCommit, TypeOK
    <3>3. /\ row'[w].status = "SUSPENDED" /\ row'[w].user = row[w].user
          /\ row'[w].amount = row[w].amount /\ row'[w] # Absent /\ returns'[w] > 0
      BY <3>1, <3>2 DEF Withdraw, Absent
    <3>4. claim' = [claim EXCEPT ![w].phase = "returned"] /\ claim[w].phase = "open"
          /\ claim[w].user = wd.user /\ claim[w].sum = wd.total
      <4>1. Claim(w) = [phase |-> "open", user |-> row[w].user, sum |-> Total(row[w].amount)]
        BY <3>1, ClaimOfRow
      <4>2. claim'[w] = [phase |-> "returned", user |-> row[w].user,
                         sum |-> Total(row[w].amount)]
        BY <3>1, <3>3 DEF Claim
      <4>3. \A v \in Withdraws \ {w} : Claim(v)' = Claim(v)
        BY <3>2, ClaimUnchanged
      <4>4. claim[w] = [phase |-> "open", user |-> row[w].user, sum |-> Total(row[w].amount)]
        BY <3>1, <4>1
      <4>5. [claim[w] EXCEPT !.phase = "returned"] = claim'[w]
        BY <4>2, <4>4
      <4>6. \A v \in Withdraws \ {w} : claim'[v] = claim[v]
        BY <4>3
      <4>7. claim' = [v \in Withdraws |-> claim'[v]] /\ claim = [v \in Withdraws |-> claim[v]]
        OBVIOUS
      <4> HIDE DEF claim, w
      <4> QED BY <3>1, <4>4, <4>5, <4>6, <4>7
    <3>5. available' = [available EXCEPT ![wd.user] = @ + wd.total]
      <4>1. wallet' = Move(wallet, wd.user, wd.total, -wd.total)
        BY <2>4 DEF RejectCommit, Refund
      <4> HIDE DEF wd
      <4>2. /\ -wd.total \in Int /\ wd.total \in Int /\ wallet \in [Users -> Wallet]
            /\ wallet[wd.user].balance \in Int
        BY <3>1 DEF TypeOK, Wallet
      <4>3. /\ wallet'[wd.user].balance = wallet[wd.user].balance + wd.total
            /\ \A v \in Users \ {wd.user} : wallet'[v] = wallet[v]
        <5>1. wd.user \in Users
          BY <3>1
        <5> QED BY <4>1, <4>2, <5>1, MoveType
      <4> QED BY <3>1, <4>2, <4>3
    <3>6. PICK c \in Withdraws : c = w
      BY <3>1
    <3>7. Contract!Return(c)
      BY <3>4, <3>5, <3>6 DEF Contract!Return
    <3> QED BY <3>7 DEF Contract!Next
  <2>5. CASE FlagCommit
    <3>1. /\ \A w \in Withdraws \ job : row'[w] = row[w]
          /\ \A w \in job : row[w] \in Withdraw /\ row'[w] = [row[w] EXCEPT !.status = "SUSPENDED"]
          /\ UNCHANGED <<wallet, returns>>
          /\ job \subseteq Withdraws
      BY <2>5 DEF FlagCommit, FlaggedStatus, TypeOK
    <3>2. ASSUME NEW w \in job
          PROVE  claim[w].phase = "open" /\ claim'[w] = [claim[w] EXCEPT !.phase = "frozen"]
      <4>1. /\ w \in Withdraws /\ Pending(w) /\ ~(returns[w] > 0)
            /\ ~(returns'[w] > 0)
        BY <3>1 DEF SerialInv, ReadsAreFresh, HistoryMatchesStatus, Pending, TypeOK
      <4>2. /\ row'[w].status = "SUSPENDED" /\ row'[w].user = row[w].user
            /\ row'[w].amount = row[w].amount /\ row'[w] # Absent
        BY <3>1 DEF Withdraw, Absent
      <4>3. Claim(w) = [phase |-> "open", user |-> row[w].user, sum |-> Total(row[w].amount)]
        BY <3>1, <4>1, ClaimOfRow
      <4>4. Claim(w)' = [phase |-> "frozen", user |-> row[w].user,
                         sum |-> Total(row[w].amount)]
        BY <4>1, <4>2 DEF Claim
      <4> QED BY <4>1, <4>3, <4>4
    <3>3. \A w \in Withdraws \ job : Claim(w)' = Claim(w)
      BY <3>1, ClaimUnchanged
    <3>4. claim' = [c \in Withdraws |-> IF c \in job THEN [claim[c] EXCEPT !.phase = "frozen"]
                                        ELSE claim[c]]
      BY <3>1, <3>2, <3>3
    <3>5. available' = available
      BY <3>1
    <3>6. Contract!Freeze(job)
      BY <3>2, <3>4, <3>5 DEF Contract!Freeze
    <3> QED BY <3>1, <3>6 DEF Contract!Next
  <2> QED
    BY <2>1, <2>2, <2>3, <2>4, <2>5
    DEF Next, vars, Request, Approve, Reject, RequestRead, ApproveRead, RejectRead, Begin,
        Rollback, FlagRead, Crash, Age
<1> QED BY <1>1, <1>2, SerialInvHolds, TypeCorrect, PTL DEF Spec, ImplementsContract, Contract!Spec

-----------------------------------------------------------------------------
(* What rows hold of the reserved money, as a function, so that it can be   *)
(* summed up.                                                               *)
Holds == [w \in Withdraws |-> Held(w)]

LEMMA HeldOf ==
  ASSUME TypeOK, HistoryMatchesStatus, NEW w \in Withdraws, row[w] # Absent
  PROVE  /\ row[w] \in Withdraw /\ row[w].amount \in Nat /\ Held(w) \in Int
         /\ row[w].status = "PENDING" => /\ Held(w) = row[w].total
                                         /\ row[w].total = row[w].amount + Fee(row[w].amount)
                                         /\ returns[w] = 0
<1>1. row[w] \in Withdraw
  BY DEF TypeOK
<1>2. /\ row[w].amount \in Nat /\ row[w].fee \in Int /\ row[w].total \in Int
      /\ row[w].status \in {"PENDING", "APPROVED", "SUSPENDED"}
  BY <1>1, WithdrawalsAssumption DEF Withdraw
<1>3. Held(w) \in Int /\ (row[w].status = "PENDING" => Held(w) = row[w].total)
  BY <1>2 DEF Held
<1> QED BY <1>1, <1>2, <1>3 DEF HistoryMatchesStatus, Pending, Total

LEMMA RowsAreFinite ==
  ASSUME TypeOK, HistoryMatchesStatus, NEW u
  PROVE  /\ IsFiniteSet(RowsOf(u)) /\ RowsOf(u) \subseteq Withdraws
         /\ \A w \in RowsOf(u) : /\ row[w] # Absent /\ row[w].user = u
                                 /\ Holds[w] = Held(w) /\ Holds[w] \in Int
<1>1. RowsOf(u) \subseteq Withdraws
  BY DEF RowsOf
<1>2. IsFiniteSet(RowsOf(u))
  BY <1>1, WithdrawalsAssumption, FS_Subset
<1>3. \A w \in RowsOf(u) : w \in Withdraws /\ row[w] # Absent /\ row[w].user = u
  BY DEF RowsOf
<1> QED BY <1>1, <1>2, <1>3, HeldOf DEF Holds

ReservedFits(u) == wallet[u].reserved = SumFunctionOnSet(Holds, RowsOf(u))

(* A step that changes what one row holds moves its user's reserved money   *)
(* by as much.                                                              *)
LEMMA OneRowHolds ==
  ASSUME TypeOK, HistoryMatchesStatus, TypeOK', NEW u \in Users, NEW w \in Withdraws,
         row[w] # Absent, row[w].user = u, ReservedIsExplained,
         Holds'[w] \in Int, NEW b \in Int, NEW r \in Int, wallet' = Move(wallet, u, b, r),
         r = Holds'[w] - Holds[w],
         \A v : RowsOf(v)' = RowsOf(v),
         \A v \in Withdraws : v # w => Holds'[v] = Holds[v]
  PROVE  ReservedIsExplained'
<1>1. /\ \A v \in Withdraws : v # w => Holds'[v] = Holds[v]
      /\ Holds[w] = Held(w)
  BY DEF Holds
<1>2. wallet \in [Users -> Wallet]
  BY DEF TypeOK
<1>3. ASSUME NEW v \in Users
      PROVE  ReservedFits(v)'
  <2>1. /\ IsFiniteSet(RowsOf(v)) /\ RowsOf(v) \subseteq Withdraws
        /\ \A x \in RowsOf(v) : row[x].user = v /\ Holds[x] \in Int
    BY RowsAreFinite
  <2>2. \A x \in RowsOf(v) : Holds'[x] \in Int
    BY <1>1, <2>1
  <2>3. ReservedFits(v)
    BY DEF ReservedIsExplained, ReservedFits, Holds
  <2>4. CASE v = u
    <3>1. w \in RowsOf(v)
      BY <2>4 DEF RowsOf
    <3>2. SumFunctionOnSet(Holds', RowsOf(v)) = SumFunctionOnSet(Holds, RowsOf(v)) - Holds[w] + Holds'[w]
      <4>1. \A y \in RowsOf(v) \ {w} : Holds'[y] = Holds[y]
        BY <1>1, <2>1
      <4> HIDE DEF Holds
      <4> QED BY <2>1, <2>2, <3>1, <4>1, SumChange
    <3>3. SumFunctionOnSet(Holds, RowsOf(v)) \in Int
      <4> HIDE DEF Holds
      <4> QED BY <2>1, SumInt
    <3>4. wallet'[v].reserved = wallet[v].reserved + r
      BY <1>2, <2>4, MoveType
    <3>5. Held(w) \in Int
      BY HeldOf
    <3> HIDE DEF Holds
    <3>6. wallet'[v].reserved = SumFunctionOnSet(Holds', RowsOf(v)')
      BY <1>1, <2>3, <3>2, <3>3, <3>4, <3>5 DEF ReservedFits
    <3> QED BY <3>6 DEF ReservedFits
  <2>5. CASE v # u
    <3>1. \A x \in RowsOf(v) : Holds[x] = Holds'[x]
      BY <1>1, <2>1, <2>5
    <3>2. SumFunctionOnSet(Holds, RowsOf(v)) = SumFunctionOnSet(Holds', RowsOf(v))
      <4> HIDE DEF Holds
      <4> QED BY <2>1, <3>1, SumSame
    <3>3. wallet'[v] = wallet[v]
      BY <1>2, <2>5, MoveType
    <3> HIDE DEF Holds
    <3> QED BY <2>3, <3>2, <3>3 DEF ReservedFits
  <2> QED BY <2>4, <2>5
<1> QED BY <1>3 DEF ReservedIsExplained, ReservedFits, Holds

(* The steps that touch rows or wallets                                     *)
LEMMA RequestHolds ==
  ASSUME TypeOK, SerialInv, TypeOK', ReservedIsExplained, NEW p \in Procs, NEW w \in Withdraws,
         NEW payee \in BOOLEAN, RequestCommit(p, w, payee)
  PROVE  ReservedIsExplained'
<1> DEFINE u == call[p].user
           amount == call[p].amount
           new == [user |-> u, amount |-> amount, fee |-> Fee(amount), total |-> Total(amount),
                   payee |-> payee, status |-> "PENDING"]
<1>1. /\ row[w] = Absent /\ wallet' = Move(wallet, u, -Total(amount), Total(amount))
      /\ row' = [row EXCEPT ![w] = new] /\ UNCHANGED returns
  BY DEF RequestCommit
<1>2. u \in Users /\ amount \in Nat
  <2>1. call[p] \in [op : {"request"}, user : Users, amount : Amounts]
    BY DEF RequestCommit, Call, Idle, TypeOK
  <2> QED BY <2>1, WithdrawalsAssumption
<1>3. Total(amount) \in Int
  BY <1>2, FeeIsNat
<1>4. new # Absent /\ new.user = u /\ new.status = "PENDING" /\ new.total = Total(amount)
  BY DEF Absent
<1> HIDE DEF u, amount, new
<1>5. row'[w] = new /\ \A v \in Withdraws : v # w => row'[v] = row[v]
  BY <1>1 DEF TypeOK
<1>6. \A v : RowsOf(v)' = IF v = u THEN RowsOf(v) \cup {w} ELSE RowsOf(v)
  BY <1>1, <1>4, <1>5 DEF RowsOf
<1>7. /\ \A v \in Withdraws : v # w => Holds'[v] = Holds[v]
      /\ Holds'[w] = Total(amount)
  BY <1>1, <1>4, <1>5 DEF Holds, Held
<1> DEFINE less == -Total(amount)
<1>8. less \in Int /\ wallet' = Move(wallet, u, less, Total(amount)) /\ wallet \in [Users -> Wallet]
  BY <1>1, <1>3 DEF TypeOK
<1> HIDE DEF less
<1>9. ASSUME NEW v \in Users
      PROVE  ReservedFits(v)'
  <2>1. /\ IsFiniteSet(RowsOf(v)) /\ RowsOf(v) \subseteq Withdraws /\ w \notin RowsOf(v)
        /\ \A x \in RowsOf(v) : Holds[x] \in Int
    BY <1>1, RowsAreFinite DEF SerialInv
  <2>2. \A x \in RowsOf(v) : Holds[x] = Holds'[x] /\ Holds'[x] \in Int
    BY <1>7, <2>1
  <2>3. ReservedFits(v)
    BY DEF ReservedIsExplained, ReservedFits, Holds
  <2> HIDE DEF Holds
  <2>4. SumFunctionOnSet(Holds, RowsOf(v)) = SumFunctionOnSet(Holds', RowsOf(v))
    BY <2>1, <2>2, SumSame
  <2>5. SumFunctionOnSet(Holds', RowsOf(v) \cup {w})
          = SumFunctionOnSet(Holds', RowsOf(v)) + Holds'[w]
    BY <1>3, <1>7, <2>1, <2>2, SumAdd
  <2>6. CASE v = u
    <3>1. wallet'[v].reserved = wallet[v].reserved + Total(amount)
      BY <1>2, <1>3, <1>8, <2>6, MoveType
    <3>2. RowsOf(v)' = RowsOf(v) \cup {w}
      BY <1>6, <2>6
    <3> QED BY <1>7, <2>3, <2>4, <2>5, <3>1, <3>2 DEF ReservedFits
  <2>7. CASE v # u
    <3>1. wallet'[v] = wallet[v]
      BY <1>2, <1>3, <1>8, <2>7, MoveType
    <3>2. RowsOf(v)' = RowsOf(v)
      BY <1>6, <2>7
    <3> QED BY <2>3, <2>4, <3>1, <3>2 DEF ReservedFits
  <2> QED BY <2>6, <2>7
<1> QED BY <1>9 DEF ReservedIsExplained, ReservedFits, Holds

(* A handler settles the row it has read, which is PENDING.                 *)
LEMMA SettlesPending ==
  ASSUME TypeOK, SerialInv, NEW p \in Procs, call[p].op \in {"approve", "reject"}
  PROVE  /\ call[p].id \in Withdraws /\ call[p].wd = row[call[p].id] /\ row[call[p].id] # Absent
         /\ row[call[p].id].status = "PENDING" /\ call[p].wd.user \in Users
<1>1. call[p] \in [op : {"approve", "reject"}, id : Withdraws, wd : Withdraw]
  BY DEF TypeOK, Call, Idle
<1>2. call[p].wd = row[call[p].id] /\ row[call[p].id].status = "PENDING"
  BY DEF SerialInv, ReadsAreFresh, Pending
<1> QED BY <1>1, <1>2 DEF Withdraw, Absent

LEMMA ApproveHolds ==
  ASSUME TypeOK, SerialInv, TypeOK', ReservedIsExplained, NEW p \in Procs, ApproveCommit(p)
  PROVE  ReservedIsExplained'
<1> DEFINE w == call[p].id
           wd == row[w]
           new == [wd EXCEPT !.status = "APPROVED", !.fee = Fee(wd.amount), !.total = Net(wd.amount)]
           less == -wd.amount
<1>1. /\ w \in Withdraws /\ call[p].wd = wd /\ wd # Absent /\ wd.status = "PENDING"
      /\ wd.user \in Users
  BY SettlesPending DEF ApproveCommit
<1>2. /\ row' = [row EXCEPT ![w] = new] /\ wallet' = Move(wallet, wd.user, 0, less)
      /\ UNCHANGED returns
  BY <1>1 DEF ApproveCommit
<1>3. /\ wd \in Withdraw /\ wd.amount \in Nat /\ Held(w) \in Int
      /\ Held(w) = wd.amount + Fee(wd.amount) /\ Fee(wd.amount) \in Nat
  BY <1>1, HeldOf, FeeIsNat DEF SerialInv
<1>4. new.user = wd.user /\ new.status = "APPROVED" /\ new.fee = Fee(wd.amount) /\ new # Absent
  BY <1>3 DEF Withdraw, Absent
<1>5. \A v \in Withdraws : v # w => row'[v] = row[v]
  BY <1>2 DEF TypeOK
<1>6. row'[w] = new
  <2> HIDE DEF new, w
  <2> QED BY <1>1, <1>2 DEF TypeOK
<1>7. less \in Int /\ 0 \in Int
  BY <1>3
<1> HIDE DEF new, less
<1>8. \A v : RowsOf(v)' = RowsOf(v)
  BY <1>1, <1>4, <1>5, <1>6 DEF RowsOf
<1>9. /\ Holds'[w] = Fee(wd.amount) /\ Holds[w] = Held(w)
      /\ \A v \in Withdraws : v # w => Holds'[v] = Holds[v]
  <2>1. row'[w].status = "APPROVED" /\ row'[w].fee = Fee(wd.amount)
    BY <1>4, <1>6
  <2> HIDE DEF w
  <2> QED BY <1>1, <1>2, <1>5, <2>1 DEF Holds, Held
<1>10. less = Holds'[w] - Holds[w] /\ Holds'[w] \in Int
  <2> HIDE DEF w, Holds
  <2> QED BY <1>3, <1>9 DEF less
<1> HIDE DEF w, Holds
<1> QED BY <1>1, <1>2, <1>3, <1>7, <1>8, <1>9, <1>10, OneRowHolds DEF SerialInv

LEMMA RejectHolds ==
  ASSUME TypeOK, SerialInv, TypeOK', ReservedIsExplained, NEW p \in Procs, RejectCommit(p)
  PROVE  ReservedIsExplained'
<1> DEFINE w == call[p].id
           wd == row[w]
           new == [wd EXCEPT !.status = "SUSPENDED"]
           less == -wd.total
<1>1. /\ w \in Withdraws /\ call[p].wd = wd /\ wd # Absent /\ wd.status = "PENDING"
      /\ wd.user \in Users
  BY SettlesPending DEF RejectCommit
<1>2. /\ row' = [row EXCEPT ![w] = new] /\ wallet' = Move(wallet, wd.user, wd.total, less)
      /\ returns' = [returns EXCEPT ![w] = returns[w] + 1]
  BY <1>1 DEF RejectCommit, Refund
<1>3. /\ wd \in Withdraw /\ Held(w) \in Int /\ Held(w) = wd.total /\ wd.total \in Int
      /\ returns[w] = 0
  BY <1>1, HeldOf DEF SerialInv
<1>4. new.user = wd.user /\ new.status = "SUSPENDED" /\ new # Absent
  BY <1>3 DEF Withdraw, Absent
<1>5. \A v \in Withdraws : v # w => row'[v] = row[v] /\ returns'[v] = returns[v]
  BY <1>2 DEF TypeOK
<1>6. row'[w] = new /\ returns'[w] = 1
  <2> HIDE DEF new, w
  <2> QED BY <1>1, <1>2, <1>3 DEF TypeOK
<1>7. less \in Int
  BY <1>3
<1> HIDE DEF new, less
<1>8. \A v : RowsOf(v)' = RowsOf(v)
  BY <1>1, <1>4, <1>5, <1>6 DEF RowsOf
<1>9. /\ Holds'[w] = 0 /\ Holds[w] = Held(w)
      /\ \A v \in Withdraws : v # w => Holds'[v] = Holds[v]
  <2>1. row'[w].status = "SUSPENDED" /\ returns'[w] # 0
    BY <1>4, <1>6
  <2> HIDE DEF w
  <2> QED BY <1>1, <1>5, <2>1 DEF Holds, Held
<1>10. less = Holds'[w] - Holds[w] /\ Holds'[w] \in Int
  <2> HIDE DEF w, Holds
  <2> QED BY <1>3, <1>9 DEF less
<1> HIDE DEF w, Holds
<1> QED BY <1>1, <1>2, <1>3, <1>7, <1>8, <1>9, <1>10, OneRowHolds DEF SerialInv

(* The job changes the status of rows whose money was not returned, which   *)
(* hold what they held.                                                     *)
LEMMA FlagHolds ==
  ASSUME TypeOK, SerialInv, ReservedIsExplained, FlagCommit
  PROVE  ReservedIsExplained'
<1>1. /\ \A w \in Withdraws :
           row'[w] = IF w \in job THEN [row[w] EXCEPT !.status = "SUSPENDED"] ELSE row[w]
      /\ UNCHANGED <<wallet, returns>>
  BY DEF FlagCommit, FlaggedStatus
<1>2. ASSUME NEW w \in Withdraws, w \in job
      PROVE  /\ row[w] # Absent /\ row'[w] # Absent /\ row'[w].user = row[w].user
             /\ Held(w)' = Held(w)
  <2>1. row[w] # Absent /\ row[w].status = "PENDING" /\ row[w] \in Withdraw
    BY <1>2 DEF SerialInv, ReadsAreFresh, Pending, TypeOK
  <2>2. Held(w) = row[w].total /\ returns[w] = 0
    BY <2>1, HeldOf DEF SerialInv
  <2>3. /\ row'[w].status = "SUSPENDED" /\ row'[w].user = row[w].user
        /\ row'[w].total = row[w].total
    BY <1>1, <1>2, <2>1 DEF Withdraw
  <2>4. row'[w] # Absent
    BY <2>3 DEF Absent
  <2> QED BY <1>1, <2>1, <2>2, <2>3, <2>4 DEF Held
<1>3. ASSUME NEW w \in Withdraws, w \notin job
      PROVE  row'[w] = row[w] /\ Held(w)' = Held(w)
  BY <1>1, <1>3 DEF Held
<1>4. \A u : RowsOf(u)' = RowsOf(u)
  BY <1>2, <1>3 DEF RowsOf
<1>5. Holds' = Holds
  BY <1>2, <1>3 DEF Holds
<1>6. \A u \in Users : ReservedFits(u)'
  BY <1>1, <1>4, <1>5 DEF ReservedFits, ReservedIsExplained, Holds
<1> QED BY <1>6 DEF ReservedIsExplained, ReservedFits, Holds

(* While the handlers of a user do not overlap, what is locked in reserved  *)
(* is what the rows account for, for any users, rows and amounts: the fee   *)
(* that approve leaves behind (withdraw.service.ts) is locked for ever, and *)
(* so is the total of a row that the auto-flag job suspended.               *)
THEOREM ReservedIsAccountedFor == ASSUME ~Overlap PROVE Spec => []ReservedIsExplained
<1>1. Init => ReservedIsExplained
  <2> SUFFICES ASSUME Init PROVE ReservedIsExplained
    OBVIOUS
  <2>1. \A u \in Users : RowsOf(u) = {} /\ wallet[u].reserved = 0
    BY DEF Init, RowsOf
  <2>2. SumFunctionOnSet([w \in Withdraws |-> Held(w)], {}) = 0
    BY SumEmpty, Zenon
  <2> QED BY <2>1, <2>2 DEF ReservedIsExplained
<1>2. TypeOK /\ TypeOK' /\ SerialInv /\ ReservedIsExplained /\ [Next]_vars => ReservedIsExplained'
  <2> SUFFICES ASSUME TypeOK, TypeOK', SerialInv, ReservedIsExplained, [Next]_vars
               PROVE  ReservedIsExplained'
    OBVIOUS
  <2>1. ASSUME UNCHANGED <<row, returns, wallet>> PROVE ReservedIsExplained'
    BY <2>1 DEF ReservedIsExplained, RowsOf, Held
  <2>2. ASSUME NEW p \in Procs, Request(p) \/ Approve(p) \/ Reject(p) \/ Rollback(p)
        PROVE  ReservedIsExplained'
    <3>1. CASE Request(p)
      BY <2>1, <3>1, RequestHolds DEF Request, RequestRead, Begin
    <3>2. CASE Approve(p)
      BY <2>1, <3>2, ApproveHolds DEF Approve, ApproveRead, Begin
    <3>3. CASE Reject(p)
      BY <2>1, <3>3, RejectHolds DEF Reject, RejectRead, Begin
    <3>4. CASE Rollback(p)
      BY <2>1, <3>4 DEF Rollback
    <3> QED BY <2>2, <3>1, <3>2, <3>3, <3>4
  <2>3. CASE FlagRead \/ Crash \/ (\E w \in Withdraws : Age(w)) \/ UNCHANGED vars
    BY <2>1, <2>3 DEF FlagRead, Crash, Age, vars
  <2> QED BY <2>2, <2>3, FlagHolds DEF Next
<1> QED BY <1>1, <1>2, TypeCorrect, SerialInvHolds, PTL DEF Spec
==============================================================================
