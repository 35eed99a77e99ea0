---------------------------- MODULE Machines_proofs ----------------------------
(***************************************************************************)
(* Theorems of Machines, for any users, products, prices, level table and  *)
(* number of machines, handlers, jobs and reward runs.                     *)
(*                                                                         *)
(* Purchases, recoveries and refunds overlap as they do in the program.    *)
(* What holds of a user's rows then depends on what met: the trial fund is *)
(* explained for a user for whom no two of them were at work at once, the  *)
(* wallet is covered for one with no two purchases at once, and balance    *)
(* and reserved are explained where no machine was held by two recoveries  *)
(* or refunds.  The history variables say so.                              *)
(***************************************************************************)
EXTENDS Machines, Sums_proofs

Buying(h, u) == buy[h].at # "idle" /\ buy[h].user = u
Recovering(u) == recovery[u].at # "idle"
Refunding(j, u) == expiry[j].at = "found" /\ expiry[j].user = u

(* At most one handler is at work for a user, unless some met.              *)
Apart ==
  /\ \A u \in Users \ met, g, h \in Handlers : Buying(g, u) /\ Buying(h, u) => g = h
  /\ \A u \in Users \ met, h \in Handlers : Buying(h, u) => ~Recovering(u)
  /\ \A u \in Users \ met, h \in Handlers, j \in Jobs : Buying(h, u) => ~Refunding(j, u)
  /\ \A u \in Users \ met, j \in Jobs : Refunding(j, u) => ~Recovering(u)
  /\ \A u \in Users \ met, i, j \in Jobs : Refunding(i, u) /\ Refunding(j, u) => i = j

Shape ==
  /\ DOMAIN machine = MachineIds /\ DOMAIN buy = Handlers
  /\ DOMAIN recovery = Users /\ DOMAIN expiry = Jobs
  /\ \A h \in Handlers : \/ buy[h] = Idle
                         \/ buy[h].at \in {"read", "split"} /\ buy[h].user \in Users
  /\ \A u \in Users : recovery[u] = Idle \/ recovery[u].at \in {"checked", "found"}
  /\ \A j \in Jobs : \/ expiry[j] = Idle
                     \/ expiry[j].at = "users"
                     \/ expiry[j].at = "found" /\ expiry[j].user \in Users

(* What a recovery or a refund has found is, until it commits, what there   *)
(* is to find, unless the user had two handlers at work at once.            *)
FoundIsFresh ==
  /\ \A u \in Users \ met : recovery[u].at = "found" =>
        recovery[u].found = {m \in Active(u) : machine[m].inTrial}
  /\ \A j \in Jobs : expiry[j].at = "found" /\ expiry[j].user \notin met =>
        expiry[j].found = {m \in Active(expiry[j].user) : ExpiredBy(m, expiry[j].now)}

(* What a recovery or a refund has found are machines of its user.          *)
FoundAreTheirs ==
  /\ \A u \in Users : recovery[u].at = "found" =>
        \A m \in recovery[u].found : m \in MachineIds /\ machine[m].user = u
  /\ \A j \in Jobs : expiry[j].at = "found" =>
        \A m \in expiry[j].found : m \in MachineIds /\ machine[m].user = expiry[j].user

(* What happened is not forgotten.                                          *)
LEMMA HistoryStays ==
  [Next]_vars => clashed \subseteq clashed' /\ rushed \subseteq rushed' /\ met \subseteq met'
<1> SUFFICES ASSUME [Next]_vars
             PROVE  clashed \subseteq clashed' /\ rushed \subseteq rushed' /\ met \subseteq met'
  OBVIOUS
<1> USE DEF history
<1>1. ASSUME NEW h \in Handlers, Buy(h) \/ BuyFails(h)
      PROVE  clashed \subseteq clashed' /\ rushed \subseteq rushed' /\ met \subseteq met'
  BY <1>1 DEF Buy, BuyRead, BuySplit, BuyCommit, BuyFails
<1>2. ASSUME NEW u \in Users, TrialEnds(u) \/ Recover(u) \/ RecoveryFails(u)
      PROVE  clashed \subseteq clashed' /\ rushed \subseteq rushed' /\ met \subseteq met'
  BY <1>2 DEF TrialEnds, Recover, RecoverRead, RecoverFind, RecoverCommit, RecoveryFails
<1>3. ASSUME NEW m \in MachineIds, RentalEnds(m) \/ RewardPay(m) \/ RewardClash(m)
      PROVE  clashed \subseteq clashed' /\ rushed \subseteq rushed' /\ met \subseteq met'
  BY <1>3 DEF RentalEnds, RewardPay, RewardClash
<1>4. ASSUME NEW j \in Jobs, Expire(j) \/ ExpiryFails(j)
      PROVE  clashed \subseteq clashed' /\ rushed \subseteq rushed' /\ met \subseteq met'
  BY <1>4 DEF Expire, ExpiryStart, ExpiryFind, ExpiryCommit, ExpiryFails
<1>5. CASE RewardStart \/ RewardFails \/ Crash \/ UNCHANGED vars
  BY <1>5 DEF RewardStart, RewardFails, Crash, vars
<1> QED BY <1>1, <1>2, <1>3, <1>4, <1>5 DEF Next

LEMMA NextIsNotFound == ASSUME NEW job, NEW u PROVE NextUser(job, u).at # "found"
BY DEF NextUser, Idle

(* Nobody is at work for a user who is not busy.                            *)
LEMMA StartsAlone ==
  ASSUME Shape, NEW u \in Users, ~BusyFor(u)
  PROVE  /\ \A h \in Handlers : ~Buying(h, u)
         /\ ~Recovering(u)
         /\ \A j \in Jobs : ~Refunding(j, u)
BY DEF BusyFor, Buying, Recovering, Refunding, Shape, Idle

(* Ending machines of one user leaves those of the others as they are.      *)
LEMMA OthersUntouched ==
  ASSUME Shape, NEW v \in Users, NEW ms, \A m \in ms : m \in MachineIds /\ machine[m].user = v,
         machine' = MachinesWithout(ms), NEW u \in Users, u # v
  PROVE  /\ Active(u)' = Active(u)
         /\ \A m \in Active(u) : machine'[m] = machine[m]
<1>1. \A m \in MachineIds : machine'[m] = IF m \in ms THEN RefundedRow(machine[m])
                                          ELSE machine[m]
  BY DEF MachinesWithout
<1>2. \A m \in ms : m \in MachineIds /\ machine[m].user = v
  OBVIOUS
<1>3. ASSUME NEW m \in MachineIds, m \in ms
      PROVE  m \notin Active(u) /\ m \notin Active(u)'
  <2>0. RefundedRow(machine[m]).status = "REFUNDED"
    BY DEF RefundedRow
  <2>1. machine'[m].status = "REFUNDED"
    BY <1>1, <1>3, <2>0
  <2> QED BY <1>2, <1>3, <2>1 DEF Active
<1>4. ASSUME NEW m \in MachineIds, m \notin ms
      PROVE  machine'[m] = machine[m]
  BY <1>1, <1>4
<1>5. \A m \in MachineIds : m \in Active(u)' <=> m \in Active(u)
  BY <1>3, <1>4 DEF Active
<1>6. Active(u) \subseteq MachineIds /\ Active(u)' \subseteq MachineIds
  BY DEF Active
<1> QED BY <1>3, <1>4, <1>5, <1>6

(* A new machine changes only what its user has.                            *)
LEMMA NewMachine ==
  ASSUME Shape, NEW m \in MachineIds, machine[m] = Absent, NEW row,
         machine' = [machine EXCEPT ![m] = row], NEW u \in Users, row.user # u
  PROVE  /\ Active(u)' = Active(u)
         /\ \A n \in Active(u) : machine'[n] = machine[n]
<1>1. machine'[m] = row /\ \A n \in MachineIds : n # m => machine'[n] = machine[n]
  BY DEF Shape
<1>2. m \notin Active(u) /\ m \notin Active(u)'
  BY <1>1 DEF Active, Absent
<1>3. \A n \in MachineIds : n \in Active(u)' <=> n \in Active(u)
  BY <1>1, <1>2 DEF Active
<1>4. Active(u) \subseteq MachineIds /\ Active(u)' \subseteq MachineIds
  BY DEF Active
<1> QED BY <1>1, <1>2, <1>3, <1>4

-----------------------------------------------------------------------------
LEMMA ShapeStep == Shape /\ [Next]_vars => Shape'
<1> SUFFICES ASSUME Shape, [Next]_vars PROVE Shape'
  OBVIOUS
<1> USE DEF Shape
<1>1. ASSUME NEW h \in Handlers, Buy(h) \/ BuyFails(h)
      PROVE  Shape'
  <2>1. DOMAIN machine' = MachineIds /\ UNCHANGED <<recovery, expiry>>
    BY <1>1 DEF Buy, BuyRead, BuySplit, BuyCommit, BuyFails, tables
  <2>2. \E new : /\ buy' = [buy EXCEPT ![h] = new]
                 /\ \/ new = Idle
                    \/ new.at \in {"read", "split"} /\ new.user \in Users
    <3>1. ASSUME NEW u \in Users, NEW p \in Products, BuyRead(h, u, p)
          PROVE  \E new : /\ buy' = [buy EXCEPT ![h] = new]
                          /\ new.at \in {"read", "split"} /\ new.user \in Users
      <4> DEFINE new == [at |-> "read", user |-> u, product |-> p, balance |-> wallet[u].balance]
      <4>1. buy' = [buy EXCEPT ![h] = new]
        BY <3>1 DEF BuyRead
      <4>2. new.at = "read" /\ new.user = u
        OBVIOUS
      <4> QED BY <4>1, <4>2
    <3>2. CASE BuySplit(h)
      <4> DEFINE spend == FromTrial(buy[h].user, Price[buy[h].product])
                 new == [at |-> "split", user |-> buy[h].user, product |-> buy[h].product,
                         trialSpend |-> spend]
      <4>1. buy' = [buy EXCEPT ![h] = new] \/ buy' = [buy EXCEPT ![h] = Idle]
        BY <3>2 DEF BuySplit
      <4>2. new.at = "split" /\ new.user = buy[h].user
        OBVIOUS
      <4>3. buy[h].user \in Users
        BY <3>2 DEF BuySplit, Idle
      <4> QED BY <4>1, <4>2, <4>3
    <3>3. CASE (\E m \in MachineIds : BuyCommit(h, m)) \/ BuyFails(h)
      <4>1. buy' = [buy EXCEPT ![h] = Idle]
        BY <3>3, Zenon DEF BuyCommit, BuyFails
      <4> QED BY <4>1
    <3> QED BY <1>1, <3>1, <3>2, <3>3 DEF Buy
  <2> QED BY <2>1, <2>2
<1>2. ASSUME NEW u \in Users, TrialEnds(u) \/ Recover(u) \/ RecoveryFails(u)
      PROVE  Shape'
  <2>1. DOMAIN machine' = MachineIds /\ UNCHANGED <<buy, expiry>>
    BY <1>2 DEF TrialEnds, Recover, RecoverRead, RecoverFind, RecoverCommit, RecoveryFails,
                tables, handlers, MachinesWithout
  <2>2. \/ UNCHANGED recovery
        \/ \E new : /\ recovery' = [recovery EXCEPT ![u] = new]
                     /\ \/ new = Idle
                        \/ new.at \in {"checked", "found"}
    BY <1>2 DEF TrialEnds, Recover, RecoverRead, RecoverFind, RecoverCommit, RecoveryFails,
                handlers
  <2> QED BY <2>1, <2>2
<1>3. ASSUME NEW m \in MachineIds, RentalEnds(m) \/ RewardPay(m) \/ RewardClash(m)
      PROVE  Shape'
  BY <1>3 DEF RentalEnds, RewardPay, RewardClash, tables, handlers
<1>4. ASSUME NEW j \in Jobs, Expire(j) \/ ExpiryFails(j)
      PROVE  Shape'
  <2>1. DOMAIN machine' = MachineIds /\ UNCHANGED <<buy, recovery>>
    BY <1>4 DEF Expire, ExpiryStart, ExpiryFind, ExpiryCommit, ExpiryFails, tables, MachinesWithout
  <2>2. PICK new : /\ expiry' = [expiry EXCEPT ![j] = new]
                   /\ \/ new = Idle
                      \/ new.at = "users"
                      \/ new.at = "found" /\ new.user \in Users
    BY <1>4 DEF Expire, ExpiryStart, ExpiryFind, ExpiryCommit, ExpiryFails, NextUser
  <2> QED BY <2>1, <2>2
<1>5. CASE RewardStart \/ RewardFails \/ Crash \/ UNCHANGED vars
  BY <1>5 DEF RewardStart, RewardFails, Crash, tables, handlers, vars
<1> QED BY <1>1, <1>2, <1>3, <1>4, <1>5 DEF Next

-----------------------------------------------------------------------------
(* What a step changes of who is at work for whom: nothing, an end of       *)
(* handlers, or one start for a user whom nobody is at work for.            *)
FewerAtWork ==
  /\ \A u \in Users, h \in Handlers : Buying(h, u)' => Buying(h, u)
  /\ \A u \in Users : Recovering(u)' => Recovering(u)
  /\ \A u \in Users, j \in Jobs : Refunding(j, u)' => Refunding(j, u)

LEMMA FewerApart == ASSUME Apart, FewerAtWork, met \subseteq met' PROVE Apart'
BY DEF Apart, FewerAtWork

LEMMA ApartStep == ASSUME Shape, Apart, [Next]_vars PROVE Apart'
<1>0. met \subseteq met'
  BY HistoryStays
<1> USE DEF Buying, Recovering, Refunding, FewerAtWork
<1>1. ASSUME NEW h \in Handlers, NEW u \in Users, NEW p \in Products, BuyRead(h, u, p)
      PROVE  Apart'
  <2> DEFINE new == [at |-> "read", user |-> u, product |-> p, balance |-> wallet[u].balance]
  <2>1. /\ buy' = [buy EXCEPT ![h] = new] /\ (BusyFor(u) => u \in met')
        /\ UNCHANGED <<recovery, expiry>>
    BY <1>1 DEF BuyRead
  <2>2. new.at = "read" /\ new.user = u
    OBVIOUS
  <2> HIDE DEF new
  <2>3. /\ \A v \in Users, g \in Handlers : Buying(g, v)' => Buying(g, v) \/ (g = h /\ v = u)
        /\ \A v \in Users : Recovering(v)' <=> Recovering(v)
        /\ \A v \in Users, j \in Jobs : Refunding(j, v)' <=> Refunding(j, v)
    BY <2>1, <2>2 DEF Shape
  <2>4. u \notin met' => /\ \A g \in Handlers : ~Buying(g, u)
                         /\ ~Recovering(u)
                         /\ \A j \in Jobs : ~Refunding(j, u)
    BY <2>1, StartsAlone
  <2> USE DEF Apart
  <2> HIDE DEF Buying, Recovering, Refunding
  <2> QED BY <1>0, <2>3, <2>4
<1>2. ASSUME NEW h \in Handlers, BuySplit(h)
      PROVE  Apart'
  <2> DEFINE spend == FromTrial(buy[h].user, Price[buy[h].product])
             new == [at |-> "split", user |-> buy[h].user, product |-> buy[h].product,
                     trialSpend |-> spend]
  <2>1. /\ buy' = [buy EXCEPT ![h] = new] \/ buy' = [buy EXCEPT ![h] = Idle]
        /\ buy[h].at = "read"
        /\ UNCHANGED <<recovery, expiry>>
    BY <1>2 DEF BuySplit
  <2>2. new.user = buy[h].user /\ Idle.at = "idle"
    BY DEF Idle
  <2> HIDE DEF new
  <2>3. FewerAtWork
    BY <2>1, <2>2 DEF Shape
  <2> QED BY <1>0, <2>3, FewerApart
<1>3. ASSUME NEW h \in Handlers, (\E m \in MachineIds : BuyCommit(h, m)) \/ BuyFails(h)
      PROVE  Apart'
  <2>1. buy' = [buy EXCEPT ![h] = Idle] /\ UNCHANGED <<recovery, expiry>>
    BY <1>3, Zenon DEF BuyCommit, BuyFails
  <2>2. FewerAtWork
    BY <2>1 DEF Shape, Idle
  <2> QED BY <1>0, <2>2, FewerApart
<1>4. ASSUME NEW u \in Users, RecoverRead(u)
      PROVE  Apart'
  <2>1. /\ \A v \in Users : Recovering(v)' => Recovering(v) \/ v = u
        /\ Recovering(u)' /\ BusyFor(u) => u \in met'
        /\ UNCHANGED <<buy, expiry>>
    BY <1>4 DEF RecoverRead, Shape, Idle
  <2>2. Recovering(u)' /\ u \notin met' => /\ \A g \in Handlers : ~Buying(g, u)
                                           /\ \A j \in Jobs : ~Refunding(j, u)
    BY <2>1, StartsAlone
  <2>3. /\ \A v \in Users, h \in Handlers : Buying(h, v)' <=> Buying(h, v)
        /\ \A v \in Users, j \in Jobs : Refunding(j, v)' <=> Refunding(j, v)
    BY <2>1
  <2> USE DEF Apart
  <2> HIDE DEF Buying, Recovering, Refunding
  <2> QED BY <1>0, <2>1, <2>2, <2>3
<1>5. ASSUME NEW u \in Users, RecoverFind(u) \/ RecoverCommit(u) \/ RecoveryFails(u)
      PROVE  Apart'
  <2>1. /\ \A v \in Users : Recovering(v)' => Recovering(v)
        /\ UNCHANGED <<buy, expiry>>
    BY <1>5 DEF RecoverFind, RecoverCommit, RecoveryFails, Shape, Idle
  <2>2. FewerAtWork
    BY <2>1
  <2> QED BY <1>0, <2>2, FewerApart
<1>6. ASSUME NEW j \in Jobs, NEW u \in Users, ExpiryFind(j, u)
      PROVE  Apart'
  <2>1. PICK new : /\ expiry' = [expiry EXCEPT ![j] = new]
                   /\ new.at = "found" => new.user = u /\ (BusyFor(u) => u \in met')
    <3> DEFINE f == Expired(u, expiry[j].now)
               holding == [at |-> "found", now |-> expiry[j].now, todo |-> expiry[j].todo,
                           user |-> u, found |-> f]
    <3>1. expiry' = [expiry EXCEPT ![j] = IF f = {} THEN NextUser(expiry[j], u) ELSE holding]
      BY <1>6 DEF ExpiryFind
    <3>2. holding.user = u /\ NextUser(expiry[j], u).at # "found"
      BY NextIsNotFound
    <3>3. f # {} /\ BusyFor(u) => u \in met'
      BY <1>6 DEF ExpiryFind
    <3> HIDE DEF f
    <3> QED BY <3>1, <3>2, <3>3
  <2>2. UNCHANGED <<buy, recovery>>
    BY <1>6 DEF ExpiryFind
  <2>3. /\ \A v \in Users, i \in Jobs :
             Refunding(i, v)' => Refunding(i, v) \/ (i = j /\ v = u /\ (BusyFor(u) => u \in met'))
        /\ \A v \in Users, h \in Handlers : Buying(h, v)' <=> Buying(h, v)
        /\ \A v \in Users : Recovering(v)' <=> Recovering(v)
    BY <2>1, <2>2 DEF Shape
  <2>4. ~BusyFor(u) => /\ \A g \in Handlers : ~Buying(g, u)
                       /\ ~Recovering(u)
                       /\ \A i \in Jobs : ~Refunding(i, u)
    BY StartsAlone
  <2> USE DEF Apart
  <2> HIDE DEF Buying, Recovering, Refunding
  <2> QED BY <1>0, <2>3, <2>4
<1>7. ASSUME NEW j \in Jobs, ExpiryStart(j) \/ ExpiryCommit(j) \/ ExpiryFails(j)
      PROVE  Apart'
  <2>1. PICK new : expiry' = [expiry EXCEPT ![j] = new] /\ new.at # "found"
    BY <1>7 DEF ExpiryStart, ExpiryCommit, ExpiryFails, NextUser, Idle
  <2>2. UNCHANGED <<buy, recovery>>
    BY <1>7 DEF ExpiryStart, ExpiryCommit, ExpiryFails
  <2>3. FewerAtWork
    BY <2>1, <2>2 DEF Shape
  <2> QED BY <1>0, <2>3, FewerApart
<1>8. ASSUME NEW u \in Users, TrialEnds(u)
      PROVE  Apart'
  BY <1>0, <1>8 DEF TrialEnds, handlers, Apart
<1>9. ASSUME NEW m \in MachineIds, RentalEnds(m) \/ RewardPay(m) \/ RewardClash(m)
      PROVE  Apart'
  BY <1>0, <1>9 DEF RentalEnds, RewardPay, RewardClash, handlers, Apart
<1>10. CASE RewardStart \/ RewardFails \/ UNCHANGED vars
  BY <1>0, <1>10 DEF RewardStart, RewardFails, vars, handlers, Apart
<1>11. CASE Crash
  BY <1>0, <1>11 DEF Crash, Idle, Apart
<1> QED BY <1>1, <1>2, <1>3, <1>4, <1>5, <1>6, <1>7, <1>8, <1>9, <1>10, <1>11
        DEF Next, Buy, Recover, Expire

-----------------------------------------------------------------------------
(* A step that leaves the machines as they are keeps what was found fresh,  *)
(* if it changes no job or recovery that has found some.                    *)
LEMMA FreshKept ==
  ASSUME FoundIsFresh, UNCHANGED machine, met \subseteq met',
         \A u \in Users : recovery'[u].at = "found" => recovery'[u] = recovery[u],
         \A j \in Jobs : expiry'[j].at = "found" => expiry'[j] = expiry[j]
  PROVE  FoundIsFresh'
<1> USE DEF FoundIsFresh
<1>1. \A u \in Users : Active(u)' = Active(u)
  BY DEF Active
<1>2. ASSUME NEW u \in Users \ met', recovery'[u].at = "found"
      PROVE  recovery'[u].found = {m \in Active(u)' : machine'[m].inTrial}
  <2>1. recovery[u].at = "found" /\ recovery'[u] = recovery[u]
    BY <1>2
  <2> QED BY <1>1, <2>1
<1>3. ASSUME NEW j \in Jobs, expiry'[j].at = "found", expiry[j].user \notin met'
      PROVE  expiry'[j].found = {m \in Active(expiry[j].user)' : ExpiredBy(m, expiry[j].now)'}
  <2>1. expiry[j].at = "found" /\ expiry'[j] = expiry[j]
    BY <1>3
  <2> QED BY <1>3, <2>1 DEF Active, ExpiredBy
<1> QED BY <1>2, <1>3

(* A step that changes the machines of one user only, of whom nothing is    *)
(* held when it is done, keeps what was found for the others fresh.         *)
LEMMA FreshForOthers ==
  ASSUME FoundIsFresh, Shape, met \subseteq met', NEW v \in Users,
         \A u \in Users : u # v => /\ Active(u)' = Active(u)
                                   /\ \A m \in Active(u) : machine'[m] = machine[m],
         v \notin met' => ~(recovery'[v].at = "found"),
         \A u \in Users : u # v => recovery'[u] = recovery[u],
         \A j \in Jobs : expiry'[j].at = "found" =>
            expiry'[j] = expiry[j] /\ (v \in met' \/ expiry[j].user # v)
  PROVE  FoundIsFresh'
<1> USE DEF FoundIsFresh
<1>1. ASSUME NEW u \in Users \ met', recovery'[u].at = "found"
      PROVE  recovery'[u].found = {m \in Active(u)' : machine'[m].inTrial}
  <2>1. u # v /\ recovery'[u] = recovery[u]
    BY <1>1
  <2> QED BY <1>1, <2>1
<1>2. ASSUME NEW j \in Jobs, expiry'[j].at = "found", expiry[j].user \notin met'
      PROVE  expiry'[j].found = {m \in Active(expiry[j].user)' : ExpiredBy(m, expiry[j].now)'}
  <2>1. expiry'[j] = expiry[j] /\ expiry[j].user # v /\ expiry[j].user \in Users
    BY <1>2 DEF Shape, Idle
  <2>2. /\ Active(expiry[j].user)' = Active(expiry[j].user)
        /\ \A m \in Active(expiry[j].user) : machine'[m] = machine[m]
    BY <2>1
  <2>3. \A m \in Active(expiry[j].user) : ExpiredBy(m, expiry[j].now)' = ExpiredBy(m, expiry[j].now)
    BY <2>1, <2>2 DEF ExpiredBy
  <2> QED BY <1>2, <2>1, <2>2, <2>3
<1> QED BY <1>1, <1>2

LEMMA FreshStep ==
  ASSUME Shape, Apart, FoundIsFresh, FoundAreTheirs, [Next]_vars PROVE FoundIsFresh'
<1>0. met \subseteq met'
  BY HistoryStays
<1>1. ASSUME NEW h \in Handlers, NEW m \in MachineIds, BuyCommit(h, m)
      PROVE  FoundIsFresh'
  <2> DEFINE v == buy[h].user
             row == [user |-> v, product |-> buy[h].product,
                     walletSpend |-> Price[buy[h].product] - buy[h].trialSpend,
                     trialSpend |-> buy[h].trialSpend, inTrial |-> v \notin past,
                     status |-> "ACTIVE"]
  <2>1. /\ buy[h].at = "split" /\ machine[m] = Absent
        /\ machine' = [machine EXCEPT ![m] = row]
        /\ UNCHANGED <<recovery, expiry>>
    BY <1>1, Zenon DEF BuyCommit
  <2>2. v \in Users /\ Buying(h, v)
    BY <2>1 DEF Shape, Idle, Buying
  <2>3. row.user = v
    OBVIOUS
  <2> HIDE DEF row
  <2>4. \A u \in Users : u # v => /\ Active(u)' = Active(u)
                                  /\ \A n \in Active(u) : machine'[n] = machine[n]
    BY <2>1, <2>3, NewMachine
  <2>5. v \notin met' => ~Recovering(v) /\ \A j \in Jobs : ~Refunding(j, v)
    BY <1>0, <2>2 DEF Apart
  <2>6. v \notin met' => ~(recovery'[v].at = "found")
    BY <2>1, <2>2, <2>5 DEF Recovering, Shape, Idle
  <2>7. \A j \in Jobs : expiry'[j].at = "found" =>
           expiry'[j] = expiry[j] /\ (v \in met' \/ expiry[j].user # v)
    BY <2>1, <2>5 DEF Refunding
  <2> HIDE DEF v
  <2> QED BY <1>0, <2>1, <2>2, <2>4, <2>6, <2>7, FreshForOthers
<1>2. ASSUME NEW u \in Users, RecoverCommit(u)
      PROVE  FoundIsFresh'
  <2> DEFINE found == recovery[u].found
  <2>1. /\ recovery[u].at = "found"
        /\ machine' = MachinesWithout(found)
        /\ recovery' = [recovery EXCEPT ![u] = Idle]
        /\ UNCHANGED expiry
    BY <1>2, Zenon DEF RecoverCommit
  <2>2. \A n \in found : n \in MachineIds /\ machine[n].user = u
    BY <2>1 DEF FoundAreTheirs
  <2>3. \A w \in Users : w # u => /\ Active(w)' = Active(w)
                                  /\ \A n \in Active(w) : machine'[n] = machine[n]
    BY <2>1, <2>2, OthersUntouched
  <2>4. u \notin met' => \A j \in Jobs : ~Refunding(j, u)
    BY <1>0, <2>1 DEF Apart, Recovering
  <2>5. /\ ~(recovery'[u].at = "found")
        /\ \A w \in Users : w # u => recovery'[w] = recovery[w]
    BY <2>1 DEF Shape, Idle
  <2>6. \A j \in Jobs : expiry'[j].at = "found" =>
           expiry'[j] = expiry[j] /\ (u \in met' \/ expiry[j].user # u)
    BY <2>1, <2>4 DEF Refunding
  <2> QED BY <1>0, <2>3, <2>5, <2>6, FreshForOthers
<1>3. ASSUME NEW j \in Jobs, ExpiryCommit(j)
      PROVE  FoundIsFresh'
  <2> DEFINE u == expiry[j].user
             ended == Expired(u, expiry[j].now)
  <2>1. /\ expiry[j].at = "found"
        /\ machine' = MachinesWithout(ended)
        /\ expiry' = [expiry EXCEPT ![j] = NextUser(expiry[j], u)]
        /\ UNCHANGED recovery
    BY <1>3, Zenon DEF ExpiryCommit
  <2>2. u \in Users /\ Refunding(j, u)
    BY <2>1 DEF Shape, Idle, Refunding
  <2>3. \A n \in ended : n \in MachineIds /\ machine[n].user = u
    BY DEF Expired, Active
  <2> HIDE DEF u, ended
  <2>4. \A w \in Users : w # u => /\ Active(w)' = Active(w)
                                  /\ \A n \in Active(w) : machine'[n] = machine[n]
    BY <2>1, <2>2, <2>3, OthersUntouched
  <2>5. u \notin met' => ~Recovering(u) /\ \A i \in Jobs : i # j => ~Refunding(i, u)
    BY <1>0, <2>2 DEF Apart
  <2>6. u \notin met' => ~(recovery'[u].at = "found")
    BY <2>1, <2>2, <2>5 DEF Recovering, Shape, Idle
  <2>7. \A i \in Jobs : expiry'[i].at = "found" =>
           expiry'[i] = expiry[i] /\ (u \in met' \/ expiry[i].user # u)
    BY <2>1, <2>5, NextIsNotFound DEF Refunding, Shape
  <2> QED BY <1>0, <2>1, <2>2, <2>4, <2>6, <2>7, FreshForOthers
<1>4. ASSUME NEW u \in Users, RecoverFind(u)
      PROVE  FoundIsFresh'
  <2> DEFINE holding == [at |-> "found", found |-> Recoverable(u)]
  <2>1. /\ recovery' = [recovery EXCEPT ![u] = holding]
        /\ UNCHANGED <<machine, expiry>>
    BY <1>4 DEF RecoverFind, tables
  <2>2. holding.found = {m \in Active(u) : machine[m].inTrial}
    BY DEF Recoverable
  <2> HIDE DEF holding
  <2> QED BY <1>0, <2>1, <2>2 DEF FoundIsFresh, Shape, Active, ExpiredBy
<1>5. ASSUME NEW j \in Jobs, NEW u \in Users, ExpiryFind(j, u)
      PROVE  FoundIsFresh'
  <2> DEFINE f == Expired(u, expiry[j].now)
             holding == [at |-> "found", now |-> expiry[j].now, todo |-> expiry[j].todo,
                         user |-> u, found |-> f]
  <2>1. /\ expiry' = [expiry EXCEPT ![j] = IF f = {} THEN NextUser(expiry[j], u) ELSE holding]
        /\ UNCHANGED <<machine, recovery>>
    BY <1>5 DEF ExpiryFind, tables
  <2>2. holding.found = {m \in Active(holding.user) : ExpiredBy(m, holding.now)}
    BY DEF Expired
  <2>3. NextUser(expiry[j], u).at # "found"
    BY NextIsNotFound
  <2> HIDE DEF holding, f
  <2>4. \A i \in Jobs : i # j => expiry'[i] = expiry[i]
    BY <2>1
  <2>5. expiry'[j] = holding \/ expiry'[j].at # "found"
    BY <2>1, <2>3 DEF Shape
  <2> QED BY <1>0, <2>1, <2>2, <2>4, <2>5 DEF FoundIsFresh, Active, ExpiredBy
<1>6. ASSUME UNCHANGED machine,
             \A u \in Users : recovery'[u].at = "found" => recovery'[u] = recovery[u],
             \A j \in Jobs : expiry'[j].at = "found" => expiry'[j] = expiry[j]
      PROVE  FoundIsFresh'
  BY <1>0, <1>6, FreshKept
<1>7. ASSUME NEW h \in Handlers,
             (\E u \in Users, p \in Products : BuyRead(h, u, p)) \/ BuySplit(h) \/ BuyFails(h)
      PROVE  FoundIsFresh'
  BY <1>6, <1>7, Zenon DEF BuyRead, BuySplit, BuyFails, tables
<1>8. ASSUME NEW u \in Users, TrialEnds(u) \/ RecoverRead(u) \/ RecoveryFails(u)
      PROVE  FoundIsFresh'
  BY <1>6, <1>8 DEF TrialEnds, RecoverRead, RecoveryFails, tables, handlers, Shape, Idle
<1>9. ASSUME NEW m \in MachineIds, RentalEnds(m) \/ RewardPay(m) \/ RewardClash(m)
      PROVE  FoundIsFresh'
  BY <1>6, <1>9 DEF RentalEnds, RewardPay, RewardClash, tables, handlers
<1>10. ASSUME NEW j \in Jobs, ExpiryStart(j) \/ ExpiryFails(j)
       PROVE  FoundIsFresh'
  <2>1. PICK new : expiry' = [expiry EXCEPT ![j] = new] /\ new.at # "found"
    BY <1>10 DEF ExpiryStart, ExpiryFails, Idle
  <2>2. UNCHANGED <<machine, recovery>>
    BY <1>10 DEF ExpiryStart, ExpiryFails, tables
  <2> QED BY <1>6, <2>1, <2>2 DEF Shape
<1>11. CASE RewardStart \/ RewardFails \/ UNCHANGED vars
  BY <1>6, <1>11 DEF RewardStart, RewardFails, vars, tables, handlers
<1>12. CASE Crash
  BY <1>6, <1>12 DEF Crash, tables, Idle
<1> QED BY <1>1, <1>2, <1>3, <1>4, <1>5, <1>7, <1>8, <1>9, <1>10, <1>11, <1>12
        DEF Next, Buy, Recover, Expire

-----------------------------------------------------------------------------
(* The shape of the rows.  What a trial fund is to pay of a machine is never *)
(* more than its price, and a machine's two payments are its price.         *)
SplitFits ==
  \A h \in Handlers : buy[h].at = "split" => buy[h].trialSpend <= Price[buy[h].product]

PaidInFull(row) == row.walletSpend + row.trialSpend = Price[row.product]
RowsAddUp == \A m \in MachineIds : machine[m] # Absent => PaidInFull(machine[m])

(* What a recovery or a refund has found are machines of its user.          *)
FoundExist ==
  /\ \A u \in Users : recovery[u].at = "found" =>
        \A m \in recovery[u].found : machine[m] # Absent /\ machine[m].user = u
  /\ \A j \in Jobs : expiry[j].at = "found" =>
        \A m \in expiry[j].found : machine[m] # Absent /\ machine[m].user = expiry[j].user

(* A run that has machines to pay for has a date.                           *)
RunIsDated == run.todo # {} => run.date > 0

(* The history is of machines and users.                                    *)
HistoryFits == clashed \subseteq MachineIds /\ rushed \subseteq Users /\ met \subseteq Users

TypeInv == TypeOK /\ SplitFits /\ RowsAddUp /\ FoundExist /\ RunIsDated

LEMMA PriceType == \A p \in Products : Price[p] \in Nat /\ Price[p] > 0
BY MachinesAssumption

LEMMA RewardOfType == \A p \in Products : RewardOf(p) \in Nat
<1> TAKE p \in Products
<1>1. ProductLevel[p] \in 0..6
  BY MachinesAssumption
<1>2. \A l \in 0..6 : PctByLevel[l] \in Nat
  BY DEF PctByLevel
<1>3. Price[p] * PctByLevel[ProductLevel[p]] \in Nat
  <2>1. \A a, b \in Nat : a * b \in Nat
    OBVIOUS
  <2> QED BY <1>1, <1>2, <2>1, PriceType
<1> DEFINE x == Price[p] * PctByLevel[ProductLevel[p]]
<1> HIDE DEF x
<1>4. (x + 5000) \div 10000 \in Nat
  BY <1>3 DEF x
<1> QED BY <1>4 DEF RewardOf, x

LEMMA ShareType ==
  \A c \in Nat : /\ Percent(100, c) = c
                 /\ Percent(18, c) \in Nat /\ Percent(9, c) \in Nat /\ Percent(5, c) \in Nat
BY DEF Percent

LEMMA TeamBonusType == \A a, u : \A e \in Nat : TeamBonus(a, u, e) \in Nat
<1> TAKE a, u
<1> TAKE e \in Nat
<1> DEFINE Share(k) == IF Uplines(u)[k] = a THEN Percent(CommissionRates[k], e) ELSE 0
<1>1. CommissionRates[1] = 18 /\ CommissionRates[2] = 9 /\ CommissionRates[3] = 5
  BY DEF CommissionRates
<1>2. Share(1) \in Nat /\ Share(2) \in Nat /\ Share(3) \in Nat
  BY <1>1, ShareType
<1>3. TeamBonus(a, u, e) = Share(1) + Share(2) + Share(3)
  BY DEF TeamBonus
<1> HIDE DEF Share
<1> QED BY <1>2, <1>3

LEMMA MachineMoveType ==
  ASSUME NEW wal \in [Accounts -> Wallet], NEW a \in Accounts, NEW b \in Int, NEW r \in Int
  PROVE  Move(wal, a, b, r) \in [Accounts -> Wallet]
BY DEF Move, Wallet

(* The trial fund pays no more than the price and than what it has left.    *)
LEMMA FromTrialFits ==
  ASSUME NEW u, trial[u].used \in Int, NEW price \in Nat
  PROVE  /\ FromTrial(u, price) \in Nat
         /\ FromTrial(u, price) <= price
         /\ trial[u].status # "ACTIVE" => FromTrial(u, price) = 0
         /\ trial[u].used <= TRIAL_AMOUNT => trial[u].used + FromTrial(u, price) <= TRIAL_AMOUNT
<1> DEFINE left == TRIAL_AMOUNT - trial[u].used
           some == Max({0, left})
<1>1. left \in Int
  BY DEF TRIAL_AMOUNT
<1>2. some = IF 0 >= left THEN 0 ELSE left
  <2> HIDE DEF left
  <2> QED BY <1>1, MaxOfTwo
<1>3. some \in Nat
  <2> HIDE DEF left
  <2> QED BY <1>1, <1>2
<1>4. Min({price, some}) = IF price <= some THEN price ELSE some
  <2> HIDE DEF some
  <2> QED BY <1>3, MinOfTwo
<1>5. FromTrial(u, price) = IF trial[u].status = "ACTIVE" THEN Min({price, some}) ELSE 0
  BY DEF FromTrial
<1> DEFINE ft == FromTrial(u, price)
<1>6. ft = IF trial[u].status = "ACTIVE" THEN IF price <= some THEN price ELSE some ELSE 0
  <2> HIDE DEF some
  <2> QED BY <1>4, <1>5
<1> HIDE DEF ft, some
<1>7. ft \in Nat /\ ft <= price /\ (trial[u].status # "ACTIVE" => ft = 0)
  BY <1>3, <1>6
<1>8. trial[u].used <= TRIAL_AMOUNT => trial[u].used + ft <= TRIAL_AMOUNT
  BY <1>2, <1>3, <1>6 DEF TRIAL_AMOUNT
<1> QED BY <1>7, <1>8 DEF ft

Profile == [points : Nat, level : Nat]

LEMMA AwardedType ==
  ASSUME NEW profile \in Profile, NEW inc \in Nat
  PROVE  /\ Awarded(profile, inc) \in Profile
         /\ Awarded(profile, inc).points = profile.points + inc
         /\ inc > 0 => \A l \in Reached(profile.points + inc) : l <= Awarded(profile, inc).level
         /\ inc = 0 => Awarded(profile, inc) = profile
<1> DEFINE pts == profile.points + inc
           levels == Reached(pts) \cup {profile.level}
<1>0. profile.points \in Nat /\ profile.level \in Nat /\ pts \in Nat
  BY DEF Profile
<1>1. IsFiniteSet(levels)
  <2> DEFINE rows == {r \in LevelRows : r.points <= pts}
             f == [r \in LevelRows |-> r.level]
  <2>1. IsFiniteSet(rows)
    BY MachinesAssumption, FS_Subset
  <2>2. Reached(pts) = {f[r] : r \in rows}
    BY DEF Reached
  <2> HIDE DEF f, rows
  <2>3. IsFiniteSet(Reached(pts))
    BY <2>1, <2>2, ImageIsFinite
  <2> QED BY <2>3, FS_AddElement
<1>2. levels # {} /\ levels \subseteq Nat
  BY <1>0, MachinesAssumption DEF Reached
<1> DEFINE top == Max(levels)
<1>3. top \in levels /\ \A l \in levels : l <= top
  <2>1. levels \subseteq Int
    BY <1>2
  <2> HIDE DEF levels
  <2> QED BY <1>1, <1>2, <2>1, MaxIsGreatest
<1>4. top \in Nat /\ \A l \in Reached(pts) : l <= top
  BY <1>2, <1>3
<1>5. Awarded(profile, inc) = IF inc = 0 THEN profile ELSE [points |-> pts, level |-> top]
  BY DEF Awarded
<1> HIDE DEF top, levels
<1> QED BY <1>0, <1>4, <1>5 DEF Profile

(* What a purchase that is in flight is about                               *)
LEMMA PurchaseType ==
  ASSUME TypeOK, NEW h \in Handlers, buy[h] # Idle
  PROVE  /\ buy[h] \in Purchase /\ buy[h].user \in Users /\ buy[h].product \in Products
         /\ buy[h].at = "read" => buy[h].balance \in Int
         /\ buy[h].at = "split" => buy[h].trialSpend \in Nat
<1>1. buy[h] \in Purchase
  BY DEF TypeOK
<1> QED BY <1>1 DEF Purchase

LEMMA MachineRow ==
  ASSUME TypeOK, NEW m \in MachineIds, machine[m] # Absent
  PROVE  /\ machine[m] \in Machine
         /\ machine[m].user \in Users /\ machine[m].product \in Products
         /\ machine[m].walletSpend \in Nat /\ machine[m].trialSpend \in Nat
         /\ machine[m].status \in {"ACTIVE", "REFUNDED"}
<1>1. machine[m] \in Machine
  BY DEF TypeOK
<1> QED BY <1>1 DEF Machine

(* What a job in flight holds                                               *)
LEMMA ExpiryType ==
  ASSUME TypeOK, NEW j \in Jobs, expiry[j] # Idle
  PROVE  /\ expiry[j] \in Expiry
         /\ expiry[j].now \in SUBSET (Users \cup MachineIds) /\ expiry[j].todo \in SUBSET Users
         /\ expiry[j].at = "found" => /\ expiry[j].user \in Users
                                      /\ expiry[j].found \in SUBSET MachineIds
<1>1. expiry[j] \in Expiry
  BY DEF TypeOK
<1> QED BY <1>1 DEF Expiry

(* What has been found are machine ids.                                     *)
LEMMA FoundType ==
  ASSUME TypeOK
  PROVE  /\ \A u \in Users : recovery[u].at = "found" => recovery[u].found \subseteq MachineIds
         /\ \A j \in Jobs : expiry[j].at = "found" => expiry[j].found \subseteq MachineIds
<1>1. Idle.at # "found"
  BY DEF Idle
<1>2. ASSUME NEW u \in Users, recovery[u].at = "found"
      PROVE  recovery[u].found \subseteq MachineIds
  <2>1. recovery[u] \in [at : {"checked", "found"}, found : SUBSET MachineIds]
    BY <1>1, <1>2 DEF TypeOK
  <2> QED BY <2>1
<1>3. ASSUME NEW j \in Jobs, expiry[j].at = "found"
      PROVE  expiry[j].found \subseteq MachineIds
  BY <1>1, <1>3, ExpiryType
<1> QED BY <1>2, <1>3

LEMMA FoundTheirs == ASSUME TypeOK, FoundExist PROVE FoundAreTheirs
BY FoundType DEF FoundExist, FoundAreTheirs

(* A machine that is ACTIVE or REFUNDED is there.                           *)
LEMMA ActiveIsThere ==
  /\ Absent.status = "ABSENT"
  /\ \A u : \A m \in Active(u) : m \in MachineIds /\ machine[m] # Absent /\ machine[m].user = u
BY DEF Absent, Active

LEMMA RefundedRowType ==
  ASSUME NEW row \in Machine
  PROVE  /\ RefundedRow(row) \in Machine
         /\ RefundedRow(row).user = row.user /\ RefundedRow(row).product = row.product
         /\ RefundedRow(row).walletSpend = row.walletSpend
         /\ RefundedRow(row).trialSpend = row.trialSpend
         /\ RefundedRow(row).status = "REFUNDED"
BY DEF Machine, RefundedRow

(* What the wallet or the trial fund spent on machines that are there       *)
LEMMA SpentType ==
  ASSUME TypeOK, NEW ms \in SUBSET MachineIds, \A m \in ms : machine[m] # Absent
  PROVE  WalletSum(ms) \in Nat /\ TrialSum(ms) \in Nat /\ RefundedPrice(ms) \in Nat
<1> DEFINE W == [m \in MachineIds |-> machine[m].walletSpend]
           T == [m \in MachineIds |-> machine[m].trialSpend]
           C == [m \in MachineIds |-> Price[machine[m].product]]
<1>1. IsFiniteSet(ms)
  BY MachinesAssumption, FS_Subset
<1>2. \A m \in ms : W[m] \in Nat /\ T[m] \in Nat /\ C[m] \in Nat
  BY MachineRow, PriceType
<1>3. WalletSum(ms) = SumFunctionOnSet(W, ms) /\ TrialSum(ms) = SumFunctionOnSet(T, ms)
      /\ RefundedPrice(ms) = SumFunctionOnSet(C, ms)
  BY DEF WalletSum, TrialSum, RefundedPrice
<1> HIDE DEF W, T, C
<1> QED BY <1>1, <1>2, <1>3, SumNat

(* Ending machines keeps the rows' shape, and what they say but the status. *)
LEMMA WithoutType ==
  ASSUME TypeOK, RowsAddUp, NEW ms \in SUBSET MachineIds, \A m \in ms : machine[m] # Absent,
         machine' = MachinesWithout(ms)
  PROVE  /\ machine' \in [MachineIds -> Machine \cup {Absent}]
         /\ \A m \in MachineIds : machine'[m] # Absent <=> machine[m] # Absent
         /\ \A m \in MachineIds : machine'[m].user = machine[m].user
         /\ RowsAddUp'
<1>1. \A m \in MachineIds : machine'[m] = IF m \in ms THEN RefundedRow(machine[m])
                                          ELSE machine[m]
  BY DEF MachinesWithout
<1>2. \A m \in ms : machine[m] \in Machine
  BY MachineRow
<1>3. \A m \in ms : /\ machine'[m] \in Machine /\ machine'[m] # Absent
                    /\ machine'[m].user = machine[m].user
                    /\ PaidInFull(machine[m]) => PaidInFull(machine'[m])
  <2> TAKE m \in ms
  <2>1. machine'[m] = RefundedRow(machine[m]) /\ machine[m] \in Machine
    BY <1>1, <1>2
  <2>2. machine'[m].status = "REFUNDED" /\ Absent.status = "ABSENT"
    BY <2>1, RefundedRowType, ActiveIsThere
  <2>3. PaidInFull(machine[m]) => PaidInFull(machine'[m])
    BY <2>1, RefundedRowType DEF PaidInFull
  <2> QED BY <2>1, <2>2, <2>3, RefundedRowType
<1>4. machine' = [m \in MachineIds |-> IF m \in ms THEN RefundedRow(machine[m]) ELSE machine[m]]
  BY DEF MachinesWithout
<1>5. machine' \in [MachineIds -> Machine \cup {Absent}]
  <2>1. \A m \in MachineIds : machine'[m] \in Machine \cup {Absent}
    BY <1>1, <1>3 DEF TypeOK
  <2> QED BY <1>4, <2>1
<1>6. \A m \in MachineIds : machine'[m] # Absent <=> machine[m] # Absent
  BY <1>1, <1>3
<1>7. RowsAddUp'
  BY <1>1, <1>3, <1>6 DEF RowsAddUp
<1>8. \A m \in MachineIds : machine'[m].user = machine[m].user
  BY <1>1, <1>3
<1> QED BY <1>5, <1>6, <1>7, <1>8

-----------------------------------------------------------------------------
LEMMA BuyReadType ==
  ASSUME TypeInv, HistoryFits', NEW h \in Handlers, NEW u \in Users, NEW p \in Products, BuyRead(h, u, p)
  PROVE  TypeInv'
<1> DEFINE new == [at |-> "read", user |-> u, product |-> p, balance |-> wallet[u].balance]
<1>1. /\ buy' = [buy EXCEPT ![h] = new]
      /\ UNCHANGED <<wallet, user, trial, machine, reward, timer, past, recovery, expiry, run>>
  BY DEF BuyRead, tables
<1>2. wallet[u].balance \in Int
  BY DEF TypeInv, TypeOK, Accounts, Wallet
<1>3. new \in Purchase /\ new.at = "read"
  BY <1>2 DEF Purchase
<1> HIDE DEF new
<1>4. buy' \in [Handlers -> Purchase \cup {Idle}]
  BY <1>1, <1>3 DEF TypeInv, TypeOK
<1>5. TypeOK'
  BY <1>1, <1>4 DEF HistoryFits, TypeInv, TypeOK
<1>6. SplitFits'
  <2>1. \A g \in Handlers : buy'[g].at = "split" => buy'[g] = buy[g]
    BY <1>1, <1>3 DEF TypeInv, TypeOK
  <2> QED BY <2>1 DEF SplitFits, TypeInv
<1> QED BY <1>1, <1>5, <1>6 DEF TypeInv, RowsAddUp, FoundExist, RunIsDated

LEMMA BuySplitType ==
  ASSUME TypeInv, HistoryFits', NEW h \in Handlers, BuySplit(h)
  PROVE  TypeInv'
<1> DEFINE price == Price[buy[h].product]
           spend == FromTrial(buy[h].user, price)
           new == [at |-> "split", user |-> buy[h].user, product |-> buy[h].product,
                   trialSpend |-> spend]
<1>1. /\ buy' = [buy EXCEPT ![h] = new] \/ buy' = [buy EXCEPT ![h] = Idle]
      /\ buy[h].at = "read"
      /\ UNCHANGED <<wallet, user, trial, machine, reward, timer, past, recovery, expiry, run>>
  BY DEF BuySplit, tables
<1>2. buy[h].user \in Users /\ buy[h].product \in Products
  BY <1>1, PurchaseType DEF Idle, TypeInv
<1>3. spend \in Nat /\ spend <= price
  <2>1. trial[buy[h].user].used \in Int
    BY <1>2 DEF TypeInv, TypeOK
  <2>2. price \in Nat
    BY <1>2, PriceType
  <2> HIDE DEF price
  <2> QED BY <2>1, <2>2, FromTrialFits
<1> HIDE DEF spend
<1>4. new \in Purchase /\ new.product = buy[h].product /\ new.trialSpend = spend
  BY <1>2, <1>3 DEF Purchase
<1> HIDE DEF new
<1>5. buy' \in [Handlers -> Purchase \cup {Idle}]
  BY <1>1, <1>4 DEF TypeInv, TypeOK
<1>6. TypeOK'
  BY <1>1, <1>5 DEF HistoryFits, TypeInv, TypeOK
<1>7. SplitFits'
  <2>1. \A g \in Handlers : buy'[g].at = "split" => buy'[g] = buy[g] \/ buy'[g] = new
    BY <1>1 DEF TypeInv, TypeOK, Idle
  <2> QED BY <1>3, <1>4, <2>1 DEF SplitFits, TypeInv
<1> QED BY <1>1, <1>6, <1>7 DEF TypeInv, RowsAddUp, FoundExist, RunIsDated

(* What BuyCommit does, in terms of the two payments                        *)
LEMMA BuyCommitDoes ==
  ASSUME TypeInv, NEW h \in Handlers, NEW m \in MachineIds, BuyCommit(h, m)
  PROVE  \E u \in Users, p \in Products, spend \in Nat, row \in Machine :
           /\ buy[h].at = "split" /\ machine[m] = Absent
           /\ u = buy[h].user /\ p = buy[h].product /\ spend = buy[h].trialSpend
           /\ spend <= Price[p]
           /\ row.user = u /\ row.product = p /\ row.status = "ACTIVE"
           /\ row.walletSpend = Price[p] - spend /\ row.trialSpend = spend
           /\ row.inTrial = (u \notin past)
           /\ wallet' = Move(Move(wallet, u, spend - Price[p], Price[p]), Seller, Price[p], 0)
           /\ trial' = [trial EXCEPT ![u] = [status |-> trial[u].status,
                                             used |-> trial[u].used + spend]]
           /\ machine' = [machine EXCEPT ![m] = row]
           /\ user' = [user EXCEPT ![u] = Awarded(user[u], Points(Price[p]))]
           /\ buy' = [buy EXCEPT ![h] = Idle]
           /\ UNCHANGED <<reward, timer, past, recovery, expiry, run>>
<1> DEFINE u == buy[h].user
           p == buy[h].product
           spend == buy[h].trialSpend
           row == [user |-> u, product |-> p, walletSpend |-> Price[p] - spend,
                   trialSpend |-> spend, inTrial |-> u \notin past, status |-> "ACTIVE"]
<1>1. /\ buy[h].at = "split" /\ machine[m] = Absent
      /\ wallet' = Move(Move(wallet, u, spend - Price[p], Price[p]), Seller, Price[p], 0)
      /\ trial' = [trial EXCEPT ![u] = [status |-> trial[u].status,
                                        used |-> trial[u].used + spend]]
      /\ machine' = [machine EXCEPT ![m] = row]
      /\ user' = [user EXCEPT ![u] = Awarded(user[u], Points(Price[p]))]
      /\ buy' = [buy EXCEPT ![h] = Idle]
      /\ UNCHANGED <<reward, timer, past, recovery, expiry, run>>
  BY DEF BuyCommit
<1>2. u \in Users /\ p \in Products /\ spend \in Nat
  BY <1>1, PurchaseType DEF Idle, TypeInv
<1>3. spend <= Price[p] /\ Price[p] \in Nat
  BY <1>1, <1>2, PriceType DEF TypeInv, SplitFits
<1>4. Price[p] - spend \in Nat
  BY <1>2, <1>3
<1>5. row \in Machine
  BY <1>2, <1>4 DEF Machine
<1>6. /\ row.user = u /\ row.product = p /\ row.status = "ACTIVE"
      /\ row.walletSpend = Price[p] - spend /\ row.trialSpend = spend
      /\ row.inTrial = (u \notin past)
  OBVIOUS
<1> HIDE DEF u, p, spend, row
<1> QED BY <1>1, <1>2, <1>3, <1>5, <1>6 DEF u, p, spend

LEMMA BuyCommitType ==
  ASSUME TypeInv, HistoryFits', NEW h \in Handlers, NEW m \in MachineIds, BuyCommit(h, m)
  PROVE  TypeInv'
<1>1. PICK u \in Users, p \in Products, spend \in Nat, row \in Machine :
           /\ buy[h].at = "split" /\ machine[m] = Absent
           /\ spend <= Price[p]
           /\ row.product = p /\ row.status = "ACTIVE"
           /\ row.walletSpend = Price[p] - spend /\ row.trialSpend = spend
           /\ wallet' = Move(Move(wallet, u, spend - Price[p], Price[p]), Seller, Price[p], 0)
           /\ trial' = [trial EXCEPT ![u] = [status |-> trial[u].status,
                                             used |-> trial[u].used + spend]]
           /\ machine' = [machine EXCEPT ![m] = row]
           /\ user' = [user EXCEPT ![u] = Awarded(user[u], Points(Price[p]))]
           /\ buy' = [buy EXCEPT ![h] = Idle]
           /\ UNCHANGED <<reward, timer, past, recovery, expiry, run>>
  BY BuyCommitDoes
<1>2. Price[p] \in Nat /\ spend - Price[p] \in Int
  BY PriceType
<1>3. wallet' \in [Accounts -> Wallet]
  <2>1. u \in Accounts /\ Seller \in Accounts /\ wallet \in [Accounts -> Wallet]
    BY DEF Accounts, TypeInv, TypeOK
  <2>2. Move(wallet, u, spend - Price[p], Price[p]) \in [Accounts -> Wallet]
    BY <1>2, <2>1, MachineMoveType
  <2>3. Move(Move(wallet, u, spend - Price[p], Price[p]), Seller, Price[p], 0)
          \in [Accounts -> Wallet]
    BY <1>2, <2>1, <2>2, MachineMoveType
  <2> QED BY <1>1, <2>3
<1>4. trial' \in [Users -> [status : {"ACTIVE", "RECOVERED"}, used : Int]]
  <2> DEFINE new == [status |-> trial[u].status, used |-> trial[u].used + spend]
  <2>1. new \in [status : {"ACTIVE", "RECOVERED"}, used : Int]
    BY DEF TypeInv, TypeOK
  <2>2. trial' = [trial EXCEPT ![u] = new]
    BY <1>1
  <2> HIDE DEF new
  <2> QED BY <2>1, <2>2 DEF TypeInv, TypeOK
<1>5. machine' \in [MachineIds -> Machine \cup {Absent}] /\ machine'[m] = row /\ row # Absent
  BY <1>1, ActiveIsThere DEF TypeInv, TypeOK
<1>6. user' \in [Users -> [points : Nat, level : Nat]]
  <2>1. Points(Price[p]) \in Nat
    BY <1>2 DEF Points
  <2>2. Awarded(user[u], Points(Price[p])) \in Profile
    BY <2>1, AwardedType DEF TypeInv, TypeOK, Profile
  <2> QED BY <1>1, <2>2 DEF TypeInv, TypeOK, Profile
<1>7. buy' \in [Handlers -> Purchase \cup {Idle}]
  BY <1>1 DEF TypeInv, TypeOK
<1>8. \A n \in MachineIds : machine[n] # Absent => machine'[n] = machine[n]
  BY <1>1 DEF TypeInv, TypeOK
<1>9. \A n \in run'.todo : machine'[n] # Absent
  BY <1>1, <1>8 DEF TypeInv, TypeOK
<1>10. TypeOK'
  BY <1>1, <1>3, <1>4, <1>5, <1>6, <1>7, <1>9 DEF HistoryFits, TypeInv, TypeOK
<1>11. SplitFits'
  BY <1>1 DEF TypeInv, TypeOK, SplitFits, Idle
<1>12. PaidInFull(row)
  BY <1>1, <1>2 DEF PaidInFull
<1>13. RowsAddUp'
  <2>1. \A n \in MachineIds : n # m => machine'[n] = machine[n]
    BY <1>1 DEF TypeInv, TypeOK
  <2> QED BY <1>5, <1>12, <2>1 DEF TypeInv, RowsAddUp
<1>14. FoundExist'
  <2>1. \A v \in Users : recovery[v].at = "found" => recovery[v].found \subseteq MachineIds
    BY FoundType DEF TypeInv
  <2>2. \A j \in Jobs : expiry[j].at = "found" => expiry[j].found \subseteq MachineIds
    BY FoundType DEF TypeInv
  <2> QED BY <1>1, <1>8, <2>1, <2>2 DEF TypeInv, FoundExist
<1> QED BY <1>1, <1>10, <1>11, <1>13, <1>14 DEF TypeInv, RunIsDated

(* Giving back what the wallet spent                                        *)
LEMMA RefundType ==
  ASSUME TypeOK, NEW u \in Users, NEW ms \in SUBSET MachineIds, \A m \in ms : machine[m] # Absent
  PROVE  Refunded(u, ms) \in [Accounts -> Wallet]
<1>1. WalletSum(ms) \in Nat
  BY SpentType
<1>2. -WalletSum(ms) \in Int /\ WalletSum(ms) \in Int
  BY <1>1
<1> QED BY <1>2, MachineMoveType DEF Refunded, TypeOK, Accounts

RewardTable == [Users -> [Products -> [Runs -> {"NONE", "SUCCESS", "FAILED", "REVERSED"}]]]

LEMMA RecoverCommitType ==
  ASSUME TypeInv, HistoryFits', NEW u \in Users, RecoverCommit(u)
  PROVE  TypeInv'
<1> DEFINE found == recovery[u].found
           new == [p \in Products |-> [r \in Runs |->
                     IF p \in TrialProducts(found) /\ reward[u][p][r] # "NONE" THEN "REVERSED"
                     ELSE reward[u][p][r]]]
<1>1. /\ recovery[u].at = "found"
      /\ wallet' = Refunded(u, found)
      /\ machine' = MachinesWithout(found)
      /\ reward' = [reward EXCEPT ![u] = new]
      /\ trial' = [trial EXCEPT ![u] = [status |-> "RECOVERED", used |-> 0]]
      /\ recovery' = [recovery EXCEPT ![u] = Idle]
      /\ UNCHANGED <<user, timer, past, buy, expiry, run>>
  BY DEF RecoverCommit
<1>2. found \in SUBSET MachineIds /\ \A m \in found : machine[m] # Absent
  <2>1. recovery[u] # Idle
    BY <1>1 DEF Idle
  <2> QED BY <1>1, <2>1 DEF TypeInv, TypeOK, FoundExist
<1>3. new \in [Products -> [Runs -> {"NONE", "SUCCESS", "FAILED", "REVERSED"}]]
  BY DEF TypeInv, TypeOK
<1> HIDE DEF new, found
<1>4. wallet' \in [Accounts -> Wallet]
  BY <1>1, <1>2, RefundType DEF TypeInv
<1>5. /\ machine' \in [MachineIds -> Machine \cup {Absent}]
      /\ \A m \in MachineIds : machine'[m] # Absent <=> machine[m] # Absent
      /\ \A m \in MachineIds : machine'[m].user = machine[m].user
      /\ RowsAddUp'
  BY <1>1, <1>2, WithoutType DEF TypeInv
<1>6. /\ reward' \in RewardTable
      /\ trial' \in [Users -> [status : {"ACTIVE", "RECOVERED"}, used : Int]]
      /\ recovery' \in [Users -> [at : {"checked", "found"}, found : SUBSET MachineIds] \cup {Idle}]
  BY <1>1, <1>3 DEF TypeInv, TypeOK, RewardTable
<1>7. \A n \in run'.todo : machine'[n] # Absent
  BY <1>1, <1>5 DEF TypeInv, TypeOK
<1>8. TypeOK'
  BY <1>1, <1>4, <1>5, <1>6, <1>7 DEF HistoryFits, TypeInv, TypeOK, RewardTable
<1>9. SplitFits'
  BY <1>1 DEF TypeInv, SplitFits
<1>10. FoundExist'
  <2>1. \A v \in Users : recovery[v].at = "found" => recovery[v].found \subseteq MachineIds
    BY FoundType DEF TypeInv
  <2>2. \A j \in Jobs : expiry[j].at = "found" => expiry[j].found \subseteq MachineIds
    BY FoundType DEF TypeInv
  <2>3. \A v \in Users : recovery'[v].at = "found" => recovery'[v] = recovery[v]
    BY <1>1 DEF TypeInv, TypeOK, Idle
  <2> QED BY <1>1, <1>5, <2>1, <2>2, <2>3 DEF TypeInv, FoundExist
<1> QED BY <1>1, <1>5, <1>8, <1>9, <1>10 DEF TypeInv, RunIsDated

LEMMA NextUserType ==
  ASSUME TypeOK, NEW j \in Jobs, expiry[j] # Idle, NEW u
  PROVE  NextUser(expiry[j], u) \in Expiry \cup {Idle}
<1>1. expiry[j].todo \ {u} \in SUBSET Users /\ expiry[j].now \in SUBSET (Users \cup MachineIds)
  BY ExpiryType
<1> QED BY <1>1 DEF NextUser, Expiry

LEMMA ExpiryCommitType ==
  ASSUME TypeInv, HistoryFits', NEW j \in Jobs, ExpiryCommit(j)
  PROVE  TypeInv'
<1> DEFINE u == expiry[j].user
           found == expiry[j].found
           ended == Expired(u, expiry[j].now)
           new == [p \in Products |-> [r \in Runs |->
                     IF p \in TrialProducts(found) /\ reward[u][p][r] = "SUCCESS" THEN "FAILED"
                     ELSE reward[u][p][r]]]
<1>1. /\ expiry[j].at = "found"
      /\ wallet' = Refunded(u, found)
      /\ machine' = MachinesWithout(ended)
      /\ trial' = IF TrialSum(found) > 0
                  THEN [trial EXCEPT ![u] = Returned(trial[u], TrialSum(found))] ELSE trial
      /\ reward' = [reward EXCEPT ![u] = new]
      /\ expiry' = [expiry EXCEPT ![j] = NextUser(expiry[j], u)]
      /\ UNCHANGED <<user, timer, past, buy, recovery, run>>
  BY DEF ExpiryCommit
<1>2. expiry[j] # Idle
  BY <1>1 DEF Idle
<1>3. u \in Users /\ found \in SUBSET MachineIds /\ \A m \in found : machine[m] # Absent
  BY <1>1, <1>2, ExpiryType DEF TypeInv, FoundExist
<1>4. ended \in SUBSET MachineIds /\ \A m \in ended : machine[m] # Absent
  BY ActiveIsThere DEF Expired
<1>5. new \in [Products -> [Runs -> {"NONE", "SUCCESS", "FAILED", "REVERSED"}]]
  BY <1>3 DEF TypeInv, TypeOK
<1>6. NextUser(expiry[j], u) \in Expiry \cup {Idle} /\ NextUser(expiry[j], u).at # "found"
  BY <1>2, NextUserType, NextIsNotFound DEF TypeInv
<1>7. TrialSum(found) \in Nat
  BY <1>3, SpentType DEF TypeInv
<1> HIDE DEF u, found, ended, new
<1>8. wallet' \in [Accounts -> Wallet]
  BY <1>1, <1>3, RefundType DEF TypeInv
<1>9. /\ machine' \in [MachineIds -> Machine \cup {Absent}]
      /\ \A m \in MachineIds : machine'[m] # Absent <=> machine[m] # Absent
      /\ \A m \in MachineIds : machine'[m].user = machine[m].user
      /\ RowsAddUp'
  BY <1>1, <1>4, WithoutType DEF TypeInv
<1>10. trial' \in [Users -> [status : {"ACTIVE", "RECOVERED"}, used : Int]]
  <2> DEFINE row == Returned(trial[u], TrialSum(found))
  <2>1. row \in [status : {"ACTIVE", "RECOVERED"}, used : Int]
    <3>1. trial[u].used - TrialSum(found) \in Int /\ trial[u].status \in {"ACTIVE", "RECOVERED"}
      BY <1>3, <1>7 DEF TypeInv, TypeOK
    <3> QED BY <3>1 DEF Returned
  <2>2. trial' = [trial EXCEPT ![u] = row] \/ trial' = trial
    BY <1>1
  <2> HIDE DEF row
  <2> QED BY <2>1, <2>2 DEF TypeInv, TypeOK
<1>11. reward' \in RewardTable /\ expiry' \in [Jobs -> Expiry \cup {Idle}]
  BY <1>1, <1>5, <1>6 DEF TypeInv, TypeOK, RewardTable
<1>12. \A n \in run'.todo : machine'[n] # Absent
  BY <1>1, <1>9 DEF TypeInv, TypeOK
<1>13. TypeOK'
  BY <1>1, <1>8, <1>9, <1>10, <1>11, <1>12 DEF HistoryFits, TypeInv, TypeOK, RewardTable
<1>14. SplitFits'
  BY <1>1 DEF TypeInv, SplitFits
<1>15. FoundExist'
  <2>1. \A v \in Users : recovery[v].at = "found" => recovery[v].found \subseteq MachineIds
    BY FoundType DEF TypeInv
  <2>2. \A i \in Jobs : expiry[i].at = "found" => expiry[i].found \subseteq MachineIds
    BY FoundType DEF TypeInv
  <2>3. \A i \in Jobs : expiry'[i].at = "found" => expiry'[i] = expiry[i]
    BY <1>1, <1>6 DEF TypeInv, TypeOK
  <2> QED BY <1>1, <1>9, <2>1, <2>2, <2>3 DEF TypeInv, FoundExist
<1> QED BY <1>1, <1>9, <1>13, <1>14, <1>15 DEF TypeInv, RunIsDated

(* What RewardPay does, in terms of the machine's owner and product         *)
LEMMA RewardPayDoes ==
  ASSUME TypeInv, NEW m \in MachineIds, RewardPay(m)
  PROVE  \E u \in Users, p \in Products, d \in Runs :
           /\ reward[u][p][d] = "NONE"
           /\ reward' \in RewardTable
           /\ \A v \in Users, q \in Products, r \in Runs :
                 reward'[v][q][r] = IF v = u /\ q = p /\ r = d THEN "SUCCESS" ELSE reward[v][q][r]
           /\ wallet' \in [Accounts -> Wallet]
           /\ \A a \in Accounts :
                 /\ wallet'[a].balance = wallet[a].balance + TeamBonus(a, u, RewardOf(p))
                                           + (IF a = u THEN RewardOf(p) ELSE 0)
                 /\ wallet'[a].reserved = wallet[a].reserved
           /\ run' \in [date : 0..MaxRuns, todo : SUBSET MachineIds] /\ run'.todo \subseteq run.todo
           /\ run'.todo # {} => run'.date > 0
           /\ UNCHANGED <<user, trial, machine, timer, past, buy, recovery, expiry>>
<1> DEFINE u == machine[m].user
           p == machine[m].product
           d == run.date
           paid(a) == wallet[a].balance + TeamBonus(a, u, RewardOf(p))
                        + (IF a = u THEN RewardOf(p) ELSE 0)
<1>1. /\ m \in run.todo
      /\ reward[u][p][d] = "NONE"
      /\ reward' = [reward EXCEPT ![u][p][d] = "SUCCESS"]
      /\ wallet' = [a \in Accounts |-> [balance |-> paid(a), reserved |-> wallet[a].reserved]]
      /\ run' = [date |-> run.date, todo |-> run.todo \ {m}]
      /\ UNCHANGED <<user, trial, machine, timer, past, buy, recovery, expiry>>
  BY DEF RewardPay
<1>2. u \in Users /\ p \in Products
  BY <1>1, MachineRow DEF TypeInv, TypeOK
<1>3. run.date \in 0..MaxRuns /\ run.todo \in SUBSET MachineIds
  BY DEF TypeInv, TypeOK
<1>4. d \in Runs
  BY <1>1, <1>3, MachinesAssumption DEF TypeInv, RunIsDated, Runs
<1>5. RewardOf(p) \in Nat
  BY <1>2, RewardOfType
<1>6. reward \in RewardTable
  BY DEF TypeInv, TypeOK, RewardTable
<1>7. /\ run' \in [date : 0..MaxRuns, todo : SUBSET MachineIds] /\ run'.todo \subseteq run.todo
      /\ run'.todo # {} => run'.date > 0
  BY <1>1, <1>3 DEF TypeInv, RunIsDated
<1>8. \A a \in Accounts : paid(a) \in Int /\ wallet[a].reserved \in Int
  <2> TAKE a \in Accounts
  <2>1. wallet[a].balance \in Int /\ wallet[a].reserved \in Int
    BY DEF TypeInv, TypeOK, Wallet
  <2>2. TeamBonus(a, u, RewardOf(p)) \in Nat
    BY <1>5, TeamBonusType
  <2> QED BY <1>5, <2>1, <2>2
<1>9. wallet' \in [Accounts -> Wallet]
  <2> HIDE DEF paid
  <2> QED BY <1>1, <1>8 DEF Wallet
<1>10. \A a \in Accounts : wallet'[a].balance = paid(a) /\ wallet'[a].reserved = wallet[a].reserved
  <2> HIDE DEF paid
  <2> QED BY <1>1
<1> HIDE DEF u, p, d
<1>11. reward' \in RewardTable
  BY <1>1, <1>2, <1>4, <1>6 DEF RewardTable
<1>12. \A v \in Users, q \in Products, r \in Runs :
          reward'[v][q][r] = IF v = u /\ q = p /\ r = d THEN "SUCCESS" ELSE reward[v][q][r]
  BY <1>1, <1>2, <1>4, <1>6 DEF RewardTable
<1> QED BY <1>1, <1>2, <1>4, <1>7, <1>9, <1>10, <1>11, <1>12

(* Steps that change no table                                               *)
LEMMA RecoveryStepType ==
  ASSUME TypeInv, HistoryFits', NEW u \in Users, RecoverRead(u) \/ RecoverFind(u) \/ RecoveryFails(u)
  PROVE  TypeInv'
<1>1. PICK new : /\ recovery' = [recovery EXCEPT ![u] = new]
                 /\ \/ new = Idle
                    \/ new = [at |-> "checked", found |-> {}]
                    \/ new = [at |-> "found", found |-> Recoverable(u)]
  BY DEF RecoverRead, RecoverFind, RecoveryFails
<1>2. /\ UNCHANGED <<tables, past, buy, expiry, run>>
      /\ timer' \subseteq Users
  BY DEF RecoverRead, RecoverFind, RecoveryFails, TypeInv, TypeOK
<1>3. /\ Recoverable(u) \in SUBSET MachineIds
      /\ \A m \in Recoverable(u) : machine[m] # Absent /\ machine[m].user = u
  BY ActiveIsThere DEF Recoverable
<1>4. /\ new \in [at : {"checked", "found"}, found : SUBSET MachineIds] \cup {Idle}
      /\ new.at = "found" => \A m \in new.found : machine[m] # Absent /\ machine[m].user = u
  BY <1>1, <1>3 DEF Idle
<1>5. recovery' \in [Users -> [at : {"checked", "found"}, found : SUBSET MachineIds] \cup {Idle}]
  BY <1>1, <1>4 DEF TypeInv, TypeOK
<1>6. TypeOK'
  BY <1>2, <1>5 DEF HistoryFits, TypeInv, TypeOK, tables
<1>7. FoundExist'
  BY <1>1, <1>2, <1>4 DEF TypeInv, TypeOK, FoundExist, tables
<1> QED BY <1>2, <1>6, <1>7 DEF TypeInv, SplitFits, RowsAddUp, RunIsDated, tables

LEMMA ExpiryStepType ==
  ASSUME TypeInv, HistoryFits', NEW j \in Jobs,
         ExpiryStart(j) \/ (\E u \in Users : ExpiryFind(j, u)) \/ ExpiryFails(j)
  PROVE  TypeInv'
<1>1. UNCHANGED <<tables, timer, past, buy, recovery, run>>
  BY DEF ExpiryStart, ExpiryFind, ExpiryFails
<1>2. \E new \in Expiry \cup {Idle} :
        /\ expiry' = [expiry EXCEPT ![j] = new]
        /\ new.at = "found" =>
             \A m \in new.found : machine[m] # Absent /\ machine[m].user = new.user
  <2>1. CASE ExpiryStart(j)
    <3> DEFINE todo == {u \in Users : Expired(u, past) # {}}
               new == [at |-> "users", now |-> past, todo |-> todo]
    <3>1. expiry' = [expiry EXCEPT ![j] = new]
      BY <2>1 DEF ExpiryStart
    <3>2. past \in SUBSET (Users \cup MachineIds) /\ todo \in SUBSET Users
      BY DEF TypeInv, TypeOK
    <3> HIDE DEF todo
    <3>3. new \in Expiry /\ new.at # "found"
      BY <3>2 DEF Expiry
    <3> QED BY <3>1, <3>3
  <2>2. ASSUME NEW u \in Users, ExpiryFind(j, u)
        PROVE  \E new \in Expiry \cup {Idle} :
                 /\ expiry' = [expiry EXCEPT ![j] = new]
                 /\ new.at = "found" =>
                      \A m \in new.found : machine[m] # Absent /\ machine[m].user = new.user
    <3> DEFINE f == Expired(u, expiry[j].now)
               holding == [at |-> "found", now |-> expiry[j].now, todo |-> expiry[j].todo,
                           user |-> u, found |-> f]
    <3>1. /\ expiry' = [expiry EXCEPT ![j] = IF f = {} THEN NextUser(expiry[j], u) ELSE holding]
          /\ expiry[j].at = "users"
      BY <2>2 DEF ExpiryFind
    <3>2. expiry[j] # Idle
      BY <3>1 DEF Idle
    <3>3. f \in SUBSET MachineIds /\ \A m \in f : machine[m] # Absent /\ machine[m].user = u
      BY ActiveIsThere DEF Expired
    <3>4. NextUser(expiry[j], u) \in Expiry \cup {Idle} /\ NextUser(expiry[j], u).at # "found"
      BY <3>2, NextUserType, NextIsNotFound DEF TypeInv
    <3>5. expiry[j].now \in SUBSET (Users \cup MachineIds) /\ expiry[j].todo \in SUBSET Users
      BY <3>2, ExpiryType DEF TypeInv
    <3> HIDE DEF f
    <3>6. holding \in Expiry /\ holding.found = f /\ holding.user = u
      BY <3>3, <3>5 DEF Expiry
    <3> HIDE DEF holding
    <3>7. CASE f = {}
      BY <3>1, <3>4, <3>7
    <3>8. CASE f # {}
      BY <3>1, <3>3, <3>6, <3>8
    <3> QED BY <3>7, <3>8
  <2>3. CASE ExpiryFails(j)
    <3>1. expiry' = [expiry EXCEPT ![j] = Idle]
      BY <2>3 DEF ExpiryFails
    <3>2. Idle.at # "found" /\ Idle \in Expiry \cup {Idle}
      BY DEF Idle
    <3> QED BY <3>1, <3>2
  <2> QED BY <2>1, <2>2, <2>3
<1>3. PICK new \in Expiry \cup {Idle} :
        /\ expiry' = [expiry EXCEPT ![j] = new]
        /\ new.at = "found" =>
             \A m \in new.found : machine[m] # Absent /\ machine[m].user = new.user
  BY <1>2
<1>4. expiry' \in [Jobs -> Expiry \cup {Idle}]
  BY <1>3 DEF TypeInv, TypeOK
<1>5. TypeOK'
  BY <1>1, <1>4 DEF HistoryFits, TypeInv, TypeOK, tables
<1>6. FoundExist'
  BY <1>1, <1>3 DEF TypeInv, TypeOK, FoundExist, tables
<1> QED BY <1>1, <1>5, <1>6 DEF TypeInv, SplitFits, RowsAddUp, RunIsDated, tables

LEMMA HistoryType == ASSUME TypeInv, [Next]_vars PROVE HistoryFits'
<1> USE DEF history, HistoryFits
<1>0. HistoryFits
  BY DEF TypeInv, TypeOK
<1>1. ASSUME NEW h \in Handlers, Buy(h) \/ BuyFails(h)
      PROVE  HistoryFits'
  BY <1>0, <1>1 DEF Buy, BuyRead, BuySplit, BuyCommit, BuyFails
<1>2. ASSUME NEW u \in Users, TrialEnds(u) \/ Recover(u) \/ RecoveryFails(u)
      PROVE  HistoryFits'
  <2>1. Recoverable(u) \subseteq MachineIds
    BY DEF Recoverable, Active
  <2> QED BY <1>0, <1>2, <2>1
          DEF TrialEnds, Recover, RecoverRead, RecoverFind, RecoverCommit, RecoveryFails
<1>3. ASSUME NEW m \in MachineIds, RentalEnds(m) \/ RewardPay(m) \/ RewardClash(m)
      PROVE  HistoryFits'
  BY <1>0, <1>3 DEF RentalEnds, RewardPay, RewardClash
<1>4. ASSUME NEW j \in Jobs, Expire(j) \/ ExpiryFails(j)
      PROVE  HistoryFits'
  <2>1. \A u : Expired(u, expiry[j].now) \subseteq MachineIds
    BY DEF Expired, Active
  <2> QED BY <1>0, <1>4, <2>1 DEF Expire, ExpiryStart, ExpiryFind, ExpiryCommit, ExpiryFails
<1>5. CASE RewardStart \/ RewardFails \/ Crash \/ UNCHANGED vars
  BY <1>0, <1>5 DEF RewardStart, RewardFails, Crash, vars
<1> QED BY <1>1, <1>2, <1>3, <1>4, <1>5 DEF Next

LEMMA TypeStep == TypeInv /\ [Next]_vars => TypeInv'
<1> SUFFICES ASSUME TypeInv, [Next]_vars PROVE TypeInv'
  OBVIOUS
<1>0. HistoryFits'
  BY HistoryType
<1>1. ASSUME NEW h \in Handlers, Buy(h)
      PROVE  TypeInv'
  BY <1>0, <1>1, BuyReadType, BuySplitType, BuyCommitType DEF Buy
<1>2. ASSUME NEW h \in Handlers, BuyFails(h)
      PROVE  TypeInv'
  <2>1. buy' = [buy EXCEPT ![h] = Idle] /\ UNCHANGED <<tables, timer, past, recovery, expiry, run>>
    BY <1>2 DEF BuyFails
  <2>2. TypeOK'
    BY <1>0, <2>1 DEF HistoryFits, TypeInv, TypeOK, tables
  <2>3. SplitFits'
    BY <2>1 DEF TypeInv, TypeOK, SplitFits, Idle
  <2> QED BY <2>1, <2>2, <2>3 DEF TypeInv, RowsAddUp, FoundExist, RunIsDated, tables
<1>3. ASSUME NEW u \in Users, TrialEnds(u)
      PROVE  TypeInv'
  <2>1. past' = past \cup {u} /\ UNCHANGED <<tables, timer, handlers>>
    BY <1>3 DEF TrialEnds
  <2> QED BY <1>0, <2>1 DEF HistoryFits, TypeInv, TypeOK, SplitFits, RowsAddUp, FoundExist, RunIsDated, tables, handlers
<1>4. ASSUME NEW u \in Users, Recover(u) \/ RecoveryFails(u)
      PROVE  TypeInv'
  BY <1>0, <1>4, RecoveryStepType, RecoverCommitType DEF Recover
<1>5. ASSUME NEW m \in MachineIds, RentalEnds(m)
      PROVE  TypeInv'
  <2>1. past' = past \cup {m} /\ UNCHANGED <<tables, timer, handlers>>
    BY <1>5 DEF RentalEnds
  <2> QED BY <1>0, <2>1 DEF HistoryFits, TypeInv, TypeOK, SplitFits, RowsAddUp, FoundExist, RunIsDated, tables, handlers
<1>6. ASSUME NEW m \in MachineIds, RewardPay(m)
      PROVE  TypeInv'
  <2>1. /\ reward' \in RewardTable /\ wallet' \in [Accounts -> Wallet]
        /\ run' \in [date : 0..MaxRuns, todo : SUBSET MachineIds] /\ run'.todo \subseteq run.todo
        /\ run'.todo # {} => run'.date > 0
        /\ UNCHANGED <<user, trial, machine, timer, past, buy, recovery, expiry>>
    BY <1>6, RewardPayDoes
  <2>2. TypeOK'
    BY <1>0, <2>1 DEF HistoryFits, TypeInv, TypeOK, RewardTable
  <2> QED BY <2>1, <2>2 DEF TypeInv, SplitFits, RowsAddUp, FoundExist, RunIsDated
<1>7. ASSUME NEW j \in Jobs, Expire(j) \/ ExpiryFails(j)
      PROVE  TypeInv'
  BY <1>0, <1>7, ExpiryStepType, ExpiryCommitType DEF Expire
<1>8. ASSUME UNCHANGED <<tables, timer, past, buy, recovery, expiry>>,
             run' \in [date : 0..MaxRuns, todo : SUBSET MachineIds],
             \A m \in run'.todo : machine[m] # Absent, run'.todo # {} => run'.date > 0
      PROVE  TypeInv'
  <2>1. TypeOK'
    BY <1>0, <1>8 DEF HistoryFits, TypeInv, TypeOK, tables
  <2> QED BY <1>8, <2>1 DEF TypeInv, SplitFits, RowsAddUp, FoundExist, RunIsDated, tables
<1>9. ASSUME (\E m \in MachineIds : RewardClash(m)) \/ RewardFails
      PROVE  TypeInv'
  <2>1. run' = [date |-> run.date, todo |-> {}]
        /\ UNCHANGED <<tables, timer, past, buy, recovery, expiry>>
    BY <1>9 DEF RewardClash, RewardFails
  <2>2. run.date \in 0..MaxRuns
    BY DEF TypeInv, TypeOK
  <2> QED BY <1>8, <2>1, <2>2
<1>10. CASE RewardStart
  <2> DEFINE todo == {m \in MachineIds : machine[m].status = "ACTIVE"}
  <2>1. /\ run' = [date |-> run.date + 1, todo |-> todo] /\ run.date < MaxRuns
        /\ UNCHANGED <<tables, timer, past, buy, recovery, expiry>>
    BY <1>10 DEF RewardStart
  <2>2. run.date \in 0..MaxRuns
    BY DEF TypeInv, TypeOK
  <2>3. todo \in SUBSET MachineIds /\ \A m \in todo : machine[m] # Absent
    BY ActiveIsThere
  <2> HIDE DEF todo
  <2>4. run.date + 1 \in 0..MaxRuns /\ run.date + 1 > 0
    BY <2>1, <2>2, MachinesAssumption
  <2>5. run' \in [date : 0..MaxRuns, todo : SUBSET MachineIds] /\ run'.todo = todo /\ run'.date > 0
    BY <2>1, <2>3, <2>4
  <2> QED BY <1>8, <2>1, <2>3, <2>5
<1>11. CASE Crash
  <2>1. /\ timer' = {} /\ UNCHANGED <<tables, past>>
        /\ buy' = [h \in Handlers |-> Idle] /\ recovery' = [u \in Users |-> Idle]
        /\ expiry' = [j \in Jobs |-> Idle] /\ run' = [date |-> run.date, todo |-> {}]
    BY <1>11 DEF Crash
  <2>2. run' \in [date : 0..MaxRuns, todo : SUBSET MachineIds]
    BY <2>1 DEF TypeInv, TypeOK
  <2>3. TypeOK'
    BY <1>0, <2>1, <2>2 DEF HistoryFits, TypeInv, TypeOK, tables
  <2> QED BY <2>1, <2>3 DEF TypeInv, SplitFits, RowsAddUp, FoundExist, RunIsDated, tables, Idle
<1>12. CASE UNCHANGED vars
  BY <1>12 DEF vars, tables, handlers, history, TypeInv, TypeOK, SplitFits, RowsAddUp, FoundExist, RunIsDated
<1> QED BY <1>1, <1>2, <1>3, <1>4, <1>5, <1>6, <1>7, <1>9, <1>10, <1>11, <1>12 DEF Next

LEMMA TypeInit == Init => TypeInv
<1> SUFFICES ASSUME Init PROVE TypeInv
  OBVIOUS
<1>1. wallet \in [Accounts -> Wallet]
  BY MachinesAssumption DEF Init, Wallet
<1>2. user \in [Users -> [points : Nat, level : Nat]]
  BY DEF Init
<1>3. trial \in [Users -> [status : {"ACTIVE", "RECOVERED"}, used : Int]]
  BY DEF Init
<1>4. machine \in [MachineIds -> Machine \cup {Absent}]
  BY DEF Init
<1>5. reward \in [Users -> [Products -> [Runs -> {"NONE", "SUCCESS", "FAILED", "REVERSED"}]]]
  BY DEF Init
<1>6. /\ timer \subseteq Users /\ past \subseteq Users \cup MachineIds
      /\ buy \in [Handlers -> Purchase \cup {Idle}]
      /\ recovery \in [Users -> [at : {"checked", "found"}, found : SUBSET MachineIds] \cup {Idle}]
      /\ expiry \in [Jobs -> Expiry \cup {Idle}]
  BY DEF Init
<1>7. run \in [date : 0..MaxRuns, todo : SUBSET MachineIds] /\ run.todo = {}
  BY MachinesAssumption DEF Init
<1>8. TypeOK
  BY <1>1, <1>2, <1>3, <1>4, <1>5, <1>6, <1>7 DEF Init, TypeOK
<1> QED BY <1>7, <1>8 DEF Init, TypeInv, SplitFits, RowsAddUp, FoundExist, RunIsDated, Idle

(* Rows keep their shape, and jobs hold machines that exist, whatever       *)
(* overlaps, fails or crashes; a machine row never claims more from its     *)
(* trial fund than the machine costs (product.service.ts, trial-fund,       *)
(* jobs.service.ts).                                                        *)
THEOREM TypeCorrect == Spec => []TypeOK
<1>1. TypeInv => TypeOK
  BY DEF TypeInv
<1> QED BY <1>1, TypeInit, TypeStep, PTL DEF Spec

-----------------------------------------------------------------------------
(* The books: what machine rows say, summed up.                             *)
Spent == [m \in MachineIds |-> machine[m].walletSpend]
Lent == [m \in MachineIds |-> machine[m].trialSpend]
Cost == [m \in MachineIds |-> Price[machine[m].product]]
Worth == [m \in MachineIds |-> Points(Price[machine[m].product])]

There == {m \in MachineIds : machine[m] # Absent}
Gone(u) == {m \in MachineIds : machine[m].status = "REFUNDED" /\ machine[m].user = u}

LEMMA BookTypes ==
  ASSUME TypeInv, NEW ms, ms \subseteq There
  PROVE  /\ IsFiniteSet(ms)
         /\ \A m \in ms : /\ Spent[m] \in Nat /\ Lent[m] \in Nat /\ Cost[m] \in Nat
                          /\ Worth[m] \in Nat /\ Cost[m] = Spent[m] + Lent[m]
         /\ SumFunctionOnSet(Spent, ms) \in Nat /\ SumFunctionOnSet(Lent, ms) \in Nat
         /\ SumFunctionOnSet(Cost, ms) \in Nat /\ SumFunctionOnSet(Worth, ms) \in Nat
         /\ SumFunctionOnSet(Cost, ms) = SumFunctionOnSet(Spent, ms) + SumFunctionOnSet(Lent, ms)
<1>1. IsFiniteSet(ms)
  BY MachinesAssumption, FS_Subset DEF There
<1>2. \A m \in ms : /\ Spent[m] \in Nat /\ Lent[m] \in Nat /\ Cost[m] \in Nat
                    /\ Worth[m] \in Nat /\ Cost[m] = Spent[m] + Lent[m]
  <2> TAKE m \in ms
  <2>1. m \in MachineIds /\ machine[m] # Absent
    BY DEF There
  <2>2. PaidInFull(machine[m])
    BY <2>1 DEF TypeInv, RowsAddUp
  <2>3. /\ machine[m].walletSpend \in Nat /\ machine[m].trialSpend \in Nat
        /\ Price[machine[m].product] \in Nat
    BY <2>1, MachineRow, PriceType DEF TypeInv
  <2>4. Points(Price[machine[m].product]) \in Nat
    BY <2>3 DEF Points
  <2> QED BY <2>1, <2>2, <2>3, <2>4 DEF Spent, Lent, Cost, Worth, PaidInFull
<1>3. /\ SumFunctionOnSet(Spent, ms) \in Nat /\ SumFunctionOnSet(Lent, ms) \in Nat
      /\ SumFunctionOnSet(Cost, ms) \in Nat /\ SumFunctionOnSet(Worth, ms) \in Nat
  BY <1>1, <1>2, SumNat
<1>4. SumFunctionOnSet(Cost, ms) = SumFunctionOnSet(Spent, ms) + SumFunctionOnSet(Lent, ms)
  BY <1>1, <1>2, SumOfSums
<1> QED BY <1>1, <1>2, <1>3, <1>4

LEMMA SetsAreThere ==
  \A u : Active(u) \subseteq There /\ Gone(u) \subseteq There /\ Owned(u) \subseteq There
BY ActiveIsThere DEF Active, Gone, Owned, There

(* A purchase adds its machine to what its user has and to nothing else.    *)
LEMMA BoughtSets ==
  ASSUME TypeInv, NEW m \in MachineIds, machine[m] = Absent, NEW row \in Machine,
         row.status = "ACTIVE", machine' = [machine EXCEPT ![m] = row]
  PROVE  /\ \A u : Active(u)' = IF u = row.user THEN Active(u) \cup {m} ELSE Active(u)
         /\ \A u : Owned(u)' = IF u = row.user THEN Owned(u) \cup {m} ELSE Owned(u)
         /\ \A u : Gone(u)' = Gone(u)
         /\ There' = There \cup {m}
         /\ m \notin There
<1>1. machine'[m] = row /\ \A n \in MachineIds : n # m => machine'[n] = machine[n]
  BY DEF TypeInv, TypeOK
<1>2. row # Absent /\ Absent.status = "ABSENT"
  BY ActiveIsThere
<1> QED BY <1>1, <1>2 DEF Active, Owned, Gone, There

LEMMA BoughtSums ==
  ASSUME TypeInv, NEW m \in MachineIds, machine[m] = Absent, NEW row \in Machine,
         machine' = [machine EXCEPT ![m] = row], NEW ms, ms \subseteq There
  PROVE  /\ SumFunctionOnSet(Spent', ms) = SumFunctionOnSet(Spent, ms)
         /\ SumFunctionOnSet(Lent', ms) = SumFunctionOnSet(Lent, ms)
         /\ SumFunctionOnSet(Cost', ms) = SumFunctionOnSet(Cost, ms)
         /\ SumFunctionOnSet(Worth', ms) = SumFunctionOnSet(Worth, ms)
         /\ SumFunctionOnSet(Spent', ms \cup {m}) = SumFunctionOnSet(Spent, ms) + row.walletSpend
         /\ SumFunctionOnSet(Lent', ms \cup {m}) = SumFunctionOnSet(Lent, ms) + row.trialSpend
         /\ SumFunctionOnSet(Cost', ms \cup {m}) = SumFunctionOnSet(Cost, ms) + Price[row.product]
         /\ SumFunctionOnSet(Worth', ms \cup {m})
              = SumFunctionOnSet(Worth, ms) + Points(Price[row.product])
<1>1. machine'[m] = row /\ \A n \in MachineIds : n # m => machine'[n] = machine[n]
  BY DEF TypeInv, TypeOK
<1>2. m \notin ms /\ \A n \in ms : n \in MachineIds /\ machine'[n] = machine[n]
  BY <1>1 DEF There
<1>3. \A n \in ms : /\ Spent'[n] = Spent[n] /\ Lent'[n] = Lent[n]
                    /\ Cost'[n] = Cost[n] /\ Worth'[n] = Worth[n]
  BY <1>2 DEF Spent, Lent, Cost, Worth
<1>4. /\ Spent'[m] = row.walletSpend /\ Lent'[m] = row.trialSpend
      /\ Cost'[m] = Price[row.product] /\ Worth'[m] = Points(Price[row.product])
  BY <1>1 DEF Spent, Lent, Cost, Worth
<1>5. /\ row.walletSpend \in Nat /\ row.trialSpend \in Nat /\ Price[row.product] \in Nat
      /\ Points(Price[row.product]) \in Nat
  <2>1. row.walletSpend \in Nat /\ row.trialSpend \in Nat /\ row.product \in Products
    BY DEF Machine
  <2>2. Price[row.product] \in Nat
    BY <2>1, PriceType
  <2> QED BY <2>1, <2>2 DEF Points
<1>6. IsFiniteSet(ms) /\ \A n \in ms : /\ Spent[n] \in Nat /\ Lent[n] \in Nat
                                       /\ Cost[n] \in Nat /\ Worth[n] \in Nat
  BY BookTypes
<1> HIDE DEF Spent, Lent, Cost, Worth
<1>7. /\ SumFunctionOnSet(Spent', ms) = SumFunctionOnSet(Spent, ms)
      /\ SumFunctionOnSet(Lent', ms) = SumFunctionOnSet(Lent, ms)
      /\ SumFunctionOnSet(Cost', ms) = SumFunctionOnSet(Cost, ms)
      /\ SumFunctionOnSet(Worth', ms) = SumFunctionOnSet(Worth, ms)
  BY <1>3, <1>6, SumSame
<1>8. SumFunctionOnSet(Spent', ms \cup {m}) = SumFunctionOnSet(Spent', ms) + Spent'[m]
  BY <1>2, <1>3, <1>4, <1>5, <1>6, SumAdd
<1>9. SumFunctionOnSet(Lent', ms \cup {m}) = SumFunctionOnSet(Lent', ms) + Lent'[m]
  BY <1>2, <1>3, <1>4, <1>5, <1>6, SumAdd
<1>10. SumFunctionOnSet(Cost', ms \cup {m}) = SumFunctionOnSet(Cost', ms) + Cost'[m]
  BY <1>2, <1>3, <1>4, <1>5, <1>6, SumAdd
<1>11. SumFunctionOnSet(Worth', ms \cup {m}) = SumFunctionOnSet(Worth', ms) + Worth'[m]
  BY <1>2, <1>3, <1>4, <1>5, <1>6, SumAdd
<1> QED BY <1>4, <1>7, <1>8, <1>9, <1>10, <1>11

(* Ending machines changes nothing of a row but its status.                 *)
LEMMA EndedRows ==
  ASSUME TypeInv, NEW ms, ms \subseteq There, machine' = MachinesWithout(ms)
  PROVE  /\ \A m \in MachineIds :
              /\ machine'[m].user = machine[m].user /\ machine'[m].inTrial = machine[m].inTrial
              /\ machine'[m].status = IF m \in ms THEN "REFUNDED" ELSE machine[m].status
         /\ There' = There /\ \A v : Owned(v)' = Owned(v)
         /\ Spent' = Spent /\ Lent' = Lent /\ Cost' = Cost /\ Worth' = Worth
<1>1. \A m \in MachineIds : machine'[m] = IF m \in ms THEN RefundedRow(machine[m])
                                          ELSE machine[m]
  BY DEF MachinesWithout
<1>2. \A m \in ms : machine[m] # Absent /\ machine[m] \in Machine
  BY MachineRow DEF TypeInv, There
<1>3. \A m \in MachineIds :
        /\ machine'[m].user = machine[m].user /\ machine'[m].product = machine[m].product
        /\ machine'[m].walletSpend = machine[m].walletSpend
        /\ machine'[m].trialSpend = machine[m].trialSpend
        /\ machine'[m].inTrial = machine[m].inTrial
        /\ machine'[m].status = IF m \in ms THEN "REFUNDED" ELSE machine[m].status
        /\ machine'[m] = Absent <=> machine[m] = Absent
  <2> TAKE m \in MachineIds
  <2>1. CASE m \in ms
    <3>1. machine'[m] = RefundedRow(machine[m])
      BY <1>1, <2>1
    <3>2. RefundedRow(machine[m]).inTrial = machine[m].inTrial
      BY DEF RefundedRow
    <3>3. machine'[m].status = "REFUNDED" /\ Absent.status = "ABSENT"
      BY <1>2, <2>1, <3>1, RefundedRowType, ActiveIsThere
    <3> QED BY <1>2, <2>1, <3>1, <3>2, <3>3, RefundedRowType
  <2>2. CASE m \notin ms
    BY <1>1, <2>2
  <2> QED BY <2>1, <2>2
<1>4. Spent' = Spent /\ Lent' = Lent /\ Cost' = Cost /\ Worth' = Worth
  BY <1>3 DEF Spent, Lent, Cost, Worth
<1>5. There' = There /\ \A v : Owned(v)' = Owned(v)
  BY <1>3 DEF There, Owned
<1> QED BY <1>3, <1>4, <1>5

(* It moves them from the user's ACTIVE machines to the REFUNDED ones.      *)
LEMMA EndedSets ==
  ASSUME TypeInv, NEW u \in Users, NEW ms, ms \subseteq Active(u), machine' = MachinesWithout(ms)
  PROVE  /\ \A v : Active(v)' = IF v = u THEN Active(v) \ ms ELSE Active(v)
         /\ \A v : Gone(v)' = IF v = u THEN Gone(v) \cup ms ELSE Gone(v)
<1>1. ms \subseteq There
  BY SetsAreThere
<1>2. \A m \in ms : m \in MachineIds /\ machine[m].user = u /\ machine[m].status = "ACTIVE"
  BY DEF Active
<1>3. \A m \in MachineIds :
        /\ machine'[m].user = machine[m].user
        /\ machine'[m].status = IF m \in ms THEN "REFUNDED" ELSE machine[m].status
  BY <1>1, EndedRows
<1>4. \A v : Active(v)' = IF v = u THEN Active(v) \ ms ELSE Active(v)
  BY <1>2, <1>3 DEF Active
<1>5. \A v : Gone(v)' = IF v = u THEN Gone(v) \cup ms ELSE Gone(v)
  BY <1>2, <1>3 DEF Gone
<1> QED BY <1>4, <1>5

(* The steps that change a table                                            *)
LEMMA TableSteps ==
  ASSUME [Next]_vars
  PROVE  \/ UNCHANGED tables
         \/ \E h \in Handlers, m \in MachineIds : BuyCommit(h, m)
         \/ \E u \in Users : RecoverCommit(u)
         \/ \E j \in Jobs : ExpiryCommit(j)
         \/ \E m \in MachineIds : RewardPay(m)
<1>1. ASSUME NEW h \in Handlers, Buy(h) \/ BuyFails(h)
      PROVE  UNCHANGED tables \/ \E m \in MachineIds : BuyCommit(h, m)
  BY <1>1, Zenon DEF Buy, BuyRead, BuySplit, BuyFails
<1>2. ASSUME NEW u \in Users, TrialEnds(u) \/ Recover(u) \/ RecoveryFails(u)
      PROVE  UNCHANGED tables \/ RecoverCommit(u)
  BY <1>2, Zenon DEF Recover, TrialEnds, RecoverRead, RecoverFind, RecoveryFails
<1>3. ASSUME NEW m \in MachineIds, RentalEnds(m) \/ RewardPay(m) \/ RewardClash(m)
      PROVE  UNCHANGED tables \/ RewardPay(m)
  BY <1>3, Zenon DEF RentalEnds, RewardClash
<1>4. ASSUME NEW j \in Jobs, Expire(j) \/ ExpiryFails(j)
      PROVE  UNCHANGED tables \/ ExpiryCommit(j)
  BY <1>4, Zenon DEF Expire, ExpiryStart, ExpiryFind, ExpiryFails
<1>5. ASSUME RewardStart \/ RewardFails \/ Crash \/ UNCHANGED vars
      PROVE  UNCHANGED tables
  BY <1>5 DEF RewardStart, RewardFails, Crash, vars, tables
<1> QED BY <1>1, <1>2, <1>3, <1>4, <1>5 DEF Next

(* What the refunds do to the tables                                        *)
LEMMA RecoverCommitDoes ==
  ASSUME TypeInv, NEW u \in Users, RecoverCommit(u)
  PROVE  /\ recovery[u].at = "found" /\ recovery[u].found \subseteq There
         /\ wallet' = Refunded(u, recovery[u].found)
         /\ machine' = MachinesWithout(recovery[u].found)
         /\ \A v \in Users, p \in Products, r \in Runs :
               reward'[v][p][r] \in AnyReward <=> reward[v][p][r] \in AnyReward
         /\ trial' = [trial EXCEPT ![u] = [status |-> "RECOVERED", used |-> 0]]
         /\ recovery' = [recovery EXCEPT ![u] = Idle]
         /\ UNCHANGED <<user, timer, past, buy, expiry, run>>
<1> DEFINE found == recovery[u].found
           new == [p \in Products |-> [r \in Runs |->
                     IF p \in TrialProducts(found) /\ reward[u][p][r] # "NONE" THEN "REVERSED"
                     ELSE reward[u][p][r]]]
<1>1. /\ recovery[u].at = "found"
      /\ wallet' = Refunded(u, found)
      /\ machine' = MachinesWithout(found)
      /\ reward' = [reward EXCEPT ![u] = new]
      /\ trial' = [trial EXCEPT ![u] = [status |-> "RECOVERED", used |-> 0]]
      /\ recovery' = [recovery EXCEPT ![u] = Idle]
      /\ UNCHANGED <<user, timer, past, buy, expiry, run>>
  BY DEF RecoverCommit
<1>2. found \subseteq There
  BY <1>1, FoundType DEF TypeInv, FoundExist, There
<1>3. \A p \in Products, r \in Runs :
        /\ reward[u][p][r] \in {"NONE", "SUCCESS", "FAILED", "REVERSED"}
        /\ new[p][r] = IF p \in TrialProducts(found) /\ reward[u][p][r] # "NONE" THEN "REVERSED"
                       ELSE reward[u][p][r]
  BY DEF TypeInv, TypeOK
<1>4. \A p \in Products, r \in Runs : new[p][r] \in AnyReward <=> reward[u][p][r] \in AnyReward
  BY <1>3 DEF AnyReward
<1>5. \A v \in Users : reward'[v] = IF v = u THEN new ELSE reward[v]
  <2> HIDE DEF new
  <2> QED BY <1>1 DEF TypeInv, TypeOK
<1> HIDE DEF new
<1>6. \A v \in Users, p \in Products, r \in Runs :
         reward'[v][p][r] \in AnyReward <=> reward[v][p][r] \in AnyReward
  BY <1>4, <1>5
<1> QED BY <1>1, <1>2, <1>6

LEMMA ExpiryCommitDoes ==
  ASSUME TypeInv, NEW j \in Jobs, ExpiryCommit(j)
  PROVE  \E u, found, ended :
         /\ u \in Users /\ expiry[j].at = "found" /\ u = expiry[j].user
         /\ found = expiry[j].found /\ found \subseteq There
         /\ ended = Expired(u, expiry[j].now) /\ ended \subseteq Active(u)
         /\ wallet' = Refunded(u, found)
         /\ machine' = MachinesWithout(ended)
         /\ \A v \in Users, p \in Products, r \in Runs :
               reward'[v][p][r] \in AnyReward <=> reward[v][p][r] \in AnyReward
         /\ trial' = IF TrialSum(found) > 0
                     THEN [trial EXCEPT ![u] = Returned(trial[u], TrialSum(found))] ELSE trial
         /\ expiry' = [expiry EXCEPT ![j] = NextUser(expiry[j], u)]
         /\ UNCHANGED <<user, timer, past, buy, recovery, run>>
<1> DEFINE u == expiry[j].user
           found == expiry[j].found
           ended == Expired(u, expiry[j].now)
           new == [p \in Products |-> [r \in Runs |->
                     IF p \in TrialProducts(found) /\ reward[u][p][r] = "SUCCESS" THEN "FAILED"
                     ELSE reward[u][p][r]]]
<1>1. /\ expiry[j].at = "found"
      /\ wallet' = Refunded(u, found)
      /\ machine' = MachinesWithout(ended)
      /\ trial' = IF TrialSum(found) > 0
                  THEN [trial EXCEPT ![u] = Returned(trial[u], TrialSum(found))] ELSE trial
      /\ reward' = [reward EXCEPT ![u] = new]
      /\ expiry' = [expiry EXCEPT ![j] = NextUser(expiry[j], u)]
      /\ UNCHANGED <<user, timer, past, buy, recovery, run>>
  BY DEF ExpiryCommit
<1>2. expiry[j] # Idle
  BY <1>1 DEF Idle
<1>3. u \in Users /\ found \subseteq There
  BY <1>1, <1>2, ExpiryType DEF TypeInv, FoundExist, There
<1>4. ended \subseteq Active(u)
  BY DEF Expired
<1>5. \A p \in Products, r \in Runs :
        /\ reward[u][p][r] \in {"NONE", "SUCCESS", "FAILED", "REVERSED"}
        /\ new[p][r] = IF p \in TrialProducts(found) /\ reward[u][p][r] = "SUCCESS" THEN "FAILED"
                       ELSE reward[u][p][r]
  BY <1>3 DEF TypeInv, TypeOK
<1>6. \A p \in Products, r \in Runs : new[p][r] \in AnyReward <=> reward[u][p][r] \in AnyReward
  BY <1>5 DEF AnyReward
<1>7. \A v \in Users : reward'[v] = IF v = u THEN new ELSE reward[v]
  <2> HIDE DEF new, u
  <2> QED BY <1>1, <1>3 DEF TypeInv, TypeOK
<1> HIDE DEF new, u, found, ended
<1>8. \A v \in Users, p \in Products, r \in Runs :
         reward'[v][p][r] \in AnyReward <=> reward[v][p][r] \in AnyReward
  BY <1>6, <1>7
<1> QED BY <1>1, <1>3, <1>4, <1>8 DEF u, found, ended

-----------------------------------------------------------------------------
LEMMA LevelStep == TypeInv /\ LevelFollowsPoints /\ [Next]_vars => LevelFollowsPoints'
<1> SUFFICES ASSUME TypeInv, LevelFollowsPoints, [Next]_vars PROVE LevelFollowsPoints'
  OBVIOUS
<1>0. ASSUME UNCHANGED user, Worth' = Worth, \A u : Owned(u)' = Owned(u)
      PROVE  LevelFollowsPoints'
  BY <1>0 DEF LevelFollowsPoints, PointSum, Worth, Reached
<1>1. CASE UNCHANGED tables
  BY <1>0, <1>1 DEF tables, Worth, Owned
<1>2. ASSUME NEW m \in MachineIds, RewardPay(m)
      PROVE  LevelFollowsPoints'
  BY <1>0, <1>2 DEF RewardPay, Worth, Owned
<1>3. ASSUME NEW u \in Users, RecoverCommit(u)
      PROVE  LevelFollowsPoints'
  BY <1>0, <1>3, RecoverCommitDoes, EndedRows
<1>4. ASSUME NEW j \in Jobs, ExpiryCommit(j)
      PROVE  LevelFollowsPoints'
  <2>1. PICK u, ended : /\ u \in Users
                        /\ machine' = MachinesWithout(ended) /\ ended \subseteq Active(u)
                        /\ UNCHANGED user
    BY <1>4, ExpiryCommitDoes
  <2>2. ended \subseteq There
    BY <2>1, SetsAreThere
  <2> QED BY <1>0, <2>1, <2>2, EndedRows
<1>5. ASSUME NEW h \in Handlers, NEW m \in MachineIds, BuyCommit(h, m)
      PROVE  LevelFollowsPoints'
  <2>1. PICK u \in Users, p \in Products, row \in Machine :
           /\ machine[m] = Absent
           /\ row.user = u /\ row.product = p /\ row.status = "ACTIVE"
           /\ machine' = [machine EXCEPT ![m] = row]
           /\ user' = [user EXCEPT ![u] = Awarded(user[u], Points(Price[p]))]
    BY <1>5, BuyCommitDoes
  <2>2. \A v \in Users : user'[v] = IF v = u THEN Awarded(user[v], Points(Price[p])) ELSE user[v]
    BY <2>1 DEF TypeInv, TypeOK
  <2>3. /\ \A v : Owned(v)' = IF v = u THEN Owned(v) \cup {m} ELSE Owned(v)
        /\ \A v : /\ SumFunctionOnSet(Worth', Owned(v)) = SumFunctionOnSet(Worth, Owned(v))
                  /\ SumFunctionOnSet(Worth', Owned(v) \cup {m})
                       = SumFunctionOnSet(Worth, Owned(v)) + Points(Price[p])
    <3>1. \A v : Owned(v)' = IF v = u THEN Owned(v) \cup {m} ELSE Owned(v)
      BY <2>1, BoughtSets
    <3>2. ASSUME NEW v
          PROVE  /\ SumFunctionOnSet(Worth', Owned(v)) = SumFunctionOnSet(Worth, Owned(v))
                 /\ SumFunctionOnSet(Worth', Owned(v) \cup {m})
                      = SumFunctionOnSet(Worth, Owned(v)) + Points(Price[p])
      <4>1. Owned(v) \subseteq There
        BY SetsAreThere
      <4> QED BY <2>1, <4>1, BoughtSums
    <3> QED BY <3>1, <3>2
  <2>4. Points(Price[p]) \in Nat /\ \A v \in Users : user[v] \in Profile
    BY PriceType DEF Points, TypeInv, TypeOK, Profile
  <2>5. \A v \in Users :
          /\ user[v].points = SumFunctionOnSet(Worth, Owned(v))
          /\ user[v].points > 0 => \A l \in Reached(user[v].points) : l <= user[v].level
    BY DEF LevelFollowsPoints, PointSum, Worth
  <2>6. ASSUME NEW v \in Users
        PROVE  /\ user'[v].points = SumFunctionOnSet(Worth', Owned(v)')
               /\ user'[v].points > 0 => \A l \in Reached(user'[v].points) : l <= user'[v].level
    <3>1. CASE v # u
      BY <2>2, <2>3, <2>5, <3>1
    <3>2. CASE v = u
      <4> DEFINE inc == Points(Price[p])
      <4>1. user'[v] = Awarded(user[v], inc)
        BY <2>2, <3>2
      <4>2. /\ user'[v].points = user[v].points + inc
            /\ inc > 0 => \A l \in Reached(user[v].points + inc) : l <= user'[v].level
            /\ inc = 0 => user'[v] = user[v]
        BY <2>4, <4>1, AwardedType
      <4>3. SumFunctionOnSet(Worth', Owned(v)') = SumFunctionOnSet(Worth, Owned(v)) + inc
        BY <2>3, <3>2
      <4> HIDE DEF inc
      <4>4. CASE inc = 0
        BY <2>4, <2>5, <4>2, <4>3, <4>4 DEF inc, Profile
      <4>5. CASE inc # 0
        <5>1. inc \in Nat
          BY <2>4 DEF inc
        <5>2. inc > 0
          BY <4>5, <5>1
        <5> QED BY <2>5, <4>2, <4>3, <5>2
      <4> QED BY <4>4, <4>5
    <3> QED BY <3>1, <3>2
  <2> QED BY <2>6 DEF LevelFollowsPoints, PointSum, Worth, Reached
<1> QED BY <1>1, <1>2, <1>3, <1>4, <1>5, TableSteps

(* A user's points are those of the machines the user ever bought, and the  *)
(* level of a user with points is no lower than any the Level table grants  *)
(* for them: no purchase, refund, failure or crash, overlapping or not,     *)
(* loses an award (points.ts, awardPoints, called by buyProduct).           *)
THEOREM LevelsFollowPoints == Spec => []LevelFollowsPoints
<1>1. Init => TypeInv /\ LevelFollowsPoints
  <2> SUFFICES ASSUME Init PROVE LevelFollowsPoints
    BY TypeInit
  <2>1. \A u \in Users : Owned(u) = {} /\ user[u].points = 0
    BY DEF Init, Owned
  <2>2. PointSum({}) = 0
    BY SumEmpty, Zenon DEF PointSum
  <2> QED BY <2>1, <2>2 DEF LevelFollowsPoints
<1>2. TypeInv /\ LevelFollowsPoints /\ [Next]_vars => (TypeInv /\ LevelFollowsPoints)'
  BY TypeStep, LevelStep
<1> QED BY <1>1, <1>2, PTL DEF Spec

-----------------------------------------------------------------------------
(* A movement reaches one wallet.                                           *)
LEMMA Moved ==
  ASSUME NEW wal \in [Accounts -> Wallet], NEW a \in Accounts, NEW b \in Int, NEW r \in Int
  PROVE  \A c \in Accounts :
           /\ Move(wal, a, b, r)[c].balance = wal[c].balance + (IF c = a THEN b ELSE 0)
           /\ Move(wal, a, b, r)[c].reserved = wal[c].reserved + (IF c = a THEN r ELSE 0)
           /\ wal[c].balance \in Int /\ wal[c].reserved \in Int
BY DEF Move, Wallet

(* The money of a purchase                                                  *)
LEMMA BoughtMoney ==
  ASSUME TypeInv, NEW u \in Users, NEW price \in Nat, NEW spend \in Nat,
         wallet' = Move(Move(wallet, u, spend - price, price), Seller, price, 0)
  PROVE  \A c \in Accounts :
           /\ wallet'[c].balance = wallet[c].balance + (IF c = u THEN spend - price ELSE 0)
                                     + (IF c = Seller THEN price ELSE 0)
           /\ wallet'[c].reserved = wallet[c].reserved + (IF c = u THEN price ELSE 0)
           /\ wallet[c].balance \in Int /\ wallet[c].reserved \in Int
<1> DEFINE once == Move(wallet, u, spend - price, price)
<1>1. /\ wallet \in [Accounts -> Wallet] /\ u \in Accounts /\ Seller \in Accounts
      /\ spend - price \in Int /\ price \in Int /\ 0 \in Int
  BY DEF TypeInv, TypeOK, Accounts
<1>2. once \in [Accounts -> Wallet]
  BY <1>1, MachineMoveType
<1>3. \A c \in Accounts :
        /\ once[c].balance = wallet[c].balance + (IF c = u THEN spend - price ELSE 0)
        /\ once[c].reserved = wallet[c].reserved + (IF c = u THEN price ELSE 0)
        /\ wallet[c].balance \in Int /\ wallet[c].reserved \in Int
  BY <1>1, Moved
<1> HIDE DEF once
<1>4. \A c \in Accounts :
        /\ Move(once, Seller, price, 0)[c].balance
             = once[c].balance + (IF c = Seller THEN price ELSE 0)
        /\ Move(once, Seller, price, 0)[c].reserved
             = once[c].reserved + (IF c = Seller THEN 0 ELSE 0)
        /\ once[c].reserved \in Int
  BY <1>1, <1>2, Moved
<1>5. wallet' = Move(once, Seller, price, 0)
  BY DEF once
<1> QED BY <1>3, <1>4, <1>5

(* The money of machines that end                                           *)
LEMMA RefundedMoney ==
  ASSUME TypeInv, NEW u \in Users, NEW ms, ms \subseteq There, wallet' = Refunded(u, ms)
  PROVE  \A c \in Accounts :
           /\ wallet'[c].balance
                = wallet[c].balance + (IF c = u THEN SumFunctionOnSet(Spent, ms) ELSE 0)
           /\ wallet'[c].reserved
                = wallet[c].reserved - (IF c = u THEN SumFunctionOnSet(Spent, ms) ELSE 0)
           /\ wallet[c].balance \in Int /\ wallet[c].reserved \in Int
<1> DEFINE back == SumFunctionOnSet(Spent, ms)
<1>1. back \in Nat
  BY BookTypes
<1>2. WalletSum(ms) = back
  BY DEF WalletSum, Spent
<1>3. /\ wallet \in [Accounts -> Wallet] /\ u \in Accounts
  BY DEF TypeInv, TypeOK, Accounts
<1> HIDE DEF back
<1> DEFINE released == -back
<1>4. wallet' = Move(wallet, u, back, released)
  BY <1>2 DEF Refunded
<1>5. back \in Int /\ released \in Int /\ released = -back
  BY <1>1
<1> HIDE DEF released
<1>6. \A c \in Accounts :
        /\ wallet'[c].balance = wallet[c].balance + (IF c = u THEN back ELSE 0)
        /\ wallet'[c].reserved = wallet[c].reserved + (IF c = u THEN released ELSE 0)
        /\ wallet[c].balance \in Int /\ wallet[c].reserved \in Int
  BY <1>3, <1>4, <1>5, Moved
<1> QED BY <1>5, <1>6 DEF back

(* The books of machines that end: what they held leaves the ACTIVE ones    *)
LEMMA EndedSums ==
  ASSUME TypeInv, NEW u \in Users, NEW ms, ms \subseteq Active(u), machine' = MachinesWithout(ms)
  PROVE  /\ SumFunctionOnSet(Spent', Active(u)')
              = SumFunctionOnSet(Spent, Active(u)) - SumFunctionOnSet(Spent, ms)
         /\ SumFunctionOnSet(Lent', Active(u)')
              = SumFunctionOnSet(Lent, Active(u)) - SumFunctionOnSet(Lent, ms)
         /\ SumFunctionOnSet(Cost', Active(u)')
              = SumFunctionOnSet(Cost, Active(u)) - SumFunctionOnSet(Cost, ms)
         /\ SumFunctionOnSet(Lent', Gone(u)')
              = SumFunctionOnSet(Lent, Gone(u)) + SumFunctionOnSet(Lent, ms)
<1>1. Active(u)' = Active(u) \ ms /\ Gone(u)' = Gone(u) \cup ms
  BY EndedSets
<1>2. ms \subseteq There /\ Active(u) \subseteq There /\ Gone(u) \subseteq There
  BY SetsAreThere
<1>3. Spent' = Spent /\ Lent' = Lent /\ Cost' = Cost
  BY <1>2, EndedRows
<1>4. /\ IsFiniteSet(Active(u)) /\ IsFiniteSet(Gone(u)) /\ IsFiniteSet(ms)
      /\ \A m \in Active(u) : Spent[m] \in Nat /\ Lent[m] \in Nat /\ Cost[m] \in Nat
      /\ \A m \in Gone(u) \cup ms : Lent[m] \in Int
  <2>1. /\ IsFiniteSet(Active(u))
        /\ \A m \in Active(u) : Spent[m] \in Nat /\ Lent[m] \in Nat /\ Cost[m] \in Nat
    BY <1>2, BookTypes
  <2>2. IsFiniteSet(Gone(u)) /\ \A m \in Gone(u) : Lent[m] \in Nat
    BY <1>2, BookTypes
  <2>3. IsFiniteSet(ms) /\ \A m \in ms : Lent[m] \in Nat
    BY <1>2, BookTypes
  <2> HIDE DEF Spent, Lent, Cost
  <2> QED BY <2>1, <2>2, <2>3
<1>5. Gone(u) \cap ms = {}
  BY DEF Gone, Active
<1> HIDE DEF Spent, Lent, Cost
<1>6. /\ SumFunctionOnSet(Spent, Active(u) \ ms)
           = SumFunctionOnSet(Spent, Active(u)) - SumFunctionOnSet(Spent, ms)
      /\ SumFunctionOnSet(Lent, Active(u) \ ms)
           = SumFunctionOnSet(Lent, Active(u)) - SumFunctionOnSet(Lent, ms)
      /\ SumFunctionOnSet(Cost, Active(u) \ ms)
           = SumFunctionOnSet(Cost, Active(u)) - SumFunctionOnSet(Cost, ms)
  BY <1>4, SumPart
<1>7. SumFunctionOnSet(Lent, Gone(u) \cup ms)
        = SumFunctionOnSet(Lent, Gone(u)) + SumFunctionOnSet(Lent, ms)
  BY <1>4, <1>5, SumUnion
<1> QED BY <1>1, <1>3, <1>6, <1>7

(* ... and other users' books do not change.                                *)
LEMMA OtherSums ==
  ASSUME TypeInv, NEW u \in Users, NEW ms, ms \subseteq Active(u), machine' = MachinesWithout(ms),
         NEW v, v # u
  PROVE  /\ Active(v)' = Active(v) /\ Gone(v)' = Gone(v)
         /\ SumFunctionOnSet(Spent', Active(v)') = SumFunctionOnSet(Spent, Active(v))
         /\ SumFunctionOnSet(Lent', Active(v)') = SumFunctionOnSet(Lent, Active(v))
         /\ SumFunctionOnSet(Cost', Active(v)') = SumFunctionOnSet(Cost, Active(v))
         /\ SumFunctionOnSet(Lent', Gone(v)') = SumFunctionOnSet(Lent, Gone(v))
<1>1. Active(v)' = Active(v) /\ Gone(v)' = Gone(v)
  BY EndedSets
<1>2. ms \subseteq There
  BY SetsAreThere
<1>3. Spent' = Spent /\ Lent' = Lent /\ Cost' = Cost
  BY <1>2, EndedRows
<1> HIDE DEF Spent, Lent, Cost
<1> QED BY <1>1, <1>3

-----------------------------------------------------------------------------
(* The two ways of ending machines, which their lemmas share: some have     *)
(* been found, and some, those of them or others, are ACTIVE and end.       *)
Ends(u, found, ended) ==
  /\ u \in Users
  /\ found \subseteq There /\ \A m \in found : machine[m].user = u
  /\ ended \subseteq Active(u)
  /\ wallet' = Refunded(u, found)
  /\ machine' = MachinesWithout(ended)
  /\ \A v \in Users \ {u} : trial'[v] = trial[v]
  /\ \A v \in Users, p \in Products, r \in Runs :
        reward'[v][p][r] \in AnyReward <=> reward[v][p][r] \in AnyReward

(* Refunding a machine again changes nothing of its row.                    *)
LEMMA OnlyActiveEnd ==
  ASSUME TypeInv, NEW u, NEW ms, ms \subseteq There, \A m \in ms : machine[m].user = u
  PROVE  MachinesWithout(ms) = MachinesWithout(ms \cap Active(u))
<1>1. ASSUME NEW m \in ms, m \notin Active(u) PROVE RefundedRow(machine[m]) = machine[m]
  <2>1. machine[m] \in Machine /\ machine[m].status \in {"ACTIVE", "REFUNDED"}
    BY MachineRow DEF TypeInv, There
  <2>2. machine[m].status = "REFUNDED"
    BY <1>1, <2>1 DEF Active, There
  <2> QED BY <2>1, <2>2 DEF RefundedRow, Machine
<1>2. \A m \in MachineIds :
        (IF m \in ms THEN RefundedRow(machine[m]) ELSE machine[m])
          = (IF m \in ms \cap Active(u) THEN RefundedRow(machine[m]) ELSE machine[m])
  BY <1>1
<1> QED BY <1>2 DEF MachinesWithout

LEMMA RecoverCommitEnds ==
  ASSUME TypeInv, NEW u \in Users, RecoverCommit(u)
  PROVE  /\ recovery[u].at = "found"
         /\ Ends(u, recovery[u].found, recovery[u].found \cap Active(u))
         /\ trial'[u] = [status |-> "RECOVERED", used |-> 0]
<1> DEFINE found == recovery[u].found
<1>1. /\ recovery[u].at = "found" /\ found \subseteq There
      /\ wallet' = Refunded(u, found)
      /\ machine' = MachinesWithout(found)
      /\ \A v \in Users, p \in Products, r \in Runs :
            reward'[v][p][r] \in AnyReward <=> reward[v][p][r] \in AnyReward
      /\ trial' = [trial EXCEPT ![u] = [status |-> "RECOVERED", used |-> 0]]
  BY RecoverCommitDoes
<1>2. \A m \in found : machine[m].user = u
  BY <1>1, FoundTheirs DEF TypeInv, FoundAreTheirs
<1> HIDE DEF found
<1>3. machine' = MachinesWithout(found \cap Active(u))
  BY <1>1, <1>2, OnlyActiveEnd
<1>4. /\ \A v \in Users \ {u} : trial'[v] = trial[v]
      /\ trial'[u] = [status |-> "RECOVERED", used |-> 0]
  BY <1>1 DEF TypeInv, TypeOK
<1> QED BY <1>1, <1>2, <1>3, <1>4 DEF Ends, found

LEMMA ExpiryCommitEnds ==
  ASSUME TypeInv, NEW j \in Jobs, ExpiryCommit(j)
  PROVE  \E u, found, ended :
           /\ Ends(u, found, ended)
           /\ expiry[j].at = "found" /\ u = expiry[j].user /\ found = expiry[j].found
           /\ ended = Expired(u, expiry[j].now)
           /\ trial' = IF TrialSum(found) > 0
                       THEN [trial EXCEPT ![u] = Returned(trial[u], TrialSum(found))] ELSE trial
<1>1. PICK u, found, ended :
         /\ u \in Users /\ expiry[j].at = "found" /\ u = expiry[j].user
         /\ found = expiry[j].found /\ found \subseteq There
         /\ ended = Expired(u, expiry[j].now) /\ ended \subseteq Active(u)
         /\ wallet' = Refunded(u, found)
         /\ machine' = MachinesWithout(ended)
         /\ \A v \in Users, p \in Products, r \in Runs :
               reward'[v][p][r] \in AnyReward <=> reward[v][p][r] \in AnyReward
         /\ trial' = IF TrialSum(found) > 0
                     THEN [trial EXCEPT ![u] = Returned(trial[u], TrialSum(found))] ELSE trial
  BY ExpiryCommitDoes
<1>2. \A m \in found : machine[m].user = u
  BY <1>1, FoundTheirs DEF TypeInv, FoundAreTheirs
<1>3. \A v \in Users \ {u} : trial'[v] = trial[v]
  BY <1>1 DEF TypeInv, TypeOK
<1>4. Ends(u, found, ended)
  BY <1>1, <1>2, <1>3 DEF Ends
<1> QED BY <1>1, <1>4

-----------------------------------------------------------------------------
(* What the trial fund is to pay of a purchase still is what it would pay   *)
(* when the purchase commits, for a user of whom no two handlers met.       *)
PaidAsRead(h) ==
  buy[h].at = "split" /\ buy[h].user \notin met =>
    buy[h].trialSpend = FromTrial(buy[h].user, Price[buy[h].product])

FundHolds == \A h \in Handlers : PaidAsRead(h)

TrialBooks == TrialUsageIsExplained /\ TrialMoneyReturned

(* One user's trial fund is in order.                                       *)
TrialInOrder(u) ==
  /\ trial[u].status = "ACTIVE" => trial[u].used = SumFunctionOnSet(Lent, Active(u))
  /\ trial[u].status = "RECOVERED" => trial[u].used = 0
  /\ trial[u].used <= TRIAL_AMOUNT
  /\ trial[u].status = "RECOVERED" =>
       \A m \in Active(u) : machine[m].inTrial => machine[m].trialSpend = 0

LEMMA TrialBooksPerUser == TrialBooks <=> \A u \in Users \ met : TrialInOrder(u)
BY DEF TrialBooks, TrialUsageIsExplained, TrialMoneyReturned, TrialInOrder, TrialSum, Lent

LEMMA TrialBooksPerUserNext == TrialBooks' <=> \A u \in Users \ met' : TrialInOrder(u)'
BY DEF TrialBooks, TrialUsageIsExplained, TrialMoneyReturned, TrialInOrder, TrialSum, Lent

LEMMA TrialSame ==
  ASSUME NEW u, TrialInOrder(u), trial'[u] = trial[u], Active(u)' = Active(u),
         SumFunctionOnSet(Lent', Active(u)') = SumFunctionOnSet(Lent, Active(u)),
         \A m \in Active(u) : /\ machine'[m].inTrial = machine[m].inTrial
                              /\ machine'[m].trialSpend = machine[m].trialSpend
  PROVE  TrialInOrder(u)'
BY DEF TrialInOrder

LEMMA BuyCommitTrial ==
  ASSUME TypeInv, FundHolds, TrialBooks, met \subseteq met',
         NEW h \in Handlers, NEW m \in MachineIds, BuyCommit(h, m)
  PROVE  TrialBooks'
<1>1. PICK u \in Users, p \in Products, spend \in Nat, row \in Machine :
           /\ buy[h].at = "split" /\ machine[m] = Absent
           /\ u = buy[h].user /\ p = buy[h].product /\ spend = buy[h].trialSpend
           /\ row.user = u /\ row.status = "ACTIVE" /\ row.trialSpend = spend
           /\ trial' = [trial EXCEPT ![u] = [status |-> trial[u].status,
                                             used |-> trial[u].used + spend]]
           /\ machine' = [machine EXCEPT ![m] = row]
  BY BuyCommitDoes
<1>2. /\ \A v : Active(v)' = IF v = u THEN Active(v) \cup {m} ELSE Active(v)
      /\ m \notin There
  BY <1>1, BoughtSets
<1>3. ASSUME NEW v
      PROVE  /\ SumFunctionOnSet(Lent', Active(v)) = SumFunctionOnSet(Lent, Active(v))
             /\ SumFunctionOnSet(Lent', Active(v) \cup {m})
                  = SumFunctionOnSet(Lent, Active(v)) + spend
  <2>1. Active(v) \subseteq There
    BY SetsAreThere
  <2>2. /\ SumFunctionOnSet(Lent', Active(v)) = SumFunctionOnSet(Lent, Active(v))
        /\ SumFunctionOnSet(Lent', Active(v) \cup {m})
             = SumFunctionOnSet(Lent, Active(v)) + row.trialSpend
    <3>1. machine[m] = Absent /\ machine' = [machine EXCEPT ![m] = row]
      BY <1>1
    <3> QED BY <2>1, <3>1, BoughtSums
  <2> QED BY <1>1, <2>2
<1>4. machine'[m] = row /\ \A v : \A n \in Active(v) : machine'[n] = machine[n]
  BY <1>1, <1>2, SetsAreThere DEF TypeInv, TypeOK, There
<1>5. ASSUME NEW v \in Users \ met', v # u
      PROVE  TrialInOrder(v)'
  <2>1. trial'[v] = trial[v] /\ TrialInOrder(v)
    BY <1>1, <1>5, TrialBooksPerUser DEF TypeInv, TypeOK
  <2> QED BY <1>2, <1>3, <1>4, <1>5, <2>1, TrialSame
<1>6. ASSUME u \notin met' PROVE TrialInOrder(u)'
  <2>1. /\ TrialInOrder(u) /\ trial[u].used \in Int /\ Price[p] \in Nat
        /\ trial[u].status \in {"ACTIVE", "RECOVERED"}
    BY <1>6, TrialBooksPerUser, PriceType DEF TypeInv, TypeOK
  <2>2. /\ trial[u].status # "ACTIVE" => spend = 0
        /\ trial[u].used + spend <= TRIAL_AMOUNT
    <3>1. spend = FromTrial(u, Price[p])
      BY <1>1, <1>6 DEF FundHolds, PaidAsRead
    <3> QED BY <2>1, <3>1, FromTrialFits DEF TrialInOrder
  <2>3. trial'[u].status = trial[u].status /\ trial'[u].used = trial[u].used + spend
    BY <1>1 DEF TypeInv, TypeOK
  <2>4. SumFunctionOnSet(Lent', Active(u)') = SumFunctionOnSet(Lent, Active(u)) + spend
    BY <1>2, <1>3
  <2>5. trial[u].status = "RECOVERED" =>
          \A n \in Active(u)' : machine'[n].inTrial => machine'[n].trialSpend = 0
    BY <1>1, <1>2, <1>4, <2>1, <2>2 DEF TrialInOrder
  <2> QED BY <2>1, <2>2, <2>3, <2>4, <2>5 DEF TrialInOrder
<1> QED BY <1>5, <1>6, TrialBooksPerUserNext

LEMMA RecoverCommitTrial ==
  ASSUME TypeInv, FoundIsFresh, TrialBooks, met \subseteq met', NEW u \in Users, RecoverCommit(u)
  PROVE  TrialBooks'
<1> DEFINE ms == recovery[u].found \cap Active(u)
<1>1. /\ recovery[u].at = "found" /\ machine' = MachinesWithout(ms)
      /\ \A v \in Users \ {u} : trial'[v] = trial[v]
      /\ trial'[u] = [status |-> "RECOVERED", used |-> 0]
  BY RecoverCommitEnds DEF Ends
<1>2. u \notin met => ms = {m \in Active(u) : machine[m].inTrial}
  BY <1>1 DEF FoundIsFresh
<1>3. ms \subseteq Active(u) /\ ms \subseteq There
  BY SetsAreThere
<1> HIDE DEF ms
<1>4. \A m \in MachineIds : machine'[m].inTrial = machine[m].inTrial
  BY <1>1, <1>3, EndedRows
<1>5. Lent' = Lent
  BY <1>1, <1>3, EndedRows
<1>6. \A m \in MachineIds : machine'[m].trialSpend = machine[m].trialSpend
  BY <1>5 DEF Lent
<1>7. ASSUME NEW v \in Users \ met', v # u
      PROVE  TrialInOrder(v)'
  <2>1. trial'[v] = trial[v] /\ TrialInOrder(v)
    BY <1>1, <1>7, TrialBooksPerUser
  <2>2. /\ Active(v)' = Active(v)
        /\ SumFunctionOnSet(Lent', Active(v)') = SumFunctionOnSet(Lent, Active(v))
    BY <1>1, <1>3, <1>7, OtherSums
  <2>3. \A m \in Active(v) : m \in MachineIds
    BY DEF Active
  <2> QED BY <1>4, <1>6, <2>1, <2>2, <2>3, TrialSame
<1>8. ASSUME u \notin met' PROVE TrialInOrder(u)'
  <2>1. trial'[u] = [status |-> "RECOVERED", used |-> 0]
    BY <1>1
  <2>2. Active(u)' = Active(u) \ ms
    BY <1>1, <1>3, EndedSets
  <2>3. \A m \in Active(u)' : ~machine'[m].inTrial
    BY <1>2, <1>4, <1>8, <2>2 DEF Active
  <2>4. trial'[u].status = "RECOVERED" /\ trial'[u].used = 0 /\ 0 <= TRIAL_AMOUNT
    BY <2>1 DEF TRIAL_AMOUNT
  <2> QED BY <2>3, <2>4 DEF TrialInOrder
<1> QED BY <1>7, <1>8, TrialBooksPerUserNext

LEMMA ExpiryCommitTrial ==
  ASSUME TypeInv, FoundIsFresh, TrialBooks, met \subseteq met', NEW j \in Jobs, ExpiryCommit(j)
  PROVE  TrialBooks'
<1>1. PICK u, ms : /\ u \in Users /\ ms \subseteq Active(u)
                   /\ machine' = MachinesWithout(ms)
                   /\ \A v \in Users \ {u} : trial'[v] = trial[v]
                   /\ u \notin met =>
                        trial' = IF TrialSum(ms) > 0
                                 THEN [trial EXCEPT ![u] = Returned(trial[u], TrialSum(ms))]
                                 ELSE trial
  <2>1. PICK u, found, ended :
          /\ Ends(u, found, ended)
          /\ expiry[j].at = "found" /\ u = expiry[j].user /\ found = expiry[j].found
          /\ ended = Expired(u, expiry[j].now)
          /\ trial' = IF TrialSum(found) > 0
                      THEN [trial EXCEPT ![u] = Returned(trial[u], TrialSum(found))] ELSE trial
    BY ExpiryCommitEnds
  <2>2. u \notin met => found = ended
    BY <2>1 DEF FoundIsFresh, Expired
  <2>3. /\ u \in Users /\ ended \subseteq Active(u)
        /\ machine' = MachinesWithout(ended)
        /\ \A v \in Users \ {u} : trial'[v] = trial[v]
    BY <2>1 DEF Ends
  <2> QED BY <2>1, <2>2, <2>3
<1> DEFINE back == SumFunctionOnSet(Lent, ms)
           held == SumFunctionOnSet(Lent, Active(u))
<1>9. u \in Users
  BY <1>1
<1>2. ms \subseteq There /\ Active(u) \subseteq There
  BY <1>1, SetsAreThere
<1>3. back \in Nat /\ held \in Nat /\ TrialSum(ms) = back
  BY <1>2, BookTypes DEF TrialSum, Lent
<1>4. \A m \in MachineIds : machine'[m].inTrial = machine[m].inTrial
  BY <1>1, <1>2, EndedRows
<1>5. Lent' = Lent
  BY <1>1, <1>2, EndedRows
<1>6. \A m \in MachineIds : machine'[m].trialSpend = machine[m].trialSpend
  BY <1>5 DEF Lent
<1>7. ASSUME NEW v \in Users \ met', v # u
      PROVE  TrialInOrder(v)'
  <2>1. trial'[v] = trial[v] /\ TrialInOrder(v)
    BY <1>1, <1>7, TrialBooksPerUser
  <2>2. /\ Active(v)' = Active(v)
        /\ SumFunctionOnSet(Lent', Active(v)') = SumFunctionOnSet(Lent, Active(v))
    BY <1>1, <1>7, OtherSums
  <2>3. \A m \in Active(v) : m \in MachineIds
    BY DEF Active
  <2> QED BY <1>4, <1>6, <2>1, <2>2, <2>3, TrialSame
<1>8. ASSUME u \notin met' PROVE TrialInOrder(u)'
  <2>0. trial' = IF TrialSum(ms) > 0 THEN [trial EXCEPT ![u] = Returned(trial[u], TrialSum(ms))]
                 ELSE trial
    BY <1>1, <1>8
  <2>1. SumFunctionOnSet(Lent', Active(u)') = held - back
    BY <1>1, EndedSums
  <2>2. Active(u)' = Active(u) \ ms
    BY <1>1, EndedSets
  <2>3. \A m \in Active(u)' : m \in MachineIds /\ m \in Active(u) /\ m \in There
    BY <2>2, <1>2 DEF Active
  <2>4. held - back \in Nat
    <3>1. Active(u)' \subseteq There
      BY <2>3
    <3>2. SumFunctionOnSet(Lent, Active(u)') \in Nat
      BY <3>1, BookTypes
    <3> QED BY <1>5, <2>1, <3>2
  <2>5. TrialInOrder(u) /\ trial[u].used \in Int /\ trial[u].status \in {"ACTIVE", "RECOVERED"}
    BY <1>8, <1>9, TrialBooksPerUser DEF TypeInv, TypeOK
  <2>6. held - back = 0 => \A m \in Active(u)' : machine'[m].trialSpend = 0
    <3>1. /\ IsFiniteSet(Active(u)') /\ \A m \in Active(u)' : Lent[m] \in Nat
      <4>1. Active(u)' \subseteq There
        BY <2>3
      <4> QED BY <4>1, BookTypes
    <3>2. SumFunctionOnSet(Lent, Active(u)') = held - back
      BY <1>5, <2>1
    <3>3. \A m \in Active(u)' : Lent[m] <= held - back
      <4> HIDE DEF Lent, held, back
      <4> QED BY <3>1, <3>2, SumElement
    <3>4. \A m \in Active(u)' : Lent[m] = machine'[m].trialSpend
      BY <1>6, <2>3 DEF Lent
    <3> HIDE DEF Lent, held, back
    <3> QED BY <3>1, <3>3, <3>4
  <2>7. trial[u].status = "RECOVERED" =>
          \A m \in Active(u)' : machine'[m].inTrial => machine'[m].trialSpend = 0
    BY <1>4, <1>6, <2>3, <2>5 DEF TrialInOrder
  <2> DEFINE left == trial[u].used - back
  <2>8. CASE back = 0
    <3>1. trial' = trial /\ held - back = held
      BY <1>3, <2>0, <2>8
    <3> HIDE DEF held, back
    <3> QED BY <2>1, <2>5, <2>7, <3>1 DEF TrialInOrder, held
  <2>9. CASE back > 0 /\ left <= 0
    <3>1. trial' = [trial EXCEPT ![u] = [status |-> "RECOVERED", used |-> 0]]
      BY <1>3, <2>0, <2>9 DEF Returned
    <3>2. trial'[u] = [status |-> "RECOVERED", used |-> 0]
      BY <1>9, <3>1 DEF TypeInv, TypeOK
    <3>3. trial'[u].status = "RECOVERED" /\ trial'[u].used = 0 /\ 0 <= TRIAL_AMOUNT
      BY <3>2 DEF TRIAL_AMOUNT
    <3>4. trial[u].status = "ACTIVE" => held - back = 0
      BY <1>3, <2>4, <2>5, <2>9 DEF TrialInOrder, held
    <3>5. \A m \in Active(u)' : machine'[m].inTrial => machine'[m].trialSpend = 0
      BY <2>5, <2>6, <2>7, <3>4
    <3> QED BY <3>3, <3>5 DEF TrialInOrder
  <2>10. CASE back > 0 /\ ~(left <= 0)
    <3>1. trial' = [trial EXCEPT ![u] = [status |-> trial[u].status, used |-> left]]
      BY <1>3, <2>0, <2>10 DEF Returned
    <3>2. trial'[u].status = trial[u].status /\ trial'[u].used = left
      <4> HIDE DEF left
      <4> QED BY <1>9, <3>1 DEF TypeInv, TypeOK
    <3>3. trial[u].status = "ACTIVE"
      BY <1>3, <2>5, <2>10 DEF TrialInOrder
    <3>4. left = held - back /\ left <= TRIAL_AMOUNT
      BY <1>3, <2>5, <2>10, <3>3 DEF TrialInOrder, TRIAL_AMOUNT
    <3> HIDE DEF left, held, back
    <3> QED BY <2>1, <3>2, <3>3, <3>4 DEF TrialInOrder
  <2>11. back = 0 \/ back > 0
    BY <1>3
  <2> QED BY <2>8, <2>9, <2>10, <2>11
<1> QED BY <1>7, <1>8, TrialBooksPerUserNext

LEMMA TrialStep ==
  TypeInv /\ FoundIsFresh /\ FundHolds /\ TrialBooks /\ [Next]_vars => TrialBooks'
<1> SUFFICES ASSUME TypeInv, FoundIsFresh, FundHolds, TrialBooks, [Next]_vars PROVE TrialBooks'
  OBVIOUS
<1>0. met \subseteq met'
  BY HistoryStays
<1>1. ASSUME UNCHANGED <<machine, trial>>
      PROVE  TrialBooks'
  BY <1>0, <1>1 DEF TrialBooks, TrialUsageIsExplained, TrialMoneyReturned, Active, TrialSum
<1>2. CASE UNCHANGED tables
  BY <1>1, <1>2 DEF tables
<1>3. ASSUME NEW m \in MachineIds, RewardPay(m) PROVE TrialBooks'
  BY <1>1, <1>3 DEF RewardPay
<1> QED BY <1>0, <1>2, <1>3, BuyCommitTrial, RecoverCommitTrial, ExpiryCommitTrial, TableSteps

(* A purchase's part of the fund stays right when nobody else touches it.   *)
LEMMA PaidKept ==
  ASSUME met \subseteq met', NEW h \in Handlers, PaidAsRead(h), buy'[h] = buy[h],
         buy[h].at = "split" /\ buy[h].user \notin met' =>
           trial'[buy[h].user] = trial[buy[h].user]
  PROVE  PaidAsRead(h)'
BY DEF PaidAsRead, FromTrial

LEMMA IdlePays == ASSUME NEW h, buy'[h].at # "split" PROVE PaidAsRead(h)'
BY DEF PaidAsRead

LEMMA FundStep ==
  ASSUME TypeInv, Apart, FundHolds, [Next]_vars
  PROVE  FundHolds'
<1>0. met \subseteq met' /\ Idle.at # "split"
  BY HistoryStays DEF Idle
<1>1. ASSUME UNCHANGED trial,
             \A h \in Handlers : buy'[h] = buy[h] \/ buy'[h].at # "split"
      PROVE  FundHolds'
  <2> SUFFICES ASSUME NEW h \in Handlers PROVE PaidAsRead(h)'
    BY DEF FundHolds
  <2>1. PaidAsRead(h)
    BY DEF FundHolds
  <2>2. CASE buy'[h] = buy[h]
    BY <1>0, <1>1, <2>1, <2>2, PaidKept
  <2>3. CASE buy'[h].at # "split"
    BY <2>3, IdlePays
  <2> QED BY <1>1, <2>2, <2>3
<1>2. ASSUME NEW h \in Handlers, NEW u \in Users, NEW p \in Products, BuyRead(h, u, p)
      PROVE  FundHolds'
  <2> DEFINE new == [at |-> "read", user |-> u, product |-> p, balance |-> wallet[u].balance]
  <2>1. buy' = [buy EXCEPT ![h] = new] /\ UNCHANGED trial
    BY <1>2 DEF BuyRead, tables
  <2>2. new.at # "split"
    OBVIOUS
  <2> HIDE DEF new
  <2>3. \A g \in Handlers : buy'[g] = buy[g] \/ buy'[g].at # "split"
    BY <2>1, <2>2 DEF TypeInv, TypeOK
  <2> QED BY <1>1, <2>1, <2>3
<1>3. ASSUME NEW h \in Handlers, BuySplit(h)
      PROVE  FundHolds'
  <2> DEFINE spend == FromTrial(buy[h].user, Price[buy[h].product])
             new == [at |-> "split", user |-> buy[h].user, product |-> buy[h].product,
                     trialSpend |-> spend]
  <2>1. /\ buy' = [buy EXCEPT ![h] = new] \/ buy' = [buy EXCEPT ![h] = Idle]
        /\ UNCHANGED trial
    BY <1>3 DEF BuySplit, tables
  <2>2. new.user = buy[h].user /\ new.product = buy[h].product /\ new.trialSpend = spend
    OBVIOUS
  <2>3. \A v, price : FromTrial(v, price)' = FromTrial(v, price)
    BY <2>1 DEF FromTrial
  <2> HIDE DEF new
  <2>4. buy'[h] = new \/ buy'[h] = Idle
    BY <2>1 DEF TypeInv, TypeOK
  <2>5. PaidAsRead(h)'
    BY <1>0, <2>2, <2>3, <2>4 DEF PaidAsRead
  <2>6. ASSUME NEW g \in Handlers, g # h PROVE PaidAsRead(g)'
    <3>1. buy'[g] = buy[g]
      BY <2>1, <2>6 DEF TypeInv, TypeOK
    <3>2. PaidAsRead(g)
      BY DEF FundHolds
    <3> QED BY <1>0, <2>1, <3>1, <3>2, PaidKept
  <2> QED BY <2>5, <2>6 DEF FundHolds
<1>4. ASSUME NEW u \in Users, \A v \in Users \ {u} : trial'[v] = trial[v],
             u \notin met => \A h \in Handlers : Buying(h, u) => buy'[h] = Idle,
             \A h \in Handlers : buy'[h] = buy[h] \/ buy'[h] = Idle
      PROVE  FundHolds'
  <2> SUFFICES ASSUME NEW h \in Handlers PROVE PaidAsRead(h)'
    BY DEF FundHolds
  <2>1. CASE buy'[h] = Idle
    BY <1>0, <2>1, IdlePays
  <2>2. CASE buy'[h] = buy[h] /\ buy'[h] # Idle
    <3>1. buy[h].user \in Users /\ buy[h].at # "idle"
      BY <2>2, PurchaseType DEF TypeInv, Purchase
    <3>2. buy[h].user \notin met' => buy[h].user # u
      BY <1>0, <1>4, <2>2, <3>1 DEF Buying
    <3>3. buy[h].user \notin met' => trial'[buy[h].user] = trial[buy[h].user]
      BY <1>4, <3>1, <3>2
    <3>4. PaidAsRead(h)
      BY DEF FundHolds
    <3> QED BY <1>0, <2>2, <3>3, <3>4, PaidKept
  <2> QED BY <1>4, <2>1, <2>2
<1>5. ASSUME NEW h \in Handlers, NEW m \in MachineIds, BuyCommit(h, m)
      PROVE  FundHolds'
  <2>1. PICK u \in Users, p \in Products, spend \in Nat, row \in Machine :
           /\ buy[h].at = "split" /\ u = buy[h].user
           /\ trial' = [trial EXCEPT ![u] = [status |-> trial[u].status,
                                             used |-> trial[u].used + spend]]
           /\ buy' = [buy EXCEPT ![h] = Idle]
    BY <1>5, BuyCommitDoes
  <2>2. \A v \in Users \ {u} : trial'[v] = trial[v]
    BY <2>1 DEF TypeInv, TypeOK
  <2>3. buy'[h] = Idle /\ \A g \in Handlers : g # h => buy'[g] = buy[g]
    BY <2>1 DEF TypeInv, TypeOK
  <2>4. u \notin met => \A g \in Handlers : Buying(g, u) => g = h
    BY <2>1 DEF Apart, Buying
  <2> QED BY <1>4, <2>2, <2>3, <2>4
<1>6. ASSUME NEW u \in Users, RecoverCommit(u)
      PROVE  FundHolds'
  <2>1. /\ recovery[u].at = "found" /\ \A v \in Users \ {u} : trial'[v] = trial[v]
        /\ UNCHANGED buy
    BY <1>6, RecoverCommitEnds DEF Ends, RecoverCommit
  <2>2. u \notin met => \A h \in Handlers : ~Buying(h, u)
    BY <2>1 DEF Apart, Recovering
  <2> QED BY <1>4, <2>1, <2>2
<1>7. ASSUME NEW j \in Jobs, ExpiryCommit(j)
      PROVE  FundHolds'
  <2>1. PICK u, found, ended :
          /\ Ends(u, found, ended) /\ expiry[j].at = "found" /\ u = expiry[j].user
    BY <1>7, ExpiryCommitEnds
  <2>2. u \in Users /\ \A v \in Users \ {u} : trial'[v] = trial[v]
    BY <2>1 DEF Ends
  <2>3. u \notin met => \A h \in Handlers : ~Buying(h, u)
    BY <2>1, <2>2 DEF Apart, Refunding
  <2>4. UNCHANGED buy
    BY <1>7 DEF ExpiryCommit
  <2> QED BY <1>4, <2>2, <2>3, <2>4
<1>8. ASSUME UNCHANGED <<trial, buy>> PROVE FundHolds'
  BY <1>1, <1>8
<1>9. ASSUME NEW h \in Handlers, BuyFails(h) PROVE FundHolds'
  <2>1. buy' = [buy EXCEPT ![h] = Idle] /\ UNCHANGED trial
    BY <1>9 DEF BuyFails, tables
  <2>2. \A g \in Handlers : buy'[g] = buy[g] \/ buy'[g] = Idle
    BY <2>1 DEF TypeInv, TypeOK
  <2> QED BY <1>0, <1>1, <2>1, <2>2
<1>10. CASE Crash
  <2>1. UNCHANGED trial /\ \A g \in Handlers : buy'[g] = Idle
    BY <1>10 DEF Crash, tables
  <2> QED BY <1>0, <1>1, <2>1
<1>11. ASSUME NEW u \in Users, TrialEnds(u) \/ Recover(u) \/ RecoveryFails(u)
       PROVE  FundHolds'
  BY <1>6, <1>8, <1>11 DEF TrialEnds, Recover, RecoverRead, RecoverFind, RecoveryFails,
                           tables, handlers
<1>12. ASSUME NEW m \in MachineIds, RentalEnds(m) \/ RewardPay(m) \/ RewardClash(m)
       PROVE  FundHolds'
  BY <1>8, <1>12 DEF RentalEnds, RewardPay, RewardClash, tables, handlers
<1>13. ASSUME NEW j \in Jobs, Expire(j) \/ ExpiryFails(j)
       PROVE  FundHolds'
  BY <1>7, <1>8, <1>13 DEF Expire, ExpiryStart, ExpiryFind, ExpiryFails, tables
<1>14. ASSUME RewardStart \/ RewardFails \/ UNCHANGED vars
       PROVE  FundHolds'
  BY <1>8, <1>14 DEF RewardStart, RewardFails, vars, tables, handlers
<1> QED BY <1>2, <1>3, <1>5, <1>9, <1>10, <1>11, <1>12, <1>13, <1>14 DEF Next, Buy

-----------------------------------------------------------------------------
(* What a purchase has read of the wallet still covers it when it commits:  *)
(* no other purchase of the user is in flight, and the wallet can only have *)
(* grown.                                                                   *)
OnePurchase == \A u \in Users \ rushed, g, h \in Handlers : Buying(g, u) /\ Buying(h, u) => g = h

IsCovered(h) ==
  /\ buy[h].at = "read" /\ buy[h].user \notin rushed =>
       buy[h].balance <= wallet[buy[h].user].balance
  /\ buy[h].at = "split" /\ buy[h].user \notin rushed =>
       Price[buy[h].product] - buy[h].trialSpend <= wallet[buy[h].user].balance

BuyCovered == \A h \in Handlers : IsCovered(h)

LEMMA OnePurchaseStep == ASSUME TypeInv, OnePurchase, [Next]_vars PROVE OnePurchase'
<1>0. rushed \subseteq rushed'
  BY HistoryStays
<1>1. ASSUME \A h \in Handlers, u \in Users : Buying(h, u)' => Buying(h, u)
      PROVE  OnePurchase'
  BY <1>0, <1>1 DEF OnePurchase
<1>2. ASSUME NEW h \in Handlers, NEW u \in Users, NEW p \in Products, BuyRead(h, u, p)
      PROVE  OnePurchase'
  <2> DEFINE new == [at |-> "read", user |-> u, product |-> p, balance |-> wallet[u].balance]
  <2>1. /\ buy' = [buy EXCEPT ![h] = new]
        /\ (\E g \in Handlers : buy[g] # Idle /\ buy[g].user = u) => u \in rushed'
    BY <1>2 DEF BuyRead
  <2>2. new.user = u
    OBVIOUS
  <2> HIDE DEF new
  <2>3. \A g \in Handlers : g # h => buy'[g] = buy[g]
    BY <2>1 DEF TypeInv, TypeOK
  <2>4. buy'[h].user = u
    BY <2>1, <2>2 DEF TypeInv, TypeOK
  <2>5. \A g \in Handlers : Buying(g, u) => u \in rushed'
    BY <2>1 DEF Buying, Idle
  <2>6. \A g \in Handlers, v \in Users :
          Buying(g, v)' => (g # h /\ Buying(g, v)) \/ (g = h /\ v = u)
    BY <2>3, <2>4 DEF Buying
  <2> QED BY <1>0, <2>5, <2>6 DEF OnePurchase
<1>3. ASSUME NEW h \in Handlers, BuySplit(h)
      PROVE  OnePurchase'
  <2> DEFINE spend == FromTrial(buy[h].user, Price[buy[h].product])
             new == [at |-> "split", user |-> buy[h].user, product |-> buy[h].product,
                     trialSpend |-> spend]
  <2>1. /\ buy' = [buy EXCEPT ![h] = new] \/ buy' = [buy EXCEPT ![h] = Idle]
        /\ buy[h].at = "read"
    BY <1>3 DEF BuySplit
  <2>2. new.user = buy[h].user /\ Idle.at = "idle"
    BY DEF Idle
  <2> HIDE DEF new
  <2>3. /\ \A g \in Handlers : g # h => buy'[g] = buy[g]
        /\ buy'[h] = new \/ buy'[h] = Idle
    BY <2>1 DEF TypeInv, TypeOK
  <2> QED BY <1>1, <2>1, <2>2, <2>3 DEF Buying
<1>4. ASSUME \A h \in Handlers : buy'[h] = buy[h] \/ buy'[h] = Idle
      PROVE  OnePurchase'
  BY <1>1, <1>4 DEF Buying, Idle
<1>5. ASSUME NEW h \in Handlers, buy' = [buy EXCEPT ![h] = Idle] PROVE OnePurchase'
  BY <1>4, <1>5 DEF TypeInv, TypeOK
<1>6. ASSUME NEW h \in Handlers, Buy(h) \/ BuyFails(h)
      PROVE  OnePurchase'
  BY <1>2, <1>3, <1>5, <1>6, Zenon DEF Buy, BuyCommit, BuyFails
<1>7. CASE Crash
  BY <1>4, <1>7 DEF Crash
<1>8. ASSUME UNCHANGED buy PROVE OnePurchase'
  BY <1>4, <1>8
<1>9. ASSUME NEW u \in Users, TrialEnds(u) \/ Recover(u) \/ RecoveryFails(u)
      PROVE  OnePurchase'
  BY <1>8, <1>9 DEF TrialEnds, Recover, RecoverRead, RecoverFind, RecoverCommit, RecoveryFails,
                    handlers
<1>10. ASSUME NEW m \in MachineIds, RentalEnds(m) \/ RewardPay(m) \/ RewardClash(m)
       PROVE  OnePurchase'
  BY <1>8, <1>10 DEF RentalEnds, RewardPay, RewardClash, handlers
<1>11. ASSUME NEW j \in Jobs, Expire(j) \/ ExpiryFails(j)
       PROVE  OnePurchase'
  BY <1>8, <1>11 DEF Expire, ExpiryStart, ExpiryFind, ExpiryCommit, ExpiryFails
<1>12. CASE RewardStart \/ RewardFails \/ UNCHANGED vars
  BY <1>8, <1>12 DEF RewardStart, RewardFails, vars, handlers
<1> QED BY <1>6, <1>7, <1>9, <1>10, <1>11, <1>12 DEF Next

LEMMA IdleIsCovered == ASSUME NEW h, buy'[h] = Idle PROVE IsCovered(h)'
BY DEF IsCovered, Idle

(* A purchase stays covered when nobody takes from its user's wallet.       *)
LEMMA CoveredKept ==
  ASSUME TypeInv, TypeOK', rushed \subseteq rushed', NEW h \in Handlers, IsCovered(h),
         buy'[h] = buy[h],
         buy[h].at # "idle" /\ buy[h].user \notin rushed' =>
           wallet[buy[h].user].balance <= wallet'[buy[h].user].balance
  PROVE  IsCovered(h)'
<1>1. CASE buy[h] = Idle
  BY <1>1, IdleIsCovered
<1>2. CASE buy[h] # Idle /\ buy[h].user \in rushed'
  BY <1>2 DEF IsCovered
<1>3. CASE buy[h] # Idle /\ buy[h].user \notin rushed'
  <2> DEFINE u == buy[h].user
             price == Price[buy[h].product]
  <2>1. /\ buy[h] \in Purchase /\ u \in Users /\ buy[h].product \in Products
        /\ buy[h].at = "read" => buy[h].balance \in Int
        /\ buy[h].at = "split" => buy[h].trialSpend \in Nat
    BY <1>3, PurchaseType DEF TypeInv
  <2>2. buy[h].at \in {"read", "split"}
    BY <2>1 DEF Purchase
  <2>3. wallet[u].balance <= wallet'[u].balance /\ u \notin rushed
    BY <1>3, <2>2
  <2>5. wallet[u].balance \in Int /\ wallet'[u].balance \in Int /\ price \in Nat
    BY <2>1, PriceType DEF TypeInv, TypeOK, Accounts, Wallet
  <2>6. CASE buy[h].at = "read"
    <3>1. buy[h].balance <= wallet'[u].balance
      BY <2>1, <2>3, <2>5, <2>6 DEF IsCovered
    <3> QED BY <2>6, <3>1 DEF IsCovered
  <2>7. CASE buy[h].at = "split"
    <3>1. price - buy[h].trialSpend <= wallet'[u].balance
      BY <2>1, <2>3, <2>5, <2>7 DEF IsCovered
    <3> QED BY <2>7, <3>1 DEF IsCovered
  <2> QED BY <2>2, <2>6, <2>7
<1> QED BY <1>1, <1>2, <1>3

(* A refund takes from no wallet's balance.                                 *)
LEMMA RefundsOnlyAdd ==
  ASSUME TypeInv, NEW u \in Users, NEW ms, ms \subseteq There, wallet' = Refunded(u, ms)
  PROVE  \A c \in Accounts : wallet[c].balance <= wallet'[c].balance
<1>1. SumFunctionOnSet(Spent, ms) \in Nat
  BY BookTypes
<1>2. \A c \in Accounts :
        /\ wallet'[c].balance
             = wallet[c].balance + (IF c = u THEN SumFunctionOnSet(Spent, ms) ELSE 0)
        /\ wallet[c].balance \in Int
  BY RefundedMoney
<1> QED BY <1>1, <1>2

LEMMA RewardsOnlyAdd ==
  ASSUME TypeInv, NEW m \in MachineIds, RewardPay(m)
  PROVE  \A c \in Accounts : wallet[c].balance <= wallet'[c].balance
<1>1. PICK u \in Users, p \in Products :
        \A a \in Accounts :
           wallet'[a].balance = wallet[a].balance + TeamBonus(a, u, RewardOf(p))
                                  + (IF a = u THEN RewardOf(p) ELSE 0)
  BY RewardPayDoes
<1>2. RewardOf(p) \in Nat
  BY RewardOfType
<1>3. \A a : TeamBonus(a, u, RewardOf(p)) \in Nat
  BY <1>2, TeamBonusType
<1>4. \A a \in Accounts : wallet[a].balance \in Int
  BY DEF TypeInv, TypeOK, Wallet
<1> QED BY <1>1, <1>2, <1>3, <1>4

LEMMA BuyReadCovered ==
  ASSUME TypeInv, TypeOK', BuyCovered, rushed \subseteq rushed',
         NEW h \in Handlers, NEW u \in Users, NEW p \in Products, BuyRead(h, u, p)
  PROVE  BuyCovered'
<1> DEFINE new == [at |-> "read", user |-> u, product |-> p, balance |-> wallet[u].balance]
<1>1. buy' = [buy EXCEPT ![h] = new] /\ UNCHANGED wallet
  BY DEF BuyRead, tables
<1>2. /\ new.at = "read" /\ new.user = u /\ new.balance = wallet[u].balance
      /\ wallet[u].balance \in Int
  BY DEF TypeInv, TypeOK, Accounts, Wallet
<1> HIDE DEF new
<1>3. buy'[h] = new /\ \A g \in Handlers : g # h => buy'[g] = buy[g]
  BY <1>1 DEF TypeInv, TypeOK
<1>4. ASSUME NEW g \in Handlers, g # h PROVE IsCovered(g)'
  BY <1>1, <1>3, <1>4 DEF IsCovered, BuyCovered
<1>5. IsCovered(h)'
  BY <1>1, <1>2, <1>3 DEF IsCovered
<1> QED BY <1>4, <1>5 DEF BuyCovered

LEMMA BuySplitCovered ==
  ASSUME TypeInv, TypeOK', BuyCovered, NEW h \in Handlers, BuySplit(h)
  PROVE  BuyCovered'
<1> DEFINE u == buy[h].user
           p == buy[h].product
           spend == FromTrial(u, Price[p])
           new == [at |-> "split", user |-> u, product |-> p, trialSpend |-> spend]
<1>1. /\ buy[h].at = "read"
      /\ \/ buy' = [buy EXCEPT ![h] = new] /\ Covers(buy[h].balance, Price[p] - spend)
         \/ buy' = [buy EXCEPT ![h] = Idle]
      /\ UNCHANGED <<wallet, rushed>>
  BY DEF BuySplit, tables, history
<1>2. /\ u \in Users /\ p \in Products /\ buy[h].balance \in Int
  BY <1>1, PurchaseType DEF Idle, TypeInv
<1>3. /\ Price[p] \in Nat /\ wallet[u].balance \in Int /\ trial[u].used \in Int
  BY <1>2, PriceType DEF TypeInv, TypeOK, Accounts, Wallet
<1>4. spend \in Nat
  BY <1>3, FromTrialFits
<1>5. ASSUME NEW g \in Handlers, g # h PROVE IsCovered(g)'
  <2>1. buy'[g] = buy[g]
    <3> HIDE DEF new
    <3> QED BY <1>1, <1>5 DEF TypeInv, TypeOK
  <2> QED BY <1>1, <2>1 DEF IsCovered, BuyCovered
<1>6. CASE buy' = [buy EXCEPT ![h] = Idle]
  <2>1. buy'[h] = Idle
    BY <1>6 DEF TypeInv, TypeOK
  <2> QED BY <1>5, <2>1, IdleIsCovered DEF BuyCovered
<1>7. CASE buy' = [buy EXCEPT ![h] = new] /\ Covers(buy[h].balance, Price[p] - spend)
  <2>1. IsCovered(h)
    BY DEF BuyCovered
  <2>2. /\ u \notin rushed => buy[h].balance <= wallet[u].balance
        /\ Price[p] - spend <= buy[h].balance
    BY <1>1, <1>7, <2>1 DEF IsCovered, Covers
  <2>3. u \notin rushed => Price[p] - spend <= wallet[u].balance
    <3> HIDE DEF spend
    <3> QED BY <1>2, <1>3, <1>4, <2>2
  <2>4. buy'[h] = new
    <3> HIDE DEF new
    <3> QED BY <1>7 DEF TypeInv, TypeOK
  <2>5. /\ buy'[h].at = "split" /\ buy'[h].user = u /\ buy'[h].product = p
        /\ buy'[h].trialSpend = spend
    BY <2>4
  <2>6. IsCovered(h)'
    <3> HIDE DEF u, p, new
    <3> QED BY <1>1, <2>3, <2>5 DEF IsCovered
  <2> QED BY <1>5, <2>6 DEF BuyCovered
<1> QED BY <1>1, <1>6, <1>7

LEMMA BuyCommitCovered ==
  ASSUME TypeInv, TypeOK', OnePurchase, BuyCovered, rushed \subseteq rushed',
         NEW h \in Handlers, NEW m \in MachineIds, BuyCommit(h, m)
  PROVE  BuyCovered'
<1>1. PICK u \in Users, p \in Products, spend \in Nat, row \in Machine :
           /\ buy[h].at = "split" /\ u = buy[h].user
           /\ wallet' = Move(Move(wallet, u, spend - Price[p], Price[p]), Seller, Price[p], 0)
           /\ buy' = [buy EXCEPT ![h] = Idle]
  BY BuyCommitDoes
<1>2. Price[p] \in Nat
  BY PriceType
<1>3. \A c \in Accounts :
         /\ wallet'[c].balance = wallet[c].balance + (IF c = u THEN spend - Price[p] ELSE 0)
                                   + (IF c = Seller THEN Price[p] ELSE 0)
         /\ wallet[c].balance \in Int
  BY <1>1, <1>2, BoughtMoney
<1>4. \A v \in Users : v # u => wallet[v].balance <= wallet'[v].balance
  BY <1>2, <1>3, MachinesAssumption DEF Accounts
<1>5. ASSUME NEW g \in Handlers, g # h PROVE IsCovered(g)'
  <2>1. buy'[g] = buy[g] /\ IsCovered(g)
    BY <1>1, <1>5 DEF TypeInv, TypeOK, BuyCovered
  <2>2. buy[g].at # "idle" /\ buy[g].user \notin rushed' =>
          buy[g].user \in Users /\ buy[g].user # u
    <3> SUFFICES ASSUME buy[g].at # "idle", buy[g].user \notin rushed'
                 PROVE  buy[g].user \in Users /\ buy[g].user # u
      OBVIOUS
    <3>1. buy[g].user \in Users
      BY PurchaseType DEF Idle, TypeInv
    <3>2. Buying(h, u) /\ (buy[g].user = u => Buying(g, u))
      BY <1>1 DEF Buying
    <3> QED BY <1>5, <3>1, <3>2 DEF OnePurchase
  <2> QED BY <1>4, <2>1, <2>2, CoveredKept
<1>6. buy'[h] = Idle
  BY <1>1 DEF TypeInv, TypeOK
<1> QED BY <1>5, <1>6, IdleIsCovered DEF BuyCovered

LEMMA CoveredStep ==
  ASSUME TypeInv, TypeOK', OnePurchase, BuyCovered, [Next]_vars
  PROVE  BuyCovered'
<1>0. rushed \subseteq rushed'
  BY HistoryStays
<1>1. ASSUME \A c \in Accounts : wallet[c].balance <= wallet'[c].balance,
             \A h \in Handlers : buy'[h] = buy[h] \/ buy'[h] = Idle
      PROVE  BuyCovered'
  <2> SUFFICES ASSUME NEW h \in Handlers PROVE IsCovered(h)'
    BY DEF BuyCovered
  <2>1. CASE buy'[h] = buy[h]
    <3>1. buy[h].at # "idle" => buy[h].user \in Accounts
      BY PurchaseType DEF Idle, TypeInv, Accounts
    <3>2. IsCovered(h)
      BY DEF BuyCovered
    <3> QED BY <1>0, <1>1, <2>1, <3>1, <3>2, CoveredKept
  <2> QED BY <1>1, <2>1, IdleIsCovered
<1>2. \A c \in Accounts : wallet[c].balance \in Int
  BY DEF TypeInv, TypeOK, Wallet
<1>3. ASSUME NEW h \in Handlers, Buy(h) \/ BuyFails(h)
      PROVE  BuyCovered'
  <2>1. CASE BuyFails(h)
    BY <1>1, <1>2, <2>1 DEF BuyFails, tables, TypeInv, TypeOK
  <2>2. CASE Buy(h)
    BY <1>0, <2>2, BuyReadCovered, BuySplitCovered, BuyCommitCovered DEF Buy
  <2> QED BY <1>3, <2>1, <2>2
<1>4. ASSUME NEW u \in Users, RecoverCommit(u)
      PROVE  BuyCovered'
  <2>1. /\ recovery[u].found \subseteq There /\ wallet' = Refunded(u, recovery[u].found)
        /\ buy' = buy
    BY <1>4, RecoverCommitDoes
  <2> QED BY <1>1, <2>1, RefundsOnlyAdd
<1>5. ASSUME NEW j \in Jobs, ExpiryCommit(j)
      PROVE  BuyCovered'
  <2>1. PICK u, found : /\ u \in Users /\ found \subseteq There
                        /\ wallet' = Refunded(u, found)
                        /\ buy' = buy
    BY <1>5, ExpiryCommitDoes
  <2> QED BY <1>1, <2>1, RefundsOnlyAdd
<1>6. ASSUME NEW m \in MachineIds, RewardPay(m)
      PROVE  BuyCovered'
  <2>1. UNCHANGED buy
    BY <1>6 DEF RewardPay
  <2> QED BY <1>1, <1>6, <2>1, RewardsOnlyAdd
<1>7. ASSUME UNCHANGED <<tables, buy>>
      PROVE  BuyCovered'
  BY <1>1, <1>2, <1>7 DEF tables
<1>8. ASSUME Crash
      PROVE  BuyCovered'
  BY <1>1, <1>2, <1>8 DEF Crash, tables
<1>9. ASSUME NEW u \in Users, TrialEnds(u) \/ Recover(u) \/ RecoveryFails(u)
      PROVE  BuyCovered'
  BY <1>4, <1>7, <1>9 DEF TrialEnds, Recover, RecoverRead, RecoverFind, RecoveryFails, handlers
<1>10. ASSUME NEW m \in MachineIds, RentalEnds(m) \/ RewardPay(m) \/ RewardClash(m)
       PROVE  BuyCovered'
  BY <1>6, <1>7, <1>10 DEF RentalEnds, RewardClash, handlers
<1>11. ASSUME NEW j \in Jobs, Expire(j) \/ ExpiryFails(j)
       PROVE  BuyCovered'
  BY <1>5, <1>7, <1>11 DEF Expire, ExpiryStart, ExpiryFind, ExpiryFails
<1>12. ASSUME RewardStart \/ RewardFails \/ UNCHANGED vars
       PROVE  BuyCovered'
  BY <1>7, <1>12 DEF RewardStart, RewardFails, vars, handlers
<1> QED BY <1>3, <1>8, <1>9, <1>10, <1>11, <1>12 DEF Next

(* No wallet of a buyer goes below zero.                                    *)
LEMMA OverdrawnStep ==
  ASSUME TypeInv, BuyCovered, NeverOverdrawn, [Next]_vars
  PROVE  NeverOverdrawn'
<1>9. rushed \subseteq rushed'
  BY HistoryStays
<1>0. ASSUME \A c \in Accounts : wallet[c].balance <= wallet'[c].balance,
             \A c \in Accounts : wallet'[c].balance \in Int
      PROVE  NeverOverdrawn'
  BY <1>9, <1>0 DEF NeverOverdrawn, Accounts, TypeInv, TypeOK, Wallet
<1>1. CASE UNCHANGED tables
  BY <1>9, <1>1 DEF NeverOverdrawn, tables
<1>2. ASSUME NEW h \in Handlers, NEW m \in MachineIds, BuyCommit(h, m)
      PROVE  NeverOverdrawn'
  <2>1. PICK u \in Users, p \in Products, spend \in Nat, row \in Machine :
           /\ buy[h].at = "split" /\ u = buy[h].user
           /\ p = buy[h].product /\ spend = buy[h].trialSpend
           /\ wallet' = Move(Move(wallet, u, spend - Price[p], Price[p]), Seller, Price[p], 0)
    BY <1>2, BuyCommitDoes
  <2>2. Price[p] \in Nat
    BY PriceType
  <2>3. \A c \in Accounts :
           /\ wallet'[c].balance = wallet[c].balance + (IF c = u THEN spend - Price[p] ELSE 0)
                                     + (IF c = Seller THEN Price[p] ELSE 0)
           /\ wallet[c].balance \in Int
    BY <2>1, <2>2, BoughtMoney
  <2>4. u \notin rushed => Price[p] - spend <= wallet[u].balance
    BY <2>1 DEF BuyCovered, IsCovered
  <2>5. \A v \in Users : v \in Accounts /\ v # Seller
    BY MachinesAssumption DEF Accounts
  <2> QED BY <1>9, <2>2, <2>3, <2>4, <2>5 DEF NeverOverdrawn
<1>3. TypeInv'
  BY TypeStep
<1>4. \A c \in Accounts : wallet'[c].balance \in Int
  BY <1>3 DEF TypeInv, TypeOK, Wallet
<1>5. ASSUME NEW u \in Users, RecoverCommit(u)
      PROVE  NeverOverdrawn'
  BY <1>0, <1>4, <1>5, RecoverCommitDoes, RefundsOnlyAdd
<1>6. ASSUME NEW j \in Jobs, ExpiryCommit(j)
      PROVE  NeverOverdrawn'
  BY <1>0, <1>4, <1>6, ExpiryCommitDoes, RefundsOnlyAdd
<1>7. ASSUME NEW m \in MachineIds, RewardPay(m)
      PROVE  NeverOverdrawn'
  BY <1>0, <1>4, <1>7, RewardsOnlyAdd
<1> QED BY <1>1, <1>2, <1>5, <1>6, <1>7, TableSteps

-----------------------------------------------------------------------------
(* What recoveries and refunds hold until they commit: machines that are    *)
(* there; no machine twice, but for those that clashed; and, of those that  *)
(* the wallet paid, all that a refund will end and none that has ended.     *)
ThereInTime ==
  /\ clashed \subseteq There /\ past \cap MachineIds \subseteq There
  /\ \A j \in Jobs : expiry[j] # Idle => expiry[j].now \cap MachineIds \subseteq There

Stands(m) == m \in clashed \/ machine[m].status = "ACTIVE" \/ machine[m].walletSpend = 0

FoundStand ==
  /\ \A u \in Users : recovery[u].at = "found" => \A m \in recovery[u].found : Stands(m)
  /\ \A j \in Jobs : expiry[j].at = "found" =>
        \A m \in expiry[j].found : /\ Stands(m)
                                   /\ machine[m].walletSpend > 0 => m \in expiry[j].now

HeldOnce ==
  /\ \A u \in Users, j \in Jobs : recovery[u].at = "found" /\ expiry[j].at = "found" =>
        recovery[u].found \cap expiry[j].found \subseteq clashed
  /\ \A i, j \in Jobs : i # j /\ expiry[i].at = "found" /\ expiry[j].at = "found" =>
        expiry[i].found \cap expiry[j].found \subseteq clashed

NothingMissed ==
  \A j \in Jobs : expiry[j].at = "found" =>
    \A m \in Active(expiry[j].user) :
       machine[m].walletSpend > 0 /\ m \in expiry[j].now => m \in expiry[j].found

HeldInv == ThereInTime /\ FoundStand /\ HeldOnce /\ NothingMissed

(* Rows stay, with who owns them and what was paid, and none is ACTIVE that *)
(* was not, unless it is new.                                               *)
RowsStay ==
  /\ There \subseteq There'
  /\ \A m \in There : /\ machine'[m].user = machine[m].user
                      /\ machine'[m].walletSpend = machine[m].walletSpend
                      /\ machine'[m].status = "ACTIVE" => machine[m].status = "ACTIVE"

(* No machine is found, and none ends that a recovery or a refund holds.    *)
FindsNothing ==
  /\ \A u \in Users : recovery'[u].at = "found" =>
        /\ recovery'[u] = recovery[u]
        /\ \A m \in recovery[u].found : Stands(m) => Stands(m)'
  /\ \A j \in Jobs : expiry'[j].at = "found" =>
        /\ expiry'[j] = expiry[j]
        /\ \A m \in expiry[j].found : Stands(m) => Stands(m)'

InTimeNext ==
  /\ clashed \subseteq clashed' /\ clashed' \subseteq There
  /\ past' \cap MachineIds \subseteq There
  /\ \A j \in Jobs : expiry'[j] # Idle =>
        \/ expiry'[j].now = past
        \/ expiry[j] # Idle /\ expiry'[j].now = expiry[j].now

LEMMA HeldKept ==
  ASSUME TypeInv, HeldInv, RowsStay, FindsNothing, InTimeNext
  PROVE  HeldInv'
<1>1. /\ \A u \in Users : recovery[u].at = "found" => recovery[u].found \subseteq There
      /\ \A j \in Jobs : expiry[j].at = "found" => /\ expiry[j].found \subseteq There
                                                   /\ expiry[j] # Idle
  <2>1. Idle.at # "found"
    BY DEF Idle
  <2> QED BY <2>1, FoundType DEF TypeInv, FoundExist, There
<1>2. ThereInTime'
  <2>1. \A j \in Jobs : expiry'[j] # Idle => expiry'[j].now \cap MachineIds \subseteq There
    BY DEF InTimeNext, HeldInv, ThereInTime
  <2> QED BY <2>1 DEF InTimeNext, RowsStay, ThereInTime
<1>3. FoundStand'
  <2>1. ASSUME NEW u \in Users, recovery'[u].at = "found", NEW m \in recovery'[u].found
        PROVE  Stands(m)'
    BY <2>1 DEF HeldInv, FoundStand, FindsNothing
  <2>2. ASSUME NEW j \in Jobs, expiry'[j].at = "found", NEW m \in expiry'[j].found
        PROVE  Stands(m)' /\ (machine'[m].walletSpend > 0 => m \in expiry'[j].now)
    <3>1. expiry'[j] = expiry[j] /\ m \in There
      BY <1>1, <2>2 DEF FindsNothing
    <3> QED BY <2>2, <3>1 DEF HeldInv, FoundStand, FindsNothing, RowsStay
  <2> QED BY <2>1, <2>2 DEF FoundStand
<1>4. HeldOnce'
  <2>1. \A u \in Users : recovery'[u].at = "found" => recovery'[u] = recovery[u]
    BY DEF FindsNothing
  <2>2. \A j \in Jobs : expiry'[j].at = "found" => expiry'[j] = expiry[j]
    BY DEF FindsNothing
  <2>3. clashed \subseteq clashed'
    BY DEF InTimeNext
  <2> QED BY <2>1, <2>2, <2>3 DEF HeldInv, HeldOnce
<1>5. NothingMissed'
  <2>1. SUFFICES ASSUME NEW j \in Jobs, expiry'[j].at = "found",
                        NEW m \in Active(expiry[j].user)',
                        machine'[m].walletSpend > 0, m \in expiry'[j].now
                 PROVE  m \in expiry'[j].found
    BY DEF NothingMissed
  <2>2. expiry'[j] = expiry[j] /\ expiry[j].at = "found" /\ expiry[j] # Idle
    BY <1>1, <2>1 DEF FindsNothing
  <2>3. m \in MachineIds /\ machine'[m].status = "ACTIVE" /\ machine'[m].user = expiry[j].user
    BY <2>1, <2>2 DEF Active
  <2>4. m \in There
    BY <2>1, <2>2, <2>3 DEF HeldInv, ThereInTime
  <2>5. machine[m].status = "ACTIVE" /\ machine[m].user = expiry[j].user
        /\ machine[m].walletSpend > 0
    BY <2>1, <2>3, <2>4 DEF RowsStay
  <2>6. m \in Active(expiry[j].user)
    BY <2>3, <2>5 DEF Active
  <2> QED BY <2>1, <2>2, <2>5, <2>6 DEF HeldInv, NothingMissed
<1> QED BY <1>2, <1>3, <1>4, <1>5 DEF HeldInv

(* Most steps leave the machines as they are and find none.                 *)
JobsGoOn ==
  \A j \in Jobs : /\ expiry'[j].at = "found" => expiry'[j] = expiry[j]
                  /\ expiry'[j] # Idle => \/ expiry'[j].now = past
                                          \/ expiry[j] # Idle /\ expiry'[j].now = expiry[j].now

LEMMA HeldSame ==
  ASSUME TypeInv, HeldInv, UNCHANGED <<machine, clashed>>, past' \cap MachineIds \subseteq There,
         \A u \in Users : recovery'[u].at = "found" => recovery'[u] = recovery[u],
         JobsGoOn
  PROVE  HeldInv'
<1>1. RowsStay
  BY DEF RowsStay, There
<1>2. FindsNothing
  BY DEF FindsNothing, Stands, JobsGoOn
<1>3. InTimeNext
  BY DEF InTimeNext, HeldInv, ThereInTime, JobsGoOn
<1> QED BY <1>1, <1>2, <1>3, HeldKept

LEMMA HeldUntouched ==
  ASSUME TypeInv, HeldInv, UNCHANGED <<machine, clashed, past, expiry>>,
         \A u \in Users : recovery'[u].at = "found" => recovery'[u] = recovery[u]
  PROVE  HeldInv'
<1>1. past' \cap MachineIds \subseteq There
  BY DEF HeldInv, ThereInTime
<1>2. JobsGoOn
  BY DEF JobsGoOn
<1> QED BY <1>1, <1>2, HeldSame

LEMMA BuyCommitHeld ==
  ASSUME TypeInv, HeldInv, NEW h \in Handlers, NEW m \in MachineIds, BuyCommit(h, m)
  PROVE  HeldInv'
<1>1. PICK u \in Users, row \in Machine :
        /\ machine[m] = Absent /\ machine' = [machine EXCEPT ![m] = row]
        /\ row.status = "ACTIVE"
        /\ UNCHANGED <<past, recovery, expiry>>
  BY BuyCommitDoes
<1>2. UNCHANGED clashed
  BY DEF BuyCommit, history
<1>3. m \notin There /\ There' = There \cup {m}
  BY <1>1, BoughtSets
<1>4. \A n \in There : n \in MachineIds /\ machine'[n] = machine[n]
  BY <1>1, <1>3 DEF TypeInv, TypeOK, There
<1>5. RowsStay
  BY <1>3, <1>4 DEF RowsStay
<1>6. FindsNothing
  <2>1. /\ \A v \in Users : recovery[v].at = "found" => recovery[v].found \subseteq There
        /\ \A j \in Jobs : expiry[j].at = "found" => expiry[j].found \subseteq There
    BY FoundType DEF TypeInv, FoundExist, There
  <2>2. \A n \in There : Stands(n) => Stands(n)'
    BY <1>2, <1>4 DEF Stands
  <2> QED BY <1>1, <2>1, <2>2 DEF FindsNothing
<1>7. InTimeNext
  BY <1>1, <1>2 DEF InTimeNext, HeldInv, ThereInTime
<1> QED BY <1>5, <1>6, <1>7, HeldKept

(* A commit ends machines, and the others that hold one of them know that   *)
(* it clashed, or the wallet paid nothing of it.                            *)
LEMMA EndingHeld ==
  ASSUME TypeInv, HeldInv, NEW ms, ms \subseteq There, machine' = MachinesWithout(ms),
         UNCHANGED <<clashed, past>>,
         \A v \in Users : recovery'[v].at = "found" =>
            /\ recovery'[v] = recovery[v]
            /\ \A m \in recovery[v].found \cap ms : m \in clashed \/ machine[m].walletSpend = 0,
         \A i \in Jobs : expiry'[i].at = "found" =>
            /\ expiry'[i] = expiry[i]
            /\ \A m \in expiry[i].found \cap ms : m \in clashed \/ machine[m].walletSpend = 0,
         \A i \in Jobs : expiry'[i] # Idle => expiry[i] # Idle /\ expiry'[i].now = expiry[i].now
  PROVE  HeldInv'
<1>1. /\ \A m \in MachineIds :
           /\ machine'[m].user = machine[m].user
           /\ machine'[m].status = IF m \in ms THEN "REFUNDED" ELSE machine[m].status
      /\ There' = There /\ Spent' = Spent
  BY EndedRows
<1>2. \A m \in There : m \in MachineIds /\ machine'[m].walletSpend = machine[m].walletSpend
  <2>1. \A m \in There : m \in MachineIds
    BY DEF There
  <2>2. \A m \in There : Spent[m] = machine[m].walletSpend /\ Spent'[m] = machine'[m].walletSpend
    BY <2>1 DEF Spent
  <2> QED BY <1>1, <2>1, <2>2
<1>3. RowsStay
  BY <1>1, <1>2 DEF RowsStay
<1>4. \A m \in There : Stands(m) /\ (m \in ms => m \in clashed \/ machine[m].walletSpend = 0)
                          => Stands(m)'
  BY <1>1, <1>2 DEF Stands
<1>5. FindsNothing
  <2>1. /\ \A v \in Users : recovery[v].at = "found" => recovery[v].found \subseteq There
        /\ \A j \in Jobs : expiry[j].at = "found" => expiry[j].found \subseteq There
    BY FoundType DEF TypeInv, FoundExist, There
  <2>2. ASSUME NEW v \in Users, recovery'[v].at = "found"
        PROVE  /\ recovery'[v] = recovery[v]
               /\ \A m \in recovery[v].found : Stands(m) => Stands(m)'
    BY <1>4, <2>1, <2>2
  <2>3. ASSUME NEW i \in Jobs, expiry'[i].at = "found"
        PROVE  /\ expiry'[i] = expiry[i]
               /\ \A m \in expiry[i].found : Stands(m) => Stands(m)'
    BY <1>4, <2>1, <2>3
  <2> QED BY <2>2, <2>3 DEF FindsNothing
<1>6. InTimeNext
  BY DEF InTimeNext, HeldInv, ThereInTime
<1> QED BY <1>3, <1>5, <1>6, HeldKept

LEMMA RecoverCommitHeld ==
  ASSUME TypeInv, HeldInv, NEW u \in Users, RecoverCommit(u)
  PROVE  HeldInv'
<1>1. PICK found : found = recovery[u].found
  OBVIOUS
<1>2. /\ recovery[u].at = "found" /\ found \subseteq There
      /\ machine' = MachinesWithout(found)
      /\ recovery' = [recovery EXCEPT ![u] = Idle]
      /\ UNCHANGED <<past, expiry>>
  BY <1>1, RecoverCommitDoes
<1>3. UNCHANGED clashed
  BY DEF RecoverCommit, history
<1>4. \A m \in found : machine[m].user = u
  BY <1>1, <1>2, FoundTheirs DEF TypeInv, FoundAreTheirs
<1>5. ASSUME NEW v \in Users, recovery'[v].at = "found"
      PROVE  /\ recovery'[v] = recovery[v]
             /\ \A m \in recovery[v].found \cap found : m \in clashed \/ machine[m].walletSpend = 0
  <2>1. v # u /\ recovery'[v] = recovery[v]
    BY <1>2, <1>5 DEF Idle, TypeInv, TypeOK
  <2>2. \A m \in recovery[v].found : machine[m].user = v
    BY <1>5, <2>1, FoundTheirs DEF TypeInv, FoundAreTheirs
  <2> QED BY <1>4, <2>1, <2>2
<1>6. ASSUME NEW i \in Jobs, expiry'[i].at = "found"
      PROVE  /\ expiry'[i] = expiry[i]
             /\ \A m \in expiry[i].found \cap found : m \in clashed \/ machine[m].walletSpend = 0
  BY <1>1, <1>2, <1>6 DEF HeldInv, HeldOnce
<1>7. \A i \in Jobs : expiry'[i] # Idle => expiry[i] # Idle /\ expiry'[i].now = expiry[i].now
  BY <1>2
<1> QED BY <1>2, <1>3, <1>5, <1>6, <1>7, EndingHeld

LEMMA ExpiryCommitHeld ==
  ASSUME TypeInv, HeldInv, NEW j \in Jobs, ExpiryCommit(j)
  PROVE  HeldInv'
<1>1. PICK u, found, ended :
         /\ u \in Users /\ expiry[j].at = "found" /\ u = expiry[j].user
         /\ found = expiry[j].found /\ found \subseteq There
         /\ ended = Expired(u, expiry[j].now) /\ ended \subseteq Active(u)
         /\ machine' = MachinesWithout(ended)
         /\ expiry' = [expiry EXCEPT ![j] = NextUser(expiry[j], u)]
         /\ UNCHANGED <<past, recovery>>
  BY ExpiryCommitDoes
<1>2. UNCHANGED clashed
  BY DEF ExpiryCommit, history
<1>3. ended \subseteq There
  BY <1>1, SetsAreThere
<1>4. \A m \in ended : machine[m].walletSpend = 0 \/ m \in found
  <2> TAKE m \in ended
  <2>1. m \in Active(u) /\ ExpiredBy(m, expiry[j].now) /\ machine[m].walletSpend \in Nat
    <3>1. m \in Active(u) /\ ExpiredBy(m, expiry[j].now)
      BY <1>1 DEF Expired
    <3> QED BY <3>1, ActiveIsThere, MachineRow DEF TypeInv
  <2> QED BY <1>1, <2>1 DEF HeldInv, NothingMissed, ExpiredBy
<1>5. ASSUME NEW v \in Users, recovery'[v].at = "found"
      PROVE  /\ recovery'[v] = recovery[v]
             /\ \A m \in recovery[v].found \cap ended : m \in clashed \/ machine[m].walletSpend = 0
  BY <1>1, <1>4, <1>5 DEF HeldInv, HeldOnce
<1>6. ASSUME NEW i \in Jobs, expiry'[i].at = "found"
      PROVE  /\ expiry'[i] = expiry[i]
             /\ \A m \in expiry[i].found \cap ended : m \in clashed \/ machine[m].walletSpend = 0
  <2>1. i # j /\ expiry'[i] = expiry[i]
    BY <1>1, <1>6, NextIsNotFound DEF TypeInv, TypeOK
  <2> QED BY <1>1, <1>4, <1>6, <2>1 DEF HeldInv, HeldOnce
<1>7. \A i \in Jobs : expiry'[i] # Idle => expiry[i] # Idle /\ expiry'[i].now = expiry[i].now
  <2>1. \A i \in Jobs : i # j => expiry'[i] = expiry[i]
    BY <1>1 DEF TypeInv, TypeOK
  <2>2. expiry'[j] = NextUser(expiry[j], u) /\ expiry[j] # Idle
    BY <1>1 DEF TypeInv, TypeOK, Idle
  <2>3. NextUser(expiry[j], u) # Idle => NextUser(expiry[j], u).now = expiry[j].now
    BY DEF NextUser
  <2> QED BY <2>1, <2>2, <2>3
<1> QED BY <1>1, <1>2, <1>3, <1>5, <1>6, <1>7, EndingHeld

(* What a recovery or a refund finds is ACTIVE, and what another holds of   *)
(* it has clashed.                                                          *)
LEMMA RecoverFindHeld ==
  ASSUME TypeInv, HeldInv, NEW u \in Users, RecoverFind(u)
  PROVE  HeldInv'
<1>1. PICK found : found = Recoverable(u)
  OBVIOUS
<1>2. /\ recovery' = [recovery EXCEPT ![u] = [at |-> "found", found |-> found]]
      /\ clashed' = clashed \cup (found \cap HeldForRental)
      /\ UNCHANGED <<machine, past, expiry>>
  BY <1>1 DEF RecoverFind, tables
<1>3. found \subseteq There /\ \A m \in found : m \in MachineIds /\ machine[m].status = "ACTIVE"
  BY <1>1, SetsAreThere DEF Recoverable, Active
<1>4. recovery'[u].found = found /\ \A v \in Users : v # u => recovery'[v] = recovery[v]
  BY <1>2 DEF TypeInv, TypeOK
<1>5. ThereInTime'
  BY <1>2, <1>3 DEF HeldInv, ThereInTime, There
<1>6. FoundStand'
  <2>1. \A m : Stands(m) => Stands(m)'
    BY <1>2 DEF Stands
  <2>2. \A m \in found : Stands(m)'
    BY <1>2, <1>3 DEF Stands
  <2>3. ASSUME NEW v \in Users, recovery'[v].at = "found", NEW m \in recovery'[v].found
        PROVE  Stands(m)'
    <3>1. CASE v = u
      BY <1>4, <2>2, <2>3, <3>1
    <3>2. CASE v # u
      BY <1>4, <2>1, <2>3, <3>2 DEF HeldInv, FoundStand
    <3> QED BY <3>1, <3>2
  <2>4. \A j \in Jobs : expiry'[j].at = "found" =>
          \A m \in expiry'[j].found : Stands(m)' /\ (machine'[m].walletSpend > 0 => m \in expiry'[j].now)
    BY <1>2, <2>1 DEF HeldInv, FoundStand
  <2> QED BY <2>3, <2>4 DEF FoundStand
<1>7. HeldOnce'
  <2>1. ASSUME NEW v \in Users, NEW j \in Jobs,
               recovery'[v].at = "found", expiry'[j].at = "found"
        PROVE  recovery'[v].found \cap expiry'[j].found \subseteq clashed'
    <3>1. CASE v = u
      BY <1>2, <1>3, <1>4, <2>1, <3>1 DEF HeldForRental
    <3>2. CASE v # u
      BY <1>2, <1>4, <2>1, <3>2 DEF HeldInv, HeldOnce
    <3> QED BY <3>1, <3>2
  <2>2. \A i, j \in Jobs : i # j /\ expiry'[i].at = "found" /\ expiry'[j].at = "found" =>
          expiry'[i].found \cap expiry'[j].found \subseteq clashed'
    BY <1>2 DEF HeldInv, HeldOnce
  <2> QED BY <2>1, <2>2 DEF HeldOnce
<1>8. NothingMissed'
  BY <1>2 DEF HeldInv, NothingMissed, Active
<1> QED BY <1>5, <1>6, <1>7, <1>8 DEF HeldInv

(* A job that finds nothing for a user goes on with the next.               *)
LEMMA ExpiryFindNone ==
  ASSUME TypeInv, HeldInv, NEW j \in Jobs, NEW u \in Users, ExpiryFind(j, u),
         Expired(u, expiry[j].now) = {}
  PROVE  HeldInv'
<1>1. /\ expiry' = [expiry EXCEPT ![j] = NextUser(expiry[j], u)]
      /\ UNCHANGED <<machine, past, recovery>>
      /\ clashed' = clashed
      /\ expiry[j].at = "users"
  BY DEF ExpiryFind, tables
<1>2. JobsGoOn
  <2>1. \A i \in Jobs : i # j => expiry'[i] = expiry[i]
    BY <1>1 DEF TypeInv, TypeOK
  <2>2. expiry'[j] = NextUser(expiry[j], u) /\ expiry[j] # Idle
    BY <1>1 DEF TypeInv, TypeOK, Idle
  <2>3. NextUser(expiry[j], u) # Idle => NextUser(expiry[j], u).now = expiry[j].now
    BY DEF NextUser
  <2> QED BY <2>1, <2>2, <2>3, NextIsNotFound DEF JobsGoOn
<1>3. past' \cap MachineIds \subseteq There
  BY <1>1 DEF HeldInv, ThereInTime
<1> QED BY <1>1, <1>2, <1>3, HeldSame

LEMMA ExpiryFindHeld ==
  ASSUME TypeInv, HeldInv, NEW j \in Jobs, NEW u \in Users, ExpiryFind(j, u),
         Expired(u, expiry[j].now) # {}
  PROVE  HeldInv'
<1>1. PICK found, now : found = Expired(u, expiry[j].now) /\ now = expiry[j].now
  OBVIOUS
<1>2. /\ expiry' = [expiry EXCEPT ![j] = [at |-> "found", now |-> now, todo |-> expiry[j].todo,
                                          user |-> u, found |-> found]]
      /\ clashed' = clashed \cup (found \cap (HeldForTrial \cup HeldForRental))
      /\ UNCHANGED <<machine, past, recovery>>
      /\ expiry[j].at = "users"
  BY <1>1 DEF ExpiryFind, tables
<1>3. /\ found \subseteq There
      /\ \A m \in found : /\ m \in MachineIds /\ machine[m].status = "ACTIVE"
                          /\ machine[m].walletSpend = 0 \/ m \in now
      /\ \A m \in Active(u) : machine[m].walletSpend > 0 /\ m \in now => m \in found
  BY <1>1, SetsAreThere DEF Expired, ExpiredBy, Active
<1>4. /\ expiry'[j].found = found /\ expiry'[j].now = now /\ expiry'[j].user = u
      /\ \A i \in Jobs : i # j => expiry'[i] = expiry[i]
  BY <1>2 DEF TypeInv, TypeOK
<1>5. ThereInTime'
  <2>1. expiry[j] # Idle
    BY <1>2 DEF Idle
  <2>2. \A i \in Jobs : expiry'[i] # Idle => expiry'[i].now \cap MachineIds \subseteq There
    BY <1>1, <1>4, <2>1 DEF HeldInv, ThereInTime
  <2>3. There' = There
    BY <1>2 DEF There
  <2> QED BY <1>2, <1>3, <2>2, <2>3 DEF HeldInv, ThereInTime
<1>6. FoundStand'
  <2>1. \A m : Stands(m) => Stands(m)'
    BY <1>2 DEF Stands
  <2>2. \A m \in found : Stands(m)'
    BY <1>2, <1>3 DEF Stands
  <2>3. \A v \in Users : recovery'[v].at = "found" => \A m \in recovery'[v].found : Stands(m)'
    BY <1>2, <2>1 DEF HeldInv, FoundStand
  <2>4. ASSUME NEW i \in Jobs, expiry'[i].at = "found", NEW m \in expiry'[i].found
        PROVE  Stands(m)' /\ (machine'[m].walletSpend > 0 => m \in expiry'[i].now)
    <3>1. CASE i = j
      BY <1>2, <1>3, <1>4, <2>2, <2>4, <3>1
    <3>2. CASE i # j
      BY <1>2, <1>4, <2>1, <2>4, <3>2 DEF HeldInv, FoundStand
    <3> QED BY <3>1, <3>2
  <2> QED BY <2>3, <2>4 DEF FoundStand
<1>7. HeldOnce'
  <2>1. ASSUME NEW v \in Users, NEW i \in Jobs,
               recovery'[v].at = "found", expiry'[i].at = "found"
        PROVE  recovery'[v].found \cap expiry'[i].found \subseteq clashed'
    <3>1. CASE i = j
      BY <1>2, <1>3, <1>4, <2>1, <3>1 DEF HeldForTrial
    <3>2. CASE i # j
      BY <1>2, <1>4, <2>1, <3>2 DEF HeldInv, HeldOnce
    <3> QED BY <3>1, <3>2
  <2>2. ASSUME NEW i \in Jobs, i # j, expiry'[i].at = "found"
        PROVE  expiry'[i].found \cap found \subseteq clashed'
    BY <1>2, <1>3, <1>4, <2>2 DEF HeldForRental
  <2>3. ASSUME NEW i \in Jobs, NEW k \in Jobs, i # k,
               expiry'[i].at = "found", expiry'[k].at = "found"
        PROVE  expiry'[i].found \cap expiry'[k].found \subseteq clashed'
    <3>1. CASE i = j
      BY <1>4, <2>2, <2>3, <3>1
    <3>2. CASE k = j
      BY <1>4, <2>2, <2>3, <3>2
    <3>3. CASE i # j /\ k # j
      BY <1>2, <1>4, <2>3, <3>3 DEF HeldInv, HeldOnce
    <3> QED BY <3>1, <3>2, <3>3
  <2> QED BY <2>1, <2>3 DEF HeldOnce
<1>8. NothingMissed'
  <2>1. \A v : Active(v)' = Active(v)
    BY <1>2 DEF Active
  <2>2. ASSUME NEW i \in Jobs, expiry'[i].at = "found", NEW m \in Active(expiry'[i].user),
               machine[m].walletSpend > 0, m \in expiry'[i].now
        PROVE  m \in expiry'[i].found
    <3>1. CASE i = j
      BY <1>3, <1>4, <2>2, <3>1
    <3>2. CASE i # j
      BY <1>4, <2>2, <3>2 DEF HeldInv, NothingMissed
    <3> QED BY <3>1, <3>2
  <2> QED BY <1>2, <2>1, <2>2 DEF NothingMissed
<1> QED BY <1>5, <1>6, <1>7, <1>8 DEF HeldInv

LEMMA HeldStep == ASSUME TypeInv, HeldInv, [Next]_vars PROVE HeldInv'
<1>0. past \cap MachineIds \subseteq There
  BY DEF HeldInv, ThereInTime
<1>1. ASSUME NEW h \in Handlers, Buy(h) \/ BuyFails(h) PROVE HeldInv'
  <2>1. UNCHANGED <<machine, clashed, past, expiry, recovery>>
        \/ \E m \in MachineIds : BuyCommit(h, m)
    BY <1>1 DEF Buy, BuyRead, BuySplit, BuyFails, tables, history
  <2> QED BY <2>1, BuyCommitHeld, HeldUntouched
<1>2. ASSUME NEW u \in Users, TrialEnds(u) PROVE HeldInv'
  <2>1. past' = past \cup {u} /\ UNCHANGED <<machine, clashed, recovery, expiry>>
    BY <1>2 DEF TrialEnds, tables, handlers, history
  <2>2. u \notin MachineIds
    BY MachinesAssumption
  <2>3. JobsGoOn
    BY <2>1 DEF JobsGoOn
  <2> QED BY <1>0, <2>1, <2>2, <2>3, HeldSame
<1>3. ASSUME NEW u \in Users, Recover(u) \/ RecoveryFails(u) PROVE HeldInv'
  <2>1. CASE RecoverRead(u) \/ RecoveryFails(u)
    <3>1. UNCHANGED <<machine, clashed, past, expiry>>
      BY <2>1 DEF RecoverRead, RecoveryFails, tables, history
    <3>2. /\ \A v \in Users : v # u => recovery'[v] = recovery[v]
          /\ recovery'[u].at # "found"
      BY <2>1 DEF RecoverRead, RecoveryFails, Idle, TypeInv, TypeOK
    <3>3. \A v \in Users : recovery'[v].at = "found" => recovery'[v] = recovery[v]
      BY <3>2
    <3> QED BY <3>1, <3>3, HeldUntouched
  <2> QED BY <1>3, <2>1, RecoverFindHeld, RecoverCommitHeld DEF Recover
<1>4. ASSUME NEW m \in MachineIds, RentalEnds(m) PROVE HeldInv'
  <2>1. /\ past' = past \cup {m} /\ machine[m].status = "ACTIVE"
        /\ UNCHANGED <<machine, clashed, recovery, expiry>>
    BY <1>4 DEF RentalEnds, tables, handlers, history
  <2>2. m \in There
    BY <2>1, ActiveIsThere DEF There
  <2>3. JobsGoOn
    BY <2>1 DEF JobsGoOn
  <2> QED BY <1>0, <2>1, <2>2, <2>3, HeldSame
<1>5. ASSUME NEW m \in MachineIds, RewardPay(m) \/ RewardClash(m) PROVE HeldInv'
  <2>1. UNCHANGED <<machine, clashed, past, expiry, recovery>>
    BY <1>5 DEF RewardPay, RewardClash, tables, history
  <2> QED BY <2>1, HeldUntouched
<1>6. ASSUME NEW j \in Jobs, Expire(j) PROVE HeldInv'
  <2>1. CASE ExpiryStart(j)
    <3>1. /\ UNCHANGED <<machine, clashed, past, recovery>>
          /\ \E todo : expiry' = [expiry EXCEPT ![j] = [at |-> "users", now |-> past, todo |-> todo]]
      BY <2>1 DEF ExpiryStart, tables, history
    <3>2. /\ \A i \in Jobs : i # j => expiry'[i] = expiry[i]
          /\ expiry'[j].at = "users" /\ expiry'[j].now = past
      BY <3>1 DEF TypeInv, TypeOK
    <3>3. JobsGoOn
      BY <3>2 DEF JobsGoOn
    <3> QED BY <1>0, <3>1, <3>3, HeldSame
  <2>2. ASSUME NEW u \in Users, ExpiryFind(j, u) PROVE HeldInv'
    BY <2>2, ExpiryFindNone, ExpiryFindHeld
  <2> QED BY <1>6, <2>1, <2>2, ExpiryCommitHeld DEF Expire
<1>7. ASSUME NEW j \in Jobs, ExpiryFails(j) PROVE HeldInv'
  <2>1. /\ UNCHANGED <<machine, clashed, past, recovery>>
        /\ expiry' = [expiry EXCEPT ![j] = Idle]
    BY <1>7 DEF ExpiryFails, tables, history
  <2>2. JobsGoOn
    BY <2>1 DEF JobsGoOn, Idle, TypeInv, TypeOK
  <2> QED BY <1>0, <2>1, <2>2, HeldSame
<1>8. CASE RewardStart \/ RewardFails \/ UNCHANGED vars
  <2>1. UNCHANGED <<machine, clashed, past, expiry, recovery>>
    BY <1>8 DEF RewardStart, RewardFails, vars, tables, handlers, history
  <2> QED BY <2>1, HeldUntouched
<1>9. CASE Crash
  <2>1. /\ UNCHANGED <<machine, clashed, past>>
        /\ \A u \in Users : recovery'[u].at # "found"
        /\ \A j \in Jobs : expiry'[j] = Idle /\ expiry'[j].at # "found"
    BY <1>9 DEF Crash, tables, history, Idle
  <2>2. JobsGoOn
    BY <2>1 DEF JobsGoOn
  <2> QED BY <1>0, <2>1, <2>2, HeldSame
<1> QED BY <1>1, <1>2, <1>3, <1>4, <1>5, <1>6, <1>7, <1>8, <1>9 DEF Next

-----------------------------------------------------------------------------
(* A clash is not forgotten, nor whose machine it was.                      *)
ClashesStay == \A a : NoneClashed(a)' => NoneClashed(a)

LEMMA ClashesRemain == ASSUME TypeInv, HeldInv, [Next]_vars PROVE ClashesStay
<1>1. clashed \subseteq clashed' /\ clashed \subseteq There
  BY HistoryStays DEF HeldInv, ThereInTime
<1>2. \A m \in There : machine'[m].user = machine[m].user
  <2>1. CASE UNCHANGED tables
    BY <2>1 DEF tables
  <2>2. ASSUME NEW h \in Handlers, NEW m \in MachineIds, BuyCommit(h, m)
        PROVE  \A n \in There : machine'[n].user = machine[n].user
    <3>1. PICK row \in Machine : machine[m] = Absent /\ machine' = [machine EXCEPT ![m] = row]
      BY <2>2, BuyCommitDoes
    <3> QED BY <3>1 DEF There
  <2>3. ASSUME NEW ms, ms \subseteq There, machine' = MachinesWithout(ms)
        PROVE  \A n \in There : machine'[n].user = machine[n].user
    BY <2>3, EndedRows DEF There
  <2>4. ASSUME NEW u \in Users, RecoverCommit(u)
        PROVE  \A n \in There : machine'[n].user = machine[n].user
    BY <2>3, <2>4, RecoverCommitDoes
  <2>5. ASSUME NEW j \in Jobs, ExpiryCommit(j)
        PROVE  \A n \in There : machine'[n].user = machine[n].user
    <3>1. PICK ms, u : ms \subseteq Active(u) /\ machine' = MachinesWithout(ms)
      BY <2>5, ExpiryCommitDoes
    <3> QED BY <2>3, <3>1, SetsAreThere
  <2>6. ASSUME NEW m \in MachineIds, RewardPay(m)
        PROVE  \A n \in There : machine'[n].user = machine[n].user
    BY <2>6 DEF RewardPay
  <2> QED BY <2>1, <2>2, <2>4, <2>5, <2>6, TableSteps
<1> QED BY <1>1, <1>2 DEF ClashesStay, NoneClashed

(* Sets of machines that differ in those the wallet paid nothing for        *)
LEMMA SameSpent ==
  ASSUME TypeInv, NEW some, NEW others, some \subseteq There, others \subseteq There,
         \A m \in some \ others : machine[m].walletSpend = 0,
         \A m \in others \ some : machine[m].walletSpend = 0
  PROVE  SumFunctionOnSet(Spent, some) = SumFunctionOnSet(Spent, others)
<1> DEFINE both == some \cap others
<1>1. /\ IsFiniteSet(some) /\ \A m \in some : Spent[m] \in Int
      /\ IsFiniteSet(others) /\ \A m \in others : Spent[m] \in Int
  <2>1. IsFiniteSet(some) /\ \A m \in some : Spent[m] \in Nat
    BY BookTypes
  <2>2. IsFiniteSet(others) /\ \A m \in others : Spent[m] \in Nat
    BY BookTypes
  <2> HIDE DEF Spent
  <2> QED BY <2>1, <2>2
<1>2. /\ \A m \in some \ both : Spent[m] = 0
      /\ \A m \in others \ both : Spent[m] = 0
  BY DEF Spent, There
<1>3. both \in SUBSET some /\ both \in SUBSET others
  OBVIOUS
<1> HIDE DEF Spent, both
<1>4. SumFunctionOnSet(Spent, both) = SumFunctionOnSet(Spent, some)
  BY <1>1, <1>2, <1>3, SumWithZeros
<1>5. SumFunctionOnSet(Spent, both) = SumFunctionOnSet(Spent, others)
  BY <1>1, <1>2, <1>3, SumWithZeros
<1> QED BY <1>4, <1>5

(* What a recovery or a refund pays back was spent on the machines that it  *)
(* ends, if none of the user's was held by two.                             *)
PaysForEnded(u, found, ended) ==
  NoneClashed(u) => SumFunctionOnSet(Spent, found) = SumFunctionOnSet(Spent, ended)

LEMMA RecoveryPays ==
  ASSUME TypeInv, HeldInv, NEW u \in Users, RecoverCommit(u)
  PROVE  PaysForEnded(u, recovery[u].found, recovery[u].found \cap Active(u))
<1>1. PICK found : found = recovery[u].found
  OBVIOUS
<1>2. recovery[u].at = "found" /\ found \subseteq There /\ \A m \in found : machine[m].user = u
  BY <1>1, RecoverCommitEnds DEF Ends
<1>3. \A m \in found : Stands(m)
  BY <1>1, <1>2 DEF HeldInv, FoundStand
<1>4. ASSUME NoneClashed(u), NEW m \in found, m \notin Active(u)
      PROVE  machine[m].walletSpend = 0
  BY <1>2, <1>3, <1>4 DEF Stands, NoneClashed, Active, There
<1>5. NoneClashed(u) => SumFunctionOnSet(Spent, found)
                          = SumFunctionOnSet(Spent, found \cap Active(u))
  BY <1>2, <1>4, SameSpent
<1> QED BY <1>1, <1>5 DEF PaysForEnded

LEMMA RefundPays ==
  ASSUME TypeInv, HeldInv, NEW j \in Jobs, ExpiryCommit(j)
  PROVE  \E u, found, ended : Ends(u, found, ended) /\ PaysForEnded(u, found, ended)
<1>1. PICK u, found, ended :
         /\ Ends(u, found, ended)
         /\ expiry[j].at = "found" /\ u = expiry[j].user /\ found = expiry[j].found
         /\ ended = Expired(u, expiry[j].now)
  BY ExpiryCommitEnds
<1>2. /\ found \subseteq There /\ \A m \in found : machine[m].user = u
      /\ ended \subseteq There /\ ended \subseteq Active(u)
  BY <1>1, SetsAreThere DEF Ends
<1>3. \A m \in There : machine[m].walletSpend \in Nat
  BY MachineRow DEF TypeInv, There
<1>4. ASSUME NoneClashed(u), NEW m \in found, m \notin ended
      PROVE  machine[m].walletSpend = 0
  <2>1. Stands(m) /\ (machine[m].walletSpend > 0 => m \in expiry[j].now)
    BY <1>1, <1>4 DEF HeldInv, FoundStand
  <2>2. m \notin clashed /\ m \in MachineIds /\ machine[m].walletSpend \in Nat
    BY <1>2, <1>3, <1>4 DEF NoneClashed, There
  <2>3. SUFFICES ASSUME machine[m].walletSpend > 0 PROVE FALSE
    BY <2>2
  <2>4. machine[m].status = "ACTIVE" /\ machine[m].user = u /\ m \in expiry[j].now
    BY <1>2, <2>1, <2>2, <2>3 DEF Stands
  <2>5. m \in Expired(u, expiry[j].now)
    BY <2>2, <2>3, <2>4 DEF Expired, ExpiredBy, Active
  <2> QED BY <1>1, <1>4, <2>5
<1>5. ASSUME NEW m \in ended, m \notin found
      PROVE  machine[m].walletSpend = 0
  <2>1. m \in Active(u) /\ ExpiredBy(m, expiry[j].now) /\ machine[m].walletSpend \in Nat
    BY <1>1, <1>2, <1>3, <1>5 DEF Expired
  <2> QED BY <1>1, <1>5, <2>1 DEF HeldInv, NothingMissed, ExpiredBy
<1>6. NoneClashed(u) => SumFunctionOnSet(Spent, found) = SumFunctionOnSet(Spent, ended)
  BY <1>2, <1>4, <1>5, SameSpent
<1> QED BY <1>1, <1>6 DEF PaysForEnded

-----------------------------------------------------------------------------
(* What is reserved of one user's wallet is what was paid for the ACTIVE    *)
(* machines and what trial funds paid for the others.                       *)
ReservedFits(u) ==
  wallet[u].reserved = SumFunctionOnSet(Cost, Active(u)) + SumFunctionOnSet(Lent, Gone(u))

LEMMA ReservedPerUser ==
  ReservedIsExplained <=> \A u \in Users : NoneClashed(u) => ReservedFits(u)
BY DEF ReservedIsExplained, ReservedFits, RefundedPrice, TrialSum, Cost, Lent, Gone

LEMMA ReservedPerUserNext ==
  ReservedIsExplained' <=> \A u \in Users : NoneClashed(u)' => ReservedFits(u)'
BY DEF ReservedIsExplained, ReservedFits, RefundedPrice, TrialSum, Cost, Lent, Gone

LEMMA ReservedSame ==
  ASSUME UNCHANGED machine, \A u \in Users : wallet'[u].reserved = wallet[u].reserved,
         ReservedIsExplained, ClashesStay
  PROVE  ReservedIsExplained'
BY DEF ReservedIsExplained, ClashesStay, RefundedPrice, TrialSum, Active

(* What the user's machines cost, once one is bought                        *)
LEMMA BoughtCosts ==
  ASSUME TypeInv, NEW m \in MachineIds, machine[m] = Absent, NEW row \in Machine,
         machine' = [machine EXCEPT ![m] = row], NEW ms, ms \subseteq There
  PROVE  /\ SumFunctionOnSet(Cost', ms) = SumFunctionOnSet(Cost, ms)
         /\ SumFunctionOnSet(Cost', ms \cup {m})
              = SumFunctionOnSet(Cost, ms) + Price[row.product]
BY BoughtSums, Zenon

LEMMA BuyCommitReserved ==
  ASSUME TypeInv, ReservedIsExplained, ClashesStay,
         NEW h \in Handlers, NEW m \in MachineIds, BuyCommit(h, m)
  PROVE  ReservedIsExplained'
<1>1. PICK u \in Users, p \in Products, spend \in Nat, row \in Machine :
           /\ machine[m] = Absent /\ row.user = u /\ row.product = p /\ row.status = "ACTIVE"
           /\ wallet' = Move(Move(wallet, u, spend - Price[p], Price[p]), Seller, Price[p], 0)
           /\ machine' = [machine EXCEPT ![m] = row]
  BY BuyCommitDoes
<1>2. /\ \A v : Active(v)' = IF v = u THEN Active(v) \cup {m} ELSE Active(v)
      /\ \A v : Gone(v)' = Gone(v)
  BY <1>1, BoughtSets
<1>3. Price[p] \in Nat
  BY PriceType
<1>4. \A c \in Accounts :
         /\ wallet'[c].reserved = wallet[c].reserved + (IF c = u THEN Price[p] ELSE 0)
         /\ wallet[c].reserved \in Int
  BY <1>1, <1>3, BoughtMoney
<1>5. ASSUME NEW v \in Users, NoneClashed(v)'
      PROVE  ReservedFits(v)'
  <2>1. Active(v) \subseteq There /\ Gone(v) \subseteq There
    BY SetsAreThere
  <2>2. machine[m] = Absent /\ machine' = [machine EXCEPT ![m] = row]
    BY <1>1
  <2>3. /\ SumFunctionOnSet(Cost', Active(v)) = SumFunctionOnSet(Cost, Active(v))
        /\ SumFunctionOnSet(Cost', Active(v) \cup {m}) = SumFunctionOnSet(Cost, Active(v)) + Price[p]
    BY <1>1, <2>1, <2>2, BoughtCosts
  <2>4. SumFunctionOnSet(Lent', Gone(v)) = SumFunctionOnSet(Lent, Gone(v))
    <3>1. Gone(v) \subseteq There
      BY <2>1
    <3>2. /\ SumFunctionOnSet(Lent', Gone(v)) = SumFunctionOnSet(Lent, Gone(v))
          /\ SumFunctionOnSet(Lent', Gone(v) \cup {m})
               = SumFunctionOnSet(Lent, Gone(v)) + row.trialSpend
      BY <2>2, <3>1, BoughtSums
    <3> QED BY <3>2
  <2>5. /\ SumFunctionOnSet(Cost, Active(v)) \in Nat /\ SumFunctionOnSet(Lent, Gone(v)) \in Nat
    BY <2>1, BookTypes
  <2>6. ReservedFits(v) /\ v \in Accounts
    BY <1>5, ReservedPerUser DEF Accounts, ClashesStay
  <2>7. SumFunctionOnSet(Cost', Active(v)')
          = SumFunctionOnSet(Cost, Active(v)) + (IF v = u THEN Price[p] ELSE 0)
    <3>1. Active(v)' = IF v = u THEN Active(v) \cup {m} ELSE Active(v)
      BY <1>2
    <3> HIDE DEF Cost
    <3>3. CASE v = u
      BY <2>3, <3>1, <3>3
    <3>4. CASE v # u
      BY <2>3, <2>5, <3>1, <3>4
    <3> QED BY <3>3, <3>4
  <2>8. SumFunctionOnSet(Lent', Gone(v)') = SumFunctionOnSet(Lent, Gone(v))
    BY <1>2, <2>4
  <2> HIDE DEF Cost, Lent
  <2> QED BY <1>3, <1>4, <2>5, <2>6, <2>7, <2>8 DEF ReservedFits
<1> QED BY <1>5, ReservedPerUserNext

LEMMA EndingReserved ==
  ASSUME TypeInv, ReservedIsExplained, ClashesStay, NEW u, NEW found, NEW ended,
         Ends(u, found, ended), PaysForEnded(u, found, ended)
  PROVE  ReservedIsExplained'
<1>1. /\ u \in Users /\ found \subseteq There /\ ended \subseteq Active(u) /\ ended \subseteq There
      /\ machine' = MachinesWithout(ended) /\ wallet' = Refunded(u, found)
  BY SetsAreThere DEF Ends
<1>2. \A c \in Accounts :
        /\ wallet'[c].reserved
             = wallet[c].reserved - (IF c = u THEN SumFunctionOnSet(Spent, found) ELSE 0)
        /\ wallet[c].reserved \in Int
  BY <1>1, RefundedMoney
<1>3. ASSUME NEW v \in Users, v # u, NoneClashed(v)'
      PROVE  ReservedFits(v)'
  <2>1. /\ SumFunctionOnSet(Cost', Active(v)') = SumFunctionOnSet(Cost, Active(v))
        /\ SumFunctionOnSet(Lent', Gone(v)') = SumFunctionOnSet(Lent, Gone(v))
    BY <1>1, <1>3, OtherSums
  <2>2. wallet'[v].reserved = wallet[v].reserved
    BY <1>2, <1>3 DEF Accounts
  <2>3. ReservedFits(v)
    BY <1>3, ReservedPerUser DEF ClashesStay
  <2> QED BY <2>1, <2>2, <2>3 DEF ReservedFits
<1>4. ASSUME NoneClashed(u)' PROVE ReservedFits(u)'
  <2>1. /\ SumFunctionOnSet(Cost', Active(u)')
             = SumFunctionOnSet(Cost, Active(u)) - SumFunctionOnSet(Cost, ended)
        /\ SumFunctionOnSet(Lent', Gone(u)')
             = SumFunctionOnSet(Lent, Gone(u)) + SumFunctionOnSet(Lent, ended)
    BY <1>1, EndedSums
  <2>2. /\ SumFunctionOnSet(Cost, ended)
             = SumFunctionOnSet(Spent, ended) + SumFunctionOnSet(Lent, ended)
        /\ SumFunctionOnSet(Spent, ended) \in Nat /\ SumFunctionOnSet(Lent, ended) \in Nat
    BY <1>1, BookTypes
  <2>3. SumFunctionOnSet(Cost, Active(u)) \in Nat /\ SumFunctionOnSet(Lent, Gone(u)) \in Nat
    BY SetsAreThere, BookTypes
  <2>4. NoneClashed(u)
    BY <1>4 DEF ClashesStay
  <2>5. SumFunctionOnSet(Spent, found) = SumFunctionOnSet(Spent, ended)
    BY <2>4 DEF PaysForEnded
  <2>6. /\ wallet'[u].reserved = wallet[u].reserved - SumFunctionOnSet(Spent, ended)
        /\ wallet[u].reserved \in Int
    BY <1>1, <1>2, <2>5 DEF Accounts
  <2>7. ReservedFits(u)
    BY <1>1, <2>4, ReservedPerUser
  <2> HIDE DEF Cost, Lent, Spent
  <2> QED BY <2>1, <2>2, <2>3, <2>6, <2>7 DEF ReservedFits
<1> QED BY <1>3, <1>4, ReservedPerUserNext

LEMMA ReservedStep ==
  ASSUME TypeInv, HeldInv, ReservedIsExplained, [Next]_vars
  PROVE  ReservedIsExplained'
<1>0. ClashesStay
  BY ClashesRemain
<1>1. CASE UNCHANGED tables
  BY <1>0, <1>1, ReservedSame DEF tables
<1>2. ASSUME NEW m \in MachineIds, RewardPay(m) PROVE ReservedIsExplained'
  <2>1. UNCHANGED machine /\ \A a \in Accounts : wallet'[a].reserved = wallet[a].reserved
    BY <1>2, RewardPayDoes
  <2> QED BY <1>0, <2>1, ReservedSame DEF Accounts
<1>3. ASSUME NEW u \in Users, RecoverCommit(u) PROVE ReservedIsExplained'
  BY <1>0, <1>3, RecoverCommitEnds, RecoveryPays, EndingReserved
<1>4. ASSUME NEW j \in Jobs, ExpiryCommit(j) PROVE ReservedIsExplained'
  BY <1>0, <1>4, RefundPays, EndingReserved
<1>5. ASSUME NEW h \in Handlers, NEW m \in MachineIds, BuyCommit(h, m)
      PROVE  ReservedIsExplained'
  BY <1>0, <1>5, BuyCommitReserved
<1> QED BY <1>1, <1>2, <1>3, <1>4, <1>5, TableSteps

-----------------------------------------------------------------------------
(* What reward rows say of a wallet: its own rewards and its shares of      *)
(* those up to three generations below.                                     *)
AllRows == Users \X Products \X Runs
Rates == {100, 18, 9, 5}
Value(rate) == [row \in AllRows |-> Percent(rate, RewardOf(row[2]))]
Rows(us) == RewardRows(us, AnyReward)

LEMMA RowTypes ==
  /\ \A us : IsFiniteSet(Rows(us)) /\ Rows(us) \subseteq AllRows
  /\ \A rate \in Rates : \A row \in AllRows : Value(rate)[row] \in Nat
  /\ \A rate \in Rates : \A us : RewardSum(rate, Rows(us)) \in Nat
<1>1. IsFiniteSet(AllRows)
  <2>1. IsFiniteSet(Runs)
    BY MachinesAssumption, FS_Interval DEF Runs
  <2> QED BY <2>1, MachinesAssumption, TriplesAreFinite DEF AllRows
<1>2. \A us : IsFiniteSet(Rows(us)) /\ Rows(us) \subseteq AllRows
  <2> TAKE us
  <2>1. Rows(us) \subseteq AllRows
    BY DEF Rows, RewardRows, AllRows
  <2> QED BY <1>1, <2>1, FS_Subset
<1>3. ASSUME NEW rate \in Rates, NEW row \in AllRows PROVE Value(rate)[row] \in Nat
  <2>1. RewardOf(row[2]) \in Nat
    BY RewardOfType DEF AllRows
  <2>2. Percent(rate, RewardOf(row[2])) \in Nat
    BY <2>1, ShareType DEF Rates
  <2> QED BY <2>2 DEF Value
<1>4. ASSUME NEW rate \in Rates, NEW us PROVE RewardSum(rate, Rows(us)) \in Nat
  <2>1. RewardSum(rate, Rows(us)) = SumFunctionOnSet(Value(rate), Rows(us))
    BY DEF RewardSum, Value, AllRows
  <2>2. \A row \in Rows(us) : Value(rate)[row] \in Nat
    BY <1>2, <1>3
  <2> HIDE DEF Value, Rows
  <2> QED BY <1>2, <2>1, <2>2, SumNat
<1> QED BY <1>2, <1>3, <1>4

(* A reward adds its row to those of its user ...                           *)
LEMMA RowAdded ==
  ASSUME TypeInv, NEW u \in Users, NEW p \in Products, NEW d \in Runs,
         reward[u][p][d] = "NONE",
         \A v \in Users, q \in Products, r \in Runs :
            reward'[v][q][r] = IF v = u /\ q = p /\ r = d THEN "SUCCESS" ELSE reward[v][q][r],
         NEW us
  PROVE  /\ Rows(us)' = IF u \in us THEN Rows(us) \cup {<<u, p, d>>} ELSE Rows(us)
         /\ <<u, p, d>> \notin Rows(us) /\ <<u, p, d>> \in AllRows
<1>1. <<u, p, d>> \notin Rows(us) /\ <<u, p, d>> \in AllRows
  BY DEF Rows, RewardRows, AllRows, AnyReward
<1>2. \A row \in AllRows :
        reward'[row[1]][row[2]][row[3]] \in AnyReward
          <=> (row = <<u, p, d>> \/ reward[row[1]][row[2]][row[3]] \in AnyReward)
  BY DEF AllRows, AnyReward
<1>3. \A row : row \in Rows(us) <=> /\ row \in AllRows /\ row[1] \in us
                                    /\ reward[row[1]][row[2]][row[3]] \in AnyReward
  BY DEF Rows, RewardRows, AllRows
<1>4. \A row : row \in Rows(us)' <=> /\ row \in AllRows /\ row[1] \in us
                                     /\ reward'[row[1]][row[2]][row[3]] \in AnyReward
  BY DEF Rows, RewardRows, AllRows
<1> HIDE DEF Rows
<1>5. ASSUME u \in us PROVE Rows(us)' = Rows(us) \cup {<<u, p, d>>}
  BY <1>1, <1>2, <1>3, <1>4, <1>5
<1>6. ASSUME u \notin us PROVE Rows(us)' = Rows(us)
  BY <1>1, <1>2, <1>3, <1>4, <1>6
<1> QED BY <1>1, <1>5, <1>6

(* ... and its amount, or a share of it, to what these add up to.           *)
LEMMA RowCounted ==
  ASSUME TypeInv, NEW u \in Users, NEW p \in Products, NEW d \in Runs,
         reward[u][p][d] = "NONE",
         \A v \in Users, q \in Products, r \in Runs :
            reward'[v][q][r] = IF v = u /\ q = p /\ r = d THEN "SUCCESS" ELSE reward[v][q][r],
         NEW rate \in Rates, NEW us
  PROVE  RewardSum(rate, Rows(us)') = RewardSum(rate, Rows(us))
                                        + (IF u \in us THEN Percent(rate, RewardOf(p)) ELSE 0)
<1> DEFINE row == <<u, p, d>>
<1>1. /\ Rows(us)' = IF u \in us THEN Rows(us) \cup {row} ELSE Rows(us)
      /\ row \notin Rows(us) /\ row \in AllRows
  BY RowAdded
<1>2. /\ IsFiniteSet(Rows(us)) /\ RewardSum(rate, Rows(us)) \in Nat
      /\ \A r \in Rows(us) : Value(rate)[r] \in Int
      /\ Value(rate)[row] \in Int
  BY <1>1, RowTypes
<1>3. Value(rate)[row] = Percent(rate, RewardOf(p))
  BY <1>1 DEF Value
<1>4. /\ RewardSum(rate, Rows(us)) = SumFunctionOnSet(Value(rate), Rows(us))
      /\ RewardSum(rate, Rows(us)') = SumFunctionOnSet(Value(rate), Rows(us)')
  BY DEF RewardSum, Value, AllRows
<1> HIDE DEF Rows, Value, row
<1>5. SumFunctionOnSet(Value(rate), Rows(us) \cup {row})
        = SumFunctionOnSet(Value(rate), Rows(us)) + Value(rate)[row]
  BY <1>1, <1>2, SumAdd
<1> QED BY <1>1, <1>2, <1>3, <1>4, <1>5

(* The referrer of the referrer, counted from below and from above          *)
LEMMA Generations ==
  ASSUME NEW u \in Users, NEW a \in Accounts
  PROVE  /\ Uplines(u)[1] = a <=> u \in ReferredBy({a})
         /\ Uplines(u)[2] = a <=> u \in ReferredBy(ReferredBy({a}))
         /\ Uplines(u)[3] = a <=> u \in ReferredBy(ReferredBy(ReferredBy({a})))
<1>1. /\ u \in Accounts /\ u # NoUser /\ NoUser \notin Accounts /\ a # NoUser
      /\ \A b \in Accounts : Referrer[b] \in Accounts \cup {NoUser}
  BY MachinesAssumption DEF Accounts
<1>2. /\ Uplines(u)[1] = Referrer[u]
      /\ Uplines(u)[2] = ReferrerOf(Referrer[u])
      /\ Uplines(u)[3] = ReferrerOf(ReferrerOf(Referrer[u]))
  BY <1>1 DEF Uplines, ReferrerOf
<1>3. \A b, s : b \in ReferredBy(s) <=> b \in Accounts /\ Referrer[b] \in s
  BY DEF ReferredBy
<1>5. \A b \in Accounts : ReferrerOf(b) = Referrer[b]
  BY <1>1 DEF ReferrerOf
<1>6. ReferrerOf(NoUser) = NoUser
  BY DEF ReferrerOf
<1> HIDE DEF ReferredBy, ReferrerOf
<1>7. Uplines(u)[1] = a <=> u \in ReferredBy({a})
  BY <1>1, <1>2, <1>3
<1>8. Uplines(u)[2] = a <=> u \in ReferredBy(ReferredBy({a}))
  BY <1>1, <1>2, <1>3, <1>5, <1>6
<1>9. Uplines(u)[3] = a <=> u \in ReferredBy(ReferredBy(ReferredBy({a})))
  <2>1. CASE Referrer[u] = NoUser
    BY <1>1, <1>2, <1>3, <1>6, <2>1
  <2>2. CASE Referrer[u] \in Accounts
    <3>1. ReferrerOf(Referrer[u]) = Referrer[Referrer[u]]
      BY <1>5, <2>2
    <3>2. CASE Referrer[Referrer[u]] = NoUser
      BY <1>1, <1>2, <1>3, <1>6, <2>2, <3>1, <3>2
    <3>3. CASE Referrer[Referrer[u]] \in Accounts
      BY <1>1, <1>2, <1>3, <1>5, <2>2, <3>1, <3>3
    <3> QED BY <1>1, <2>2, <3>2, <3>3
  <2> QED BY <1>1, <2>1, <2>2
<1> QED BY <1>7, <1>8, <1>9

Earned(a) ==
  RewardSum(100, Rows({a})) + RewardSum(18, Rows(ReferredBy({a})))
  + RewardSum(9, Rows(ReferredBy(ReferredBy({a}))))
  + RewardSum(5, Rows(ReferredBy(ReferredBy(ReferredBy({a})))))

(* A payment makes every wallet richer by what its row says.                *)
LEMMA RewardEarned ==
  ASSUME TypeInv, NEW u \in Users, NEW p \in Products, NEW d \in Runs,
         reward[u][p][d] = "NONE",
         \A v \in Users, q \in Products, r \in Runs :
            reward'[v][q][r] = IF v = u /\ q = p /\ r = d THEN "SUCCESS" ELSE reward[v][q][r],
         NEW a \in Accounts
  PROVE  /\ Earned(a)' = Earned(a) + TeamBonus(a, u, RewardOf(p))
                           + (IF a = u THEN RewardOf(p) ELSE 0)
         /\ Earned(a) \in Nat
<1> DEFINE one == ReferredBy({a})
           two == ReferredBy(one)
           three == ReferredBy(two)
           c == RewardOf(p)
<1>1. c \in Nat
  BY RewardOfType
<1>2. /\ Percent(100, c) = c
      /\ Percent(18, c) \in Nat /\ Percent(9, c) \in Nat /\ Percent(5, c) \in Nat
  BY <1>1, ShareType
<1>3. /\ 100 \in Rates /\ 18 \in Rates /\ 9 \in Rates /\ 5 \in Rates
  BY DEF Rates
<1>4. /\ RewardSum(100, Rows({a})') = RewardSum(100, Rows({a}))
                                        + (IF u \in {a} THEN Percent(100, c) ELSE 0)
      /\ RewardSum(18, Rows(one)') = RewardSum(18, Rows(one))
                                        + (IF u \in one THEN Percent(18, c) ELSE 0)
      /\ RewardSum(9, Rows(two)') = RewardSum(9, Rows(two))
                                        + (IF u \in two THEN Percent(9, c) ELSE 0)
      /\ RewardSum(5, Rows(three)') = RewardSum(5, Rows(three))
                                        + (IF u \in three THEN Percent(5, c) ELSE 0)
  <2> HIDE DEF one, two, three
  <2>1. \A rate \in Rates : \A us :
          RewardSum(rate, Rows(us)') = RewardSum(rate, Rows(us))
                                         + (IF u \in us THEN Percent(rate, RewardOf(p)) ELSE 0)
    BY RowCounted
  <2> QED BY <1>3, <2>1
<1>5. /\ RewardSum(100, Rows({a})) \in Nat /\ RewardSum(18, Rows(one)) \in Nat
      /\ RewardSum(9, Rows(two)) \in Nat /\ RewardSum(5, Rows(three)) \in Nat
  BY <1>3, RowTypes
<1>6. /\ Uplines(u)[1] = a <=> u \in one
      /\ Uplines(u)[2] = a <=> u \in two
      /\ Uplines(u)[3] = a <=> u \in three
  BY Generations
<1>7. TeamBonus(a, u, c) = (IF u \in one THEN Percent(18, c) ELSE 0)
                             + (IF u \in two THEN Percent(9, c) ELSE 0)
                             + (IF u \in three THEN Percent(5, c) ELSE 0)
  <2>1. CommissionRates[1] = 18 /\ CommissionRates[2] = 9 /\ CommissionRates[3] = 5
    BY DEF CommissionRates
  <2> HIDE DEF one, two, three
  <2> QED BY <1>6, <2>1 DEF TeamBonus
<1>8. /\ Earned(a) = RewardSum(100, Rows({a})) + RewardSum(18, Rows(one))
                       + RewardSum(9, Rows(two)) + RewardSum(5, Rows(three))
      /\ Earned(a)' = RewardSum(100, Rows({a})') + RewardSum(18, Rows(one)')
                       + RewardSum(9, Rows(two)') + RewardSum(5, Rows(three)')
  BY DEF Earned
<1> HIDE DEF one, two, three, c
<1>9. Earned(a)' = Earned(a) + TeamBonus(a, u, c) + (IF a = u THEN c ELSE 0)
  BY <1>1, <1>2, <1>4, <1>5, <1>7, <1>8
<1> QED BY <1>5, <1>8, <1>9 DEF c

LEMMA EarnedSame ==
  ASSUME \A v \in Users, p \in Products, r \in Runs :
            reward'[v][p][r] \in AnyReward <=> reward[v][p][r] \in AnyReward
  PROVE  \A a : Earned(a)' = Earned(a)
<1>1. \A us : Rows(us)' = Rows(us)
  BY DEF Rows, RewardRows
<1> QED BY <1>1 DEF Earned

(* One wallet's balance                                                     *)
BalanceFits(a) ==
  wallet[a].balance = Opening[a] - SumFunctionOnSet(Spent, Active(a))
                        + (IF a = Seller THEN SumFunctionOnSet(Cost, There) ELSE 0) + Earned(a)

LEMMA BalanceTypes ==
  ASSUME TypeInv, NEW a \in Accounts
  PROVE  /\ SumFunctionOnSet(Spent, Active(a)) \in Nat /\ SumFunctionOnSet(Cost, There) \in Nat
         /\ Earned(a) \in Nat /\ Opening[a] \in Nat /\ wallet[a].balance \in Int
         /\ Explained(a, AnyReward)
              = Opening[a] - SumFunctionOnSet(Spent, Active(a))
                  + (IF a = Seller THEN SumFunctionOnSet(Cost, There) ELSE 0) + Earned(a)
<1>1. SumFunctionOnSet(Spent, Active(a)) \in Nat /\ SumFunctionOnSet(Cost, There) \in Nat
  BY SetsAreThere, BookTypes
<1>2. Opening[a] \in Nat /\ wallet[a].balance \in Int
  BY MachinesAssumption DEF TypeInv, TypeOK, Wallet
<1> DEFINE in == SumFunctionOnSet(Spent, Active(a))
           sales == SumFunctionOnSet(Cost, There)
           r0 == RewardSum(100, Rows({a}))
           r1 == RewardSum(18, Rows(ReferredBy({a})))
           r2 == RewardSum(9, Rows(ReferredBy(ReferredBy({a}))))
           r3 == RewardSum(5, Rows(ReferredBy(ReferredBy(ReferredBy({a})))))
<1>3. r0 \in Nat /\ r1 \in Nat /\ r2 \in Nat /\ r3 \in Nat
  <2>1. 100 \in Rates /\ 18 \in Rates /\ 9 \in Rates /\ 5 \in Rates
    BY DEF Rates
  <2> QED BY <2>1, RowTypes
<1>4. Earned(a) = r0 + r1 + r2 + r3
  BY DEF Earned
<1>5. Explained(a, AnyReward) = Opening[a] - in + (IF a = Seller THEN sales ELSE 0)
                                  + r0 + r1 + r2 + r3
  BY DEF Explained, WalletSum, RefundedPrice, Spent, Cost, There, Rows
<1> HIDE DEF in, sales, r0, r1, r2, r3
<1>6. in \in Nat /\ sales \in Nat
  BY <1>1 DEF in, sales
<1>7. Explained(a, AnyReward) = Opening[a] - in + (IF a = Seller THEN sales ELSE 0) + Earned(a)
  BY <1>2, <1>3, <1>4, <1>5, <1>6
<1> QED BY <1>1, <1>2, <1>3, <1>4, <1>7 DEF in, sales

BalancesFit == \A a \in Accounts : NoneClashed(a) => BalanceFits(a)

LEMMA BalancePerAccount == TypeInv => (BalanceIsExplained <=> BalancesFit)
BY BalanceTypes DEF BalanceIsExplained, BalanceFits, BalancesFit

LEMMA BalancePerAccountNext == (TypeInv => (BalanceIsExplained <=> BalancesFit))'
BY BalancePerAccount, PTL

LEMMA BuyCommitBalance ==
  ASSUME TypeInv, BalancesFit, ClashesStay,
         NEW h \in Handlers, NEW m \in MachineIds, BuyCommit(h, m)
  PROVE  BalancesFit'
<1>1. PICK u \in Users, p \in Products, spend \in Nat, row \in Machine :
           /\ machine[m] = Absent /\ row.user = u /\ row.product = p /\ row.status = "ACTIVE"
           /\ row.walletSpend = Price[p] - spend
           /\ wallet' = Move(Move(wallet, u, spend - Price[p], Price[p]), Seller, Price[p], 0)
           /\ machine' = [machine EXCEPT ![m] = row]
           /\ reward' = reward
  BY BuyCommitDoes
<1>2. machine[m] = Absent /\ machine' = [machine EXCEPT ![m] = row]
  BY <1>1
<1>3. /\ \A v : Active(v)' = IF v = u THEN Active(v) \cup {m} ELSE Active(v)
      /\ There' = There \cup {m}
  BY <1>1, BoughtSets
<1>4. Price[p] \in Nat /\ u # Seller
  BY PriceType, MachinesAssumption DEF Accounts
<1>5. \A c \in Accounts :
         /\ wallet'[c].balance = wallet[c].balance + (IF c = u THEN spend - Price[p] ELSE 0)
                                   + (IF c = Seller THEN Price[p] ELSE 0)
         /\ wallet[c].balance \in Int
  BY <1>1, <1>4, BoughtMoney
<1>6. \A a : Earned(a)' = Earned(a)
  BY <1>1, EarnedSame
<1>7. SumFunctionOnSet(Cost', There') = SumFunctionOnSet(Cost, There) + Price[p]
  <2>1. SumFunctionOnSet(Cost', There \cup {m}) = SumFunctionOnSet(Cost, There) + Price[row.product]
    BY <1>2, BoughtSums
  <2> QED BY <1>1, <1>3, <2>1
<1>8. ASSUME NEW a \in Accounts, NoneClashed(a)'
      PROVE  BalanceFits(a)'
  <2>1. Active(a) \subseteq There
    BY SetsAreThere
  <2>2. /\ SumFunctionOnSet(Spent', Active(a)) = SumFunctionOnSet(Spent, Active(a))
        /\ SumFunctionOnSet(Spent', Active(a) \cup {m})
             = SumFunctionOnSet(Spent, Active(a)) + row.walletSpend
    BY <1>2, <2>1, BoughtSums
  <2>3. /\ SumFunctionOnSet(Spent, Active(a)) \in Nat /\ SumFunctionOnSet(Cost, There) \in Nat
        /\ Earned(a) \in Nat /\ Opening[a] \in Nat /\ wallet[a].balance \in Int
    BY BalanceTypes
  <2>4. SumFunctionOnSet(Spent', Active(a)')
          = SumFunctionOnSet(Spent, Active(a)) + (IF a = u THEN Price[p] - spend ELSE 0)
    <3>1. Active(a)' = IF a = u THEN Active(a) \cup {m} ELSE Active(a)
      BY <1>3
    <3>2. row.walletSpend = Price[p] - spend
      BY <1>1
    <3> HIDE DEF Spent
    <3>3. CASE a = u
      BY <2>2, <3>1, <3>2, <3>3
    <3>4. CASE a # u
      BY <2>2, <2>3, <3>1, <3>4
    <3> QED BY <3>3, <3>4
  <2>5. BalanceFits(a) /\ Earned(a)' = Earned(a)
    BY <1>6, <1>8 DEF BalancesFit, ClashesStay
  <2>6. wallet'[a].balance = wallet[a].balance + (IF a = u THEN spend - Price[p] ELSE 0)
                               + (IF a = Seller THEN Price[p] ELSE 0)
    BY <1>5
  <2> HIDE DEF Spent, Cost
  <2> QED BY <1>4, <1>7, <2>3, <2>4, <2>5, <2>6 DEF BalanceFits
<1> QED BY <1>8 DEF BalancesFit

LEMMA EndingBalance ==
  ASSUME TypeInv, BalancesFit, ClashesStay, NEW u, NEW found, NEW ended,
         Ends(u, found, ended), PaysForEnded(u, found, ended)
  PROVE  BalancesFit'
<1>1. /\ u \in Users /\ found \subseteq There /\ ended \subseteq Active(u) /\ ended \subseteq There
      /\ machine' = MachinesWithout(ended) /\ wallet' = Refunded(u, found)
  BY SetsAreThere DEF Ends
<1>2. \A c \in Accounts :
        wallet'[c].balance
          = wallet[c].balance + (IF c = u THEN SumFunctionOnSet(Spent, found) ELSE 0)
  BY <1>1, RefundedMoney
<1>3. \A a : Earned(a)' = Earned(a)
  BY EarnedSame DEF Ends
<1>4. SumFunctionOnSet(Cost', There') = SumFunctionOnSet(Cost, There)
  <2>1. Cost' = Cost /\ There' = There
    BY <1>1, EndedRows
  <2> HIDE DEF Cost
  <2> QED BY <2>1
<1>5. SumFunctionOnSet(Spent, ended) \in Nat
  BY <1>1, BookTypes
<1>6. ASSUME NEW a \in Accounts, NoneClashed(a)'
      PROVE  BalanceFits(a)'
  <2>0. NoneClashed(a)
    BY <1>6 DEF ClashesStay
  <2>1. SumFunctionOnSet(Spent', Active(a)')
          = SumFunctionOnSet(Spent, Active(a))
              - (IF a = u THEN SumFunctionOnSet(Spent, ended) ELSE 0)
    <3>0. SumFunctionOnSet(Spent, Active(a)) \in Nat
      BY BalanceTypes
    <3>1. CASE a = u
      BY <1>1, <3>1, EndedSums
    <3>2. CASE a # u
      <4>1. SumFunctionOnSet(Spent', Active(a)') = SumFunctionOnSet(Spent, Active(a))
        BY <1>1, <3>2, OtherSums
      <4> QED BY <3>0, <3>2, <4>1
    <3> QED BY <3>1, <3>2
  <2>2. /\ SumFunctionOnSet(Spent, Active(a)) \in Nat /\ SumFunctionOnSet(Cost, There) \in Nat
        /\ Earned(a) \in Nat /\ Opening[a] \in Nat /\ wallet[a].balance \in Int
    BY BalanceTypes
  <2>3. BalanceFits(a) /\ Earned(a)' = Earned(a)
    BY <1>3, <2>0 DEF BalancesFit
  <2>4. wallet'[a].balance
          = wallet[a].balance + (IF a = u THEN SumFunctionOnSet(Spent, ended) ELSE 0)
    <3>1. a = u => SumFunctionOnSet(Spent, found) = SumFunctionOnSet(Spent, ended)
      BY <2>0 DEF PaysForEnded
    <3> HIDE DEF Spent
    <3> QED BY <1>2, <3>1
  <2> HIDE DEF Spent, Cost
  <2> QED BY <1>4, <1>5, <2>1, <2>2, <2>3, <2>4 DEF BalanceFits
<1> QED BY <1>6 DEF BalancesFit

LEMMA RewardPayBalance ==
  ASSUME TypeInv, BalancesFit, ClashesStay, NEW m \in MachineIds, RewardPay(m)
  PROVE  BalancesFit'
<1>1. PICK u \in Users, p \in Products, d \in Runs :
           /\ reward[u][p][d] = "NONE"
           /\ \A v \in Users, q \in Products, r \in Runs :
                 reward'[v][q][r] = IF v = u /\ q = p /\ r = d THEN "SUCCESS" ELSE reward[v][q][r]
           /\ \A a \in Accounts :
                 wallet'[a].balance = wallet[a].balance + TeamBonus(a, u, RewardOf(p))
                                        + (IF a = u THEN RewardOf(p) ELSE 0)
           /\ UNCHANGED machine
  BY RewardPayDoes
<1>2. RewardOf(p) \in Nat /\ \A a : TeamBonus(a, u, RewardOf(p)) \in Nat
  BY RewardOfType, TeamBonusType
<1>3. ASSUME NEW a \in Accounts, NoneClashed(a)'
      PROVE  BalanceFits(a)'
  <2>1. Earned(a)' = Earned(a) + TeamBonus(a, u, RewardOf(p)) + (IF a = u THEN RewardOf(p) ELSE 0)
    <3>1. reward[u][p][d] = "NONE"
      BY <1>1
    <3>2. \A v \in Users, q \in Products, r \in Runs :
             reward'[v][q][r] = IF v = u /\ q = p /\ r = d THEN "SUCCESS" ELSE reward[v][q][r]
      BY <1>1
    <3> QED BY <3>1, <3>2, RewardEarned
  <2>2. /\ SumFunctionOnSet(Spent, Active(a)) \in Nat /\ SumFunctionOnSet(Cost, There) \in Nat
        /\ Earned(a) \in Nat /\ Opening[a] \in Nat /\ wallet[a].balance \in Int
    BY BalanceTypes
  <2>3. Active(a)' = Active(a) /\ There' = There /\ Spent' = Spent /\ Cost' = Cost
    BY <1>1 DEF Active, There, Spent, Cost
  <2>4. wallet'[a].balance = wallet[a].balance + TeamBonus(a, u, RewardOf(p))
                               + (IF a = u THEN RewardOf(p) ELSE 0)
    BY <1>1
  <2>5. BalanceFits(a)
    BY <1>3 DEF BalancesFit, ClashesStay
  <2> DEFINE bonus == TeamBonus(a, u, RewardOf(p))
             own == RewardOf(p)
  <2>6. bonus \in Nat /\ own \in Nat
    BY <1>2
  <2> HIDE DEF Spent, Cost, bonus, own
  <2> QED BY <2>1, <2>2, <2>3, <2>4, <2>5, <2>6 DEF BalanceFits, bonus, own
<1> QED BY <1>3 DEF BalancesFit

LEMMA BalanceStep ==
  ASSUME TypeInv, HeldInv, BalanceIsExplained, [Next]_vars
  PROVE  BalanceIsExplained'
<1>0. BalancesFit /\ TypeInv' /\ ClashesStay
  BY BalancePerAccount, TypeStep, ClashesRemain
<1>1. CASE UNCHANGED tables
  <2>1. UNCHANGED <<wallet, machine, reward>>
    BY <1>1 DEF tables
  <2>2. \A a : Earned(a)' = Earned(a)
    BY <2>1, EarnedSame
  <2>3. \A a : Active(a)' = Active(a) /\ There' = There /\ Spent' = Spent /\ Cost' = Cost
    BY <2>1 DEF Active, There, Spent, Cost
  <2>4. BalancesFit'
    BY <1>0, <2>1, <2>2, <2>3 DEF BalancesFit, BalanceFits, ClashesStay
  <2> QED BY <1>0, <2>4, BalancePerAccountNext
<1>2. ASSUME BalancesFit' PROVE BalanceIsExplained'
  BY <1>0, <1>2, BalancePerAccountNext
<1>3. ASSUME NEW u \in Users, RecoverCommit(u) PROVE BalancesFit'
  BY <1>0, <1>3, RecoverCommitEnds, RecoveryPays, EndingBalance
<1>4. ASSUME NEW j \in Jobs, ExpiryCommit(j) PROVE BalancesFit'
  BY <1>0, <1>4, RefundPays, EndingBalance
<1>5. ASSUME NEW h \in Handlers, NEW m \in MachineIds, BuyCommit(h, m) PROVE BalancesFit'
  BY <1>0, <1>5, BuyCommitBalance
<1>6. ASSUME NEW m \in MachineIds, RewardPay(m) PROVE BalancesFit'
  BY <1>0, <1>6, RewardPayBalance
<1> QED BY <1>1, <1>2, <1>3, <1>4, <1>5, <1>6, TableSteps

-----------------------------------------------------------------------------
(* The books of purchases, trial funds, refunds and rewards together: the   *)
(* inductive invariant, whatever overlaps.                                  *)
BooksInv ==
  /\ TypeInv /\ Shape
  /\ Apart /\ FoundIsFresh /\ FundHolds /\ TrialBooks
  /\ OnePurchase /\ BuyCovered /\ NeverOverdrawn
  /\ HeldInv /\ BalanceIsExplained /\ ReservedIsExplained

LEMMA BooksInit == Init => BooksInv
<1> SUFFICES ASSUME Init PROVE BooksInv
  OBVIOUS
<1>1. TypeInv
  BY TypeInit
<1>2. /\ Shape /\ Apart /\ FoundIsFresh
      /\ FundHolds /\ OnePurchase
  BY DEF Init, Shape, Apart, FoundIsFresh, Idle, Buying, Recovering, Refunding,
         FundHolds, PaidAsRead, OnePurchase
<1>3. There = {} /\ \A u : Active(u) = {} /\ Gone(u) = {}
  BY DEF Init, There, Active, Gone, Absent
<1>4. \A u \in Users : trial[u].status = "ACTIVE" /\ trial[u].used = 0
  BY DEF Init
<1>5. \A a \in Accounts : wallet[a].balance = Opening[a] /\ wallet[a].reserved = 0
  BY DEF Init
<1>6. \A us : Rows(us) = {}
  BY DEF Init, Rows, RewardRows, AnyReward
<1>7. BuyCovered /\ HeldInv
  BY DEF Init, BuyCovered, IsCovered, Idle,
         HeldInv, ThereInTime, FoundStand, HeldOnce, NothingMissed
<1>8. SumFunctionOnSet(Spent, {}) = 0 /\ SumFunctionOnSet(Lent, {}) = 0
      /\ SumFunctionOnSet(Cost, {}) = 0
  BY SumEmpty, Zenon
<1>9. TrialBooks
  <2>1. \A u \in Users : TrialInOrder(u)
    BY <1>3, <1>4, <1>8 DEF TrialInOrder, TRIAL_AMOUNT
  <2> QED BY <2>1, TrialBooksPerUser
<1>10. ReservedIsExplained
  <2>1. \A u \in Users : ReservedFits(u)
    BY <1>3, <1>5, <1>8 DEF ReservedFits, Accounts
  <2> QED BY <2>1, ReservedPerUser
<1>11. BalanceIsExplained
  <2>1. \A rate : RewardSum(rate, {}) = 0
    BY SumEmpty, Zenon DEF RewardSum
  <2>2. ASSUME NEW a PROVE Earned(a) = 0
    <3>1. /\ RewardSum(100, Rows({a})) = 0
          /\ RewardSum(18, Rows(ReferredBy({a}))) = 0
          /\ RewardSum(9, Rows(ReferredBy(ReferredBy({a})))) = 0
          /\ RewardSum(5, Rows(ReferredBy(ReferredBy(ReferredBy({a}))))) = 0
      BY <1>6, <2>1, Zenon
    <3> QED BY <3>1 DEF Earned
  <2>3. \A a \in Accounts : Opening[a] \in Nat
    BY MachinesAssumption
  <2>4. ASSUME NEW a \in Accounts PROVE BalanceFits(a)
    <3>1. /\ SumFunctionOnSet(Spent, Active(a)) = 0 /\ SumFunctionOnSet(Cost, There) = 0
          /\ Earned(a) = 0 /\ wallet[a].balance = Opening[a] /\ Opening[a] \in Nat
      BY <1>3, <1>5, <1>8, <2>2, <2>3, Zenon
    <3> HIDE DEF Spent, Cost
    <3> QED BY <3>1 DEF BalanceFits
  <2> QED BY <1>1, <2>4, BalancePerAccount DEF BalancesFit
<1>12. NeverOverdrawn
  BY <1>5, MachinesAssumption DEF NeverOverdrawn, Accounts
<1> QED BY <1>1, <1>2, <1>7, <1>9, <1>10, <1>11, <1>12 DEF BooksInv

LEMMA BooksStep == ASSUME BooksInv, [Next]_vars PROVE BooksInv'
<1>1. TypeInv /\ Shape /\ Apart /\ FoundIsFresh /\ FoundAreTheirs
  BY FoundTheirs DEF BooksInv, TypeInv
<1>2. TypeInv'
  BY <1>1, TypeStep
<1>3. Shape' /\ Apart' /\ FoundIsFresh'
  BY <1>1, ShapeStep, ApartStep, FreshStep
<1>4. OnePurchase' /\ BuyCovered'
  <2>1. OnePurchase /\ BuyCovered
    BY DEF BooksInv
  <2>2. TypeOK'
    BY <1>2 DEF TypeInv
  <2> QED BY <1>1, <2>1, <2>2, OnePurchaseStep, CoveredStep
<1>5. FundHolds' /\ TrialBooks'
  <2>1. FundHolds /\ TrialBooks
    BY DEF BooksInv
  <2> QED BY <1>1, <2>1, FundStep, TrialStep
<1>6. HeldInv' /\ BalanceIsExplained' /\ ReservedIsExplained'
  <2>1. HeldInv /\ BalanceIsExplained /\ ReservedIsExplained
    BY DEF BooksInv
  <2> QED BY <1>1, <2>1, HeldStep, BalanceStep, ReservedStep
<1>7. NeverOverdrawn'
  BY <1>1, OverdrawnStep DEF BooksInv
<1> QED BY <1>2, <1>3, <1>4, <1>5, <1>6, <1>7 DEF BooksInv

(* Wallets, trial funds, machines and purchases in flight keep each other's *)
(* books whatever overlaps, fails or crashes (buyProduct, recover,          *)
(* handleExpiredMachines and handleDailyRewards together).                  *)
THEOREM BooksBalance == Spec => []BooksInv
<1>1. BooksInv /\ [Next]_vars => BooksInv'
  BY BooksStep
<1> QED BY <1>1, BooksInit, PTL DEF Spec

(* For any users, products and number of machines, handlers, jobs and       *)
(* reward runs, overlapping as they may: every cent of every wallet is      *)
(* explained by machine and reward rows, through failures and crashes, for  *)
(* whoever had no machine that two recoveries or refunds held at once       *)
(* (trial-fund.service.ts:42-83, jobs.service.ts:375-457).                  *)
THEOREM BalancesAreExplained == Spec => []BalanceIsExplained
<1>1. BooksInv => BalanceIsExplained
  BY DEF BooksInv
<1> QED BY <1>1, BooksBalance, PTL

(* Purchases reserve the whole price and both refunds release what the      *)
(* wallet paid (product.service.ts, jobs.service.ts, trial-fund): reserved  *)
(* is the full price of ACTIVE machines and, for ever, the trial part of    *)
(* those refunded, for whoever had no machine that clashed.                 *)
THEOREM ReservedIsKept == Spec => []ReservedIsExplained
<1>1. BooksInv => ReservedIsExplained
  BY DEF BooksInv
<1> QED BY <1>1, BooksBalance, PTL

(* usedAmount of an ACTIVE trial fund is what its ACTIVE machines hold of   *)
(* it, and never more than the fund; it is zero once RECOVERED: for every   *)
(* user of whom no two purchases, recoveries or refunds met.                *)
THEOREM TrialUsageIsKept == Spec => []TrialUsageIsExplained
<1>1. BooksInv => TrialUsageIsExplained
  BY DEF BooksInv, TrialBooks
<1> QED BY <1>1, BooksBalance, PTL

(* Whichever way a trial fund ends, recover or the refund job, no ACTIVE    *)
(* machine bought before the trial expired still holds money of it, for a   *)
(* user of whom no two handlers met.  Of machines bought after it expired,  *)
(* while the fund was still ACTIVE, it says nothing.                        *)
THEOREM TrialMoneyComesBack == Spec => []TrialMoneyReturned
<1>1. BooksInv => TrialMoneyReturned
  BY DEF BooksInv, TrialBooks
<1> QED BY <1>1, BooksBalance, PTL

(* buyProduct checks a wallet that it read before its transaction           *)
(* (product.service.ts:246, 271).  Recoveries, refunds, rewards and other   *)
(* users' purchases may come in between: only a second purchase of the same *)
(* user in flight can overdraw the wallet.                                  *)
THEOREM WalletsAreNeverOverdrawn == Spec => []NeverOverdrawn
<1>1. BooksInv => NeverOverdrawn
  BY DEF BooksInv
<1> QED BY <1>1, BooksBalance, PTL
==============================================================================
