------------------------------ MODULE Rules_proofs ------------------------------
(***************************************************************************)
(* Theorems of Rules: for any deposits and teams, for any users, referrals *)
(* and amounts, and for lists and pages of any length.                     *)
(***************************************************************************)
EXTENDS Rules, LevelRules_proofs, Sums_proofs

-----------------------------------------------------------------------------
(* The level matrix                                                         *)

(* The levels granted are those of the rows that are met.                   *)
LEMMA GrantedRows ==
  ASSUME NEW d \in Int, NEW t \in Team, NEW l \in 1..6
  PROVE  l \in Granted(d, t) <=> Meets(LEVELS[7 - l], d, t)
<1>1. \A i \in 1..7 : (LEVELS[i].level = l) <=> i = 7 - l
  BY RowLevel
<1>2. 7 - l \in 1..7
  OBVIOUS
<1>3. l \in Granted(d, t) <=> \E i \in 1..7 : LEVELS[i].level = l /\ Meets(LEVELS[i], d, t)
  BY DEF Granted, Meets
<1> HIDE DEF LEVELS
<1> QED BY <1>1, <1>2, <1>3

LEMMA ScanIsHighest ==
  ASSUME NEW d \in Int, NEW t \in Team
  PROVE  LevelOf(d, t) = Max(Granted(d, t) \cup {0})
<1> DEFINE G == Granted(d, t) \cup {0}
           i == FirstMet(d, t)
<1>1. /\ i \in 1..7 /\ Meets(LEVELS[i], d, t)
      /\ \A j \in 1..(i - 1) : ~Meets(LEVELS[j], d, t)
      /\ LevelOf(d, t) = 7 - i
  BY FirstMetExists, RowLevel DEF LevelOf
<1>2. Granted(d, t) \subseteq 1..6
  BY DEF Granted
<1> HIDE DEF i
<1>3. 7 - i \in G
  <2>1. CASE i = 7
    BY <2>1
  <2>2. CASE i # 7
    <3>1. 7 - i \in 1..6 /\ 7 - (7 - i) = i
      BY <1>1, <2>2
    <3>2. 7 - i \in Granted(d, t)
      BY <1>1, <3>1, GrantedRows
    <3> QED BY <3>2
  <2> QED BY <2>1, <2>2
<1>4. ASSUME NEW l \in G
      PROVE  7 - i >= l
  <2>1. CASE l = 0
    BY <1>1, <2>1
  <2>2. CASE l \in Granted(d, t)
    <3>1. l \in 1..6
      BY <1>2, <2>2
    <3>2. Meets(LEVELS[7 - l], d, t)
      BY <2>2, <3>1, GrantedRows
    <3> QED BY <1>1, <3>1, <3>2
  <2> QED BY <2>1, <2>2
<1>5. G \subseteq Int
  BY <1>2
<1>6. Max(G) = 7 - i
  <2> HIDE DEF G
  <2>1. \E x \in G : \A y \in G : x >= y
    BY <1>3, <1>4
  <2>2. Max(G) \in G /\ \A y \in G : Max(G) >= y
    BY <2>1 DEF Max
  <2>3. Max(G) \in Int /\ 7 - i \in Int
    <3>1. Max(G) \in Int
      BY ONLY <1>5, <2>2
    <3>2. i \in 1..7
      BY <1>1
    <3> QED BY ONLY <3>1, <3>2
  <2>4. Max(G) >= 7 - i /\ 7 - i >= Max(G)
    BY <1>3, <1>4, <2>2
  <2> QED BY <2>3, <2>4
<1> QED BY <1>1, <1>6
-----------------------------------------------------------------------------
(* The books: what a table's rows add up to                                 *)
Amount(rows) == [i \in DOMAIN rows |-> rows[i].amount]
Summable(rows) == IsFiniteSet(DOMAIN rows) /\ \A i \in DOMAIN rows : rows[i].amount \in Int

LEMMA TotalIsSum ==
  ASSUME NEW rows, IsFiniteSet(DOMAIN rows), NEW S \in SUBSET DOMAIN rows
  PROVE  IsFiniteSet(S) /\ Total(rows, S) = SumFunctionOnSet(Amount(rows), S)
<1> DEFINE f == [i \in S |-> rows[i].amount]
           g == Amount(rows)
<1>1. IsFiniteSet(S)
  BY FS_Subset
<1>2. \A i \in S : f[i] = g[i]
  BY DEF Amount
<1>3. Total(rows, S) = SumFunctionOnSet(f, S)
  BY DEF Total
<1> HIDE DEF f, g
<1>4. SumFunctionOnSet(f, S) = SumFunctionOnSet(g, S)
  BY <1>1, <1>2, SumSame
<1> QED BY <1>1, <1>3, <1>4 DEF g

LEMMA AmountsAreInt ==
  ASSUME NEW rows, Summable(rows), NEW S \in SUBSET DOMAIN rows
  PROVE  Total(rows, S) \in Int
<1>1. IsFiniteSet(S) /\ Total(rows, S) = SumFunctionOnSet(Amount(rows), S)
  BY TotalIsSum DEF Summable
<1>2. \A i \in S : Amount(rows)[i] \in Int
  BY DEF Amount, Summable
<1> HIDE DEF Amount
<1> QED BY <1>1, <1>2, SumInt

(* A row appended adds its amount to the totals of the sets it is in, and   *)
(* changes no other.                                                        *)
LEMMA TotalAppended ==
  ASSUME NEW R, NEW rows \in Seq(R), Summable(rows), NEW r \in R, r.amount \in Int,
         NEW S \in SUBSET DOMAIN rows
  PROVE  /\ Summable(Append(rows, r))
         /\ Total(Append(rows, r), S) = Total(rows, S)
         /\ Total(Append(rows, r), S \cup {Len(rows) + 1}) = Total(rows, S) + r.amount
<1> DEFINE n == Len(rows) + 1
           new == Append(rows, r)
           f == Amount(rows)
           g == Amount(new)
           T == S \cup {n}
<1>1. /\ DOMAIN new = DOMAIN rows \cup {n} /\ n \notin DOMAIN rows
      /\ new[n] = r /\ \A i \in DOMAIN rows : new[i] = rows[i]
  OBVIOUS
<1> HIDE DEF n, new
<1>2. IsFiniteSet(DOMAIN rows) /\ IsFiniteSet(DOMAIN new)
  BY <1>1, FS_AddElement DEF Summable
<1>3. Summable(new)
  BY <1>1, <1>2 DEF Summable
<1>4. /\ \A i \in S : f[i] = g[i] /\ g[i] \in Int
      /\ g[n] = r.amount /\ n \notin S
  BY <1>1 DEF Summable, Amount
<1>5. /\ IsFiniteSet(S)
      /\ Total(rows, S) = SumFunctionOnSet(f, S)
      /\ Total(new, S) = SumFunctionOnSet(g, S)
      /\ Total(new, T) = SumFunctionOnSet(g, T)
  <2>1. S \in SUBSET DOMAIN new /\ T \in SUBSET DOMAIN new
    BY <1>1
  <2> HIDE DEF f, g, T
  <2>2. IsFiniteSet(S) /\ Total(rows, S) = SumFunctionOnSet(Amount(rows), S)
    BY <1>2, TotalIsSum
  <2>3. Total(new, S) = SumFunctionOnSet(Amount(new), S)
    BY <1>2, <2>1, TotalIsSum
  <2>4. Total(new, T) = SumFunctionOnSet(Amount(new), T)
    BY <1>2, <2>1, TotalIsSum
  <2> QED BY <2>2, <2>3, <2>4 DEF f, g
<1> HIDE DEF f, g
<1>6. SumFunctionOnSet(f, S) = SumFunctionOnSet(g, S)
  BY <1>4, <1>5, SumSame
<1>7. SumFunctionOnSet(g, S \cup {n}) = SumFunctionOnSet(g, S) + g[n]
  BY <1>4, <1>5, SumAdd
<1> QED BY <1>3, <1>4, <1>5, <1>6, <1>7 DEF n, new

LEMMA TotalKept ==
  ASSUME NEW R, NEW rows \in Seq(R), Summable(rows), NEW r \in R, r.amount \in Int,
         NEW S \in SUBSET DOMAIN rows
  PROVE  Total(Append(rows, r), S) = Total(rows, S)
<1>1. /\ Total(Append(rows, r), S) = Total(rows, S)
      /\ Total(Append(rows, r), S \cup {Len(rows) + 1}) = Total(rows, S) + r.amount
  BY TotalAppended
<1> QED BY <1>1

LEMMA OfUserAppended ==
  ASSUME NEW R, NEW rows \in Seq(R), Summable(rows), NEW r \in R, r.amount \in Int, NEW u
  PROVE  Total(Append(rows, r), OfUser(Append(rows, r), u))
           = Total(rows, OfUser(rows, u)) + (IF r.user = u THEN r.amount ELSE 0)
<1> DEFINE n == Len(rows) + 1
           new == Append(rows, r)
           S == OfUser(rows, u)
<1>1. /\ DOMAIN new = DOMAIN rows \cup {n} /\ n \notin DOMAIN rows
      /\ new[n] = r /\ \A i \in DOMAIN rows : new[i] = rows[i]
  OBVIOUS
<1>2. S \in SUBSET DOMAIN rows
  BY DEF OfUser
<1>3. OfUser(new, u) = IF r.user = u THEN S \cup {n} ELSE S
  <2> HIDE DEF n, new
  <2> QED BY <1>1 DEF OfUser
<1>4. /\ Total(new, S) = Total(rows, S)
      /\ Total(new, S \cup {n}) = Total(rows, S) + r.amount
      /\ Total(rows, S) \in Int
  <2> HIDE DEF S
  <2> QED BY <1>2, TotalAppended, AmountsAreInt
<1> HIDE DEF n, new, S
<1>5. Total(new, OfUser(new, u)) = Total(rows, S) + (IF r.user = u THEN r.amount ELSE 0)
  BY <1>3, <1>4
<1> QED BY <1>5 DEF new, S

(* What a table's rows add up to is what those of each of M add up to.      *)
LEMMA TotalOfParts ==
  ASSUME NEW rows, Summable(rows), NEW D \in SUBSET DOMAIN rows,
         NEW M, IsFiniteSet(M), NEW g, \A i \in D : g[i] \in M
  PROVE  SumOver([u \in M |-> Total(rows, {i \in D : g[i] = u})]) = Total(rows, D)
<1> DEFINE Part(u) == {i \in D : g[i] = u}
           f == Amount(rows)
           sums == [u \in M |-> Total(rows, Part(u))]
           parts == [u \in M |-> SumFunctionOnSet(f, Part(u))]
<1>1. IsFiniteSet(D) /\ Total(rows, D) = SumFunctionOnSet(f, D)
  BY TotalIsSum DEF Summable
<1>2. \A u \in M : sums[u] = parts[u]
  <2> TAKE u \in M
  <2>1. Part(u) \in SUBSET DOMAIN rows
    OBVIOUS
  <2>2. Total(rows, Part(u)) = SumFunctionOnSet(Amount(rows), Part(u))
    <3> HIDE DEF Part
    <3> QED BY <2>1, TotalIsSum DEF Summable
  <2> HIDE DEF Part
  <2> QED BY <2>2
<1>3. SumFunctionOnSet(parts, M) = SumFunctionOnSet(f, D)
  <2>1. \A i \in D : f[i] \in Int
    BY DEF Amount, Summable
  <2> HIDE DEF f
  <2> QED BY <1>1, <2>1, SumOfParts
<1>4. SumFunctionOnSet(sums, M) = SumFunctionOnSet(parts, M)
  <2> HIDE DEF sums, parts
  <2> QED BY <1>2, SumSame
<1>5. SumOver(sums) = SumFunctionOnSet(sums, M)
  <2>1. DOMAIN sums = M
    OBVIOUS
  <2> HIDE DEF sums
  <2> QED BY <2>1 DEF SumOver
<1> HIDE DEF f
<1> QED BY <1>1, <1>3, <1>4, <1>5

-----------------------------------------------------------------------------
(* The books: every operation keeps them in balance                         *)
Providers == {NoProvider, "BONUS", "admin-manual"}
Referred == {u \in Users : Referrer[u] # NoOne}
Answers == {"PENDING", "APPROVED", "SUSPENDED"}
Fund == [status : {"ACTIVE", "RECOVERED"}, used : Int]
DepositRows == [user : Users, provider : Providers, status : {"SUCCESS", "FAILED"}, amount : Int]
CommissionRows == [referral : Referred, levelDepth : {1}, amount : Int]
MoneyRows == [user : Users, amount : Int]
WithdrawRows == [user : Users, status : Answers, amount : Int]
MachineRows == [user : Users, status : {"ACTIVE", "REFUNDED"}, walletSpend : Int, amount : Int]
Tables == [wallet : [Users -> Wallet], trial : [Users -> Fund], referrer : {Referrer},
           deposits : Seq(DepositRows), commissions : Seq(CommissionRows),
           rewards : Seq(MoneyRows), bonuses : Seq(MoneyRows), withdraws : Seq(WithdrawRows),
           sales : Seq(MoneyRows), machines : Seq(MachineRows)]

(* What came to a user, what went, and what the wallet says of it           *)
TotalOf(rows, u) == Total(rows, OfUser(rows, u))
Picked(rows, u, status) == OfUser(rows, u) \cap WithStatus(rows, status)
TotalPicked(rows, u, status) == Total(rows, Picked(rows, u, status))
Came(db, u) == TotalPicked(db.deposits, u, "SUCCESS") + Total(db.commissions, PaidTo(db, u))
                 + TotalOf(db.rewards, u) + TotalOf(db.bonuses, u)
                 + TotalOf(db.sales, u) + TotalOf(db.machines, u)
Went(db, u) == TotalPicked(db.withdraws, u, "APPROVED")
Balanced(db) == \A u \in Users : GetWalletOverview(db, u) = Came(db, u) - Went(db, u)

LEMMA SequencesAreFinite ==
  ASSUME NEW R, NEW rows \in Seq(R), \A r \in R : r.amount \in Int
  PROVE  Summable(rows)
<1>1. DOMAIN rows = 1..Len(rows) /\ Len(rows) \in Nat /\ \A i \in DOMAIN rows : rows[i] \in R
  OBVIOUS
<1>2. IsFiniteSet(1..Len(rows))
  BY <1>1, FS_Interval
<1> QED BY <1>1, <1>2 DEF Summable

LEMMA TablesAreSummable ==
  ASSUME NEW db \in Tables
  PROVE  /\ Summable(db.deposits) /\ Summable(db.commissions) /\ Summable(db.rewards)
         /\ Summable(db.bonuses) /\ Summable(db.withdraws) /\ Summable(db.sales)
         /\ Summable(db.machines)
<1>1. /\ db.deposits \in Seq(DepositRows) /\ db.commissions \in Seq(CommissionRows)
      /\ db.rewards \in Seq(MoneyRows) /\ db.bonuses \in Seq(MoneyRows)
      /\ db.withdraws \in Seq(WithdrawRows) /\ db.sales \in Seq(MoneyRows)
      /\ db.machines \in Seq(MachineRows)
  BY DEF Tables
<1>2. /\ \A r \in DepositRows : r.amount \in Int
      /\ \A r \in CommissionRows : r.amount \in Int
      /\ \A r \in MoneyRows : r.amount \in Int
      /\ \A r \in WithdrawRows : r.amount \in Int
      /\ \A r \in MachineRows : r.amount \in Int
  BY DEF DepositRows, CommissionRows, MoneyRows, WithdrawRows, MachineRows
<1>3. Summable(db.deposits)
  BY <1>1, <1>2, SequencesAreFinite
<1>4. Summable(db.commissions)
  BY <1>1, <1>2, SequencesAreFinite
<1>5. Summable(db.rewards)
  BY <1>1, <1>2, SequencesAreFinite
<1>6. Summable(db.bonuses)
  BY <1>1, <1>2, SequencesAreFinite
<1>7. Summable(db.withdraws)
  BY <1>1, <1>2, SequencesAreFinite
<1>8. Summable(db.sales)
  BY <1>1, <1>2, SequencesAreFinite
<1>9. Summable(db.machines)
  BY <1>1, <1>2, SequencesAreFinite
<1> QED BY <1>3, <1>4, <1>5, <1>6, <1>7, <1>8, <1>9

LEMMA TotalsAreInt ==
  ASSUME NEW db \in Tables, NEW u
  PROVE  /\ TotalPicked(db.deposits, u, "SUCCESS") \in Int
         /\ Total(db.commissions, PaidTo(db, u)) \in Int
         /\ TotalOf(db.rewards, u) \in Int
         /\ TotalOf(db.bonuses, u) \in Int
         /\ TotalOf(db.sales, u) \in Int
         /\ TotalOf(db.machines, u) \in Int
         /\ Went(db, u) \in Int
<1>1. ASSUME NEW rows, Summable(rows)
      PROVE  TotalOf(rows, u) \in Int
  <2>1. OfUser(rows, u) \in SUBSET DOMAIN rows
    BY DEF OfUser
  <2> QED BY <1>1, <2>1, AmountsAreInt DEF TotalOf
<1>2. ASSUME NEW rows, Summable(rows), NEW status
      PROVE  TotalPicked(rows, u, status) \in Int
  <2>1. Picked(rows, u, status) \in SUBSET DOMAIN rows
    BY DEF OfUser, Picked
  <2> QED BY <1>2, <2>1, AmountsAreInt DEF TotalPicked
<1>3. PaidTo(db, u) \in SUBSET DOMAIN db.commissions
  BY DEF PaidTo
<1>4. /\ TotalOf(db.rewards, u) \in Int /\ TotalOf(db.bonuses, u) \in Int
      /\ TotalOf(db.sales, u) \in Int /\ TotalOf(db.machines, u) \in Int
  BY <1>1, TablesAreSummable
<1>5. TotalPicked(db.deposits, u, "SUCCESS") \in Int /\ Went(db, u) \in Int
  BY <1>2, TablesAreSummable DEF Went
<1>6. Total(db.commissions, PaidTo(db, u)) \in Int
  BY <1>3, TablesAreSummable, AmountsAreInt
<1> QED BY <1>4, <1>5, <1>6

(* The same, as one fact about the user                                     *)
Integral(db, u) == /\ TotalPicked(db.deposits, u, "SUCCESS") \in Int
                   /\ Total(db.commissions, PaidTo(db, u)) \in Int
                   /\ TotalOf(db.rewards, u) \in Int
                   /\ TotalOf(db.bonuses, u) \in Int
                   /\ TotalOf(db.sales, u) \in Int
                   /\ TotalOf(db.machines, u) \in Int
LEMMA CameIsInt ==
  ASSUME NEW db \in Tables, NEW u
  PROVE  Integral(db, u)
BY TotalsAreInt DEF Integral

LEMMA OverviewIsInt ==
  ASSUME NEW db \in Tables, NEW u \in Users
  PROVE  Came(db, u) \in Int /\ GetWalletOverview(db, u) \in Int
<1>1. db.wallet[u] \in Wallet
  BY DEF Tables
<1>2. GetWalletOverview(db, u) \in Int
  BY <1>1 DEF GetWalletOverview, Wallet
<1>3. Came(db, u) \in Int
  BY TotalsAreInt DEF Came
<1> QED BY <1>2, <1>3

LEMMA Moved ==
  ASSUME NEW wallet \in [Users -> Wallet], NEW u \in Users, NEW a \in Int, NEW b \in Int
  PROVE  /\ Move(wallet, u, a, b) \in [Users -> Wallet]
         /\ \A v \in Users : Move(wallet, u, a, b)[v].balance + Move(wallet, u, a, b)[v].reserved
                = wallet[v].balance + wallet[v].reserved + (IF v = u THEN a + b ELSE 0)
BY DEF Move, Wallet

(* Of a row appended, what its user's rows of its status add up to          *)
LEMMA TotalOfAppended ==
  ASSUME NEW R, NEW rows \in Seq(R), Summable(rows), NEW r \in R, r.amount \in Int, NEW u
  PROVE  TotalOf(Append(rows, r), u) = TotalOf(rows, u) + (IF r.user = u THEN r.amount ELSE 0)
BY OfUserAppended DEF TotalOf

LEMMA TotalPickedAppended ==
  ASSUME NEW R, NEW rows \in Seq(R), Summable(rows), NEW r \in R, r.amount \in Int, NEW u, NEW status
  PROVE  TotalPicked(Append(rows, r), u, status)
           = TotalPicked(rows, u, status)
               + (IF r.user = u /\ r.status = status THEN r.amount ELSE 0)
<1> DEFINE n == Len(rows) + 1
           new == Append(rows, r)
           S == Picked(rows, u, status)
           counts == r.user = u /\ r.status = status
<1>1. /\ DOMAIN new = DOMAIN rows \cup {n} /\ n \notin DOMAIN rows
      /\ new[n] = r /\ \A i \in DOMAIN rows : new[i] = rows[i]
  OBVIOUS
<1>2. S \in SUBSET DOMAIN rows
  BY DEF OfUser, Picked
<1>3. Picked(new, u, status) = IF counts THEN S \cup {n} ELSE S
  <2> HIDE DEF n, new
  <2> QED BY <1>1 DEF OfUser, WithStatus, Picked
<1>4. /\ Total(new, S) = Total(rows, S)
      /\ Total(new, S \cup {n}) = Total(rows, S) + r.amount
      /\ Total(rows, S) \in Int
  <2> HIDE DEF S
  <2> QED BY <1>2, TotalAppended, AmountsAreInt
<1> HIDE DEF n, new, S, counts
<1>5. Total(new, Picked(new, u, status)) = Total(rows, S) + (IF counts THEN r.amount ELSE 0)
  BY <1>3, <1>4
<1> QED BY <1>5 DEF new, S, TotalPicked, counts

(* Rows that keep their users and amounts add up to the same.               *)
LEMMA TotalOfKept ==
  ASSUME NEW rows, NEW new, DOMAIN new = DOMAIN rows,
         \A i \in DOMAIN rows : new[i].user = rows[i].user /\ new[i].amount = rows[i].amount, NEW u
  PROVE  TotalOf(new, u) = TotalOf(rows, u)
<1>1. OfUser(new, u) = OfUser(rows, u)
  BY DEF OfUser
<1>2. [i \in OfUser(new, u) |-> new[i].amount] = [i \in OfUser(rows, u) |-> rows[i].amount]
  BY <1>1 DEF OfUser
<1> QED BY <1>1, <1>2 DEF TotalOf, Total

(* One user's wallet gains what was added to what came to that user, and    *)
(* nothing else changes.                                                    *)
LEMMA StaysBalanced ==
  ASSUME NEW db \in Tables, Balanced(db), NEW new, NEW u \in Users, NEW amount \in Int,
         \A v \in Users : /\ GetWalletOverview(new, v)
                               = GetWalletOverview(db, v) + (IF v = u THEN amount ELSE 0)
                          /\ Came(new, v) = Came(db, v) + (IF v = u THEN amount ELSE 0)
                          /\ Went(new, v) = Went(db, v)
  PROVE  Balanced(new)
<1> SUFFICES ASSUME NEW v \in Users
             PROVE  GetWalletOverview(new, v) = Came(new, v) - Went(new, v)
  BY DEF Balanced
<1>1. Came(db, v) \in Int /\ Went(db, v) \in Int
  BY TotalsAreInt, OverviewIsInt
<1>2. GetWalletOverview(db, v) = Came(db, v) - Went(db, v)
  BY DEF Balanced
<1> QED BY <1>1, <1>2

(* A wallet gains what was moved into it.                                   *)
LEMMA OverviewMoved ==
  ASSUME NEW db \in Tables, NEW new, NEW u \in Users, NEW a \in Int, NEW b \in Int,
         new.wallet = Move(db.wallet, u, a, b), NEW v \in Users
  PROVE  GetWalletOverview(new, v) = GetWalletOverview(db, v) + (IF v = u THEN a + b ELSE 0)
<1>1. db.wallet \in [Users -> Wallet]
  BY DEF Tables
<1>2. Move(db.wallet, u, a, b)[v].balance + Move(db.wallet, u, a, b)[v].reserved
        = db.wallet[v].balance + db.wallet[v].reserved + (IF v = u THEN a + b ELSE 0)
  BY <1>1, Moved
<1> QED BY <1>2 DEF GetWalletOverview

LEMMA MovedType ==
  ASSUME NEW db \in Tables, NEW u \in Users, NEW a \in Int, NEW b \in Int
  PROVE  Move(db.wallet, u, a, b) \in [Users -> Wallet]
<1>1. db.wallet \in [Users -> Wallet]
  BY DEF Tables
<1> QED BY <1>1, Moved

LEMMA CreditKeepsBalance ==
  ASSUME NEW db \in Tables, Balanced(db), NEW u \in Users, NEW provider \in Providers,
         NEW amount \in Int
  PROVE  CreditDeposit(db, u, provider, amount) \in Tables
         /\ Balanced(CreditDeposit(db, u, provider, amount))
<1> DEFINE row == [user |-> u, provider |-> provider, status |-> "SUCCESS", amount |-> amount]
           new == CreditDeposit(db, u, provider, amount)
<1>1. row \in DepositRows /\ row.user = u /\ row.status = "SUCCESS" /\ row.amount = amount
  BY DEF DepositRows
<1> HIDE DEF row
<1>2. /\ new.wallet = Move(db.wallet, u, amount, 0) /\ new.deposits = Append(db.deposits, row)
      /\ new.referrer = db.referrer /\ new.commissions = db.commissions /\ new.rewards = db.rewards
      /\ new.bonuses = db.bonuses /\ new.withdraws = db.withdraws /\ new.sales = db.sales
      /\ new.machines = db.machines
  BY DEF CreditDeposit, Paid, Tables, row
<1>3. db.deposits \in Seq(DepositRows) /\ Summable(db.deposits)
  BY TablesAreSummable DEF Tables
<1>4. new \in Tables
  <2>1. Move(db.wallet, u, amount, 0) \in [Users -> Wallet]
    BY 0 \in Int, MovedType
  <2>2. Append(db.deposits, row) \in Seq(DepositRows)
    BY <1>1, <1>3
  <2> HIDE DEF row
  <2> QED BY <2>1, <2>2 DEF CreditDeposit, Paid, Tables, row
<1> HIDE DEF new
<1>5. ASSUME NEW v \in Users
      PROVE  /\ GetWalletOverview(new, v) = GetWalletOverview(db, v) + (IF v = u THEN amount ELSE 0)
             /\ Came(new, v) = Came(db, v) + (IF v = u THEN amount ELSE 0)
             /\ Went(new, v) = Went(db, v)
  <2>1. GetWalletOverview(new, v) = GetWalletOverview(db, v) + (IF v = u THEN amount + 0 ELSE 0)
    BY <1>2, 0 \in Int, OverviewMoved
  <2>2. TotalPicked(new.deposits, v, "SUCCESS")
          = TotalPicked(db.deposits, v, "SUCCESS") + (IF v = u THEN amount ELSE 0)
    BY <1>1, <1>2, <1>3, TotalPickedAppended
  <2>3. PaidTo(new, v) = PaidTo(db, v) /\ Went(new, v) = Went(db, v)
    BY <1>2 DEF PaidTo, Went
  <2>4. Integral(db, v)
    BY CameIsInt
  <2>5. /\ Total(new.commissions, PaidTo(new, v)) = Total(db.commissions, PaidTo(db, v))
        /\ TotalOf(new.rewards, v) = TotalOf(db.rewards, v)
        /\ TotalOf(new.bonuses, v) = TotalOf(db.bonuses, v)
        /\ TotalOf(new.sales, v) = TotalOf(db.sales, v)
        /\ TotalOf(new.machines, v) = TotalOf(db.machines, v)
    BY <1>2, <2>3
  <2>6. Came(new, v) = Came(db, v) + (IF v = u THEN amount ELSE 0)
    BY <2>2, <2>4, <2>5 DEF Came, Integral
  <2> QED BY <2>1, <2>3, <2>6
<1>6. Balanced(new)
  BY <1>5, StaysBalanced
<1> QED BY <1>4, <1>6 DEF new

(* A deposit that was not paid counts for nothing.                          *)
LEMMA UnpaidKeepsBalance ==
  ASSUME NEW db \in Tables, Balanced(db), NEW u \in Users, NEW amount \in Int
  PROVE  UnpaidDeposit(db, u, amount) \in Tables /\ Balanced(UnpaidDeposit(db, u, amount))
<1> DEFINE row == [user |-> u, provider |-> NoProvider, status |-> "FAILED", amount |-> amount]
           new == UnpaidDeposit(db, u, amount)
<1>1. row \in DepositRows /\ row.user = u /\ row.status = "FAILED" /\ row.amount = amount
  <2>1. NoProvider \in Providers
    BY DEF Providers
  <2> QED BY <2>1 DEF DepositRows
<1> HIDE DEF row
<1>2. /\ new.wallet = db.wallet /\ new.deposits = Append(db.deposits, row)
      /\ new.referrer = db.referrer /\ new.commissions = db.commissions /\ new.rewards = db.rewards
      /\ new.bonuses = db.bonuses /\ new.withdraws = db.withdraws /\ new.sales = db.sales
      /\ new.machines = db.machines
  BY DEF UnpaidDeposit, Tables, row
<1>3. db.deposits \in Seq(DepositRows) /\ Summable(db.deposits)
  BY TablesAreSummable DEF Tables
<1>4. new \in Tables
  <2>1. Append(db.deposits, row) \in Seq(DepositRows)
    BY <1>1, <1>3
  <2> QED BY <2>1 DEF UnpaidDeposit, Tables, row
<1> HIDE DEF new
<1>5. ASSUME NEW v \in Users
      PROVE  /\ GetWalletOverview(new, v) = GetWalletOverview(db, v) + (IF v = u THEN 0 ELSE 0)
             /\ Came(new, v) = Came(db, v) + (IF v = u THEN 0 ELSE 0)
             /\ Went(new, v) = Went(db, v)
  <2>1. GetWalletOverview(new, v) = GetWalletOverview(db, v)
    BY <1>2 DEF GetWalletOverview
  <2>2. TotalPicked(new.deposits, v, "SUCCESS") = TotalPicked(db.deposits, v, "SUCCESS")
    <3>1. TotalPicked(new.deposits, v, "SUCCESS")
            = TotalPicked(db.deposits, v, "SUCCESS")
                + (IF row.user = v /\ row.status = "SUCCESS" THEN row.amount ELSE 0)
      BY <1>1, <1>2, <1>3, TotalPickedAppended
    <3> QED BY <1>1, <3>1, TotalsAreInt
  <2>3. PaidTo(new, v) = PaidTo(db, v) /\ Went(new, v) = Went(db, v)
    BY <1>2 DEF PaidTo, Went
  <2>4. Came(new, v) = Came(db, v)
    BY <1>2, <2>2, <2>3 DEF Came
  <2> QED BY <2>1, <2>3, <2>4, OverviewIsInt
<1>6. Balanced(new)
  BY <1>5, 0 \in Int, StaysBalanced
<1> QED BY <1>4, <1>6 DEF new

(* The commissions among rows that went to v                                *)
Paying(rows, v) == {i \in DOMAIN rows : Referrer[rows[i].referral] = v}

LEMMA PayingAppended ==
  ASSUME NEW rows \in Seq(CommissionRows), Summable(rows), NEW c \in CommissionRows, NEW v
  PROVE  Total(Append(rows, c), Paying(Append(rows, c), v))
           = Total(rows, Paying(rows, v)) + (IF Referrer[c.referral] = v THEN c.amount ELSE 0)
<1> DEFINE n == Len(rows) + 1
           new == Append(rows, c)
           S == Paying(rows, v)
<1>1. /\ DOMAIN new = DOMAIN rows \cup {n} /\ n \notin DOMAIN rows
      /\ new[n] = c /\ \A i \in DOMAIN rows : new[i] = rows[i]
  OBVIOUS
<1>2. S \in SUBSET DOMAIN rows /\ c.amount \in Int
  BY DEF Paying, CommissionRows
<1>3. Paying(new, v) = IF Referrer[c.referral] = v THEN S \cup {n} ELSE S
  <2> HIDE DEF n, new
  <2> QED BY <1>1 DEF Paying
<1>4. /\ Total(new, S) = Total(rows, S)
      /\ Total(new, S \cup {n}) = Total(rows, S) + c.amount
      /\ Total(rows, S) \in Int
  <2> HIDE DEF S
  <2> QED BY <1>2, TotalAppended, AmountsAreInt
<1> HIDE DEF n, new, S
<1>5. Total(new, Paying(new, v)) = Total(rows, S) + (IF Referrer[c.referral] = v THEN c.amount ELSE 0)
  BY <1>2, <1>3, <1>4
<1> QED BY <1>5 DEF new, S

LEMMA CommissionKeepsBalance ==
  ASSUME RulesAssumption, NEW db \in Tables, Balanced(db), NEW u \in Referred, NEW amount \in Int
  PROVE  PayCommission(db, u, amount) \in Tables /\ Balanced(PayCommission(db, u, amount))
<1> DEFINE row == [referral |-> u, levelDepth |-> 1, amount |-> amount]
           new == PayCommission(db, u, amount)
           up == Referrer[u]
<1>1. row \in CommissionRows /\ row.referral = u /\ row.amount = amount
  BY DEF CommissionRows
<1>2. up \in Users /\ db.referrer = Referrer
  BY DEF Tables, Referred, RulesAssumption
<1> HIDE DEF row, up
<1>3. /\ new.wallet = Move(db.wallet, up, amount, 0) /\ new.commissions = Append(db.commissions, row)
      /\ new.referrer = db.referrer /\ new.deposits = db.deposits /\ new.rewards = db.rewards
      /\ new.bonuses = db.bonuses /\ new.withdraws = db.withdraws /\ new.sales = db.sales
      /\ new.machines = db.machines
  BY <1>2 DEF PayCommission, Paid, Tables, row, up
<1>4. db.commissions \in Seq(CommissionRows) /\ Summable(db.commissions)
  BY TablesAreSummable DEF Tables
<1>5. new \in Tables
  <2>1. Move(db.wallet, up, amount, 0) \in [Users -> Wallet]
    BY <1>2, 0 \in Int, MovedType
  <2>2. Append(db.commissions, row) \in Seq(CommissionRows)
    BY <1>1, <1>4
  <2> QED BY <1>2, <2>1, <2>2 DEF PayCommission, Paid, Tables, row, up
<1> HIDE DEF new
<1>6. ASSUME NEW v \in Users
      PROVE  /\ GetWalletOverview(new, v) = GetWalletOverview(db, v) + (IF v = up THEN amount ELSE 0)
             /\ Came(new, v) = Came(db, v) + (IF v = up THEN amount ELSE 0)
             /\ Went(new, v) = Went(db, v)
  <2>1. GetWalletOverview(new, v) = GetWalletOverview(db, v) + (IF v = up THEN amount + 0 ELSE 0)
    BY <1>2, <1>3, 0 \in Int, OverviewMoved
  <2>2. Total(new.commissions, PaidTo(new, v))
          = Total(db.commissions, PaidTo(db, v)) + (IF v = up THEN amount ELSE 0)
    <3>1. PaidTo(new, v) = Paying(new.commissions, v) /\ PaidTo(db, v) = Paying(db.commissions, v)
      BY <1>2, <1>3 DEF PaidTo, Paying
    <3>2. up = Referrer[row.referral]
      BY <1>1 DEF up
    <3>3. Total(new.commissions, Paying(new.commissions, v))
            = Total(db.commissions, Paying(db.commissions, v))
                + (IF Referrer[row.referral] = v THEN row.amount ELSE 0)
      BY <1>1, <1>3, <1>4, PayingAppended
    <3> QED BY <1>1, <3>1, <3>2, <3>3
  <2>3. Went(new, v) = Went(db, v)
    BY <1>3 DEF Went
  <2>4. Integral(db, v)
    BY CameIsInt
  <2>5. /\ TotalPicked(new.deposits, v, "SUCCESS") = TotalPicked(db.deposits, v, "SUCCESS")
        /\ TotalOf(new.rewards, v) = TotalOf(db.rewards, v)
        /\ TotalOf(new.bonuses, v) = TotalOf(db.bonuses, v)
        /\ TotalOf(new.sales, v) = TotalOf(db.sales, v)
        /\ TotalOf(new.machines, v) = TotalOf(db.machines, v)
    BY <1>3
  <2>6. Came(new, v) = Came(db, v) + (IF v = up THEN amount ELSE 0)
    BY <2>2, <2>4, <2>5 DEF Came, Integral
  <2> QED BY <2>1, <2>3, <2>6
<1>7. Balanced(new)
  BY <1>2, <1>6, StaysBalanced
<1> QED BY <1>5, <1>7 DEF new

LEMMA RewardKeepsBalance ==
  ASSUME NEW db \in Tables, Balanced(db), NEW u \in Users, NEW amount \in Int
  PROVE  UserReward(db, u, amount) \in Tables /\ Balanced(UserReward(db, u, amount))
<1> DEFINE row == [user |-> u, amount |-> amount]
           new == UserReward(db, u, amount)
<1>1. row \in MoneyRows /\ row.user = u /\ row.amount = amount
  BY DEF MoneyRows
<1> HIDE DEF row
<1>2. /\ new.wallet = Move(db.wallet, u, amount, 0) /\ new.rewards = Append(db.rewards, row)
      /\ new.referrer = db.referrer /\ new.deposits = db.deposits /\ new.commissions = db.commissions
      /\ new.bonuses = db.bonuses /\ new.withdraws = db.withdraws /\ new.sales = db.sales
      /\ new.machines = db.machines
  BY DEF UserReward, Paid, Tables, row
<1>3. db.rewards \in Seq(MoneyRows) /\ Summable(db.rewards)
  BY TablesAreSummable DEF Tables
<1>4. new \in Tables
  <2>1. Move(db.wallet, u, amount, 0) \in [Users -> Wallet]
    BY 0 \in Int, MovedType
  <2>2. Append(db.rewards, row) \in Seq(MoneyRows)
    BY <1>1, <1>3
  <2> QED BY <2>1, <2>2 DEF UserReward, Paid, Tables, row
<1> HIDE DEF new
<1>5. ASSUME NEW v \in Users
      PROVE  /\ GetWalletOverview(new, v) = GetWalletOverview(db, v) + (IF v = u THEN amount ELSE 0)
             /\ Came(new, v) = Came(db, v) + (IF v = u THEN amount ELSE 0)
             /\ Went(new, v) = Went(db, v)
  <2>1. GetWalletOverview(new, v) = GetWalletOverview(db, v) + (IF v = u THEN amount + 0 ELSE 0)
    BY <1>2, 0 \in Int, OverviewMoved
  <2>2. TotalOf(new.rewards, v) = TotalOf(db.rewards, v) + (IF v = u THEN amount ELSE 0)
    BY <1>1, <1>2, <1>3, TotalOfAppended
  <2>3. PaidTo(new, v) = PaidTo(db, v) /\ Went(new, v) = Went(db, v)
    BY <1>2 DEF PaidTo, Went
  <2>4. Integral(db, v)
    BY CameIsInt
  <2>5. /\ TotalPicked(new.deposits, v, "SUCCESS") = TotalPicked(db.deposits, v, "SUCCESS")
        /\ Total(new.commissions, PaidTo(new, v)) = Total(db.commissions, PaidTo(db, v))
        /\ TotalOf(new.bonuses, v) = TotalOf(db.bonuses, v)
        /\ TotalOf(new.sales, v) = TotalOf(db.sales, v)
        /\ TotalOf(new.machines, v) = TotalOf(db.machines, v)
    BY <1>2, <2>3
  <2>6. Came(new, v) = Came(db, v) + (IF v = u THEN amount ELSE 0)
    BY <2>2, <2>4, <2>5 DEF Came, Integral
  <2> QED BY <2>1, <2>3, <2>6
<1>6. Balanced(new)
  BY <1>5, StaysBalanced
<1> QED BY <1>4, <1>6 DEF new

LEMMA TeamBonusKeepsBalance ==
  ASSUME NEW db \in Tables, Balanced(db), NEW u \in Users \cup {NoOne}, NEW amount \in Int
  PROVE  TeamBonus(db, u, amount) \in Tables /\ Balanced(TeamBonus(db, u, amount))
<1> DEFINE row == [user |-> u, amount |-> amount]
           new == TeamBonus(db, u, amount)
<1>0. CASE u = NoOne
  BY <1>0 DEF TeamBonus
<1>1. ASSUME u # NoOne
      PROVE  new \in Tables /\ Balanced(new)
  <2>0. u \in Users
    BY <1>1
  <2>1. row \in MoneyRows /\ row.user = u /\ row.amount = amount
    BY <2>0 DEF MoneyRows
  <2> HIDE DEF row
  <2>2. /\ new.wallet = Move(db.wallet, u, amount, 0) /\ new.bonuses = Append(db.bonuses, row)
        /\ new.referrer = db.referrer /\ new.deposits = db.deposits /\ new.commissions = db.commissions
        /\ new.rewards = db.rewards /\ new.withdraws = db.withdraws /\ new.sales = db.sales
        /\ new.machines = db.machines
    BY <1>1 DEF TeamBonus, Paid, Tables, row
  <2>3. db.bonuses \in Seq(MoneyRows) /\ Summable(db.bonuses)
    BY TablesAreSummable DEF Tables
  <2>4. new \in Tables
    <3>1. Move(db.wallet, u, amount, 0) \in [Users -> Wallet]
      BY <2>0, 0 \in Int, MovedType
    <3>2. Append(db.bonuses, row) \in Seq(MoneyRows)
      BY <2>1, <2>3
    <3> QED BY <1>1, <3>1, <3>2 DEF TeamBonus, Paid, Tables, row
  <2> HIDE DEF new
  <2>5. ASSUME NEW v \in Users
        PROVE  /\ GetWalletOverview(new, v)
                    = GetWalletOverview(db, v) + (IF v = u THEN amount ELSE 0)
               /\ Came(new, v) = Came(db, v) + (IF v = u THEN amount ELSE 0)
               /\ Went(new, v) = Went(db, v)
    <3>1. GetWalletOverview(new, v)
            = GetWalletOverview(db, v) + (IF v = u THEN amount + 0 ELSE 0)
      BY <2>0, <2>2, 0 \in Int, OverviewMoved
    <3>2. TotalOf(new.bonuses, v) = TotalOf(db.bonuses, v) + (IF v = u THEN amount ELSE 0)
      BY <2>1, <2>2, <2>3, TotalOfAppended
    <3>3. PaidTo(new, v) = PaidTo(db, v) /\ Went(new, v) = Went(db, v)
      BY <2>2 DEF PaidTo, Went
    <3>4. Integral(db, v)
      BY CameIsInt
    <3>5. /\ TotalPicked(new.deposits, v, "SUCCESS") = TotalPicked(db.deposits, v, "SUCCESS")
          /\ Total(new.commissions, PaidTo(new, v)) = Total(db.commissions, PaidTo(db, v))
          /\ TotalOf(new.rewards, v) = TotalOf(db.rewards, v)
          /\ TotalOf(new.sales, v) = TotalOf(db.sales, v)
          /\ TotalOf(new.machines, v) = TotalOf(db.machines, v)
      BY <2>2, <3>3
    <3>6. Came(new, v) = Came(db, v) + (IF v = u THEN amount ELSE 0)
      BY <3>2, <3>4, <3>5 DEF Came, Integral
    <3> QED BY <3>1, <3>3, <3>6
  <2> QED BY <2>0, <2>4, <2>5, StaysBalanced
<1> QED BY <1>0, <1>1 DEF new

(* A withdrawal moves money from balance to reserved; the row is not yet    *)
(* among those approved.                                                    *)
LEMMA RequestKeepsBalance ==
  ASSUME NEW db \in Tables, Balanced(db), NEW u \in Users, NEW amount \in Int
  PROVE  Request(db, u, amount) \in Tables /\ Balanced(Request(db, u, amount))
<1> DEFINE row == [user |-> u, status |-> "PENDING", amount |-> amount]
           total == WithFee(amount)
           new == Request(db, u, amount)
<1>1. row \in WithdrawRows /\ row.user = u /\ row.amount = amount /\ row.status = "PENDING"
  BY DEF WithdrawRows, Answers
<1>2. total \in Int /\ -total \in Int /\ -total + total = 0
  BY DEF Percent, WithFee
<1> HIDE DEF row, total
<1>3. /\ new.wallet = Move(db.wallet, u, -total, total) /\ new.withdraws = Append(db.withdraws, row)
      /\ new.referrer = db.referrer /\ new.deposits = db.deposits /\ new.commissions = db.commissions
      /\ new.rewards = db.rewards /\ new.bonuses = db.bonuses /\ new.sales = db.sales
      /\ new.machines = db.machines
  BY DEF Request, Tables, row, total
<1>4. db.withdraws \in Seq(WithdrawRows) /\ Summable(db.withdraws)
  BY TablesAreSummable DEF Tables
<1>5. new \in Tables
  <2>1. Move(db.wallet, u, -total, total) \in [Users -> Wallet]
    BY <1>2, MovedType
  <2>2. Append(db.withdraws, row) \in Seq(WithdrawRows)
    BY <1>1, <1>4
  <2> QED BY <2>1, <2>2 DEF Request, Tables, row, total
<1> HIDE DEF new
<1>6. ASSUME NEW v \in Users
      PROVE  /\ GetWalletOverview(new, v) = GetWalletOverview(db, v) + (IF v = u THEN 0 ELSE 0)
             /\ Came(new, v) = Came(db, v) + (IF v = u THEN 0 ELSE 0)
             /\ Went(new, v) = Went(db, v)
  <2>1. GetWalletOverview(new, v) = GetWalletOverview(db, v)
    <3>1. GetWalletOverview(new, v)
            = GetWalletOverview(db, v) + (IF v = u THEN -total + total ELSE 0)
      BY <1>2, <1>3, OverviewMoved
    <3> QED BY <1>2, <3>1, OverviewIsInt
  <2>2. PaidTo(new, v) = PaidTo(db, v)
    BY <1>3 DEF PaidTo
  <2>3. Went(new, v) = Went(db, v)
    <3>1. TotalPicked(new.withdraws, v, "APPROVED")
            = TotalPicked(db.withdraws, v, "APPROVED")
                + (IF row.user = v /\ row.status = "APPROVED" THEN row.amount ELSE 0)
      BY <1>1, <1>3, <1>4, TotalPickedAppended
    <3>2. Went(db, v) \in Int
      BY TotalsAreInt
    <3> QED BY <1>1, <3>1, <3>2 DEF Went
  <2>4. Came(new, v) = Came(db, v)
    BY <1>3, <2>2 DEF Came
  <2> QED BY <2>1, <2>3, <2>4, OverviewIsInt
<1>7. Balanced(new)
  BY <1>6, 0 \in Int, StaysBalanced
<1> QED BY <1>5, <1>7 DEF new

(* An answer gives a withdrawal another status, and nothing else.           *)
LEMMA AnsweredRows ==
  ASSUME NEW rows \in Seq(WithdrawRows), NEW i \in DOMAIN rows, NEW status \in Answers
  PROVE  /\ Answered(rows, i, status) \in Seq(WithdrawRows)
         /\ DOMAIN Answered(rows, i, status) = DOMAIN rows
         /\ Answered(rows, i, status)[i] =
               [user |-> rows[i].user, status |-> status, amount |-> rows[i].amount]
         /\ \A j \in DOMAIN rows \ {i} : Answered(rows, i, status)[j] = rows[j]
<1> DEFINE row == [user |-> rows[i].user, status |-> status, amount |-> rows[i].amount]
           new == Answered(rows, i, status)
<1>1. DOMAIN rows = 1..Len(rows) /\ Len(rows) \in Nat /\ \A j \in DOMAIN rows : rows[j] \in WithdrawRows
  OBVIOUS
<1>2. row \in WithdrawRows
  BY <1>1 DEF WithdrawRows
<1>3. new = [rows EXCEPT ![i] = row]
  BY DEF Answered
<1> HIDE DEF row, new
<1>4. new = [j \in 1..Len(rows) |-> IF j = i THEN row ELSE rows[j]]
  BY <1>1, <1>3
<1>5. new \in Seq(WithdrawRows)
  BY <1>1, <1>2, <1>4
<1> QED BY <1>1, <1>3, <1>5 DEF row, new

LEMMA AnsweredAdds ==
  ASSUME NEW rows \in Seq(WithdrawRows), NEW i \in DOMAIN rows, rows[i].status = "PENDING",
         NEW status \in Answers, NEW v
  PROVE  TotalPicked(Answered(rows, i, status), v, "APPROVED")
           = TotalPicked(rows, v, "APPROVED")
               + (IF status = "APPROVED" /\ rows[i].user = v THEN rows[i].amount ELSE 0)
<1> DEFINE new == Answered(rows, i, status)
           S == Picked(rows, v, "APPROVED")
           f == Amount(rows)
           counts == status = "APPROVED" /\ rows[i].user = v
<1>1. /\ DOMAIN new = DOMAIN rows
      /\ new[i].user = rows[i].user /\ new[i].amount = rows[i].amount /\ new[i].status = status
      /\ \A j \in DOMAIN rows \ {i} : new[j] = rows[j]
  <2>1. /\ new \in Seq(WithdrawRows)
        /\ DOMAIN new = DOMAIN rows
        /\ new[i] = [user |-> rows[i].user, status |-> status, amount |-> rows[i].amount]
        /\ \A j \in DOMAIN rows \ {i} : new[j] = rows[j]
    BY AnsweredRows
  <2> HIDE DEF new
  <2> QED BY <2>1
<1>2. Summable(rows)
  <2>1. \A r \in WithdrawRows : r.amount \in Int
    BY DEF WithdrawRows
  <2> QED BY <2>1, SequencesAreFinite
<1> HIDE DEF new
<1>3. /\ Picked(new, v, "APPROVED") = IF counts THEN S \cup {i} ELSE S
      /\ i \notin S
  BY <1>1 DEF Picked, OfUser, WithStatus
<1>4. /\ S \in SUBSET DOMAIN rows /\ S \cup {i} \in SUBSET DOMAIN rows
      /\ S \in SUBSET DOMAIN new /\ S \cup {i} \in SUBSET DOMAIN new
      /\ IsFiniteSet(DOMAIN rows) /\ IsFiniteSet(DOMAIN new)
  BY <1>1, <1>2 DEF Picked, OfUser, Summable
<1>5. Amount(new) = f
  BY <1>1 DEF Amount
<1>6. /\ \A j \in S \cup {i} : f[j] \in Int
      /\ f[i] = rows[i].amount
  BY <1>2, <1>4 DEF Summable, Amount
<1> HIDE DEF S, f, counts
<1>7. IsFiniteSet(S) /\ Total(rows, S) = SumFunctionOnSet(f, S)
  BY <1>4, TotalIsSum DEF f
<1>8. Total(new, S) = SumFunctionOnSet(f, S)
  BY <1>4, <1>5, TotalIsSum
<1>9. Total(new, S \cup {i}) = SumFunctionOnSet(f, S \cup {i})
  BY <1>4, <1>5, TotalIsSum
<1>10. SumFunctionOnSet(f, S \cup {i}) = SumFunctionOnSet(f, S) + f[i]
  BY <1>3, <1>6, <1>7, SumAdd
<1>11. Total(rows, S) \in Int
  BY <1>2, <1>4, AmountsAreInt
<1>12. TotalPicked(rows, v, "APPROVED") = Total(rows, S)
  BY DEF TotalPicked, S
<1>13. TotalPicked(new, v, "APPROVED") = IF counts THEN Total(new, S \cup {i}) ELSE Total(new, S)
  BY <1>3 DEF TotalPicked
<1>14. TotalPicked(new, v, "APPROVED")
         = TotalPicked(rows, v, "APPROVED") + (IF counts THEN rows[i].amount ELSE 0)
  BY <1>6, <1>7, <1>8, <1>9, <1>10, <1>11, <1>12, <1>13
<1> QED BY <1>14 DEF new, counts

(* An answer takes out of the wallet what the row adds to those approved.   *)
AfterAnswer(db, i, status, a, b) ==
  [db EXCEPT !.wallet = Move(db.wallet, db.withdraws[i].user, a, b),
             !.withdraws = Answered(db.withdraws, i, status)]
LEMMA AnswerKeepsBalance ==
  ASSUME NEW db \in Tables, Balanced(db), NEW i \in DOMAIN db.withdraws,
         db.withdraws[i].status = "PENDING", NEW status \in Answers,
         NEW a \in Int, NEW b \in Int,
         a + b = IF status = "APPROVED" THEN -db.withdraws[i].amount ELSE 0
  PROVE  AfterAnswer(db, i, status, a, b) \in Tables /\ Balanced(AfterAnswer(db, i, status, a, b))
<1> DEFINE u == db.withdraws[i].user
           amount == db.withdraws[i].amount
           rows == Answered(db.withdraws, i, status)
           new == [db EXCEPT !.wallet = Move(db.wallet, u, a, b), !.withdraws = rows]
<1>1. db.withdraws \in Seq(WithdrawRows) /\ db.withdraws[i] \in WithdrawRows
  BY DEF Tables
<1>2. u \in Users /\ amount \in Int
  BY <1>1 DEF WithdrawRows
<1>3. rows \in Seq(WithdrawRows)
  BY <1>1, AnsweredRows
<1>4. Move(db.wallet, u, a, b) \in [Users -> Wallet]
  BY <1>2, MovedType
<1>5. ASSUME NEW v \in Users
      PROVE  TotalPicked(rows, v, "APPROVED")
               = TotalPicked(db.withdraws, v, "APPROVED")
                   + (IF status = "APPROVED" /\ u = v THEN amount ELSE 0)
  BY <1>1, AnsweredAdds
<1> HIDE DEF rows, u, amount
<1>6. /\ new.wallet = Move(db.wallet, u, a, b) /\ new.withdraws = rows
      /\ new.referrer = db.referrer /\ new.deposits = db.deposits /\ new.commissions = db.commissions
      /\ new.rewards = db.rewards /\ new.bonuses = db.bonuses /\ new.sales = db.sales
      /\ new.machines = db.machines
  BY DEF Tables
<1>7. new \in Tables
  BY <1>3, <1>4 DEF Tables
<1> HIDE DEF new
<1>8. ASSUME NEW v \in Users
      PROVE  GetWalletOverview(new, v) = Came(new, v) - Went(new, v)
  <2>1. GetWalletOverview(new, v) = GetWalletOverview(db, v) + (IF v = u THEN a + b ELSE 0)
    BY <1>2, <1>6, OverviewMoved
  <2>2. PaidTo(new, v) = PaidTo(db, v)
    BY <1>6 DEF PaidTo
  <2>3. Came(new, v) = Came(db, v)
    BY <1>6, <2>2 DEF Came
  <2>4. Went(new, v) = Went(db, v) + (IF status = "APPROVED" /\ u = v THEN amount ELSE 0)
    BY <1>5, <1>6 DEF Went
  <2>5. GetWalletOverview(db, v) = Came(db, v) - Went(db, v)
    BY DEF Balanced
  <2>6. Came(db, v) \in Int /\ Went(db, v) \in Int
    BY OverviewIsInt, TotalsAreInt
  <2>7. a + b = IF status = "APPROVED" THEN -amount ELSE 0
    BY DEF amount
  <2> QED BY <1>2, <2>1, <2>3, <2>4, <2>5, <2>6, <2>7
<1>9. Balanced(new)
  BY <1>8 DEF Balanced
<1> QED BY <1>7, <1>9 DEF new, u, rows, AfterAnswer

LEMMA ApproveKeepsBalance ==
  ASSUME NEW db \in Tables, Balanced(db), NEW i \in DOMAIN db.withdraws,
         db.withdraws[i].status = "PENDING"
  PROVE  Approve(db, i) \in Tables /\ Balanced(Approve(db, i))
<1> DEFINE amount == db.withdraws[i].amount
<1>1. db.withdraws[i] \in WithdrawRows
  BY DEF Tables
<1>2. amount \in Int /\ -amount \in Int /\ 0 \in Int /\ 0 + (-amount) = -amount
  BY <1>1 DEF WithdrawRows
<1>3. "APPROVED" \in Answers
  BY DEF Answers
<1>4. Approve(db, i) = AfterAnswer(db, i, "APPROVED", 0, -amount)
  BY DEF Approve, AfterAnswer, Tables
<1> QED BY <1>2, <1>3, <1>4, AnswerKeepsBalance

LEMMA RejectKeepsBalance ==
  ASSUME NEW db \in Tables, Balanced(db), NEW i \in DOMAIN db.withdraws,
         db.withdraws[i].status = "PENDING"
  PROVE  Reject(db, i) \in Tables /\ Balanced(Reject(db, i))
<1> DEFINE total == WithFee(db.withdraws[i].amount)
<1>1. db.withdraws[i] \in WithdrawRows
  BY DEF Tables
<1>2. total \in Int /\ -total \in Int /\ total + (-total) = 0
  BY <1>1 DEF WithdrawRows, WithFee, Percent
<1>3. "SUSPENDED" \in Answers /\ "SUSPENDED" # "APPROVED"
  BY DEF Answers
<1>4. Reject(db, i) = AfterAnswer(db, i, "SUSPENDED", total, -total)
  BY DEF Reject, AfterAnswer, Tables
<1> HIDE DEF total
<1> QED BY <1>2, <1>3, <1>4, AnswerKeepsBalance

(* The job moves no money.                                                  *)
LEMMA AutoFlagKeepsBalance ==
  ASSUME NEW db \in Tables, Balanced(db), NEW i \in DOMAIN db.withdraws,
         db.withdraws[i].status = "PENDING"
  PROVE  AutoFlag(db, i) \in Tables /\ Balanced(AutoFlag(db, i))
<1> DEFINE u == db.withdraws[i].user
<1>1. db.withdraws \in Seq(WithdrawRows) /\ db.withdraws[i] \in WithdrawRows
      /\ db.wallet \in [Users -> Wallet]
  BY DEF Tables
<1>2. u \in Users
  BY <1>1 DEF WithdrawRows
<1>3. Move(db.wallet, u, 0, 0) = db.wallet
  BY <1>1, <1>2 DEF Move, Wallet
<1>4. "SUSPENDED" \in Answers /\ "SUSPENDED" # "APPROVED" /\ 0 \in Int /\ 0 + 0 = 0
  BY DEF Answers
<1>5. AutoFlag(db, i) = AfterAnswer(db, i, "SUSPENDED", 0, 0)
  BY <1>3 DEF AutoFlag, AfterAnswer, Tables
<1> QED BY <1>4, <1>5, AnswerKeepsBalance

LEMMA TrialSpendType ==
  ASSUME NEW fund \in Fund, NEW price \in Int
  PROVE  TrialSpend(fund, price) \in Int
BY DEF TrialSpend, Fund, TRIAL_AMOUNT

(* What the trial fund spends comes into the buyer's wallet as reserved; a  *)
(* seller who buys from himself gets the price and keeps the machine.       *)
LEMMA BuyKeepsBalance ==
  ASSUME NEW db \in Tables, Balanced(db), NEW u \in Users, NEW seller \in Users, NEW price \in Int
  PROVE  BuyProduct(db, u, seller, price) \in Tables /\ Balanced(BuyProduct(db, u, seller, price))
<1> DEFINE fund == db.trial[u]
           spend == TrialSpend(fund, price)
           sale == [user |-> seller, amount |-> price]
           machine == [user |-> u, status |-> "ACTIVE", walletSpend |-> price - spend, amount |-> spend]
           bought == Move(db.wallet, u, spend - price, price)
           paid == Move(bought, seller, price, 0)
           trial == [db.trial EXCEPT ![u] = [status |-> fund.status, used |-> fund.used + spend]]
           new == BuyProduct(db, u, seller, price)
<1>1. /\ db.wallet \in [Users -> Wallet] /\ db.trial \in [Users -> Fund]
      /\ db.sales \in Seq(MoneyRows) /\ db.machines \in Seq(MachineRows)
      /\ Summable(db.sales) /\ Summable(db.machines)
  BY TablesAreSummable DEF Tables
<1>2. fund \in Fund /\ spend \in Int
  BY <1>1, TrialSpendType
<1> HIDE DEF spend
<1>3. trial \in [Users -> Fund]
  BY <1>1, <1>2 DEF Fund
<1>4. /\ sale \in MoneyRows /\ sale.user = seller /\ sale.amount = price
      /\ machine \in MachineRows /\ machine.user = u /\ machine.amount = spend
  BY <1>2 DEF MoneyRows, MachineRows
<1>5. /\ bought \in [Users -> Wallet]
      /\ \A v \in Users : bought[v].balance + bought[v].reserved
             = db.wallet[v].balance + db.wallet[v].reserved + (IF v = u THEN spend - price + price ELSE 0)
  <2>1. spend - price \in Int
    BY <1>2
  <2> QED BY <1>1, <2>1, Moved
<1> HIDE DEF bought
<1>6. /\ paid \in [Users -> Wallet]
      /\ \A v \in Users : paid[v].balance + paid[v].reserved
             = bought[v].balance + bought[v].reserved + (IF v = seller THEN price + 0 ELSE 0)
  BY <1>5, 0 \in Int, Moved
<1> HIDE DEF paid, sale, machine, fund, trial
<1>7. /\ new.wallet = paid /\ new.trial = trial
      /\ new.sales = Append(db.sales, sale) /\ new.machines = Append(db.machines, machine)
      /\ new.referrer = db.referrer /\ new.deposits = db.deposits /\ new.commissions = db.commissions
      /\ new.rewards = db.rewards /\ new.bonuses = db.bonuses /\ new.withdraws = db.withdraws
  BY DEF BuyProduct, Tables, fund, spend, sale, machine, bought, paid, trial
<1>8. new \in Tables
  <2>1. Append(db.sales, sale) \in Seq(MoneyRows) /\ Append(db.machines, machine) \in Seq(MachineRows)
    BY <1>1, <1>4
  <2>2. new = [db EXCEPT !.wallet = paid, !.trial = trial, !.sales = Append(db.sales, sale),
                         !.machines = Append(db.machines, machine)]
    BY DEF BuyProduct, Tables, fund, spend, sale, machine, bought, paid, trial
  <2> HIDE DEF new
  <2> QED BY <1>3, <1>6, <2>1, <2>2 DEF Tables
<1> HIDE DEF new
<1>9. ASSUME NEW v \in Users
      PROVE  GetWalletOverview(new, v) = Came(new, v) - Went(new, v)
  <2> DEFINE own == IF v = u THEN spend ELSE 0
             sold == IF v = seller THEN price ELSE 0
  <2>1. GetWalletOverview(new, v) = GetWalletOverview(db, v) + own + sold
    <3>1. db.wallet[v] \in Wallet /\ bought[v] \in Wallet /\ paid[v] \in Wallet
      BY <1>1, <1>5, <1>6
    <3> QED BY <1>2, <1>5, <1>6, <1>7, <3>1 DEF GetWalletOverview, Wallet
  <2>2. TotalOf(new.sales, v) = TotalOf(db.sales, v) + sold
    <3>1. TotalOf(Append(db.sales, sale), v)
            = TotalOf(db.sales, v) + (IF sale.user = v THEN sale.amount ELSE 0)
      BY <1>1, <1>4, TotalOfAppended
    <3> QED BY <1>4, <1>7, <3>1
  <2>3. TotalOf(new.machines, v) = TotalOf(db.machines, v) + own
    <3>1. TotalOf(Append(db.machines, machine), v)
            = TotalOf(db.machines, v) + (IF machine.user = v THEN machine.amount ELSE 0)
      BY <1>1, <1>2, <1>4, TotalOfAppended
    <3> QED BY <1>4, <1>7, <3>1
  <2>4. PaidTo(new, v) = PaidTo(db, v) /\ Went(new, v) = Went(db, v)
    BY <1>7 DEF PaidTo, Went
  <2>5. Integral(db, v) /\ Went(db, v) \in Int
    BY CameIsInt, TotalsAreInt
  <2>6. /\ TotalPicked(new.deposits, v, "SUCCESS") = TotalPicked(db.deposits, v, "SUCCESS")
        /\ Total(new.commissions, PaidTo(new, v)) = Total(db.commissions, PaidTo(db, v))
        /\ TotalOf(new.rewards, v) = TotalOf(db.rewards, v)
        /\ TotalOf(new.bonuses, v) = TotalOf(db.bonuses, v)
    BY <1>7, <2>4
  <2>7. own \in Int /\ sold \in Int
    BY <1>2
  <2> HIDE DEF own, sold
  <2>8. Came(new, v) = Came(db, v) + own + sold
    BY <2>2, <2>3, <2>5, <2>6, <2>7 DEF Came, Integral
  <2>9. GetWalletOverview(db, v) = Came(db, v) - Went(db, v) /\ Came(db, v) \in Int
    BY OverviewIsInt DEF Balanced
  <2> QED BY <2>1, <2>4, <2>5, <2>7, <2>8, <2>9
<1>10. Balanced(new)
  BY <1>9 DEF Balanced
<1> QED BY <1>8, <1>10 DEF new

LEMMA EndedRows ==
  ASSUME NEW machines \in Seq(MachineRows), NEW ms
  PROVE  /\ Ended(machines, ms) \in Seq(MachineRows)
         /\ DOMAIN Ended(machines, ms) = DOMAIN machines
         /\ \A i \in DOMAIN machines : /\ Ended(machines, ms)[i].user = machines[i].user
                                       /\ Ended(machines, ms)[i].amount = machines[i].amount
<1> DEFINE new == Ended(machines, ms)
           Refunded(i) == [user |-> machines[i].user, status |-> "REFUNDED",
                      walletSpend |-> machines[i].walletSpend, amount |-> machines[i].amount]
<1>1. /\ DOMAIN machines = 1..Len(machines) /\ Len(machines) \in Nat
      /\ \A i \in DOMAIN machines : machines[i] \in MachineRows
  OBVIOUS
<1>2. \A i \in DOMAIN machines : Refunded(i) \in MachineRows
  BY <1>1 DEF MachineRows
<1>3. /\ DOMAIN new = DOMAIN machines
      /\ \A i \in DOMAIN machines : new[i] = IF i \in ms THEN Refunded(i) ELSE machines[i]
  BY DEF Ended
<1>4. \A i \in DOMAIN machines : /\ new[i] \in MachineRows
                                 /\ new[i].user = machines[i].user
                                 /\ new[i].amount = machines[i].amount
  <2> HIDE DEF new
  <2> QED BY <1>1, <1>2, <1>3
<1>5. new = [i \in 1..Len(machines) |-> new[i]]
  BY <1>1 DEF Ended
<1> HIDE DEF new, Refunded
<1>6. new \in Seq(MachineRows)
  BY <1>1, <1>4, <1>5
<1> QED BY <1>3, <1>4, <1>6 DEF new

(* A refund moves money from reserved to balance, and changes what the fund *)
(* has still to spend, not what it has ever spent.                          *)
LEMMA RefundKeepsBalance ==
  ASSUME NEW db \in Tables, Balanced(db), NEW u \in Users, NEW ms \in SUBSET DOMAIN db.machines,
         NEW fund \in Fund
  PROVE  Refund(db, u, ms, fund) \in Tables /\ Balanced(Refund(db, u, ms, fund))
<1> DEFINE f == [i \in ms |-> db.machines[i].walletSpend]
           spent == SumFunctionOnSet(f, ms)
           rows == Ended(db.machines, ms)
           trial == [db.trial EXCEPT ![u] = fund]
           new == Refund(db, u, ms, fund)
<1>1. db.machines \in Seq(MachineRows) /\ db.trial \in [Users -> Fund] /\ Summable(db.machines)
  BY TablesAreSummable DEF Tables
<1>2. IsFiniteSet(ms)
  BY <1>1, FS_Subset DEF Summable
<1>3. \A i \in ms : f[i] \in Int
  <2>1. \A i \in DOMAIN db.machines : db.machines[i] \in MachineRows
    BY <1>1
  <2> QED BY <2>1 DEF MachineRows
<1> HIDE DEF f
<1>4. spent \in Int
  BY <1>2, <1>3, SumInt
<1> HIDE DEF spent
<1>5. -spent \in Int /\ spent + (-spent) = 0
  BY <1>4
<1>6. trial \in [Users -> Fund]
  BY <1>1
<1>7. rows \in Seq(MachineRows)
  BY <1>1, EndedRows
<1>8. \A v : TotalOf(rows, v) = TotalOf(db.machines, v)
  <2>1. /\ DOMAIN rows = DOMAIN db.machines
        /\ \A i \in DOMAIN db.machines : /\ rows[i].user = db.machines[i].user
                                         /\ rows[i].amount = db.machines[i].amount
    BY <1>1, EndedRows
  <2> HIDE DEF rows
  <2> QED BY <2>1, TotalOfKept
<1> HIDE DEF rows, trial
<1>9. new = [db EXCEPT !.wallet = Move(db.wallet, u, spent, -spent), !.machines = rows,
                       !.trial = trial]
  BY DEF Refund, Tables, f, spent, rows, trial
<1> HIDE DEF new
<1>10. /\ new.wallet = Move(db.wallet, u, spent, -spent) /\ new.machines = rows
      /\ new.referrer = db.referrer /\ new.deposits = db.deposits /\ new.commissions = db.commissions
      /\ new.rewards = db.rewards /\ new.bonuses = db.bonuses /\ new.withdraws = db.withdraws
      /\ new.sales = db.sales
  BY <1>9 DEF Tables
<1>11. new \in Tables
  <2>1. Move(db.wallet, u, spent, -spent) \in [Users -> Wallet]
    BY <1>4, <1>5, MovedType
  <2> QED BY <1>6, <1>7, <1>9, <2>1 DEF Tables
<1>12. ASSUME NEW v \in Users
       PROVE  /\ GetWalletOverview(new, v) = GetWalletOverview(db, v) + (IF v = u THEN 0 ELSE 0)
              /\ Came(new, v) = Came(db, v) + (IF v = u THEN 0 ELSE 0)
              /\ Went(new, v) = Went(db, v)
  <2>1. GetWalletOverview(new, v)
          = GetWalletOverview(db, v) + (IF v = u THEN spent + (-spent) ELSE 0)
    BY <1>4, <1>5, <1>10, OverviewMoved
  <2>2. PaidTo(new, v) = PaidTo(db, v) /\ Went(new, v) = Went(db, v)
    BY <1>10 DEF PaidTo, Went
  <2>3. Came(new, v) = Came(db, v)
    BY <1>8, <1>10, <2>2 DEF Came
  <2> QED BY <1>5, <2>1, <2>2, <2>3, OverviewIsInt
<1>13. Balanced(new)
  BY <1>12, 0 \in Int, StaysBalanced
<1> QED BY <1>11, <1>13 DEF new

LEMMA RecoverKeepsBalance ==
  ASSUME NEW db \in Tables, Balanced(db), NEW u \in Users, NEW ms \in SUBSET DOMAIN db.machines
  PROVE  Recover(db, u, ms) \in Tables /\ Balanced(Recover(db, u, ms))
<1>1. Recovered \in Fund
  BY DEF Recovered, Fund
<1> QED BY <1>1, RefundKeepsBalance DEF Recover

LEMMA ExpiryKeepsBalance ==
  ASSUME NEW db \in Tables, Balanced(db), NEW u \in Users, NEW ms \in SUBSET DOMAIN db.machines
  PROVE  HandleExpired(db, u, ms) \in Tables /\ Balanced(HandleExpired(db, u, ms))
<1> DEFINE fund == db.trial[u]
           returned == Total(db.machines, ms)
           left == IF returned = 0 THEN fund
                   ELSE IF fund.used - returned <= 0 THEN Recovered
                   ELSE [status |-> fund.status, used |-> fund.used - returned]
<1>1. returned \in Int
  BY TablesAreSummable, AmountsAreInt
<1> HIDE DEF returned
<1>2. fund \in Fund
  BY DEF Tables
<1>3. left \in Fund
  BY <1>1, <1>2 DEF Fund, Recovered
<1>4. HandleExpired(db, u, ms) = Refund(db, u, ms, left)
  BY DEF HandleExpired, returned
<1> HIDE DEF left
<1> QED BY <1>3, <1>4, RefundKeepsBalance

LEMMA PercentType == \A rate, amount \in Int : Percent(rate, amount) \in Int
BY DEF Percent

LEMMA DepositKeepsBalance ==
  ASSUME RulesAssumption, NEW db \in Tables, Balanced(db), NEW u \in Users, NEW amount \in Nat
  PROVE  Deposit(db, u, amount) \in Tables /\ Balanced(Deposit(db, u, amount))
<1> DEFINE credited == CreditDeposit(db, u, NoProvider, amount)
           bonus == CreditDeposit(credited, u, "BONUS", Percent(10, amount))
           Rewarded(new) == new \in {credited, bonus}
<1>1. NoProvider \in Providers /\ "BONUS" \in Providers /\ amount \in Int
      /\ Percent(10, amount) \in Int /\ Percent(3, amount) \in Int
  BY PercentType DEF Providers
<1>2. credited \in Tables /\ Balanced(credited)
  BY <1>1, CreditKeepsBalance
<1> HIDE DEF credited
<1>3. bonus \in Tables /\ Balanced(bonus)
  BY <1>1, <1>2, CreditKeepsBalance
<1> HIDE DEF bonus
<1>4. ASSUME NEW new \in {credited, bonus}, u \in Referred
      PROVE  PayCommission(new, u, Percent(3, amount)) \in Tables
             /\ Balanced(PayCommission(new, u, Percent(3, amount)))
  <2>1. new \in Tables /\ Balanced(new)
    BY <1>2, <1>3, <1>4
  <2> QED BY <1>1, <1>4, <2>1, CommissionKeepsBalance
<1>5. db.referrer[u] # NoOne => u \in Referred
  BY DEF Tables, Referred
<1> DEFINE mine == {db.deposits[i].provider :
                      i \in OfUser(db.deposits, u) \cap WithStatus(db.deposits, "SUCCESS")}
           again == NoProvider \in mine
           paidBefore == mine \ {"BONUS"} # {}
           rewarded == IF again THEN credited ELSE bonus
<1>6. Deposit(db, u, amount)
        = IF db.referrer[u] = NoOne \/ paidBefore THEN rewarded
          ELSE PayCommission(rewarded, u, Percent(3, amount))
  BY DEF Deposit, credited, bonus
<1>7. rewarded \in {credited, bonus}
  OBVIOUS
<1> HIDE DEF again, paidBefore, rewarded
<1> QED BY <1>2, <1>3, <1>4, <1>5, <1>6, <1>7

LEMMA AboveType ==
  ASSUME RulesAssumption, NEW db \in Tables, NEW u \in Users \cup {NoOne}
  PROVE  Above(db, u) \in Users \cup {NoOne}
<1>1. db.referrer = Referrer /\ Referrer \in [Users -> Users \cup {NoOne}]
  BY DEF Tables, RulesAssumption
<1> QED BY <1>1 DEF Above

LEMMA DailyRewardKeepsBalance ==
  ASSUME RulesAssumption, NEW db \in Tables, Balanced(db), NEW u \in Users, NEW amount \in Nat
  PROVE  DailyReward(db, u, amount) \in Tables /\ Balanced(DailyReward(db, u, amount))
<1> DEFINE first == Above(db, u)
           second == Above(db, first)
           third == Above(db, second)
           reward == UserReward(db, u, amount)
           one == TeamBonus(reward, first, Percent(18, amount))
           two == TeamBonus(one, second, Percent(9, amount))
           three == TeamBonus(two, third, Percent(5, amount))
<1>1. /\ amount \in Int /\ Percent(18, amount) \in Int
      /\ Percent(9, amount) \in Int /\ Percent(5, amount) \in Int
  <2>1. amount \in Int /\ 18 \in Int /\ 9 \in Int /\ 5 \in Int
    OBVIOUS
  <2> QED BY <2>1, PercentType
<1>2. first \in Users \cup {NoOne}
  BY AboveType
<1> HIDE DEF first
<1>3. second \in Users \cup {NoOne}
  BY <1>2, AboveType
<1> HIDE DEF second
<1>4. third \in Users \cup {NoOne}
  BY <1>3, AboveType
<1> HIDE DEF third
<1>5. reward \in Tables /\ Balanced(reward)
  BY <1>1, RewardKeepsBalance
<1> HIDE DEF reward
<1>6. one \in Tables /\ Balanced(one)
  BY <1>1, <1>2, <1>5, TeamBonusKeepsBalance
<1> HIDE DEF one
<1>7. two \in Tables /\ Balanced(two)
  BY <1>1, <1>3, <1>6, TeamBonusKeepsBalance
<1> HIDE DEF two
<1>8. three \in Tables /\ Balanced(three)
  BY <1>1, <1>4, <1>7, TeamBonusKeepsBalance
<1>9. DailyReward(db, u, amount) = three
  BY DEF DailyReward, first, second, third, reward, one, two
<1> HIDE DEF three
<1> QED BY <1>8, <1>9

LEMMA EmptyIsBalanced ==
  ASSUME RulesAssumption
  PROVE  Empty(Referrer) \in Tables /\ Balanced(Empty(Referrer))
<1> DEFINE db == Empty(Referrer)
<1>1. DOMAIN Referrer = Users
  BY DEF RulesAssumption
<1>2. db.wallet = [u \in Users |-> [balance |-> 0, reserved |-> 0]]
  BY <1>1 DEF Empty
<1>3. /\ db.deposits = <<>> /\ db.commissions = <<>> /\ db.rewards = <<>> /\ db.bonuses = <<>>
      /\ db.withdraws = <<>> /\ db.sales = <<>> /\ db.machines = <<>>
  BY DEF Empty
<1>4. db \in Tables
  BY <1>1 DEF Empty, Tables, Wallet, Fund
<1> HIDE DEF db
<1>5. ASSUME NEW u \in Users
      PROVE  GetWalletOverview(db, u) = Came(db, u) - Went(db, u)
  <2>1. Total(<<>>, {}) = 0
    BY SumEmpty DEF Total
  <2>2. OfUser(<<>>, u) = {} /\ PaidTo(db, u) = {}
    BY <1>3 DEF OfUser, PaidTo
  <2>3. \A status : Picked(<<>>, u, status) = {}
    BY <2>2 DEF Picked
  <2>4. TotalOf(<<>>, u) = 0 /\ \A status : TotalPicked(<<>>, u, status) = 0
    BY <2>1, <2>2, <2>3 DEF TotalOf, TotalPicked
  <2>5. Came(db, u) = 0 /\ Went(db, u) = 0
    BY <1>3, <2>1, <2>2, <2>4 DEF Came, Went
  <2>6. GetWalletOverview(db, u) = 0
    BY <1>2 DEF GetWalletOverview
  <2> QED BY <2>5, <2>6
<1> QED BY <1>4, <1>5 DEF Balanced, db

-----------------------------------------------------------------------------
(* The reports of balanced books                                            *)
LEMMA CommissionsByDepth ==
  ASSUME NEW db \in Tables
  PROVE  /\ OfDepth(db, {1}) = DOMAIN db.commissions
         /\ OfDepth(db, {2, 3}) = {}
<1>1. \A i \in DOMAIN db.commissions : db.commissions[i].levelDepth = 1
  <2>1. db.commissions \in Seq(CommissionRows)
    BY DEF Tables
  <2>2. \A i \in DOMAIN db.commissions : db.commissions[i] \in CommissionRows
    BY <2>1
  <2> QED BY <2>2 DEF CommissionRows
<1> QED BY <1>1 DEF OfDepth

LEMMA OwnCommissions ==
  ASSUME NEW db \in Tables, NEW u
  PROVE  /\ Commissions(db, u, {1}) = Total(db.commissions, PaidTo(db, u))
         /\ Commissions(db, u, {2, 3}) = 0
<1>1. PaidTo(db, u) \cap OfDepth(db, {1}) = PaidTo(db, u)
  BY CommissionsByDepth DEF PaidTo
<1>2. PaidTo(db, u) \cap OfDepth(db, {2, 3}) = {}
  BY CommissionsByDepth
<1>3. Total(db.commissions, {}) = 0
  BY SumEmpty DEF Total
<1> QED BY <1>1, <1>2, <1>3 DEF Commissions

LEMMA WalletsOfBalanced ==
  ASSUME NEW db \in Tables, Balanced(db)
  PROVE  WalletsAddUp(db)
<1>1. DOMAIN db.wallet = Users
  BY DEF Tables
<1> SUFFICES ASSUME NEW u \in Users
             PROVE  LET own == GetUserWallet(db, u)
                        stats == GetUserDashboardStats(db, u)
                        AllOf(rows) == Total(rows, OfUser(rows, u))
                    IN GetWalletOverview(db, u)
                         = stats.currentDeposit + own.referralEarnings + own.teamEarnings
                           + own.investmentEarnings
                           + AllOf(db.bonuses) + AllOf(db.sales) + AllOf(db.machines)
                           - stats.totalWithdraw
  BY <1>1 DEF WalletsAddUp
<1> DEFINE commissions == Total(db.commissions, PaidTo(db, u))
<1>2. /\ GetUserDashboardStats(db, u).currentDeposit = TotalPicked(db.deposits, u, "SUCCESS")
      /\ GetUserDashboardStats(db, u).totalWithdraw = Went(db, u)
  BY DEF GetUserDashboardStats, Went, TotalPicked, Picked
<1>3. /\ GetUserWallet(db, u).referralEarnings = commissions
      /\ GetUserWallet(db, u).teamEarnings = 0
      /\ GetUserWallet(db, u).investmentEarnings = TotalOf(db.rewards, u)
  BY OwnCommissions DEF GetUserWallet, TotalOf
<1>4. Integral(db, u) /\ Went(db, u) \in Int
  BY CameIsInt, TotalsAreInt
<1>5. GetWalletOverview(db, u) = Came(db, u) - Went(db, u)
  BY DEF Balanced
<1>6. /\ Total(db.bonuses, OfUser(db.bonuses, u)) = TotalOf(db.bonuses, u)
      /\ Total(db.sales, OfUser(db.sales, u)) = TotalOf(db.sales, u)
      /\ Total(db.machines, OfUser(db.machines, u)) = TotalOf(db.machines, u)
  BY DEF TotalOf
<1> QED BY <1>2, <1>3, <1>4, <1>5, <1>6 DEF Came, Integral

(* The rows of the users together are all rows.                             *)
LEMMA TotalOfUsers ==
  ASSUME RulesAssumption, NEW rows, Summable(rows), \A i \in DOMAIN rows : rows[i].user \in Users
  PROVE  SumOver([u \in Users |-> Total(rows, OfUser(rows, u))]) = Total(rows, DOMAIN rows)
<1> DEFINE g == [i \in DOMAIN rows |-> rows[i].user]
           D == DOMAIN rows
<1>1. \A i \in D : g[i] \in Users
  OBVIOUS
<1>2. \A u \in Users : {i \in D : g[i] = u} = OfUser(rows, u)
  BY DEF OfUser
<1>3. IsFiniteSet(Users) /\ D \in SUBSET DOMAIN rows
  BY DEF RulesAssumption
<1> HIDE DEF g, D
<1>4. SumOver([u \in Users |-> Total(rows, {i \in D : g[i] = u})]) = Total(rows, D)
  BY <1>1, <1>3, TotalOfParts
<1>5. [u \in Users |-> Total(rows, {i \in D : g[i] = u})] = [u \in Users |-> Total(rows, OfUser(rows, u))]
  BY <1>2
<1> QED BY <1>4, <1>5 DEF D

(* A commission goes to the one who referred whoever it was paid for.       *)
LEMMA CommissionsOfReferrers ==
  ASSUME RulesAssumption, NEW db \in Tables
  PROVE  SumOver([u \in Users |-> Total(db.commissions, PaidTo(db, u))])
           = Total(db.commissions, DOMAIN db.commissions)
<1> DEFINE rows == db.commissions
           D == DOMAIN rows
           g == [i \in D |-> db.referrer[rows[i].referral]]
<1>1. \A i \in D : g[i] \in Users
  <2>1. rows \in Seq(CommissionRows) /\ db.referrer = Referrer
    BY DEF Tables
  <2>2. \A i \in D : rows[i] \in CommissionRows
    BY <2>1
  <2> QED BY <2>1, <2>2 DEF CommissionRows, Referred, RulesAssumption
<1>2. \A u \in Users : {i \in D : g[i] = u} = PaidTo(db, u)
  BY DEF PaidTo
<1>3. IsFiniteSet(Users) /\ D \in SUBSET DOMAIN rows /\ Summable(rows)
  BY TablesAreSummable DEF RulesAssumption
<1> HIDE DEF g, D, rows
<1>4. SumOver([u \in Users |-> Total(rows, {i \in D : g[i] = u})]) = Total(rows, D)
  BY <1>1, <1>3, TotalOfParts
<1>5. [u \in Users |-> Total(rows, {i \in D : g[i] = u})] = [u \in Users |-> Total(rows, PaidTo(db, u))]
  BY <1>2
<1> QED BY <1>4, <1>5 DEF D, rows

(* What those referred by u have earned u is what u was paid.               *)
LEMMA HistoryAddsUp ==
  ASSUME RulesAssumption, NEW db \in Tables, NEW u \in Users
  PROVE  SumOver(GetReferralHistory(db, u)) = Total(db.commissions, PaidTo(db, u))
<1> DEFINE rows == db.commissions
           D == PaidTo(db, u)
           M == {n \in DOMAIN db.referrer : db.referrer[n] = u}
           g == [i \in D |-> rows[i].referral]
<1>0. db.referrer = Referrer /\ DOMAIN Referrer = Users /\ rows \in Seq(CommissionRows)
  BY DEF Tables, RulesAssumption
<1>1. \A i \in D : g[i] \in M
  <2>1. \A i \in DOMAIN rows : rows[i] \in CommissionRows
    BY <1>0
  <2> QED BY <1>0, <2>1 DEF CommissionRows, Referred, PaidTo
<1>2. \A m \in M : {i \in D : g[i] = m} = PaidFor(db, m)
  BY DEF PaidTo, PaidFor
<1>3. IsFiniteSet(M) /\ D \in SUBSET DOMAIN rows /\ Summable(rows)
  <2>1. M \in SUBSET Users /\ D \in SUBSET DOMAIN rows /\ IsFiniteSet(Users)
    BY <1>0 DEF PaidTo, RulesAssumption
  <2> HIDE DEF M, D
  <2> QED BY <2>1, FS_Subset, TablesAreSummable
<1>4. GetReferralHistory(db, u) = [m \in M |-> Total(rows, PaidFor(db, m))]
  BY DEF GetReferralHistory
<1> HIDE DEF g, D, M, rows
<1>5. SumOver([m \in M |-> Total(rows, {i \in D : g[i] = m})]) = Total(rows, D)
  BY <1>1, <1>3, TotalOfParts
<1>6. [m \in M |-> Total(rows, {i \in D : g[i] = m})] = [m \in M |-> Total(rows, PaidFor(db, m))]
  BY <1>2
<1> QED BY <1>4, <1>5, <1>6 DEF D, rows

LEMMA UsersOfRows ==
  ASSUME NEW db \in Tables
  PROVE  /\ \A i \in DOMAIN db.deposits : db.deposits[i].user \in Users
         /\ \A i \in DOMAIN db.rewards : db.rewards[i].user \in Users
<1>1. db.deposits \in Seq(DepositRows) /\ db.rewards \in Seq(MoneyRows)
  BY DEF Tables
<1>2. /\ \A i \in DOMAIN db.deposits : db.deposits[i] \in DepositRows
      /\ \A i \in DOMAIN db.rewards : db.rewards[i] \in MoneyRows
  BY <1>1
<1> QED BY <1>2 DEF DepositRows, MoneyRows

LEMMA SummaryAddsUp ==
  ASSUME RulesAssumption, NEW db \in Tables,
         NEW field \in {"balance", "reservedAmount", "referralEarnings", "teamEarnings",
                        "investmentEarnings"}
  PROVE  GetAdminWalletSummary(db)[field]
           = SumOver([u \in Users |-> GetUserWallet(db, u)[field]])
<1>0. DOMAIN db.wallet = Users
  BY DEF Tables
<1>1. CASE field = "balance"
  <2>1. [u \in Users |-> GetUserWallet(db, u)[field]] = [u \in DOMAIN db.wallet |-> db.wallet[u].balance]
    BY <1>0, <1>1 DEF GetUserWallet
  <2> QED BY <1>1, <2>1 DEF GetAdminWalletSummary
<1>2. CASE field = "reservedAmount"
  <2>1. [u \in Users |-> GetUserWallet(db, u)[field]] = [u \in DOMAIN db.wallet |-> db.wallet[u].reserved]
    BY <1>0, <1>2 DEF GetUserWallet
  <2> QED BY <1>2, <2>1 DEF GetAdminWalletSummary
<1>3. CASE field = "referralEarnings"
  <2>1. [u \in Users |-> GetUserWallet(db, u)[field]] = [u \in Users |-> Total(db.commissions, PaidTo(db, u))]
    BY <1>3, OwnCommissions DEF GetUserWallet
  <2>2. GetAdminWalletSummary(db)[field] = Total(db.commissions, DOMAIN db.commissions)
    BY <1>3, CommissionsByDepth DEF GetAdminWalletSummary
  <2> QED BY <2>1, <2>2, CommissionsOfReferrers
<1>4. CASE field = "teamEarnings"
  <2> DEFINE f == [u \in Users |-> GetUserWallet(db, u)[field]]
  <2>1. DOMAIN f = Users /\ \A u \in Users : f[u] = 0
    BY <1>4, OwnCommissions DEF GetUserWallet
  <2>2. GetAdminWalletSummary(db)[field] = Total(db.commissions, {})
    BY <1>4, CommissionsByDepth DEF GetAdminWalletSummary
  <2>3. Total(db.commissions, {}) = 0
    BY SumEmpty DEF Total
  <2> HIDE DEF f
  <2>4. SumOver(f) = 0
    BY <2>1, SumZeros DEF SumOver, RulesAssumption
  <2> QED BY <2>2, <2>3, <2>4 DEF f
<1>5. CASE field = "investmentEarnings"
  <2>1. [u \in Users |-> GetUserWallet(db, u)[field]] = [u \in Users |-> Total(db.rewards, OfUser(db.rewards, u))]
    BY <1>5 DEF GetUserWallet
  <2>2. GetAdminWalletSummary(db)[field] = Total(db.rewards, DOMAIN db.rewards)
    BY <1>5 DEF GetAdminWalletSummary
  <2> QED BY <2>1, <2>2, TotalOfUsers, UsersOfRows, TablesAreSummable
<1> QED BY <1>1, <1>2, <1>3, <1>4, <1>5

LEMMA ReportsOfTables ==
  ASSUME RulesAssumption, NEW db \in Tables
  PROVE  ReportsAgree(db)
<1>0. DOMAIN db.wallet = Users
  BY DEF Tables
<1>1. ASSUME NEW field \in DOMAIN GetAdminWalletSummary(db)
      PROVE  GetAdminWalletSummary(db)[field]
               = SumOver([u \in DOMAIN db.wallet |-> GetUserWallet(db, u)[field]])
  <2>1. DOMAIN GetAdminWalletSummary(db)
          = {"balance", "reservedAmount", "referralEarnings", "teamEarnings", "investmentEarnings"}
    BY DEF GetAdminWalletSummary
  <2> QED BY <1>0, <2>1, SummaryAddsUp
<1>2. /\ GetDashboardStats(db).rewardsDistributed = GetAdminWalletSummary(db).investmentEarnings
      /\ GetDashboardStats(db).platformBalance = GetAdminWalletSummary(db).balance
  BY DEF GetDashboardStats, GetAdminWalletSummary
<1>3. GetDashboardStats(db).totalRevenue
        = SumOver([u \in DOMAIN db.wallet |-> GetUserDashboardStats(db, u).currentDeposit])
  <2> DEFINE rows == db.deposits
             D == WithStatus(rows, "SUCCESS")
             g == [i \in D |-> rows[i].user]
  <2>1. D \in SUBSET DOMAIN rows /\ Summable(rows) /\ IsFiniteSet(Users)
    BY TablesAreSummable DEF WithStatus, RulesAssumption
  <2>2. \A i \in D : g[i] \in Users
    BY <2>1, UsersOfRows
  <2>3. \A u \in Users : {i \in D : g[i] = u} = OfUser(rows, u) \cap WithStatus(rows, "SUCCESS")
    BY DEF OfUser, WithStatus
  <2>4. GetDashboardStats(db).totalRevenue = Total(rows, D)
    BY DEF GetDashboardStats
  <2>5. [u \in DOMAIN db.wallet |-> GetUserDashboardStats(db, u).currentDeposit]
          = [u \in Users |-> Total(rows, {i \in D : g[i] = u})]
    BY <1>0, <2>3 DEF GetUserDashboardStats
  <2> HIDE DEF rows, D, g
  <2>6. SumOver([u \in Users |-> Total(rows, {i \in D : g[i] = u})]) = Total(rows, D)
    BY <2>1, <2>2, TotalOfParts
  <2> QED BY <2>4, <2>5, <2>6
<1>4. ASSUME NEW u \in DOMAIN db.wallet
      PROVE  /\ GetUserDashboardStats(db, u).totalReferralBonus
                  = GetUserWallet(db, u).referralEarnings + GetUserWallet(db, u).teamEarnings
             /\ GetUserDashboardStats(db, u).totalReferralBonus = SumOver(GetReferralHistory(db, u))
  <2> DEFINE paid == Total(db.commissions, PaidTo(db, u))
  <2>1. GetUserDashboardStats(db, u).totalReferralBonus = paid /\ paid \in Int
    BY TotalsAreInt DEF GetUserDashboardStats
  <2>2. /\ GetUserWallet(db, u).referralEarnings = paid
        /\ GetUserWallet(db, u).teamEarnings = 0
    BY OwnCommissions DEF GetUserWallet
  <2>3. SumOver(GetReferralHistory(db, u)) = paid
    BY <1>0, HistoryAddsUp
  <2> HIDE DEF paid
  <2> QED BY <2>1, <2>2, <2>3
<1> QED BY <1>1, <1>2, <1>3, <1>4 DEF ReportsAgree

-----------------------------------------------------------------------------
(* Lists: the rank of a place among those found                             *)
LEMMA RankType ==
  ASSUME NEW S \in SUBSET Nat, IsFiniteSet(S), NEW i \in S
  PROVE  Rank(S, i) \in 1..Cardinality(S)
<1> DEFINE T == {j \in S : j <= i}
<1>1. T \in SUBSET S /\ i \in T
  OBVIOUS
<1> HIDE DEF T
<1>2. IsFiniteSet(T) /\ Cardinality(T) <= Cardinality(S) /\ Cardinality(T) # 0
  BY <1>1, FS_Subset, FS_EmptySet
<1>3. Cardinality(T) \in Nat /\ Cardinality(S) \in Nat
  BY <1>2, FS_CardinalityType
<1>4. Rank(S, i) = Cardinality(T)
  BY DEF Rank, T
<1> QED BY <1>2, <1>3, <1>4

LEMMA RankIsStrict ==
  ASSUME NEW S \in SUBSET Nat, IsFiniteSet(S), NEW i \in S, NEW j \in S, i < j
  PROVE  Rank(S, i) < Rank(S, j)
<1> DEFINE T == {n \in S : n <= i}
           U == {n \in S : n <= j}
<1>1. T \in SUBSET U /\ U \in SUBSET S /\ j \in U /\ j \notin T
  <2>1. i \in Nat /\ j \in Nat /\ \A n \in S : n \in Nat
    OBVIOUS
  <2>2. \A n \in S : n <= i => n <= j
    BY <2>1
  <2>3. T \subseteq U
    BY <2>2
  <2>4. j <= j /\ ~(j <= i)
    BY <2>1
  <2> QED BY <2>3, <2>4
<1> HIDE DEF T, U
<1>2. IsFiniteSet(U) /\ IsFiniteSet(T)
  BY <1>1, FS_Subset
<1>3. Cardinality(T) <= Cardinality(U) /\ Cardinality(U) # Cardinality(T)
  BY <1>1, <1>2, FS_Subset
<1>4. Cardinality(T) \in Nat /\ Cardinality(U) \in Nat
  BY <1>2, FS_CardinalityType
<1>5. Rank(S, i) = Cardinality(T) /\ Rank(S, j) = Cardinality(U)
  BY DEF Rank, T, U
<1> QED BY <1>3, <1>4, <1>5

LEMMA RankIsInjective ==
  ASSUME NEW S \in SUBSET Nat, IsFiniteSet(S), NEW i \in S, NEW j \in S, Rank(S, i) = Rank(S, j)
  PROVE  i = j
<1>1. Rank(S, i) \in Nat /\ Rank(S, j) \in Nat
  BY RankType, FS_CardinalityType
<1>2. ~(i < j)
  BY <1>1, RankIsStrict
<1>3. ~(j < i)
  BY <1>1, RankIsStrict
<1>4. i \in Nat /\ j \in Nat
  OBVIOUS
<1> QED BY <1>2, <1>3, <1>4

(* Every rank up to the number of places is that of a place.                *)
LEMMA RankIsOnto ==
  ASSUME NEW S \in SUBSET Nat, IsFiniteSet(S), NEW r \in 1..Cardinality(S)
  PROVE  \E i \in S : Rank(S, i) = r
<1> DEFINE f == [i \in S |-> Rank(S, i)]
           T == 1..Cardinality(S)
<1>1. Cardinality(S) \in Nat
  BY FS_CardinalityType
<1>2. IsFiniteSet(T) /\ Cardinality(T) = Cardinality(S)
  BY <1>1, FS_Interval
<1>3. f \in Injection(S, T)
  <2>1. f \in [S -> T]
    BY RankType
  <2>2. \A i, j \in S : f[i] = f[j] => i = j
    BY RankIsInjective
  <2> HIDE DEF f
  <2> QED BY <2>1, <2>2 DEF Injection, IsInjective
<1>4. f \in Surjection(S, T)
  <2> HIDE DEF f, T
  <2> QED BY <1>2, <1>3, FS_Injection
<1> HIDE DEF T
<1> QED BY <1>4 DEF Surjection, T

(* A page that is not the last one is full.                                 *)
LEMMA FullPage ==
  ASSUME NEW S \in SUBSET Nat, IsFiniteSet(S), NEW skip \in Nat, NEW limit \in Nat,
         skip + limit <= Cardinality(S)
  PROVE  LET T == {i \in S : skip < Rank(S, i) /\ Rank(S, i) <= skip + limit}
         IN IsFiniteSet(T) /\ Cardinality(T) = limit
<1> DEFINE T == {i \in S : skip < Rank(S, i) /\ Rank(S, i) <= skip + limit}
           I == (skip + 1)..(skip + limit)
           f == [i \in T |-> Rank(S, i)]
<1>1. Cardinality(S) \in Nat
  BY FS_CardinalityType
<1>2. IsFiniteSet(I) /\ Cardinality(I) = limit
  BY FS_Interval
<1>3. T \in SUBSET S
  OBVIOUS
<1>4. \A i \in T : Rank(S, i) \in I
  BY RankType, <1>1
<1>5. f \in Injection(T, I)
  <2>1. f \in [T -> I]
    BY <1>4
  <2>2. \A i, j \in T : f[i] = f[j] => i = j
    BY <1>3, RankIsInjective
  <2> HIDE DEF f, T, I
  <2> QED BY <2>1, <2>2 DEF Injection, IsInjective
<1>6. f \in Surjection(T, I)
  <2>1. ASSUME NEW r \in I
        PROVE  \E i \in T : f[i] = r
    <3>1. r \in 1..Cardinality(S)
      BY <1>1
    <3>2. PICK i \in S : Rank(S, i) = r
      BY <3>1, RankIsOnto
    <3>3. i \in T
      BY <3>2
    <3> QED BY <3>2, <3>3
  <2>2. f \in [T -> I]
    BY <1>4
  <2> HIDE DEF f, T, I
  <2> QED BY <2>1, <2>2 DEF Surjection
<1> HIDE DEF f, T, I
<1>7. IsFiniteSet(T) /\ Cardinality(T) = Cardinality(I)
  BY <1>2, <1>5, <1>6, FS_Injection
<1> QED BY <1>2, <1>7 DEF T

(* The number of pages is enough for all rows.                              *)
LEMMA PagesSuffice ==
  ASSUME NEW total \in Nat, NEW limit \in Nat \ {0}, NEW page \in Nat \ {0},
         (total + limit - 1) \div limit <= page
  PROVE  total <= page * limit
<1> DEFINE a == total + limit - 1
           q == a \div limit
<1>1. a \in Nat /\ q \in Int
  OBVIOUS
<1>2. a < (q + 1) * limit
  OBVIOUS
<1> HIDE DEF q
<1>3. (q + 1) * limit = q * limit + limit
  BY <1>1
<1>4. q <= page
  BY DEF q
<1>5. q * limit <= page * limit
  BY <1>1, <1>4
<1>6. q * limit \in Int /\ page * limit \in Int
  BY <1>1
<1> QED BY <1>2, <1>3, <1>5, <1>6

LEMMA NextPage ==
  ASSUME NEW page \in Nat \ {0}, NEW limit \in Nat \ {0}
  PROVE  /\ (page - 1) * limit \in Nat
         /\ (page - 1) * limit + limit = page * limit
         /\ page * limit \in Nat
OBVIOUS

-----------------------------------------------------------------------------
(* Lists: what a page shows, whichever list it is of                        *)
RowsOfList == [id : Nat, user : Users, matches : BOOLEAN]
DistinctIds(rows) == /\ \A i \in DOMAIN rows : rows[i].id \in 1..Len(rows)
                     /\ \A i, j \in DOMAIN rows : rows[i].id = rows[j].id => i = j

Filtered == {"deposits", "adminDeposits", "users", "products", "rewards"}
Listed(list, rows) == {i \in DOMAIN rows : /\ list \in Personal => rows[i].user = Reader
                                           /\ list \in Filtered => rows[i].matches}

OnPage(found, skip, limit) == {i \in found : skip < Rank(found, i) /\ Rank(found, i) <= skip + limit}
Shown(rows, found, page, limit) == {rows[i] : i \in OnPage(found, (page - 1) * limit, limit)}

LEMMA ListedType ==
  ASSUME NEW list, NEW rows \in Seq(RowsOfList)
  PROVE  /\ Listed(list, rows) \in SUBSET Nat /\ IsFiniteSet(Listed(list, rows))
         /\ Cardinality(Listed(list, rows)) \in Nat /\ Listed(list, rows) \subseteq DOMAIN rows
<1>1. DOMAIN rows = 1..Len(rows) /\ Len(rows) \in Nat
  OBVIOUS
<1>2. IsFiniteSet(DOMAIN rows) /\ DOMAIN rows \subseteq Nat
  BY <1>1, FS_Interval
<1>3. Listed(list, rows) \in SUBSET DOMAIN rows
  BY DEF Listed
<1>4. IsFiniteSet(Listed(list, rows))
  BY <1>2, <1>3, FS_Subset
<1> QED BY <1>2, <1>3, <1>4, FS_CardinalityType

(* Most answers tell how many pages there are, which are enough.            *)
LEMMA PaginatedIs ==
  ASSUME NEW rows \in Seq(RowsOfList), NEW list,
         NEW page \in Nat \ {0}, NEW limit \in Nat \ {0}
  PROVE  LET S == Listed(list, rows)
             answer == Paginated(rows, S, page, limit)
         IN /\ answer.items = Shown(rows, S, page, limit)
            /\ answer.lastPage <= page => Cardinality(S) <= page * limit
<1> DEFINE S == Listed(list, rows)
<1>1. Cardinality(S) \in Nat
  BY ListedType
<1> HIDE DEF S
<1>2. Paginated(rows, S, page, limit).items = Shown(rows, S, page, limit)
  BY DEF Paginated, Shown, OnPage, Skip
<1>3. Paginated(rows, S, page, limit).lastPage = (Cardinality(S) + limit - 1) \div limit
  BY DEF Paginated
<1>4. (Cardinality(S) + limit - 1) \div limit <= page => Cardinality(S) <= page * limit
  BY <1>1, PagesSuffice
<1> QED BY <1>2, <1>3, <1>4 DEF S

(* The log of team bonuses tells none, but a page that is not full is the   *)
(* last.                                                                    *)
LEMMA ShortPageIsLast ==
  ASSUME NEW rows \in Seq(RowsOfList), DistinctIds(rows), NEW list,
         NEW page \in Nat \ {0}, NEW limit \in Nat \ {0},
         Cardinality(Shown(rows, Listed(list, rows), page, limit)) < limit
  PROVE  Cardinality(Listed(list, rows)) <= page * limit
<1> DEFINE S == Listed(list, rows)
           skip == (page - 1) * limit
           T == OnPage(S, skip, limit)
           U == {rows[i] : i \in T}
           f == [i \in T |-> rows[i]]
<1>1. /\ S \in SUBSET Nat /\ IsFiniteSet(S) /\ Cardinality(S) \in Nat /\ S \subseteq DOMAIN rows
      /\ skip \in Nat /\ skip + limit = page * limit
  BY ListedType, NextPage
<1>2. SUFFICES ASSUME skip + limit <= Cardinality(S) PROVE FALSE
  <2>1. \/ Cardinality(S) <= skip + limit
        \/ skip + limit <= Cardinality(S)
    BY <1>1
  <2> QED BY <1>1, <2>1
<1>3. IsFiniteSet(T) /\ Cardinality(T) = limit
  <2> HIDE DEF S, skip
  <2> QED BY <1>1, <1>2, FullPage DEF OnPage
<1>4. f \in Surjection(T, U)
  BY DEF Surjection
<1>5. f \in Injection(T, U)
  <2>1. T \subseteq DOMAIN rows
    BY <1>1 DEF OnPage
  <2>2. \A i, j \in T : rows[i] = rows[j] => i = j
    BY <2>1 DEF DistinctIds
  <2>3. f \in [T -> U] /\ \A i, j \in T : f[i] = f[j] => i = j
    <3> HIDE DEF T
    <3> QED BY <2>2
  <2> HIDE DEF f, T, U
  <2> QED BY <2>3 DEF Injection, IsInjective
<1>6. Cardinality(U) < limit
  BY DEF Shown
<1> HIDE DEF f, T, U, skip
<1>7. Cardinality(U) = Cardinality(T)
  BY <1>3, <1>4, <1>5, FS_Surjection
<1> QED BY <1>3, <1>6, <1>7

LEMMA AnswerIs ==
  ASSUME NEW list \in Lists, NEW rows \in Seq(RowsOfList), DistinctIds(rows),
         NEW page \in Nat \ {0}, NEW limit \in Nat \ {0}
  PROVE  /\ Answer(list, rows, page, limit).items = Shown(rows, Listed(list, rows), page, limit)
         /\ page >= Answer(list, rows, page, limit).lastPage
              => Cardinality(Listed(list, rows)) <= page * limit
<1> DEFINE S == Listed(list, rows)
           answer == Answer(list, rows, page, limit)
           paginated == Paginated(rows, S, page, limit)
<1>1. /\ paginated.items = Shown(rows, S, page, limit)
      /\ paginated.lastPage <= page => Cardinality(S) <= page * limit
  BY PaginatedIs
<1>2. paginated.lastPage \in Int /\ DOMAIN paginated = {"items", "total", "lastPage"}
  <2>1. Cardinality(S) \in Nat
    BY ListedType
  <2> HIDE DEF S
  <2> QED BY <2>1 DEF Paginated
<1>3. ASSUME answer = paginated
      PROVE  /\ answer.items = Shown(rows, S, page, limit)
             /\ page >= answer.lastPage => Cardinality(S) <= page * limit
  <2> HIDE DEF answer, paginated, S
  <2> QED BY <1>1, <1>2, <1>3
<1>4. CASE list = "wallets"
  <2>1. S = All(rows)
    BY <1>4 DEF Listed, All, Personal, Filtered
  <2> QED BY <1>3, <1>4, <2>1 DEF Answer, ListWallets
<1>5. CASE list = "transactions"
  <2>1. S = All(rows)
    BY <1>5 DEF Listed, All, Personal, Filtered
  <2> QED BY <1>3, <1>5, <2>1 DEF Answer, ListAllTransactions
<1>6. CASE list = "withdrawals"
  <2>1. S = All(rows)
    BY <1>6 DEF Listed, All, Personal, Filtered
  <2> QED BY <1>3, <1>6, <2>1 DEF Answer, GetPaginatedWithdrawals
<1>7. CASE list = "userWithdrawals"
  <2>1. S = Of(rows, Reader)
    BY <1>7 DEF Listed, Of, Personal, Filtered
  <2> QED BY <1>3, <1>7, <2>1 DEF Answer, GetUserWithdrawals
<1>8. CASE list = "deposits"
  <2>1. S = Of(rows, Reader) \cap Matching(rows)
    BY <1>8 DEF Listed, Of, Matching, Personal, Filtered
  <2> QED BY <1>3, <1>8, <2>1 DEF Answer, GetDeposits
<1>9. CASE list = "adminDeposits"
  <2>1. S = Matching(rows)
    BY <1>9 DEF Listed, Matching, Personal, Filtered
  <2> QED BY <1>3, <1>9, <2>1 DEF Answer, ListAdminDeposits
<1>10. CASE list = "referrals"
  <2>1. S = Of(rows, Reader)
    BY <1>10 DEF Listed, Of, Personal, Filtered
  <2> QED BY <1>3, <1>10, <2>1 DEF Answer, GetReferralListingByAdmin
<1>11. CASE list = "users"
  <2>1. S = Matching(rows)
    BY <1>11 DEF Listed, Matching, Personal, Filtered
  <2> QED BY <1>3, <1>11, <2>1 DEF Answer, GetAllUsers
<1>12. CASE list = "products"
  <2>1. S = Matching(rows)
    BY <1>12 DEF Listed, Matching, Personal, Filtered
  <2> QED BY <1>3, <1>12, <2>1 DEF Answer, ViewAllProducts
<1>13. CASE list = "rewards"
  <2>1. S = Of(rows, Reader) \cap Matching(rows)
    BY <1>13 DEF Listed, Of, Matching, Personal, Filtered
  <2>2. answer = [paginated EXCEPT !.lastPage = IF paginated.lastPage = 0 THEN 1 ELSE paginated.lastPage]
    BY <1>13, <2>1 DEF Answer, FindAllAdmin
  <2>3. /\ answer.items = paginated.items
        /\ answer.lastPage = IF paginated.lastPage = 0 THEN 1 ELSE paginated.lastPage
    <3> HIDE DEF answer, paginated
    <3> QED BY <1>2, <2>2
  <2>4. page >= answer.lastPage => paginated.lastPage <= page
    <3> HIDE DEF answer, paginated
    <3> QED BY <1>2, <2>3
  <2> QED BY <1>1, <2>3, <2>4
<1>14. CASE list = "teamBonuses"
  <2>1. S = All(rows)
    BY <1>14 DEF Listed, All, Personal, Filtered
  <2> DEFINE items == paginated.items
  <2>2. answer = [items |-> items, lastPage |-> IF Cardinality(items) < limit THEN page ELSE page + 1]
    BY <1>14, <2>1 DEF Answer, GetTeamBonusLogs
  <2>3. /\ answer.items = items
        /\ answer.lastPage = IF Cardinality(items) < limit THEN page ELSE page + 1
    BY <2>2
  <2>4. ASSUME page >= answer.lastPage PROVE Cardinality(S) <= page * limit
    <3>1. Cardinality(items) < limit
      <4> HIDE DEF items, answer
      <4> QED BY <2>3, <2>4
    <3> QED BY <1>1, <3>1, ShortPageIsLast
  <2> QED BY <1>1, <2>3, <2>4
<1> QED BY <1>4, <1>5, <1>6, <1>7, <1>8, <1>9, <1>10, <1>11, <1>12, <1>13, <1>14 DEF Lists, NeverLeave

-----------------------------------------------------------------------------
(* Lists: what the reader has passed by                                     *)

(* The rows there from the start that the reader has not been shown and     *)
(* will not be, as they are on a page already read.                         *)
Passed(s) ==
  LET S == Listed(s.list, s.rows)
  IN {id \in s.start \ s.shown :
        \E i \in S : s.rows[i].id = id /\ Rank(S, i) <= (s.page - 1) * s.limit}

ReadingType ==
  [list : Lists, limit : Limits, page : Nat \ {0}, done : BOOLEAN, shown : SUBSET Nat,
   gaps : Nat, rows : Seq(RowsOfList), start : SUBSET Nat]

ReadingInv(s) ==
  /\ s \in ReadingType
  /\ DistinctIds(s.rows)
  /\ IsFiniteSet(s.start)
  /\ \A id \in s.start : \E i \in DOMAIN s.rows : s.rows[i] = NewRow(id, Reader)
  /\ Cardinality(Passed(s)) <= s.gaps
  /\ s.done => Cardinality(s.start \ s.shown) <= s.gaps

(* A row that has those of as many places ahead of it, or more, has no      *)
(* smaller rank.                                                            *)
LEMMA RankGrows ==
  ASSUME NEW S \in SUBSET Nat, IsFiniteSet(S), NEW S2 \in SUBSET Nat, IsFiniteSet(S2),
         NEW i, NEW i2, NEW f,
         \A j \in S : j <= i => f[j] \in S2 /\ f[j] <= i2,
         \A j, k \in S : f[j] = f[k] => j = k
  PROVE  Rank(S, i) <= Rank(S2, i2)
<1> DEFINE T == {j \in S : j <= i}
           T2 == {j \in S2 : j <= i2}
           U == {f[j] : j \in T}
           g == [j \in T |-> f[j]]
<1>1. T \in SUBSET S /\ T2 \in SUBSET S2 /\ U \in SUBSET T2
  OBVIOUS
<1>2. g \in Surjection(T, U)
  BY DEF Surjection
<1>3. g \in Injection(T, U)
  <2>1. g \in [T -> U] /\ \A j, k \in T : g[j] = g[k] => j = k
    <3>1. \A j, k \in T : f[j] = f[k] => j = k
      BY <1>1
    <3> HIDE DEF T
    <3> QED BY <3>1
  <2> HIDE DEF g, T, U
  <2> QED BY <2>1 DEF Injection, IsInjective
<1>4. Rank(S, i) = Cardinality(T) /\ Rank(S2, i2) = Cardinality(T2)
  BY DEF Rank
<1> HIDE DEF g, T, T2, U
<1>5. IsFiniteSet(T) /\ IsFiniteSet(T2)
  BY <1>1, FS_Subset
<1>6. IsFiniteSet(U) /\ Cardinality(U) = Cardinality(T)
  BY <1>2, <1>3, <1>5, FS_Surjection
<1>7. Cardinality(U) <= Cardinality(T2)
  BY <1>1, <1>5, FS_Subset
<1> QED BY <1>4, <1>6, <1>7

(* The rank of a row falls by no more than the rows that are left out.      *)
LEMMA RankDrops ==
  ASSUME NEW S \in SUBSET Nat, IsFiniteSet(S), NEW p, NEW S2, S2 = S \ {p}, NEW i \in S2
  PROVE  Rank(S, i) <= Rank(S2, i) + 1
<1> DEFINE T == {j \in S : j <= i}
           T2 == {j \in S2 : j <= i}
<1>1. T \in SUBSET S /\ T2 = T \ {p}
  OBVIOUS
<1>2. Rank(S, i) = Cardinality(T) /\ Rank(S2, i) = Cardinality(T2)
  BY DEF Rank, T, T2
<1> HIDE DEF T, T2
<1>3. IsFiniteSet(T) /\ Cardinality(T) \in Nat
  BY <1>1, FS_Subset, FS_CardinalityType
<1>4. CASE p \in T
  <2>1. Cardinality(T2) = Cardinality(T) - 1
    BY <1>1, <1>3, <1>4, FS_RemoveElement
  <2> QED BY <1>2, <1>3, <2>1
<1>5. CASE p \notin T
  <2>1. T2 = T
    BY <1>1, <1>5
  <2> QED BY <1>2, <1>3, <2>1
<1> QED BY <1>4, <1>5

(* A row there from the start is listed, at one place.                      *)
LEMMA PlaceOfStart ==
  ASSUME NEW s, ReadingInv(s), NEW id \in s.start
  PROVE  \E i \in Listed(s.list, s.rows) : s.rows[i].id = id
<1>1. PICK i \in DOMAIN s.rows : s.rows[i] = NewRow(id, Reader)
  BY DEF ReadingInv
<1>2. s.rows[i].id = id /\ s.rows[i].user = Reader /\ s.rows[i].matches
  BY <1>1 DEF NewRow
<1> QED BY <1>2 DEF Listed

(* While nothing more is passed by, and no gaps are added, the bound holds. *)
LEMMA PassedShrinks ==
  ASSUME NEW s, ReadingInv(s), NEW t, Passed(t) \subseteq Passed(s), t.gaps = s.gaps
  PROVE  Cardinality(Passed(t)) <= t.gaps
<1>1. IsFiniteSet(Passed(s))
  <2>1. Passed(s) \in SUBSET s.start
    BY DEF Passed
  <2> QED BY <2>1, FS_Subset DEF ReadingInv
<1>2. Cardinality(Passed(t)) <= Cardinality(Passed(s))
  BY <1>1, FS_Subset
<1>3. /\ Cardinality(Passed(s)) \in Nat /\ Cardinality(Passed(t)) \in Nat
      /\ Cardinality(Passed(s)) <= s.gaps /\ s.gaps \in Nat
  <2>1. IsFiniteSet(Passed(t))
    BY <1>1, FS_Subset
  <2> QED BY <1>1, <2>1, FS_CardinalityType DEF ReadingInv, ReadingType
<1> QED BY <1>2, <1>3

-----------------------------------------------------------------------------
(* Lists: each step of the reader and of the others                         *)
LEMMA ReadingFacts ==
  ASSUME NEW s, ReadingInv(s)
  PROVE  /\ s.list \in Lists /\ s.limit \in Nat \ {0} /\ s.page \in Nat \ {0}
         /\ s.done \in BOOLEAN /\ s.shown \in SUBSET Nat /\ s.gaps \in Nat
         /\ s.rows \in Seq(RowsOfList) /\ s.start \in SUBSET Nat
         /\ Len(s.rows) \in Nat /\ DOMAIN s.rows = 1..Len(s.rows)
         /\ DOMAIN s = {"list", "limit", "page", "done", "shown", "gaps", "rows", "start"}
<1>1. s \in ReadingType /\ Limits \subseteq Nat \ {0}
  BY RulesAssumption DEF ReadingInv, RulesAssumption
<1>2. /\ s.list \in Lists /\ s.limit \in Limits /\ s.page \in Nat \ {0}
      /\ s.done \in BOOLEAN /\ s.shown \in SUBSET Nat /\ s.gaps \in Nat
      /\ s.rows \in Seq(RowsOfList) /\ s.start \in SUBSET Nat
  BY <1>1 DEF ReadingType
<1>3. DOMAIN s = {"list", "limit", "page", "done", "shown", "gaps", "rows", "start"}
  BY <1>1 DEF ReadingType
<1>4. Len(s.rows) \in Nat /\ DOMAIN s.rows = 1..Len(s.rows)
  BY <1>2
<1> QED BY <1>1, <1>2, <1>3, <1>4

LEMMA NewRowType ==
  ASSUME NEW id \in Nat, NEW u \in Users
  PROVE  /\ NewRow(id, u) \in RowsOfList
         /\ NewRow(id, u).id = id /\ NewRow(id, u).user = u /\ NewRow(id, u).matches
BY DEF NewRow, RowsOfList

LEMMA ReadingBegins ==
  ASSUME NEW s \in Readings
  PROVE  ReadingInv(s)
<1>1. PICK list \in Lists, limit \in Limits, n \in 1..(MaxRows - 1) : s = Reading(list, limit, n)
  BY DEF Readings
<1>2. /\ s.list = list /\ s.limit = limit /\ s.page = 1 /\ s.done = FALSE /\ s.shown = {} /\ s.gaps = 0
      /\ s.rows = [i \in 1..n |-> NewRow(n + 1 - i, Reader)] /\ s.start = 1..n
  BY <1>1 DEF Reading
<1>3. n \in Nat /\ limit \in Nat \ {0} /\ Reader \in Users
  BY RulesAssumption DEF RulesAssumption
<1>4. \A i \in 1..n : n + 1 - i \in 1..n
  BY <1>3
<1>5. \A i \in 1..n : s.rows[i] \in RowsOfList /\ s.rows[i].id = n + 1 - i
  <2>1. ASSUME NEW i \in 1..n
        PROVE  s.rows[i] \in RowsOfList /\ s.rows[i].id = n + 1 - i
    <3> DEFINE id == n + 1 - i
    <3>1. id \in Nat /\ Reader \in Users
      BY <1>3
    <3>2. s.rows[i] = NewRow(id, Reader)
      BY <1>2
    <3> HIDE DEF id
    <3>3. NewRow(id, Reader) \in RowsOfList
      BY <3>1, NewRowType
    <3>4. NewRow(id, Reader).id = id
      BY <3>1, NewRowType
    <3> QED BY <3>2, <3>3, <3>4 DEF id
  <2> QED BY <2>1
<1>6. s.rows \in Seq(RowsOfList) /\ DOMAIN s.rows = 1..n /\ Len(s.rows) = n
  <2>1. DOMAIN s.rows = 1..n /\ s.rows = [i \in 1..n |-> s.rows[i]]
    BY <1>2
  <2> QED BY <1>3, <1>5, <2>1
<1>7. s \in ReadingType
  <2>1. s.start \in SUBSET Nat
    BY <1>2
  <2>2. s = [list |-> list, limit |-> limit, page |-> 1, done |-> FALSE, shown |-> {}, gaps |-> 0,
             rows |-> s.rows, start |-> s.start]
    BY <1>1 DEF Reading
  <2> DEFINE rows == s.rows
             start == s.start
  <2>3. rows \in Seq(RowsOfList) /\ start \in SUBSET Nat
    BY <1>6, <2>1
  <2>4. s = [list |-> list, limit |-> limit, page |-> 1, done |-> FALSE, shown |-> {}, gaps |-> 0,
             rows |-> rows, start |-> start]
    BY <2>2
  <2> HIDE DEF rows, start
  <2> QED BY <2>3, <2>4 DEF ReadingType
<1>8. DistinctIds(s.rows)
  BY <1>3, <1>4, <1>5, <1>6 DEF DistinctIds
<1>9. IsFiniteSet(s.start)
  <2>1. IsFiniteSet(1..n)
    BY <1>3, FS_Interval
  <2> QED BY <1>2, <2>1
<1>10. \A id \in s.start : \E i \in DOMAIN s.rows : s.rows[i] = NewRow(id, Reader)
  <2>1. SUFFICES ASSUME NEW id \in 1..n
                 PROVE  \E i \in 1..n : s.rows[i] = NewRow(id, Reader)
    BY <1>2, <1>6
  <2>2. n + 1 - id \in 1..n /\ n + 1 - (n + 1 - id) = id
    BY <1>3
  <2> QED BY <1>2, <2>2
<1>11. Passed(s) = {}
  <2> DEFINE S == Listed(s.list, s.rows)
  <2>1. S \in SUBSET Nat /\ IsFiniteSet(S)
    BY <1>6, ListedType
  <2>2. (s.page - 1) * s.limit = 0
    BY <1>2, <1>3
  <2> HIDE DEF S
  <2>3. \A i \in S : ~(Rank(S, i) <= 0)
    <3>1. \A i \in S : Rank(S, i) \in 1..Cardinality(S)
      BY <2>1, RankType
    <3>2. Cardinality(S) \in Nat
      BY <2>1, FS_CardinalityType
    <3> QED BY <3>1, <3>2
  <2> QED BY <2>2, <2>3 DEF Passed, S
<1>12. Cardinality(Passed(s)) <= s.gaps
  BY <1>2, <1>11, FS_EmptySet
<1> QED BY <1>2, <1>7, <1>8, <1>9, <1>10, <1>12 DEF ReadingInv

(* What remains of the bound at the end, as fewer rows are asked about.     *)
LEMMA UnseenShrinks ==
  ASSUME NEW s, ReadingInv(s), s.done,
         NEW start, NEW shown, start \subseteq s.start, s.shown \subseteq shown
  PROVE  Cardinality(start \ shown) <= s.gaps
<1> DEFINE A == start \ shown
           B == s.start \ s.shown
<1>1. IsFiniteSet(B)
  BY FS_Subset DEF ReadingInv
<1>2. A \in SUBSET B
  OBVIOUS
<1>3. Cardinality(B) <= s.gaps /\ s.gaps \in Nat
  BY ReadingFacts DEF ReadingInv
<1> HIDE DEF A, B
<1>4. IsFiniteSet(A) /\ Cardinality(A) <= Cardinality(B)
  BY <1>1, <1>2, FS_Subset
<1>5. Cardinality(A) \in Nat /\ Cardinality(B) \in Nat
  BY <1>1, <1>4, FS_CardinalityType
<1>6. Cardinality(A) <= s.gaps
  BY <1>3, <1>4, <1>5
<1> QED BY <1>6 DEF A

(* Rows that move, or are joined by others, do not come under what has been *)
(* read as long as every row keeps the rows ahead of it.                    *)
(* Where the rows come to lie: no row that matters gets behind what has     *)
(* been read, or one at most does, if it moves up by one place only.        *)
OthersIn(s, t) ==
  /\ t.list = s.list /\ t.limit = s.limit /\ t.page = s.page /\ t.shown = s.shown
  /\ t.start \subseteq s.start /\ t.rows \in Seq(RowsOfList) /\ DistinctIds(t.rows)
Slipping(s, t, by) ==
  LET S == Listed(s.list, s.rows)
      S2 == Listed(s.list, t.rows)
  IN \A i \in S, i2 \in S2 :
       s.rows[i].id \in t.start /\ t.rows[i2].id = s.rows[i].id => Rank(S, i) <= Rank(S2, i2) + by

LEMMA PlaceBefore ==
  ASSUME NEW s, ReadingInv(s), NEW t, OthersIn(s, t), NEW by \in Nat, Slipping(s, t, by),
         NEW id \in Passed(t)
  PROVE  /\ id \in s.start \ s.shown
         /\ \E i \in Listed(s.list, s.rows) :
               /\ s.rows[i].id = id
               /\ Rank(Listed(s.list, s.rows), i) \in Nat
               /\ Rank(Listed(s.list, s.rows), i) <= (s.page - 1) * s.limit + by
<1> DEFINE S == Listed(s.list, s.rows)
           S2 == Listed(s.list, t.rows)
           k == (s.page - 1) * s.limit
<1>1. id \in t.start \ t.shown /\ id \in s.start \ s.shown
  BY DEF Passed, OthersIn
<1>2. PICK i2 \in S2 : t.rows[i2].id = id /\ Rank(S2, i2) <= k
  BY DEF Passed, OthersIn
<1>3. PICK i \in S : s.rows[i].id = id
  BY <1>1, PlaceOfStart
<1>4. Rank(S, i) <= Rank(S2, i2) + by
  BY <1>1, <1>2, <1>3 DEF Slipping
<1>5. k \in Nat
  BY ReadingFacts, NextPage
<1>6. Rank(S, i) \in Nat /\ Rank(S2, i2) \in Nat
  <2>1. s.rows \in Seq(RowsOfList) /\ t.rows \in Seq(RowsOfList)
    BY ReadingFacts DEF OthersIn
  <2>2. /\ S \in SUBSET Nat /\ IsFiniteSet(S) /\ Cardinality(S) \in Nat
        /\ S2 \in SUBSET Nat /\ IsFiniteSet(S2) /\ Cardinality(S2) \in Nat
    BY <2>1, ListedType
  <2> HIDE DEF S, S2
  <2>3. Rank(S, i) \in 1..Cardinality(S) /\ Rank(S2, i2) \in 1..Cardinality(S2)
    BY <2>2, RankType
  <2> QED BY <2>2, <2>3
<1>7. Rank(S, i) <= k + by
  BY <1>2, <1>4, <1>5, <1>6
<1> QED BY <1>1, <1>3, <1>6, <1>7

LEMMA NoneSlips ==
  ASSUME NEW s, ReadingInv(s), NEW t, OthersIn(s, t), Slipping(s, t, 0)
  PROVE  Passed(t) \subseteq Passed(s)
<1> DEFINE S == Listed(s.list, s.rows)
           k == (s.page - 1) * s.limit
<1>1. SUFFICES ASSUME NEW id \in Passed(t) PROVE id \in Passed(s)
  OBVIOUS
<1>2. /\ id \in s.start \ s.shown
      /\ \E i \in S : s.rows[i].id = id /\ Rank(S, i) \in Nat /\ Rank(S, i) <= k + 0
  BY 0 \in Nat, PlaceBefore
<1>3. k \in Nat
  BY ReadingFacts, NextPage
<1>4. \E i \in S : s.rows[i].id = id /\ Rank(S, i) <= k
  BY <1>2, <1>3
<1> QED BY <1>2, <1>4 DEF Passed

LEMMA OneSlips ==
  ASSUME NEW s, ReadingInv(s), NEW t, OthersIn(s, t), Slipping(s, t, 1)
  PROVE  Cardinality(Passed(t)) <= s.gaps + 1
<1> DEFINE S == Listed(s.list, s.rows)
           k == (s.page - 1) * s.limit
           Slips == {i \in S : Rank(S, i) = k + 1}
           slipped == {s.rows[i].id : i \in Slips}
<1>1. /\ s.rows \in Seq(RowsOfList) /\ s.gaps \in Nat /\ IsFiniteSet(s.start)
      /\ k \in Nat
  BY ReadingFacts, NextPage DEF ReadingInv
<1>2. S \in SUBSET Nat /\ IsFiniteSet(S)
  BY <1>1, ListedType
<1>3. \A id \in Passed(t) : /\ id \in s.start \ s.shown
                            /\ \E i \in S : /\ s.rows[i].id = id /\ Rank(S, i) \in Nat
                                            /\ Rank(S, i) <= k + 1
  BY 1 \in Nat, PlaceBefore
<1> HIDE DEF S, k
<1>4. \E x : slipped \subseteq {x}
  <2>1. CASE Slips = {}
    BY <2>1
  <2>2. CASE Slips # {}
    <3>1. PICK i \in Slips : TRUE
      BY <2>2
    <3>2. \A j \in Slips : j = i
      <4>1. \A j \in Slips : j \in S /\ Rank(S, j) = Rank(S, i)
        OBVIOUS
      <4> HIDE DEF Slips
      <4>2. i \in S
        BY <3>1, <4>1
      <4> QED BY <1>2, <4>1, <4>2, RankIsInjective
    <3>3. slipped \subseteq {s.rows[i].id}
      BY <3>2
    <3> QED BY <3>3
  <2> QED BY <2>1, <2>2
<1>5. PICK x : slipped \subseteq {x}
  BY <1>4
<1>6. ASSUME NEW id \in Passed(t)
      PROVE  id \in Passed(s) \cup {x}
  <2>1. id \in s.start \ s.shown
    BY <1>3
  <2>2. PICK i \in S : s.rows[i].id = id /\ Rank(S, i) \in Nat /\ Rank(S, i) <= k + 1
    BY <1>3
  <2>3. Rank(S, i) <= k \/ Rank(S, i) = k + 1
    BY <1>1, <2>2
  <2>4. CASE Rank(S, i) <= k
    BY <2>1, <2>2, <2>4 DEF Passed, S, k
  <2>5. CASE Rank(S, i) = k + 1
    BY <1>5, <2>2, <2>5
  <2> QED BY <2>3, <2>4, <2>5
<1>7. Passed(s) \in SUBSET s.start
  BY DEF Passed
<1>8. IsFiniteSet(Passed(s)) /\ Cardinality(Passed(s)) \in Nat
  BY <1>1, <1>7, FS_Subset, FS_CardinalityType
<1> DEFINE A == Passed(s) \cup {x}
<1>9. IsFiniteSet(A) /\ Cardinality(A) \in Nat /\ Cardinality(A) <= Cardinality(Passed(s)) + 1
  <2>1. IsFiniteSet(A)
    BY <1>8, FS_AddElement
  <2>2. CASE x \in Passed(s)
    <3>1. A = Passed(s)
      BY <2>2
    <3> HIDE DEF A
    <3> QED BY <1>8, <3>1
  <2>3. CASE x \notin Passed(s)
    <3>1. Cardinality(A) = Cardinality(Passed(s)) + 1
      BY <1>8, <2>3, FS_AddElement
    <3> HIDE DEF A
    <3> QED BY <1>8, <2>1, <3>1
  <2> QED BY <2>2, <2>3
<1>10. Passed(t) \in SUBSET A
  BY <1>6
<1> HIDE DEF A
<1>11. IsFiniteSet(Passed(t)) /\ Cardinality(Passed(t)) <= Cardinality(A)
  BY <1>9, <1>10, FS_Subset
<1>12. Cardinality(Passed(t)) \in Nat
  BY <1>11, FS_CardinalityType
<1>13. Cardinality(Passed(s)) <= s.gaps
  BY DEF ReadingInv
<1> QED BY <1>1, <1>8, <1>9, <1>11, <1>12, <1>13

LEMMA ReadPageKeeps ==
  ASSUME NEW s, ReadingInv(s), ~s.done,
         NEW items, NEW lastPage,
         items = Answer(s.list, s.rows, s.page, s.limit).items,
         lastPage = Answer(s.list, s.rows, s.page, s.limit).lastPage,
         NEW seen, seen = {row.id : row \in items},
         NEW done \in BOOLEAN, done => s.page >= lastPage
  PROVE  ReadingInv(Turned(s, seen, done))
<1> DEFINE t == Turned(s, seen, done)
           S == Listed(s.list, s.rows)
           k == (s.page - 1) * s.limit
<1>1. /\ s.list \in Lists /\ s.limit \in Nat \ {0} /\ s.page \in Nat \ {0}
      /\ s.rows \in Seq(RowsOfList) /\ DistinctIds(s.rows)
      /\ s.shown \in SUBSET Nat /\ s.gaps \in Nat
  BY ReadingFacts DEF ReadingInv
<1>2. S \in SUBSET Nat /\ IsFiniteSet(S) /\ Cardinality(S) \in Nat /\ S \subseteq DOMAIN s.rows
  BY <1>1, ListedType
<1>3. k \in Nat /\ k + s.limit = s.page * s.limit /\ s.page * s.limit \in Nat
  BY <1>1, NextPage
<1>4. items = Shown(s.rows, S, s.page, s.limit)
  BY <1>1, AnswerIs
<1>5. done => Cardinality(S) <= s.page * s.limit
  BY <1>1, AnswerIs
<1>6. seen \in SUBSET Nat
  <2>1. \A i \in S : s.rows[i].id \in Nat
    BY <1>1, <1>2 DEF DistinctIds
  <2> HIDE DEF S
  <2> QED BY <1>4, <2>1 DEF Shown, OnPage
<1>7. done \in BOOLEAN
  OBVIOUS
<1>8. /\ t.list = s.list /\ t.limit = s.limit /\ t.page = s.page + 1 /\ t.done = done
      /\ t.shown = s.shown \cup seen /\ t.gaps = s.gaps /\ t.rows = s.rows /\ t.start = s.start
  BY ReadingFacts DEF Turned
<1>9. t \in ReadingType
  <2>1. s \in ReadingType
    BY DEF ReadingInv
  <2>2. s.shown \cup seen \in SUBSET Nat
    BY <1>1, <1>6
  <2>3. s.page + 1 \in Nat \ {0}
    BY <1>1
  <2> DEFINE shown == s.shown \cup seen
             page == s.page + 1
  <2>4. /\ t = [s EXCEPT !.shown = shown, !.page = page, !.done = done]
        /\ shown \in SUBSET Nat /\ page \in Nat \ {0}
    BY <2>2, <2>3 DEF Turned
  <2> HIDE DEF shown, page, t
  <2> QED BY <1>7, <2>1, <2>4 DEF ReadingType
<1> HIDE DEF t
<1>10. \A i \in S : Rank(S, i) \in Nat /\ Rank(S, i) <= Cardinality(S)
  <2> HIDE DEF S
  <2>1. \A i \in S : Rank(S, i) \in 1..Cardinality(S)
    BY <1>2, RankType
  <2> QED BY <1>2, <2>1
<1>11. (t.page - 1) * t.limit = k + s.limit
  <2>1. (t.page - 1) = s.page
    BY <1>1, <1>8
  <2> QED BY <1>3, <1>8, <2>1
<1>12. Passed(t) \subseteq Passed(s)
  <2>1. SUFFICES ASSUME NEW id \in Passed(t) PROVE id \in Passed(s)
    OBVIOUS
  <2>2. id \in s.start \ s.shown /\ id \notin seen
    BY <1>8 DEF Passed
  <2>3. PICK i \in S : s.rows[i].id = id /\ Rank(S, i) <= k + s.limit
    BY <1>8, <1>11 DEF Passed
  <2>4. ~(k < Rank(S, i))
    <3>1. SUFFICES ASSUME k < Rank(S, i) PROVE FALSE
      OBVIOUS
    <3>2. i \in OnPage(S, k, s.limit)
      BY <2>3, <3>1 DEF OnPage
    <3>3. s.rows[i] \in items
      BY <1>4, <3>2 DEF Shown
    <3>4. id \in seen
      BY <2>3, <3>3
    <3> QED BY <2>2, <3>4
  <2>5. Rank(S, i) <= k
    BY <1>3, <1>10, <2>4
  <2> QED BY <2>2, <2>3, <2>5 DEF Passed
<1>13. Cardinality(Passed(t)) <= t.gaps
  BY <1>8, <1>12, PassedShrinks
<1>14. ASSUME done PROVE Cardinality(t.start \ t.shown) <= t.gaps
  <2>1. t.start \ t.shown \subseteq Passed(t)
    <3>1. SUFFICES ASSUME NEW id \in t.start \ t.shown PROVE id \in Passed(t)
      OBVIOUS
    <3>2. PICK i \in S : s.rows[i].id = id
      BY <1>8, PlaceOfStart
    <3>3. Rank(S, i) <= k + s.limit
      BY <1>2, <1>3, <1>5, <1>10, <1>14
    <3> QED BY <1>8, <1>11, <3>1, <3>2, <3>3 DEF Passed
  <2>2. t.start \ t.shown = Passed(t)
    BY <2>1 DEF Passed
  <2> QED BY <1>13, <2>2
<1>15. DistinctIds(t.rows) /\ IsFiniteSet(t.start)
  BY <1>8 DEF ReadingInv
<1>16. \A id \in t.start : \E i \in DOMAIN t.rows : t.rows[i] = NewRow(id, Reader)
  BY <1>8 DEF ReadingInv
<1>17. ReadingInv(t)
  BY <1>8, <1>9, <1>13, <1>14, <1>15, <1>16 DEF ReadingInv
<1> QED BY <1>17 DEF t

(* What the others do with the rows leaves the reader where it was.         *)
LEMMA ChangedIs ==
  ASSUME NEW s, ReadingInv(s), NEW rows \in Seq(RowsOfList), NEW gaps \in Nat,
         NEW start \in SUBSET Nat, NEW t, t = Changed(s, rows, gaps, start)
  PROVE  /\ t.list = s.list /\ t.limit = s.limit /\ t.page = s.page /\ t.done = s.done
         /\ t.shown = s.shown /\ t.gaps = gaps /\ t.rows = rows /\ t.start = start
         /\ t \in ReadingType
<1>1. s \in ReadingType
  BY DEF ReadingInv
<1>2. /\ t.list = s.list /\ t.limit = s.limit /\ t.page = s.page /\ t.done = s.done
      /\ t.shown = s.shown /\ t.gaps = gaps /\ t.rows = rows /\ t.start = start
  BY ReadingFacts DEF Changed
<1>3. t \in ReadingType
  BY <1>1 DEF Changed, ReadingType
<1> QED BY <1>2, <1>3

LEMMA OthersKeep ==
  ASSUME NEW s, ReadingInv(s), NEW rows \in Seq(RowsOfList), DistinctIds(rows),
         NEW start \in SUBSET s.start, NEW gaps \in Nat, s.gaps <= gaps,
         \A id \in start : \E i \in DOMAIN rows : rows[i] = NewRow(id, Reader),
         Cardinality(Passed(Changed(s, rows, gaps, start))) <= gaps
  PROVE  ReadingInv(Changed(s, rows, gaps, start))
<1> DEFINE t == Changed(s, rows, gaps, start)
<1>1. s \in ReadingType /\ s.start \in SUBSET Nat /\ s.gaps \in Nat /\ IsFiniteSet(s.start)
  BY ReadingFacts DEF ReadingInv
<1>2. start \in SUBSET Nat /\ IsFiniteSet(start)
  BY <1>1, FS_Subset
<1>3. /\ t.list = s.list /\ t.limit = s.limit /\ t.page = s.page /\ t.done = s.done
      /\ t.shown = s.shown /\ t.gaps = gaps /\ t.rows = rows /\ t.start = start
      /\ t \in ReadingType
  BY <1>2, ChangedIs
<1>5. s.done => Cardinality(start \ s.shown) <= gaps
  <2>1. ASSUME s.done PROVE Cardinality(start \ s.shown) <= gaps
    <3>1. Cardinality(start \ s.shown) <= s.gaps
      BY <2>1, UnseenShrinks
    <3>2. Cardinality(start \ s.shown) \in Nat
      <4>1. start \ s.shown \in SUBSET start
        OBVIOUS
      <4>2. IsFiniteSet(start \ s.shown)
        BY <1>2, <4>1, FS_Subset
      <4> QED BY <4>2, FS_CardinalityType
    <3> QED BY <1>1, <3>1, <3>2
  <2> QED BY <2>1
<1> HIDE DEF t
<1>6. Cardinality(Passed(t)) <= t.gaps
  BY <1>3 DEF t
<1>7. ReadingInv(t)
  BY <1>2, <1>3, <1>5, <1>6 DEF ReadingInv
<1> QED BY <1>7 DEF t

(* The rows of the list come to lie elsewhere, those at the places in moved *)
(* anyhow, the others in their order and as they were.                      *)
Rearranged(s, rows, To, moved, p, gaps, start) ==
  /\ rows \in Seq(RowsOfList) /\ DistinctIds(rows)
  /\ \A k \in DOMAIN s.rows : To[k] \in DOMAIN rows
  /\ \A j, k \in DOMAIN s.rows : To[j] = To[k] => j = k
  /\ \/ moved = {} /\ gaps = s.gaps
     \/ moved = {p} /\ gaps = s.gaps + 1
  /\ \A k \in DOMAIN s.rows \ moved : rows[To[k]] = s.rows[k]
  /\ start \in SUBSET s.start
  /\ \A k \in DOMAIN s.rows : s.rows[k].id \in start =>
       k \notin moved /\ \A j \in DOMAIN s.rows \ moved : j <= k => To[j] <= To[k]

LEMMA RowsMovedKeep ==
  ASSUME NEW s, ReadingInv(s), NEW rows, NEW To, NEW moved, NEW p, NEW gaps, NEW start,
         Rearranged(s, rows, To, moved, p, gaps, start)
  PROVE  ReadingInv(Changed(s, rows, gaps, start))
<1>0. /\ rows \in Seq(RowsOfList) /\ DistinctIds(rows)
      /\ \A k \in DOMAIN s.rows : To[k] \in DOMAIN rows
      /\ \A j, k \in DOMAIN s.rows : To[j] = To[k] => j = k
      /\ \/ moved = {} /\ gaps = s.gaps
         \/ moved = {p} /\ gaps = s.gaps + 1
      /\ \A k \in DOMAIN s.rows \ moved : rows[To[k]] = s.rows[k]
      /\ start \in SUBSET s.start
      /\ \A k \in DOMAIN s.rows : s.rows[k].id \in start =>
           k \notin moved /\ \A j \in DOMAIN s.rows \ moved : j <= k => To[j] <= To[k]
  BY DEF Rearranged
<1> DEFINE t == Changed(s, rows, gaps, start)
           S == Listed(s.list, s.rows)
           S2 == Listed(s.list, rows)
           A == S \ moved
<1>1. /\ s.rows \in Seq(RowsOfList) /\ DistinctIds(s.rows) /\ s.gaps \in Nat
      /\ start \in SUBSET Nat
  BY <1>0, ReadingFacts DEF ReadingInv
<1>2. gaps \in Nat /\ s.gaps <= gaps
  BY <1>0, <1>1
<1>3. /\ t.list = s.list /\ t.limit = s.limit /\ t.page = s.page
      /\ t.shown = s.shown /\ t.gaps = gaps /\ t.rows = rows /\ t.start = start
  BY <1>0, <1>1, <1>2, ChangedIs
<1> HIDE DEF t
<1>4. OthersIn(s, t)
  BY <1>0, <1>3 DEF OthersIn
<1>5. /\ S \in SUBSET Nat /\ IsFiniteSet(S) /\ S \subseteq DOMAIN s.rows
      /\ S2 \in SUBSET Nat /\ IsFiniteSet(S2) /\ S2 \subseteq DOMAIN rows
  BY <1>0, <1>1, ListedType
<1>6. A \in SUBSET S /\ IsFiniteSet(A)
  <2>1. A \in SUBSET S
    OBVIOUS
  <2> HIDE DEF A, S
  <2> QED BY <1>5, <2>1, FS_Subset
<1>7. ASSUME NEW i \in S, NEW i2 \in S2, s.rows[i].id \in start, rows[i2].id = s.rows[i].id
      PROVE  i \in A /\ Rank(A, i) <= Rank(S2, i2)
  <2>1. i \in DOMAIN s.rows /\ i \notin moved /\ rows[To[i]] = s.rows[i]
    BY <1>0, <1>5, <1>7
  <2>2. i2 = To[i]
    <3>1. To[i] \in DOMAIN rows /\ rows[To[i]].id = rows[i2].id
      BY <1>0, <1>7, <2>1
    <3> QED BY <1>0, <1>5, <3>1 DEF DistinctIds
  <2>3. \A j \in A : j <= i => To[j] \in S2 /\ To[j] <= i2
    <3>1. SUFFICES ASSUME NEW j \in A, j <= i PROVE To[j] \in S2 /\ To[j] <= i2
      OBVIOUS
    <3>2. j \in S /\ j \in DOMAIN s.rows \ moved
      BY <1>5
    <3>3. rows[To[j]] = s.rows[j] /\ To[j] \in DOMAIN rows
      BY <1>0, <3>2
    <3>4. To[j] \in S2
      BY <3>2, <3>3 DEF Listed
    <3>5. To[j] <= To[i]
      BY <1>0, <1>7, <2>1, <3>1, <3>2
    <3> QED BY <2>2, <3>4, <3>5
  <2>4. \A j, k \in A : To[j] = To[k] => j = k
    BY <1>0, <1>5
  <2>5. A \in SUBSET Nat
    BY <1>5
  <2>6. i \in A
    BY <2>1
  <2> HIDE DEF A, S, S2
  <2>7. Rank(A, i) <= Rank(S2, i2)
    BY <1>5, <1>6, <2>3, <2>4, <2>5, RankGrows
  <2> QED BY <2>6, <2>7
<1>8. Cardinality(Passed(t)) <= gaps
  <2>1. CASE moved = {} /\ gaps = s.gaps
    <3>1. A = S
      BY <2>1
    <3>2. Slipping(s, t, 0)
      <4>1. SUFFICES ASSUME NEW i \in S, NEW i2 \in S2, s.rows[i].id \in start, rows[i2].id = s.rows[i].id
                     PROVE  Rank(S, i) <= Rank(S2, i2) + 0
        BY <1>3 DEF Slipping
      <4>2. Rank(S, i) <= Rank(S2, i2) /\ Rank(S2, i2) \in Int
        <5>1. Rank(S2, i2) \in 1..Cardinality(S2)
          <6> HIDE DEF S2
          <6> QED BY <1>5, RankType
        <5>2. Rank(A, i) <= Rank(S2, i2)
          BY <1>7, <4>1
        <5> HIDE DEF A, S, S2
        <5> QED BY <3>1, <5>1, <5>2
      <4> QED BY <4>2
    <3>3. Passed(t) \subseteq Passed(s)
      BY <1>4, <3>2, NoneSlips
    <3>4. Cardinality(Passed(t)) <= t.gaps
      BY <1>3, <2>1, <3>3, PassedShrinks
    <3> QED BY <1>3, <3>4
  <2>2. CASE moved = {p} /\ gaps = s.gaps + 1
    <3>1. A = S \ {p}
      BY <2>2
    <3>2. Slipping(s, t, 1)
      <4>1. SUFFICES ASSUME NEW i \in S, NEW i2 \in S2, s.rows[i].id \in start, rows[i2].id = s.rows[i].id
                     PROVE  Rank(S, i) <= Rank(S2, i2) + 1
        BY <1>3 DEF Slipping
      <4>2. i \in A /\ Rank(A, i) <= Rank(S2, i2)
        BY <1>7, <4>1
      <4> HIDE DEF A, S, S2
      <4>3. Rank(S, i) <= Rank(A, i) + 1
        BY <1>5, <3>1, <4>2, RankDrops
      <4>4. Rank(S, i) \in Int /\ Rank(A, i) \in Int /\ Rank(S2, i2) \in Int
        <5>1. A \in SUBSET Nat
          BY <1>5, <1>6
        <5>2. i \in S
          BY <4>1
        <5>3. /\ Rank(S, i) \in 1..Cardinality(S) /\ Rank(A, i) \in 1..Cardinality(A)
              /\ Rank(S2, i2) \in 1..Cardinality(S2)
          BY <1>5, <1>6, <4>1, <4>2, <5>1, <5>2, RankType
        <5> QED BY <5>3
      <4> QED BY <4>2, <4>3, <4>4
    <3>3. Cardinality(Passed(t)) <= s.gaps + 1
      BY <1>4, <3>2, OneSlips
    <3> QED BY <2>2, <3>3
  <2> QED BY <1>0, <2>1, <2>2
<1>9. \A id \in start : \E i \in DOMAIN rows : rows[i] = NewRow(id, Reader)
  <2>1. SUFFICES ASSUME NEW id \in start PROVE \E i \in DOMAIN rows : rows[i] = NewRow(id, Reader)
    OBVIOUS
  <2>2. PICK i \in DOMAIN s.rows : s.rows[i] = NewRow(id, Reader)
    BY <1>0 DEF ReadingInv
  <2>3. s.rows[i].id = id
    BY <2>2 DEF NewRow
  <2>4. i \notin moved /\ To[i] \in DOMAIN rows
    BY <1>0, <2>1, <2>2, <2>3
  <2> QED BY <1>0, <2>2, <2>4
<1>10. Cardinality(Passed(Changed(s, rows, gaps, start))) <= gaps
  BY <1>8 DEF t
<1> HIDE DEF S, S2, A
<1> QED BY <1>0, <1>2, <1>9, <1>10, OthersKeep

LEMMA AddRowKeeps ==
  ASSUME NEW s, ReadingInv(s), NEW u \in Users, NEW place \in 1..(Len(s.rows) + 1),
         NEW row, row = NewRow(Len(s.rows) + 1, u)
  PROVE  ReadingInv(Changed(s, RowAt(s.rows, row, place), s.gaps, s.start))
<1> DEFINE n == Len(s.rows)
           rows == RowAt(s.rows, row, place)
           To == [k \in 1..n |-> IF k < place THEN k ELSE k + 1]
           From(k) == IF k < place THEN k ELSE k - 1
<1>1. /\ s.rows \in Seq(RowsOfList) /\ n \in Nat /\ DOMAIN s.rows = 1..n /\ DistinctIds(s.rows)
      /\ s.start \in SUBSET s.start
  BY ReadingFacts DEF ReadingInv
<1>2. row \in RowsOfList /\ row.id = n + 1
  <2> DEFINE id == n + 1
  <2>1. id \in Nat /\ row = NewRow(id, u)
    BY <1>1
  <2> HIDE DEF id, n
  <2>2. NewRow(id, u) \in RowsOfList
    BY <2>1, NewRowType
  <2>3. NewRow(id, u).id = id
    BY <2>1, NewRowType
  <2> QED BY <2>1, <2>2, <2>3 DEF id
<1>3. place \in 1..(n + 1)
  OBVIOUS
<1> HIDE DEF n
<1>4. rows = [k \in 1..(n + 1) |-> IF k < place THEN s.rows[k] ELSE IF k = place THEN row ELSE s.rows[k - 1]]
  BY DEF RowAt, n
<1>5. /\ DOMAIN rows = 1..(n + 1) /\ rows[place] = row
      /\ \A k \in 1..(n + 1) : k # place => From(k) \in 1..n /\ rows[k] = s.rows[From(k)]
  <2> HIDE DEF rows
  <2>1. ASSUME NEW k \in 1..(n + 1), k # place
        PROVE  From(k) \in 1..n /\ rows[k] = s.rows[From(k)]
    <3>1. CASE k < place
      BY <1>1, <1>3, <1>4, <3>1
    <3>2. CASE ~(k < place)
      BY <1>1, <1>3, <1>4, <2>1, <3>2
    <3> QED BY <3>1, <3>2
  <2>2. DOMAIN rows = 1..(n + 1)
    BY <1>4
  <2>3. rows[place] = row
    BY <1>3, <1>4
  <2> QED BY <2>1, <2>2, <2>3
<1>6. \A i \in 1..n : s.rows[i] \in RowsOfList /\ s.rows[i].id \in 1..n
  BY <1>1 DEF DistinctIds, n
<1>7. rows \in Seq(RowsOfList) /\ Len(rows) = n + 1
  <2>1. \A k \in 1..(n + 1) : rows[k] \in RowsOfList
    <3> HIDE DEF rows, From
    <3> QED BY <1>2, <1>5, <1>6
  <2>2. rows = [k \in 1..(n + 1) |-> rows[k]]
    BY <1>4
  <2>3. n + 1 \in Nat
    BY <1>1
  <2> HIDE DEF rows
  <2> QED BY <2>1, <2>2, <2>3
<1>8. \A k \in 1..n : To[k] \in 1..(n + 1) /\ To[k] # place /\ From(To[k]) = k
  BY <1>1, <1>3
<1>9. \A j, k \in 1..(n + 1) : j # place /\ k # place /\ From(j) = From(k) => j = k
  BY <1>1, <1>3
<1>10. \A j, k \in 1..n : j <= k => To[j] <= To[k]
  BY <1>1, <1>3
<1> HIDE DEF rows, To, From
<1>11. \A j, k \in 1..n : To[j] = To[k] => j = k
  BY <1>8
<1>12. DistinctIds(rows)
  <2>1. \A k \in 1..(n + 1) : rows[k].id \in 1..(n + 1)
    <3>1. 1..n \subseteq 1..(n + 1) /\ n + 1 \in 1..(n + 1)
      BY <1>1
    <3> QED BY <1>2, <1>5, <1>6, <3>1
  <2>2. \A k \in 1..(n + 1) : k # place => rows[k].id # n + 1
    <3>1. n + 1 \notin 1..n
      BY <1>1
    <3> QED BY <1>5, <1>6, <3>1
  <2>3. ASSUME NEW j \in 1..(n + 1), NEW k \in 1..(n + 1), rows[j].id = rows[k].id
        PROVE  j = k
    <3>1. CASE j = place \/ k = place
      BY <1>2, <1>5, <2>2, <2>3, <3>1
    <3>2. CASE j # place /\ k # place
      <4>1. /\ From(j) \in 1..n /\ From(k) \in 1..n
            /\ s.rows[From(j)].id = s.rows[From(k)].id
        BY <1>5, <2>3, <3>2
      <4>2. From(j) = From(k)
        BY <1>1, <4>1 DEF DistinctIds
      <4> QED BY <1>9, <3>2, <4>2
    <3> QED BY <3>1, <3>2
  <2> QED BY <1>5, <1>7, <2>1, <2>3 DEF DistinctIds
<1>13. /\ \A k \in DOMAIN s.rows : To[k] \in DOMAIN rows
       /\ \A j, k \in DOMAIN s.rows : To[j] = To[k] => j = k
       /\ \A k \in DOMAIN s.rows : rows[To[k]] = s.rows[k]
       /\ \A j, k \in DOMAIN s.rows : j <= k => To[j] <= To[k]
  BY <1>1, <1>5, <1>8, <1>10, <1>11
<1> DEFINE none == {}
           start == s.start
           gaps == s.gaps
<1>14. none = {} /\ gaps = s.gaps /\ start \in SUBSET s.start
  OBVIOUS
<1>15. /\ \A k \in DOMAIN s.rows \ none : rows[To[k]] = s.rows[k]
       /\ \A k \in DOMAIN s.rows : s.rows[k].id \in start =>
            k \notin none /\ \A j \in DOMAIN s.rows \ none : j <= k => To[j] <= To[k]
  BY <1>13
<1>16. rows \in Seq(RowsOfList)
  BY <1>7
<1> HIDE DEF none, start, gaps
<1>17. Rearranged(s, rows, To, none, place, gaps, start)
  BY <1>12, <1>13, <1>14, <1>15, <1>16 DEF Rearranged
<1>18. ReadingInv(Changed(s, rows, gaps, start))
  BY <1>17, RowsMovedKeep
<1> QED BY <1>18 DEF rows, start, gaps

(* A row that moves back leaves a gap; one that moves forward does not.     *)
LEMMA UpdateRowKeeps ==
  ASSUME NEW s, ReadingInv(s), NEW p \in DOMAIN s.rows, NEW q \in DOMAIN s.rows,
         NEW id, id = s.rows[p].id,
         NEW gaps, gaps = IF p < q THEN s.gaps + 1 ELSE s.gaps
  PROVE  ReadingInv(Changed(s, RowMoved(s.rows, p, q), gaps, s.start \ {id}))
<1> DEFINE n == Len(s.rows)
           rows == RowMoved(s.rows, p, q)
           start == s.start \ {id}
           moved == IF p < q THEN {p} ELSE {}
           To == [k \in 1..n |-> CameFrom(q, p, k)]
           From(k) == CameFrom(p, q, k)
<1>1. s.rows \in Seq(RowsOfList) /\ n \in Nat /\ DOMAIN s.rows = 1..n /\ DistinctIds(s.rows)
  BY ReadingFacts DEF ReadingInv
<1> HIDE DEF n
<1>2. p \in 1..n /\ q \in 1..n
  BY <1>1
<1>3. rows = [k \in 1..n |-> s.rows[From(k)]]
  BY <1>1 DEF RowMoved
<1>4. \A k \in 1..n : From(k) \in 1..n
  BY <1>1, <1>2 DEF CameFrom
<1>5. \A k \in 1..n : To[k] \in 1..n /\ From(To[k]) = k
  BY <1>1, <1>2 DEF CameFrom
<1>6. \A j, k \in 1..n : From(j) = From(k) => j = k
  BY <1>1, <1>2 DEF CameFrom
<1>7. \A j, k \in 1..n : j <= k /\ k # p /\ (p < q => j # p) => To[j] <= To[k]
  BY <1>1, <1>2 DEF CameFrom
<1> HIDE DEF From, To
<1>8. /\ rows \in Seq(RowsOfList) /\ Len(rows) = n /\ DOMAIN rows = 1..n
      /\ \A k \in 1..n : rows[k] = s.rows[From(k)]
  <2>1. \A k \in 1..n : rows[k] = s.rows[From(k)] /\ rows[k] \in RowsOfList
    <3>1. \A k \in 1..n : s.rows[k] \in RowsOfList
      BY <1>1
    <3> HIDE DEF rows
    <3> QED BY <1>3, <1>4, <3>1
  <2>2. rows = [k \in 1..n |-> rows[k]]
    BY <1>3
  <2> HIDE DEF rows
  <2> QED BY <1>1, <2>1, <2>2
<1> HIDE DEF rows
<1>9. DistinctIds(rows)
  <2>1. \A k \in 1..n : rows[k].id \in 1..Len(rows)
    <3>1. \A k \in 1..n : s.rows[k].id \in 1..n
      BY <1>1 DEF DistinctIds, n
    <3> QED BY <1>4, <1>8, <3>1
  <2>2. ASSUME NEW j \in 1..n, NEW k \in 1..n, rows[j].id = rows[k].id
        PROVE  j = k
    <3>1. From(j) \in 1..n /\ From(k) \in 1..n /\ s.rows[From(j)].id = s.rows[From(k)].id
      BY <1>4, <1>8, <2>2
    <3>2. From(j) = From(k)
      BY <1>1, <3>1 DEF DistinctIds
    <3> QED BY <1>6, <3>2
  <2> QED BY <1>8, <2>1, <2>2 DEF DistinctIds
<1>10. /\ \A k \in DOMAIN s.rows : To[k] \in DOMAIN rows
       /\ \A j, k \in DOMAIN s.rows : To[j] = To[k] => j = k
       /\ \A k \in DOMAIN s.rows \ moved : rows[To[k]] = s.rows[k]
  BY <1>1, <1>5, <1>8
<1>11. \/ moved = {} /\ gaps = s.gaps
       \/ moved = {p} /\ gaps = s.gaps + 1
  OBVIOUS
<1>12. \A k \in DOMAIN s.rows : s.rows[k].id \in start =>
         k \notin moved /\ \A j \in DOMAIN s.rows \ moved : j <= k => To[j] <= To[k]
  <2>1. SUFFICES ASSUME NEW k \in 1..n, s.rows[k].id \in start
                 PROVE  k \notin moved /\ \A j \in 1..n \ moved : j <= k => To[j] <= To[k]
    BY <1>1
  <2>2. k # p
    BY <2>1
  <2>3. \A j \in 1..n \ moved : p < q => j # p
    OBVIOUS
  <2>4. k \notin moved
    BY <2>2
  <2> HIDE DEF moved
  <2> QED BY <1>7, <2>2, <2>3, <2>4
<1>13. start \in SUBSET s.start
  OBVIOUS
<1>14. rows \in Seq(RowsOfList)
  BY <1>8
<1> HIDE DEF start, moved
<1>15. Rearranged(s, rows, To, moved, p, gaps, start)
  BY <1>9, <1>10, <1>11, <1>12, <1>13, <1>14 DEF Rearranged
<1>16. ReadingInv(Changed(s, rows, gaps, start))
  BY <1>15, RowsMovedKeep
<1> QED BY <1>16 DEF rows, start

(* A row that leaves is at its place still, but no longer listed.           *)
LEMMA RowLeavesKeeps ==
  ASSUME NEW s, ReadingInv(s),
         NEW p \in DOMAIN s.rows, NEW gone, gone = s.rows[p].id
  PROVE  ReadingInv(Changed(s, [s.rows EXCEPT ![p].matches = FALSE], s.gaps + 1, s.start \ {gone}))
<1> DEFINE n == Len(s.rows)
           rows == [s.rows EXCEPT ![p].matches = FALSE]
           start == s.start \ {gone}
           gaps == s.gaps + 1
           moved == {p}
           To == [k \in 1..n |-> k]
<1>1. s.rows \in Seq(RowsOfList) /\ n \in Nat /\ DOMAIN s.rows = 1..n /\ DistinctIds(s.rows)
  BY ReadingFacts DEF ReadingInv
<1>2. \A i \in 1..n : /\ s.rows[i] \in RowsOfList
                      /\ DOMAIN s.rows[i] = {"id", "user", "matches"}
  <2>1. \A row \in RowsOfList : DOMAIN row = {"id", "user", "matches"}
    BY DEF RowsOfList
  <2>2. \A i \in 1..n : s.rows[i] \in RowsOfList
    BY <1>1
  <2> QED BY <2>1, <2>2
<1>3. /\ DOMAIN rows = 1..n
      /\ \A i \in 1..n : i # p => rows[i] = s.rows[i]
      /\ rows[p] = [s.rows[p] EXCEPT !.matches = FALSE]
  BY <1>1
<1>4. /\ rows[p] \in RowsOfList
      /\ \A i \in 1..n : rows[i].id = s.rows[i].id
  BY <1>1, <1>2, <1>3 DEF RowsOfList
<1>5. rows \in Seq(RowsOfList) /\ Len(rows) = n
  <2>1. \A i \in 1..n : rows[i] \in RowsOfList
    BY <1>2, <1>3, <1>4
  <2>2. rows = [i \in 1..n |-> rows[i]]
    BY <1>1
  <2>3. n \in Nat
    BY <1>1
  <2> HIDE DEF rows, n
  <2> QED BY <2>1, <2>2, <2>3
<1> HIDE DEF rows
<1>6. DistinctIds(rows)
  BY <1>1, <1>3, <1>4, <1>5 DEF DistinctIds
<1> HIDE DEF n
<1>7. /\ \A k \in DOMAIN s.rows : To[k] \in DOMAIN rows
      /\ \A j, k \in DOMAIN s.rows : To[j] = To[k] => j = k
      /\ \A k \in DOMAIN s.rows \ moved : rows[To[k]] = s.rows[k]
  BY <1>1, <1>3
<1>8. \A k \in DOMAIN s.rows : s.rows[k].id \in start =>
        k \notin moved /\ \A j \in DOMAIN s.rows \ moved : j <= k => To[j] <= To[k]
  BY <1>1
<1>9. moved = {p} /\ gaps = s.gaps + 1 /\ start \in SUBSET s.start
  OBVIOUS
<1>10. rows \in Seq(RowsOfList)
  BY <1>5
<1> HIDE DEF start, moved, gaps, To
<1>11. Rearranged(s, rows, To, moved, p, gaps, start)
  BY <1>6, <1>7, <1>8, <1>9, <1>10 DEF Rearranged
<1>12. ReadingInv(Changed(s, rows, gaps, start))
  BY <1>11, RowsMovedKeep
<1> QED BY <1>12 DEF rows, start, gaps

-----------------------------------------------------------------------------
(* The invariant: what each question's sample is                            *)
RulesInv ==
  /\ question \in {"levels", "books", "pages"}
  /\ question = "levels" => /\ sample \in [deposits : Int, team : Team]
  /\ question = "books" => sample.db \in Tables /\ Balanced(sample.db)
                             /\ sample \in [db : Tables, operations : Int]
  /\ question = "pages" => ReadingInv(sample)

LEMMA RulesBegin == Init => RulesInv
<1> SUFFICES ASSUME Init PROVE RulesInv
  OBVIOUS
<1>1. CASE question = "levels"
  <2>1. PICK deposits \in DepositSums : sample = Alone(deposits)
    BY <1>1 DEF Init, Initially
  <2>2. deposits \in Int
    BY RulesAssumption DEF RulesAssumption
  <2>3. sample \in [deposits : Int, team : Team]
    BY <2>1, <2>2 DEF Alone, Team
  <2> QED BY <1>1, <2>3 DEF RulesInv
<1>2. CASE question = "books"
  <2>1. sample = NewBooks
    BY <1>2 DEF Init, Initially
  <2> DEFINE empty == Empty(Referrer)
  <2>2. empty \in Tables /\ Balanced(empty)
    BY RulesAssumption, EmptyIsBalanced
  <2>3. sample = [db |-> empty, operations |-> 0]
    BY <2>1 DEF NewBooks
  <2> HIDE DEF empty
  <2>4. sample \in [db : Tables, operations : Int] /\ sample.db \in Tables /\ Balanced(sample.db)
    BY <2>2, <2>3
  <2> QED BY <1>2, <2>4 DEF RulesInv
<1>3. CASE question = "pages"
  <2>1. sample \in Readings
    BY <1>3 DEF Init, Initially
  <2>2. ReadingInv(sample)
    BY <2>1, ReadingBegins
  <2> QED BY <1>3, <2>2 DEF RulesInv
<1> QED BY <1>1, <1>2, <1>3 DEF Init, Initially

LEMMA GrowTeamKeeps ==
  ASSUME RulesInv, question = "levels", GrowTeam
  PROVE  RulesInv'
<1>1. sample \in [deposits : Int, team : Team]
  BY DEF RulesInv
<1>20. PICK depth \in {"A", "B", "C"} :
         \E n \in TeamSizes[depth] : Grow("levels", [sample EXCEPT !.team[depth] = n])
  BY DEF GrowTeam
<1>2. PICK n \in TeamSizes[depth] : Grow("levels", [sample EXCEPT !.team[depth] = n])
  BY <1>20
<1>3. n \in Nat
  BY RulesAssumption DEF RulesAssumption
<1>4. sample' = [sample EXCEPT !.team = [sample.team EXCEPT ![depth] = n]] /\ question' = "levels"
  BY <1>2 DEF Grow
<1>5. sample.team \in Team
  BY <1>1
<1> DEFINE team == [sample.team EXCEPT ![depth] = n]
<1>6. team \in Team
  BY <1>3, <1>5 DEF Team
<1> HIDE DEF team
<1>7. sample' = [sample EXCEPT !.team = team]
  BY <1>4 DEF team
<1>8. sample' \in [deposits : Int, team : Team]
  BY <1>1, <1>6, <1>7
<1> QED BY <1>4, <1>8 DEF RulesInv

LEMMA OperateKeeps ==
  ASSUME NEW db, db \in Tables, Balanced(db), RulesInv, question = "books", Operate(db)
  PROVE  RulesInv'
<1>1. sample' = [db |-> db, operations |-> sample.operations + 1] /\ question' = "books"
  BY DEF Operate, Grow
<1>2. sample.operations + 1 \in Int
  BY DEF RulesInv
<1>3. sample' \in [db : Tables, operations : Int] /\ sample'.db = db
  BY <1>1, <1>2
<1> QED BY <1>1, <1>3 DEF RulesInv

LEMMA MoneyKeeps ==
  ASSUME RulesInv, question = "books", Money(sample.db)
  PROVE  RulesInv'
<1> DEFINE db == sample.db
<1>1. db \in Tables /\ Balanced(db)
  BY DEF RulesInv
<1>2. /\ Amounts["deposit"] \subseteq Nat /\ Amounts["adminDeposit"] \subseteq Nat
      /\ Amounts["reward"] \subseteq Nat /\ Amounts["dailyReward"] \subseteq Nat
  BY RulesAssumption DEF RulesAssumption, Operations
<1>3. \A n \in Nat : n \in Int
  OBVIOUS
<1> HIDE DEF db
<1>4. ASSUME NEW u \in Users, NEW amount \in Amounts["deposit"], Operate(Deposit(db, u, amount))
      PROVE  RulesInv'
  <2>1. amount \in Nat
    BY <1>2
  <2>2. Deposit(db, u, amount) \in Tables /\ Balanced(Deposit(db, u, amount))
    BY <1>1, <2>1, RulesAssumption, DepositKeepsBalance
  <2> QED BY <1>4, <2>2, OperateKeeps
<1>5. ASSUME NEW u \in Users, NEW amount \in Amounts["adminDeposit"], Operate(AdminDeposit(db, u, amount))
      PROVE  RulesInv'
  <2>1. amount \in Int /\ "admin-manual" \in Providers
    BY <1>2, <1>3 DEF Providers
  <2>2. /\ CreditDeposit(db, u, "admin-manual", amount) \in Tables
        /\ Balanced(CreditDeposit(db, u, "admin-manual", amount))
    BY <1>1, <2>1, CreditKeepsBalance
  <2>3. AdminDeposit(db, u, amount) \in Tables /\ Balanced(AdminDeposit(db, u, amount))
    BY <2>2 DEF AdminDeposit
  <2> QED BY <1>5, <2>3, OperateKeeps
<1>6. ASSUME NEW u \in Users, NEW amount \in Amounts["reward"], Operate(UserReward(db, u, amount))
      PROVE  RulesInv'
  <2>1. amount \in Int
    BY <1>2, <1>3
  <2>2. UserReward(db, u, amount) \in Tables /\ Balanced(UserReward(db, u, amount))
    BY <1>1, <2>1, RewardKeepsBalance
  <2> QED BY <1>6, <2>2, OperateKeeps
<1>7. ASSUME NEW u \in Users, NEW amount \in Amounts["dailyReward"], Operate(DailyReward(db, u, amount))
      PROVE  RulesInv'
  <2>1. amount \in Nat
    BY <1>2
  <2>2. DailyReward(db, u, amount) \in Tables /\ Balanced(DailyReward(db, u, amount))
    BY <1>1, <2>1, RulesAssumption, DailyRewardKeepsBalance
  <2> QED BY <1>7, <2>2, OperateKeeps
<1>8. ASSUME NEW u \in Users, NEW amount \in Amounts["deposit"], Operate(UnpaidDeposit(db, u, amount))
      PROVE  RulesInv'
  <2>1. amount \in Int
    BY <1>2, <1>3
  <2>2. UnpaidDeposit(db, u, amount) \in Tables /\ Balanced(UnpaidDeposit(db, u, amount))
    BY <1>1, <2>1, UnpaidKeepsBalance
  <2> QED BY <1>8, <2>2, OperateKeeps
<1> QED BY <1>4, <1>5, <1>6, <1>7, <1>8 DEF Money, db

LEMMA WithdrawalsKeep ==
  ASSUME RulesInv, question = "books", Withdrawals(sample.db)
  PROVE  RulesInv'
<1> DEFINE db == sample.db
<1>1. db \in Tables /\ Balanced(db)
  BY DEF RulesInv
<1>2. \A amount \in Amounts["withdrawal"] : amount \in Int
  BY RulesAssumption DEF RulesAssumption, Operations
<1> HIDE DEF db
<1>3. ASSUME NEW u \in Users, NEW amount \in Amounts["withdrawal"], Operate(Request(db, u, amount))
      PROVE  RulesInv'
  <2>1. Request(db, u, amount) \in Tables /\ Balanced(Request(db, u, amount))
    BY <1>1, <1>2, RequestKeepsBalance
  <2> QED BY <1>3, <2>1, OperateKeeps
<1>4. ASSUME NEW i \in WithStatus(db.withdraws, "PENDING"),
             Operate(Approve(db, i)) \/ Operate(Reject(db, i)) \/ Operate(AutoFlag(db, i))
      PROVE  RulesInv'
  <2>1. i \in DOMAIN db.withdraws /\ db.withdraws[i].status = "PENDING"
    BY DEF WithStatus
  <2>2. Approve(db, i) \in Tables /\ Balanced(Approve(db, i))
    BY <1>1, <2>1, ApproveKeepsBalance
  <2>3. Reject(db, i) \in Tables /\ Balanced(Reject(db, i))
    BY <1>1, <2>1, RejectKeepsBalance
  <2>4. AutoFlag(db, i) \in Tables /\ Balanced(AutoFlag(db, i))
    BY <1>1, <2>1, AutoFlagKeepsBalance
  <2> QED BY <1>4, <2>2, <2>3, <2>4, OperateKeeps
<1> QED BY <1>3, <1>4 DEF Withdrawals, db

LEMMA MachineTradeKeeps ==
  ASSUME RulesInv, question = "books", MachineTrade(sample.db)
  PROVE  RulesInv'
<1> DEFINE db == sample.db
<1>1. db \in Tables /\ Balanced(db)
  BY DEF RulesInv
<1>2. Seller \in Users /\ \A price \in Amounts["price"] : price \in Int
  BY RulesAssumption DEF RulesAssumption, Operations
<1> HIDE DEF db
<1>3. \A u \in Users : Refundable(db, u) \subseteq SUBSET DOMAIN db.machines
  BY DEF Refundable, OfUser
<1>4. ASSUME NEW u \in Users, NEW price \in Amounts["price"], Operate(BuyProduct(db, u, Seller, price))
      PROVE  RulesInv'
  <2>1. BuyProduct(db, u, Seller, price) \in Tables /\ Balanced(BuyProduct(db, u, Seller, price))
    BY <1>1, <1>2, BuyKeepsBalance
  <2> QED BY <1>4, <2>1, OperateKeeps
<1>5. ASSUME NEW u \in Users, NEW ms \in Refundable(db, u), Operate(Recover(db, u, ms))
      PROVE  RulesInv'
  <2>1. ms \in SUBSET DOMAIN db.machines
    BY <1>3
  <2>2. Recover(db, u, ms) \in Tables /\ Balanced(Recover(db, u, ms))
    BY <1>1, <2>1, RecoverKeepsBalance
  <2> QED BY <1>5, <2>2, OperateKeeps
<1>6. ASSUME NEW u \in Users, NEW ms \in Refundable(db, u) \ {{}}, Operate(HandleExpired(db, u, ms))
      PROVE  RulesInv'
  <2>1. ms \in SUBSET DOMAIN db.machines
    BY <1>3
  <2>2. HandleExpired(db, u, ms) \in Tables /\ Balanced(HandleExpired(db, u, ms))
    BY <1>1, <2>1, ExpiryKeepsBalance
  <2> QED BY <1>6, <2>2, OperateKeeps
<1> QED BY <1>4, <1>5, <1>6 DEF MachineTrade, db

LEMMA ReadersKeep ==
  ASSUME RulesInv, question = "pages", NEW s, ReadingInv(s), Grow("pages", s)
  PROVE  RulesInv'
BY DEF RulesInv, Grow

LEMMA ListsKeep ==
  ASSUME RulesInv, question = "pages", ReadPage \/ AddRow \/ UpdateRow \/ RowLeaves
  PROVE  RulesInv'
<1>1. ReadingInv(sample)
  BY DEF RulesInv
<1>2. CASE ReadPage
  <2> DEFINE items == Answer(sample.list, sample.rows, sample.page, sample.limit).items
             lastPage == Answer(sample.list, sample.rows, sample.page, sample.limit).lastPage
             seen == {row.id : row \in items}
             done == sample.page >= lastPage
             t == Turned(sample, seen, done)
  <2>1. ~sample.done /\ Grow("pages", t)
    BY <1>2 DEF ReadPage
  <2>2. /\ items = Answer(sample.list, sample.rows, sample.page, sample.limit).items
        /\ lastPage = Answer(sample.list, sample.rows, sample.page, sample.limit).lastPage
        /\ seen = {row.id : row \in items} /\ done \in BOOLEAN /\ (done => sample.page >= lastPage)
    OBVIOUS
  <2> HIDE DEF items, lastPage, seen, done
  <2>3. ReadingInv(t)
    BY <1>1, <2>1, <2>2, ReadPageKeeps
  <2> HIDE DEF t
  <2> QED BY <2>1, <2>3, ReadersKeep
<1>3. CASE AddRow
  <2> DEFINE n == Len(sample.rows)
             row(u) == NewRow(n + 1, u)
             t(u, j) == Changed(sample, RowAt(sample.rows, row(u), j), sample.gaps, sample.start)
             owners == IF sample.list \in Personal THEN Users ELSE {Reader}
             places == IF sample.list \in Unordered THEN 1..(n + 1) ELSE {1}
  <2>1. PICK u \in owners, j \in places : Grow("pages", t(u, j))
    BY <1>3 DEF AddRow
  <2>2. u \in Users /\ j \in 1..(n + 1)
    <3>1. n \in Nat /\ Reader \in Users
      BY <1>1, ReadingFacts, RulesAssumption DEF RulesAssumption
    <3> HIDE DEF n
    <3> QED BY <3>1
  <2>3. ReadingInv(t(u, j))
    BY <1>1, <2>2, AddRowKeeps
  <2> HIDE DEF t
  <2> QED BY <2>1, <2>3, ReadersKeep
<1>4. CASE UpdateRow
  <2> DEFINE id(i) == sample.rows[i].id
             gaps(i, j) == IF i < j THEN sample.gaps + 1 ELSE sample.gaps
             t(i, j) == Changed(sample, RowMoved(sample.rows, i, j), gaps(i, j), sample.start \ {id(i)})
  <2>1. PICK i \in DOMAIN sample.rows, j \in DOMAIN sample.rows : Grow("pages", t(i, j))
    BY <1>4 DEF UpdateRow
  <2>2. ReadingInv(t(i, j))
    BY <1>1, UpdateRowKeeps
  <2> HIDE DEF t
  <2> QED BY <2>1, <2>2, ReadersKeep
<1>5. CASE RowLeaves
  <2> DEFINE gone(i) == sample.rows[i].id
             rows(i) == [sample.rows EXCEPT ![i].matches = FALSE]
             t(i) == Changed(sample, rows(i), sample.gaps + 1, sample.start \ {gone(i)})
  <2>1. PICK i \in DOMAIN sample.rows : Grow("pages", t(i))
    BY <1>5 DEF RowLeaves
  <2>2. ReadingInv(t(i))
    BY <1>1, RowLeavesKeeps
  <2> HIDE DEF t
  <2> QED BY <2>1, <2>2, ReadersKeep
<1> QED BY <1>2, <1>3, <1>4, <1>5

LEMMA RulesStep == RulesInv /\ [Next]_<<question, sample>> => RulesInv'
<1> SUFFICES ASSUME RulesInv, [Next]_<<question, sample>> PROVE RulesInv'
  OBVIOUS
<1>1. CASE UNCHANGED <<question, sample>>
  BY <1>1 DEF RulesInv
<1>2. CASE question = "books" /\ KeepBooks
  BY <1>2, MoneyKeeps, WithdrawalsKeep, MachineTradeKeeps DEF KeepBooks
<1>3. CASE Next
  BY <1>2, <1>3, GrowTeamKeeps, ListsKeep DEF Next
<1> QED BY <1>1, <1>3

LEMMA RulesInvariant == Spec => []RulesInv
BY RulesBegin, RulesStep, PTL DEF Spec

(* Whatever was deposited and however the team grew, the scan of the level  *)
(* matrix (level.service.ts, evaluateUserLevel) grants the highest level    *)
(* any of whose two requirements is met.                                    *)
THEOREM TheScanGrantsTheHighest == Spec => []ScanGrantsTheHighest
<1>1. RulesInv => ScanGrantsTheHighest
  <2> SUFFICES ASSUME RulesInv, question = "levels"
               PROVE  LevelOf(sample.deposits, sample.team)
                        = Max(Granted(sample.deposits, sample.team) \cup {0})
    BY DEF ScanGrantsTheHighest
  <2>1. sample.deposits \in Int /\ sample.team \in Team
    BY DEF RulesInv
  <2> QED BY <2>1, ScanIsHighest
<1> QED BY <1>1, RulesInvariant, PTL

(* After any deposits (paid or not), rewards, withdrawals (approved,        *)
(* rejected or flagged), purchases and refunds of any users, the reports of *)
(* wallet.service.ts, dashboard.service.ts and referral.service.ts agree    *)
(* with each other, for any referrals, and with what is in the wallets.     *)
THEOREM ReportsAlwaysAddUp == Spec => []EarningsAddUp
<1>1. RulesInv => EarningsAddUp
  <2> SUFFICES ASSUME RulesInv, question = "books"
               PROVE  ReportsAgree(sample.db) /\ WalletsAddUp(sample.db)
    BY DEF EarningsAddUp
  <2>1. sample.db \in Tables /\ Balanced(sample.db)
    BY DEF RulesInv
  <2> QED BY <2>1, RulesAssumption, ReportsOfTables, WalletsOfBalanced
<1> QED BY <1>1, RulesInvariant, PTL

(* However many rows a list has, whatever the size of a page, wherever an   *)
(* added or updated row comes to lie and whatever else happens between two  *)
(* pages, whoever reads to the last page misses no more of the rows that    *)
(* were there, untouched, all the time than left the list or moved back in  *)
(* it meanwhile (skip and take of each paginated query).                    *)
THEOREM ReadersMissNothing == Spec => []PagesMissNothing
<1>1. RulesInv => PagesMissNothing
  BY DEF RulesInv, ReadingInv, PagesMissNothing
<1> QED BY <1>1, RulesInvariant, PTL
==============================================================================
