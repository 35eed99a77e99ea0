--------------------------------- MODULE Books ---------------------------------
(***************************************************************************)
(* What the reports say about the tables: wallet.service.ts,               *)
(* dashboard.service.ts and the sums of referral.service.ts.               *)
(*                                                                         *)
(* The tables are a record; each operation that writes to them is here a   *)
(* function from the tables before it to the tables after it, undisturbed  *)
(* by others (how they disturb each other is in Deposits, Machines and     *)
(* Withdrawals).                                                           *)
(***************************************************************************)
EXTENDS Wallets, Sequences, FiniteSets, FiniteSetsExt

CONSTANT NoOne

NoProvider == ""
Empty(referrer) ==
  [wallet |-> [u \in DOMAIN referrer |-> [balance |-> 0, reserved |-> 0]],
   trial |-> [u \in DOMAIN referrer |-> [status |-> "ACTIVE", used |-> 0]],
   referrer |-> referrer,  \* the Referral table: NoOne if a user was not referred
   deposits |-> <<>>, commissions |-> <<>>, rewards |-> <<>>, bonuses |-> <<>>, withdraws |-> <<>>,
   sales |-> <<>>, machines |-> <<>>]

(* aggregate({ _sum: amount, where }): found are the numbers of the rows    *)
Total(rows, found) == SumFunctionOnSet([i \in found |-> rows[i].amount], found)
OfUser(rows, u) == {i \in DOMAIN rows : rows[i].user = u}
WithStatus(rows, status) == {i \in DOMAIN rows : rows[i].status = status}

Paid(db, u, amount) == [db EXCEPT !.wallet = Move(@, u, amount, 0)]

-----------------------------------------------------------------------------
(* handleIPN for a deposit that was paid, with its bonus and commission;    *)
(* one that was not paid stays a row that no report counts                  *)
CreditDeposit(db, u, provider, amount) ==
  [Paid(db, u, amount) EXCEPT
     !.deposits = Append(@, [user |-> u, provider |-> provider, status |-> "SUCCESS", amount |-> amount])]
PayCommission(db, u, amount) ==
  [Paid(db, db.referrer[u], amount) EXCEPT
     !.commissions = Append(@, [referral |-> u, levelDepth |-> 1, amount |-> amount])]
Deposit(db, u, amount) ==
  LET mine == {db.deposits[i].provider :
                 i \in OfUser(db.deposits, u) \cap WithStatus(db.deposits, "SUCCESS")}
      credited == CreditDeposit(db, u, NoProvider, amount)
      rewarded == IF NoProvider \in mine THEN credited
                  ELSE CreditDeposit(credited, u, "BONUS", Percent(10, amount))
  IN IF db.referrer[u] = NoOne \/ mine \ {"BONUS"} # {} THEN rewarded
     ELSE PayCommission(rewarded, u, Percent(3, amount))
UnpaidDeposit(db, u, amount) ==
  [db EXCEPT !.deposits =
     Append(@, [user |-> u, provider |-> NoProvider, status |-> "FAILED", amount |-> amount])]
AdminDeposit(db, u, amount) == CreditDeposit(db, u, "admin-manual", amount)

(* userReward, and the daily reward with the bonus for up to three users    *)
(* above                                                                    *)
UserReward(db, u, amount) ==
  [Paid(db, u, amount) EXCEPT !.rewards = Append(@, [user |-> u, amount |-> amount])]
Above(db, u) == IF u = NoOne THEN NoOne ELSE db.referrer[u]
TeamBonus(db, up, bonus) ==
  IF up = NoOne THEN db
  ELSE [Paid(db, up, bonus) EXCEPT !.bonuses = Append(@, [user |-> up, amount |-> bonus])]
DailyReward(db, u, amount) ==
  LET first == Above(db, u)
      second == Above(db, first)
      third == Above(db, second)
      paidFirst == TeamBonus(UserReward(db, u, amount), first, Percent(18, amount))
  IN TeamBonus(TeamBonus(paidFirst, second, Percent(9, amount)), third, Percent(5, amount))

(* A withdrawal is requested, and approved (the fee stays in reserved),     *)
(* rejected, or flagged by the job, which returns nothing.                  *)
WithFee(amount) == amount + Percent(3, amount)
Request(db, u, amount) ==
  [db EXCEPT !.wallet = Move(@, u, -WithFee(amount), WithFee(amount)),
             !.withdraws = Append(@, [user |-> u, status |-> "PENDING", amount |-> amount])]
Answered(rows, i, status) ==
  [rows EXCEPT ![i] = [user |-> rows[i].user, status |-> status, amount |-> rows[i].amount]]
Approve(db, i) ==
  [db EXCEPT !.wallet = Move(@, db.withdraws[i].user, 0, -db.withdraws[i].amount),
             !.withdraws = Answered(@, i, "APPROVED")]
Reject(db, i) ==
  LET total == WithFee(db.withdraws[i].amount)
  IN [db EXCEPT !.wallet = Move(@, db.withdraws[i].user, total, -total),
                !.withdraws = Answered(@, i, "SUSPENDED")]
AutoFlag(db, i) == [db EXCEPT !.withdraws = Answered(@, i, "SUSPENDED")]

(* buyProduct: the trial fund pays what it can, the wallet the rest, and    *)
(* the seller gets the price.  Of a machine, amount is the fund's part.     *)
TRIAL_AMOUNT == 20000
TrialSpend(fund, price) ==
  IF fund.status = "ACTIVE" /\ fund.used < TRIAL_AMOUNT
  THEN IF price <= TRIAL_AMOUNT - fund.used THEN price ELSE TRIAL_AMOUNT - fund.used
  ELSE 0
BuyProduct(db, u, seller, price) ==
  LET fund == db.trial[u]
      spend == TrialSpend(fund, price)
  IN [db EXCEPT
        !.wallet = Move(Move(@, u, spend - price, price), seller, price, 0),
        !.trial = [db.trial EXCEPT ![u] = [status |-> fund.status, used |-> fund.used + spend]],
        !.sales = Append(@, [user |-> seller, amount |-> price]),
        !.machines = Append(@, [user |-> u, status |-> "ACTIVE", walletSpend |-> price - spend,
                                amount |-> spend])]

(* Machines ms of u are refunded: by recover, which ends the trial, or as   *)
(* expired, which returns what the fund spent on them to it.                *)
Ended(machines, ms) ==
  [i \in DOMAIN machines |->
     IF i \in ms THEN [user |-> machines[i].user, status |-> "REFUNDED",
                       walletSpend |-> machines[i].walletSpend, amount |-> machines[i].amount]
     ELSE machines[i]]
Refund(db, u, ms, fund) ==
  LET spent == SumFunctionOnSet([i \in ms |-> db.machines[i].walletSpend], ms)
  IN [db EXCEPT !.wallet = Move(@, u, spent, -spent),
                !.machines = Ended(@, ms),
                !.trial = [db.trial EXCEPT ![u] = fund]]
Recovered == [status |-> "RECOVERED", used |-> 0]
Recover(db, u, ms) == Refund(db, u, ms, Recovered)
HandleExpired(db, u, ms) ==
  LET fund == db.trial[u]
      returned == Total(db.machines, ms)
  IN Refund(db, u, ms, IF returned = 0 THEN fund
                       ELSE IF fund.used - returned <= 0 THEN Recovered
                       ELSE [status |-> fund.status, used |-> fund.used - returned])

-----------------------------------------------------------------------------
(* Commissions reach a report through the referral they were paid for.      *)
OfDepth(db, depths) == {i \in DOMAIN db.commissions : db.commissions[i].levelDepth \in depths}
PaidFor(db, u) == {i \in DOMAIN db.commissions : db.commissions[i].referral = u}
PaidTo(db, u) == {i \in DOMAIN db.commissions : db.referrer[db.commissions[i].referral] = u}
CommissionsFor(db, u, depths) == Total(db.commissions, PaidFor(db, u) \cap OfDepth(db, depths))
Commissions(db, u, depths) == Total(db.commissions, PaidTo(db, u) \cap OfDepth(db, depths))

GetUserWallet(db, u) ==
  LET wallet == db.wallet[u]
      referral == Commissions(db, u, {1})
      team == Commissions(db, u, {2, 3})
      investment == Total(db.rewards, OfUser(db.rewards, u))
  IN [balance |-> wallet.balance, reservedAmount |-> wallet.reserved,
      referralEarnings |-> referral, teamEarnings |-> team, investmentEarnings |-> investment,
      total |-> wallet.balance + wallet.reserved + referral + team + investment]

GetWalletOverview(db, u) == db.wallet[u].balance + db.wallet[u].reserved

SumOver(f) == SumFunctionOnSet(f, DOMAIN f)
GetAdminWalletSummary(db) ==
  [balance |-> SumOver([u \in DOMAIN db.wallet |-> db.wallet[u].balance]),
   reservedAmount |-> SumOver([u \in DOMAIN db.wallet |-> db.wallet[u].reserved]),
   referralEarnings |-> Total(db.commissions, OfDepth(db, {1})),
   teamEarnings |-> Total(db.commissions, OfDepth(db, {2, 3})),
   investmentEarnings |-> Total(db.rewards, DOMAIN db.rewards)]

GetDashboardStats(db) ==
  [rewardsDistributed |-> Total(db.rewards, DOMAIN db.rewards),
   platformBalance |-> SumOver([u \in DOMAIN db.wallet |-> db.wallet[u].balance]),
   totalRevenue |-> Total(db.deposits, WithStatus(db.deposits, "SUCCESS")),
   pendingWithdrawals |-> Total(db.withdraws, WithStatus(db.withdraws, "PENDING"))]

GetUserDashboardStats(db, u) ==
  [currentDeposit |-> Total(db.deposits, OfUser(db.deposits, u) \cap WithStatus(db.deposits, "SUCCESS")),
   currentBalance |-> db.wallet[u].balance,
   totalWithdraw |-> Total(db.withdraws, OfUser(db.withdraws, u) \cap WithStatus(db.withdraws, "APPROVED")),
   totalReferralBonus |-> Total(db.commissions, PaidTo(db, u))]

(* getReferralHistory: what each user referred by u has earned u            *)
GetReferralHistory(db, u) ==
  [m \in {n \in DOMAIN db.referrer : db.referrer[n] = u} |-> Total(db.commissions, PaidFor(db, m))]

-----------------------------------------------------------------------------
(* The reports of one user add up to those of the platform, and reports of  *)
(* one figure agree.                                                        *)
ReportsAgree(db) ==
  LET users == DOMAIN db.wallet
      SumOf(field) == SumOver([u \in users |-> GetUserWallet(db, u)[field]])
      summary == GetAdminWalletSummary(db)
  IN /\ \A field \in DOMAIN summary : summary[field] = SumOf(field)
     /\ GetDashboardStats(db).rewardsDistributed = summary.investmentEarnings
     /\ GetDashboardStats(db).platformBalance = summary.balance
     /\ GetDashboardStats(db).totalRevenue =
          SumOver([u \in users |-> GetUserDashboardStats(db, u).currentDeposit])
     /\ \A u \in users : LET own == GetUserWallet(db, u)
                             bonus == GetUserDashboardStats(db, u).totalReferralBonus
                         IN /\ bonus = own.referralEarnings + own.teamEarnings
                            /\ bonus = SumOver(GetReferralHistory(db, u))

(* What the wallet holds, free or reserved, is what came in and did not go  *)
(* out: the deposits, commissions and rewards that the reports show, the    *)
(* team bonuses, what was sold, and what the trial fund ever paid for       *)
(* machines (it is reserved with their price, and stays there), without the *)
(* withdrawals approved.                                                    *)
WalletsAddUp(db) == \A u \in DOMAIN db.wallet :
  LET own == GetUserWallet(db, u)
      stats == GetUserDashboardStats(db, u)
      AllOf(rows) == Total(rows, OfUser(rows, u))
  IN GetWalletOverview(db, u)
       = stats.currentDeposit + own.referralEarnings + own.teamEarnings + own.investmentEarnings
         + AllOf(db.bonuses) + AllOf(db.sales) + AllOf(db.machines) - stats.totalWithdraw

(* A wallet's "total" is what it has available and reserved.                *)
TotalsAgree(db) == \A u \in DOMAIN db.wallet : GetUserWallet(db, u).total = GetWalletOverview(db, u)
==============================================================================
