------------------------------- MODULE Machines -------------------------------
(***************************************************************************)
(* Machines: product.service.ts (buyProduct), trial-fund.service.ts,       *)
(* jobs.service.ts and points.ts.                                          *)
(*                                                                         *)
(* A user buys machines, with the 200.00 of a trial fund first and then    *)
(* from the wallet.  While a machine is ACTIVE it earns a reward every     *)
(* day, and the user's referrers a share of it.  Machines end in two ways: *)
(* an in-process timer recovers the trial fund when it expires, and a      *)
(* nightly job refunds machines whose own time is over.  All of them write *)
(* the same wallet, trial fund and machine rows.                           *)
(*                                                                         *)
(* Purchases, recoveries and refunds of one user may be at work at the same *)
(* time if Overlap is TRUE, as in the program; instances that are checked  *)
(* for liveness set it to FALSE to stay small.  Failures says whether      *)
(* transactions and servers fail.                                          *)
(***************************************************************************)
EXTENDS Wallets, FiniteSets, FiniteSetsExt

CONSTANTS Users,         \* those who signed up, each with a trial fund
          Seller,        \* the administrator who owns the products
          NoUser,
          Referrer,      \* who referred an account; NoUser if nobody did
          Opening,       \* what is in each wallet when the behaviour starts
          Products, Price, ProductLevel,
          LevelRows,     \* the Level table: levels and the points they take
          MachineIds,
          Handlers,      \* purchases that may be in flight at once
          Jobs,          \* refund jobs that may run at once
          MaxRuns,       \* reward runs in a behaviour
          Overlap,
          Failures

Accounts == Users \cup {Seller}

(* A price with cents makes every purchase fail, as Transaction.amount is   *)
(* an Int column: such products are left out.                               *)
ASSUME MachinesAssumption ==
  /\ IsFiniteSet(Users) /\ IsFiniteSet(Products)
  /\ IsFiniteSet(MachineIds) /\ IsFiniteSet(LevelRows)
  /\ Seller \notin Users /\ NoUser \notin Accounts
  /\ Users \cap MachineIds = {}   \* ids of different tables
  /\ Referrer \in [Accounts -> Accounts \cup {NoUser}]
  /\ Opening \in [Accounts -> Nat]
  /\ \A p \in Products : Price[p] \in Nat \ {0} /\ Price[p] % 100 = 0
  /\ ProductLevel \in [Products -> 0..6]
  /\ \A row \in LevelRows : row.level \in Nat /\ row.points \in Nat
  /\ MaxRuns \in Nat
  /\ Overlap \in BOOLEAN /\ Failures \in BOOLEAN

VARIABLES wallet,   \* Wallet table
          user,     \* User table: points and level
          trial,    \* TrialFund table
          machine,  \* UserProduct table
          reward,   \* Reward table: unique per user, product and date of the run
          timer,    \* trial funds with a timer in this process
          past,     \* users whose trial, and machines whose rental, has expired
          buy,      \* purchases in flight
          recovery, \* TrialFundService.recover in flight, per trial fund
          expiry,   \* runs of handleExpiredMachines in flight
          run,      \* the last run of handleDailyRewards and what it has to do
          clashed,  \* history: machines that two recoveries or refunds held at once
          rushed,   \* history: users who had two purchases in flight at once
          met       \* history: users with any two of these at work at once

tables == <<wallet, user, trial, machine, reward>>
handlers == <<buy, recovery, expiry, run>>
history == <<clashed, rushed, met>>
vars == <<tables, timer, past, handlers, history>>

TRIAL_AMOUNT == 20000
Runs == 1..MaxRuns
Absent == [status |-> "ABSENT"]
Idle == [at |-> "idle"]

Machine == [user : Users, product : Products, walletSpend : Nat, trialSpend : Nat,
            inTrial : BOOLEAN,  \* acquiredAt <= expiresAt of the trial fund?
            status : {"ACTIVE", "REFUNDED"}]

Active(u) == {m \in MachineIds : machine[m].status = "ACTIVE" /\ machine[m].user = u}

(* A machine paid by the trial fund alone expires with it, any other at the *)
(* end of its rental.  What counts is the clock the job started with.       *)
ExpiredBy(m, now) == IF machine[m].walletSpend = 0 THEN machine[m].user \in now ELSE m \in now
ExpiredTrials(u, now) == {m \in Active(u) : machine[m].walletSpend = 0 /\ ExpiredBy(m, now)}
Expired(u, now) == {m \in Active(u) : ExpiredBy(m, now)}

WalletSum(ms) == SumFunctionOnSet([m \in MachineIds |-> machine[m].walletSpend], ms)
TrialSum(ms) == SumFunctionOnSet([m \in MachineIds |-> machine[m].trialSpend], ms)
TrialProducts(ms) == {machine[m].product : m \in {n \in ms : machine[n].trialSpend > 0}}
RefundedRow(row) == [user |-> row.user, product |-> row.product, walletSpend |-> row.walletSpend,
                     trialSpend |-> row.trialSpend, inTrial |-> row.inTrial, status |-> "REFUNDED"]
MachinesWithout(ms) ==
  [m \in MachineIds |-> IF m \in ms THEN RefundedRow(machine[m]) ELSE machine[m]]

(* Both ways of ending a machine give back what the wallet spent on it.     *)
RefundedPrice(ms) == SumFunctionOnSet([m \in MachineIds |-> Price[machine[m].product]], ms)
RefundedWithTrial(u, ms) == Move(wallet, u, WalletSum(ms), -RefundedPrice(ms))
Refunded(u, ms) == Move(wallet, u, WalletSum(ms), -WalletSum(ms))

-----------------------------------------------------------------------------
BusyFor(u) == \/ \E h \in Handlers : buy[h] # Idle /\ buy[h].user = u
              \/ recovery[u] # Idle
              \/ \E j \in Jobs : expiry[j].at = "found" /\ expiry[j].user = u
MayStart(u) == Overlap \/ ~BusyFor(u)

(* What recoveries and refunds have found and not committed yet             *)
HeldForTrial == {m \in MachineIds : \E u \in Users : recovery[u].at = "found"
                                                  /\ m \in recovery[u].found}
HeldForRental == {m \in MachineIds : \E j \in Jobs : expiry[j].at = "found"
                                                   /\ m \in expiry[j].found}

(* recover holds the trial fund's row from its first write to its commit.   *)
TrialFree(u) == recovery[u].at # "found"

Init == /\ wallet = [a \in Accounts |-> [balance |-> Opening[a], reserved |-> 0]]
        /\ user = [u \in Users |-> [points |-> 0, level |-> 1]]
        /\ trial = [u \in Users |-> [status |-> "ACTIVE", used |-> 0]]
        /\ machine = [m \in MachineIds |-> Absent]
        /\ reward = [u \in Users |-> [p \in Products |-> [r \in Runs |-> "NONE"]]]
        /\ timer = Users
        /\ past = {}
        /\ buy = [h \in Handlers |-> Idle]
        /\ recovery = [u \in Users |-> Idle]
        /\ expiry = [j \in Jobs |-> Idle]
        /\ run = [date |-> 0, todo |-> {}]
        /\ clashed = {} /\ rushed = {} /\ met = {}

(* The clock reaches the end of a trial, or of a rental.                    *)
TrialEnds(u) == /\ u \notin past
                /\ past' = past \cup {u}
                /\ UNCHANGED <<tables, timer, handlers, history>>

RentalEnds(m) == /\ machine[m].status = "ACTIVE"
                 /\ machine[m].walletSpend > 0
                 /\ m \notin past
                 /\ past' = past \cup {m}
                 /\ UNCHANGED <<tables, timer, handlers, history>>

-----------------------------------------------------------------------------
(* buyProduct: the user's level, the product and the wallet are read ...    *)
Room == Cardinality({h \in Handlers : buy[h] # Idle})
          < Cardinality({m \in MachineIds : machine[m] = Absent})

BuyRead(h, u, p) ==
  /\ buy[h] = Idle
  /\ Room
  /\ MayStart(u)
  /\ user[u].level >= ProductLevel[p]
  /\ buy' = [buy EXCEPT ![h] = [at |-> "read", user |-> u, product |-> p,
                                balance |-> wallet[u].balance]]
  /\ rushed' = rushed \cup {v \in {u} : \E g \in Handlers : buy[g] # Idle /\ buy[g].user = v}
  /\ met' = met \cup {v \in {u} : BusyFor(v)}
  /\ UNCHANGED <<tables, timer, past, recovery, expiry, run, clashed>>

(* ... then the trial fund, which pays what it can: it is found by its      *)
(* status, whether or not it has expired ...                                *)
FromTrialUncapped(u, price) == IF trial[u].status = "ACTIVE"
                               THEN TRIAL_AMOUNT - trial[u].used ELSE 0
FromTrialAnyStatus(u, price) == Min({price, Max({0, TRIAL_AMOUNT - trial[u].used})})
FromTrial(u, price) == IF trial[u].status = "ACTIVE"
                       THEN Min({price, Max({0, TRIAL_AMOUNT - trial[u].used})})
                       ELSE 0

(* ... and the rest must be in the wallet that was read ...                 *)
CoversWithTrial(balance, due) == due <= balance + TRIAL_AMOUNT
Covers(balance, due) == due <= balance

BuySplit(h) ==
  /\ buy[h].at = "read"
  /\ LET price == Price[buy[h].product]
         spend == FromTrial(buy[h].user, price)
     IN buy' = [buy EXCEPT ![h] =
                  IF Covers(@.balance, price - spend)
                  THEN [at |-> "split", user |-> @.user, product |-> @.product, trialSpend |-> spend]
                  ELSE Idle]
  /\ UNCHANGED <<tables, timer, past, recovery, expiry, run, history>>

(* awardPoints: one point for 10.00, and the highest level that the points  *)
(* now reach, if it is higher than the one the user has; for less than a    *)
(* point nothing                                                            *)
Points(price) == price \div 1000
Reached(points) == {row.level : row \in {r \in LevelRows : r.points <= points}}
AwardedBefore(profile, inc) ==
  IF inc = 0 THEN profile
  ELSE [points |-> profile.points + inc,
        level |-> Max(Reached(profile.points) \cup {profile.level})]
Awarded(profile, inc) ==
  IF inc = 0 THEN profile
  ELSE [points |-> profile.points + inc,
        level |-> Max(Reached(profile.points + inc) \cup {profile.level})]

(* ... and one transaction moves the money and creates the machine.         *)
BuyCommit(h, m) ==
  /\ buy[h].at = "split"
  /\ machine[m] = Absent
  /\ LET u == buy[h].user
         price == Price[buy[h].product]
         spend == buy[h].trialSpend
     IN /\ spend > 0 => TrialFree(u)
        /\ wallet' = Move(Move(wallet, u, spend - price, price), Seller, price, 0)
        /\ trial' = [trial EXCEPT ![u] = [status |-> @.status, used |-> @.used + spend]]
        /\ machine' = [machine EXCEPT ![m] =
                         [user |-> u, product |-> buy[h].product,
                          walletSpend |-> price - spend, trialSpend |-> spend,
                          inTrial |-> u \notin past, status |-> "ACTIVE"]]
        /\ user' = [user EXCEPT ![u] = Awarded(@, Points(price))]
  /\ buy' = [buy EXCEPT ![h] = Idle]
  /\ UNCHANGED <<reward, timer, past, recovery, expiry, run, history>>

-----------------------------------------------------------------------------
(* The timer of a trial fund fires and calls recover, which goes on if the  *)
(* fund is still ACTIVE ...                                                 *)
RecoverRead(u) ==
  /\ u \in timer
  /\ u \in past
  /\ recovery[u] = Idle
  /\ MayStart(u)
  /\ timer' = timer \ {u}
  /\ recovery' = [recovery EXCEPT ![u] = IF trial[u].status = "ACTIVE"
                                         THEN [at |-> "checked", found |-> {}] ELSE Idle]
  /\ met' = met \cup {v \in {u} : BusyFor(v) /\ trial[v].status = "ACTIVE"}
  /\ UNCHANGED <<tables, past, buy, expiry, run, clashed, rushed>>

(* ... updates it, and finds the machines bought while it had not expired,  *)
(* those the wallet paid for included ...                                   *)
RecoverableAnyStatus(u) ==
  {m \in MachineIds : machine[m] # Absent /\ machine[m].user = u /\ machine[m].inTrial}
Recoverable(u) == {m \in Active(u) : machine[m].inTrial}

RecoverFind(u) ==
  /\ recovery[u].at = "checked"
  /\ recovery' = [recovery EXCEPT ![u] = [at |-> "found", found |-> Recoverable(u)]]
  /\ clashed' = clashed \cup (Recoverable(u) \cap HeldForRental)
  /\ UNCHANGED <<tables, timer, past, buy, expiry, run, rushed, met>>

(* ... refunds each, and marks all rewards of the products that trial money *)
(* went into.                                                               *)
RecoverCommit(u) ==
  /\ recovery[u].at = "found"
  /\ LET found == recovery[u].found
     IN /\ wallet' = Refunded(u, found)
        /\ machine' = MachinesWithout(found)
        /\ reward' = [reward EXCEPT ![u] = [p \in Products |-> [r \in Runs |->
                        IF p \in TrialProducts(found) /\ @[p][r] # "NONE" THEN "REVERSED"
                        ELSE @[p][r]]]]
  /\ trial' = [trial EXCEPT ![u] = [status |-> "RECOVERED", used |-> 0]]
  /\ recovery' = [recovery EXCEPT ![u] = Idle]
  /\ UNCHANGED <<user, timer, past, buy, expiry, run, history>>

-----------------------------------------------------------------------------
(* handleExpiredMachines: group the expired machines by user ...            *)
ExpiryStart(j) ==
  /\ expiry[j] = Idle
  /\ LET todo == {u \in Users : Expired(u, past) # {}}
     IN /\ todo # {}
        /\ expiry' = [expiry EXCEPT ![j] = [at |-> "users", now |-> past, todo |-> todo]]
  /\ UNCHANGED <<tables, timer, past, buy, recovery, run, history>>

NextUser(job, u) == IF job.todo = {u} THEN Idle
                    ELSE [at |-> "users", now |-> job.now, todo |-> job.todo \ {u}]

(* ... for each user, in a transaction, find them ...                       *)
ExpiryFind(j, u) ==
  /\ expiry[j].at = "users"
  /\ u \in expiry[j].todo
  /\ MayStart(u)
  /\ LET found == Expired(u, expiry[j].now)
     IN /\ expiry' = [expiry EXCEPT ![j] =
                        IF found = {} THEN NextUser(@, u)
                        ELSE [at |-> "found", now |-> @.now, todo |-> @.todo,
                              user |-> u, found |-> found]]
        /\ clashed' = clashed \cup (found \cap (HeldForTrial \cup HeldForRental))
        /\ met' = met \cup {v \in {u} : BusyFor(v) /\ found # {}}
  /\ UNCHANGED <<tables, timer, past, buy, recovery, run, rushed>>

(* ... refund what was found, mark whatever is expired by now, take the     *)
(* trial part off the trial fund, which is RECOVERED when nothing is left,  *)
(* and mark the rewards FAILED (the update to REVERSED that follows in the  *)
(* code looks for SUCCESS, and there is none left).                         *)
ReturnedAtOnce(fund, spend) == [status |-> "RECOVERED", used |-> 0]
Returned(fund, spend) == IF fund.used - spend <= 0
                         THEN [status |-> "RECOVERED", used |-> 0]
                         ELSE [status |-> fund.status, used |-> fund.used - spend]

ExpiryCommit(j) ==
  /\ expiry[j].at = "found"
  /\ LET u == expiry[j].user
         found == expiry[j].found
         spend == TrialSum(found)
     IN /\ spend > 0 => TrialFree(u)
        /\ wallet' = Refunded(u, found)
        /\ machine' = MachinesWithout(Expired(u, expiry[j].now))
        /\ trial' = IF spend > 0 THEN [trial EXCEPT ![u] = Returned(@, spend)] ELSE trial
        /\ reward' = [reward EXCEPT ![u] = [p \in Products |-> [r \in Runs |->
                        IF p \in TrialProducts(found) /\ @[p][r] = "SUCCESS" THEN "FAILED"
                        ELSE @[p][r]]]]
        /\ expiry' = [expiry EXCEPT ![j] = NextUser(@, u)]
  /\ UNCHANGED <<user, timer, past, buy, recovery, run, history>>

-----------------------------------------------------------------------------
(* handleDailyRewards: list the ACTIVE machines; the time of the start is   *)
(* the date of all rewards of the run ...                                   *)
RewardStart ==
  /\ run.todo = {}
  /\ run.date < MaxRuns
  /\ LET todo == {m \in MachineIds : machine[m].status = "ACTIVE"}
     IN todo # {} /\ run' = [date |-> run.date + 1, todo |-> todo]
  /\ UNCHANGED <<tables, timer, past, buy, recovery, expiry, history>>

PctByLevel == [level \in 0..6 |-> <<100, 150, 175, 200, 230, 275, 300>>[level + 1]]
RewardOf(p) == (Price[p] * PctByLevel[ProductLevel[p]] + 5000) \div 10000

(* distributeTeamBonus: up to three referrers, one above the other, get     *)
(* their share; where there is none the distribution stops.                 *)
CommissionRates == <<18, 9, 5>>
SpillOver(a) == IF a = NoUser \/ Referrer[a] = NoUser THEN a ELSE Referrer[a]
ReferrerOf(a) == IF a = NoUser THEN NoUser ELSE Referrer[a]
Uplines(u) == <<ReferrerOf(u), ReferrerOf(ReferrerOf(u)), ReferrerOf(ReferrerOf(ReferrerOf(u)))>>
TeamBonus(a, u, earning) ==
  LET Share(k) == IF Uplines(u)[k] = a THEN Percent(CommissionRates[k], earning) ELSE 0
  IN Share(1) + Share(2) + Share(3)

(* ... and pay for one after the other, each in a transaction: the reward   *)
(* row, the owner's wallet and the referrers' wallets together ...          *)
RewardPay(m) ==
  /\ m \in run.todo
  /\ LET u == machine[m].user
         p == machine[m].product
         earning == RewardOf(p)
     IN /\ reward[u][p][run.date] = "NONE"
        /\ reward' = [reward EXCEPT ![u][p][run.date] = "SUCCESS"]
        /\ wallet' = [a \in Accounts |->
                        [balance |-> wallet[a].balance + TeamBonus(a, u, earning)
                                       + (IF a = u THEN earning ELSE 0),
                         reserved |-> wallet[a].reserved]]
  /\ run' = [date |-> run.date, todo |-> run.todo \ {m}]
  /\ UNCHANGED <<user, trial, machine, timer, past, buy, recovery, expiry, history>>

(* ... until the user's second machine of a product: its row would have the *)
(* same user, product and date, the insert fails, and the run is over.      *)
RewardClash(m) ==
  /\ m \in run.todo
  /\ reward[machine[m].user][machine[m].product][run.date] # "NONE"
  /\ run' = [date |-> run.date, todo |-> {}]
  /\ UNCHANGED <<tables, timer, past, buy, recovery, expiry, history>>

-----------------------------------------------------------------------------
(* A transaction fails: it is rolled back, and the handler or the job that  *)
(* it belongs to ends.                                                      *)
BuyFails(h) == /\ Failures
               /\ buy[h] # Idle
               /\ buy' = [buy EXCEPT ![h] = Idle]
               /\ UNCHANGED <<tables, timer, past, recovery, expiry, run, history>>

RecoveryFails(u) == /\ Failures
                    /\ recovery[u] # Idle
                    /\ recovery' = [recovery EXCEPT ![u] = Idle]
                    /\ UNCHANGED <<tables, timer, past, buy, expiry, run, history>>

ExpiryFails(j) == /\ Failures
                  /\ expiry[j] # Idle
                  /\ expiry' = [expiry EXCEPT ![j] = Idle]
                  /\ UNCHANGED <<tables, timer, past, buy, recovery, run, history>>

RewardFails == /\ Failures
               /\ run.todo # {}
               /\ run' = [date |-> run.date, todo |-> {}]
               /\ UNCHANGED <<tables, timer, past, buy, recovery, expiry, history>>

(* The server stops and starts: nothing sets the timers again.              *)
Crash == /\ Failures
         /\ timer' = {}
         /\ buy' = [h \in Handlers |-> Idle]
         /\ recovery' = [u \in Users |-> Idle]
         /\ expiry' = [j \in Jobs |-> Idle]
         /\ run' = [date |-> run.date, todo |-> {}]
         /\ UNCHANGED <<tables, past, history>>

Buy(h) == \/ \E u \in Users, p \in Products : BuyRead(h, u, p)
          \/ BuySplit(h)
          \/ \E m \in MachineIds : BuyCommit(h, m)
Recover(u) == RecoverRead(u) \/ RecoverFind(u) \/ RecoverCommit(u)
Expire(j) == ExpiryStart(j) \/ (\E u \in Users : ExpiryFind(j, u)) \/ ExpiryCommit(j)

Next == \/ \E h \in Handlers : Buy(h) \/ BuyFails(h)
        \/ \E u \in Users : TrialEnds(u) \/ Recover(u) \/ RecoveryFails(u)
        \/ \E m \in MachineIds : RentalEnds(m) \/ RewardPay(m) \/ RewardClash(m)
        \/ \E j \in Jobs : Expire(j) \/ ExpiryFails(j)
        \/ RewardStart \/ RewardFails \/ Crash

Spec == Init /\ [][Next]_vars

(* Purchases and recoveries come to an end; cron starts the job again and   *)
(* again and the job goes on, when a user is free for it; and failures do   *)
(* not go on for ever.                                                      *)
Failing == \/ \E h \in Handlers : BuyFails(h)
           \/ \E u \in Users : RecoveryFails(u)
           \/ \E j \in Jobs : ExpiryFails(j)
           \/ Crash

FairSpec ==
  /\ Spec
  /\ \A h \in Handlers : WF_vars(BuySplit(h) \/ \E m \in MachineIds : BuyCommit(h, m))
  /\ \A u \in Users : WF_vars(RecoverFind(u) \/ RecoverCommit(u))
  /\ \A j \in Jobs : /\ WF_vars(ExpiryStart(j) \/ ExpiryCommit(j))
                      /\ \A u \in Users : SF_vars(ExpiryFind(j, u))
  /\ <>[][~Failing]_vars

-----------------------------------------------------------------------------
Purchase == [at : {"read"}, user : Users, product : Products, balance : Int]
            \cup [at : {"split"}, user : Users, product : Products, trialSpend : Nat]
Expiry == [at : {"users"}, now : SUBSET (Users \cup MachineIds), todo : SUBSET Users]
          \cup [at : {"found"}, now : SUBSET (Users \cup MachineIds), todo : SUBSET Users,
                user : Users, found : SUBSET MachineIds]

(* Shape of the state; jobs only hold machines that exist.                  *)
TypeOK ==
  /\ wallet \in [Accounts -> Wallet]
  /\ user \in [Users -> [points : Nat, level : Nat]]
  /\ trial \in [Users -> [status : {"ACTIVE", "RECOVERED"}, used : Int]]
  /\ machine \in [MachineIds -> Machine \cup {Absent}]
  /\ reward \in [Users -> [Products -> [Runs -> {"NONE", "SUCCESS", "FAILED", "REVERSED"}]]]
  /\ timer \subseteq Users
  /\ past \subseteq Users \cup MachineIds
  /\ buy \in [Handlers -> Purchase \cup {Idle}]
  /\ recovery \in [Users -> [at : {"checked", "found"}, found : SUBSET MachineIds] \cup {Idle}]
  /\ expiry \in [Jobs -> Expiry \cup {Idle}]
  /\ run \in [date : 0..MaxRuns, todo : SUBSET MachineIds]
  /\ \A m \in run.todo : machine[m] # Absent
  /\ clashed \subseteq MachineIds /\ rushed \subseteq Users /\ met \subseteq Users

(* What a wallet should hold: what it opened with; less what it has in      *)
(* ACTIVE machines; plus the prices of all machines, for the seller; plus   *)
(* a reward for each reward row of one of the statuses given; plus a share  *)
(* of the rewards of those up to three generations below.                   *)
ReferredBy(referrers) == {a \in Accounts : Referrer[a] \in referrers}

RewardRows(us, statuses) ==
  {row \in (us \cap Users) \X Products \X Runs : reward[row[1]][row[2]][row[3]] \in statuses}
RewardSum(rate, rows) ==
  SumFunctionOnSet([row \in Users \X Products \X Runs |-> Percent(rate, RewardOf(row[2]))], rows)
AnyReward == {"SUCCESS", "FAILED", "REVERSED"}

Explained(a, statuses) ==
  Opening[a] - WalletSum(Active(a))
  + (IF a = Seller THEN RefundedPrice({m \in MachineIds : machine[m] # Absent}) ELSE 0)
  + RewardSum(100, RewardRows({a}, statuses))
  + RewardSum(18, RewardRows(ReferredBy({a}), AnyReward))
  + RewardSum(9, RewardRows(ReferredBy(ReferredBy({a})), AnyReward))
  + RewardSum(5, RewardRows(ReferredBy(ReferredBy(ReferredBy({a}))), AnyReward))

(* Every cent of every wallet is explained by rows, whatever overlaps and   *)
(* fails: a machine is refunded once and by what the wallet paid, and       *)
(* reward, reward row and referrers' shares come together or not at all.    *)
(* Only where two transactions held the same machine may it be paid back    *)
(* twice, as neither looks at its status again before it writes.            *)
NoneClashed(a) == \A m \in clashed : machine[m].user # a

BalanceIsExplained ==
  \A a \in Accounts : NoneClashed(a) => wallet[a].balance = Explained(a, AnyReward)

(* Purchases reserve the whole price and both refunds release what the      *)
(* wallet paid: reserved holds the price of ACTIVE machines and, for ever,  *)
(* the trial part of those refunded, whatever overlaps and fails.           *)
ReservedIsExplained ==
  \A u \in Users : NoneClashed(u) =>
     wallet[u].reserved = RefundedPrice(Active(u))
       + TrialSum({m \in MachineIds : machine[m].status = "REFUNDED" /\ machine[m].user = u})

(* usedAmount is what ACTIVE machines hold of an ACTIVE trial fund, never   *)
(* more than there is, and nothing is spent of one that is RECOVERED: two   *)
(* ways of ending a trial and two of ending a machine keep the books, for   *)
(* a user of whom no two of them and no purchase were at work at once.      *)
TrialUsageIsExplained ==
  \A u \in Users \ met :
     /\ trial[u].status = "ACTIVE" => trial[u].used = TrialSum(Active(u))
     /\ trial[u].status = "RECOVERED" => trial[u].used = 0
     /\ trial[u].used <= TRIAL_AMOUNT

(* Once a trial fund is RECOVERED no machine bought before the trial        *)
(* expired has its money in it any more, whichever of the two recovered it. *)
(* A machine bought later, while the fund was still ACTIVE, keeps it until  *)
(* the job refunds the machine: the recovery does not look for it.          *)
TrialMoneyReturned ==
  \A u \in Users \ met : trial[u].status = "RECOVERED" =>
     \A m \in Active(u) : machine[m].inTrial => machine[m].trialSpend = 0

(* "Insufficient wallet funds" (product.service.ts:271) is checked against  *)
(* a wallet read before the transaction.  What comes in between takes       *)
(* nothing from that wallet, unless it is another purchase of the user.     *)
NeverOverdrawn == \A u \in Users \ rushed : wallet[u].balance >= 0

(* Points tell what was bought, and the level of those who have points is   *)
(* never below what they reach, as it is computed from the row that the     *)
(* increment returned.                                                      *)
Owned(u) == {m \in MachineIds : machine[m] # Absent /\ machine[m].user = u}
PointSum(ms) == SumFunctionOnSet([m \in MachineIds |-> Points(Price[machine[m].product])], ms)

LevelFollowsPoints ==
  \A u \in Users :
     /\ user[u].points = PointSum(Owned(u))
     /\ user[u].points > 0 => \A level \in Reached(user[u].points) : level <= user[u].level

(* An expired machine is refunded in the end, though timers are lost in     *)
(* crashes and jobs cut short by them and by failures at other users.       *)
ExpiredIsRefunded ==
  \A m \in MachineIds :
     machine[m].status = "ACTIVE" /\ ExpiredBy(m, past) ~> machine[m].status = "REFUNDED"
==============================================================================
