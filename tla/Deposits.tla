------------------------------- MODULE Deposits -------------------------------
(***************************************************************************)
(* deposit.service.ts with the part of level.service.ts it calls.          *)
(*                                                                         *)
(* The payment gateway announces the outcome of a deposit by calling the   *)
(* webhook, and repeats the call until it is answered.  handleIPN checks   *)
(* that the deposit is PENDING, credits it in a transaction, and then does *)
(* five more things one after the other, each of which may find that       *)
(* others have been at work, and none of which is undone or done again     *)
(* when a later one fails.  Any calls may overlap, also two for one        *)
(* deposit, and any call may fail at any of its steps.                     *)
(***************************************************************************)
EXTENDS Wallets, LevelRules, FiniteSets, FiniteSetsExt

CONSTANTS Users,
          Referrer,    \* who referred a user; NoUser if nobody did
          NoUser,
          TeamOf,      \* the size of each user's team
          DepositIds,
          Amounts,     \* the amounts users pay in, in cents
          Handlers     \* webhook calls that may be in flight at once

ASSUME DepositsAssumption ==
  /\ NoUser \notin Users
  /\ Referrer \in [Users -> Users \cup {NoUser}]
  /\ TeamOf \in [Users -> Team]
  /\ Amounts \subseteq Nat
  /\ IsFiniteSet(DepositIds) /\ IsFiniteSet(Handlers)

VARIABLES wallet,   \* Wallet table
          user,     \* User table: firstDepositBonus and level
          deposit,  \* Deposit table, the bonus deposits apart
          entries,  \* the rows of other tables written on account of a deposit
          gateway,  \* the outcomes that have been announced for a deposit
          ipn,      \* the webhook calls in flight
          twice,    \* history: deposits two calls were in flight for at once
          disturbed \* history: users two of whose calls were in flight at once, or
                    \*   one of whose calls failed after it had credited a deposit

vars == <<wallet, user, deposit, entries, gateway, ipn, twice, disturbed>>

REFERRAL_BONUS_PERCENT == 3
DEPOSIT_BONUS_PERCENT == 10

Absent == [status |-> "ABSENT"]
NoProvider == ""  \* the column's default, left by initDeposit
Deposit == [user : Users, amount : Amounts, provider : {NoProvider, "admin-manual"},
            status : {"PENDING", "SUCCESS", "FAILED"},
            locked : BOOLEAN]  \* is lockedUntil still ahead?

(* Rows that point back to a deposit: Transaction rows, BONUS deposits with *)
(* their FIRST_DEPOSIT bonus row, Commission rows, REFERRAL bonus rows.     *)
Entries == [transactions : Nat, firstBonus : Nat, commission : Nat, referralBonus : Nat]
NoEntries == [transactions |-> 0, firstBonus |-> 0, commission |-> 0, referralBonus |-> 0]

Idle == [at |-> "idle"]

(* Only a deposit of whole dollars gets past its Transaction row, and 10 or  *)
(* 3 percent of whole dollars are whole cents: nothing is rounded away.  What *)
(* a float product adds behind the cents is left out.                       *)
Bonus(d) == Percent(DEPOSIT_BONUS_PERCENT, deposit[d].amount)
Commission(d) == Percent(REFERRAL_BONUS_PERCENT, deposit[d].amount)

(* The deposits that count for levels and for "is this the first one".      *)
(* BONUS deposits do not; admin-manual ones do.                             *)
CountedAnyStatus(u) == {d \in DepositIds : deposit[d] # Absent /\ deposit[d].user = u}
Counted(u) == {d \in DepositIds : deposit[d].status = "SUCCESS" /\ deposit[d].user = u}
CountedSum(u) == SumFunctionOnSet([d \in Counted(u) |-> deposit[d].amount], Counted(u))

(* Transaction.amount is an Int column: an amount with cents makes the      *)
(* insert fail, and with it the transaction.                                *)
FitsTransactionRow(amount) == amount % 100 = 0

-----------------------------------------------------------------------------
(* The user of the deposit handler h is working on                          *)
UserOf(h) == deposit[ipn[h].d].user

Busy(u) == \E h \in Handlers : ipn[h] # Idle /\ UserOf(h) = u

Credited(h) == ipn[h].at \in {"referral", "commission", "pay", "bonus", "level", "sum", "evaluated"}

(* The wallet row is locked from the transaction's first write to its end.  *)
NeverWaits(u) == TRUE
WaitsForItself(u) == ~Busy(u)
WalletFree(u) == \A h \in Handlers : ipn[h].at = "credited" => UserOf(h) # u

Init == /\ wallet = [u \in Users |-> [balance |-> 0, reserved |-> 0]]
        /\ user = [u \in Users |-> [firstDepositBonus |-> FALSE, level |-> 1]]
        /\ deposit = [d \in DepositIds |-> Absent]
        /\ entries = [d \in DepositIds |-> NoEntries]
        /\ gateway = [d \in DepositIds |-> {}]
        /\ ipn = [h \in Handlers |-> Idle]
        /\ twice = {} /\ disturbed = {}

Goto(h, at) == ipn' = [ipn EXCEPT ![h].at = at]
Done(h) == ipn' = [ipn EXCEPT ![h] = Idle]

(* initDeposit: create the row; the request to the gateway that follows may *)
(* fail, and then the gateway never decides.                                *)
InitDeposit(d, u, amount) ==
  /\ deposit[d] = Absent
  /\ deposit' = [deposit EXCEPT ![d] = [user |-> u, amount |-> amount, provider |-> NoProvider,
                                        status |-> "PENDING", locked |-> FALSE]]
  /\ UNCHANGED <<wallet, user, entries, gateway, ipn, twice, disturbed>>

(* An outcome is announced.  Usually there is one, but nothing in the code  *)
(* holds the caller to it: the signature is not checked (lines 105-106).    *)
GatewayDecides(d, outcome) ==
  /\ deposit[d].status = "PENDING"
  /\ gateway' = [gateway EXCEPT ![d] = @ \cup {outcome}]
  /\ UNCHANGED <<wallet, user, deposit, entries, ipn, twice, disturbed>>

(* handleIPN: find the deposit; return if it is not PENDING ...             *)
AnyStatus(d) == deposit[d] # Absent
StillPending(d) == deposit[d].status = "PENDING"

IpnRead(h, d, outcome) ==
  /\ ipn[h] = Idle
  /\ outcome \in gateway[d]
  /\ StillPending(d)
  /\ ipn' = [ipn EXCEPT ![h] = [at |-> IF outcome = "SUCCESS" THEN "found" ELSE "failed",
                                d |-> d, seen |-> 0, target |-> 0, saw |-> FALSE]]
  /\ twice' = twice \cup {ipn[g].d : g \in {g \in Handlers : ipn[g] # Idle /\ ipn[g].d = d}}
  /\ disturbed' = disturbed \cup {u \in {deposit[d].user} : Busy(u)}
  /\ UNCHANGED <<wallet, user, deposit, entries, gateway>>

(* ... not a success: mark it FAILED, whatever it has become meanwhile      *)
IpnFail(h) ==
  /\ ipn[h].at = "failed"
  /\ deposit' = [deposit EXCEPT ![ipn[h].d].status = "FAILED"]
  /\ Done(h)
  /\ UNCHANGED <<wallet, user, entries, gateway, twice, disturbed>>

(* ... a success: the transaction updates the deposit and the wallet, which *)
(* locks both rows until it ends, and then reads firstDepositBonus ...      *)
IpnCredit(h) ==
  /\ ipn[h].at = "found"
  /\ WalletFree(UserOf(h))
  /\ ipn' = [ipn EXCEPT ![h] = [@ EXCEPT !.at = "credited",
                                          !.saw = user[UserOf(h)].firstDepositBonus]]
  /\ UNCHANGED <<wallet, user, deposit, entries, gateway, twice, disturbed>>

RecordedWithoutBonus(row, bonus) == [row EXCEPT !.transactions = @ + 1]
Recorded(row, bonus) == [row EXCEPT !.transactions = @ + 1, !.firstBonus = @ + bonus]

(* ... adds the bonus if this is the first deposit, and commits ...         *)
IpnCommit(h) ==
  /\ ipn[h].at = "credited"
  /\ LET d == ipn[h].d
         u == UserOf(h)
     IN /\ FitsTransactionRow(deposit[d].amount)
        /\ deposit' = [deposit EXCEPT ![d] = [@ EXCEPT !.status = "SUCCESS", !.locked = TRUE]]
        /\ wallet' = Move(wallet, u, deposit[d].amount + (IF ipn[h].saw THEN 0 ELSE Bonus(d)), 0)
        /\ user' = [user EXCEPT ![u].firstDepositBonus = TRUE]
        /\ entries' = [entries EXCEPT ![d] = Recorded(@, IF ipn[h].saw THEN 0 ELSE 1)]
  /\ Goto(h, "referral")
  /\ UNCHANGED <<gateway, twice, disturbed>>

(* ... then finds out whether a referrer is owed a commission (the referral *)
(* it reads first never changes) ...                                        *)
OtherDepositsOfAnyUser(d) == {e \in DepositIds : deposit[e].status = "SUCCESS"} \ {d}
PreviousUnlocked(d) == {e \in Counted(deposit[d].user) : ~deposit[e].locked} \ {d}
PreviousDeposits(d) == Counted(deposit[d].user) \ {d}

IpnReferral(h) ==
  /\ ipn[h].at = "referral"
  /\ LET d == ipn[h].d
     IN Goto(h, IF Referrer[UserOf(h)] # NoUser /\ PreviousDeposits(d) = {}
                THEN "commission" ELSE "level")
  /\ UNCHANGED <<wallet, user, deposit, entries, gateway, twice, disturbed>>

(* ... and if so writes the commission, pays it, and writes the bonus row,  *)
(* in three separate steps                                                  *)
IpnCommission(h) ==
  /\ ipn[h].at = "commission"
  /\ entries' = [entries EXCEPT ![ipn[h].d].commission = @ + 1]
  /\ Goto(h, "pay")
  /\ UNCHANGED <<wallet, user, deposit, gateway, twice, disturbed>>

IpnPayReferrer(h) ==
  /\ ipn[h].at = "pay"
  /\ WalletFree(Referrer[UserOf(h)])
  /\ wallet' = Move(wallet, Referrer[UserOf(h)], Commission(ipn[h].d), 0)
  /\ Goto(h, "bonus")
  /\ UNCHANGED <<user, deposit, entries, gateway, twice, disturbed>>

IpnReferralBonus(h) ==
  /\ ipn[h].at = "bonus"
  /\ entries' = [entries EXCEPT ![ipn[h].d].referralBonus = @ + 1]
  /\ Goto(h, "level")
  /\ UNCHANGED <<wallet, user, deposit, gateway, twice, disturbed>>

(* evaluateUserLevel: read the level ...                                    *)
EvalReadUser(h) ==
  /\ ipn[h].at = "level"
  /\ ipn' = [ipn EXCEPT ![h] = [@ EXCEPT !.at = "sum", !.seen = user[UserOf(h)].level]]
  /\ UNCHANGED <<wallet, user, deposit, entries, gateway, twice, disturbed>>

(* ... then the deposits and the team, which say what the level should be   *)
TargetRowNumber(u) == FirstMet(CountedSum(u), TeamOf[u])
TargetByCount(u) == LevelOf(100 * Cardinality(Counted(u)), TeamOf[u])
Target(u) == LevelOf(CountedSum(u), TeamOf[u])

EvalReadSum(h) ==
  /\ ipn[h].at = "sum"
  /\ ipn' = [ipn EXCEPT ![h] = [@ EXCEPT !.at = "evaluated", !.target = Target(UserOf(h))]]
  /\ UNCHANGED <<wallet, user, deposit, entries, gateway, twice, disturbed>>

(* ... and write that if it differs from the level read                     *)
EvalWrite(h) ==
  /\ ipn[h].at = "evaluated"
  /\ user' = IF ipn[h].target = ipn[h].seen THEN user
             ELSE [user EXCEPT ![UserOf(h)].level = ipn[h].target]
  /\ Done(h)
  /\ UNCHANGED <<wallet, deposit, entries, gateway, twice, disturbed>>

(* adminDepositService: one transaction; no bonus, commission or level.     *)
AdminDeposit(d, u, amount) ==
  /\ deposit[d] = Absent
  /\ FitsTransactionRow(amount)
  /\ WalletFree(u)
  /\ deposit' = [deposit EXCEPT ![d] = [user |-> u, amount |-> amount,
                                        provider |-> "admin-manual",
                                        status |-> "SUCCESS", locked |-> FALSE]]
  /\ wallet' = Move(wallet, u, amount, 0)
  /\ entries' = [entries EXCEPT ![d].transactions = @ + 1]
  /\ UNCHANGED <<user, gateway, ipn, twice, disturbed>>

(* DEPOSIT_LOCK_DAYS pass.                                                  *)
LockEnds(d) ==
  /\ deposit[d].status = "SUCCESS"
  /\ deposit[d].locked
  /\ deposit' = [deposit EXCEPT ![d].locked = FALSE]
  /\ UNCHANGED <<wallet, user, entries, gateway, ipn, twice, disturbed>>

(* The transaction is rolled back because the amount does not fit.          *)
IpnUnfit(h) ==
  /\ ipn[h].at = "credited"
  /\ ~FitsTransactionRow(deposit[ipn[h].d].amount)
  /\ Done(h)
  /\ UNCHANGED <<wallet, user, deposit, entries, gateway, twice, disturbed>>

(* A statement of a handler fails and ends it, or the server stops: an open *)
(* transaction is rolled back, and what was written before stays.           *)
IpnFailure(h) ==
  /\ ipn[h] # Idle
  /\ Done(h)
  /\ disturbed' = disturbed \cup {UserOf(g) : g \in {g \in {h} : Credited(g)}}
  /\ UNCHANGED <<wallet, user, deposit, entries, gateway, twice>>

Crash == /\ ipn' = [h \in Handlers |-> Idle]
         /\ disturbed' = disturbed \cup {UserOf(h) : h \in {g \in Handlers : Credited(g)}}
         /\ UNCHANGED <<wallet, user, deposit, entries, gateway, twice>>

Ipn(h) == \/ \E d \in DepositIds, outcome \in {"SUCCESS", "FAILURE"} : IpnRead(h, d, outcome)
          \/ IpnFail(h) \/ IpnCredit(h) \/ IpnCommit(h) \/ IpnUnfit(h)
          \/ IpnReferral(h) \/ IpnCommission(h) \/ IpnPayReferrer(h) \/ IpnReferralBonus(h)
          \/ EvalReadUser(h) \/ EvalReadSum(h) \/ EvalWrite(h)

Next == \/ \E d \in DepositIds, u \in Users, amount \in Amounts :
             InitDeposit(d, u, amount) \/ AdminDeposit(d, u, amount)
        \/ \E d \in DepositIds : \/ \E outcome \in {"SUCCESS", "FAILURE"} :
                                      GatewayDecides(d, outcome)
                                 \/ LockEnds(d)
        \/ \E h \in Handlers : Ipn(h) \/ IpnFailure(h)
        \/ Crash

Spec == Init /\ [][Next]_vars

(* The gateway repeats a call until it is answered, a handler goes on, the  *)
(* database grants row locks in turn, and failures do not go on for ever.   *)
FairSpec == /\ Spec
            /\ \A d \in DepositIds :
                  SF_vars(\E h \in Handlers, outcome \in gateway[d] : IpnRead(h, d, outcome))
            /\ \A h \in Handlers : /\ WF_vars(Ipn(h) /\ ipn[h] # Idle)
                                   /\ SF_vars(IpnCredit(h))
            /\ <>[][~Crash /\ \A h \in Handlers : ~IpnFailure(h)]_vars

-----------------------------------------------------------------------------
Call == {Idle} \cup [at : {"found", "failed", "credited", "referral", "commission", "pay",
                          "bonus", "level", "sum", "evaluated"},
                    d : DepositIds, seen : Levels, target : Levels, saw : BOOLEAN]

(* Shape of the state; no handler works on a deposit that does not exist.   *)
TypeOK == /\ wallet \in [Users -> Wallet]
          /\ user \in [Users -> [firstDepositBonus : BOOLEAN, level : Levels]]
          /\ deposit \in [DepositIds -> Deposit \cup {Absent}]
          /\ entries \in [DepositIds -> Entries]
          /\ gateway \in [DepositIds -> SUBSET {"SUCCESS", "FAILURE"}]
          /\ ipn \in [Handlers -> Call]
          /\ \A h \in Handlers : ipn[h] # Idle => deposit[ipn[h].d] # Absent
          /\ twice \subseteq DepositIds /\ disturbed \subseteq Users

SameUser(d, e) == deposit[d].status # "ABSENT" /\ deposit[e].status # "ABSENT"
                  /\ deposit[d].user = deposit[e].user

(* The first-deposit bonus is given once per user, however many webhook     *)
(* calls overlap and fail: firstDepositBonus is read after the transaction  *)
(* has locked the wallet, so no second transaction reads it too early.      *)
FirstBonusOnce ==
  \A d, e \in DepositIds :
     entries[d].firstBonus > 0 /\ entries[e].firstBonus > 0 /\ SameUser(d, e) =>
        d = e /\ entries[d].firstBonus = 1

(* Why: the handler that holds a user's wallet is the only one there, what   *)
(* it has read of firstDepositBonus stays true until it commits, and no     *)
(* bonus was given while that flag is FALSE.                                *)
LockHolderKnows ==
  /\ \A g, h \in Handlers :
        ipn[g].at = "credited" /\ ipn[h].at = "credited" /\ UserOf(g) = UserOf(h) => g = h
  /\ \A h \in Handlers :
        ipn[h].at = "credited" => ipn[h].saw = user[UserOf(h)].firstDepositBonus
  /\ \A d \in DepositIds :
        entries[d].firstBonus > 0 =>
           deposit[d] # Absent /\ user[deposit[d].user].firstDepositBonus

(* Every cent of a balance can be traced to rows, whatever overlaps and     *)
(* fails: deposits and bonuses exactly, as they are written with the money; *)
(* of a commission the row comes before the money and the bonus row after.  *)
DepositsOf(u) == {d \in DepositIds : deposit[d] # Absent /\ deposit[d].user = u}
ReferredOf(u) == {d \in DepositIds : deposit[d] # Absent /\ Referrer[deposit[d].user] = u}

BalanceIsTraceable ==
  \A u \in Users :
    LET own == [d \in DepositsOf(u) |-> entries[d].transactions * deposit[d].amount
                                         + entries[d].firstBonus * Bonus(d)]
        before == [d \in ReferredOf(u) |-> entries[d].commission * Commission(d)]
        after == [d \in ReferredOf(u) |-> entries[d].referralBonus * Commission(d)]
        owned == SumFunctionOnSet(own, DepositsOf(u))
    IN /\ wallet[u].balance >= owned + SumFunctionOnSet(after, ReferredOf(u))
       /\ wallet[u].balance <= owned + SumFunctionOnSet(before, ReferredOf(u))

(* The level that what was credited to a user, and the team, are worth.     *)
(* Deposits count as soon as they are credited, although the comment at     *)
(* level.service.ts:104 excludes them while they are locked.                *)
Earned(u) ==
  LET credited == {d \in DepositsOf(u) : entries[d].transactions > 0}
  IN LevelOf(SumFunctionOnSet([d \in credited |-> deposit[d].amount], credited), TeamOf[u])

(* A level other than the one users start with is earned by money that was  *)
(* credited, whatever stale sum an overlapping evaluation has written, and  *)
(* whatever contradictory outcomes make of the deposits' status.            *)
LevelIsEarned == \A u \in Users : user[u].level <= Max({1, Earned(u)})

(* "exclude bonuses & still-locked funds" (level.service.ts:104): a level   *)
(* above the first needs deposits whose lock has ended.                     *)
UnlockedSum(u) ==
  LET unlocked == {d \in Counted(u) : ~deposit[d].locked}
  IN SumFunctionOnSet([d \in unlocked |-> deposit[d].amount], unlocked)
LockedFundsDoNotCount ==
  \A u \in Users : user[u].level <= Max({1, LevelOf(UnlockedSum(u), TeamOf[u])})

(* A deposit is credited once, and is SUCCESS if and only if it was (the    *)
(* check of the status at line 114), unless two calls for it were in flight *)
(* at once: calls that fail, are repeated or come one after the other with  *)
(* different outcomes do not credit it twice.                               *)
CreditedOnce ==
  \A d \in DepositIds \ twice :
     entries[d].transactions = IF deposit[d].status = "SUCCESS" THEN 1 ELSE 0

(* Why: what the one handler found PENDING is PENDING when it credits it.   *)
CheckHolds ==
  \A h \in Handlers :
     ipn[h] # Idle /\ ipn[h].d \notin twice =>
        /\ \A g \in Handlers : ipn[g] # Idle /\ ipn[g].d = ipn[h].d => g = h
        /\ ipn[h].at \in {"found", "failed", "credited"} => deposit[ipn[h].d].status = "PENDING"

(* A referrer is paid for one deposit of the user referred ('previous       *)
(* deposits === 0' at line 204), also when calls for different deposits of  *)
(* the user overlap, fail and are repeated.                                 *)
CommissionOnce ==
  \A d, e \in DepositIds \ twice :
     entries[d].commission > 0 /\ entries[e].commission > 0 /\ SameUser(d, e) =>
        d = e /\ entries[d].commission = 1

(* When no handler is at work for a user whose deposits all came through    *)
(* the webhook, what follows from them has happened: the bonus in any case, *)
(* as it is written with the money; and unless a call failed on its way or  *)
(* met another of the same user, the referrer's commission, with its money  *)
(* and its bonus row ...                                                    *)
ThroughWebhook(u) ==
  /\ ~Busy(u)
  /\ Counted(u) # {}
  /\ \A d \in Counted(u) : deposit[d].provider = NoProvider

RewardsComplete ==
  \A u \in Users : ThroughWebhook(u) =>
     /\ \E d \in DepositsOf(u) : entries[d].firstBonus = 1
     /\ Referrer[u] # NoUser /\ u \notin disturbed =>
          \E d \in Counted(u) : entries[d].commission = 1 /\ entries[d].referralBonus = 1

(* ... and the level: "a level is granted when either personal deposit >=   *)
(* threshold or team counts meet thresholds" (level.service.ts:96-98).      *)
LevelIsGranted ==
  \A u \in Users \ disturbed : ThroughWebhook(u) => user[u].level = Earned(u)

(* A deposit that is announced as paid is credited in the end, through      *)
(* failures and repeated calls, if its amount fits a Transaction row and    *)
(* nothing else is announced for it.                                        *)
PaidIsCredited ==
  \A d \in DepositIds :
     gateway[d] = {"SUCCESS"} /\ FitsTransactionRow(deposit[d].amount)
        ~> deposit[d].status = "SUCCESS" \/ gateway[d] # {"SUCCESS"}
==============================================================================
