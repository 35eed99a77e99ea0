--------------------------------- MODULE Rules ---------------------------------
(***************************************************************************)
(* Three questions about definitions that have no state of their own.  The *)
(* state is a sample of what one question is about, and a step makes it    *)
(* larger: a user's deposits and team, the tables that reports are made    *)
(* of, somebody reading a list while it changes.                           *)
(***************************************************************************)
EXTENDS LevelRules, Books, Listings

CONSTANTS DepositSums,   \* what a user may have deposited
          TeamSizes,     \* how many users may be on each depth of a team
          Users,
          Referrer,      \* who referred a user, or NoOne
          Seller,        \* the user who owns the products
          Amounts,       \* the amounts of each operation on money
          MaxOperations,
          Reader,        \* the user whose lists are read
          Limits,        \* rows on a page
          MaxRows        \* of a list, and of gaps that updates leave in it

Operations == {"deposit", "adminDeposit", "reward", "dailyReward", "withdrawal", "price"}

RulesAssumption ==
  /\ DepositSums \subseteq Nat
  /\ TeamSizes \in [{"A", "B", "C"} -> SUBSET Nat]
  /\ IsFiniteSet(Users) /\ NoOne \notin Users
  /\ Referrer \in [Users -> Users \cup {NoOne}]
  /\ Seller \in Users
  /\ Amounts \in [Operations -> SUBSET Nat]
  /\ MaxOperations \in Nat
  /\ Reader \in Users
  /\ Limits \subseteq Nat \ {0}
  /\ MaxRows \in Nat

ASSUME RulesAssumption

VARIABLES question, sample

Initially(q, samples) == question = q /\ sample \in samples
Grow(q, s) == sample' = s /\ UNCHANGED question

-----------------------------------------------------------------------------
(* The level matrix                                                         *)
Alone(deposits) == [deposits |-> deposits, team |-> [A |-> 0, B |-> 0, C |-> 0]]

GrowTeam == \E depth \in {"A", "B", "C"} : \E n \in TeamSizes[depth] :
              /\ n > sample.team[depth]
              /\ Grow("levels", [sample EXCEPT !.team[depth] = n])

(* What the matrix says, with no scan: the highest level any of whose two   *)
(* requirements is met (comment at level.service.ts:96-98).                 *)
Granted(deposits, team) ==
  {l \in 1..6 : \E i \in 1..7 : /\ LEVELS[i].level = l
                                /\ \/ deposits >= LEVELS[i].deposit
                                   \/ /\ team.A >= LEVELS[i].A
                                      /\ team.B >= LEVELS[i].B
                                      /\ team.C >= LEVELS[i].C}

(* The scan grants the highest level the user is entitled to, so the rows   *)
(* are in the right order and the comparisons are inclusive.                *)
ScanGrantsTheHighest ==
  question = "levels" =>
    LevelOf(sample.deposits, sample.team) = Max(Granted(sample.deposits, sample.team) \cup {0})

-----------------------------------------------------------------------------
(* The books, which operations fill one after the other                     *)
NewBooks == [db |-> Empty(Referrer), operations |-> 0]

Operate(db) == /\ sample.operations < MaxOperations
               /\ Grow("books", [db |-> db, operations |-> sample.operations + 1])
Money(db) ==
  \E u \in Users :
     \/ \E amount \in Amounts["deposit"] : \/ Operate(Deposit(db, u, amount))
                                           \/ Operate(UnpaidDeposit(db, u, amount))
     \/ \E amount \in Amounts["adminDeposit"] : Operate(AdminDeposit(db, u, amount))
     \/ \E amount \in Amounts["reward"] : Operate(UserReward(db, u, amount))
     \/ \E amount \in Amounts["dailyReward"] : Operate(DailyReward(db, u, amount))

Withdrawals(db) ==
  \/ \E u \in Users, amount \in Amounts["withdrawal"] :
        /\ db.wallet[u].balance >= WithFee(amount)
        /\ Operate(Request(db, u, amount))
  \/ \E i \in WithStatus(db.withdraws, "PENDING") :
        Operate(Approve(db, i)) \/ Operate(Reject(db, i)) \/ Operate(AutoFlag(db, i))

(* Which machines a recovery or the job ends is for Machines to say; those  *)
(* that the trial fund paid for alone expire together.                      *)
Refundable(db, u) ==
  LET active == OfUser(db.machines, u) \cap WithStatus(db.machines, "ACTIVE")
      trialOnly == {i \in active : db.machines[i].walletSpend = 0}
  IN {ms \in SUBSET active : trialOnly \subseteq ms \/ trialOnly \cap ms = {}}

MachineTrade(db) ==
  \E u \in Users :
     \/ \E price \in Amounts["price"] :
          /\ price - TrialSpend(db.trial[u], price) <= db.wallet[u].balance
          /\ Operate(BuyProduct(db, u, Seller, price))
     \/ /\ db.trial[u].status = "ACTIVE"
        /\ \E ms \in Refundable(db, u) : Operate(Recover(db, u, ms))
     \/ \E ms \in Refundable(db, u) \ {{}} : Operate(HandleExpired(db, u, ms))

KeepBooks == Money(sample.db) \/ Withdrawals(sample.db) \/ MachineTrade(sample.db)

(* After any deposits, rewards, withdrawals, purchases and refunds, reports *)
(* of one figure agree: a user's wallet, dashboard and referral history,    *)
(* and their sums over the users with the administrator's summary and       *)
(* dashboard.  And they explain what is in the wallet.                      *)
EarningsAddUp == question = "books" => ReportsAgree(sample.db) /\ WalletsAddUp(sample.db)

(* "returns { available,reserved,total }" (wallet.service.ts:14): what is   *)
(* available and reserved makes up the total, as it does in the overview    *)
(* of the same wallet.  It is not so once anything is earned: line 66 adds   *)
(* earnings that the balance contains.                                      *)
TotalIsAvailableAndReserved == question = "books" => TotalsAgree(sample.db)

-----------------------------------------------------------------------------
(* Reading a list page by page, while rows are added, move because they are *)
(* updated (wallets to the front, as their order is by last update;         *)
(* products anywhere), or cease to match.                                   *)
NeverLeave == {"wallets", "transactions", "withdrawals", "userWithdrawals",
               "adminDeposits", "referrals", "teamBonuses"}
Lists == NeverLeave \cup {"deposits", "users", "products", "rewards"}
Unordered == {"products", "referrals"}
Personal == {"userWithdrawals", "deposits", "referrals", "rewards"}  \* of one user's rows only

NewRow(id, u) == [id |-> id, user |-> u, matches |-> TRUE]
Reading(list, limit, n) ==
  [list |-> list, limit |-> limit, page |-> 1, done |-> FALSE, shown |-> {}, gaps |-> 0,
   rows |-> [i \in 1..n |-> NewRow(n + 1 - i, Reader)], start |-> 1..n]
Readings == {Reading(list, limit, n) : list \in Lists, limit \in Limits, n \in 1..(MaxRows - 1)}

Answer(list, rows, page, limit) ==
  CASE list = "wallets" -> ListWallets(rows, page, limit)
    [] list = "transactions" -> ListAllTransactions(rows, page, limit)
    [] list = "withdrawals" -> GetPaginatedWithdrawals(rows, page, limit)
    [] list = "userWithdrawals" -> GetUserWithdrawals(rows, Reader, page, limit)
    [] list = "deposits" -> GetDeposits(rows, Reader, page, limit)
    [] list = "adminDeposits" -> ListAdminDeposits(rows, page, limit)
    [] list = "referrals" -> GetReferralListingByAdmin(rows, Reader, page, limit)
    [] list = "users" -> GetAllUsers(rows, page, limit)
    [] list = "products" -> ViewAllProducts(rows, page, limit)
    [] list = "rewards" -> FindAllAdmin(rows, Reader, page, limit)
    [] list = "teamBonuses" ->
         LET items == GetTeamBonusLogs(rows, page, limit)
         IN [items |-> items, lastPage |-> IF Cardinality(items) < limit THEN page ELSE page + 1]

Turned(s, seen, done) == [s EXCEPT !.shown = @ \cup seen, !.page = @ + 1, !.done = done]
ReadPage ==
  LET answer == Answer(sample.list, sample.rows, sample.page, sample.limit)
  IN /\ ~sample.done
     /\ Grow("pages", Turned(sample, {row.id : row \in answer.items},
                             sample.page >= answer.lastPage))

(* A gap is a place that others slip forward to fill.                       *)
Changed(s, rows, gaps, start) == [s EXCEPT !.rows = rows, !.gaps = gaps, !.start = start]
AddRow ==
  LET rows == sample.rows
      owners == IF sample.list \in Personal THEN Users ELSE {Reader}
      places == IF sample.list \in Unordered THEN 1..(Len(rows) + 1) ELSE {1}
  IN /\ ~sample.done
     /\ Len(rows) < MaxRows
     /\ \E u \in owners, j \in places :
          Grow("pages", Changed(sample, RowAt(rows, NewRow(Len(rows) + 1, u), j),
                                sample.gaps, sample.start))

UpdateRow ==
  LET rows == sample.rows
  IN /\ ~sample.done
     /\ sample.list \in {"wallets", "products"}
     /\ \E i \in DOMAIN rows, j \in DOMAIN rows :
          /\ sample.list = "wallets" => j = 1
          /\ i < j => sample.gaps < MaxRows
          /\ Grow("pages", Changed(sample, RowMoved(rows, i, j),
                                   IF i < j THEN sample.gaps + 1 ELSE sample.gaps,
                                   sample.start \ {rows[i].id}))

RowLeaves == /\ ~sample.done
             /\ sample.list \notin NeverLeave
             /\ \E i \in DOMAIN sample.rows :
                  LET rows == [sample.rows EXCEPT ![i].matches = FALSE]
                  IN /\ sample.rows[i].matches
                     /\ Grow("pages", Changed(sample, rows, sample.gaps + 1,
                                              sample.start \ {sample.rows[i].id}))

(* Whoever has read a list to its last page has been shown every row that   *)
(* was there from the start and was not changed meanwhile, except for as    *)
(* many rows as left the list, or moved to its back, and let others slip to *)
(* a page already read.                                                     *)
PagesMissNothing ==
  question = "pages" /\ sample.done => Cardinality(sample.start \ sample.shown) <= sample.gaps

-----------------------------------------------------------------------------
Init == \/ Initially("levels", {Alone(deposits) : deposits \in DepositSums})
        \/ Initially("books", {NewBooks})
        \/ Initially("pages", Readings)

Next == \/ question = "levels" /\ GrowTeam
        \/ question = "books" /\ KeepBooks
        \/ question = "pages" /\ (ReadPage \/ AddRow \/ UpdateRow \/ RowLeaves)

Spec == Init /\ [][Next]_<<question, sample>>
==============================================================================
