------------------------------- MODULE Listings -------------------------------
(***************************************************************************)
(* The lists the program shows page by page.                               *)
(*                                                                         *)
(* A list is a sequence of rows in the order of its query: newest first,   *)
(* or last updated first for wallets.  Products and referrals are asked    *)
(* for in no order: theirs is the order in which the database finds the    *)
(* rows in the table, where a row that is added or updated may come to lie *)
(* at any place.  Of a row it matters whose it is, and whether it has at   *)
(* the moment what the list asks for: a status, a provider, a date, not    *)
(* being deleted.                                                          *)
(***************************************************************************)
EXTENDS Integers, Sequences, FiniteSets, FiniteSetsExt

SkipOneMore(page, limit) == page * limit
Skip(page, limit) == (page - 1) * limit

(* A row comes to lie at place j; the row at place i moves to place j.      *)
RowAt(rows, row, j) == [k \in 1..(Len(rows) + 1) |-> IF k < j THEN rows[k]
                                                     ELSE IF k = j THEN row ELSE rows[k - 1]]
CameFrom(i, j, k) == IF k = j THEN i
                     ELSE IF i <= k /\ k < j THEN k + 1
                     ELSE IF j < k /\ k <= i THEN k - 1 ELSE k
RowMoved(rows, i, j) == [k \in DOMAIN rows |-> rows[CameFrom(i, j, k)]]

(* findMany({ where, skip, take }) with count() and Math.ceil(total / limit) *)
(* of the rows at the places found.                                         *)
Rank(found, i) == Cardinality({j \in found : j <= i})
Paginated(rows, found, page, limit) ==
  LET skip == Skip(page, limit)
      total == Cardinality(found)
  IN [items |-> {rows[i] : i \in {i \in found : skip < Rank(found, i) /\ Rank(found, i) <= skip + limit}},
      total |-> total,
      lastPage |-> (total + limit - 1) \div limit]

All(rows) == DOMAIN rows
Of(rows, u) == {i \in DOMAIN rows : rows[i].user = u}
Matching(rows) == {i \in DOMAIN rows : rows[i].matches}

ListWallets(rows, page, limit) == Paginated(rows, All(rows), page, limit)
ListAllTransactions(rows, page, limit) == Paginated(rows, All(rows), page, limit)
GetPaginatedWithdrawals(rows, page, limit) == Paginated(rows, All(rows), page, limit)
GetUserWithdrawals(rows, u, page, limit) == Paginated(rows, Of(rows, u), page, limit)
GetDeposits(rows, u, page, limit) == Paginated(rows, Of(rows, u) \cap Matching(rows), page, limit)
ListAdminDeposits(rows, page, limit) == Paginated(rows, Matching(rows), page, limit)
GetReferralListingByAdmin(rows, u, page, limit) == Paginated(rows, Of(rows, u), page, limit)
GetAllUsers(rows, page, limit) == Paginated(rows, Matching(rows), page, limit)
ViewAllProducts(rows, page, limit) == Paginated(rows, Matching(rows), page, limit)
(* An empty list of rewards has one page.                                   *)
FindAllAdmin(rows, u, page, limit) ==
  LET answer == Paginated(rows, Of(rows, u) \cap Matching(rows), page, limit)
  IN [answer EXCEPT !.lastPage = IF @ = 0 THEN 1 ELSE @]
(* The log of team bonuses tells no total.  It asks for req.user.sub, which *)
(* the token's user does not have, and so shows the rows of all users.      *)
GetTeamBonusLogs(rows, page, limit) == Paginated(rows, All(rows), page, limit).items

==============================================================================
