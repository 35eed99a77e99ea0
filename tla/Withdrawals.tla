----------------------------- MODULE Withdrawals -----------------------------
(***************************************************************************)
(* withdraw.service.ts and job/withdraw.job.ts.                            *)
(*                                                                         *)
(* Every handler reads what it needs, decides, and then writes in one      *)
(* database transaction.  The reads are outside the transaction, so a      *)
(* handler is two steps with anything in between: ...Read keeps what the   *)
(* handler has read, ...Commit is its transaction.  A transaction writes   *)
(* the wallet only by increments and the row only by assignments, and      *)
(* never looks at the row again.                                           *)
(*                                                                         *)
(* The constant Overlap says how the service is used.  TRUE: handlers may  *)
(* overlap, which nothing in the code prevents; raced and rushed keep whom *)
(* that has concerned.  FALSE: at most one handler at a time works on a    *)
(* user's wallet and withdrawals.                                          *)
(***************************************************************************)
EXTENDS Wallets, FiniteSets, FiniteSetsExt

CONSTANTS Users,
          Withdraws,  \* row ids
          Amounts,    \* the amounts users ask for, in cents (at least 50.00)
          Procs,      \* handlers that may be in flight at once
          Opening,    \* what each wallet holds at the start
          Overlap     \* may handlers of one user overlap?

ASSUME WithdrawalsAssumption ==
  /\ IsFiniteSet(Withdraws)
  /\ Amounts \subseteq Nat
  /\ Opening \in [Users -> Nat]
  /\ Overlap \in BOOLEAN

VARIABLES wallet,    \* Wallet table
          row,       \* Withdraw table: Absent until the row is created
          aged,      \* rows created at least 36 hours ago
          call,      \* call[p]: the handler in flight in p with what it has read
          job,       \* rows the auto-flag job has read and not yet flagged
          payouts,   \* history: how often the row was approved
          returns,   \* history: how often the row's money went back
          disbursed, \* history: what has left each user's wallet
          raced,     \* history: rows that two handlers, or one and the job, held at once
          rushed     \* history: users two of whose requests were in flight at once

vars == <<wallet, row, aged, call, job, payouts, returns, disbursed, raced, rushed>>

FEE_RATE == 3
Fee(amount) == Percent(FEE_RATE, amount)
Total(amount) == amount + Fee(amount)  \* what a request costs
NetWithoutFee(amount) == amount
Net(amount) == amount - Fee(amount)    \* what an approved request sends

Absent == [status |-> "ABSENT"]
Withdraw == [user : Users, amount : Amounts, fee : Int, total : Int,
             payee : BOOLEAN,  \* is an msisdn or a cnic attached?
             status : {"PENDING", "APPROVED", "SUSPENDED"}]

Idle == [op |-> "idle"]
Call == {Idle} \cup [op : {"request"}, user : Users, amount : Amounts]
               \cup [op : {"approve", "reject"}, id : Withdraws, wd : Withdraw]

UserOf(c) == IF c.op = "request" THEN c.user ELSE c.wd.user

(* The checks the handlers make on what they have read                      *)
AffordsWithoutFee(u, amount) == wallet[u].balance >= amount
Affords(u, amount) == wallet[u].balance >= Total(amount)

AnyRow(w) == row[w] # Absent
Pending(w) == row[w].status = "PENDING"

(* The rows the hourly job flags                                            *)
OverdueAnyStatus == {w \in aged : row[w] # Absent}
OverdueWithPayee == {w \in aged : row[w].status = "PENDING" /\ row[w].payee}
Overdue == {w \in aged : row[w].status = "PENDING"}

(* The status it gives them                                                 *)
FlaggedStatusOfItsOwn == "FLAGGED"
FlaggedStatus == "SUSPENDED"

(* What reject moves back from reserved to balance                          *)
RefundWithoutFee(wd) == wd.amount
Refund(wd) == wd.total

-----------------------------------------------------------------------------
(* The handlers of user u that are in flight, and whether another may start *)
Busy(u) == \/ \E p \in Procs : call[p] # Idle /\ UserOf(call[p]) = u
           \/ \E w \in job : row[w].user = u
MayStart(u) == Overlap \/ ~Busy(u)

(* The handlers that hold a row, and those about to request for a user      *)
Holding(w) == {p \in Procs : call[p].op \in {"approve", "reject"} /\ call[p].id = w}
Requesting(u) == {p \in Procs : call[p].op = "request" /\ call[p].user = u}

Meet == /\ raced' = raced \cup {w \in Withdraws : \E p \in Holding(w)' : \/ w \in job'
                                                                        \/ Holding(w)' # {p}}
        /\ rushed' = rushed \cup {u \in Users : \E p \in Requesting(u)' : Requesting(u)' # {p}}

Begin(p, u, c) == /\ call[p] = Idle
                  /\ MayStart(u)
                  /\ call' = [call EXCEPT ![p] = c]
                  /\ UNCHANGED <<wallet, row, aged, job, payouts, returns, disbursed>>
                  /\ Meet

End(p) == call' = [call EXCEPT ![p] = Idle]

Init == /\ wallet = [u \in Users |-> [balance |-> Opening[u], reserved |-> 0]]
        /\ row = [w \in Withdraws |-> Absent]
        /\ aged = {}
        /\ call = [p \in Procs |-> Idle]
        /\ job = {}
        /\ payouts = [w \in Withdraws |-> 0]
        /\ returns = [w \in Withdraws |-> 0]
        /\ disbursed = [u \in Users |-> 0]
        /\ raced = {} /\ rushed = {}

(* request(userId, dto): read the wallet, compare with amount plus fee ...  *)
RequestRead(p, u, amount) ==
  /\ Affords(u, amount)
  /\ Begin(p, u, [op |-> "request", user |-> u, amount |-> amount])

(* ... then move the total to reserved and create the PENDING row           *)
RequestCommit(p, w, payee) ==
  /\ call[p].op = "request"
  /\ row[w] = Absent
  /\ LET u == call[p].user
         amount == call[p].amount
     IN /\ wallet' = Move(wallet, u, -Total(amount), Total(amount))
        /\ row' = [row EXCEPT ![w] =
                     [user |-> u, amount |-> amount, fee |-> Fee(amount),
                      total |-> Total(amount), payee |-> payee, status |-> "PENDING"]]
  /\ End(p)
  /\ UNCHANGED <<aged, job, payouts, returns, disbursed, raced, rushed>>

(* approve(id): read the row; it must be PENDING and say whom to pay ...    *)
ApproveRead(p, w) ==
  /\ Pending(w)
  /\ row[w].payee
  /\ Begin(p, row[w].user, [op |-> "approve", id |-> w, wd |-> row[w]])

(* ... then settle the row for the net amount and release amount from       *)
(* reserved                                                                 *)
ApproveCommit(p) ==
  /\ call[p].op = "approve"
  /\ LET w == call[p].id
         wd == call[p].wd
     IN /\ row' = [row EXCEPT ![w] = [@ EXCEPT !.status = "APPROVED", !.fee = Fee(wd.amount),
                                              !.total = Net(wd.amount)]]
        /\ wallet' = Move(wallet, wd.user, 0, -wd.amount)
        /\ payouts' = [payouts EXCEPT ![w] = @ + 1]
        /\ disbursed' = [disbursed EXCEPT ![wd.user] = @ + wd.amount]
  /\ End(p)
  /\ UNCHANGED <<aged, job, returns, raced, rushed>>

(* reject(id): read the row; it must be PENDING ...                         *)
RejectRead(p, w) ==
  /\ Pending(w)
  /\ Begin(p, row[w].user, [op |-> "reject", id |-> w, wd |-> row[w]])

(* ... then suspend it and move the total read back to balance              *)
RejectCommit(p) ==
  /\ call[p].op = "reject"
  /\ LET w == call[p].id
         wd == call[p].wd
     IN /\ row' = [row EXCEPT ![w].status = "SUSPENDED"]
        /\ wallet' = Move(wallet, wd.user, Refund(wd), -Refund(wd))
        /\ returns' = [returns EXCEPT ![w] = @ + 1]
  /\ End(p)
  /\ UNCHANGED <<aged, job, payouts, disbursed, raced, rushed>>

(* WithdrawAutoFlagJob, every hour: find the overdue PENDING rows ...       *)
FlagRead ==
  /\ job = {}
  /\ Overdue # {}
  /\ \A w \in Overdue : MayStart(row[w].user)
  /\ job' = Overdue
  /\ UNCHANGED <<wallet, row, aged, call, payouts, returns, disbursed>>
  /\ Meet

(* ... then suspend them by id: no wallet is written, and a row is not      *)
(* checked to be PENDING still                                              *)
FlagCommit ==
  /\ job # {}
  /\ row' = [w \in Withdraws |-> IF w \in job THEN [row[w] EXCEPT !.status = FlaggedStatus]
                                 ELSE row[w]]
  /\ job' = {}
  /\ UNCHANGED <<wallet, aged, call, payouts, returns, disbursed, raced, rushed>>

(* 36 hours pass for a row (of no consequence unless it is PENDING)         *)
Age(w) == /\ Pending(w)
          /\ w \notin aged
          /\ aged' = aged \cup {w}
          /\ UNCHANGED <<wallet, row, call, job, payouts, returns, disbursed, raced, rushed>>

(* The transaction of a handler fails and rolls back, and the handler with  *)
(* it; or the server stops, and with it everything that is in flight.       *)
Rollback(p) == /\ call[p] # Idle
               /\ End(p)
               /\ UNCHANGED <<wallet, row, aged, job, payouts, returns, disbursed, raced, rushed>>

Crash == /\ call' = [p \in Procs |-> Idle]
         /\ job' = {}
         /\ UNCHANGED <<wallet, row, aged, payouts, returns, disbursed, raced, rushed>>

Request(p) == \/ \E u \in Users, amount \in Amounts : RequestRead(p, u, amount)
              \/ \E w \in Withdraws, payee \in BOOLEAN : RequestCommit(p, w, payee)
Approve(p) == (\E w \in Withdraws : ApproveRead(p, w)) \/ ApproveCommit(p)
Reject(p)  == (\E w \in Withdraws : RejectRead(p, w)) \/ RejectCommit(p)

Next == \/ \E p \in Procs : Request(p) \/ Approve(p) \/ Reject(p) \/ Rollback(p)
        \/ FlagRead \/ FlagCommit \/ Crash
        \/ \E w \in Withdraws : Age(w)

Spec == Init /\ [][Next]_vars

(* Time passes, the hourly job is run, and it is not cut short every time.  *)
FairSpec == /\ Spec
            /\ \A w \in Withdraws : WF_vars(Age(w))
            /\ WF_vars(FlagRead)
            /\ SF_vars(FlagCommit)

-----------------------------------------------------------------------------
(* Shape of the state.                                                      *)
TypeOK == /\ wallet \in [Users -> Wallet]
          /\ row \in [Withdraws -> Withdraw \cup {Absent}]
          /\ aged \in SUBSET {w \in Withdraws : row[w] # Absent}
          /\ call \in [Procs -> Call]
          /\ \A p \in Procs : call[p].op \in {"approve", "reject"} => row[call[p].id] # Absent
          /\ job \in SUBSET {w \in Withdraws : row[w] # Absent}
          /\ payouts \in [Withdraws -> Nat]
          /\ returns \in [Withdraws -> Nat]
          /\ disbursed \in [Users -> Nat]
          /\ raced \subseteq Withdraws /\ rushed \subseteq Users

(* No cent is created or lost, however the handlers overlap or fail: what a *)
(* user opened with is in balance, in reserved, or has left with approvals. *)
FundsConserved ==
  \A u \in Users : wallet[u].balance + wallet[u].reserved + disbursed[u] = Opening[u]

(* A row's total tells whether money was sent for it, also when the job or  *)
(* a racing reject has overwritten the status: only approve (lines 98-99)   *)
(* makes it the net amount, and nothing makes it the gross one again.       *)
TotalTellsPayment ==
  \A w \in Withdraws : row[w] # Absent =>
     row[w].total = IF payouts[w] > 0 THEN row[w].amount - Fee(row[w].amount)
                                       ELSE row[w].amount + Fee(row[w].amount)

(* Two answers to one request may both be carried out, since neither looks *)
(* at the row again, but only if they were under way together: after any    *)
(* history of other handlers, of failures and of restarts, a withdrawal is  *)
(* paid or returned at most once (the 'Withdraw not pending' checks).       *)
SettledOnce == \A w \in Withdraws \ raced : payouts[w] + returns[w] <= 1

(* A request takes more than there is only if it was read together with     *)
(* another of its user (the 'Insufficient balance' check): approvals,       *)
(* rejections and the job that race for the user's rows never do that.      *)
BalanceNeverNegative == \A u \in Users \ rushed : wallet[u].balance >= 0

(* Why: a row that no two have held is held while it is PENDING, and the    *)
(* money a request has seen is still there if it is the user's only one.    *)
OnePerRow ==
  /\ \A w \in Withdraws : row[w] = Absent \/ Pending(w) => payouts[w] + returns[w] = 0
  /\ \A w \in Withdraws \ raced :
        /\ w \in job \/ Holding(w) # {} => Pending(w)
        /\ \A p, q \in Holding(w) : p = q
        /\ w \in job => Holding(w) = {}

OneRequestPerUser ==
  \A u \in Users \ rushed :
     /\ \A p, q \in Requesting(u) : p = q
     /\ \A p \in Requesting(u) : Affords(u, call[p].amount)

(* Nothing but request's total is held for a row, or given back by reject.  *)
TotalsAreGross ==
  /\ \A w \in Withdraws : Pending(w) => row[w].total = Total(row[w].amount)
  /\ \A p \in Procs : call[p].op = "reject" => call[p].wd.total = Total(call[p].wd.amount)

(* When the handlers of a user do not overlap at all, what a handler has    *)
(* read is still so when it writes.                                         *)
HandlersApart ==
  \A p \in Procs : call[p] # Idle =>
     /\ \A q \in Procs \ {p} : call[q] # Idle => UserOf(call[q]) # UserOf(call[p])
     /\ \A w \in job : row[w].user # UserOf(call[p])

ReadsAreFresh ==
  /\ \A p \in Procs : call[p].op = "request" => Affords(call[p].user, call[p].amount)
  /\ \A p \in Procs : call[p].op \in {"approve", "reject"} =>
        call[p].wd = row[call[p].id] /\ Pending(call[p].id)
  /\ \A w \in job : Pending(w)

HistoryMatchesStatus ==
  \A w \in Withdraws :
     /\ payouts[w] = IF row[w].status = "APPROVED" THEN 1 ELSE 0
     /\ returns[w] \in IF row[w].status = "SUSPENDED" THEN {0, 1} ELSE {0}
     /\ Pending(w) => row[w].total = Total(row[w].amount)

SerialInv == HandlersApart /\ ReadsAreFresh /\ HistoryMatchesStatus

(* What is locked in reserved is exactly what the rows account for: the     *)
(* total of a pending row and of one the job has suspended, the second fee  *)
(* of an approved row (approve releases amount, request locked amount plus  *)
(* fee), and nothing for a rejected one.                                    *)
Held(w) == CASE row[w].status = "PENDING" -> row[w].total
             [] row[w].status = "APPROVED" -> row[w].fee
             [] row[w].status = "SUSPENDED" /\ returns[w] = 0 -> row[w].total
             [] OTHER -> 0

RowsOf(u) == {w \in Withdraws : row[w] # Absent /\ row[w].user = u}

ReservedIsExplained ==
  \A u \in Users :
     wallet[u].reserved = SumFunctionOnSet([w \in Withdraws |-> Held(w)], RowsOf(u))

(* A user none of whose withdrawals is open any more has nothing locked, as *)
(* approve's message says (line 111): the amount was withdrawn, one fee was *)
(* applied, and the rest was sent.                                          *)
NothingLockedOnceApproved ==
  \A u \in Users :
     (\A w \in RowsOf(u) : row[w].status = "APPROVED") => wallet[u].reserved = 0

(* A pending withdrawal does not stay pending: an operator settles it, or   *)
(* the hourly job suspends it 36 hours later, through failures of the job.  *)
EveryRequestIsAnswered == \A w \in Withdraws : Pending(w) ~> ~Pending(w)

(* The service implements the contract: the claim on a withdrawal is its    *)
(* total, and its phase is told by the row's status and its history.        *)
Claim(w) ==
  LET wd == row[w]
      phase == CASE wd.status = "PENDING" -> "open"
                 [] wd.status = "APPROVED" -> "paid"
                 [] OTHER -> IF returns[w] > 0 THEN "returned" ELSE "frozen"
  IN IF wd = Absent THEN [phase |-> "none"]
     ELSE [phase |-> phase, user |-> wd.user, sum |-> Total(wd.amount)]

Contract == INSTANCE WithdrawalContract
              WITH Claims <- Withdraws,
                   Sums <- {Total(amount) : amount \in Amounts},
                   available <- [u \in Users |-> wallet[u].balance],
                   claim <- [w \in Withdraws |-> Claim(w)]

ImplementsContract == Contract!Spec
==============================================================================
