-------------------------------- MODULE Accounts --------------------------------
(***************************************************************************)
(* auth.service.ts with the parts of level.service.ts, points.ts and       *)
(* user.service.ts that write to a user's row.                             *)
(*                                                                         *)
(* A signup checks an emailed code, and then creates the account in a      *)
(* transaction.  Inside that transaction it re-evaluates the levels of up  *)
(* to three people above the new user, but on other connections of the     *)
(* pool: the evaluations do not see the new user, are not undone when the  *)
(* transaction fails, and wait for a connection while holding one.  Only   *)
(* the time limit of a transaction frees those who all wait.               *)
(*                                                                         *)
(* Requests overlap in every way and may fail at any step.  Two codes      *)
(* drawn are taken to differ (they are 6 random characters), and a client  *)
(* cannot send the referral code that its own account is going to have.    *)
(***************************************************************************)
EXTENDS LevelRules, Referrals

CONSTANTS MaxId,        \* bounds the ids drawn for users
          Founders,     \* the users there are at first: 1..Founders
          FounderOf,    \* who referred each of them
          FounderLevel, \* their levels; 1 for those who are not there yet
          Emails, FounderEmail,
          NoEmail, NoUser,
          Deposited,    \* the sum of each user's deposits (module Deposits)
          Crowd,        \* how many people each founder's team had at first
          Threshold,    \* the Level table: the points each level needs
          PointsPerPurchase, MaxPoints,
          Active,       \* the founders who buy, forget passwords, change email
          MaxCodes,     \* bounds the codes drawn
          Invitations,  \* the referral codes clients send, by their owners
          Connections,  \* size of the database connection pool
          Handlers      \* requests that may be in flight at once

UserIds == 1..MaxId

ASSUME AccountsAssumption ==
  /\ MaxId \in Nat /\ Founders \in 0..MaxId /\ Active \subseteq 1..Founders
  /\ NoUser \notin UserIds /\ NoEmail \notin Emails
  /\ FounderOf \in [1..Founders -> UserIds \cup {NoUser}]
  /\ \A u \in 1..Founders : FounderOf[u] = NoUser \/ FounderOf[u] < u
  /\ FounderLevel \in [UserIds -> {0, 1}]
  /\ FounderEmail \in [1..Founders -> Emails]
  /\ Deposited \in [UserIds -> Nat] /\ Crowd \in [UserIds -> Team]
  /\ Invitations \subseteq UserIds \cup {NoUser}
  /\ Threshold \in [Levels -> Nat] /\ Threshold[0] = 0
  /\ PointsPerPurchase \in Nat /\ IsFiniteSet(Handlers)

VARIABLES lastId,        \* the sequence behind User.id
          members,       \* User table: the committed rows
          email, referrer, level, points,   \* ... and four of its columns
          verification,  \* Verification table; code 0 is no row
          reset,         \* PasswordReset table; code 0 is no row
          drawn,         \* the codes drawn so far are 1..drawn
          spent,         \* the codes that have set a password
          req,           \* the requests in flight
          climb          \* ... and the evaluation of a level each is in

userTable == <<lastId, members, email, referrer, level, points>>
codeTables == <<verification, reset, drawn, spent>>
vars == <<userTable, codeTables, req, climb>>

Verification == [code : Nat, fresh : BOOLEAN]
PasswordReset == [code : Nat, used : BOOLEAN, fresh : BOOLEAN]

(* A request: where it is, the row it inserts or whose password it sets,    *)
(* what the client sent, and whether it holds an open transaction           *)
Request(at, user, address, owner, code, open) ==
  [at |-> at, user |-> user, email |-> address, referrer |-> owner, code |-> code, open |-> open]
Requests == [at : {"idle", "send", "signup", "insert", "climb", "count", "write", "close", "reset"},
             user : UserIds \cup {NoUser}, email : Emails \cup {NoEmail},
             referrer : UserIds \cup {NoUser}, code : Nat, open : BOOLEAN]
Idle == Request("idle", NoUser, NoEmail, NoUser, 0, FALSE)
At(r, at) == Request(at, r.user, r.email, r.referrer, r.code, r.open)
TimedOut(r) == Request(r.at, r.user, r.email, r.referrer, r.code, FALSE)

(* Whose level is evaluated, how far up, the level read, the level to write *)
Climb(up, depth, seen, target) == [up |-> up, depth |-> depth, seen |-> seen, target |-> target]
Climbs == [up : UserIds \cup {NoUser}, depth : 0..3, seen : Levels, target : Levels]
NoClimb == Climb(NoUser, 0, 0, 0)

Taken == {email[u] : u \in members}
Open == {h \in Handlers : req[h].open}
(* The emails of rows inserted and not committed: the unique index makes    *)
(* whoever wants to write one of them wait for the end of that transaction. *)
Drafts == {h \in Open : req[h].at # "insert"}
Locked == {req[h].email : h \in Drafts}
Climbing == {"climb", "count", "write"}
Inserting == {h \in Handlers : req[h].at \in {"signup", "insert"}}
ConnectionFree == Cardinality(Open) < Connections

(* The bounds count what requests under way are still going to draw.        *)
MayDraw == drawn + Cardinality({h \in Handlers : req[h].at = "send"}) < MaxCodes
MayInsert == lastId + Cardinality(Inserting) < MaxId

ReferralTable(users) == [m \in {u \in users : referrer[u] # NoUser} |-> referrer[m]]
Plus(s, t) == [A |-> s.A + t.A, B |-> s.B + t.B, C |-> s.C + t.C]

(* What evaluateUserLevel counts: committed rows only.                      *)
TeamNow(u) == Plus(Crowd[u], GetTeamMembers(ReferralTable(members), u))
TeamWithDrafts(u) ==
  LET drafts == {h \in Drafts : req[h].referrer # NoUser}
      draft(m) == CHOOSE h \in drafts : req[h].user = m
      table == ReferralTable(members)
      all == DOMAIN table \cup {req[h].user : h \in drafts}
  IN Plus(Crowd[u], GetTeamMembers(
       [m \in all |-> IF m \in members THEN referrer[m] ELSE req[draft(m)].referrer], u))
TeamCounted(u) == TeamNow(u)

Goes(h, r, c) == req' = [req EXCEPT ![h] = r] /\ climb' = [climb EXCEPT ![h] = c]
Become(h, r) == Goes(h, r, climb[h])
Done(h) == Goes(h, Idle, NoClimb)

Init == /\ lastId = Founders
        /\ members = 1..Founders
        /\ email = [u \in UserIds |-> IF u <= Founders THEN FounderEmail[u] ELSE NoEmail]
        /\ referrer = [u \in UserIds |-> IF u <= Founders THEN FounderOf[u] ELSE NoUser]
        /\ level = FounderLevel
        /\ points = [u \in UserIds |-> 0]
        /\ verification = [e \in Emails |-> [code |-> 0, fresh |-> FALSE]]
        /\ reset = [u \in UserIds |-> [code |-> 0, used |-> FALSE, fresh |-> FALSE]]
        /\ drawn = 0 /\ spent = {}
        /\ req = [h \in Handlers |-> Idle]
        /\ climb = [h \in Handlers |-> NoClimb]

-----------------------------------------------------------------------------
(* sendEmail: refuse an address in use, ...                                 *)
SendEmailRead(h, e) ==
  /\ req[h] = Idle /\ MayDraw
  /\ e \notin Taken
  /\ Become(h, Request("send", NoUser, e, NoUser, 0, FALSE))
  /\ UNCHANGED <<userTable, codeTables>>

(* ... and write a new code over an older one.                              *)
SendEmailWrite(h) ==
  /\ req[h].at = "send"
  /\ drawn' = drawn + 1
  /\ verification' = [verification EXCEPT ![req[h].email] = [code |-> drawn + 1, fresh |-> TRUE]]
  /\ Done(h)
  /\ UNCHANGED <<userTable, reset, spent>>

VerificationExpires(e) ==
  /\ verification[e].fresh
  /\ verification' = [verification EXCEPT ![e] = [code |-> verification[e].code, fresh |-> FALSE]]
  /\ UNCHANGED <<userTable, reset, drawn, spent, req, climb>>

(* signup: the code is the row's and has not expired, and nobody has the    *)
(* address yet.  r is the user whose referral code the client sent.         *)
SignupRead(h, e, r) ==
  /\ req[h] = Idle /\ MayInsert
  /\ verification[e].fresh
  /\ e \notin Taken
  /\ Become(h, Request("signup", NoUser, e, r, 0, FALSE))
  /\ UNCHANGED <<userTable, codeTables>>

(* A connection is taken for the transaction, ...                           *)
SignupBegin(h) ==
  /\ req[h].at = "signup"
  /\ Become(h, Request("insert", NoUser, req[h].email, req[h].referrer, 0, TRUE))
  /\ UNCHANGED <<userTable, codeTables>>

(* ... which inserts the user, with the next id, and looks up the referrer. *)
(* An address taken or a code unknown rolls it back.  The lookup would find  *)
(* the row just inserted too, by a code drawn from the clock at that moment *)
(* (lines 101, 129): that a client has sent it is assumed not to happen.    *)
KnownId(r) == r <= lastId + 1
Known(r) == r \in members
SignupCreate(h) ==
  /\ req[h].at = "insert"
  /\ req[h].email \notin Locked
  /\ lastId' = lastId + 1
  /\ LET r == req[h].referrer
     IN IF req[h].email \in Taken \/ (r # NoUser /\ ~Known(r))
        THEN Done(h)
        ELSE Goes(h, Request(IF r = NoUser THEN "close" ELSE "climb", lastId + 1,
                             req[h].email, r, 0, TRUE),
                  Climb(r, 0, 0, 0))
  /\ UNCHANGED <<members, email, referrer, level, points, codeTables>>

(* evaluateUserLevel, on a connection of its own: read the user's level ... *)
EvalRead(h) ==
  /\ req[h].at = "climb"
  /\ LET c == climb[h]
     IN Goes(h, At(req[h], "count"), Climb(c.up, c.depth, level[c.up], 0))
  /\ UNCHANGED <<userTable, codeTables>>

(* ... sum the deposits and count the team (three queries, taken as one) ...*)
EvalCount(h) ==
  /\ req[h].at = "count"
  /\ LET c == climb[h]
     IN Goes(h, At(req[h], "write"),
             Climb(c.up, c.depth, c.seen, LevelOf(Deposited[c.up], TeamCounted(c.up))))
  /\ UNCHANGED <<userTable, codeTables>>

(* ... and write the level, up or down, if it differs from what was read.   *)
(* Then the transaction, if there still is one, reads who is next.          *)
EvalWrite(h) ==
  /\ req[h].at = "write"
  /\ LET c == climb[h]
         next == IF c.depth < 2 THEN referrer[c.up] ELSE NoUser
     IN /\ level' = IF c.target # c.seen THEN [level EXCEPT ![c.up] = c.target] ELSE level
        /\ IF ~req[h].open THEN Done(h)
           ELSE Goes(h, At(req[h], IF next = NoUser THEN "close" ELSE "climb"),
                     Climb(next, c.depth + 1, 0, 0))
  /\ UNCHANGED <<lastId, members, email, referrer, points, codeTables>>

(* Delete the verification, which must still be there, and commit.          *)
SignupCommit(h) ==
  /\ req[h].at = "close" /\ req[h].open
  /\ LET u == req[h].user
         e == req[h].email
     IN IF verification[e].code = 0
        THEN UNCHANGED <<userTable, codeTables>>
        ELSE /\ members' = members \cup {u}
             /\ email' = [email EXCEPT ![u] = e]
             /\ referrer' = [referrer EXCEPT ![u] = req[h].referrer]
             /\ verification' = [verification EXCEPT ![e] = [code |-> 0, fresh |-> FALSE]]
             /\ UNCHANGED <<lastId, level, points, reset, drawn, spent>>
  /\ Done(h)

(* Five seconds after it began, Prisma rolls the transaction back.  An      *)
(* evaluation under way goes on, and ends the request when it is done.      *)
NeverTimesOut(h) == /\ req[h].open /\ ~req[h].open
                    /\ UNCHANGED vars
TimesOut(h) ==
  /\ req[h].open
  /\ IF req[h].at \in {"insert", "close"} THEN Done(h) ELSE Become(h, TimedOut(req[h]))
  /\ UNCHANGED <<userTable, codeTables>>

-----------------------------------------------------------------------------
(* requestPasswordReset: a new code over an older one                       *)
RequestReset(u) ==
  /\ MayDraw
  /\ drawn' = drawn + 1
  /\ reset' = [reset EXCEPT ![u] = [code |-> drawn + 1, used |-> FALSE, fresh |-> TRUE]]
  /\ UNCHANGED <<userTable, verification, spent, req, climb>>

ResetExpires(u) ==
  /\ reset[u].fresh
  /\ reset' = [reset EXCEPT ![u] = [code |-> reset[u].code, used |-> reset[u].used, fresh |-> FALSE]]
  /\ UNCHANGED <<userTable, verification, drawn, spent, req, climb>>

(* resetPassword: the code is checked first ...                             *)
ResetRead(h, u) ==
  /\ req[h] = Idle
  /\ reset[u].fresh /\ ~reset[u].used
  /\ Become(h, Request("reset", u, NoEmail, NoUser, reset[u].code, FALSE))
  /\ UNCHANGED <<userTable, codeTables>>

(* ... and the user's row, whichever code it has by now, is marked used     *)
(* with the new password.                                                   *)
Unmarked(row) == row
MarkUsed(row) == [code |-> row.code, used |-> TRUE, fresh |-> row.fresh]
ResetCommit(h) ==
  /\ req[h].at = "reset"
  /\ reset' = [reset EXCEPT ![req[h].user] = MarkUsed(reset[req[h].user])]
  /\ spent' = spent \cup {req[h].code}
  /\ Done(h)
  /\ UNCHANGED <<userTable, verification, drawn>>

(* updateUser sets the address, and does not verify it.                     *)
ChangeEmail(u, e) ==
  /\ e \notin Taken /\ e \notin Locked
  /\ email' = [email EXCEPT ![u] = e]
  /\ UNCHANGED <<lastId, members, referrer, level, points, codeTables, req, climb>>

(* awardPoints at the end of a purchase: a level that the points reach is   *)
(* given if it is above the one the user has.                               *)
Reached(p) == {l \in Levels : Threshold[l] <= p}
Purchase(u) ==
  LET p == points[u] + PointsPerPurchase
  IN /\ p <= MaxPoints
     /\ points' = [points EXCEPT ![u] = p]
     /\ \E next \in Reached(p) :
          /\ \A l \in Reached(p) : l <= next
          /\ level' = [level EXCEPT ![u] = IF next > level[u] THEN next ELSE level[u]]
  /\ UNCHANGED <<lastId, members, email, referrer, codeTables, req, climb>>

(* A query fails or the server stops: what is not committed is lost.        *)
Fails(h) ==
  /\ req[h] # Idle
  /\ Done(h)
  /\ UNCHANGED <<userTable, codeTables>>

-----------------------------------------------------------------------------
(* What needs a connection besides those that transactions hold             *)
Asks(h) == \/ SendEmailWrite(h) \/ SignupBegin(h) \/ ResetCommit(h)
           \/ EvalRead(h) \/ EvalCount(h) \/ EvalWrite(h)
Begins(h) == \/ \E e \in Emails : SendEmailRead(h, e)
             \/ \E e \in Emails, r \in Invitations : SignupRead(h, e, r)
             \/ \E u \in Active : ResetRead(h, u)
Simple == \E u \in Active : \/ RequestReset(u) \/ Purchase(u)
                            \/ \E e \in Emails : ChangeEmail(u, e)
Time == \/ \E e \in Emails : VerificationExpires(e)
        \/ \E u \in Active : ResetExpires(u)

Next == \/ ConnectionFree /\ Simple
        \/ Time
        \/ \E h \in Handlers : \/ ConnectionFree /\ (Begins(h) \/ Asks(h))
                               \/ SignupCreate(h) \/ SignupCommit(h) \/ TimesOut(h) \/ Fails(h)

Spec == Init /\ [][Next]_vars

(* The server goes on with its requests, and the time limit strikes.        *)
FairSpec == /\ Spec
            /\ \A h \in Handlers : /\ WF_vars(ConnectionFree /\ Asks(h))
                                   /\ WF_vars(SignupCreate(h) \/ SignupCommit(h))
                                   /\ WF_vars(TimesOut(h))

-----------------------------------------------------------------------------
TypeOK ==
  /\ lastId \in 0..MaxId /\ drawn \in Nat
  /\ members \subseteq UserIds /\ spent \subseteq Nat
  /\ email \in [UserIds -> Emails \cup {NoEmail}]
  /\ referrer \in [UserIds -> UserIds \cup {NoUser}]
  /\ level \in [UserIds -> Levels] /\ points \in [UserIds -> Nat]
  /\ verification \in [Emails -> Verification]
  /\ reset \in [UserIds -> PasswordReset]
  /\ req \in [Handlers -> Requests] /\ climb \in [Handlers -> Climbs]

(* Whoever referred a member was one already: climbing from referrer to     *)
(* referrer (signup, the team bonus) and building a tree of referrals end.  *)
ReferrerCameFirst == \A u \in members :
  referrer[u] # NoUser => referrer[u] \in members /\ referrer[u] < u

(* The last code that set a user's password is gone or marked used.         *)
SpentIsUsed == \A u \in UserIds : reset[u].code \in spent => reset[u].used

(* What both rest on: ids and codes are drawn in order, a draft's referrer  *)
(* has been committed before, a climb evaluates at most three members, and  *)
(* a code belongs to one user.                                              *)
IdsInOrder ==
  /\ lastId + Cardinality(Inserting) <= MaxId
  /\ members \subseteq 1..lastId
  /\ \A h \in Drafts : /\ req[h].user \in (1..lastId) \ members
                       /\ req[h].referrer # NoUser =>
                            req[h].referrer \in members /\ req[h].referrer < req[h].user
  /\ \A g, h \in Drafts : req[g].user = req[h].user => g = h
  /\ \A h \in Handlers : req[h].at \in Climbing => climb[h].up \in members /\ climb[h].depth <= 2
CodesInOrder ==
  /\ spent \subseteq 1..drawn
  /\ \A u \in UserIds : reset[u].code <= drawn /\ (reset[u].fresh => reset[u].code # 0)
  /\ \A u, v \in UserIds : reset[u].code = reset[v].code => u = v \/ reset[u].code = 0
  /\ \A h \in Handlers : req[h].at = "reset" =>
       /\ req[h].user \in UserIds /\ req[h].code \in 1..drawn
       /\ \A u \in UserIds : reset[u].code = req[h].code => u = req[h].user

(* The accounts are consistent whatever overlaps and fails.                 *)
AccountsInv == TypeOK /\ ReferrerCameFirst /\ SpentIsUsed /\ IdsInOrder /\ CodesInOrder

(* No evaluation, however stale and whether or not its signup commits,      *)
(* leaves a member above the level that the deposits, the members referred  *)
(* or the points deserve: evaluations count committed rows only, and those  *)
(* never go away.  (A level below is common: see the README.)               *)
LevelIsEarned == \A u \in members :
  \/ level[u] <= 1 \/ level[u] <= LevelOf(Deposited[u], TeamNow(u))
  \/ \E l \in Reached(points[u]) : level[u] <= l

(* Three services count teams in three ways: level by level, by a tree, and *)
(* nested in one query.  They agree on every user, and on the platform,     *)
(* which is what the bonus summary really counts: all depths of it hold     *)
(* what the levels of all its users add up to.                              *)
TeamsAgree ==
  LET table == ReferralTable(members)
      Count(u) == GetTeamMembers(table, u)
      AtDepth(u, n) == Cardinality({node \in GetReferralTree(table, u) : node.level = n})
  IN /\ \A u \in members :
          Count(u) = [A |-> AtDepth(u, 1), B |-> AtDepth(u, 2), C |-> AtDepth(u, 3)]
     /\ GetTeamBonusSummary(table)
          = [A |-> SumFunctionOnSet([u \in members |-> Count(u).A], members),
             B |-> SumFunctionOnSet([u \in members |-> Count(u).B], members),
             C |-> SumFunctionOnSet([u \in members |-> Count(u).C], members)]

(* A code that has set a password is not accepted again: what can overlap   *)
(* are only requests that checked it before it was used.                    *)
CodeDiesWithUse ==
  [][\A h \in Handlers :
       req[h].at # "reset" /\ req'[h].at = "reset" => req'[h].code \notin spent]_vars

(* Every request is answered, also when as many signups as there are        *)
(* connections wait for one more.                                           *)
RequestIsAnswered == \A h \in Handlers : req[h] # Idle ~> req[h] = Idle
==============================================================================
