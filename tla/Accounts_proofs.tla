---------------------------- MODULE Accounts_proofs ----------------------------
(***************************************************************************)
(* Theorems about accounts, for any number of users, addresses, requests,  *)
(* connections and any way in which requests overlap and fail.             *)
(***************************************************************************)
EXTENDS Accounts, LevelRules_proofs, Sums_proofs

(* A step of one request leaves the others as they are.                     *)
LEMMA GoesOthers ==
  ASSUME TypeOK, NEW h \in Handlers, NEW r \in Requests, NEW c \in Climbs, Goes(h, r, c)
  PROVE  /\ req' \in [Handlers -> Requests] /\ climb' \in [Handlers -> Climbs]
         /\ req'[h] = r /\ climb'[h] = c
         /\ \A g \in Handlers : g # h => req'[g] = req[g] /\ climb'[g] = climb[g]
BY DEF Goes, TypeOK

LEMMA IdleType == Idle \in Requests /\ Idle.at = "idle" /\ Idle.open = FALSE /\ NoClimb \in Climbs
BY DEF Idle, Requests, Request, NoClimb, Climbs, Climb, Levels

LEMMA RequestFields ==
  ASSUME TypeOK, NEW h \in Handlers
  PROVE  /\ req[h] \in Requests
         /\ req[h].user \in UserIds \cup {NoUser} /\ req[h].email \in Emails \cup {NoEmail}
         /\ req[h].referrer \in UserIds \cup {NoUser} /\ req[h].code \in Nat /\ req[h].open \in BOOLEAN
BY DEF TypeOK, Requests

LEMMA ClimbFields ==
  ASSUME TypeOK, NEW h \in Handlers
  PROVE  /\ climb[h] \in Climbs
         /\ climb[h].up \in UserIds \cup {NoUser} /\ climb[h].depth \in 0..3
         /\ climb[h].seen \in Levels /\ climb[h].target \in Levels
BY DEF TypeOK, Climbs

(* At and TimedOut change one field.                                        *)
LEMMA AtFields ==
  ASSUME TypeOK, NEW h \in Handlers,
         NEW at \in {"idle", "send", "signup", "insert", "climb", "count", "write", "close", "reset"}
  PROVE  /\ At(req[h], at) \in Requests
         /\ At(req[h], at).at = at /\ At(req[h], at).user = req[h].user
         /\ At(req[h], at).referrer = req[h].referrer /\ At(req[h], at).open = req[h].open
BY RequestFields DEF At, Request, Requests

LEMMA TimedOutFields ==
  ASSUME TypeOK, NEW h \in Handlers
  PROVE  /\ TimedOut(req[h]) \in Requests
         /\ TimedOut(req[h]).at = req[h].at /\ TimedOut(req[h]).open = FALSE
         /\ TimedOut(req[h]).user = req[h].user /\ TimedOut(req[h]).code = req[h].code
<1>1. req[h].at \in {"idle", "send", "signup", "insert", "climb", "count", "write", "close", "reset"}
  BY DEF TypeOK, Requests
<1> QED BY <1>1, RequestFields DEF TimedOut, Request, Requests

(* The requests that are going to draw an id are finitely many.             *)
LEMMA InsertingCount ==
  /\ IsFiniteSet(Inserting) /\ Cardinality(Inserting) \in Nat
  /\ IsFiniteSet(Inserting') /\ Cardinality(Inserting') \in Nat
<1>1. Inserting \in SUBSET Handlers /\ Inserting' \in SUBSET Handlers
  BY DEF Inserting
<1>2. IsFiniteSet(Handlers)
  BY AccountsAssumption
<1> QED BY <1>1, <1>2, FS_Subset, FS_CardinalityType

LEMMA InsertingShrinks ==
  ASSUME Inserting' \subseteq Inserting
  PROVE  Cardinality(Inserting') <= Cardinality(Inserting)
BY FS_Subset, InsertingCount

LEMMA InsertingGains ==
  ASSUME NEW h \in Handlers, Inserting' \subseteq Inserting \cup {h}
  PROVE  Cardinality(Inserting') <= Cardinality(Inserting) + 1
<1>1. IsFiniteSet(Inserting \cup {h}) /\ Cardinality(Inserting \cup {h}) <= Cardinality(Inserting) + 1
  <2>1. h \in Inserting => Inserting \cup {h} = Inserting
    OBVIOUS
  <2>2. h \notin Inserting => Cardinality(Inserting \cup {h}) = Cardinality(Inserting) + 1
    BY FS_AddElement, InsertingCount
  <2>3. IsFiniteSet(Inserting \cup {h})
    BY FS_AddElement, InsertingCount
  <2> QED BY <2>1, <2>2, <2>3, InsertingCount
<1>2. Cardinality(Inserting') <= Cardinality(Inserting \cup {h})
  BY <1>1, FS_Subset
<1>3. Cardinality(Inserting \cup {h}) \in Nat
  BY <1>1, FS_CardinalityType
<1> QED BY <1>1, <1>2, <1>3, InsertingCount

LEMMA InsertingLoses ==
  ASSUME NEW h \in Inserting, Inserting' \subseteq Inserting \ {h}
  PROVE  Cardinality(Inserting') <= Cardinality(Inserting) - 1
<1>1. IsFiniteSet(Inserting \ {h}) /\ Cardinality(Inserting \ {h}) = Cardinality(Inserting) - 1
  BY FS_RemoveElement, InsertingCount
<1>2. Cardinality(Inserting') <= Cardinality(Inserting \ {h})
  BY <1>1, FS_Subset
<1> QED BY <1>1, <1>2, InsertingCount

-----------------------------------------------------------------------------
(* The founders are members, in the order of their ids.                     *)
LEMMA InitInv == Init => AccountsInv
<1> SUFFICES ASSUME Init PROVE AccountsInv
  OBVIOUS
<1>1. \A h \in Handlers : req[h] = Idle /\ req[h].at = "idle" /\ ~req[h].open
  BY IdleType DEF Init
<1>2. MaxId \in Nat /\ Founders \in 0..MaxId /\ 1..Founders \subseteq UserIds
  BY AccountsAssumption DEF UserIds
<1>3. TypeOK
  <2>1. req \in [Handlers -> Requests] /\ climb \in [Handlers -> Climbs]
    BY IdleType DEF Init
  <2>2. level \in [UserIds -> Levels]
    BY AccountsAssumption DEF Init, Levels
  <2>3. email \in [UserIds -> Emails \cup {NoEmail}]
    BY <1>2, AccountsAssumption DEF Init, UserIds
  <2>4. referrer \in [UserIds -> UserIds \cup {NoUser}]
    BY <1>2, AccountsAssumption DEF Init, UserIds
  <2>5. verification \in [Emails -> Verification] /\ reset \in [UserIds -> PasswordReset]
    BY DEF Init, Verification, PasswordReset
  <2>6. points \in [UserIds -> Nat] /\ members \subseteq UserIds /\ spent \subseteq Nat
    BY <1>2 DEF Init
  <2>7. lastId \in 0..MaxId /\ drawn \in Nat
    BY <1>2 DEF Init
  <2> QED BY <2>1, <2>2, <2>3, <2>4, <2>5, <2>6, <2>7 DEF TypeOK
<1>4. ReferrerCameFirst
  <2> SUFFICES ASSUME NEW u \in members, referrer[u] # NoUser
               PROVE  referrer[u] \in members /\ referrer[u] < u
    BY DEF ReferrerCameFirst
  <2>1. u \in 1..Founders /\ referrer[u] = FounderOf[u]
    BY <1>2 DEF Init, UserIds
  <2>2. FounderOf[u] \in UserIds /\ FounderOf[u] < u
    BY <2>1, AccountsAssumption
  <2> QED BY <1>2, <2>1, <2>2 DEF Init, UserIds
<1>5. SpentIsUsed
  BY DEF Init, SpentIsUsed
<1>6. IdsInOrder
  <2>1. Inserting = {}
    BY <1>1 DEF Inserting
  <2>2. Cardinality(Inserting) = 0
    BY <2>1, FS_EmptySet
  <2> QED BY <1>1, <1>2, <2>2 DEF Init, IdsInOrder, Drafts, Open, Climbing
<1>7. CodesInOrder
  BY <1>1 DEF Init, CodesInOrder
<1> QED BY <1>3, <1>4, <1>5, <1>6, <1>7 DEF AccountsInv

(* A step of one request that writes nothing, or a level                    *)
LEMMA RequestStep ==
  ASSUME AccountsInv, NEW h \in Handlers, NEW r \in Requests, NEW c \in Climbs, Goes(h, r, c),
         UNCHANGED <<lastId, members, email, referrer, points, verification, reset, drawn, spent>>,
         level' \in [UserIds -> Levels],
         r.at \in {"signup", "insert"} => h \in Inserting \/ MayInsert,
         r.open /\ r.at # "insert" => h \in Drafts /\ r.user = req[h].user /\ r.referrer = req[h].referrer,
         r.at \in Climbing => c.up \in members /\ c.depth <= 2,
         r.at = "reset" => \/ req[h].at = "reset" /\ r.user = req[h].user /\ r.code = req[h].code
                           \/ r.user \in UserIds /\ reset[r.user].fresh /\ r.code = reset[r.user].code
  PROVE  AccountsInv'
<1> USE DEF AccountsInv
<1>1. /\ req' \in [Handlers -> Requests] /\ climb' \in [Handlers -> Climbs]
      /\ req'[h] = r /\ climb'[h] = c
      /\ \A g \in Handlers : g # h => req'[g] = req[g] /\ climb'[g] = climb[g]
  BY GoesOthers
<1>2. TypeOK'
  BY <1>1 DEF TypeOK
<1>3. ReferrerCameFirst' /\ SpentIsUsed'
  BY DEF ReferrerCameFirst, SpentIsUsed
<1>4. IdsInOrder'
  <2>1. lastId' + Cardinality(Inserting') <= MaxId
    <3>1. lastId \in Int /\ MaxId \in Int /\ lastId + Cardinality(Inserting) <= MaxId
      BY AccountsAssumption DEF TypeOK, IdsInOrder
    <3>2. CASE MayInsert
      <4>1. Inserting' \subseteq Inserting \cup {h}
        BY <1>1 DEF Inserting
      <4> QED BY <3>1, <3>2, <4>1, InsertingGains, InsertingCount DEF MayInsert
    <3>3. CASE ~MayInsert
      <4>1. Inserting' \subseteq Inserting
        BY <1>1, <3>3 DEF Inserting
      <4> QED BY <3>1, <4>1, InsertingShrinks, InsertingCount
    <3> QED BY <3>2, <3>3
  <2>2. \A g \in Drafts' : g \in Drafts /\ req'[g].user = req[g].user /\ req'[g].referrer = req[g].referrer
    BY <1>1 DEF Drafts, Open
  <2>3. \A g \in Handlers : req'[g].at \in Climbing => climb'[g].up \in members /\ climb'[g].depth <= 2
    BY <1>1 DEF IdsInOrder
  <2> QED BY <2>1, <2>2, <2>3 DEF IdsInOrder
<1>5. CodesInOrder'
  <2>1. \A g \in Handlers : req'[g].at = "reset" =>
           /\ req'[g].user \in UserIds /\ req'[g].code \in 1..drawn
           /\ \A u \in UserIds : reset[u].code = req'[g].code => u = req'[g].user
    <3> SUFFICES ASSUME r.at = "reset", r.user \in UserIds, reset[r.user].fresh, r.code = reset[r.user].code
                 PROVE  r.code \in 1..drawn /\ \A u \in UserIds : reset[u].code = r.code => u = r.user
      BY <1>1 DEF CodesInOrder
    <3>1. reset[r.user].code \in Nat /\ drawn \in Nat
      BY DEF TypeOK, PasswordReset
    <3> QED BY <3>1 DEF CodesInOrder
  <2> QED BY <2>1 DEF CodesInOrder
<1> QED BY <1>2, <1>3, <1>4, <1>5

-----------------------------------------------------------------------------
(* A team of users is counted by numbers.                                   *)
LEMMA TeamType ==
  ASSUME TypeOK, NEW u \in UserIds
  PROVE  TeamNow(u) \in Team
<1> DEFINE table == ReferralTable(members)
<1>1. DOMAIN table \in SUBSET UserIds
  BY DEF ReferralTable, TypeOK
<1>2. IsFiniteSet(UserIds)
  BY FS_Interval, AccountsAssumption DEF UserIds
<1>3. IsFiniteSet(DOMAIN table)
  BY <1>1, <1>2, FS_Subset
<1> HIDE DEF table
<1>4. \A S : IsFiniteSet(Referred(table, S)) /\ Cardinality(Referred(table, S)) \in Nat
  BY <1>3, FS_Subset, FS_CardinalityType DEF Referred
<1>5. GetTeamMembers(table, u) \in Team
  BY <1>4 DEF GetTeamMembers, Counts, Team
<1>6. Crowd[u] \in Team
  BY AccountsAssumption
<1> HIDE <1>4
<1>7. Plus(Crowd[u], GetTeamMembers(table, u)) \in Team
  BY <1>5, <1>6 DEF Plus, Team
<1> QED BY <1>7 DEF TeamNow, table

(* Requests that are checked, and then wait to write.                       *)
LEMMA SendEmailReadInv ==
  ASSUME AccountsInv, NEW h \in Handlers, NEW e \in Emails, SendEmailRead(h, e)
  PROVE  AccountsInv'
<1> DEFINE r == Request("send", NoUser, e, NoUser, 0, FALSE)
<1>1. r \in Requests /\ r.at = "send" /\ ~r.open /\ climb[h] \in Climbs
  BY ClimbFields DEF Request, Requests, AccountsInv
<1>2. Goes(h, r, climb[h]) /\ level' \in [UserIds -> Levels]
  BY DEF SendEmailRead, Become, AccountsInv, TypeOK, userTable
<1>3. UNCHANGED <<lastId, members, email, referrer, points, verification, reset, drawn, spent>>
  BY DEF SendEmailRead, userTable, codeTables
<1> HIDE DEF r
<1> QED BY <1>1, <1>2, <1>3, RequestStep DEF Climbing

LEMMA SignupReadInv ==
  ASSUME AccountsInv, NEW h \in Handlers, NEW e \in Emails, NEW i \in Invitations, SignupRead(h, e, i)
  PROVE  AccountsInv'
<1> DEFINE r == Request("signup", NoUser, e, i, 0, FALSE)
<1>1. r \in Requests /\ r.at = "signup" /\ ~r.open /\ climb[h] \in Climbs
  BY ClimbFields, AccountsAssumption DEF Request, Requests, AccountsInv
<1>2. Goes(h, r, climb[h]) /\ level' \in [UserIds -> Levels] /\ MayInsert
  BY DEF SignupRead, Become, AccountsInv, TypeOK, userTable
<1>3. UNCHANGED <<lastId, members, email, referrer, points, verification, reset, drawn, spent>>
  BY DEF SignupRead, userTable, codeTables
<1> HIDE DEF r
<1> QED BY <1>1, <1>2, <1>3, RequestStep DEF Climbing

LEMMA SignupBeginInv ==
  ASSUME AccountsInv, NEW h \in Handlers, SignupBegin(h)
  PROVE  AccountsInv'
<1> DEFINE r == Request("insert", NoUser, req[h].email, req[h].referrer, 0, TRUE)
<1>1. r \in Requests /\ r.at = "insert" /\ climb[h] \in Climbs
  BY ClimbFields, RequestFields DEF Request, Requests, AccountsInv
<1>2. Goes(h, r, climb[h]) /\ level' \in [UserIds -> Levels] /\ h \in Inserting
  BY DEF SignupBegin, Become, AccountsInv, TypeOK, userTable, Inserting
<1>3. UNCHANGED <<lastId, members, email, referrer, points, verification, reset, drawn, spent>>
  BY DEF SignupBegin, userTable, codeTables
<1> HIDE DEF r
<1> QED BY <1>1, <1>2, <1>3, RequestStep DEF Climbing

LEMMA ResetReadInv ==
  ASSUME AccountsInv, NEW h \in Handlers, NEW u \in Active, ResetRead(h, u)
  PROVE  AccountsInv'
<1> DEFINE r == Request("reset", u, NoEmail, NoUser, reset[u].code, FALSE)
<1>0. u \in UserIds
  BY AccountsAssumption DEF UserIds
<1>1. reset[u].code \in Nat
  BY <1>0 DEF AccountsInv, TypeOK, PasswordReset
<1>2. /\ r \in Requests /\ r.at = "reset" /\ ~r.open /\ climb[h] \in Climbs
      /\ r.user = u /\ r.code = reset[u].code
  BY <1>0, <1>1, ClimbFields DEF Request, Requests, AccountsInv
<1>3. Goes(h, r, climb[h]) /\ level' \in [UserIds -> Levels] /\ reset[u].fresh
  BY DEF ResetRead, Become, AccountsInv, TypeOK, userTable
<1>4. UNCHANGED <<lastId, members, email, referrer, points, verification, reset, drawn, spent>>
  BY DEF ResetRead, userTable, codeTables
<1> HIDE DEF r
<1> QED BY <1>0, <1>2, <1>3, <1>4, RequestStep DEF Climbing

(* A request that ends gives up what it had drawn and locked.               *)
LEMMA EndsInv ==
  ASSUME AccountsInv, NEW h \in Handlers, Done(h), level' \in [UserIds -> Levels],
         UNCHANGED <<lastId, members, email, referrer, points, verification, reset, drawn, spent>>
  PROVE  AccountsInv'
<1>1. Goes(h, Idle, NoClimb)
  BY DEF Done
<1> QED BY <1>1, IdleType, RequestStep DEF Climbing

LEMMA FailsInv ==
  ASSUME AccountsInv, NEW h \in Handlers, Fails(h)
  PROVE  AccountsInv'
<1>1. level' \in [UserIds -> Levels]
  BY DEF Fails, userTable, AccountsInv, TypeOK
<1> QED BY <1>1, EndsInv DEF Fails, userTable, codeTables

LEMMA TimesOutInv ==
  ASSUME AccountsInv, NEW h \in Handlers, TimesOut(h)
  PROVE  AccountsInv'
<1>1. level' \in [UserIds -> Levels]
  BY DEF TimesOut, userTable, AccountsInv, TypeOK
<1>2. UNCHANGED <<lastId, members, email, referrer, points, verification, reset, drawn, spent>>
  BY DEF TimesOut, userTable, codeTables
<1>3. CASE req[h].at \in {"insert", "close"}
  BY <1>1, <1>2, <1>3, EndsInv DEF TimesOut
<1>4. CASE req[h].at \notin {"insert", "close"}
  <2>1. Goes(h, TimedOut(req[h]), climb[h])
    BY <1>4 DEF TimesOut, Become
  <2>2. /\ TimedOut(req[h]) \in Requests
        /\ TimedOut(req[h]).at = req[h].at /\ TimedOut(req[h]).open = FALSE
        /\ TimedOut(req[h]).user = req[h].user /\ TimedOut(req[h]).code = req[h].code
        /\ climb[h] \in Climbs
    BY TimedOutFields, ClimbFields DEF AccountsInv
  <2>3. req[h].at \in {"signup", "insert"} => h \in Inserting
    BY DEF Inserting
  <2>4. req[h].at \in Climbing => climb[h].up \in members /\ climb[h].depth <= 2
    BY DEF AccountsInv, IdsInOrder
  <2> QED BY <1>1, <1>2, <2>1, <2>2, <2>3, <2>4, RequestStep
<1> QED BY <1>3, <1>4

-----------------------------------------------------------------------------
(* The climb: whoever is evaluated is a member, and so is who referred them. *)
LEMMA ClimberIsMember ==
  ASSUME AccountsInv, NEW h \in Handlers, req[h].at \in Climbing
  PROVE  /\ climb[h].up \in members /\ climb[h].up \in UserIds /\ climb[h].depth \in 0..2
         /\ req[h].open => h \in Drafts
<1>1. climb[h].up \in members /\ climb[h].depth <= 2 /\ members \subseteq UserIds
  BY DEF AccountsInv, IdsInOrder, TypeOK
<1>2. climb[h].depth \in 0..3
  BY ClimbFields DEF AccountsInv
<1>3. req[h].open => h \in Drafts
  BY DEF Climbing, Drafts, Open
<1> QED BY <1>1, <1>2, <1>3

LEMMA EvalReadInv ==
  ASSUME AccountsInv, NEW h \in Handlers, EvalRead(h)
  PROVE  AccountsInv'
<1> DEFINE r == At(req[h], "count")
           c == Climb(climb[h].up, climb[h].depth, level[climb[h].up], 0)
<1>1. /\ climb[h].up \in members /\ climb[h].up \in UserIds /\ climb[h].depth \in 0..2
      /\ (req[h].open => h \in Drafts)
  BY ClimberIsMember DEF EvalRead, Climbing
<1>2. /\ r \in Requests /\ r.at = "count" /\ r.user = req[h].user
      /\ r.referrer = req[h].referrer /\ r.open = req[h].open
  BY AtFields DEF AccountsInv
<1>3. c \in Climbs /\ c.up = climb[h].up /\ c.depth = climb[h].depth
  BY <1>1, ClimbFields DEF AccountsInv, TypeOK, Climb, Climbs, Levels
<1>4. Goes(h, r, c) /\ level' \in [UserIds -> Levels]
  BY DEF EvalRead, AccountsInv, TypeOK, userTable
<1>5. UNCHANGED <<lastId, members, email, referrer, points, verification, reset, drawn, spent>>
  BY DEF EvalRead, userTable, codeTables
<1> HIDE DEF r, c
<1> QED BY <1>1, <1>2, <1>3, <1>4, <1>5, RequestStep

LEMMA EvalCountInv ==
  ASSUME AccountsInv, NEW h \in Handlers, EvalCount(h)
  PROVE  AccountsInv'
<1> DEFINE new == LevelOf(Deposited[climb[h].up], TeamCounted(climb[h].up))
           r == At(req[h], "write")
           c == Climb(climb[h].up, climb[h].depth, climb[h].seen, new)
<1>1. /\ climb[h].up \in members /\ climb[h].up \in UserIds /\ climb[h].depth \in 0..2
      /\ (req[h].open => h \in Drafts)
  BY ClimberIsMember DEF EvalCount, Climbing
<1>2. /\ r \in Requests /\ r.at = "write" /\ r.user = req[h].user
      /\ r.referrer = req[h].referrer /\ r.open = req[h].open
  BY AtFields DEF AccountsInv
<1>3. new \in Levels
  BY <1>1, TeamType, LevelType DEF AccountsInv, TeamCounted
<1>4. Goes(h, r, c) /\ level' \in [UserIds -> Levels]
  BY DEF EvalCount, AccountsInv, TypeOK, userTable
<1> HIDE DEF r, new
<1>5. c \in Climbs /\ c.up = climb[h].up /\ c.depth = climb[h].depth
  BY <1>1, <1>3, ClimbFields DEF AccountsInv, Climb, Climbs
<1>6. UNCHANGED <<lastId, members, email, referrer, points, verification, reset, drawn, spent>>
  BY DEF EvalCount, userTable, codeTables
<1> HIDE DEF c
<1> QED BY <1>1, <1>2, <1>4, <1>5, <1>6, RequestStep

LEMMA EvalWriteInv ==
  ASSUME AccountsInv, NEW h \in Handlers, EvalWrite(h)
  PROVE  AccountsInv'
<1> DEFINE next == IF climb[h].depth < 2 THEN referrer[climb[h].up] ELSE NoUser
           r == At(req[h], IF next = NoUser THEN "close" ELSE "climb")
           c == Climb(next, climb[h].depth + 1, 0, 0)
<1>1. /\ climb[h].up \in members /\ climb[h].up \in UserIds /\ climb[h].depth \in 0..2
      /\ (req[h].open => h \in Drafts)
  BY ClimberIsMember DEF EvalWrite, Climbing
<1>2. level' \in [UserIds -> Levels]
  BY <1>1, ClimbFields DEF EvalWrite, AccountsInv, TypeOK
<1>3. UNCHANGED <<lastId, members, email, referrer, points, verification, reset, drawn, spent>>
  BY DEF EvalWrite, codeTables
<1>4. CASE ~req[h].open
  BY <1>2, <1>3, <1>4, EndsInv DEF EvalWrite
<1>5. CASE req[h].open
  <2>1. Goes(h, r, c)
    BY <1>5 DEF EvalWrite
  <2>2. next \in members \/ next = NoUser
    BY <1>1 DEF AccountsInv, ReferrerCameFirst
  <2>3. /\ next \in UserIds \cup {NoUser} /\ climb[h].depth + 1 \in 0..3
        /\ next = NoUser \/ climb[h].depth + 1 <= 2
    BY <1>1, <2>2 DEF AccountsInv, TypeOK
  <2>4. /\ r \in Requests /\ r.at = (IF next = NoUser THEN "close" ELSE "climb")
        /\ r.user = req[h].user /\ r.referrer = req[h].referrer /\ r.open = req[h].open
    BY AtFields DEF AccountsInv
  <2> HIDE DEF r, next
  <2>5. c \in Climbs /\ c.up = next /\ c.depth = climb[h].depth + 1
    BY <2>3 DEF Climb, Climbs, Levels
  <2> HIDE DEF c
  <2> QED BY <1>1, <1>2, <1>3, <2>1, <2>2, <2>3, <2>4, <2>5, RequestStep DEF Climbing
<1> QED BY <1>4, <1>5

-----------------------------------------------------------------------------
(* When a request is done, the others stay, and so do their drafts.         *)
LEMMA DoneFrame ==
  ASSUME AccountsInv, NEW h \in Handlers, Done(h)
  PROVE  /\ req' \in [Handlers -> Requests] /\ climb' \in [Handlers -> Climbs]
         /\ \A g \in Handlers : req'[g].at # "idle" =>
              g # h /\ req'[g] = req[g] /\ climb'[g] = climb[g]
         /\ \A g \in Drafts' : g # h /\ g \in Drafts /\ req'[g] = req[g]
         /\ Inserting' \subseteq Inserting \ {h}
<1>1. /\ req' \in [Handlers -> Requests] /\ climb' \in [Handlers -> Climbs]
      /\ req'[h] = Idle
      /\ \A g \in Handlers : g # h => req'[g] = req[g] /\ climb'[g] = climb[g]
  BY IdleType, GoesOthers DEF Done, AccountsInv
<1> QED BY <1>1, IdleType DEF Drafts, Open, Inserting

(* The tables of codes do not concern the ids, nor those of users the codes. *)
LEMMA IdsKept ==
  ASSUME AccountsInv, UNCHANGED <<lastId, members, referrer>>,
         \A g \in Drafts' : g \in Drafts /\ req'[g] = req[g],
         \A g \in Handlers : req'[g].at \in Climbing => req'[g] = req[g] /\ climb'[g] = climb[g],
         Inserting' \subseteq Inserting
  PROVE  ReferrerCameFirst' /\ IdsInOrder'
<1>1. ReferrerCameFirst'
  BY DEF AccountsInv, ReferrerCameFirst
<1>2. lastId' + Cardinality(Inserting') <= MaxId
  BY InsertingShrinks, InsertingCount, AccountsAssumption DEF AccountsInv, TypeOK, IdsInOrder
<1> QED BY <1>1, <1>2 DEF AccountsInv, IdsInOrder

LEMMA CodesKept ==
  ASSUME AccountsInv, UNCHANGED <<reset, spent>>, drawn' \in Nat, drawn <= drawn',
         \A g \in Handlers : req'[g].at = "reset" => req'[g] = req[g]
  PROVE  SpentIsUsed' /\ CodesInOrder'
<1>1. SpentIsUsed'
  BY DEF AccountsInv, SpentIsUsed
<1>2. drawn \in Nat /\ 1..drawn \subseteq 1..drawn' /\ \A u \in UserIds : reset[u].code \in Nat
  BY DEF AccountsInv, TypeOK, PasswordReset
<1> QED BY <1>1, <1>2 DEF AccountsInv, CodesInOrder

LEMMA SendEmailWriteInv ==
  ASSUME AccountsInv, NEW h \in Handlers, SendEmailWrite(h)
  PROVE  AccountsInv'
<1>1. Done(h) /\ drawn' = drawn + 1
  BY DEF SendEmailWrite
<1>2. UNCHANGED <<lastId, members, email, referrer, level, points, reset, spent>>
  BY DEF SendEmailWrite, userTable
<1>3. verification' \in [Emails -> Verification] /\ drawn' \in Nat /\ drawn <= drawn'
  <2>1. drawn \in Nat /\ verification \in [Emails -> Verification]
    BY DEF AccountsInv, TypeOK
  <2> DEFINE row == [code |-> drawn + 1, fresh |-> TRUE]
  <2>2. row \in Verification
    BY <2>1 DEF Verification
  <2>3. verification' = [verification EXCEPT ![req[h].email] = row]
    BY DEF SendEmailWrite
  <2> HIDE DEF row
  <2>4. verification' \in [Emails -> Verification]
    BY <2>1, <2>2, <2>3
  <2> QED BY <1>1, <2>1, <2>4
<1>4. TypeOK'
  BY <1>1, <1>2, <1>3, DoneFrame DEF AccountsInv, TypeOK
<1>5. ReferrerCameFirst' /\ IdsInOrder'
  BY <1>1, <1>2, DoneFrame, IdsKept DEF Climbing
<1>6. SpentIsUsed' /\ CodesInOrder'
  BY <1>1, <1>2, <1>3, DoneFrame, CodesKept
<1> QED BY <1>4, <1>5, <1>6 DEF AccountsInv

LEMMA VerificationExpiresInv ==
  ASSUME AccountsInv, NEW e \in Emails, VerificationExpires(e)
  PROVE  AccountsInv'
<1>1. UNCHANGED <<lastId, members, email, referrer, level, points, reset, drawn, spent, req, climb>>
  BY DEF VerificationExpires, userTable
<1>2. verification' \in [Emails -> Verification]
  BY DEF VerificationExpires, AccountsInv, TypeOK, Verification
<1>3. TypeOK'
  BY <1>1, <1>2 DEF AccountsInv, TypeOK
<1>4. Drafts' = Drafts /\ Inserting' = Inserting /\ drawn \in Nat
  BY <1>1 DEF Drafts, Open, Inserting, AccountsInv, TypeOK
<1>5. ReferrerCameFirst' /\ IdsInOrder'
  BY <1>1, <1>4, IdsKept
<1>6. SpentIsUsed' /\ CodesInOrder'
  BY <1>1, <1>4, CodesKept
<1> QED BY <1>3, <1>5, <1>6 DEF AccountsInv

(* The user inserted has an id nobody else has.                             *)
LEMMA SignupCreateInv ==
  ASSUME AccountsInv, NEW h \in Handlers, SignupCreate(h)
  PROVE  AccountsInv'
<1> DEFINE rolledBack == req[h].email \in Taken \/ (req[h].referrer # NoUser /\ ~Known(req[h].referrer))
           new == Request(IF req[h].referrer = NoUser THEN "close" ELSE "climb", lastId + 1,
                          req[h].email, req[h].referrer, 0, TRUE)
           c == Climb(req[h].referrer, 0, 0, 0)
<1>1. UNCHANGED <<members, email, referrer, level, points, verification, reset, drawn, spent>>
  BY DEF SignupCreate, codeTables
<1>2. lastId' = lastId + 1 /\ lastId \in Nat /\ MaxId \in Nat /\ drawn \in Nat /\ members \subseteq 1..lastId
  BY AccountsAssumption DEF SignupCreate, AccountsInv, TypeOK, IdsInOrder
<1>3. h \in Inserting
  BY DEF SignupCreate, Inserting
<1>4. Cardinality(Inserting) >= 1
  <2>1. Inserting # {}
    BY <1>3
  <2> QED BY <2>1, FS_EmptySet, InsertingCount
<1>5. lastId + 1 <= MaxId
  BY <1>2, <1>4, InsertingCount DEF AccountsInv, IdsInOrder
<1>6. CASE rolledBack
  <2>1. Done(h)
    BY <1>6 DEF SignupCreate
  <2>2. /\ req' \in [Handlers -> Requests] /\ climb' \in [Handlers -> Climbs]
        /\ \A g \in Handlers : req'[g].at # "idle" =>
             g # h /\ req'[g] = req[g] /\ climb'[g] = climb[g]
        /\ \A g \in Drafts' : g # h /\ g \in Drafts /\ req'[g] = req[g]
        /\ Inserting' \subseteq Inserting \ {h}
    BY <2>1, DoneFrame
  <2>3. TypeOK'
    BY <1>1, <1>2, <1>5, <2>2 DEF AccountsInv, TypeOK
  <2>4. ReferrerCameFirst'
    BY <1>1 DEF AccountsInv, ReferrerCameFirst
  <2>5. lastId' + Cardinality(Inserting') <= MaxId
    BY <1>2, <1>3, <2>2, InsertingLoses, InsertingCount DEF AccountsInv, IdsInOrder
  <2>6. IdsInOrder'
    BY <1>1, <1>2, <2>2, <2>5 DEF AccountsInv, IdsInOrder, Climbing
  <2>7. SpentIsUsed' /\ CodesInOrder'
    BY <1>1, <1>2, <2>2, CodesKept
  <2> QED BY <2>3, <2>4, <2>6, <2>7 DEF AccountsInv
<1>7. CASE ~rolledBack
  <2>1. Goes(h, new, c) /\ (req[h].referrer = NoUser \/ req[h].referrer \in members)
    BY <1>7 DEF SignupCreate, Known
  <2>2. /\ new \in Requests /\ new.user = lastId + 1 /\ new.referrer = req[h].referrer
        /\ new.at = (IF req[h].referrer = NoUser THEN "close" ELSE "climb")
    BY <1>2, <1>5, RequestFields DEF Request, Requests, UserIds, AccountsInv
  <2>3. c \in Climbs /\ c.up = req[h].referrer /\ c.depth = 0
    BY RequestFields DEF Climb, Climbs, Levels, AccountsInv
  <2> HIDE DEF new, c, rolledBack
  <2>4. /\ req' \in [Handlers -> Requests] /\ climb' \in [Handlers -> Climbs]
        /\ req'[h] = new /\ climb'[h] = c
        /\ \A g \in Handlers : g # h => req'[g] = req[g] /\ climb'[g] = climb[g]
    BY <2>1, <2>2, <2>3, GoesOthers DEF AccountsInv
  <2>5. TypeOK'
    BY <1>1, <1>2, <1>5, <2>4 DEF AccountsInv, TypeOK
  <2>6. ReferrerCameFirst'
    BY <1>1 DEF AccountsInv, ReferrerCameFirst
  <2>7. lastId' + Cardinality(Inserting') <= MaxId
    <3>1. Inserting' \subseteq Inserting \ {h}
      BY <2>2, <2>4 DEF Inserting
    <3> QED BY <1>2, <1>3, <3>1, InsertingLoses, InsertingCount DEF AccountsInv, IdsInOrder
  <2>8. \A g \in Drafts' : g = h \/ (g \in Drafts /\ req'[g] = req[g])
    BY <2>4 DEF Drafts, Open
  <2>9. \A g \in Drafts' : /\ req'[g].user \in (1..(lastId + 1)) \ members
                           /\ req'[g].referrer # NoUser =>
                                req'[g].referrer \in members /\ req'[g].referrer < req'[g].user
    <3> SUFFICES ASSUME NEW g \in Drafts'
                 PROVE  /\ req'[g].user \in (1..(lastId + 1)) \ members
                        /\ req'[g].referrer # NoUser =>
                             req'[g].referrer \in members /\ req'[g].referrer < req'[g].user
      OBVIOUS
    <3>1. CASE g = h
      <4>1. req'[g].user = lastId + 1 /\ req'[g].referrer = req[h].referrer
        BY <2>2, <2>4, <3>1
      <4>2. lastId + 1 \in (1..(lastId + 1)) \ members /\ \A m \in members : m < lastId + 1
        BY <1>2
      <4> QED BY <2>1, <4>1, <4>2
    <3>2. CASE g \in Drafts /\ req'[g] = req[g]
      BY <1>2, <3>2 DEF AccountsInv, IdsInOrder
    <3> QED BY <2>8, <3>1, <3>2
  <2>10. \A f, g \in Drafts' : req'[f].user = req'[g].user => f = g
    <3>1. \A g \in Drafts : req[g].user \in 1..lastId
      BY DEF AccountsInv, IdsInOrder
    <3>2. \A g \in Drafts' : g # h => req'[g].user # req'[h].user
      BY <1>2, <2>2, <2>4, <2>8, <3>1
    <3> QED BY <2>8, <3>2 DEF AccountsInv, IdsInOrder
  <2>11. \A g \in Handlers : req'[g].at \in Climbing => climb'[g].up \in members /\ climb'[g].depth <= 2
    BY <2>1, <2>2, <2>3, <2>4 DEF AccountsInv, IdsInOrder, Climbing
  <2>12. IdsInOrder'
    BY <1>1, <1>2, <2>7, <2>9, <2>10, <2>11 DEF IdsInOrder
  <2>13. \A g \in Handlers : req'[g].at = "reset" => req'[g] = req[g]
    BY <2>2, <2>4
  <2>14. SpentIsUsed' /\ CodesInOrder'
    BY <1>1, <1>2, <2>13, CodesKept
  <2> QED BY <2>5, <2>6, <2>12, <2>14 DEF AccountsInv
<1> QED BY <1>6, <1>7

(* The new member's id is a draft's, and the referrer became a member       *)
(* before; nobody else has that draft.                                      *)
LEMMA SignupCommitInv ==
  ASSUME AccountsInv, NEW h \in Handlers, SignupCommit(h)
  PROVE  AccountsInv'
<1> DEFINE u == req[h].user
           e == req[h].email
<1>1. Done(h)
  BY DEF SignupCommit
<1>2. /\ req' \in [Handlers -> Requests] /\ climb' \in [Handlers -> Climbs]
      /\ \A g \in Handlers : req'[g].at # "idle" =>
           g # h /\ req'[g] = req[g] /\ climb'[g] = climb[g]
      /\ \A g \in Drafts' : g # h /\ g \in Drafts /\ req'[g] = req[g]
      /\ Inserting' \subseteq Inserting \ {h}
  BY <1>1, DoneFrame
<1>3. CASE verification[e].code = 0
  <2>1. UNCHANGED <<userTable, codeTables>>
    BY <1>3 DEF SignupCommit
  <2>2. level' \in [UserIds -> Levels]
    BY <2>1 DEF userTable, AccountsInv, TypeOK
  <2> QED BY <1>1, <2>1, <2>2, EndsInv DEF userTable, codeTables
<1>4. CASE verification[e].code # 0
  <2>1. /\ members' = members \cup {u}
        /\ email' = [email EXCEPT ![u] = e]
        /\ referrer' = [referrer EXCEPT ![u] = req[h].referrer]
        /\ verification' = [verification EXCEPT ![e] = [code |-> 0, fresh |-> FALSE]]
        /\ UNCHANGED <<lastId, level, points, reset, drawn, spent>>
    BY <1>4 DEF SignupCommit
  <2>2. h \in Drafts
    BY DEF SignupCommit, Drafts, Open
  <2>3. /\ u \in 1..lastId /\ u \notin members
        /\ req[h].referrer # NoUser => req[h].referrer \in members /\ req[h].referrer < u
    BY <2>2 DEF AccountsInv, IdsInOrder
  <2>4. lastId \in 0..MaxId /\ MaxId \in Nat /\ u \in UserIds /\ members \subseteq 1..lastId
    BY <2>3, AccountsAssumption DEF AccountsInv, TypeOK, UserIds, IdsInOrder
  <2>5. e \in Emails \cup {NoEmail} /\ req[h].referrer \in UserIds \cup {NoUser}
    BY RequestFields DEF AccountsInv
  <2> HIDE DEF u, e
  <2>6. TypeOK'
    <3>1. verification' \in [Emails -> Verification]
      BY <2>1 DEF AccountsInv, TypeOK, Verification
    <3>2. members' \subseteq UserIds /\ lastId' \in 0..MaxId
      BY <2>1, <2>4 DEF UserIds
    <3>3. email' \in [UserIds -> Emails \cup {NoEmail}] /\ referrer' \in [UserIds -> UserIds \cup {NoUser}]
      BY <2>1, <2>4, <2>5 DEF AccountsInv, TypeOK
    <3> QED BY <1>2, <2>1, <3>1, <3>2, <3>3 DEF AccountsInv, TypeOK
  <2>7. referrer'[u] = req[h].referrer /\ \A m \in members : referrer'[m] = referrer[m]
    BY <2>1, <2>3, <2>4 DEF AccountsInv, TypeOK
  <2>8. ReferrerCameFirst'
    <3> SUFFICES ASSUME NEW m \in members', referrer'[m] # NoUser
                 PROVE  referrer'[m] \in members /\ referrer'[m] < m
      BY <2>1 DEF ReferrerCameFirst
    <3>1. CASE m = u
      BY <2>3, <2>7, <3>1
    <3>2. CASE m \in members
      BY <2>7, <3>2 DEF AccountsInv, ReferrerCameFirst
    <3> QED BY <2>1, <3>1, <3>2
  <2>9. IdsInOrder'
    <3>1. lastId' + Cardinality(Inserting') <= MaxId
      <4>1. Inserting' \subseteq Inserting
        BY <1>2
      <4> QED BY <2>1, <2>4, <4>1, InsertingShrinks, InsertingCount DEF AccountsInv, IdsInOrder
    <3>2. members' \subseteq 1..lastId
      BY <2>1, <2>3, <2>4
    <3>3. \A g \in Drafts' : req[g].user # u
      BY <1>2, <2>2 DEF AccountsInv, IdsInOrder, u
    <3>4. \A g \in Drafts' : /\ req'[g].user \in (1..lastId) \ members'
                             /\ req'[g].referrer # NoUser =>
                                  req'[g].referrer \in members' /\ req'[g].referrer < req'[g].user
      BY <1>2, <2>1, <3>3 DEF AccountsInv, IdsInOrder
    <3>5. \A f, g \in Drafts' : req'[f].user = req'[g].user => f = g
      BY <1>2 DEF AccountsInv, IdsInOrder
    <3>6. \A g \in Handlers : req'[g].at \in Climbing => climb'[g].up \in members' /\ climb'[g].depth <= 2
      BY <1>2, <2>1 DEF AccountsInv, IdsInOrder, Climbing
    <3> QED BY <2>1, <3>1, <3>2, <3>4, <3>5, <3>6 DEF IdsInOrder
  <2>10. drawn' \in Nat /\ drawn <= drawn'
    BY <2>1 DEF AccountsInv, TypeOK
  <2>11. SpentIsUsed' /\ CodesInOrder'
    BY <1>2, <2>1, <2>10, CodesKept
  <2> QED BY <2>6, <2>8, <2>9, <2>11 DEF AccountsInv
<1> QED BY <1>3, <1>4

-----------------------------------------------------------------------------
(* A new reset code is nobody else's, and has set no password yet.          *)
LEMMA RequestResetInv ==
  ASSUME AccountsInv, NEW u \in Active, RequestReset(u)
  PROVE  AccountsInv'
<1> DEFINE row == [code |-> drawn + 1, used |-> FALSE, fresh |-> TRUE]
<1>1. UNCHANGED <<lastId, members, email, referrer, level, points, verification, spent, req, climb>>
  BY DEF RequestReset, userTable
<1>2. drawn' = drawn + 1 /\ drawn \in Nat /\ u \in UserIds
  BY AccountsAssumption DEF RequestReset, AccountsInv, TypeOK, UserIds
<1>3. row \in PasswordReset /\ row.code = drawn + 1
  BY <1>2 DEF PasswordReset
<1>4. reset' = [reset EXCEPT ![u] = row] /\ reset \in [UserIds -> PasswordReset]
  BY DEF RequestReset, AccountsInv, TypeOK
<1> HIDE DEF row
<1>5. reset'[u] = row /\ \A v \in UserIds : v # u => reset'[v] = reset[v]
  BY <1>2, <1>4
<1>6. TypeOK'
  BY <1>1, <1>2, <1>3, <1>4 DEF AccountsInv, TypeOK
<1>7. Drafts' = Drafts /\ Inserting' = Inserting
  BY <1>1 DEF Drafts, Open, Inserting
<1>8. ReferrerCameFirst' /\ IdsInOrder'
  BY <1>1, <1>7, IdsKept
<1>9. \A v \in UserIds : reset[v].code \in Nat /\ reset[v].code <= drawn
  BY <1>4 DEF AccountsInv, CodesInOrder, PasswordReset
<1>10. SpentIsUsed'
  <2>1. drawn + 1 \notin spent
    BY <1>2 DEF AccountsInv, CodesInOrder
  <2> QED BY <1>1, <1>3, <1>5, <2>1 DEF AccountsInv, SpentIsUsed
<1>11. CodesInOrder'
  <2>1. spent \subseteq 1..(drawn + 1)
    BY <1>2 DEF AccountsInv, CodesInOrder
  <2>2. \A v \in UserIds : reset'[v].code <= drawn + 1 /\ (reset'[v].fresh => reset'[v].code # 0)
    BY <1>2, <1>3, <1>5, <1>9 DEF AccountsInv, CodesInOrder
  <2>3. \A v, w \in UserIds : reset'[v].code = reset'[w].code => v = w \/ reset'[v].code = 0
    <3>1. \A v \in UserIds : v # u => reset'[v].code # reset'[u].code
      BY <1>2, <1>3, <1>5, <1>9
    <3> QED BY <1>5, <3>1 DEF AccountsInv, CodesInOrder
  <2>4. \A h \in Handlers : req[h].at = "reset" =>
          /\ req[h].user \in UserIds /\ req[h].code \in 1..(drawn + 1)
          /\ \A v \in UserIds : reset'[v].code = req[h].code => v = req[h].user
    <3> SUFFICES ASSUME NEW h \in Handlers, req[h].at = "reset"
                 PROVE  /\ req[h].user \in UserIds /\ req[h].code \in 1..(drawn + 1)
                        /\ \A v \in UserIds : reset'[v].code = req[h].code => v = req[h].user
      OBVIOUS
    <3>1. /\ req[h].user \in UserIds /\ req[h].code \in 1..drawn
          /\ \A v \in UserIds : reset[v].code = req[h].code => v = req[h].user
      BY DEF AccountsInv, CodesInOrder
    <3>2. req[h].code # drawn + 1
      BY <1>2, <3>1
    <3>3. \A v \in UserIds : reset'[v].code = req[h].code => v = req[h].user
      BY <1>3, <1>5, <3>1, <3>2
    <3> QED BY <1>2, <3>1, <3>3
  <2> QED BY <1>1, <1>2, <2>1, <2>2, <2>3, <2>4 DEF CodesInOrder
<1> QED BY <1>6, <1>8, <1>10, <1>11 DEF AccountsInv

(* Codes that stay where they are, and only become used or expire           *)
LEMMA MarksInv ==
  ASSUME AccountsInv, reset' \in [UserIds -> PasswordReset],
         UNCHANGED <<lastId, members, referrer, drawn>>, TypeOK',
         \A v \in UserIds : /\ reset'[v].code = reset[v].code
                            /\ reset[v].used => reset'[v].used
                            /\ reset'[v].fresh => reset[v].fresh,
         spent' \subseteq 1..drawn,
         \A v \in UserIds : reset[v].code \in spent' \ spent => reset'[v].used,
         \A g \in Drafts' : g \in Drafts /\ req'[g] = req[g],
         \A g \in Handlers : req'[g].at # "idle" => req'[g] = req[g] /\ climb'[g] = climb[g],
         Inserting' \subseteq Inserting
  PROVE  AccountsInv'
<1>1. ReferrerCameFirst' /\ IdsInOrder'
  BY IdsKept DEF Climbing
<1>2. SpentIsUsed'
  BY DEF AccountsInv, SpentIsUsed
<1>3. CodesInOrder'
  BY DEF AccountsInv, CodesInOrder
<1> QED BY <1>1, <1>2, <1>3 DEF AccountsInv

LEMMA ResetExpiresInv ==
  ASSUME AccountsInv, NEW u \in Active, ResetExpires(u)
  PROVE  AccountsInv'
<1> DEFINE row == [code |-> reset[u].code, used |-> reset[u].used, fresh |-> FALSE]
<1>1. UNCHANGED <<lastId, members, email, referrer, level, points, verification, drawn, spent, req, climb>>
  BY DEF ResetExpires, userTable
<1>2. u \in UserIds /\ reset \in [UserIds -> PasswordReset] /\ reset' = [reset EXCEPT ![u] = row]
  BY AccountsAssumption DEF ResetExpires, AccountsInv, TypeOK, UserIds
<1>3. row \in PasswordReset /\ row.code = reset[u].code /\ row.used = reset[u].used /\ ~row.fresh
  BY <1>2 DEF PasswordReset
<1> HIDE DEF row
<1>4. reset' \in [UserIds -> PasswordReset] /\ reset'[u] = row /\ \A v \in UserIds : v # u => reset'[v] = reset[v]
  BY <1>2, <1>3
<1>5. TypeOK'
  BY <1>1, <1>4 DEF AccountsInv, TypeOK
<1>6. Drafts' = Drafts /\ Inserting' = Inserting /\ spent' \subseteq 1..drawn
  BY <1>1 DEF Drafts, Open, Inserting, AccountsInv, CodesInOrder
<1>7. \A v \in UserIds : /\ reset'[v].code = reset[v].code
                         /\ reset[v].used => reset'[v].used
                         /\ reset'[v].fresh => reset[v].fresh
  BY <1>3, <1>4
<1>8. \A g \in Handlers : req'[g] = req[g] /\ climb'[g] = climb[g]
  BY <1>1
<1>9. \A g \in Drafts' : g \in Drafts /\ g \in Handlers
  BY <1>6 DEF Drafts, Open
<1> QED BY <1>1, <1>4, <1>5, <1>6, <1>7, <1>8, <1>9, MarksInv

(* The code that is spent is its user's, if it is still there.              *)
LEMMA ResetCommitInv ==
  ASSUME AccountsInv, NEW h \in Handlers, ResetCommit(h)
  PROVE  AccountsInv'
<1> DEFINE u == req[h].user
           row == MarkUsed(reset[u])
<1>1. Done(h) /\ spent' = spent \cup {req[h].code}
  BY DEF ResetCommit
<1>2. UNCHANGED <<lastId, members, email, referrer, level, points, verification, drawn>>
  BY DEF ResetCommit, userTable
<1>3. /\ u \in UserIds /\ req[h].code \in 1..drawn
      /\ \A v \in UserIds : reset[v].code = req[h].code => v = u
  BY DEF ResetCommit, AccountsInv, CodesInOrder
<1>4. reset \in [UserIds -> PasswordReset] /\ reset' = [reset EXCEPT ![u] = row]
  BY DEF ResetCommit, AccountsInv, TypeOK
<1>5. row \in PasswordReset /\ row.code = reset[u].code /\ row.used /\ row.fresh = reset[u].fresh
  BY <1>3, <1>4 DEF PasswordReset, MarkUsed
<1> HIDE DEF row, u
<1>6. reset' \in [UserIds -> PasswordReset] /\ reset'[u] = row /\ \A v \in UserIds : v # u => reset'[v] = reset[v]
  BY <1>3, <1>4, <1>5
<1>7. spent' \subseteq 1..drawn /\ drawn \in Nat
  BY <1>1, <1>3 DEF AccountsInv, CodesInOrder, TypeOK
<1>8. TypeOK'
  <2>1. spent' \subseteq Nat
    BY <1>7
  <2> QED BY <1>1, <1>2, <1>6, <2>1, DoneFrame DEF AccountsInv, TypeOK
<1>9. \A v \in UserIds : /\ reset'[v].code = reset[v].code
                         /\ reset[v].used => reset'[v].used
                         /\ reset'[v].fresh => reset[v].fresh
  BY <1>5, <1>6
<1>10. \A v \in UserIds : reset[v].code \in spent' \ spent => reset'[v].used
  BY <1>1, <1>3, <1>5, <1>6
<1>11. /\ \A g \in Handlers : req'[g].at # "idle" => req'[g] = req[g] /\ climb'[g] = climb[g]
       /\ \A g \in Drafts' : g \in Drafts /\ req'[g] = req[g]
       /\ Inserting' \subseteq Inserting
  BY <1>1, DoneFrame
<1> QED BY <1>2, <1>6, <1>7, <1>8, <1>9, <1>10, <1>11, MarksInv

-----------------------------------------------------------------------------
(* What concerns one column of a user's row                                 *)
LEMMA ColumnsInv ==
  ASSUME AccountsInv,
         UNCHANGED <<lastId, members, referrer, codeTables, req, climb>>,
         email' \in [UserIds -> Emails \cup {NoEmail}],
         level' \in [UserIds -> Levels], points' \in [UserIds -> Nat]
  PROVE  AccountsInv'
<1>1. UNCHANGED <<verification, reset, drawn, spent>>
  BY DEF codeTables
<1>2. TypeOK'
  BY <1>1 DEF AccountsInv, TypeOK
<1>3. Drafts' = Drafts /\ Inserting' = Inserting /\ drawn \in Nat
  BY DEF Drafts, Open, Inserting, AccountsInv, TypeOK
<1>4. ReferrerCameFirst' /\ IdsInOrder'
  BY <1>3, IdsKept
<1>5. SpentIsUsed' /\ CodesInOrder'
  BY <1>1, <1>3, CodesKept
<1> QED BY <1>2, <1>4, <1>5 DEF AccountsInv

LEMMA ChangeEmailInv ==
  ASSUME AccountsInv, NEW u \in Active, NEW e \in Emails, ChangeEmail(u, e)
  PROVE  AccountsInv'
<1>1. /\ email' \in [UserIds -> Emails \cup {NoEmail}]
      /\ level' \in [UserIds -> Levels] /\ points' \in [UserIds -> Nat]
  BY DEF ChangeEmail, AccountsInv, TypeOK
<1> QED BY <1>1, ColumnsInv DEF ChangeEmail

LEMMA PurchaseInv ==
  ASSUME AccountsInv, NEW u \in Active, Purchase(u)
  PROVE  AccountsInv'
<1>1. u \in UserIds /\ PointsPerPurchase \in Nat /\ points \in [UserIds -> Nat]
  BY AccountsAssumption DEF UserIds, AccountsInv, TypeOK
<1>2. points' \in [UserIds -> Nat]
  BY <1>1 DEF Purchase
<1>3. level' \in [UserIds -> Levels] /\ email' \in [UserIds -> Emails \cup {NoEmail}]
  BY <1>1 DEF Purchase, Reached, AccountsInv, TypeOK
<1>4. UNCHANGED <<lastId, members, referrer, codeTables, req, climb>>
  BY DEF Purchase
<1> QED BY <1>2, <1>3, <1>4, ColumnsInv

-----------------------------------------------------------------------------
(* Every step keeps the accounts consistent.                                *)
LEMMA NextInv == AccountsInv /\ [Next]_vars => AccountsInv'
<1> SUFFICES ASSUME AccountsInv, [Next]_vars PROVE AccountsInv'
  OBVIOUS
<1>1. CASE Simple
  BY <1>1, RequestResetInv, PurchaseInv, ChangeEmailInv DEF Simple
<1>2. CASE Time
  BY <1>2, VerificationExpiresInv, ResetExpiresInv DEF Time
<1>3. ASSUME NEW h \in Handlers, Begins(h)
      PROVE  AccountsInv'
  BY <1>3, SendEmailReadInv, SignupReadInv, ResetReadInv DEF Begins
<1>4. ASSUME NEW h \in Handlers, Asks(h)
      PROVE  AccountsInv'
  BY <1>4, SendEmailWriteInv, SignupBeginInv, ResetCommitInv,
     EvalReadInv, EvalCountInv, EvalWriteInv DEF Asks
<1>5. ASSUME NEW h \in Handlers, SignupCreate(h) \/ SignupCommit(h) \/ TimesOut(h) \/ Fails(h)
      PROVE  AccountsInv'
  BY <1>5, SignupCreateInv, SignupCommitInv, TimesOutInv, FailsInv
<1>6. CASE UNCHANGED vars
  <2>1. UNCHANGED <<lastId, members, referrer, codeTables, req, climb, email, level, points>>
    BY <1>6 DEF vars, userTable
  <2> QED BY <2>1, ColumnsInv DEF AccountsInv, TypeOK
<1> QED BY <1>1, <1>2, <1>3, <1>4, <1>5, <1>6 DEF Next

(* Whatever overlaps and fails: whoever referred a member was a member      *)
(* before, ids are never given twice, and the last code that set a password *)
(* is gone or marked used (auth.service.ts, signup and resetPassword).      *)
THEOREM AccountsConsistent == Spec => []AccountsInv
<1> QED BY InitInv, NextInv, PTL DEF Spec

(* So a chain of referrers, as signup and the team bonus climb it, goes     *)
(* strictly down in ids, and cannot come back to where it began.            *)
THEOREM ChainsEnd == Spec => []ReferrerCameFirst
<1>1. AccountsInv => ReferrerCameFirst
  BY DEF AccountsInv
<1> QED BY <1>1, AccountsConsistent, PTL

(* Only ResetRead begins a request that is going to set a password, and     *)
(* only EvalCount leads one to where it writes a level.                     *)
Stays(h) == req'[h].at = req[h].at /\ climb'[h] = climb[h]
LEMMA Moved ==
  ASSUME AccountsInv, NEW g \in Handlers, NEW r, NEW c, Goes(g, r, c),
         r.at \in {"reset", "write"} => r.at = req[g].at /\ c = climb[g]
  PROVE  \A h \in Handlers : req'[h].at \in {"reset", "write"} => Stays(h)
BY DEF Goes, AccountsInv, TypeOK, Stays

LEMMA WhoWrites ==
  ASSUME AccountsInv, Next, NEW h \in Handlers, req'[h].at \in {"reset", "write"}
  PROVE  Stays(h) \/ EvalCount(h) \/ \E u \in Active : ResetRead(h, u)
<1> SUFFICES ASSUME \A u \in Active : ~ResetRead(h, u), ~EvalCount(h), ~Stays(h) PROVE FALSE
  OBVIOUS
<1>1. CASE Simple \/ Time
  BY <1>1 DEF Simple, Time, RequestReset, Purchase, ChangeEmail, VerificationExpires, ResetExpires, Stays
<1>2. ASSUME NEW g \in Handlers, Done(g)
      PROVE  FALSE
  BY <1>2, Moved, IdleType DEF Done
<1>3. ASSUME NEW g \in Handlers, Begins(g)
      PROVE  FALSE
  <2>1. CASE \E e \in Emails : SendEmailRead(g, e)
    <3>1. PICK e \in Emails : SendEmailRead(g, e)
      BY <2>1
    <3>2. Goes(g, Request("send", NoUser, e, NoUser, 0, FALSE), climb[g])
      BY <3>1 DEF SendEmailRead, Become
    <3>3. Request("send", NoUser, e, NoUser, 0, FALSE).at = "send"
      BY DEF Request
    <3> QED BY <3>2, <3>3, Moved
  <2>2. CASE \E e \in Emails, i \in Invitations : SignupRead(g, e, i)
    <3>1. PICK e \in Emails, i \in Invitations : SignupRead(g, e, i)
      BY <2>2
    <3>2. Goes(g, Request("signup", NoUser, e, i, 0, FALSE), climb[g])
      BY <3>1 DEF SignupRead, Become
    <3>3. Request("signup", NoUser, e, i, 0, FALSE).at = "signup"
      BY DEF Request
    <3> QED BY <3>2, <3>3, Moved
  <2>3. ASSUME NEW u \in Active, ResetRead(g, u)
        PROVE  FALSE
    <3>1. g # h
      BY <2>3
    <3>2. Stays(h)
      BY <2>3, <3>1 DEF ResetRead, Become, Goes, AccountsInv, TypeOK, Stays
    <3> QED BY <3>2
  <2> QED BY <1>3, <2>1, <2>2, <2>3 DEF Begins
<1>4. ASSUME NEW g \in Handlers, Asks(g)
      PROVE  FALSE
  <2>1. CASE SendEmailWrite(g) \/ ResetCommit(g)
    BY <1>2, <2>1 DEF SendEmailWrite, ResetCommit
  <2>2. CASE SignupBegin(g)
    <3>1. Goes(g, Request("insert", NoUser, req[g].email, req[g].referrer, 0, TRUE), climb[g])
      BY <2>2 DEF SignupBegin, Become
    <3>2. Request("insert", NoUser, req[g].email, req[g].referrer, 0, TRUE).at = "insert"
      BY DEF Request
    <3> QED BY <3>1, <3>2, Moved
  <2>3. CASE EvalRead(g)
    BY <2>3, AtFields, Moved DEF EvalRead, AccountsInv
  <2>4. CASE EvalCount(g)
    <3>1. g # h
      BY <2>4
    <3>2. Stays(h)
      BY <2>4, <3>1 DEF EvalCount, Goes, AccountsInv, TypeOK, Stays
    <3> QED BY <3>2
  <2>5. CASE EvalWrite(g)
    <3>1. \A next : At(req[g], IF next = NoUser THEN "close" ELSE "climb").at \in {"close", "climb"}
      BY DEF At, Request
    <3>2. CASE req[g].open
      <4>1. \E next, c : Goes(g, At(req[g], IF next = NoUser THEN "close" ELSE "climb"), c)
        BY <2>5, <3>2 DEF EvalWrite
      <4> QED BY <3>1, <4>1, Moved
    <3>3. CASE ~req[g].open
      BY <1>2, <2>5, <3>3 DEF EvalWrite
    <3> QED BY <3>2, <3>3
  <2> QED BY <1>4, <2>1, <2>2, <2>3, <2>4, <2>5 DEF Asks
<1>5. ASSUME NEW g \in Handlers, SignupCreate(g) \/ SignupCommit(g) \/ TimesOut(g) \/ Fails(g)
      PROVE  FALSE
  <2>1. CASE SignupCommit(g) \/ Fails(g)
    BY <1>2, <2>1 DEF SignupCommit, Fails
  <2>2. CASE TimesOut(g)
    <3>1. CASE req[g].at \in {"insert", "close"}
      BY <1>2, <2>2, <3>1 DEF TimesOut
    <3>2. CASE req[g].at \notin {"insert", "close"}
      <4>1. Goes(g, TimedOut(req[g]), climb[g])
        BY <2>2, <3>2 DEF TimesOut, Become
      <4> QED BY <4>1, TimedOutFields, Moved DEF AccountsInv
    <3> QED BY <3>1, <3>2
  <2>3. CASE SignupCreate(g)
    <3> DEFINE new == Request(IF req[g].referrer = NoUser THEN "close" ELSE "climb", lastId + 1,
                              req[g].email, req[g].referrer, 0, TRUE)
    <3>1. new.at \in {"close", "climb"}
      BY DEF Request
    <3>2. Done(g) \/ Goes(g, new, Climb(req[g].referrer, 0, 0, 0))
      BY <2>3 DEF SignupCreate
    <3> HIDE DEF new
    <3>3. ASSUME Goes(g, new, Climb(req[g].referrer, 0, 0, 0))
          PROVE  FALSE
      BY <3>1, <3>3, Moved
    <3> QED BY <1>2, <3>2, <3>3
  <2> QED BY <1>5, <2>1, <2>2, <2>3
<1> QED BY <1>1, <1>3, <1>4, <1>5 DEF Next

(* resetPassword never accepts a code that has set a password, though two   *)
(* requests that both checked it before may both use it.                    *)
THEOREM CodesDieWithUse == Spec => CodeDiesWithUse
<1> DEFINE Refused == \A h \in Handlers :
             req[h].at # "reset" /\ req'[h].at = "reset" => req'[h].code \notin spent
<1>1. AccountsInv /\ [Next]_vars => [Refused]_vars
  <2> SUFFICES ASSUME AccountsInv, Next, NEW h \in Handlers,
                      req[h].at # "reset", req'[h].at = "reset"
               PROVE  req'[h].code \notin spent
    BY DEF Refused
  <2>1. PICK u \in Active : ResetRead(h, u)
    <3>1. ~Stays(h)
      BY DEF Stays
    <3>2. ASSUME EvalCount(h)
          PROVE  FALSE
      BY <3>2, AtFields DEF EvalCount, Goes, AccountsInv, TypeOK
    <3> QED BY <3>1, <3>2, WhoWrites
  <2>2. u \in UserIds
    BY AccountsAssumption DEF UserIds
  <2>3. req'[h] = Request("reset", u, NoEmail, NoUser, reset[u].code, FALSE)
    BY <2>1 DEF ResetRead, Become, Goes, AccountsInv, TypeOK
  <2>4. req'[h].code = reset[u].code
    BY <2>3 DEF Request
  <2>5. ~reset[u].used
    BY <2>1 DEF ResetRead
  <2> QED BY <2>2, <2>4, <2>5 DEF AccountsInv, SpentIsUsed
<1> QED BY <1>1, AccountsConsistent, PTL DEF Spec, CodeDiesWithUse

-----------------------------------------------------------------------------
(* A larger table of referrals holds larger teams.                          *)
LEMMA TeamMonotone ==
  ASSUME NEW s, NEW t, IsFiniteSet(DOMAIN t), NEW u,
         DOMAIN s \subseteq DOMAIN t, \A m \in DOMAIN s : s[m] = t[m]
  PROVE  /\ GetTeamMembers(s, u) \in Team /\ GetTeamMembers(t, u) \in Team
         /\ GetTeamMembers(s, u).A <= GetTeamMembers(t, u).A
         /\ GetTeamMembers(s, u).B <= GetTeamMembers(t, u).B
         /\ GetTeamMembers(s, u).C <= GetTeamMembers(t, u).C
<1>1. \A S, T : S \subseteq T =>
        /\ Referred(s, S) \subseteq Referred(t, T)
        /\ Cardinality(Referred(s, S)) <= Cardinality(Referred(t, T))
        /\ Cardinality(Referred(s, S)) \in Nat /\ Cardinality(Referred(t, T)) \in Nat
  <2> TAKE S, T
  <2> HAVE S \subseteq T
  <2>1. Referred(s, S) \subseteq Referred(t, T) /\ Referred(t, T) \subseteq DOMAIN t
    BY DEF Referred
  <2>2. IsFiniteSet(Referred(t, T))
    BY <2>1, FS_Subset
  <2>3. /\ IsFiniteSet(Referred(s, S))
        /\ Cardinality(Referred(s, S)) <= Cardinality(Referred(t, T))
    BY <2>1, <2>2, FS_Subset
  <2> QED BY <2>1, <2>2, <2>3, FS_CardinalityType
<1> QED BY <1>1 DEF GetTeamMembers, Counts, Team

(* Members stay, with who referred them and at least the points they have.  *)
LEMMA MembersStay ==
  ASSUME AccountsInv, Next
  PROVE  /\ members \subseteq members' /\ \A m \in members : referrer'[m] = referrer[m]
         /\ \A u \in UserIds : points'[u] \in Nat /\ points[u] \in Nat /\ points[u] <= points'[u]
<1>0. points \in [UserIds -> Nat] /\ PointsPerPurchase \in Nat /\ \A u \in Active : u \in UserIds
  BY AccountsAssumption DEF AccountsInv, TypeOK, UserIds
<1>1. CASE UNCHANGED <<members, referrer, points>>
  BY <1>0, <1>1
<1>2. ASSUME NEW u \in Active, Purchase(u)
      PROVE  UNCHANGED <<members, referrer>> /\ points' = [points EXCEPT ![u] = points[u] + PointsPerPurchase]
  BY <1>2 DEF Purchase
<1>3. ASSUME NEW h \in Handlers, SignupCommit(h)
      PROVE  \/ UNCHANGED <<members, referrer, points>>
             \/ /\ members \subseteq members' /\ UNCHANGED points
                /\ \A m \in members : referrer'[m] = referrer[m]
  <2>1. req[h].user \notin members
    BY <1>3 DEF SignupCommit, Drafts, Open, AccountsInv, IdsInOrder
  <2>2. referrer \in [UserIds -> UserIds \cup {NoUser}] /\ members \subseteq UserIds
    BY DEF AccountsInv, TypeOK
  <2> QED BY <1>3, <2>1, <2>2 DEF SignupCommit, userTable
<1>4. CASE Time
  BY <1>1, <1>4 DEF Time, VerificationExpires, ResetExpires, userTable
<1>5. ASSUME Simple, \A u \in Active : ~Purchase(u)
      PROVE  UNCHANGED <<members, referrer, points>>
  BY <1>5 DEF Simple, RequestReset, ChangeEmail, userTable
<1>6. ASSUME NEW h \in Handlers, Begins(h)
      PROVE  UNCHANGED <<members, referrer, points>>
  BY <1>6 DEF Begins, SendEmailRead, SignupRead, ResetRead, userTable
<1>7. ASSUME NEW h \in Handlers, Asks(h)
      PROVE  UNCHANGED <<members, referrer, points>>
  <2>1. CASE SendEmailWrite(h) \/ SignupBegin(h) \/ ResetCommit(h)
    BY <2>1 DEF SendEmailWrite, SignupBegin, ResetCommit, userTable
  <2>2. CASE EvalRead(h) \/ EvalCount(h) \/ EvalWrite(h)
    BY <2>2 DEF EvalRead, EvalCount, EvalWrite, userTable
  <2> QED BY <1>7, <2>1, <2>2 DEF Asks
<1>8. ASSUME NEW h \in Handlers, SignupCreate(h) \/ TimesOut(h) \/ Fails(h)
      PROVE  UNCHANGED <<members, referrer, points>>
  BY <1>8 DEF SignupCreate, TimesOut, Fails, userTable
<1>9. CASE \E u \in Active : Purchase(u)
  <2>1. PICK u \in Active : Purchase(u)
    BY <1>9
  <2>2. UNCHANGED <<members, referrer>> /\ points' = [points EXCEPT ![u] = points[u] + PointsPerPurchase]
    BY <1>2, <2>1
  <2> QED BY <1>0, <2>2
<1> QED BY <1>0, <1>1, <1>3, <1>4, <1>5, <1>6, <1>7, <1>8, <1>9 DEF Next

(* Levels are written by evaluations and by purchases.                      *)
LEMMA LevelsWritten ==
  ASSUME AccountsInv, Next, level' # level
  PROVE  (\E v \in Active : Purchase(v)) \/ (\E h \in Handlers : EvalWrite(h))
<1> SUFFICES ASSUME \A v \in Active : ~Purchase(v), \A h \in Handlers : ~EvalWrite(h) PROVE FALSE
  OBVIOUS
<1>1. CASE Simple \/ Time
  BY <1>1 DEF Simple, Time, RequestReset, ChangeEmail, VerificationExpires, ResetExpires, userTable
<1>2. ASSUME NEW h \in Handlers, Begins(h)
      PROVE  FALSE
  BY <1>2 DEF Begins, SendEmailRead, SignupRead, ResetRead, userTable
<1>3. ASSUME NEW h \in Handlers, Asks(h)
      PROVE  FALSE
  BY <1>3 DEF Asks, SendEmailWrite, SignupBegin, ResetCommit, EvalRead, EvalCount, userTable
<1>4. ASSUME NEW h \in Handlers, SignupCreate(h) \/ SignupCommit(h) \/ TimesOut(h) \/ Fails(h)
      PROVE  FALSE
  BY <1>4 DEF SignupCreate, SignupCommit, TimesOut, Fails, userTable
<1> QED BY <1>1, <1>2, <1>3, <1>4 DEF Next

LEMMA TeamGrows ==
  ASSUME AccountsInv, AccountsInv', Next, NEW u \in UserIds
  PROVE  /\ LevelOf(Deposited[u], TeamNow(u)) \in Levels /\ LevelOf(Deposited[u], TeamNow(u)') \in Levels
         /\ LevelOf(Deposited[u], TeamNow(u)) <= LevelOf(Deposited[u], TeamNow(u)')
<1> DEFINE s == ReferralTable(members)
           t == [m \in {v \in members' : referrer'[v] # NoUser} |-> referrer'[m]]
<1>1. DOMAIN s \subseteq DOMAIN t /\ \A m \in DOMAIN s : s[m] = t[m]
  BY MembersStay DEF ReferralTable
<1>2. IsFiniteSet(DOMAIN t)
  <2>1. DOMAIN t \subseteq UserIds
    BY DEF AccountsInv, TypeOK
  <2> QED BY <2>1, FS_Subset, FS_Interval, AccountsAssumption DEF UserIds
<1>3. TeamNow(u) = Plus(Crowd[u], GetTeamMembers(s, u)) /\ TeamNow(u)' = Plus(Crowd[u], GetTeamMembers(t, u))
  BY DEF TeamNow, ReferralTable
<1> HIDE DEF s, t
<1>4. Crowd[u] \in Team /\ Deposited[u] \in Nat
  BY AccountsAssumption
<1>5. /\ GetTeamMembers(s, u) \in Team /\ GetTeamMembers(t, u) \in Team
      /\ GetTeamMembers(s, u).A <= GetTeamMembers(t, u).A
      /\ GetTeamMembers(s, u).B <= GetTeamMembers(t, u).B
      /\ GetTeamMembers(s, u).C <= GetTeamMembers(t, u).C
  BY <1>1, <1>2, TeamMonotone
<1> DEFINE before == Plus(Crowd[u], GetTeamMembers(s, u))
           after == Plus(Crowd[u], GetTeamMembers(t, u))
<1>6. /\ before \in Team /\ after \in Team
      /\ before.A <= after.A /\ before.B <= after.B /\ before.C <= after.C
  BY <1>4, <1>5 DEF Plus, Team
<1>7. TeamNow(u) = before /\ TeamNow(u)' = after
  BY <1>3
<1> HIDE DEF before, after
<1>8. LevelOf(Deposited[u], before) <= LevelOf(Deposited[u], after)
  BY <1>4, <1>6, LevelMonotone
<1> QED BY <1>6, <1>7, <1>8, LevelType

(* The strengthening of LevelIsEarned: it holds of every row, and of the    *)
(* levels that evaluations under way are going to write.                    *)
Earned(u) == \/ level[u] <= 1 \/ level[u] <= LevelOf(Deposited[u], TeamNow(u))
             \/ \E l \in Reached(points[u]) : level[u] <= l
LevelInv == /\ \A u \in UserIds : Earned(u)
            /\ \A h \in Handlers : req[h].at = "write" =>
                 climb[h].target <= LevelOf(Deposited[climb[h].up], TeamNow(climb[h].up))

LEMMA LevelStep == AccountsInv /\ AccountsInv' /\ LevelInv /\ Next => LevelInv'
<1> SUFFICES ASSUME AccountsInv, AccountsInv', LevelInv, Next PROVE LevelInv'
  OBVIOUS
<1>1. ASSUME NEW u \in UserIds, level'[u] = level[u]
      PROVE  Earned(u)'
  <2>1. level[u] \in Levels
    BY DEF AccountsInv, TypeOK
  <2>2. CASE level[u] <= 1
    BY <1>1, <2>2 DEF Earned
  <2>3. CASE level[u] <= LevelOf(Deposited[u], TeamNow(u))
    <3>1. level'[u] <= LevelOf(Deposited[u], TeamNow(u)')
      BY <1>1, <2>1, <2>3, TeamGrows DEF Levels
    <3> QED BY <3>1 DEF Earned
  <2>4. CASE \E l \in Reached(points[u]) : level[u] <= l
    <3>1. Reached(points[u]) \subseteq Reached(points'[u])
      BY MembersStay, AccountsAssumption DEF Reached
    <3> QED BY <1>1, <2>4, <3>1 DEF Earned
  <2> QED BY <2>2, <2>3, <2>4 DEF LevelInv, Earned
<1>2. ASSUME NEW u \in UserIds, level'[u] # level[u]
      PROVE  Earned(u)'
  <2>1. (\E v \in Active : Purchase(v)) \/ (\E h \in Handlers : EvalWrite(h))
    BY <1>2, LevelsWritten
  <2>2. ASSUME NEW v \in Active, Purchase(v)
        PROVE  Earned(u)'
    <3>1. v = u /\ points'[u] = points[u] + PointsPerPurchase
      BY <1>2, <2>2, AccountsAssumption DEF Purchase, AccountsInv, TypeOK
    <3>2. \E next \in Reached(points'[u]) : level'[u] = next
      BY <1>2, <2>2, <3>1 DEF Purchase, AccountsInv, TypeOK
    <3>3. level'[u] \in Reached(points'[u]) /\ level'[u] <= level'[u]
      BY <3>2 DEF Reached, Levels
    <3> QED BY <3>3 DEF Earned
  <2>3. ASSUME NEW h \in Handlers, EvalWrite(h)
        PROVE  Earned(u)'
    <3>1. climb[h].up = u /\ level'[u] = climb[h].target
      BY <1>2, <2>3 DEF EvalWrite, AccountsInv, TypeOK
    <3>2. climb[h].target <= LevelOf(Deposited[u], TeamNow(u)) /\ climb[h].target \in Levels
      BY <2>3, <3>1, ClimbFields DEF LevelInv, EvalWrite, AccountsInv
    <3>3. level'[u] <= LevelOf(Deposited[u], TeamNow(u)')
      BY <3>1, <3>2, TeamGrows DEF Levels
    <3> QED BY <3>3 DEF Earned
  <2> QED BY <2>1, <2>2, <2>3
<1>3. ASSUME NEW h \in Handlers, req'[h].at = "write"
      PROVE  climb'[h].target <= LevelOf(Deposited[climb'[h].up], TeamNow(climb[h].up)')
             /\ climb'[h].up = climb[h].up
  <2>1. CASE Stays(h)
    <3>1. /\ climb'[h] = climb[h] /\ req[h].at = "write" /\ climb[h].up \in UserIds
          /\ climb[h].target \in Levels
      BY <1>3, <2>1, ClimberIsMember, ClimbFields DEF Stays, Climbing, AccountsInv
    <3>2. climb[h].target <= LevelOf(Deposited[climb[h].up], TeamNow(climb[h].up))
      BY <3>1 DEF LevelInv
    <3> QED BY <3>1, <3>2, TeamGrows DEF Levels
  <2>2. CASE EvalCount(h)
    <3>1. climb[h].up \in UserIds
      BY <2>2, ClimberIsMember DEF EvalCount, Climbing
    <3>2. climb'[h] = Climb(climb[h].up, climb[h].depth, climb[h].seen,
                            LevelOf(Deposited[climb[h].up], TeamNow(climb[h].up)))
      BY <2>2 DEF EvalCount, Goes, AccountsInv, TypeOK, TeamCounted
    <3>3. climb'[h].up = climb[h].up /\ climb'[h].target = LevelOf(Deposited[climb[h].up], TeamNow(climb[h].up))
      BY <3>2 DEF Climb
    <3> QED BY <3>1, <3>3, TeamGrows
  <2>3. CASE \E u \in Active : ResetRead(h, u)
    <3>1. req'[h].at = "reset"
      BY <2>3 DEF ResetRead, Become, Goes, Request, AccountsInv, TypeOK
    <3> QED BY <1>3, <3>1
  <2> QED BY <1>3, <2>1, <2>2, <2>3, WhoWrites
<1> QED BY <1>1, <1>2, <1>3 DEF LevelInv

(* However stale an evaluation is, and whether or not its signup commits,   *)
(* it leaves no member above the level that the deposits, the members       *)
(* referred or the points deserve (evaluateUserLevel counts committed rows, *)
(* and those never go away; awardPoints raises and never lowers).           *)
THEOREM LevelsAreEarned == Spec => []LevelIsEarned
<1>1. Init => LevelInv
  <2> SUFFICES ASSUME Init PROVE LevelInv
    OBVIOUS
  <2>1. level = FounderLevel /\ FounderLevel \in [UserIds -> {0, 1}]
    BY AccountsAssumption DEF Init
  <2>2. \A u \in UserIds : level[u] <= 1
    BY <2>1
  <2>3. \A h \in Handlers : req[h].at = "idle"
    BY IdleType DEF Init
  <2> QED BY <2>2, <2>3 DEF LevelInv, Earned
<1>2. LevelInv /\ UNCHANGED vars => LevelInv'
  BY DEF vars, userTable, LevelInv, Earned, TeamNow, ReferralTable, Reached
<1>3. AccountsInv /\ AccountsInv' /\ LevelInv /\ [Next]_vars => LevelInv'
  BY <1>2, LevelStep
<1>4. AccountsInv /\ LevelInv => LevelIsEarned
  BY DEF AccountsInv, TypeOK, LevelInv, Earned, LevelIsEarned
<1> QED BY <1>1, <1>3, <1>4, AccountsConsistent, PTL DEF Spec

-----------------------------------------------------------------------------
(* Teams.  The recursion by which the tree of referrals is built has a        *)
(* solution, and any solution begins with the three levels of the team.       *)
Grows(gen, t, u) ==
  gen = [n \in 0..MAX_DEPTH |-> IF n = 0 THEN {u} ELSE Referred(t, gen[n - 1])]

LEMMA GenerationsExist == \A t, u : \E gen : Grows(gen, t, u)
<1> TAKE t, u
<1> DEFINE R1 == Referred(t, {u})
           R2 == Referred(t, R1)
           R3 == Referred(t, R2)
           R4 == Referred(t, R3)
           R5 == Referred(t, R4)
           R6 == Referred(t, R5)
           R7 == Referred(t, R6)
           R8 == Referred(t, R7)
           R9 == Referred(t, R8)
           R10 == Referred(t, R9)
           gen == [n \in 0..10 |-> CASE n = 0 -> {u} [] n = 1 -> R1 [] n = 2 -> R2 [] n = 3 -> R3
                                     [] n = 4 -> R4 [] n = 5 -> R5 [] n = 6 -> R6 [] n = 7 -> R7
                                     [] n = 8 -> R8 [] n = 9 -> R9 [] n = 10 -> R10]
<1>1. /\ R1 = Referred(t, {u}) /\ R2 = Referred(t, R1) /\ R3 = Referred(t, R2)
      /\ R4 = Referred(t, R3) /\ R5 = Referred(t, R4) /\ R6 = Referred(t, R5)
      /\ R7 = Referred(t, R6) /\ R8 = Referred(t, R7) /\ R9 = Referred(t, R8)
      /\ R10 = Referred(t, R9)
  OBVIOUS
<1> HIDE DEF R1, R2, R3, R4, R5, R6, R7, R8, R9, R10
<1>2. /\ gen[0] = {u} /\ gen[1] = R1 /\ gen[2] = R2 /\ gen[3] = R3 /\ gen[4] = R4
      /\ gen[5] = R5 /\ gen[6] = R6 /\ gen[7] = R7 /\ gen[8] = R8 /\ gen[9] = R9
      /\ gen[10] = R10 /\ DOMAIN gen = 0..10 /\ gen = [n \in 0..10 |-> gen[n]]
  OBVIOUS
<1> HIDE DEF gen
<1>3. ASSUME NEW n \in 0..10
      PROVE  gen[n] = IF n = 0 THEN {u} ELSE Referred(t, gen[n - 1])
  <2>1. \/ n = 0 \/ n = 1 \/ n = 2 \/ n = 3 \/ n = 4 \/ n = 5
        \/ n = 6 \/ n = 7 \/ n = 8 \/ n = 9 \/ n = 10
    OBVIOUS
  <2>2. 0 \in Int /\ 1 - 1 = 0 /\ 2 - 1 = 1 /\ 3 - 1 = 2 /\ 4 - 1 = 3 /\ 5 - 1 = 4 /\ 6 - 1 = 5
        /\ 7 - 1 = 6 /\ 8 - 1 = 7 /\ 9 - 1 = 8 /\ 10 - 1 = 9
    OBVIOUS
  <2> QED BY <1>1, <1>2, <2>1, <2>2
<1>4. gen = [n \in 0..10 |-> IF n = 0 THEN {u} ELSE Referred(t, gen[n - 1])]
  BY <1>2, <1>3
<1> QED BY <1>4 DEF Grows, MAX_DEPTH

NodesAt(t, u, n) == {node \in GetReferralTree(t, u) : node.level = n}
NodesOf(S, n) == {[level |-> n, user |-> m] : m \in S}

LEMMA TreeLevels ==
  ASSUME NEW t, NEW u
  PROVE  /\ NodesAt(t, u, 1) = NodesOf(Referred(t, {u}), 1)
         /\ NodesAt(t, u, 2) = NodesOf(Referred(t, Referred(t, {u})), 2)
         /\ NodesAt(t, u, 3) = NodesOf(Referred(t, Referred(t, Referred(t, {u}))), 3)
<1> DEFINE gen == CHOOSE gen : Grows(gen, t, u)
<1>1. Grows(gen, t, u)
  BY GenerationsExist
<1>2. GetReferralTree(t, u) = UNION {NodesOf(gen[i], i) : i \in 1..10}
  BY DEF GetReferralTree, Grows, MAX_DEPTH, NodesOf
<1> HIDE DEF gen
<1>3. gen[0] = {u} /\ \A i \in 1..10 : gen[i] = Referred(t, gen[i - 1])
  BY <1>1 DEF Grows, MAX_DEPTH
<1>4. /\ gen[1] = Referred(t, {u}) /\ gen[2] = Referred(t, Referred(t, {u}))
      /\ gen[3] = Referred(t, Referred(t, Referred(t, {u})))
  <2>1. gen[1] = Referred(t, gen[0]) /\ gen[2] = Referred(t, gen[1]) /\ gen[3] = Referred(t, gen[2])
    BY <1>3
  <2> QED BY <1>3, <2>1
<1>5. \A i \in 1..10 : \A node \in NodesOf(gen[i], i) : node.level = i
  BY DEF NodesOf
<1>6. ASSUME NEW n \in 1..10 PROVE NodesAt(t, u, n) = NodesOf(gen[n], n)
  BY <1>2, <1>5 DEF NodesAt
<1>7. /\ NodesAt(t, u, 1) = NodesOf(gen[1], 1) /\ NodesAt(t, u, 2) = NodesOf(gen[2], 2)
      /\ NodesAt(t, u, 3) = NodesOf(gen[3], 3)
  BY <1>6
<1> QED BY <1>4, <1>7

LEMMA NodesCount ==
  ASSUME NEW S, IsFiniteSet(S), NEW n
  PROVE  Cardinality(NodesOf(S, n)) = Cardinality(S)
<1> DEFINE f == [m \in S |-> [level |-> n, user |-> m]]
<1>1. f \in Bijection(S, NodesOf(S, n))
  BY DEF Bijection, Injection, IsInjective, Surjection, NodesOf
<1>2. ExistsBijection(S, NodesOf(S, n))
  BY <1>1 DEF ExistsBijection
<1> QED BY <1>2, FS_Bijection

(* The members at one depth below u, for every u, are all members at it.      *)
LEMMA TeamTotals ==
  ASSUME NEW t, IsFiniteSet(DOMAIN t), NEW M, IsFiniteSet(M), \A m \in DOMAIN t : t[m] \in M
  PROVE  /\ SumFunctionOnSet([u \in M |-> GetTeamMembers(t, u).A], M) = GetTeamBonusSummary(t).A
         /\ SumFunctionOnSet([u \in M |-> GetTeamMembers(t, u).B], M) = GetTeamBonusSummary(t).B
         /\ SumFunctionOnSet([u \in M |-> GetTeamMembers(t, u).C], M) = GetTeamBonusSummary(t).C
<1> DEFINE D == DOMAIN t
           E == Referred(t, D)
           F == Referred(t, E)
           one == [m \in D |-> t[m]]
           two == [m \in E |-> t[t[m]]]
           three == [m \in F |-> t[t[t[m]]]]
<1>1. /\ \A m \in E : m \in D /\ t[m] \in D
      /\ \A m \in F : m \in D /\ t[m] \in E
      /\ IsFiniteSet(E) /\ IsFiniteSet(F)
  <2>1. E \in SUBSET D /\ F \in SUBSET D
    BY DEF Referred
  <2>2. IsFiniteSet(E) /\ IsFiniteSet(F)
    <3> HIDE DEF E, F
    <3> QED BY <2>1, FS_Subset
  <2> QED BY <2>2 DEF Referred
<1>2. /\ \A m \in D : one[m] \in M
      /\ \A m \in E : two[m] \in M
      /\ \A m \in F : three[m] \in M
  BY <1>1
<1>3. \A u : /\ {m \in D : one[m] = u} = Referred(t, {u})
             /\ {m \in E : two[m] = u} = Referred(t, Referred(t, {u}))
             /\ {m \in F : three[m] = u} = Referred(t, Referred(t, Referred(t, {u})))
  BY DEF Referred
<1>4. GetTeamBonusSummary(t) = [A |-> Cardinality(D), B |-> Cardinality(E), C |-> Cardinality(F)]
  BY DEF GetTeamBonusSummary, Counts
<1>5. \A u : /\ GetTeamMembers(t, u).A = Cardinality({m \in D : one[m] = u})
             /\ GetTeamMembers(t, u).B = Cardinality({m \in E : two[m] = u})
             /\ GetTeamMembers(t, u).C = Cardinality({m \in F : three[m] = u})
  BY <1>3 DEF GetTeamMembers, Counts
<1> HIDE DEF D, E, F, one, two, three
<1>6. SumFunctionOnSet([u \in M |-> Cardinality({m \in D : one[m] = u})], M) = Cardinality(D)
  BY <1>2, SumOfFibres DEF D
<1>7. SumFunctionOnSet([u \in M |-> Cardinality({m \in E : two[m] = u})], M) = Cardinality(E)
  BY <1>1, <1>2, SumOfFibres
<1>8. SumFunctionOnSet([u \in M |-> Cardinality({m \in F : three[m] = u})], M) = Cardinality(F)
  BY <1>1, <1>2, SumOfFibres
<1>9. /\ [u \in M |-> GetTeamMembers(t, u).A] = [u \in M |-> Cardinality({m \in D : one[m] = u})]
      /\ [u \in M |-> GetTeamMembers(t, u).B] = [u \in M |-> Cardinality({m \in E : two[m] = u})]
      /\ [u \in M |-> GetTeamMembers(t, u).C] = [u \in M |-> Cardinality({m \in F : three[m] = u})]
  BY <1>5
<1>10. /\ GetTeamBonusSummary(t).A = Cardinality(D)
       /\ GetTeamBonusSummary(t).B = Cardinality(E)
       /\ GetTeamBonusSummary(t).C = Cardinality(F)
  BY <1>4
<1>11. SumFunctionOnSet([u \in M |-> GetTeamMembers(t, u).A], M) = Cardinality(D)
  BY <1>6, <1>9
<1>12. SumFunctionOnSet([u \in M |-> GetTeamMembers(t, u).B], M) = Cardinality(E)
  BY <1>7, <1>9
<1>13. SumFunctionOnSet([u \in M |-> GetTeamMembers(t, u).C], M) = Cardinality(F)
  BY <1>8, <1>9
<1> QED BY <1>10, <1>11, <1>12, <1>13

(* Whatever signups overlap and fail, the three ways in which the program     *)
(* counts teams (user.service.ts, referral.service.ts) agree on every member, *)
(* and the summary of team bonuses on all of them together.                   *)
THEOREM TeamsAreCountedAlike == Spec => []TeamsAgree
<1>1. AccountsInv => TeamsAgree
  <2> SUFFICES ASSUME AccountsInv PROVE TeamsAgree
    OBVIOUS
  <2> DEFINE table == ReferralTable(members)
  <2>1. IsFiniteSet(UserIds) /\ members \in SUBSET UserIds /\ DOMAIN table \in SUBSET UserIds
    <3>1. IsFiniteSet(UserIds)
      BY FS_Interval, AccountsAssumption DEF UserIds
    <3>2. members \subseteq UserIds /\ DOMAIN table \subseteq members
      BY DEF AccountsInv, TypeOK, ReferralTable
    <3> QED BY <3>1, <3>2
  <2>2. IsFiniteSet(DOMAIN table) /\ IsFiniteSet(members)
    <3> HIDE DEF table
    <3> QED BY <2>1, FS_Subset
  <2>3. \A m \in DOMAIN table : table[m] \in members
    BY DEF ReferralTable, AccountsInv, ReferrerCameFirst
  <2>4. \A S : IsFiniteSet(Referred(table, S))
    <3> HIDE DEF table
    <3>1. \A S : Referred(table, S) \in SUBSET DOMAIN table
      BY DEF Referred
    <3> QED BY <2>2, <3>1, FS_Subset
  <2> HIDE DEF table
  <2> DEFINE AtDepth(u, n) == Cardinality(NodesAt(table, u, n))
  <2>5. ASSUME NEW u
        PROVE  /\ AtDepth(u, 1) = Cardinality(Referred(table, {u}))
               /\ AtDepth(u, 2) = Cardinality(Referred(table, Referred(table, {u})))
               /\ AtDepth(u, 3) = Cardinality(Referred(table, Referred(table, Referred(table, {u}))))
    BY <2>4, TreeLevels, NodesCount
  <2>6. \A u : GetTeamMembers(table, u)
                 = [A |-> AtDepth(u, 1), B |-> AtDepth(u, 2), C |-> AtDepth(u, 3)]
    BY <2>5 DEF GetTeamMembers, Counts
  <2>7. GetTeamBonusSummary(table)
          = [A |-> SumFunctionOnSet([u \in members |-> GetTeamMembers(table, u).A], members),
             B |-> SumFunctionOnSet([u \in members |-> GetTeamMembers(table, u).B], members),
             C |-> SumFunctionOnSet([u \in members |-> GetTeamMembers(table, u).C], members)]
    <3>1. GetTeamBonusSummary(table) = [A |-> GetTeamBonusSummary(table).A,
                                        B |-> GetTeamBonusSummary(table).B,
                                        C |-> GetTeamBonusSummary(table).C]
      BY DEF GetTeamBonusSummary, Counts
    <3> QED BY <2>2, <2>3, <3>1, TeamTotals
  <2> QED BY <2>6, <2>7 DEF TeamsAgree, table, NodesAt
<1> QED BY <1>1, AccountsConsistent, PTL
==============================================================================
