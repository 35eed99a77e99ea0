------------------------------- MODULE Referrals -------------------------------
(***************************************************************************)
(* The questions the program asks of the Referral table.  A table is a     *)
(* function from the users referred to the users who referred them: a user *)
(* is referred at most once, when the account is created.                  *)
(***************************************************************************)
EXTENDS Integers, FiniteSets, FiniteSetsExt

Counts(level1, level2, level3) ==
  [A |-> Cardinality(level1), B |-> Cardinality(level2), C |-> Cardinality(level3)]

(* findMany where referrerId in S                                           *)
Referred(referrals, S) == {m \in DOMAIN referrals : referrals[m] \in S}

(* getTeamMembers: one query per level, each from the answer to the last    *)
TeamOfTwo(referrals, u) == LET level1 == Referred(referrals, {u})
                               level2 == Referred(referrals, level1)
                           IN Counts(level1, level2, level2)
GetTeamMembers(referrals, u) == LET level1 == Referred(referrals, {u})
                                    level2 == Referred(referrals, level1)
                                IN Counts(level1, level2, Referred(referrals, level2))

(* getReferralTree: the nodes of the tree below u, each with its depth; and *)
(* the administrator's flat list of the same nodes                          *)
MAX_DEPTH == 10
GetReferralTree(referrals, u) ==
  LET generation[n \in 0..MAX_DEPTH] ==
        IF n = 0 THEN {u} ELSE Referred(referrals, generation[n - 1])
  IN UNION {{[level |-> n, user |-> m] : m \in generation[n]} : n \in 1..MAX_DEPTH}
GetReferralTreeByAdmin(referrals, u) == GetReferralTree(referrals, u)

(* getTeamBonusSummary asks for req.user.sub, which the token's user does   *)
(* not have: the condition is dropped, and the whole table is counted.      *)
GetTeamBonusSummary(referrals) ==
  LET level1 == DOMAIN referrals
      level2 == Referred(referrals, level1)
  IN Counts(level1, level2, Referred(referrals, level2))
==============================================================================
