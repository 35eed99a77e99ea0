-------------------------------- MODULE MCRules --------------------------------
(***************************************************************************)
(* An instance of Rules for TLC.  Deposits and teams are on a threshold of *)
(* the matrix or one below it.  1 referred 2, who referred 3; at most four *)
(* operations.  Lists have up to four rows, in pages of one or two.        *)
(***************************************************************************)
EXTENDS Rules, TLC

Around(field) == UNION {{LEVELS[i][field], LEVELS[i][field] - 1} : i \in 1..6} \cup {0}
Thresholds == Around("deposit")
Sizes == [depth \in {"A", "B", "C"} |-> Around(depth)]

Three == 1..3
Chain == <<0, 1, 2>>
OneEach == ("deposit" :> {10000}) @@ ("adminDeposit" :> {5000}) @@ ("reward" :> {700})
             @@ ("dailyReward" :> {1000}) @@ ("withdrawal" :> {4000})
             @@ ("price" :> {15000})
OneOrTwo == {1, 2}
==============================================================================
