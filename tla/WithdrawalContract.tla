------------------------- MODULE WithdrawalContract -------------------------
(***************************************************************************)
(* What the withdrawal service promises, with no rows, transactions or     *)
(* overlapping calls: a user opens a claim on money that is available, and *)
(* the claim is then settled once, by paying it, by returning it or by     *)
(* freezing it.                                                            *)
(***************************************************************************)
EXTENDS Integers

CONSTANTS Users, Claims,
          Sums  \* the sums a claim may be for

VARIABLES available,  \* available[u]: cents the user may still spend
          claim       \* claim[c]: NoClaim, or whose it is, its sum and its phase

NoClaim == [phase |-> "none"]

Init == /\ available \in [Users -> Nat]
        /\ claim = [c \in Claims |-> NoClaim]

Open(c, u, sum) ==
  /\ claim[c] = NoClaim
  /\ sum <= available[u]
  /\ available' = [available EXCEPT ![u] = @ - sum]
  /\ claim' = [claim EXCEPT ![c] = [phase |-> "open", user |-> u, sum |-> sum]]

Pay(c) ==
  /\ claim[c].phase = "open"
  /\ claim' = [claim EXCEPT ![c].phase = "paid"]
  /\ UNCHANGED available

Return(c) ==
  /\ claim[c].phase = "open"
  /\ available' = [available EXCEPT ![claim[c].user] = @ + claim[c].sum]
  /\ claim' = [claim EXCEPT ![c].phase = "returned"]

Freeze(batch) ==
  /\ \A c \in batch : claim[c].phase = "open"
  /\ claim' = [c \in Claims |-> IF c \in batch THEN [claim[c] EXCEPT !.phase = "frozen"]
                                ELSE claim[c]]
  /\ UNCHANGED available

Next == \/ \E c \in Claims : \/ \E u \in Users, sum \in Sums : Open(c, u, sum)
                             \/ Pay(c)
                             \/ Return(c)
        \/ \E batch \in SUBSET Claims : Freeze(batch)

Spec == Init /\ [][Next]_<<available, claim>>
==============================================================================
