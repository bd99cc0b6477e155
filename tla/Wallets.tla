------------------------------ MODULE Wallets ------------------------------
(***************************************************************************)
(* What affiliates may count on, whatever happens to the sales behind it:  *)
(* a commission belongs to one affiliate and is only ever corrected        *)
(* downwards until it is paid; then it stays, and what is taken back comes *)
(* as a line of its own, which stays too.  A batch takes all that is due   *)
(* and all the lines of its affiliate, once; it is paid as a whole or      *)
(* gives everything back.                                                  *)
(***************************************************************************)
EXTENDS Integers, FiniteSets, FiniteSetsExt

CONSTANTS Commissions, Lines, Batches, Affiliates, Nobody, NoBatch

VARIABLES
  earned,   \* commissions: whose, how far, worth what, in which batch
  lines,    \* other lines of the ledger
  batches

vars == <<earned, lines, batches>>

Init ==
  /\ earned =
       [k \in Commissions |-> [of |-> Nobody, stage |-> "none", worth |-> 0, batch |-> NoBatch]]
  /\ lines = [l \in Lines |-> [of |-> Nobody, worth |-> 0, batch |-> NoBatch]]
  /\ batches = [p \in Batches |-> [of |-> Nobody, stage |-> "none", amount |-> 0]]

\* A new commission waits for its holding period.
Earn(c, d) ==
  c.stage = "none" /\ d.of \in Affiliates /\ d.stage = "held" /\ d.worth >= 0 /\ d.batch = NoBatch

\* Until it is paid a commission may become due, and may lose of its worth, all of it at last.
Correct(c, d) ==
  /\ c.stage \in {"held", "due"} /\ d.stage \in {c.stage, "due", "closed"}
  /\ d.of = c.of /\ d.batch = c.batch /\ d.worth \in 0..c.worth
  /\ d.stage = "closed" => d.worth = 0

\* A bonus, an adjustment, or what is taken back of a paid commission.
Book(c, d) == c.of = Nobody /\ d.of \in Affiliates /\ d.batch = NoBatch

\* Whatever is recorded, refunded, cancelled, disputed, reattributed, released or adjusted.
Trade ==
  /\ UNCHANGED batches
  /\ \A k \in Commissions :
       earned'[k] = earned[k] \/ Earn(earned[k], earned'[k]) \/ Correct(earned[k], earned'[k])
  /\ \A l \in Lines : lines'[l] = lines[l] \/ Book(lines[l], lines'[l])

Due(a) ==
  {k \in Commissions : earned[k].of = a /\ earned[k].stage = "due" /\ earned[k].batch = NoBatch}

Open(a) == {l \in Lines : lines[l].of = a /\ lines[l].batch = NoBatch}

Sum(a) ==
  SumFunctionOnSet([k \in Commissions |-> earned[k].worth], Due(a))
    + SumFunctionOnSet([l \in Lines |-> lines[l].worth], Open(a))

\* The batch is to be paid, or was paid elsewhere.
Draw(p, a, paid) ==
  /\ batches[p].stage = "none"
  /\ Sum(a) > 0
  /\ batches' = [batches EXCEPT ![p] =
       [of |-> a, stage |-> IF paid THEN "paid" ELSE "open", amount |-> Sum(a)]]
  /\ earned' = [k \in Commissions |->
       IF k \in Due(a)
       THEN [of |-> a, stage |-> IF paid THEN "paid" ELSE "due", worth |-> earned[k].worth,
             batch |-> p]
       ELSE earned[k]]
  /\ lines' = [l \in Lines |-> IF l \in Open(a) THEN [lines[l] EXCEPT !.batch = p] ELSE lines[l]]

Pay(p) ==
  /\ batches[p].stage = "open"
  /\ batches' = [batches EXCEPT ![p].stage = "paid"]
  /\ earned' = [k \in Commissions |->
       IF earned[k].batch = p /\ earned[k].stage = "due"
       THEN [earned[k] EXCEPT !.stage = "paid"] ELSE earned[k]]
  /\ UNCHANGED lines

Release(p) ==
  /\ batches[p].stage = "open"
  /\ batches' = [batches EXCEPT ![p].stage = "cancelled"]
  /\ earned' = [k \in Commissions |->
       IF earned[k].batch = p THEN [earned[k] EXCEPT !.batch = NoBatch] ELSE earned[k]]
  /\ lines' = [l \in Lines |->
       IF lines[l].batch = p THEN [lines[l] EXCEPT !.batch = NoBatch] ELSE lines[l]]

Next ==
  \/ Trade
  \/ \E p \in Batches, a \in Affiliates, paid \in BOOLEAN : Draw(p, a, paid)
  \/ \E p \in Batches : Pay(p) \/ Release(p)

Spec == Init /\ [][Next]_vars
============================================================================
