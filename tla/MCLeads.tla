------------------------------ MODULE MCLeads ------------------------------
(* Leads on a small instance, for TLC. *)
EXTENDS Leads, TLC

CONSTANTS anna, ben, open, screened, early, later, r1, r2

\* Applications to open are accepted at once.
Modes == (open :> "auto") @@ (screened :> "manual")

Rules(model, precedence) ==
  [active |-> TRUE, model |-> model, precedence |-> precedence, window |-> 2]

MCTerms ==
  (open :> Rules("last_touch", "coupon_wins")) @@ (screened :> Rules("first_touch", "link_wins"))

Click(a, p, age) == [affiliate |-> a, program |-> p, age |-> age, denied |-> FALSE]

\* Programs of different models: ben, clicked last, loses the credit to anna by one more click of
\* his own, in the program that credits the first.
ASSUME MixedModelsShiftCredit ==
  LET before == {Click(anna, open, 2), Click(ben, open, 1)}
  IN  /\ ByClick(before) = {Click(ben, open, 1)}
      /\ ByClick(before \cup {Click(ben, screened, 0)}) = {Click(anna, open, 2)}

\* A person who came by the link of one affiliate and then by that of another, and has a code.
Visit(a, b) ==
  [clicks |-> {Click(a, screened, 1), Click(b, open, 2)},
   coupon |-> [affiliate |-> a, program |-> screened, offer |-> Null, active |-> TRUE],
   offer  |-> Null]

\* One person, in two leads.
Claims ==
  (early :> [person |-> "visitor", program |-> open, evidence |-> Visit(anna, ben)]) @@
  (later :> [person |-> "visitor", program |-> open, evidence |-> Visit(ben, anna)])

\* The affiliates may be exchanged together with the leads they sent.
Symmetric ==
  Permutations(Requests) \cup
  {(anna :> ben) @@ (ben :> anna) @@ (early :> later) @@ (later :> early)}
============================================================================
