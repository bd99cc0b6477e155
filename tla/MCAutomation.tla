---------------------------- MODULE MCAutomation ----------------------------
(* Automation on a small instance, for TLC. *)
EXTENDS Automation, TLC

CONSTANTS e1, e2, e3, sale, other, vip

\* Two events about one commission and one about another.
Told == (e1 :> sale) @@ (e2 :> sale) @@ (e3 :> other)

\* A bonus that goes with the approval, a mark that goes with a welcome, and a rule for the marked.
Shop ==
  <<[does |-> <<"adjust", "approve">>, needs |-> Null, once |-> "entity"],
    [does |-> <<"email", <<"add", vip>>>>, needs |-> Null, once |-> "affiliate"],
    [does |-> <<<<"remove", vip>>, "suspend">>, needs |-> vip, once |-> "no"]>>

Symmetric == Permutations(Workers)
============================================================================
