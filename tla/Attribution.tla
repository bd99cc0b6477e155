----------------------------- MODULE Attribution -----------------------------
(***************************************************************************)
(* Who is credited with a sale or a lead: the decision of attribution.ts   *)
(* over the clicks and the coupon code that came with it, and the state of *)
(* the affiliates and programs they lead to.                               *)
(***************************************************************************)
EXTENDS Affiliates

CONSTANTS
  Terms,    \* the attribution rules of each program
  Offers,
  Sells     \* the pairs of a program and an eligible offer of it

ASSUME AttributionConstants ==
  /\ Terms \in [Programs -> [active : BOOLEAN, model : {"last_touch", "first_touch"},
                             precedence : {"coupon_wins", "link_wins"}, window : Nat]]
  /\ Sells \subseteq Programs \X Offers
  /\ Null \notin Offers

\* A click, with how long before the sale it was; a coupon, of one offer or (Null) of any.
Clicks == [affiliate : Partners, program : Programs, age : Int, denied : BOOLEAN]
Coupons == [affiliate : Partners, program : Programs, offer : Offers \cup {Null}, active : BOOLEAN]

\* What a sale comes with: clicks, a coupon or none (Null), the offer sold if that is known.
Evidence ==
  [clicks : SUBSET Clicks, coupon : Coupons \cup {Null}, offer : Offers \cup {Null}]

\* commonEligibility
MayEarn(a, p, offer) ==
  /\ Terms[p].active
  /\ row[a].status = "active" /\ place[a][p] = "active"
  /\ offer # Null => <<p, offer>> \in Sells

\* clickEligibility
ClickCounts(c, offer) ==
  /\ c.age >= 0 /\ c.age <= Terms[c.program].window
  /\ ~c.denied
  /\ MayEarn(c.affiliate, c.program, offer)

\* couponEligibility
CouponCounts(k, offer) ==
  /\ k.active
  /\ Null \notin {k.offer, offer} => k.offer = offer
  /\ MayEarn(k.affiliate, k.program, offer)

Latest(C) == {c \in C : \A d \in C : c.age <= d.age}
Earliest(C) == {c \in C : \A d \in C : c.age >= d.age}

\* The rules of the program clicked last choose among all clicks.  Of clicks at the same time the
\* order of the rows decides, so there may be several answers.
ByClick(C) ==
  {c \in C : \E l \in Latest(C) :
     IF Terms[l.program].model = "first_touch" THEN c \in Earliest(C) ELSE c = l}

\* resolveAttribution: the click or coupon that is credited, none if the sale is nobody's.
Credited(e) ==
  LET C == {c \in e.clicks : ClickCounts(c, e.offer)}
  IN  IF /\ e.coupon # Null /\ CouponCounts(e.coupon, e.offer)
         /\ C = {} \/ Terms[e.coupon.program].precedence # "link_wins"
      THEN {e.coupon} ELSE ByClick(C)
============================================================================
