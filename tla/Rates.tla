-------------------------------- MODULE Rates --------------------------------
(***************************************************************************)
(* What a sale earns its affiliate: the choice of a campaign, a tier and a *)
(* rate (campaigns.ts, tiers.ts, commissions.ts) when it is recorded, and  *)
(* the amount it comes to.                                                 *)
(*                                                                         *)
(* A column that may be null is a set: {} for null, {v} for the value v.   *)
(* So is what is looked up and may be missing.                             *)
(***************************************************************************)
EXTENDS Money, FiniteSets, FiniteSetsExt, Sequences

\* The first of several alternatives that is there.
FirstStated(options) ==
  options[CHOOSE i \in DOMAIN options :
            options[i] # {} /\ \A j \in DOMAIN options : j < i => options[j] = {}]

----------------------------------------------------------------------------
(* Rates.                                                                  *)

Percentage(bps) == [model |-> "percentage", value |-> bps]
Fixed(minor) == [model |-> "fixed", value |-> minor]

\* The terms of a row that overrides others, if it has any: its percentage before its amount.
Overriding(rows) ==
  LET rates == UNION {r.bps : r \in rows}
  IN  IF rates # {} THEN {Percentage(b) : b \in rates}
      ELSE {Fixed(f) : f \in UNION {r.fixed : r \in rows}}

\* Those of a row that names its model.
Stating(rows) ==
  {Percentage(b) : b \in UNION {r.bps : r \in {r \in rows : r.model = "percentage"}}}
  \cup {Fixed(f) : f \in UNION {r.fixed : r \in {r \in rows : r.model = "fixed"}}}

\* resolveRate
ResolveRate(campaign, membership, tier, offer, program) ==
  FirstStated(<<Overriding(campaign), Overriding(membership), Stating(tier), Overriding(offer),
                Stating({program})>>)

\* Leads earn the program's amount whatever the terms of its sales.
LeadRate(program) == Fixed(IF program.leads THEN program.lead ELSE 0)

BasisAmount(sale, basis) ==
  FirstStated(<<IF basis = "eligible" THEN sale.eligible ELSE {},
                IF basis \in {"net", "eligible"} THEN sale.net ELSE {},
                {sale.amount}>>)

\* computeCommission
ComputeCommission(base, rate) ==
  IF rate.model = "fixed" THEN rate.value ELSE Proportion(base, rate.value, 10000)

----------------------------------------------------------------------------
(* Tiers and campaigns.  Where rows tie the database's order decides, so   *)
(* each choice is the set of rows that may be chosen.                      *)

\* performanceBefore: the affiliate's earlier sales in the program, but for the one at hand.
Counted(sales, at, days, self) ==
  {s \in sales :
     /\ s.kind = "sale" /\ ~s.test /\ s.id # self
     /\ s.at <= at /\ \A d \in days : s.at >= at - d
     /\ s.status \notin {"cancelled", "reversed"}}

Performance(tier, sales, at, self) ==
  LET counted == Counted(sales, at, tier.days, self)
  IN  IF tier.metric = "revenue"
      THEN SumFunctionOnSet([s \in counted |-> s.amount - s.refunded], counted)
      ELSE Cardinality(counted)

\* A fixed tier counts as a percentage of nothing.
Rank(tier) == IF tier.bps = {} THEN 0 ELSE CHOOSE b \in tier.bps : TRUE

\* resolveTier: the affiliate's groups come first; of the tiers its figures reach, the highest.
ResolveTier(tiers, groups, figure) ==
  LET mine == {t \in tiers : t.kind = "group" /\ t.group \in groups}
      reached == {t \in tiers : t.kind = "performance" /\ figure[t] >= t.threshold}
  IN  IF mine # {}
      THEN {t \in mine : \A u \in mine :
              u.priority < t.priority \/ (u.priority = t.priority /\ Rank(u) <= Rank(t))}
      ELSE {t \in reached : \A u \in reached :
              u.threshold < t.threshold \/ (u.threshold = t.threshold /\ u.priority <= t.priority)}

\* findLiveCampaign: of those the affiliate takes part in, the one that started last.
LiveCampaigns(campaigns, joined, offer, at) ==
  LET live == {c \in campaigns :
                 /\ c \in joined /\ c.status = "active" /\ c.start <= at /\ c.end >= at
                 /\ c.offers = {} \/ offer \cap c.offers # {}}
  IN  {c \in live : \A d \in live : d.start <= c.start}
==============================================================================
