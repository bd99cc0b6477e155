-------------------------- MODULE AutomationProofs --------------------------
(***************************************************************************)
(* What holds of the merchant's rules however many workers run them, for   *)
(* any rules, events, entities and edits.                                  *)
(*                                                                         *)
(* Base says what a job that is under way looks like: which rules it has   *)
(* been through, which deeds it did, and that of two that are open each    *)
(* has met the other.  OnceInv relates that to what earlier jobs left:     *)
(* while a job is at a rule that runs once, no success of it is recorded,  *)
(* since the job looked and no other has been open meanwhile.              *)
(***************************************************************************)
EXTENDS Automation, TLAPS

IsTx(t) ==
  t \in [event : {t.event}, at : {t.at}, rule : {t.rule}, deed : {t.deed}, facts : {t.facts},
         stale : {t.stale}, affiliate : {t.affiliate}, approved : {t.approved}, runs : {t.runs},
         entries : {t.entries}]

\* The job has been at rule r, or done with its deed d.
Tried(t, r) ==
  \/ t.at = "act" /\ t.rule = r
  \/ <<r, "success">> \in t.runs \/ <<r, "failed">> \in t.runs

Did(t, r, d) ==
  \/ t.at = "act" /\ t.rule = r /\ d \in 1..(t.deed - 1)
  \/ <<r, "success">> \in t.runs \/ <<r, "failed">> \in t.runs

Running(t) ==
  /\ t.event \in Events /\ t.at \in {"decide", "act", "commit"}
  /\ t.facts \in Rows /\ t.affiliate \in Rows \cup {Null}
  /\ t.rule \in 0..Len(Rules) /\ t.deed \in Nat
  /\ t.at # "commit" => t.rule \in 1..Len(Rules)
  /\ t.at = "act" => t.deed \in 1..Len(Rules[t.rule].does)
  /\ \A r, o : <<r, o>> \in t.runs => r \in 1..t.rule /\ (t.at # "commit" => r # t.rule)
  /\ \A r, d : <<r, d>> \in t.entries => Did(t, r, d)

TxOK(t) ==
  /\ IsTx(t)
  /\ t.event = Null => t = Idle
  /\ t.event # Null => Running(t)

Base ==
  /\ affiliate \in Rows
  /\ runs \in [Places -> [success : Nat, failed : Nat]]
  /\ entries \in [Deals -> Nat] /\ emails \in [Deals -> Nat]
  /\ jobs \in [Events -> {"queued", "running", "done"}]
  /\ DOMAIN tx = Workers /\ tx = [w \in Workers |-> tx[w]]
  /\ \A w \in Workers : TxOK(tx[w])
  /\ \A w \in Workers : tx[w].event # Null => jobs[tx[w].event] = "running"
  /\ \A w, o \in Workers : w # o /\ tx[w].event # Null /\ tx[o].event # Null =>
       tx[w].event # tx[o].event /\ {tx[w].event, tx[o].event} \in met

----------------------------------------------------------------------------
(* Steps of a job.                                                         *)

\* u has gone on from t: nothing but the rule, the deed and the statement it is at changed.
GoneOn(t, u) ==
  /\ IsTx(u)
  /\ u.event = t.event /\ u.facts = t.facts /\ u.stale = t.stale /\ u.affiliate = t.affiliate
  /\ u.approved = t.approved /\ u.entries = t.entries

LEMMA NextRuleFacts ==
  ASSUME NEW t, IsTx(t), t.rule \in 0..Len(Rules)
  PROVE  LET u == NextRule(t)
         IN  /\ GoneOn(t, u) /\ u.runs = t.runs
             /\ \/ /\ u.at = "decide" /\ u.rule = t.rule + 1 /\ u.rule \in 1..Len(Rules)
                   /\ u.deed = 0
                \/ u.at = "commit" /\ u.rule = t.rule /\ u.deed = t.deed
<1> DEFINE a == [t EXCEPT !.at = "decide", !.rule = @ + 1, !.deed = 0]
           b == [t EXCEPT !.at = "commit"]
<1>1. Len(Rules) \in Nat
  BY AutomationConstants
<1>2. /\ GoneOn(t, a) /\ a.runs = t.runs
      /\ a.at = "decide" /\ a.rule = t.rule + 1 /\ a.deed = 0
  BY DEF IsTx, GoneOn
<1>3. /\ GoneOn(t, b) /\ b.runs = t.runs
      /\ b.at = "commit" /\ b.rule = t.rule /\ b.deed = t.deed
  BY DEF IsTx, GoneOn
<1>4. NextRule(t) = IF t.rule < Len(Rules) THEN a ELSE b
  BY DEF NextRule
<1> HIDE DEF a, b
<1> QED
  BY <1>1, <1>2, <1>3, <1>4

\* After a deed the job is at the next one, or done with the rule.
LEMMA AfterFacts ==
  ASSUME NEW w, NEW t, IsTx(t), t.rule = tx[w].rule, t.rule \in 1..Len(Rules),
         t.deed \in 1..Len(Rules[t.rule].does)
  PROVE  LET u == After(w, t)
         IN  /\ GoneOn(t, u)
             /\ \/ /\ u.at = t.at /\ u.rule = t.rule /\ u.deed = t.deed + 1 /\ u.runs = t.runs
                   /\ u.deed \in 1..Len(Rules[t.rule].does)
                \/ /\ u.runs = t.runs \cup {<<t.rule, "success">>}
                   /\ \/ /\ u.at = "decide" /\ u.rule = t.rule + 1 /\ u.rule \in 1..Len(Rules)
                         /\ u.deed = 0
                      \/ u.at = "commit" /\ u.rule = t.rule /\ u.deed = t.deed
<1> DEFINE a == [t EXCEPT !.deed = @ + 1]
           b == [t EXCEPT !.runs = @ \cup {<<t.rule, "success">>}]
<1>1. Len(Rules) \in Nat /\ Rules[t.rule] \in RuleType
  BY AutomationConstants
<1>2. Len(Rules[t.rule].does) \in Nat
  BY <1>1 DEF RuleType
<1>3. /\ GoneOn(t, a) /\ a.runs = t.runs
      /\ a.at = t.at /\ a.rule = t.rule /\ a.deed = t.deed + 1
  BY DEF IsTx, GoneOn
<1>4. /\ GoneOn(t, b) /\ IsTx(b) /\ b.runs = t.runs \cup {<<t.rule, "success">>}
      /\ b.at = t.at /\ b.rule = t.rule /\ b.deed = t.deed
  BY DEF IsTx, GoneOn
<1>5. After(w, t) = IF t.deed < Len(Rules[t.rule].does) THEN a ELSE NextRule(b)
  BY DEF After, Rule
<1> HIDE DEF a, b
<1>6. CASE t.deed < Len(Rules[t.rule].does)
  BY <1>2, <1>3, <1>5, <1>6
<1>7. CASE ~(t.deed < Len(Rules[t.rule].does))
  <2>1. b.rule \in 0..Len(Rules)
    BY <1>1, <1>4
  <2>2. /\ GoneOn(b, NextRule(b)) /\ NextRule(b).runs = b.runs
        /\ \/ /\ NextRule(b).at = "decide" /\ NextRule(b).rule = b.rule + 1
              /\ NextRule(b).rule \in 1..Len(Rules) /\ NextRule(b).deed = 0
           \/ /\ NextRule(b).at = "commit" /\ NextRule(b).rule = b.rule
              /\ NextRule(b).deed = b.deed
    BY <1>4, <2>1, NextRuleFacts
  <2>3. GoneOn(t, NextRule(b))
    BY <1>4, <2>2 DEF GoneOn
  <2> QED
    BY <1>4, <1>5, <1>7, <2>2, <2>3
<1> QED
  BY <1>6, <1>7
\* u is where a step of the job leads from t: it is still sound, and has not forgotten a deed.
Onward(t, u) ==
  /\ TxOK(u) /\ u.event = t.event /\ u.stale = t.stale
  /\ \A r, d : Did(t, r, d) => Did(u, r, d)

\* What a deed may write, before the job goes on.
Wrote(t, m) ==
  /\ IsTx(m)
  /\ m.event = t.event /\ m.at = t.at /\ m.rule = t.rule /\ m.deed = t.deed /\ m.stale = t.stale
  /\ m.runs = t.runs
  /\ m.facts \in Rows /\ m.affiliate \in Rows \cup {Null}
  /\ \A q \in m.entries : q \in t.entries \/ q = <<t.rule, t.deed>>

LEMMA EventsAreReal == Null \notin Events /\ Null \notin Rows
BY AutomationConstants

LEMMA RulesAreFinite ==
  /\ Len(Rules) \in Nat
  /\ \A r \in 1..Len(Rules) :
       Rules[r] \in RuleType /\ Len(Rules[r].does) \in Nat /\ Len(Rules[r].does) > 0
<1>1. Len(Rules) \in Nat /\ \A r \in 1..Len(Rules) : Rules[r] \in RuleType
  BY AutomationConstants
<1>2. \A s \in Seq(Deeds) \ {<<>>} : Len(s) \in Nat /\ Len(s) > 0
  OBVIOUS
<1> QED
  BY <1>1, <1>2 DEF RuleType

\* A deed that is done leads on.
LEMMA DeedDone ==
  ASSUME NEW w, NEW m, TxOK(tx[w]), tx[w].event # Null, tx[w].at = "act", Wrote(tx[w], m)
  PROVE  /\ Onward(tx[w], After(w, m))
         /\ After(w, m).affiliate = m.affiliate /\ After(w, m).facts = m.facts
         /\ \A r : Tried(After(w, m), r) => Tried(tx[w], r)
         /\ Did(After(w, m), tx[w].rule, tx[w].deed)
<1> DEFINE t == tx[w]
           u == After(w, m)
<1>1. /\ t.event \in Events /\ t.rule \in 1..Len(Rules) /\ t.deed \in 1..Len(Rules[t.rule].does)
      /\ \A r, o : <<r, o>> \in t.runs => r \in 1..t.rule /\ r # t.rule
      /\ \A r, d : <<r, d>> \in t.entries => Did(t, r, d)
  BY DEF TxOK, Running
<1>2. /\ IsTx(m) /\ m.rule = t.rule /\ m.rule \in 1..Len(Rules)
      /\ m.deed \in 1..Len(Rules[m.rule].does)
  BY <1>1 DEF Wrote
<1>3. /\ GoneOn(m, u)
      /\ \/ /\ u.at = m.at /\ u.rule = m.rule /\ u.deed = m.deed + 1 /\ u.runs = m.runs
            /\ u.deed \in 1..Len(Rules[m.rule].does)
         \/ /\ u.runs = m.runs \cup {<<m.rule, "success">>}
            /\ \/ /\ u.at = "decide" /\ u.rule = m.rule + 1 /\ u.rule \in 1..Len(Rules)
                  /\ u.deed = 0
               \/ u.at = "commit" /\ u.rule = m.rule /\ u.deed = m.deed
  BY <1>2, AfterFacts
<1>4. t.rule \in Nat /\ t.deed \in Nat /\ Len(Rules) \in Nat /\ Len(Rules[t.rule].does) \in Nat
  BY <1>1, RulesAreFinite
<1> HIDE DEF u
<1>5. /\ u.event = t.event /\ u.stale = t.stale /\ IsTx(u)
      /\ u.facts \in Rows /\ u.affiliate \in Rows \cup {Null}
      /\ u.facts = m.facts /\ u.affiliate = m.affiliate
      /\ \A q \in u.entries : q \in t.entries \/ q = <<t.rule, t.deed>>
  BY <1>3 DEF GoneOn, Wrote
<1>6. \/ /\ u.at = "act" /\ u.rule = t.rule /\ u.deed = t.deed + 1 /\ u.runs = t.runs
         /\ u.deed \in 1..Len(Rules[t.rule].does)
      \/ /\ u.runs = t.runs \cup {<<t.rule, "success">>}
         /\ \/ /\ u.at = "decide" /\ u.rule = t.rule + 1 /\ u.rule \in 1..Len(Rules)
               /\ u.deed = 0
            \/ u.at = "commit" /\ u.rule = t.rule /\ u.deed = t.deed
  BY <1>3 DEF Wrote
<1> HIDE DEF t
<1>7. t.at = "act"
  BY DEF t
<1>8. \A r, d : Did(t, r, d) => Did(u, r, d)
  BY <1>4, <1>6, <1>7 DEF Did
<1>9. Did(u, t.rule, t.deed)
  BY <1>1, <1>4, <1>6 DEF Did
<1>10. \A r, d : <<r, d>> \in u.entries => Did(u, r, d)
  BY <1>1, <1>5, <1>8, <1>9
<1>11. \A r, o : <<r, o>> \in u.runs => r \in 1..u.rule /\ (u.at # "commit" => r # u.rule)
  <2>1. CASE u.runs = t.runs /\ u.rule = t.rule
    BY <1>1, <2>1
  <2>2. CASE /\ u.runs = t.runs \cup {<<t.rule, "success">>}
             /\ u.at = "decide" /\ u.rule = t.rule + 1
    BY <1>1, <1>4, <2>2
  <2>3. CASE /\ u.runs = t.runs \cup {<<t.rule, "success">>}
             /\ u.at = "commit" /\ u.rule = t.rule
    BY <1>1, <1>4, <2>3
  <2> QED
    BY <1>6, <2>1, <2>2, <2>3
<1>12. /\ u.at \in {"decide", "act", "commit"}
       /\ u.rule \in 0..Len(Rules) /\ u.deed \in Nat
       /\ u.at # "commit" => u.rule \in 1..Len(Rules)
       /\ u.at = "act" => u.deed \in 1..Len(Rules[u.rule].does)
  BY <1>1, <1>4, <1>6
<1>13. Running(u)
  BY <1>1, <1>5, <1>10, <1>11, <1>12 DEF Running
<1>14. u.event # Null
  BY <1>1, <1>5, EventsAreReal
<1>15. Onward(t, u)
  BY <1>5, <1>8, <1>13, <1>14 DEF Onward, TxOK
<1>16. \A r : Tried(u, r) => Tried(t, r)
  BY <1>6, <1>7 DEF Tried
<1> QED
  BY <1>5, <1>9, <1>15, <1>16 DEF t, u

\* A deed that fails ends its rule.
LEMMA DeedFailed ==
  ASSUME NEW w, TxOK(tx[w]), tx[w].event # Null, tx[w].at = "act"
  PROVE  /\ Onward(tx[w], Failed(w))
         /\ Failed(w).affiliate = tx[w].affiliate /\ Failed(w).facts = tx[w].facts
         /\ \A r : Tried(Failed(w), r) => Tried(tx[w], r)
<1> DEFINE t == tx[w]
           m == [t EXCEPT !.runs = @ \cup {<<t.rule, "failed">>}]
           u == NextRule(m)
<1>1. /\ t.event \in Events /\ t.rule \in 1..Len(Rules) /\ t.deed \in Nat /\ IsTx(t)
      /\ t.facts \in Rows /\ t.affiliate \in Rows \cup {Null}
      /\ \A r, o : <<r, o>> \in t.runs => r \in 1..t.rule /\ r # t.rule
      /\ \A r, d : <<r, d>> \in t.entries => Did(t, r, d)
  BY DEF TxOK, Running
<1>2. t.rule \in Nat /\ Len(Rules) \in Nat
  BY <1>1, RulesAreFinite
<1>3. GoneOn(t, m) /\ m.runs = t.runs \cup {<<t.rule, "failed">>} /\ m.rule = t.rule
  BY <1>1 DEF IsTx, GoneOn
<1>4. m.rule \in 0..Len(Rules) /\ IsTx(m)
  BY <1>1, <1>2, <1>3 DEF GoneOn
<1> HIDE DEF m
<1>5. /\ GoneOn(m, u) /\ u.runs = m.runs
      /\ \/ /\ u.at = "decide" /\ u.rule = m.rule + 1 /\ u.rule \in 1..Len(Rules) /\ u.deed = 0
         \/ u.at = "commit" /\ u.rule = m.rule /\ u.deed = m.deed
  BY <1>4, NextRuleFacts
<1>6. m.deed = t.deed
  BY <1>1 DEF m, IsTx
<1>7. u = Failed(w)
  BY DEF Failed, m
<1> HIDE DEF u, t
<1>8. /\ GoneOn(t, u) /\ u.runs = t.runs \cup {<<t.rule, "failed">>}
      /\ \/ /\ u.at = "decide" /\ u.rule = t.rule + 1 /\ u.rule \in 1..Len(Rules) /\ u.deed = 0
         \/ u.at = "commit" /\ u.rule = t.rule /\ u.deed = t.deed
  BY <1>3, <1>5, <1>6 DEF GoneOn
<1>9. t.at = "act"
  BY DEF t
<1>10. \A r, d : Did(t, r, d) => Did(u, r, d)
  BY <1>8, <1>9 DEF Did
<1>11. \A r, d : <<r, d>> \in u.entries => Did(u, r, d)
  BY <1>1, <1>8, <1>10 DEF GoneOn
<1>12. \A r, o : <<r, o>> \in u.runs => r \in 1..u.rule /\ (u.at # "commit" => r # u.rule)
  BY <1>1, <1>2, <1>8
<1>13. /\ u.at \in {"decide", "act", "commit"}
       /\ u.rule \in 0..Len(Rules) /\ u.deed \in Nat
       /\ u.at # "commit" => u.rule \in 1..Len(Rules)
       /\ u.at # "act"
  BY <1>1, <1>2, <1>8
<1>14. Running(u)
  BY <1>1, <1>8, <1>11, <1>12, <1>13 DEF Running, GoneOn
<1>15. u.event # Null
  BY <1>1, <1>8, EventsAreReal DEF GoneOn
<1>16. Onward(t, u)
  BY <1>8, <1>10, <1>14, <1>15 DEF Onward, TxOK, GoneOn
<1>17. \A r : Tried(u, r) => Tried(t, r)
  BY <1>8, <1>9 DEF Tried
<1> QED
  BY <1>7, <1>8, <1>16, <1>17 DEF t, GoneOn
\* A rule that is decided on is tried only when none of its runs stands in the way.
LEMMA Decided ==
  ASSUME NEW w, TxOK(tx[w]), tx[w].event # Null, tx[w].at = "decide", NEW u,
         \/ u = [tx[w] EXCEPT !.at = "act", !.deed = 1] /\ ~Done(w)
         \/ u = NextRule(tx[w])
  PROVE  /\ Onward(tx[w], u)
         /\ u.affiliate = tx[w].affiliate /\ u.facts = tx[w].facts
         /\ \A r : Tried(u, r) => Tried(tx[w], r) \/ (tx[w].rule = r /\ ~Done(w))
<1> DEFINE t == tx[w]
           m == [t EXCEPT !.at = "act", !.deed = 1]
<1>1. /\ t.event \in Events /\ t.rule \in 1..Len(Rules) /\ t.deed \in Nat /\ IsTx(t)
      /\ t.facts \in Rows /\ t.affiliate \in Rows \cup {Null}
      /\ \A r, o : <<r, o>> \in t.runs => r \in 1..t.rule /\ r # t.rule
      /\ \A r, d : <<r, d>> \in t.entries => Did(t, r, d)
  BY DEF TxOK, Running
<1>2. /\ t.rule \in Nat /\ Len(Rules) \in Nat /\ t.rule \in 0..Len(Rules)
      /\ Len(Rules[t.rule].does) \in Nat /\ Len(Rules[t.rule].does) > 0
  BY <1>1, RulesAreFinite
<1>3. GoneOn(t, m) /\ m.runs = t.runs /\ m.rule = t.rule /\ m.at = "act" /\ m.deed = 1
  BY <1>1 DEF IsTx, GoneOn
<1>4. /\ GoneOn(t, NextRule(t)) /\ NextRule(t).runs = t.runs
      /\ \/ /\ NextRule(t).at = "decide" /\ NextRule(t).rule = t.rule + 1
            /\ NextRule(t).rule \in 1..Len(Rules) /\ NextRule(t).deed = 0
         \/ /\ NextRule(t).at = "commit" /\ NextRule(t).rule = t.rule
            /\ NextRule(t).deed = t.deed
  BY <1>1, <1>2, NextRuleFacts
<1>5. (u = m /\ ~Done(w)) \/ u = NextRule(t)
  OBVIOUS
<1> HIDE DEF m, t
<1>6. /\ GoneOn(t, u) /\ u.runs = t.runs
      /\ \/ u.at = "act" /\ u.rule = t.rule /\ u.deed = 1 /\ ~Done(w)
         \/ u.at = "decide" /\ u.rule = t.rule + 1 /\ u.rule \in 1..Len(Rules) /\ u.deed = 0
         \/ u.at = "commit" /\ u.rule = t.rule /\ u.deed = t.deed
  BY <1>3, <1>4, <1>5
<1>7. t.at = "decide"
  BY DEF t
<1>8. \A r, d : Did(t, r, d) => Did(u, r, d)
  BY <1>6, <1>7 DEF Did
<1>9. \A r, d : <<r, d>> \in u.entries => Did(u, r, d)
  BY <1>1, <1>6, <1>8 DEF GoneOn
<1>10. \A r, o : <<r, o>> \in u.runs => r \in 1..u.rule /\ (u.at # "commit" => r # u.rule)
  BY <1>1, <1>2, <1>6
<1>11. /\ u.at \in {"decide", "act", "commit"}
       /\ u.rule \in 0..Len(Rules) /\ u.deed \in Nat
       /\ u.at # "commit" => u.rule \in 1..Len(Rules)
       /\ u.at = "act" => u.deed \in 1..Len(Rules[u.rule].does)
  BY <1>1, <1>2, <1>6
<1>12. Running(u)
  BY <1>1, <1>6, <1>9, <1>10, <1>11 DEF Running, GoneOn
<1>13. u.event # Null
  BY <1>1, <1>6, EventsAreReal DEF GoneOn
<1>14. Onward(t, u)
  BY <1>6, <1>8, <1>12, <1>13 DEF Onward, TxOK, GoneOn
<1>15. \A r : Tried(u, r) => Tried(t, r) \/ (t.rule = r /\ ~Done(w))
  BY <1>6, <1>7 DEF Tried
<1> QED
  BY <1>6, <1>14, <1>15 DEF t, GoneOn

\* A step of w's job that leads it to u: what it leaves alone, and what may come of it.
WorksTo(w, u) ==
  /\ tx' = [tx EXCEPT ![w] = u]
  /\ UNCHANGED <<Committed, met, redone>>
  /\ tx[w].event # Null /\ Onward(tx[w], u)
  /\ \A r : Tried(u, r) => \/ Tried(tx[w], r)
                           \/ tx[w].rule = r /\ ~Done(w)
  /\ \/ emails' = emails
     \/ /\ tx[w].at = "act" /\ Did(u, tx[w].rule, tx[w].deed)
        /\ emails' = [emails EXCEPT ![<<Place(w), Entity(w)>>] = @ + 1]
  /\ \/ u.affiliate = tx[w].affiliate /\ u.facts = tx[w].facts
     \/ /\ u.affiliate \in Rows
        /\ tx[w].facts = Affiliate(w) => u.facts = u.affiliate

\* The steps that a job takes between its begin and its commit.
Works(w) ==
  \/ Decide(w) \/ AdjustBalance(w) \/ ApproveCommission(w) \/ ChangeTag(w)
  \/ SuspendAffiliate(w) \/ SendEmail(w)

LEMMA WrittenRow ==
  ASSUME NEW w, Base, w \in Workers
  PROVE  tx[w].event # Null => Affiliate(w) \in Rows /\ tx[w].facts \in Rows
BY DEF Base, TxOK, Running, Affiliate

LEMMA Suspended ==
  ASSUME NEW row \in Rows
  PROVE  [row EXCEPT !.status = "suspended"] \in Rows
BY DEF Rows

LEMMA TagsWritten ==
  ASSUME NEW row \in Rows, NEW tags \in SUBSET Tags
  PROVE  [row EXCEPT !.tags = tags] \in Rows
BY DEF Rows

LEMMA WorkLeads ==
  ASSUME Base, NEW w \in Workers, Works(w)
  PROVE  \E u : WorksTo(w, u)
<1> DEFINE t == tx[w]
<1>1. TxOK(t) /\ (t.at # "idle" => t.event # Null)
  BY DEF Base, TxOK, Idle
<1>2. t.event # Null /\ Wrote(t, t) /\ IsTx(t)
  <2>1. t.at # "idle"
    BY DEF Works, Decide, AdjustBalance, ApproveCommission, ChangeTag, SuspendAffiliate,
           SendEmail, At
  <2> QED
    BY <1>1, <2>1 DEF TxOK, Running, Wrote
<1>3. CASE Decide(w)
  <2>1. PICK u : /\ \/ u = [t EXCEPT !.at = "act", !.deed = 1] /\ ~Done(w)
                    \/ u = NextRule(t)
                 /\ Step(w, u) /\ t.at = "decide"
    BY <1>3 DEF Decide, At
  <2>2. /\ Onward(t, u) /\ u.affiliate = t.affiliate /\ u.facts = t.facts
        /\ \A r : Tried(u, r) => Tried(t, r) \/ (t.rule = r /\ ~Done(w))
    BY <1>1, <1>2, <2>1, Decided
  <2> HIDE DEF t
  <2>3. WorksTo(w, u)
    BY <1>2, <2>1, <2>2 DEF WorksTo, Step, History, t
  <2> QED
    BY <2>3
<1>4. ASSUME NEW m, Wrote(t, m), Step(w, After(w, m)), t.at = "act",
             \/ m.affiliate = t.affiliate /\ m.facts = t.facts
             \/ /\ m.affiliate \in Rows
                /\ t.facts = Affiliate(w) => m.facts = m.affiliate
      PROVE  \E u : WorksTo(w, u)
  <2> DEFINE u == After(w, m)
  <2>1. /\ Onward(t, u) /\ u.affiliate = m.affiliate /\ u.facts = m.facts
        /\ \A r : Tried(u, r) => Tried(t, r)
    BY <1>1, <1>2, <1>4, DeedDone
  <2> HIDE DEF t, u
  <2>2. WorksTo(w, u)
    BY <1>2, <1>4, <2>1 DEF WorksTo, Step, History, t, u
  <2> QED
    BY <2>2
<1>5. ASSUME Step(w, Failed(w)), t.at = "act"
      PROVE  \E u : WorksTo(w, u)
  <2> DEFINE u == Failed(w)
  <2>1. /\ Onward(t, u) /\ u.affiliate = t.affiliate /\ u.facts = t.facts
        /\ \A r : Tried(u, r) => Tried(t, r)
    BY <1>1, <1>2, <1>5, DeedFailed
  <2> HIDE DEF t, u
  <2>2. WorksTo(w, u)
    BY <1>2, <1>5, <2>1 DEF WorksTo, Step, History, t, u
  <2> QED
    BY <2>2
<1>6. CASE AdjustBalance(w)
  <2> DEFINE m == [t EXCEPT !.entries = @ \cup {Place(w)}]
  <2>1. Wrote(t, m) /\ m.affiliate = t.affiliate /\ m.facts = t.facts
    BY <1>2 DEF Wrote, IsTx, Place
  <2>2. Step(w, After(w, m)) /\ t.at = "act"
    BY <1>6 DEF AdjustBalance, At
  <2> HIDE DEF m, t
  <2> QED
    BY <1>4, <2>1, <2>2
<1>7. CASE ApproveCommission(w)
  <2> DEFINE m == [t EXCEPT !.approved = TRUE]
  <2>1. Wrote(t, m) /\ m.affiliate = t.affiliate /\ m.facts = t.facts
    BY <1>2 DEF Wrote, IsTx
  <2>2. t.at = "act" /\ (Step(w, After(w, m)) \/ Step(w, Failed(w)))
    BY <1>7 DEF ApproveCommission, At
  <2> HIDE DEF m, t
  <2> QED
    BY <1>4, <1>5, <2>1, <2>2
<1>8. CASE ChangeTag(w)
  <2> DEFINE m == [t EXCEPT !.affiliate = [Affiliate(w) EXCEPT !.tags = Tagged(w)],
                            !.facts.tags = Tagged(w)]
  <2>1. /\ t.at = "act" /\ Step(w, After(w, m))
        /\ Deed(w) \in {"add", "remove"} \X Tags
    BY <1>8 DEF ChangeTag, At
  <2>2. Affiliate(w) \in Rows /\ t.facts \in Rows
    BY <1>2, WrittenRow
  <2>3. Tagged(w) \in SUBSET Tags
    BY <2>1, <2>2 DEF Tagged, Rows
  <2>4. /\ [Affiliate(w) EXCEPT !.tags = Tagged(w)] \in Rows
        /\ [t.facts EXCEPT !.tags = Tagged(w)] \in Rows
    BY <2>2, <2>3, TagsWritten
  <2>5. /\ m.affiliate = [Affiliate(w) EXCEPT !.tags = Tagged(w)]
        /\ m.facts = [t.facts EXCEPT !.tags = Tagged(w)]
        /\ IsTx(m) /\ m.event = t.event /\ m.at = t.at /\ m.rule = t.rule /\ m.deed = t.deed
        /\ m.stale = t.stale /\ m.runs = t.runs /\ m.entries = t.entries
    BY <1>2 DEF IsTx
  <2> HIDE DEF m, t
  <2>6. Wrote(t, m)
    BY <2>4, <2>5 DEF Wrote
  <2>7. t.facts = Affiliate(w) => m.facts = m.affiliate
    BY <2>5
  <2> QED
    BY <1>4, <2>1, <2>4, <2>5, <2>6, <2>7
<1>9. CASE SuspendAffiliate(w)
  <2> DEFINE m == [t EXCEPT !.affiliate = [Affiliate(w) EXCEPT !.status = "suspended"],
                            !.facts.status = "suspended"]
  <2>1. /\ t.at = "act"
        /\ \/ Step(w, After(w, m))
           \/ Step(w, Failed(w))
    BY <1>9 DEF SuspendAffiliate, At
  <2>2. Affiliate(w) \in Rows /\ t.facts \in Rows
    BY <1>2, WrittenRow
  <2>3. /\ [Affiliate(w) EXCEPT !.status = "suspended"] \in Rows
        /\ [t.facts EXCEPT !.status = "suspended"] \in Rows
    BY <2>2, Suspended
  <2>4. /\ m.affiliate = [Affiliate(w) EXCEPT !.status = "suspended"]
        /\ m.facts = [t.facts EXCEPT !.status = "suspended"]
        /\ IsTx(m) /\ m.event = t.event /\ m.at = t.at /\ m.rule = t.rule /\ m.deed = t.deed
        /\ m.stale = t.stale /\ m.runs = t.runs /\ m.entries = t.entries
    BY <1>2 DEF IsTx
  <2> HIDE DEF m, t
  <2>5. Wrote(t, m)
    BY <2>3, <2>4 DEF Wrote
  <2>6. t.facts = Affiliate(w) => m.facts = m.affiliate
    BY <2>4
  <2> QED
    BY <1>4, <1>5, <2>1, <2>3, <2>4, <2>5, <2>6
<1>10. CASE SendEmail(w)
  <2> DEFINE u == After(w, t)
  <2>1. /\ t.at = "act" /\ tx' = [tx EXCEPT ![w] = u] /\ UNCHANGED <<Committed, History>>
        /\ emails' = [emails EXCEPT ![<<Place(w), Entity(w)>>] = @ + 1]
    BY <1>10 DEF SendEmail, At
  <2>2. /\ Onward(t, u) /\ u.affiliate = t.affiliate /\ u.facts = t.facts
        /\ \A r : Tried(u, r) => Tried(t, r)
        /\ Did(u, t.rule, t.deed)
    BY <1>1, <1>2, <2>1, DeedDone
  <2> HIDE DEF t, u
  <2>3. WorksTo(w, u)
    BY <1>2, <2>1, <2>2 DEF WorksTo, History, t
  <2> QED
    BY <2>3
<1> QED
  BY <1>3, <1>6, <1>7, <1>8, <1>9, <1>10 DEF Works
\* A job that begins has been at no rule.
LEMMA Begun ==
  ASSUME NEW e \in Events, affiliate \in Rows
  PROVE  LET u == NextRule([Idle EXCEPT !.event = e, !.facts = affiliate])
         IN  /\ TxOK(u) /\ u.event = e /\ u.affiliate = Null /\ u.facts = affiliate
             /\ u.stale = FALSE /\ u.runs = {}
             /\ \A r : ~Tried(u, r)
<1> DEFINE t == [Idle EXCEPT !.event = e, !.facts = affiliate]
           u == NextRule(t)
<1>1. /\ IsTx(t) /\ t.event = e /\ t.affiliate = Null /\ t.facts = affiliate /\ t.stale = FALSE
      /\ t.runs = {} /\ t.entries = {} /\ t.rule = 0 /\ t.deed = 0
  BY DEF Idle, IsTx
<1>2. Len(Rules) \in Nat
  BY RulesAreFinite
<1> HIDE DEF t
<1>3. /\ GoneOn(t, u) /\ u.runs = t.runs
      /\ \/ /\ u.at = "decide" /\ u.rule = t.rule + 1 /\ u.rule \in 1..Len(Rules) /\ u.deed = 0
         \/ u.at = "commit" /\ u.rule = t.rule /\ u.deed = t.deed
  BY <1>1, <1>2, NextRuleFacts
<1> HIDE DEF u
<1>4. /\ IsTx(u) /\ u.event = e /\ u.affiliate = Null /\ u.facts = affiliate /\ u.stale = FALSE
      /\ u.runs = {} /\ u.entries = {} /\ u.at \in {"decide", "commit"} /\ u.deed = 0
      /\ u.rule \in 0..Len(Rules) /\ (u.at # "commit" => u.rule \in 1..Len(Rules))
  BY <1>1, <1>2, <1>3 DEF GoneOn
<1>5. Running(u)
  BY <1>4 DEF Running
<1>6. TxOK(u)
  BY <1>4, <1>5, EventsAreReal DEF TxOK
<1>7. \A r : ~Tried(u, r)
  BY <1>4 DEF Tried
<1> QED
  BY <1>4, <1>6, <1>7 DEF t, u

\* u is t, but that its facts may be told out of date.
Aside(t, u) ==
  /\ TxOK(u) /\ u.event = t.event /\ u.facts = t.facts /\ u.affiliate = t.affiliate
  /\ u = t \/ u.stale = TRUE
  /\ \A r : Tried(u, r) <=> Tried(t, r)
  /\ \A r, d : Did(u, r, d) <=> Did(t, r, d)

LEMMA Same ==
  ASSUME NEW t, TxOK(t)
  PROVE  Aside(t, t)
BY DEF Aside

LEMMA ToldStale ==
  ASSUME NEW t, TxOK(t), t.event # Null
  PROVE  Aside(t, [t EXCEPT !.stale = TRUE])
<1> DEFINE u == [t EXCEPT !.stale = TRUE]
<1>1. /\ IsTx(u) /\ u.event = t.event /\ u.at = t.at /\ u.rule = t.rule /\ u.deed = t.deed
      /\ u.facts = t.facts /\ u.stale = TRUE /\ u.affiliate = t.affiliate
      /\ u.runs = t.runs /\ u.entries = t.entries
  BY DEF TxOK, IsTx
<1> HIDE DEF u
<1>2. /\ \A r : Tried(u, r) <=> Tried(t, r)
      /\ \A r, d : Did(u, r, d) <=> Did(t, r, d)
  BY <1>1 DEF Tried, Did
<1>3. Running(t)
  BY DEF TxOK
<1>4. Running(u)
  BY <1>1, <1>2, <1>3 DEF Running
<1>5. Aside(t, u)
  BY <1>1, <1>2, <1>4 DEF Aside, TxOK
<1> QED
  BY <1>5 DEF u

\* Telling others: each is as it was, or told.
LEMMA OutdatedFacts ==
  ASSUME NEW others, NEW t, NEW o \in Workers, TxOK(t[o])
  PROVE  Aside(t[o], Outdated(others, t)[o])
<1>1. CASE o \in others /\ t[o].event # Null
  BY <1>1, ToldStale DEF Outdated
<1>2. CASE ~(o \in others /\ t[o].event # Null)
  BY <1>2, Same DEF Outdated
<1> QED
  BY <1>1, <1>2

\* The job of w ends, and the others' go on as they were.
EndsIn(w, status) ==
  /\ tx[w].event # Null
  /\ jobs' = [jobs EXCEPT ![tx[w].event] = status]
  /\ DOMAIN tx' = Workers /\ tx' = [o \in Workers |-> tx'[o]]
  /\ tx'[w] = Idle
  /\ \A o \in Workers \ {w} : Aside(tx[o], tx'[o])

\* What the others' jobs look like after a commit or an edit.
Retold == DOMAIN tx' = Workers /\ tx' = [o \in Workers |-> tx'[o]]
          /\ \A o \in Workers : Aside(tx[o], tx'[o])

LEMMA IdleFacts ==
  /\ TxOK(Idle) /\ Idle.event = Null /\ Idle.affiliate = Null /\ Idle.facts = Null
  /\ \A r : ~Tried(Idle, r)
  /\ \A r, d : ~Did(Idle, r, d)
BY DEF Idle, TxOK, IsTx, Tried, Did

LEMMA CommitEnds ==
  ASSUME Base, NEW w \in Workers, Commit(w)
  PROVE  /\ EndsIn(w, "done")
         /\ tx[w].affiliate # Null => \A o \in Workers \ {w} : tx'[o].event # Null => tx'[o].stale
<1> DEFINE others == IF tx[w].affiliate = Null THEN {} ELSE Workers \ {w}
           t == [tx EXCEPT ![w] = Idle]
<1>1. tx' = Outdated(others, t) /\ jobs' = [jobs EXCEPT ![tx[w].event] = "done"]
  BY DEF Commit
<1>2. tx[w].event # Null
  BY DEF Base, TxOK, Idle, Commit, At
<1>3. /\ t[w] = Idle
      /\ \A o \in Workers \ {w} : t[o] = tx[o]
  BY DEF Base
<1>4. \A o \in Workers : TxOK(t[o])
  BY <1>3, IdleFacts DEF Base
<1> HIDE DEF t
<1>5. DOMAIN tx' = Workers /\ tx' = [o \in Workers |-> tx'[o]]
  BY <1>1 DEF Outdated
<1>6. tx'[w] = Idle
  BY <1>1, <1>3, IdleFacts DEF Outdated
<1>7. \A o \in Workers \ {w} : Aside(tx[o], tx'[o])
  BY <1>1, <1>3, <1>4, OutdatedFacts
<1>8. ASSUME tx[w].affiliate # Null, NEW o \in Workers \ {w}, tx'[o].event # Null
      PROVE  tx'[o].stale
  <2>1. t[o].event # Null
    BY <1>3, <1>7, <1>8 DEF Aside
  <2>2. tx'[o] = [t[o] EXCEPT !.stale = TRUE]
    BY <1>1, <1>8, <2>1 DEF Outdated
  <2>3. IsTx(t[o])
    BY <1>4, <1>8 DEF TxOK
  <2> QED
    BY <2>2, <2>3 DEF IsTx
<1> QED
  BY <1>1, <1>2, <1>5, <1>6, <1>7, <1>8 DEF EndsIn

LEMMA InterruptEnds ==
  ASSUME Base, NEW w \in Workers, Interrupt(w)
  PROVE  /\ EndsIn(w, "queued")
         /\ \A o \in Workers \ {w} : tx'[o] = tx[o]
<1>1. /\ tx' = [tx EXCEPT ![w] = Idle] /\ jobs' = [jobs EXCEPT ![tx[w].event] = "queued"]
      /\ tx[w].event # Null
  BY DEF Interrupt
<1>2. DOMAIN tx' = Workers /\ tx' = [o \in Workers |-> tx'[o]] /\ tx'[w] = Idle
  BY <1>1 DEF Base
<1>3. \A o \in Workers \ {w} : tx'[o] = tx[o]
  BY <1>1 DEF Base
<1>4. \A o \in Workers \ {w} : Aside(tx[o], tx'[o])
  BY <1>3, Same DEF Base
<1> QED
  BY <1>1, <1>2, <1>3, <1>4 DEF EndsIn

LEMMA EditTells ==
  ASSUME Base, NEW row, Edit(row)
  PROVE  /\ Retold
         /\ \A o \in Workers : tx'[o].event # Null => tx'[o].stale
<1>1. tx' = Outdated(Workers, tx)
  BY DEF Edit
<1>2. DOMAIN tx' = Workers /\ tx' = [o \in Workers |-> tx'[o]]
  BY <1>1 DEF Outdated
<1>3. \A o \in Workers : Aside(tx[o], tx'[o])
  BY <1>1, OutdatedFacts DEF Base
<1>4. ASSUME NEW o \in Workers, tx'[o].event # Null
      PROVE  tx'[o].stale
  <2>1. tx'[o] = [tx[o] EXCEPT !.stale = TRUE]
    BY <1>1, <1>3, <1>4 DEF Outdated, Aside
  <2>2. IsTx(tx[o])
    BY DEF Base, TxOK
  <2> QED
    BY <2>1, <2>2 DEF IsTx
<1> QED
  BY <1>2, <1>3, <1>4 DEF Retold
----------------------------------------------------------------------------
(* Base.                                                                   *)

\* The rows; the open transactions one by one, and two by two.
RowsTyped ==
  /\ affiliate \in Rows
  /\ runs \in [Places -> [success : Nat, failed : Nat]]
  /\ entries \in [Deals -> Nat] /\ emails \in [Deals -> Nat]
  /\ jobs \in [Events -> {"queued", "running", "done"}]

AllSound ==
  /\ DOMAIN tx = Workers /\ tx = [w \in Workers |-> tx[w]]
  /\ \A w \in Workers : TxOK(tx[w])
  /\ \A w \in Workers : tx[w].event # Null => jobs[tx[w].event] = "running"

Apart ==
  \A w, o \in Workers : w # o /\ tx[w].event # Null /\ tx[o].event # Null =>
    tx[w].event # tx[o].event /\ {tx[w].event, tx[o].event} \in met

LEMMA BaseParts == Base <=> RowsTyped /\ AllSound /\ Apart
BY DEF Base, RowsTyped, AllSound, Apart

LEMMA BaseStart == Init => Base
<1> SUFFICES ASSUME Init
             PROVE  Base
  OBVIOUS
<1>1. \A w \in Workers : tx[w] = Idle
  BY DEF Init
<1>2. affiliate \in Rows
  BY DEF Init, Rows
<1>3. RowsTyped
  BY <1>2 DEF Init, RowsTyped
<1>4. AllSound /\ Apart
  BY <1>1, IdleFacts DEF Init, AllSound, Apart
<1> QED
  BY <1>3, <1>4, BaseParts

LEMMA WorkBase ==
  ASSUME Base, NEW w \in Workers, NEW u, WorksTo(w, u)
  PROVE  Base'
<1>1. RowsTyped /\ AllSound /\ Apart
  BY BaseParts
<1>2. /\ tx'[w] = u /\ TxOK(u) /\ u.event = tx[w].event
      /\ \A o \in Workers \ {w} : tx'[o] = tx[o]
      /\ DOMAIN tx' = Workers /\ tx' = [o \in Workers |-> tx'[o]]
  BY <1>1 DEF AllSound, WorksTo, Onward
<1>3. emails' \in [Deals -> Nat]
  BY <1>1 DEF WorksTo, RowsTyped
<1>4. RowsTyped'
  BY <1>1, <1>3 DEF WorksTo, RowsTyped, Committed
<1>5. AllSound'
  BY <1>1, <1>2 DEF WorksTo, AllSound, Committed
<1>6. \A v \in Workers : tx'[v].event = tx[v].event
  BY <1>2
<1>7. ASSUME NEW v \in Workers, NEW o \in Workers, v # o,
             tx'[v].event # Null, tx'[o].event # Null
      PROVE  tx'[v].event # tx'[o].event /\ {tx'[v].event, tx'[o].event} \in met
  <2>1. tx'[v].event = tx[v].event /\ tx'[o].event = tx[o].event
    BY <1>6
  <2> QED
    BY <1>1, <1>7, <2>1 DEF Apart
<1>8. met' = met
  BY DEF WorksTo
<1>9. Apart'
  BY <1>7, <1>8 DEF Apart
<1> QED
  BY <1>4, <1>5, <1>9, BaseParts DEF Base, RowsTyped, AllSound, Apart

LEMMA BeginBase ==
  ASSUME Base, NEW w \in Workers, NEW e \in Events, RunRulesForEvent(w, e)
  PROVE  Base'
<1> DEFINE u == NextRule([Idle EXCEPT !.event = e, !.facts = affiliate])
<1>1. RowsTyped /\ AllSound /\ Apart
  BY BaseParts
<1>2. TxOK(u) /\ u.event = e /\ u.affiliate = Null
  BY <1>1, Begun DEF RowsTyped
<1>3. /\ jobs[e] = "queued" /\ jobs' = [jobs EXCEPT ![e] = "running"]
      /\ tx' = [tx EXCEPT ![w] = u]
      /\ met' = met \cup {{e, tx[o].event} : o \in {o \in Workers : tx[o].event # Null}}
      /\ UNCHANGED <<affiliate, standing, runs, entries, emails, calls, redone>>
  BY DEF RunRulesForEvent
<1> HIDE DEF u
<1>4. /\ tx'[w] = u /\ \A o \in Workers \ {w} : tx'[o] = tx[o]
      /\ DOMAIN tx' = Workers /\ tx' = [o \in Workers |-> tx'[o]]
  BY <1>1, <1>3 DEF AllSound
<1>5. RowsTyped'
  BY <1>1, <1>3 DEF RowsTyped
<1>6. \A o \in Workers : tx[o].event # Null => tx[o].event # e /\ {e, tx[o].event} \in met'
  BY <1>1, <1>3 DEF AllSound
<1>7. \A f \in Events : jobs[f] = "running" => jobs'[f] = "running"
  BY <1>1, <1>3 DEF RowsTyped
<1>8. \A o \in Workers : tx[o].event # Null => tx[o].event \in Events
  BY <1>1 DEF AllSound, TxOK, Running
<1>9. jobs'[e] = "running"
  BY <1>1, <1>3 DEF RowsTyped
<1>10. \A o \in Workers : tx'[o].event # Null => jobs'[tx'[o].event] = "running"
  BY <1>1, <1>2, <1>4, <1>7, <1>8, <1>9 DEF AllSound
<1>11. \A o \in Workers : TxOK(tx'[o])
  BY <1>1, <1>2, <1>4 DEF AllSound
<1>12. AllSound'
  BY <1>4, <1>10, <1>11 DEF AllSound
<1>13. ASSUME NEW v \in Workers, NEW o \in Workers, v # o,
              tx'[v].event # Null, tx'[o].event # Null
       PROVE  tx'[v].event # tx'[o].event /\ {tx'[v].event, tx'[o].event} \in met'
  <2>1. CASE v = w
    BY <1>2, <1>4, <1>6, <1>13, <2>1
  <2>2. CASE o = w
    <3>1. tx'[o].event = e /\ tx'[v] = tx[v]
      BY <1>2, <1>4, <1>13, <2>2
    <3>2. {tx[v].event, e} = {e, tx[v].event}
      OBVIOUS
    <3> QED
      BY <1>6, <1>13, <3>1, <3>2
  <2>3. CASE v # w /\ o # w
    BY <1>1, <1>3, <1>4, <1>13, <2>3 DEF Apart
  <2> QED
    BY <2>1, <2>2, <2>3
<1>14. Apart'
  BY <1>13 DEF Apart
<1> QED
  BY <1>5, <1>12, <1>14 DEF Base, RowsTyped, AllSound, Apart

\* Jobs that only end or are told leave the rest sound.
LEMMA EndBase ==
  ASSUME Base, NEW w \in Workers, NEW status \in {"queued", "done"}, EndsIn(w, status), met' = met,
         RowsTyped'
  PROVE  Base'
<1>1. RowsTyped /\ AllSound /\ Apart
  BY BaseParts
<1>2. \A o \in Workers \ {w} : tx[o].event # Null =>
         tx[o].event # tx[w].event /\ tx[o].event \in Events /\ jobs[tx[o].event] = "running"
  BY <1>1 DEF AllSound, Apart, EndsIn, TxOK, Running
<1>3. \A f \in Events : f # tx[w].event => jobs'[f] = jobs[f]
  BY <1>1 DEF RowsTyped, EndsIn
<1>4. \A o \in Workers : \/ tx'[o].event = Null
                         \/ o # w /\ tx'[o].event = tx[o].event
  BY IdleFacts DEF EndsIn, Aside
<1>5. \A o \in Workers : TxOK(tx'[o])
  BY IdleFacts DEF EndsIn, Aside
<1>6. \A o \in Workers : tx'[o].event # Null => jobs'[tx'[o].event] = "running"
  BY <1>2, <1>3, <1>4
<1>7. AllSound'
  BY <1>5, <1>6 DEF AllSound, EndsIn
<1>8. Apart'
  BY <1>1, <1>4 DEF Apart
<1> QED
  BY <1>7, <1>8 DEF Base, RowsTyped, AllSound, Apart

LEMMA TellBase ==
  ASSUME Base, Retold, jobs' = jobs, met' = met, RowsTyped'
  PROVE  Base'
<1>1. RowsTyped /\ AllSound /\ Apart
  BY BaseParts
<1>2. \A o \in Workers : tx'[o].event = tx[o].event
  BY DEF Retold, Aside
<1>3. AllSound'
  BY <1>1, <1>2 DEF AllSound, Retold, Aside
<1>4. ASSUME NEW v \in Workers, NEW o \in Workers, v # o,
             tx'[v].event # Null, tx'[o].event # Null
      PROVE  tx'[v].event # tx'[o].event /\ {tx'[v].event, tx'[o].event} \in met'
  <2>1. tx'[v].event = tx[v].event /\ tx'[o].event = tx[o].event
    BY <1>2
  <2> QED
    BY <1>1, <1>4, <2>1 DEF Apart
<1>5. Apart'
  BY <1>4 DEF Apart
<1> QED
  BY <1>3, <1>5 DEF Base, RowsTyped, AllSound, Apart

\* What a commit records.
Recorded(w) ==
  /\ runs' = [p \in Places |-> IF p[2] # Entity(w) THEN runs[p] ELSE
       [success |-> runs[p].success + (IF <<p[1], "success">> \in tx[w].runs THEN 1 ELSE 0),
        failed  |-> runs[p].failed + (IF <<p[1], "failed">> \in tx[w].runs THEN 1 ELSE 0)]]
  /\ entries' = [p \in Deals |-> IF p[2] = Entity(w) /\ p[1] \in tx[w].entries
                                 THEN entries[p] + 1 ELSE entries[p]]

LEMMA CommitRows ==
  ASSUME Base, NEW w \in Workers, Commit(w)
  PROVE  Recorded(w) /\ RowsTyped'
<1>1. RowsTyped
  BY BaseParts
<1>2. Recorded(w)
  BY DEF Commit, Recorded
<1>3. tx[w].event \in Events /\ tx[w].affiliate \in Rows \cup {Null}
  BY DEF Base, TxOK, Running, Idle, Commit, At
<1>4. /\ affiliate' = Affiliate(w) /\ jobs' = [jobs EXCEPT ![tx[w].event] = "done"]
      /\ emails' = emails
  BY DEF Commit
<1>5. affiliate' \in Rows
  BY <1>1, <1>3, <1>4 DEF RowsTyped, Affiliate
<1>6. jobs' \in [Events -> {"queued", "running", "done"}]
  BY <1>1, <1>3, <1>4 DEF RowsTyped
<1>7. \A p \in Places : runs[p].success \in Nat /\ runs[p].failed \in Nat
                        /\ runs[p] \in [success : Nat, failed : Nat]
  BY <1>1 DEF RowsTyped
<1>8. runs' \in [Places -> [success : Nat, failed : Nat]]
  BY <1>2, <1>7 DEF Recorded
<1>9. entries' \in [Deals -> Nat]
  BY <1>1, <1>2 DEF RowsTyped, Recorded
<1> QED
  BY <1>1, <1>2, <1>4, <1>5, <1>6, <1>8, <1>9 DEF RowsTyped

\* People's edits of the affiliate's row.
Edits ==
  \/ \E tags \in SUBSET Tags : UpdateTags(tags)
  \/ \E status \in {"active", "suspended"} : SetStatus(status)

LEMMA EditRows ==
  ASSUME Base, Edits
  PROVE  /\ \E row : Edit(row)
         /\ RowsTyped'
         /\ UNCHANGED <<standing, runs, entries, emails, jobs, met, redone>>
<1>1. RowsTyped
  BY BaseParts
<1>2. PICK row : Edit(row) /\ row \in Rows
  <2>1. \A tags \in SUBSET Tags : [affiliate EXCEPT !.tags = tags] \in Rows
    BY <1>1, TagsWritten DEF RowsTyped
  <2>2. \A status \in {"active", "suspended"} : [affiliate EXCEPT !.status = status] \in Rows
    BY <1>1 DEF RowsTyped, Rows
  <2> QED
    BY <2>1, <2>2 DEF Edits, UpdateTags, SetStatus
<1> QED
  BY <1>1, <1>2 DEF Edit, RowsTyped

\* Every step is one of these.
LEMMA Kinds ==
  ASSUME [Next]_vars
  PROVE  \/ \E w \in Workers, e \in Events : RunRulesForEvent(w, e)
         \/ \E w \in Workers : Works(w) \/ Commit(w) \/ Interrupt(w)
         \/ Edits
         \/ UNCHANGED <<affiliate, runs, entries, emails, jobs, tx, met, redone>>
BY DEF Next, vars, Works, Edits, ChangeCommission

LEMMA BaseStep ==
  ASSUME Base, [Next]_vars
  PROVE  Base'
<1>1. ASSUME NEW w \in Workers, NEW e \in Events, RunRulesForEvent(w, e)
      PROVE  Base'
  BY <1>1, BeginBase
<1>2. ASSUME NEW w \in Workers, Works(w)
      PROVE  Base'
  BY <1>2, WorkLeads, WorkBase
<1>3. ASSUME NEW w \in Workers, Commit(w)
      PROVE  Base'
  <2>1. EndsIn(w, "done") /\ RowsTyped' /\ met' = met
    BY <1>3, CommitEnds, CommitRows DEF Commit, History
  <2> QED
    BY <2>1, EndBase
<1>4. ASSUME NEW w \in Workers, Interrupt(w)
      PROVE  Base'
  <2>1. EndsIn(w, "queued") /\ met' = met
    BY <1>4, InterruptEnds DEF Interrupt
  <2>2. RowsTyped'
    BY <1>4, BaseParts DEF Interrupt, RowsTyped
  <2> QED
    BY <2>1, <2>2, EndBase
<1>5. CASE Edits
  BY <1>5, EditRows, EditTells, TellBase
<1>6. CASE UNCHANGED <<affiliate, runs, entries, emails, jobs, tx, met, redone>>
  <2>1. RowsTyped /\ AllSound /\ Apart
    BY BaseParts
  <2>2. RowsTyped'
    BY <1>6, <2>1 DEF RowsTyped
  <2>3. AllSound'
    BY <1>6, <2>1 DEF AllSound
  <2>4. Apart'
    BY <1>6, <2>1 DEF Apart
  <2> QED
    BY <2>2, <2>3, <2>4 DEF Base, RowsTyped, AllSound, Apart
<1> QED
  BY <1>1, <1>2, <1>3, <1>4, <1>5, <1>6, Kinds

LEMMA BaseHolds == Spec => []Base
<1>1. Base /\ [Next]_vars => Base'
  BY BaseStep
<1> QED
  BY BaseStart, <1>1, PTL DEF Spec
----------------------------------------------------------------------------
(* The facts of a job.                                                     *)

\* FactsCurrent of one worker.
Current(w) == tx[w].event # Null /\ ~tx[w].stale => tx[w].facts = Affiliate(w)

\* A worker that no step has told keeps what it had, when the row it sees is the same.
LEMMA StaysCurrent ==
  ASSUME NEW w, Current(w), Aside(tx[w], tx'[w]),
         \/ affiliate' = affiliate
         \/ tx'[w].event # Null => tx'[w].stale
  PROVE  Current(w)'
<1>1. CASE tx'[w].event # Null => tx'[w].stale
  BY <1>1 DEF Current
<1>2. CASE affiliate' = affiliate
  <2>1. CASE tx'[w].stale = TRUE
    BY <2>1 DEF Current
  <2>2. CASE tx'[w] = tx[w]
    BY <1>2, <2>2 DEF Current, Affiliate
  <2> QED
    BY <2>1, <2>2 DEF Aside
<1> QED
  BY <1>1, <1>2

LEMMA CurrentStep ==
  ASSUME Base, FactsCurrent, [Next]_vars
  PROVE  FactsCurrent'
<1>1. \A v \in Workers : Current(v) /\ TxOK(tx[v])
  BY DEF FactsCurrent, Current, Base
<1>2. SUFFICES ASSUME NEW v \in Workers
               PROVE  Current(v)'
  BY DEF FactsCurrent, Current
<1>3. ASSUME NEW w \in Workers, NEW e \in Events, RunRulesForEvent(w, e)
      PROVE  Current(v)'
  <2>1. /\ tx' = [tx EXCEPT ![w] = NextRule([Idle EXCEPT !.event = e, !.facts = affiliate])]
        /\ affiliate' = affiliate /\ affiliate \in Rows
    BY <1>3 DEF RunRulesForEvent, Base
  <2> DEFINE u == NextRule([Idle EXCEPT !.event = e, !.facts = affiliate])
  <2>2. u.affiliate = Null /\ u.facts = affiliate
    BY <2>1, Begun
  <2> HIDE DEF u
  <2>3. tx'[v] = IF v = w THEN u ELSE tx[v]
    BY <2>1 DEF Base, u
  <2>4. CASE v = w
    BY <2>1, <2>2, <2>3, <2>4 DEF Current, Affiliate
  <2>5. CASE v # w
    BY <1>1, <2>1, <2>3, <2>5, Same, StaysCurrent
  <2> QED
    BY <2>4, <2>5
<1>4. ASSUME NEW w \in Workers, Works(w)
      PROVE  Current(v)'
  <2>1. PICK u : WorksTo(w, u)
    BY <1>4, WorkLeads
  <2>2. /\ tx'[v] = IF v = w THEN u ELSE tx[v]
        /\ affiliate' = affiliate
    BY <2>1 DEF WorksTo, Base, Committed
  <2>3. CASE v # w
    BY <1>1, <2>2, <2>3, Same, StaysCurrent
  <2>4. CASE v = w
    <3>1. u.event = tx[w].event /\ u.stale = tx[w].stale /\ tx[w].event # Null
      BY <2>1 DEF WorksTo, Onward
    <3>2. CASE u.affiliate = tx[w].affiliate /\ u.facts = tx[w].facts
      BY <1>1, <2>2, <2>4, <3>1, <3>2 DEF Current, Affiliate
    <3>3. CASE u.affiliate \in Rows /\ (tx[w].facts = Affiliate(w) => u.facts = u.affiliate)
      BY <1>1, <2>2, <2>4, <3>1, <3>3, EventsAreReal DEF Current, Affiliate
    <3> QED
      BY <2>1, <3>2, <3>3 DEF WorksTo
  <2> QED
    BY <2>3, <2>4
<1>5. ASSUME NEW w \in Workers, Commit(w)
      PROVE  Current(v)'
  <2>1. EndsIn(w, "done") /\ affiliate' = Affiliate(w)
    BY <1>5, CommitEnds DEF Commit
  <2>2. tx[w].affiliate # Null => \A o \in Workers \ {w} : tx'[o].event # Null => tx'[o].stale
    BY <1>5, CommitEnds
  <2>3. CASE v = w
    BY <2>1, <2>3, IdleFacts DEF EndsIn, Current
  <2>4. CASE v # w
    <3>1. Aside(tx[v], tx'[v])
      BY <2>1, <2>4 DEF EndsIn
    <3>2. affiliate' = affiliate \/ (tx'[v].event # Null => tx'[v].stale)
      BY <2>1, <2>2, <2>4 DEF Affiliate
    <3> QED
      BY <1>1, <3>1, <3>2, StaysCurrent
  <2> QED
    BY <2>3, <2>4
<1>6. ASSUME NEW w \in Workers, Interrupt(w)
      PROVE  Current(v)'
  <2>1. EndsIn(w, "queued") /\ affiliate' = affiliate
    BY <1>6, InterruptEnds DEF Interrupt
  <2>2. CASE v = w
    BY <2>1, <2>2, IdleFacts DEF EndsIn, Current
  <2>3. CASE v # w
    BY <1>1, <2>1, <2>3, StaysCurrent DEF EndsIn
  <2> QED
    BY <2>2, <2>3
<1>7. CASE Edits
  BY <1>1, <1>7, EditRows, EditTells, StaysCurrent DEF Retold
<1>8. CASE UNCHANGED <<affiliate, runs, entries, emails, jobs, tx, met, redone>>
  BY <1>1, <1>8, Same, StaysCurrent
<1> QED
  BY <1>3, <1>4, <1>5, <1>6, <1>7, <1>8, Kinds

\* The facts of a job, which the rules go by, say what the affiliate's row says after each of its
\* deeds, unless a change of somebody else's was committed since they were read: addTag, removeTag
\* and suspend keep them in step, so that no tag is lost and no rule pays a suspended affiliate.
THEOREM FactsCurrentCorrect == Spec => []FactsCurrent
<1>1. Init => FactsCurrent
  BY IdleFacts DEF Init, FactsCurrent
<1>2. Base /\ FactsCurrent /\ [Next]_vars => FactsCurrent'
  BY CurrentStep
<1> QED
  BY BaseHolds, <1>1, <1>2, PTL DEF Spec
----------------------------------------------------------------------------
(* Once for an entity, or for the affiliate.                               *)

\* A rule that runs once for the entities K, no two of whose jobs overlapped.
Once(r, K) ==
  /\ r \in 1..Len(Rules) /\ Rules[r].once # "no"
  /\ \E x \in Entities : K = Kin(r, x)
  /\ ~Overlapped(EventsOf(K))

\* An open job of one of the entities.
OpenOn(w, K) == tx[w].event # Null /\ Entity(w) \in K

NoSuccess(r, K) == \A y \in K : runs[<<r, y>>].success = 0

NoFailure(r, K) == \A y \in K : runs[<<r, y>>].failed = 0

\* f counts at most one q over the entities.
Single(f, q, K) ==
  /\ \A x \in K : f[<<q, x>>] <= 1
  /\ \A x, y \in K : f[<<q, x>>] > 0 /\ f[<<q, y>>] > 0 => x = y

SingleSuccess(r, K) ==
  /\ \A x \in K : runs[<<r, x>>].success <= 1
  /\ \A x, y \in K : runs[<<r, x>>].success > 0 /\ runs[<<r, y>>].success > 0 => x = y

\* A job that has been at the rule is the first to be.
Fresh(r, K) ==
  \A w \in Workers : OpenOn(w, K) /\ Tried(tx[w], r) => NoSuccess(r, K)

\* What was booked for a deed was booked by a run on record.
Booked(r, K) ==
  NoFailure(r, K) =>
    \A q \in DeedsOf(r) :
      /\ Single(entries, q, K)
      /\ \A y \in K : entries[<<q, y>>] > 0 => runs[<<r, y>>].success > 0

\* What was sent was sent by a run on record, or by the job that is open.
Sent(r, K) ==
  NoFailure(r, K) /\ EventsOf(K) \cap redone = {} =>
    \A q \in DeedsOf(r) :
      /\ Single(emails, q, K)
      /\ \A y \in K : emails[<<q, y>>] > 0 =>
           \/ runs[<<r, y>>].success > 0
           \/ \E w \in Workers : tx[w].event # Null /\ Entity(w) = y /\ Did(tx[w], q[1], q[2])

OnceHolds(r, K) == Fresh(r, K) /\ SingleSuccess(r, K) /\ Booked(r, K) /\ Sent(r, K)

OnceInv == \A r, K : Once(r, K) => OnceHolds(r, K)

LEMMA KinFacts ==
  ASSUME NEW r, NEW K, Once(r, K)
  PROVE  /\ K \subseteq Entities /\ r \in 1..Len(Rules)
         /\ Rules[r].once = "affiliate" => K = Entities
         /\ Rules[r].once = "entity" => \E x \in Entities : K = {x}
         /\ Rules[r].once \in {"entity", "affiliate"}
<1>1. Rules[r].once \in {"entity", "affiliate"}
  BY RulesAreFinite DEF Once, RuleType
<1> QED
  BY <1>1 DEF Once, Kin

LEMMA PlacesOf ==
  ASSUME NEW r, NEW K, Once(r, K)
  PROVE  /\ \A y \in K : <<r, y>> \in Places
         /\ \A q \in DeedsOf(r), y \in K : <<q, y>> \in Deals
         /\ \A q \in DeedsOf(r) : q = <<r, q[2]>> /\ q[1] = r
<1>1. K \subseteq Entities /\ r \in 1..Len(Rules)
  BY KinFacts
<1> QED
  BY <1>1 DEF Places, Deals, DeedsOf

\* Two jobs of K that are open are one.
LEMMA OneOpen ==
  ASSUME Base, NEW r, NEW K, Once(r, K), NEW w \in Workers, NEW o \in Workers,
         OpenOn(w, K), OpenOn(o, K)
  PROVE  w = o
<1> SUFFICES ASSUME w # o
             PROVE  FALSE
  OBVIOUS
<1>1. /\ tx[w].event # tx[o].event /\ {tx[w].event, tx[o].event} \in met
      /\ tx[w].event \in Events /\ tx[o].event \in Events
  BY BaseParts DEF Apart, AllSound, TxOK, Running, OpenOn
<1>2. tx[w].event \in EventsOf(K) /\ tx[o].event \in EventsOf(K)
  BY <1>1 DEF EventsOf, OpenOn, Entity
<1> QED
  BY <1>1, <1>2 DEF Once, Overlapped

\* A rule that was decided on finds none of its runs.
LEMMA DecidedFresh ==
  ASSUME Base, NEW r, NEW K, Once(r, K), NEW w \in Workers, OpenOn(w, K), tx[w].rule = r, ~Done(w)
  PROVE  NoSuccess(r, K)
<1>1. /\ \A y \in K : <<r, y>> \in Places
      /\ runs \in [Places -> [success : Nat, failed : Nat]]
  BY PlacesOf DEF Base
<1>2. \A y \in K : runs[<<r, y>>].success \in Nat
  BY <1>1
<1>3. \A y \in K : ~RanFor(w, y)
  <2>1. CASE Rules[r].once = "entity"
    <3>1. ~RanFor(w, Entity(w))
      BY <2>1 DEF Done, Rule
    <3> QED
      BY <2>1, <3>1, KinFacts DEF OpenOn
  <2>2. CASE Rules[r].once = "affiliate"
    BY <2>2, KinFacts DEF Done, Rule
  <2> QED
    BY <2>1, <2>2, KinFacts
<1> QED
  BY <1>2, <1>3 DEF NoSuccess, RanFor

LEMMA OnceWork ==
  ASSUME Base, NEW w \in Workers, NEW u, WorksTo(w, u), NEW r, NEW K, Once(r, K), OnceHolds(r, K)
  PROVE  OnceHolds(r, K)'
<1>1. /\ tx'[w] = u /\ u.event = tx[w].event /\ tx[w].event # Null
      /\ \A o \in Workers \ {w} : tx'[o] = tx[o]
      /\ \A s, d : Did(tx[w], s, d) => Did(u, s, d)
      /\ TxOK(tx[w]) /\ emails \in [Deals -> Nat]
  BY DEF WorksTo, Onward, Base
<1>2. UNCHANGED <<runs, entries, redone>>
  BY DEF WorksTo, Committed
<1>3. \A o \in Workers : /\ tx'[o].event = tx[o].event
                         /\ \A s, d : Did(tx[o], s, d) => Did(tx'[o], s, d)
  BY <1>1
<1>4. \A s : Tried(u, s) => Tried(tx[w], s) \/ (tx[w].rule = s /\ ~Done(w))
  BY DEF WorksTo
<1>5. ASSUME NEW o \in Workers, OpenOn(o, K)', Tried(tx'[o], r)
      PROVE  NoSuccess(r, K)'
  <2>1. OpenOn(o, K)
    BY <1>3, <1>5 DEF OpenOn, Entity
  <2>2. CASE Tried(tx[o], r)
    BY <1>2, <2>1, <2>2 DEF OnceHolds, Fresh, NoSuccess
  <2>3. CASE ~Tried(tx[o], r)
    <3>1. o = w
      BY <1>1, <1>5, <2>3
    <3>2. tx[w].rule = r /\ ~Done(w)
      BY <1>1, <1>4, <1>5, <2>3, <3>1
    <3> QED
      BY <1>2, <2>1, <3>1, <3>2, DecidedFresh DEF NoSuccess
  <2> QED
    BY <2>2, <2>3
<1>6. Fresh(r, K)'
  BY <1>5 DEF Fresh
<1>7. SingleSuccess(r, K)' /\ Booked(r, K)'
  BY <1>2 DEF OnceHolds, SingleSuccess, Booked, NoFailure, Single
<1>8. ASSUME (NoFailure(r, K) /\ EventsOf(K) \cap redone = {})', NEW q \in DeedsOf(r)
      PROVE  /\ Single(emails', q, K)
             /\ \A y \in K : emails'[<<q, y>>] > 0 =>
                  \/ runs[<<r, y>>].success > 0
                  \/ \E o \in Workers : tx[o].event # Null /\ Entity(o) = y /\ Did(tx'[o], q[1], q[2])
  <2>1. /\ Single(emails, q, K)
        /\ \A y \in K : emails[<<q, y>>] > 0 =>
             \/ runs[<<r, y>>].success > 0
             \/ \E o \in Workers : tx[o].event # Null /\ Entity(o) = y /\ Did(tx[o], q[1], q[2])
    BY <1>2, <1>8 DEF OnceHolds, Sent, NoFailure, EventsOf
  <2>2. CASE \A y \in K : emails'[<<q, y>>] = emails[<<q, y>>]
    <3>1. Single(emails', q, K)
      BY <2>1, <2>2 DEF Single
    <3> QED
      BY <1>3, <2>1, <2>2, <3>1
  <2>3. CASE ~(\A y \in K : emails'[<<q, y>>] = emails[<<q, y>>])
    <3>1. /\ tx[w].at = "act" /\ Did(u, tx[w].rule, tx[w].deed)
          /\ emails' = [emails EXCEPT ![<<Place(w), Entity(w)>>] = @ + 1]
      BY <2>3 DEF WorksTo
    <3>2. q = Place(w) /\ Entity(w) \in K /\ <<q, Entity(w)>> \in Deals
      BY <1>1, <2>3, <3>1, PlacesOf
    <3>3. OpenOn(w, K) /\ tx[w].rule = r /\ q = <<r, tx[w].deed>>
      BY <1>1, <3>2, PlacesOf DEF OpenOn, Place
    <3>4. NoSuccess(r, K)
      BY <3>1, <3>3 DEF OnceHolds, Fresh, Tried
    <3>5. ~Did(tx[w], q[1], q[2])
      BY <1>1, <3>1, <3>3 DEF TxOK, Running, Did
    <3>6. \A y \in K : emails[<<q, y>>] = 0
      <4> SUFFICES ASSUME NEW y \in K, emails[<<q, y>>] # 0
                   PROVE  FALSE
        OBVIOUS
      <4>1. emails[<<q, y>>] > 0 /\ ~(runs[<<r, y>>].success > 0)
        BY <1>1, <3>4, PlacesOf DEF NoSuccess
      <4>2. PICK o \in Workers : tx[o].event # Null /\ Entity(o) = y /\ Did(tx[o], q[1], q[2])
        BY <2>1, <4>1
      <4>3. o = w
        BY <3>3, <4>2, OneOpen DEF OpenOn
      <4> QED
        BY <3>5, <4>2, <4>3
    <3>7. \A y \in K : emails'[<<q, y>>] = IF y = Entity(w) THEN 1 ELSE 0
      BY <1>1, <3>1, <3>2, <3>6, PlacesOf
    <3>8. Single(emails', q, K)
      BY <3>7 DEF Single
    <3>9. Did(tx'[w], q[1], q[2])
      BY <1>1, <3>1, <3>3
    <3> QED
      BY <1>1, <3>7, <3>8, <3>9
  <2> QED
    BY <2>2, <2>3
<1>9. \A o \in Workers : Entity(o)' = Entity(o)
  BY <1>3 DEF Entity
<1>10. Sent(r, K)'
  BY <1>2, <1>3, <1>8, <1>9 DEF Sent, Single
<1> QED
  BY <1>6, <1>7, <1>10 DEF OnceHolds
\* The jobs go on as they were, or are gone; w's may be new, at no rule.
LEMMA OnceAside ==
  ASSUME NEW r, NEW K, OnceHolds(r, K), UNCHANGED <<runs, entries, emails>>,
         redone \subseteq redone',
         \A o \in Workers :
           \/ /\ tx'[o].event = tx[o].event
              /\ \A s : Tried(tx'[o], s) => Tried(tx[o], s)
              /\ \A s, d : Did(tx[o], s, d) => Did(tx'[o], s, d)
           \/ /\ \A s : ~Tried(tx'[o], s)
              /\ \/ tx[o].event = Null
                 \/ EventsOf(K) \cap redone' # {}
                 \/ ~OpenOn(o, K)
  PROVE  OnceHolds(r, K)'
<1>1. Fresh(r, K)'
  <2> SUFFICES ASSUME NEW o \in Workers, OpenOn(o, K)', Tried(tx'[o], r)
               PROVE  NoSuccess(r, K)
    BY DEF Fresh, NoSuccess
  <2>1. OpenOn(o, K) /\ Tried(tx[o], r)
    BY DEF OpenOn, Entity
  <2> QED
    BY <2>1 DEF OnceHolds, Fresh
<1>2. SingleSuccess(r, K)' /\ Booked(r, K)'
  BY DEF OnceHolds, SingleSuccess, Booked, NoFailure, Single
<1>3. ASSUME (NoFailure(r, K) /\ EventsOf(K) \cap redone = {})', NEW q \in DeedsOf(r)
      PROVE  /\ Single(emails, q, K)
             /\ \A y \in K : emails[<<q, y>>] > 0 =>
                  \/ runs[<<r, y>>].success > 0
                  \/ \E o \in Workers : tx'[o].event # Null /\ Entity(o)' = y
                                        /\ Did(tx'[o], q[1], q[2])
  <2>1. /\ Single(emails, q, K)
        /\ \A y \in K : emails[<<q, y>>] > 0 =>
             \/ runs[<<r, y>>].success > 0
             \/ \E o \in Workers : tx[o].event # Null /\ Entity(o) = y /\ Did(tx[o], q[1], q[2])
    BY <1>3 DEF OnceHolds, Sent, NoFailure, EventsOf
  <2>2. ASSUME NEW y \in K, NEW o \in Workers,
               tx[o].event # Null, Entity(o) = y, Did(tx[o], q[1], q[2])
        PROVE  tx'[o].event # Null /\ Entity(o)' = y /\ Did(tx'[o], q[1], q[2])
    <3>1. OpenOn(o, K)
      BY <2>2 DEF OpenOn
    <3>2. EventsOf(K) \cap redone' = {}
      BY <1>3 DEF EventsOf
    <3> QED
      BY <2>2, <3>1, <3>2 DEF Entity
  <2> QED
    BY <2>1, <2>2
<1>4. Sent(r, K)'
  BY <1>3 DEF Sent, Single
<1> QED
  BY <1>1, <1>2, <1>4 DEF OnceHolds

\* The runs that a commit records of a rule and a job's entity.
LEMMA RecordedRuns ==
  ASSUME Base, NEW w \in Workers, Recorded(w), NEW r, NEW K, Once(r, K), NEW y \in K
  PROVE  /\ runs[<<r, y>>].success \in Nat /\ runs[<<r, y>>].failed \in Nat
         /\ y # Entity(w) => runs'[<<r, y>>] = runs[<<r, y>>]
         /\ y = Entity(w) =>
              /\ runs'[<<r, y>>].success =
                   runs[<<r, y>>].success + (IF <<r, "success">> \in tx[w].runs THEN 1 ELSE 0)
              /\ runs'[<<r, y>>].failed =
                   runs[<<r, y>>].failed + (IF <<r, "failed">> \in tx[w].runs THEN 1 ELSE 0)
<1>1. <<r, y>> \in Places
  BY PlacesOf
<1>2. runs[<<r, y>>] \in [success : Nat, failed : Nat]
  BY <1>1 DEF Base
<1> QED
  BY <1>1, <1>2 DEF Recorded

LEMMA OnceCommit ==
  ASSUME Base, NEW w \in Workers, Commit(w), NEW r, NEW K, Once(r, K), OnceHolds(r, K)
  PROVE  OnceHolds(r, K)'
<1>1. /\ EndsIn(w, "done") /\ Recorded(w) /\ emails' = emails /\ redone' = redone
      /\ tx[w].at = "commit"
  BY CommitEnds, CommitRows DEF Commit, History, At
<1>2. /\ tx'[w] = Idle /\ tx[w].event # Null
      /\ \A o \in Workers \ {w} : Aside(tx[o], tx'[o])
  BY <1>1 DEF EndsIn
<1>3. /\ \A y \in K : /\ runs[<<r, y>>].success \in Nat /\ runs[<<r, y>>].failed \in Nat
                      /\ y # Entity(w) => runs'[<<r, y>>] = runs[<<r, y>>]
      /\ Entity(w) \in K =>
           /\ runs'[<<r, Entity(w)>>].success = runs[<<r, Entity(w)>>].success
                + (IF <<r, "success">> \in tx[w].runs THEN 1 ELSE 0)
           /\ runs'[<<r, Entity(w)>>].failed = runs[<<r, Entity(w)>>].failed
                + (IF <<r, "failed">> \in tx[w].runs THEN 1 ELSE 0)
  BY <1>1, RecordedRuns
<1>4. TxOK(tx[w]) /\ entries \in [Deals -> Nat] /\ emails \in [Deals -> Nat]
  BY DEF Base
<1>5. /\ \A q \in DeedsOf(r), y \in K :
           /\ entries[<<q, y>>] \in Nat
           /\ entries'[<<q, y>>] = IF y = Entity(w) /\ q \in tx[w].entries
                                   THEN entries[<<q, y>>] + 1 ELSE entries[<<q, y>>]
  BY <1>1, <1>4, PlacesOf DEF Recorded
<1>6. \A o \in Workers \ {w} : /\ tx'[o].event = tx[o].event
                               /\ \A s : Tried(tx'[o], s) <=> Tried(tx[o], s)
                               /\ \A s, d : Did(tx'[o], s, d) <=> Did(tx[o], s, d)
  BY <1>2 DEF Aside
\* Either nothing of K is recorded, or w has the only job of K.
<1>7. CASE Entity(w) \notin K
  <2>1. \A y \in K : runs'[<<r, y>>] = runs[<<r, y>>]
    BY <1>3, <1>7
  <2>2. \A q \in DeedsOf(r), y \in K : entries'[<<q, y>>] = entries[<<q, y>>]
    BY <1>5, <1>7
  <2>3. ASSUME NEW o \in Workers, OpenOn(o, K)', Tried(tx'[o], r)
        PROVE  NoSuccess(r, K)'
    <3>1. o # w
      BY <1>2, <2>3, IdleFacts
    <3>2. OpenOn(o, K) /\ Tried(tx[o], r)
      BY <1>6, <2>3, <3>1 DEF OpenOn, Entity
    <3>3. NoSuccess(r, K)
      BY <3>2 DEF OnceHolds, Fresh
    <3> QED
      BY <2>1, <3>3 DEF NoSuccess
  <2>4. Fresh(r, K)'
    BY <2>3 DEF Fresh
  <2>5. SingleSuccess(r, K)'
    BY <2>1 DEF OnceHolds, SingleSuccess
  <2>6. NoFailure(r, K)' => NoFailure(r, K)
    BY <2>1 DEF NoFailure
  <2>7. Booked(r, K)'
    <3> SUFFICES ASSUME NoFailure(r, K)', NEW q \in DeedsOf(r)
                 PROVE  /\ Single(entries', q, K)
                        /\ \A y \in K : entries'[<<q, y>>] > 0 => runs'[<<r, y>>].success > 0
      BY DEF Booked, Single
    <3>1. /\ Single(entries, q, K)
          /\ \A y \in K : entries[<<q, y>>] > 0 => runs[<<r, y>>].success > 0
      BY <2>6 DEF OnceHolds, Booked
    <3>2. Single(entries', q, K)
      BY <2>2, <3>1 DEF Single
    <3> QED
      BY <2>1, <2>2, <3>1, <3>2
  <2>8. Sent(r, K)'
    <3> SUFFICES ASSUME NoFailure(r, K)', EventsOf(K) \cap redone = {}, NEW q \in DeedsOf(r)
                 PROVE  /\ Single(emails, q, K)
                        /\ \A y \in K : emails[<<q, y>>] > 0 =>
                             \/ runs'[<<r, y>>].success > 0
                             \/ \E o \in Workers : tx'[o].event # Null /\ Entity(o)' = y
                                                   /\ Did(tx'[o], q[1], q[2])
      BY <1>1 DEF Sent, Single, EventsOf
    <3>1. /\ Single(emails, q, K)
          /\ \A y \in K : emails[<<q, y>>] > 0 =>
               \/ runs[<<r, y>>].success > 0
               \/ \E o \in Workers : tx[o].event # Null /\ Entity(o) = y
                                     /\ Did(tx[o], q[1], q[2])
      BY <2>6 DEF OnceHolds, Sent
    <3>2. ASSUME NEW y \in K, NEW o \in Workers,
                 tx[o].event # Null, Entity(o) = y, Did(tx[o], q[1], q[2])
          PROVE  tx'[o].event # Null /\ Entity(o)' = y /\ Did(tx'[o], q[1], q[2])
      <4>1. o # w
        BY <1>7, <3>2
      <4> QED
        BY <1>6, <3>2, <4>1 DEF Entity
    <3> QED
      BY <2>1, <3>1, <3>2
  <2> QED
    BY <2>4, <2>5, <2>7, <2>8 DEF OnceHolds
<1>8. CASE Entity(w) \in K
  <2>1. OpenOn(w, K) /\ \A o \in Workers : OpenOn(o, K) => o = w
    BY <1>2, <1>8, OneOpen DEF OpenOn
  <2>2. <<r, "success">> \in tx[w].runs => NoSuccess(r, K)
    BY <2>1 DEF OnceHolds, Fresh, Tried
  <2>3. Fresh(r, K)'
    <3> SUFFICES ASSUME NEW o \in Workers, OpenOn(o, K)', Tried(tx'[o], r)
                 PROVE  FALSE
      BY DEF Fresh
    <3>1. o # w
      BY <1>2, IdleFacts
    <3>2. OpenOn(o, K)
      BY <1>6, <3>1 DEF OpenOn, Entity
    <3> QED
      BY <2>1, <3>1, <3>2
  <2>4. SingleSuccess(r, K)'
    <3>1. CASE <<r, "success">> \in tx[w].runs
      <4>1. \A y \in K : runs'[<<r, y>>].success = IF y = Entity(w) THEN 1 ELSE 0
        BY <1>3, <2>2, <3>1 DEF NoSuccess
      <4> QED
        BY <4>1 DEF SingleSuccess
    <3>2. CASE <<r, "success">> \notin tx[w].runs
      <4>1. \A y \in K : runs'[<<r, y>>].success = runs[<<r, y>>].success
        BY <1>3, <3>2
      <4> QED
        BY <4>1 DEF OnceHolds, SingleSuccess
    <3> QED
      BY <3>1, <3>2
  <2>5. \A y \in K : runs[<<r, y>>].success > 0 => runs'[<<r, y>>].success > 0
    BY <1>3
  <2>6. NoFailure(r, K)' => NoFailure(r, K) /\ <<r, "failed">> \notin tx[w].runs
    BY <1>3, <1>8 DEF NoFailure
  <2>7. Booked(r, K)'
    <3> SUFFICES ASSUME NoFailure(r, K)', NEW q \in DeedsOf(r)
                 PROVE  /\ Single(entries', q, K)
                        /\ \A y \in K : entries'[<<q, y>>] > 0 => runs'[<<r, y>>].success > 0
      BY DEF Booked, Single
    <3>1. /\ Single(entries, q, K)
          /\ \A y \in K : entries[<<q, y>>] > 0 => runs[<<r, y>>].success > 0
      BY <2>6 DEF OnceHolds, Booked
    <3>2. CASE q \in tx[w].entries
      <4>1. Did(tx[w], r, q[2])
        BY <1>2, <1>4, <3>2, PlacesOf DEF TxOK, Running
      <4>2. <<r, "success">> \in tx[w].runs
        BY <1>1, <2>6, <4>1 DEF Did
      <4>3. \A y \in K : entries[<<q, y>>] = 0
        <5> SUFFICES ASSUME NEW y \in K, entries[<<q, y>>] # 0
                     PROVE  FALSE
          OBVIOUS
        <5>1. entries[<<q, y>>] > 0
          BY <1>5
        <5>2. runs[<<r, y>>].success > 0 /\ runs[<<r, y>>].success = 0
          BY <2>2, <3>1, <4>2, <5>1 DEF NoSuccess
        <5> QED
          BY <5>2
      <4>4. \A y \in K : entries'[<<q, y>>] = IF y = Entity(w) THEN 1 ELSE 0
        BY <1>5, <3>2, <4>3
      <4>5. runs'[<<r, Entity(w)>>].success > 0
        BY <1>3, <1>8, <4>2
      <4>6. Single(entries', q, K)
        BY <4>4 DEF Single
      <4> QED
        BY <4>4, <4>5, <4>6
    <3>3. CASE q \notin tx[w].entries
      <4>1. \A y \in K : entries'[<<q, y>>] = entries[<<q, y>>]
        BY <1>5, <3>3
      <4>2. Single(entries', q, K)
        BY <3>1, <4>1 DEF Single
      <4> QED
        BY <2>5, <3>1, <4>1, <4>2
    <3> QED
      BY <3>2, <3>3
  <2>8. Sent(r, K)'
    <3> SUFFICES ASSUME NoFailure(r, K)', EventsOf(K) \cap redone = {}, NEW q \in DeedsOf(r)
                 PROVE  /\ Single(emails, q, K)
                        /\ \A y \in K : emails[<<q, y>>] > 0 => runs'[<<r, y>>].success > 0
      BY <1>1 DEF Sent, Single, EventsOf
    <3>1. /\ Single(emails, q, K)
          /\ \A y \in K : emails[<<q, y>>] > 0 =>
               \/ runs[<<r, y>>].success > 0
               \/ \E o \in Workers : tx[o].event # Null /\ Entity(o) = y
                                     /\ Did(tx[o], q[1], q[2])
      BY <2>6 DEF OnceHolds, Sent
    <3>2. ASSUME NEW y \in K, NEW o \in Workers,
                 tx[o].event # Null, Entity(o) = y, Did(tx[o], q[1], q[2])
          PROVE  runs'[<<r, y>>].success > 0
      <4>1. o = w /\ q[1] = r
        BY <2>1, <3>2, PlacesOf DEF OpenOn
      <4>2. <<r, "success">> \in tx[w].runs
        BY <1>1, <2>6, <3>2, <4>1 DEF Did
      <4> QED
        BY <1>3, <1>8, <3>2, <4>1, <4>2
    <3> QED
      BY <2>5, <3>1, <3>2
  <2> QED
    BY <2>3, <2>4, <2>7, <2>8 DEF OnceHolds
<1> QED
  BY <1>7, <1>8

LEMMA OnceStart == Init => OnceInv
<1> SUFFICES ASSUME Init, NEW r, NEW K, Once(r, K)
             PROVE  OnceHolds(r, K)
  BY DEF OnceInv
<1>1. \A w \in Workers : ~Tried(tx[w], r)
  BY IdleFacts DEF Init
<1>2. \A y \in K : runs[<<r, y>>].success = 0
  BY PlacesOf DEF Init
<1>3. \A q \in DeedsOf(r), y \in K : entries[<<q, y>>] = 0 /\ emails[<<q, y>>] = 0
  BY PlacesOf DEF Init
<1>4. Fresh(r, K)
  BY <1>1 DEF Fresh
<1>5. SingleSuccess(r, K)
  BY <1>2 DEF SingleSuccess
<1>6. Booked(r, K) /\ Sent(r, K)
  BY <1>3 DEF Booked, Sent, Single
<1> QED
  BY <1>4, <1>5, <1>6 DEF OnceHolds

LEMMA OnceStep ==
  ASSUME Base, OnceInv, [Next]_vars
  PROVE  OnceInv'
<1> SUFFICES ASSUME NEW r, NEW K, Once(r, K)'
             PROVE  OnceHolds(r, K)'
  BY DEF OnceInv
<1>1. met \subseteq met'
  <2>1. \A w \in Workers, e \in Events : RunRulesForEvent(w, e) => met \subseteq met'
    BY DEF RunRulesForEvent
  <2>2. \A w \in Workers : Works(w) => met' = met
    BY WorkLeads DEF WorksTo
  <2>3. \A w \in Workers : Commit(w) \/ Interrupt(w) => met' = met
    BY DEF Commit, History, Interrupt
  <2>4. Edits => met' = met
    BY EditRows
  <2> QED
    BY <2>1, <2>2, <2>3, <2>4, Kinds
<1>2. Once(r, K)
  BY <1>1 DEF Once, Overlapped, EventsOf, Kin
<1>3. OnceHolds(r, K)
  BY <1>2 DEF OnceInv
<1>4. \A o \in Workers : TxOK(tx[o])
  BY DEF Base
<1>5. ASSUME NEW w \in Workers, NEW e \in Events, RunRulesForEvent(w, e)
      PROVE  OnceHolds(r, K)'
  <2> DEFINE u == NextRule([Idle EXCEPT !.event = e, !.facts = affiliate])
  <2>1. \A s : ~Tried(u, s)
    BY Begun DEF Base
  <2> HIDE DEF u
  <2>2. /\ tx' = [tx EXCEPT ![w] = u] /\ UNCHANGED <<runs, entries, emails, redone>>
        /\ tx[w].at = "idle"
    BY <1>5 DEF RunRulesForEvent, At, u
  <2>3. tx[w].event = Null
    BY <1>4, <2>2 DEF TxOK, Running
  <2>4. \A o \in Workers : tx'[o] = IF o = w THEN u ELSE tx[o]
    BY <2>2 DEF Base
  <2> QED
    BY <1>3, <2>1, <2>2, <2>3, <2>4, OnceAside
<1>6. ASSUME NEW w \in Workers, Works(w)
      PROVE  OnceHolds(r, K)'
  BY <1>2, <1>3, <1>6, WorkLeads, OnceWork
<1>7. ASSUME NEW w \in Workers, Commit(w)
      PROVE  OnceHolds(r, K)'
  BY <1>2, <1>3, <1>7, OnceCommit
<1>8. ASSUME NEW w \in Workers, Interrupt(w)
      PROVE  OnceHolds(r, K)'
  <2>1. /\ UNCHANGED <<runs, entries, emails>> /\ redone' = redone \cup {tx[w].event}
        /\ tx[w].event # Null /\ tx' = [tx EXCEPT ![w] = Idle]
    BY <1>8 DEF Interrupt
  <2>2. \A o \in Workers : tx'[o] = IF o = w THEN Idle ELSE tx[o]
    BY <2>1 DEF Base
  <2>3. tx[w].event \in Events
    BY <1>4, <2>1 DEF TxOK, Running
  <2>4. OpenOn(w, K) => EventsOf(K) \cap redone' # {}
    BY <2>1, <2>3 DEF OpenOn, Entity, EventsOf
  <2> QED
    BY <1>3, <2>1, <2>2, <2>4, IdleFacts, OnceAside
<1>9. CASE Edits
  <2>1. Retold /\ UNCHANGED <<runs, entries, emails, redone>>
    BY <1>9, EditRows, EditTells
  <2>2. \A o \in Workers : /\ tx'[o].event = tx[o].event
                           /\ \A s : Tried(tx'[o], s) <=> Tried(tx[o], s)
                           /\ \A s, d : Did(tx'[o], s, d) <=> Did(tx[o], s, d)
    BY <2>1 DEF Retold, Aside
  <2> QED
    BY <1>3, <2>1, <2>2, OnceAside
<1>10. CASE UNCHANGED <<affiliate, runs, entries, emails, jobs, tx, met, redone>>
  BY <1>3, <1>10, OnceAside
<1> QED
  BY <1>5, <1>6, <1>7, <1>8, <1>9, <1>10, Kinds

\* However many events there are about an entity, or about an affiliate's, a rule that runs once for
\* it succeeds once, and books and emails what each of its deeds does once: when no two of their jobs
\* overlapped, no run of the rule failed half way, and, for the emails, no job was interrupted.
THEOREM ActsOnceCorrect == Spec => []ActsOnce
<1>1. Base /\ OnceInv => ActsOnce
  <2> SUFFICES ASSUME Base, OnceInv, NEW r \in 1..Len(Rules), NEW x \in Entities,
                      Rules[r].once # "no", ~Overlapped(EventsOf(Kin(r, x)))
               PROVE  \/ /\ AtMostOnce([p \in Places |-> runs[p].success], r, Kin(r, x))
                         /\ \/ \E y \in Kin(r, x) : runs[<<r, y>>].failed > 0
                            \/ /\ \A q \in DeedsOf(r) : AtMostOnce(entries, q, Kin(r, x))
                               /\ \/ EventsOf(Kin(r, x)) \cap redone # {}
                                  \/ \A q \in DeedsOf(r) : AtMostOnce(emails, q, Kin(r, x))
    BY DEF ActsOnce
  <2> DEFINE K == Kin(r, x)
  <2>1. Once(r, K)
    BY DEF Once
  <2> HIDE DEF K
  <2>2. OnceHolds(r, K)
    BY <2>1 DEF OnceInv
  <2>3. \A y \in K : <<r, y>> \in Places /\ runs[<<r, y>>] \in [success : Nat, failed : Nat]
    BY <2>1, PlacesOf DEF Base
  <2>4. AtMostOnce([p \in Places |-> runs[p].success], r, K)
    BY <2>2, <2>3 DEF AtMostOnce, OnceHolds, SingleSuccess
  <2>5. (\E y \in K : runs[<<r, y>>].failed > 0) \/ NoFailure(r, K)
    BY <2>3 DEF NoFailure
  <2>6. NoFailure(r, K) => \A q \in DeedsOf(r) : AtMostOnce(entries, q, K)
    BY <2>2 DEF OnceHolds, Booked, Single, AtMostOnce
  <2>7. NoFailure(r, K) /\ EventsOf(K) \cap redone = {} =>
          \A q \in DeedsOf(r) : AtMostOnce(emails, q, K)
    BY <2>2 DEF OnceHolds, Sent, Single, AtMostOnce
  <2> QED
    BY <2>4, <2>5, <2>6, <2>7 DEF K
<1>2. Base /\ OnceInv /\ [Next]_vars => OnceInv'
  BY OnceStep
<1> QED
  BY BaseHolds, OnceStart, <1>1, <1>2, PTL DEF Spec

=============================================================================
