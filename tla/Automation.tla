----------------------------- MODULE Automation -----------------------------
(***************************************************************************)
(* The merchant's rules, which a worker runs for every stored event.       *)
(*                                                                         *)
(* The job of an event is one transaction.  It reads what the rules may    *)
(* ask for once, then takes the rules one by one and the actions of each   *)
(* in order; an action that fails is rolled back alone, ends its rule and  *)
(* leaves what the actions before it did.  A job that is interrupted is    *)
(* rolled back and taken again, but for the emails it sent.  Several       *)
(* workers may run jobs at once, and people edit the same rows meanwhile.  *)
(*                                                                         *)
(* One affiliate and one trigger; events that a rule causes carry the      *)
(* automation's name and start no rules, so they are left out.             *)
(***************************************************************************)
EXTENDS Naturals, Sequences

CONSTANTS
  Workers,
  Events,    \* of the trigger
  Entities,  \* the commissions that events are about
  EntityOf,  \* the one that each event is about
  Rules,     \* the enabled rules, see RuleType
  Tags,
  MaxCalls,  \* bound: edits by people and interrupted jobs
  Null

Deeds == {"adjust", "approve", "suspend", "email"} \cup ({"add", "remove"} \X Tags)

\* needs is a tag the affiliate must have, once what a rule runs once for.
RuleType ==
  [does : Seq(Deeds) \ {<<>>}, needs : Tags \cup {Null}, once : {"entity", "affiliate", "no"}]

\* The affiliate's row.
Rows == [status : {"active", "suspended"}, tags : SUBSET Tags]

ASSUME AutomationConstants ==
  /\ EntityOf \in [Events -> Entities]
  /\ Rules \in Seq(RuleType)
  /\ MaxCalls \in Nat
  /\ Null \notin Tags \cup Events \cup Rows

VARIABLES
  affiliate,  \* committed: status and tags
  standing,   \* committed: the status of each commission
  runs,       \* committed: run records of each rule and entity, by outcome
  entries,    \* committed: balance entries of each deed of a rule and each entity
  emails,     \* emails sent for each deed of a rule and each entity, beyond recall
  jobs,       \* the job of each event
  tx,         \* each worker's open transaction
  calls,      \* history: edits by people and interrupted jobs
  met,        \* history: pairs of events whose jobs were open at the same time
  redone      \* history: events whose job was interrupted

vars == <<affiliate, standing, runs, entries, emails, jobs, tx, calls, met, redone>>

Places == (1..Len(Rules)) \X Entities

\* The deeds of a rule, by their place in it.
DeedsOf(r) == {r} \X (1..Len(Rules[r].does))

Deals == (UNION {DeedsOf(r) : r \in 1..Len(Rules)}) \X Entities

Idle ==
  [event |-> Null, at |-> "idle", rule |-> 0, deed |-> 0, facts |-> Null, stale |-> FALSE,
   affiliate |-> Null, approved |-> FALSE, runs |-> {}, entries |-> {}]

Init ==
  /\ affiliate = [status |-> "active", tags |-> {}]
  /\ standing = [x \in Entities |-> "pending"]
  /\ runs = [p \in Places |-> [success |-> 0, failed |-> 0]]
  /\ entries = [p \in Deals |-> 0]
  /\ emails = [p \in Deals |-> 0]
  /\ jobs = [e \in Events |-> "queued"]
  /\ tx = [w \in Workers |-> Idle]
  /\ calls = 0
  /\ met = {}
  /\ redone = {}

----------------------------------------------------------------------------
(* Transactions.                                                           *)

At(w, label) == tx[w].at = label

\* The rows as a statement of w sees them.
Affiliate(w) == IF tx[w].affiliate = Null THEN affiliate ELSE tx[w].affiliate
Entity(w) == EntityOf[tx[w].event]
Standing(w) == IF tx[w].approved THEN "approved" ELSE standing[Entity(w)]

\* None of the others has written the row and not committed.
AffiliateFree(others) == \A o \in others : tx[o].affiliate = Null
StandingFree(others, x) ==
  \A o \in others : tx[o].event # Null /\ tx[o].approved => EntityOf[tx[o].event] # x

\* The deed the job is at.
Place(w) == <<tx[w].rule, tx[w].deed>>
Rule(w) == Rules[tx[w].rule]

Committed == <<affiliate, standing, runs, entries, jobs>>
History == <<calls, met, redone>>

\* The next rule, or the end of the job.
NextRule(t) ==
  IF t.rule < Len(Rules) THEN [t EXCEPT !.at = "decide", !.rule = @ + 1, !.deed = 0]
  ELSE [t EXCEPT !.at = "commit"]

Step(w, t) ==
  /\ tx' = [tx EXCEPT ![w] = t]
  /\ UNCHANGED <<Committed, emails, History>>

\* Others that are open hold facts of before.
Outdated(others, t) == [w \in Workers |-> IF w \in others /\ t[w].event # Null
                                          THEN [t[w] EXCEPT !.stale = TRUE] ELSE t[w]]

----------------------------------------------------------------------------
(* A job.                                                                  *)

\* buildFacts.
RunRulesForEvent(w, e) ==
  /\ At(w, "idle")
  /\ jobs[e] = "queued"
  /\ jobs' = [jobs EXCEPT ![e] = "running"]
  /\ tx' = [tx EXCEPT ![w] = NextRule([Idle EXCEPT !.event = e, !.facts = affiliate])]
  /\ met' = met \cup {{e, tx[o].event} : o \in {o \in Workers : tx[o].event # Null}}
  /\ UNCHANGED <<affiliate, standing, runs, entries, emails, calls, redone>>

\* Mutant: a rule is never found to have run.
NeverRan(w, x) == FALSE

\* A success of the rule the job is at, committed; a job runs each rule once.
RanFor(w, x) == runs[<<tx[w].rule, x>>].success > 0

Done(w) ==
  CASE Rule(w).once = "entity"    -> RanFor(w, Entity(w))
    [] Rule(w).once = "affiliate" -> \E x \in Entities : RanFor(w, x)
    [] OTHER                      -> FALSE

Matches(w) == Rule(w).needs = Null \/ Rule(w).needs \in tx[w].facts.tags

\* The stop conditions and the conditions of a rule.
Decide(w) ==
  /\ At(w, "decide")
  /\ IF tx[w].facts.status # "suspended" /\ ~Done(w) /\ Matches(w)
     THEN Step(w, [tx[w] EXCEPT !.at = "act", !.deed = 1])
     ELSE Step(w, NextRule(tx[w]))

Deed(w) == Rule(w).does[tx[w].deed]

\* The rule goes on after a deed, or is recorded as a success.
After(w, t) ==
  IF t.deed < Len(Rule(w).does) THEN [t EXCEPT !.deed = @ + 1]
  ELSE NextRule([t EXCEPT !.runs = @ \cup {<<t.rule, "success">>}])

\* The deed throws: only its own savepoint is rolled back.
Failed(w) == NextRule([tx[w] EXCEPT !.runs = @ \cup {<<tx[w].rule, "failed">>}])

AdjustBalance(w) ==
  /\ At(w, "act") /\ Deed(w) = "adjust"
  /\ Step(w, After(w, [tx[w] EXCEPT !.entries = @ \cup {Place(w)}]))

ApproveCommission(w) ==
  /\ At(w, "act") /\ Deed(w) = "approve"
  /\ IF Standing(w) = "pending"
     THEN /\ StandingFree(Workers \ {w}, Entity(w))
          /\ Step(w, After(w, [tx[w] EXCEPT !.approved = TRUE]))
     ELSE Step(w, Failed(w))

\* The tags are written as a whole, from the facts.
Tagged(w) ==
  IF Deed(w)[1] = "add" THEN tx[w].facts.tags \cup {Deed(w)[2]} ELSE tx[w].facts.tags \ {Deed(w)[2]}

ChangeTag(w) ==
  /\ At(w, "act") /\ Deed(w) \in {"add", "remove"} \X Tags
  /\ AffiliateFree(Workers \ {w})
  /\ Step(w, After(w, [tx[w] EXCEPT !.affiliate = [Affiliate(w) EXCEPT !.tags = Tagged(w)],
                                    !.facts.tags = Tagged(w)]))

\* Mutant: the facts still say that the affiliate is active.
SuspendQuietly(w) ==
  /\ At(w, "act") /\ Deed(w) = "suspend"
  /\ IF Affiliate(w).status = "active"
     THEN /\ AffiliateFree(Workers \ {w})
          /\ Step(w, After(w, [tx[w] EXCEPT
               !.affiliate = [Affiliate(w) EXCEPT !.status = "suspended"]]))
     ELSE Step(w, Failed(w))

SuspendAffiliate(w) ==
  /\ At(w, "act") /\ Deed(w) = "suspend"
  /\ IF Affiliate(w).status = "active"
     THEN /\ AffiliateFree(Workers \ {w})
          /\ Step(w, After(w, [tx[w] EXCEPT
               !.affiliate = [Affiliate(w) EXCEPT !.status = "suspended"],
               !.facts.status = "suspended"]))
     ELSE Step(w, Failed(w))

\* A provider's refusal is logged and does not fail the rule.
SendEmail(w) ==
  /\ At(w, "act") /\ Deed(w) = "email"
  /\ emails' = [emails EXCEPT ![<<Place(w), Entity(w)>>] = @ + 1]
  /\ tx' = [tx EXCEPT ![w] = After(w, tx[w])]
  /\ UNCHANGED <<Committed, History>>

Commit(w) ==
  /\ At(w, "commit")
  /\ LET x == Entity(w)
         n(r, outcome) == IF <<r, outcome>> \in tx[w].runs THEN 1 ELSE 0
     IN  /\ runs' = [p \in Places |-> IF p[2] # x THEN runs[p] ELSE
                       [success |-> runs[p].success + n(p[1], "success"),
                        failed  |-> runs[p].failed + n(p[1], "failed")]]
         /\ entries' = [p \in Deals |->
                          IF p[2] = x /\ p[1] \in tx[w].entries THEN entries[p] + 1 ELSE entries[p]]
         /\ standing' = [standing EXCEPT ![x] = Standing(w)]
  /\ affiliate' = Affiliate(w)
  /\ jobs' = [jobs EXCEPT ![tx[w].event] = "done"]
  /\ LET others == IF tx[w].affiliate = Null THEN {} ELSE Workers \ {w}
     IN  tx' = Outdated(others, [tx EXCEPT ![w] = Idle])
  /\ UNCHANGED <<emails, History>>

Called == calls < MaxCalls /\ calls' = calls + 1

\* The job is rolled back and taken again.
Interrupt(w) ==
  /\ tx[w].event # Null
  /\ Called
  /\ jobs' = [jobs EXCEPT ![tx[w].event] = "queued"]
  /\ redone' = redone \cup {tx[w].event}
  /\ tx' = [tx EXCEPT ![w] = Idle]
  /\ UNCHANGED <<affiliate, standing, runs, entries, emails, met>>

----------------------------------------------------------------------------
(* People, a transaction each.                                             *)

Edit(row) ==
  /\ AffiliateFree(Workers)
  /\ Called
  /\ affiliate' = row
  /\ tx' = Outdated(Workers, tx)
  /\ UNCHANGED <<standing, runs, entries, emails, jobs, met, redone>>

UpdateTags(tags) == tags # affiliate.tags /\ Edit([affiliate EXCEPT !.tags = tags])

SetStatus(status) == status # affiliate.status /\ Edit([affiliate EXCEPT !.status = status])

\* A commission is approved by hand, or ended by a refund or a cancellation.
ChangeCommission(x, to) ==
  /\ to = "approved" => standing[x] = "pending"
  /\ to = "reversed" => standing[x] \in {"pending", "approved"}
  /\ StandingFree(Workers, x)
  /\ Called
  /\ standing' = [standing EXCEPT ![x] = to]
  /\ UNCHANGED <<affiliate, runs, entries, emails, jobs, tx, met, redone>>

----------------------------------------------------------------------------
Next ==
  \/ \E w \in Workers, e \in Events : RunRulesForEvent(w, e)
  \/ \E w \in Workers : Decide(w)
  \/ \E w \in Workers : AdjustBalance(w)
  \/ \E w \in Workers : ApproveCommission(w)
  \/ \E w \in Workers : ChangeTag(w)
  \/ \E w \in Workers : SuspendAffiliate(w)
  \/ \E w \in Workers : SendEmail(w)
  \/ \E w \in Workers : Commit(w)
  \/ \E w \in Workers : Interrupt(w)
  \/ \E tags \in SUBSET Tags : UpdateTags(tags)
  \/ \E status \in {"active", "suspended"} : SetStatus(status)
  \/ \E x \in Entities, to \in {"approved", "reversed"} : ChangeCommission(x, to)

Spec == Init /\ [][Next]_vars

----------------------------------------------------------------------------
(* Properties.                                                             *)

\* The entities a rule runs once for together with x.
Kin(r, x) == IF Rules[r].once = "affiliate" THEN Entities ELSE {x}

EventsOf(X) == {e \in Events : EntityOf[e] \in X}

Overlapped(E) == \E e, f \in E : e # f /\ {e, f} \in met

AtMostOnce(f, r, X) ==
  /\ \A x \in X : f[<<r, x>>] <= 1
  /\ \A x, y \in X : f[<<r, x>>] > 0 /\ f[<<r, y>>] > 0 => x = y

\* A rule that runs once for an entity, or for the affiliate, succeeds once, and each of its deeds
\* adjusts the balance once or emails once, however many events there are: unless two of their jobs
\* overlapped, which looked for an earlier run before either was recorded, or a run failed half way,
\* which leaves its first deeds and does not count as a run; and an interrupted job emails again.
ActsOnce ==
  \A r \in 1..Len(Rules), x \in Entities :
    LET kin == Kin(r, x) IN
      \/ Rules[r].once = "no"
      \/ Overlapped(EventsOf(kin))
      \/ /\ AtMostOnce([p \in Places |-> runs[p].success], r, kin)
         /\ \/ \E y \in kin : runs[<<r, y>>].failed > 0
            \/ /\ \A q \in DeedsOf(r) : AtMostOnce(entries, q, kin)
               /\ \/ EventsOf(kin) \cap redone # {}
                  \/ \A q \in DeedsOf(r) : AtMostOnce(emails, q, kin)

\* The facts of a job, read once before its rules, say what the affiliate's row says after every
\* deed, so that no tag is lost and a suspended affiliate is left alone by the rules that follow:
\* unless somebody else's change was committed in the meantime.
FactsCurrent ==
  \A w \in Workers : tx[w].event # Null /\ ~tx[w].stale => tx[w].facts = Affiliate(w)
============================================================================
