----------------------------- MODULE LeadsProofs -----------------------------
(***************************************************************************)
(* Theorems about Affiliates, Attribution and Leads, whatever the people,  *)
(* the programs, the connections, the plans and the number of calls: who   *)
(* is admitted, kept and shut out, whom a sale is credited to, and what is *)
(* paid for a lead.                                                        *)
(***************************************************************************)
EXTENDS Leads, FiniteSetTheorems, WellFoundedInduction, TLAPS

----------------------------------------------------------------------------
(* The affiliates.                                                         *)

Ops == {"none", "apply", "accept", "join", "create", "approve", "reject", "suspend", "reactivate"}
Logins == {"none", "active", "disabled"}
Places == {"none", "pending", "active"}
Rows == [status : Statuses, login : Logins]

CallType ==
  [op : Ops, who : Partners \cup {Null}, copy : Rows \cup {Null},
   to : Statuses \cup {Null}, login : Logins \cup {Null}, asks : SUBSET Programs,
   want : Places, read : [Programs -> Places] \cup {Null},
   at : {"idle", "begun", "written"}, crossed : SUBSET Partners, beaten : BOOLEAN]

\* The tables and the open calls have their types; an open call is about somebody.
Shape ==
  /\ row \in [Partners -> Rows]
  /\ place \in [Partners -> [Programs -> Places]]
  /\ tx \in [Requests -> CallType]
  /\ limit \in Nat /\ highest \in Nat /\ limit <= highest /\ late \in Nat
  /\ \A r \in Requests : tx[r].at # "idle" => tx[r].who \in Partners

\* There is room for the admission of an open call, unless another one has committed meanwhile.
Room ==
  \A r \in Requests :
    tx[r].at # "idle" /\ tx[r].to = "active" /\ ~tx[r].beaten
    => Cardinality(Active) + 1 <= highest + late

\* WithinLimit, strengthened with what the open calls may still do.
WithinInv == Shape /\ Room /\ WithinLimit

----------------------------------------------------------------------------

\* The number of active affiliates is a number.
LEMMA ActiveFinite ==
  IsFiniteSet(Active) /\ Cardinality(Active) \in Nat
<1>1. Active \in SUBSET Partners
  BY DEF Active
<1> QED
  BY <1>1, AffiliatesConstants, FS_Subset, FS_CardinalityType DEF AffiliatesConstants

\* Statuses and logins that go together: there is a login behind every application, and the login
\* of whoever is turned away is disabled, if there is one.
Proper(person) ==
  /\ person.status = "none" => person.login = "none"
  /\ person.status = "applied" => person.login = "active"
  /\ person.status = "rejected" => person.login = "disabled"
  /\ person.status = "suspended" => person.login \in {"none", "disabled"}
  /\ person.status = "active" => person.login \in {"none", "active"}

\* What writing a status and a login, each if there is one, makes of a person.
Merged(person, to, login) ==
  [status |-> IF to = Null THEN person.status ELSE to,
   login |-> IF login = Null THEN person.login ELSE login]

\* What a call is going to write suits the person it read.
Suits(person, to, login) == Proper(person) => Proper(Merged(person, to, login))

\* A call begins about a, and counts against the plan if it is going to admit.
BeginsAbout(r, a) ==
  \E op \in Ops, to \in Statuses \cup {Null}, login \in Logins \cup {Null},
     asks \in SUBSET Programs, want \in Places :
    /\ to = "active" => WithinPlan
    /\ Suits(row[a], to, login)
    /\ Begin(r, Call(op, a, to, login, asks, want))

LEMMA BeginsIntro ==
  ASSUME NEW r, NEW a, NEW op \in Ops, NEW to \in Statuses \cup {Null},
         NEW login \in Logins \cup {Null}, NEW asks \in SUBSET Programs, NEW want \in Places,
         Admits(to), Suits(row[a], to, login), Begin(r, Call(op, a, to, login, asks, want))
  PROVE  BeginsAbout(r, a)
  BY DEF BeginsAbout, Admits

\* A call that writes no status has nothing to count.
LEMMA NoneAdmitted == Admits(Null)
  BY AffiliatesConstants DEF AffiliatesConstants, Admits, Statuses

\* A call that writes nothing leaves everybody as they are.
LEMMA NothingSuits == ASSUME NEW person PROVE Suits(person, Null, Null)
  BY DEF Suits, Merged, Proper

LEMMA ApplyBegins ==
  ASSUME NEW r, NEW a, NEW p \in Programs, ApplyToProgram(r, a, p)
  PROVE  BeginsAbout(r, a)
<1> DEFINE to == IF Mode[p] = "auto" THEN "active" ELSE "applied"
<1>1. {p} \in SUBSET Programs /\ Asked(p) \in Places
  BY DEF Asked, Places
<1>2. to \in Statuses \cup {Null} /\ {Null, "active"} \subseteq Logins \cup {Null}
      /\ Null \in Statuses \cup {Null} /\ "apply" \in Ops
  BY DEF Statuses, Logins, Ops
<1>3. \/ Admits(to) /\ Begin(r, Call("apply", a, to, "active", {p}, Asked(p)))
      \/ Begin(r, Call("apply", a, Null, Null, {p}, Asked(p)))
  BY DEF ApplyToProgram
<1>4. Suits(row[a], to, "active")
  BY AffiliatesConstants DEF AffiliatesConstants, Statuses, Suits, Merged, Proper
<1> HIDE DEF to
<1> QED
  BY <1>1, <1>2, <1>3, <1>4, BeginsIntro, NoneAdmitted, NothingSuits

LEMMA AcceptBegins ==
  ASSUME NEW r, NEW a, NEW p \in Programs, AcceptInvite(r, a, p)
  PROVE  BeginsAbout(r, a)
<1> DEFINE to == IF row[a].status \in {"none", "applied"} THEN "active" ELSE Null
           login == IF to = "active" \/ row[a].login = "none" THEN "active" ELSE Null
<1>1. {p} \in SUBSET Programs /\ "active" \in Places
  BY DEF Places
<1>2. to \in Statuses \cup {Null} /\ login \in Logins \cup {Null} /\ "accept" \in Ops
  BY DEF Statuses, Logins, Ops
<1>3. Admits(to) /\ Begin(r, Call("accept", a, to, login, {p}, "active"))
  BY DEF AcceptInvite
<1>4. Suits(row[a], to, login)
  BY AffiliatesConstants DEF AffiliatesConstants, Statuses, AcceptInvite, Suits, Merged, Proper
<1> HIDE DEF to, login
<1> QED
  BY <1>1, <1>2, <1>3, <1>4, BeginsIntro

LEMMA JoinBegins ==
  ASSUME NEW r, NEW a, NEW p \in Programs, JoinProgram(r, a, p)
  PROVE  BeginsAbout(r, a)
<1>1. {p} \in SUBSET Programs /\ Asked(p) \in Places
  BY DEF Asked, Places
<1>2. Null \in Statuses \cup {Null} /\ Null \in Logins \cup {Null} /\ "join" \in Ops
  BY DEF Ops
<1>3. Begin(r, Call("join", a, Null, Null, {p}, Asked(p)))
  BY DEF JoinProgram
<1> QED
  BY <1>1, <1>2, <1>3, BeginsIntro, NoneAdmitted, NothingSuits

LEMMA CreateBegins ==
  ASSUME NEW r, NEW a, NEW asks \in SUBSET Programs, CreateAffiliate(r, a, asks)
  PROVE  BeginsAbout(r, a)
<1> DEFINE to == IF row[a].status = "none" THEN "active" ELSE Null
<1>1. to \in Statuses \cup {Null} /\ Null \in Logins \cup {Null} /\ "active" \in Places
      /\ "create" \in Ops
  BY DEF Statuses, Places, Ops
<1>2. Admits(to) /\ Begin(r, Call("create", a, to, Null, asks, "active"))
  BY DEF CreateAffiliate
<1>3. Suits(row[a], to, Null)
  BY AffiliatesConstants DEF AffiliatesConstants, Statuses, Suits, Merged, Proper
<1> HIDE DEF to
<1> QED
  BY <1>1, <1>2, <1>3, BeginsIntro

LEMMA TransitionBegins ==
  ASSUME NEW r, NEW a, NEW op \in Ops, NEW to \in Statuses, Transition(r, op, a, to)
  PROVE  BeginsAbout(r, a)
<1> DEFINE turned == IF to \in {"suspended", "rejected"} THEN "disabled" ELSE "active"
           login == IF row[a].login = "none" THEN Null ELSE turned
<1>1. login \in Logins \cup {Null} /\ {} \in SUBSET Programs /\ "none" \in Places
  BY DEF Logins, Places
<1>2. Admits(to) /\ Begin(r, Call(op, a, to, login, {}, "none"))
  BY DEF Transition
<1>3. Suits(row[a], to, login)
  BY AffiliatesConstants DEF AffiliatesConstants, Statuses, Transition, Transitions, Suits, Merged, Proper
<1> HIDE DEF login
<1> QED
  BY <1>1, <1>2, <1>3, BeginsIntro

\* What a step of Affiliates is.
LEMMA PartnerCases ==
  ASSUME AffiliatesNext
  PROVE  \/ \E r \in Requests, a \in Partners : BeginsAbout(r, a)
         \/ \E a \in Partners, p \in Programs : InviteAffiliate(a, p)
         \/ \E i \in invited : LapseInvite(i)
         \/ \E n \in Limits \ {limit} : ChangePlan(n)
         \/ \E r \in Requests : WriteRow(r) \/ Refuse(r) \/ Commit(r)
<1>1. ASSUME NEW r \in Requests, NEW a \in Partners,
             \/ ApproveAffiliate(r, a) \/ RejectAffiliate(r, a)
             \/ SuspendAffiliate(r, a) \/ ReactivateAffiliate(r, a)
      PROVE  BeginsAbout(r, a)
  <2>1. /\ {"active", "rejected", "suspended"} \subseteq Statuses
        /\ {"approve", "reject", "suspend", "reactivate"} \subseteq Ops
    BY DEF Statuses, Ops
  <2> QED
    BY <1>1, <2>1, TransitionBegins
       DEF ApproveAffiliate, RejectAffiliate, SuspendAffiliate, ReactivateAffiliate
<1> QED
  BY <1>1, ApplyBegins, AcceptBegins, JoinBegins, CreateBegins DEF AffiliatesNext

\* A call about a lead changes nothing of Affiliates but the count of calls.
Apartly == UNCHANGED <<row, place, invited, limit, tx, highest, late, raced>>

LEMMA PartnersOnly ==
  ASSUME [Next]_vars
  PROVE  AffiliatesNext \/ Apartly
<1> USE DEF Apartly
<1>1. ASSUME NEW r \in Requests, NEW op, NEW l, NEW copy, BeginLead(r, op, l, copy) PROVE Apartly
  BY <1>1 DEF BeginLead, history
<1>2. UNCHANGED affiliateVars => Apartly
  BY DEF affiliateVars
<1> HIDE DEF Apartly
<1>3. ASSUME NEW r \in Requests, NEW l \in Leads,
             \/ RecordLead(r, l) \/ QualifyLead(r, l) \/ DisqualifyLead(r, l)
             \/ CancelConversion(r, l) \/ RefundConversion(r, l) \/ ReverseCommission(r, l)
             \/ ApproveConversion(r, l) \/ ApproveCommission(r, l) \/ ReleaseCommission(r, l)
      PROVE  Apartly
  <2>1. \E op, copy : BeginLead(r, op, l, copy)
    BY <1>3 DEF RecordLead, QualifyLead, DisqualifyLead, CancelConversion, RefundConversion,
       ReverseCommission, ApproveConversion, ApproveCommission, ReleaseCommission, BeginByHand
  <2> QED
    BY <2>1, <1>1
<1>4. ASSUME NEW r \in Requests, NEW sale, LeadWritten(r, sale) PROVE Apartly
  BY <1>4, <1>2 DEF LeadWritten
<1>5. ASSUME NEW r \in Requests, \E automatic \in BOOLEAN : InsertLead(r, automatic) PROVE Apartly
  BY <1>4, <1>5 DEF InsertLead
<1>6. ASSUME NEW r \in Requests, JudgeLead(r) \/ WriteByHand(r) PROVE Apartly
  BY <1>4, <1>6 DEF JudgeLead, WriteByHand
<1>7. ASSUME NEW r \in Requests, LoseLead(r) \/ VoidRefused(r) PROVE Apartly
  BY <1>2, <1>7 DEF LoseLead, VoidRefused
<1>8. ASSUME NEW r \in Requests, RecordDone(r) \/ JudgementDone(r) \/ ByHandDone(r) PROVE Apartly
  BY <1>2, <1>8 DEF RecordDone, JudgementDone, ByHandDone, LeadCommit
<1>9. ASSUME NEW l \in Leads, SettleLead(l) \/ PayLead(l) \/ LeaveWindow(l) \/ EraseContact(l)
      PROVE  Apartly
  BY <1>2, <1>9 DEF SettleLead, PayLead, LeaveWindow, EraseContact, Becomes
<1>10. UNCHANGED vars => Apartly
  BY <1>2 DEF vars
<1> QED
  BY <1>3, <1>5, <1>6, <1>7, <1>8, <1>9, <1>10 DEF Next, Partnering

----------------------------------------------------------------------------

\* A call that begins has room if it is going to admit.
LEMMA BeginStep ==
  ASSUME WithinInv, NEW r \in Requests, NEW a \in Partners, BeginsAbout(r, a)
  PROVE  WithinInv'
<1> PICK op \in Ops, to \in Statuses \cup {Null}, login \in Logins \cup {Null},
         asks \in SUBSET Programs, want \in Places :
      /\ to = "active" => WithinPlan
      /\ Begin(r, Call(op, a, to, login, asks, want))
  BY DEF BeginsAbout
<1> DEFINE new == Call(op, a, to, login, asks, want)
<1>1. new = [op |-> op, who |-> a, copy |-> row[a], to |-> to, login |-> login, asks |-> asks,
             want |-> want, read |-> Null, at |-> "begun", crossed |-> {}, beaten |-> FALSE]
  BY DEF Call
<1>2. row[a] \in Rows
  BY DEF WithinInv, Shape
<1>3. new \in CallType /\ new.at = "begun" /\ new.who = a /\ new.to = to
  BY <1>1, <1>2 DEF CallType
<1> HIDE DEF new
<1>4. /\ tx' = [tx EXCEPT ![r] = new]
      /\ UNCHANGED <<row, place, limit, highest, late>>
  BY DEF Begin, history, new
<1>5. Shape'
  BY <1>3, <1>4 DEF WithinInv, Shape
<1>6. Active' = Active
  BY <1>4 DEF Active
<1>7. to = "active" => Cardinality(Active) + 1 <= highest + late
  BY ActiveFinite DEF WithinPlan, WithinInv, Shape
<1>8. ASSUME NEW o \in Requests, tx'[o].at # "idle", tx'[o].to = "active", ~tx'[o].beaten
      PROVE  Cardinality(Active) + 1 <= highest + late
  <2>1. CASE o = r
    BY <2>1, <1>3, <1>4, <1>7, <1>8 DEF WithinInv, Shape
  <2>2. CASE o # r
    BY <2>2, <1>4, <1>8 DEF WithinInv, Shape, Room
  <2> QED
    BY <2>1, <2>2
<1>9. Room'
  BY <1>4, <1>6, <1>8 DEF Room
<1> QED
  BY <1>4, <1>5, <1>6, <1>9 DEF WithinInv, WithinLimit

\* A step that leaves the affiliates, and each call's end in view, keeps everything.
LEMMA QuietStep ==
  ASSUME WithinInv, UNCHANGED <<row, place, limit, highest, late>>,
         tx' \in [Requests -> CallType],
         \A r \in Requests :
           tx'[r].at = "idle" \/ (/\ tx[r].at # "idle" /\ tx'[r].who = tx[r].who
                                  /\ tx'[r].to = tx[r].to /\ tx'[r].beaten = tx[r].beaten)
  PROVE  WithinInv'
<1>1. Active' = Active
  BY DEF Active
<1>2. Shape'
  BY DEF WithinInv, Shape
<1>3. Room'
  BY <1>1 DEF WithinInv, Room
<1> QED
  BY <1>1, <1>2, <1>3 DEF WithinInv, WithinLimit

LEMMA WriteStep ==
  ASSUME WithinInv, NEW r \in Requests, WriteRow(r)
  PROVE  WithinInv'
<1> DEFINE new == [tx[r] EXCEPT !.at = "written", !.read = place[tx[r].who]]
<1>1. tx[r] \in CallType /\ tx[r].at = "begun" /\ tx[r].who \in Partners
  BY DEF WriteRow, WithinInv, Shape
<1>2. place[tx[r].who] \in [Programs -> Places]
  BY <1>1 DEF WithinInv, Shape
<1>3. /\ new \in CallType /\ new.who = tx[r].who /\ new.to = tx[r].to /\ new.beaten = tx[r].beaten
  BY <1>1, <1>2 DEF CallType
<1>4. tx' = [tx EXCEPT ![r] = new] /\ UNCHANGED <<row, place, limit, highest, late>>
  BY DEF WriteRow, history
<1> HIDE DEF new
<1>5. tx' \in [Requests -> CallType]
  BY <1>3, <1>4 DEF WithinInv, Shape
<1>6. ASSUME NEW o \in Requests
      PROVE  tx'[o].at = "idle" \/ (/\ tx[o].at # "idle" /\ tx'[o].who = tx[o].who
                                    /\ tx'[o].to = tx[o].to /\ tx'[o].beaten = tx[o].beaten)
  <2>1. CASE o = r
    BY <2>1, <1>1, <1>3, <1>4 DEF WithinInv, Shape
  <2>2. CASE o # r
    BY <2>2, <1>4 DEF WithinInv, Shape
  <2> QED
    BY <2>1, <2>2
<1> QED
  BY <1>4, <1>5, <1>6, QuietStep

\* A rolled-back call is forgotten.
LEMMA IdleType ==
  Idle \in CallType /\ Idle.at = "idle"
BY DEF Idle, CallType, Ops, Places

LEMMA RefuseStep ==
  ASSUME WithinInv, NEW r \in Requests, Refuse(r)
  PROVE  WithinInv'
<1>1. tx' = [tx EXCEPT ![r] = Idle] /\ UNCHANGED <<row, place, limit, highest, late>>
  BY DEF Refuse, history
<1>2. tx' \in [Requests -> CallType]
  BY <1>1, IdleType DEF WithinInv, Shape
<1>3. ASSUME NEW o \in Requests
      PROVE  tx'[o].at = "idle" \/ (/\ tx[o].at # "idle" /\ tx'[o].who = tx[o].who
                                    /\ tx'[o].to = tx[o].to /\ tx'[o].beaten = tx[o].beaten)
  BY <1>1, IdleType DEF WithinInv, Shape
<1> QED
  BY <1>1, <1>2, <1>3, QuietStep

\* A new plan leaves the highest limit at least where it was.
LEMMA PlanStep ==
  ASSUME WithinInv, NEW n \in Limits, ChangePlan(n)
  PROVE  WithinInv'
<1>1. n \in Nat
  BY AffiliatesConstants DEF AffiliatesConstants
<1>2. /\ highest' \in Nat /\ highest' >= highest /\ n <= highest'
      /\ limit' = n /\ UNCHANGED <<row, place, tx, late>>
  BY <1>1 DEF ChangePlan, WithinInv, Shape
<1>3. Shape'
  BY <1>1, <1>2 DEF WithinInv, Shape
<1>4. Active' = Active /\ Cardinality(Active) \in Nat
  BY <1>2, ActiveFinite DEF Active
<1>5. Room'
  <2>1. ASSUME NEW r \in Requests, tx[r].at # "idle", tx[r].to = "active", ~tx[r].beaten
        PROVE  Cardinality(Active) + 1 <= highest' + late
    BY <2>1, <1>2, <1>4 DEF WithinInv, Room, Shape
  <2> QED
    BY <2>1, <1>2, <1>4 DEF Room
<1>6. Cardinality(Active) <= highest' + late
  BY <1>2, <1>4 DEF WithinInv, WithinLimit, Shape
<1> QED
  BY <1>2, <1>3, <1>4, <1>5, <1>6 DEF WithinInv, WithinLimit

\* Who a call leaves active: at most one more, and nobody more if it does not admit.
LEMMA CommitActive ==
  ASSUME WithinInv, NEW r \in Requests, tx[r].at = "written",
         row' = [row EXCEPT ![tx[r].who] = Written(tx[r])]
  PROVE  /\ row' \in [Partners -> Rows]
         /\ IsFiniteSet(Active') /\ Cardinality(Active') \in Nat
         /\ Cardinality(Active') <= Cardinality(Active) + 1
         /\ tx[r].to # "active" => Cardinality(Active') <= Cardinality(Active)
<1> DEFINE call == tx[r]
           new == Written(call)
<1>1. call \in CallType /\ call.who \in Partners
  BY DEF WithinInv, Shape
<1>2. row[call.who] \in Rows
  BY <1>1 DEF WithinInv, Shape
<1>3. new = [status |-> IF call.to = Null THEN row[call.who].status ELSE call.to,
             login |-> IF call.login = Null THEN row[call.who].login ELSE call.login]
  BY DEF Written
<1>4. new \in Rows /\ (new.status = "active" /\ call.to # "active" => row[call.who].status = "active")
  BY <1>1, <1>2, <1>3 DEF CallType, Rows
<1>5. row' = [row EXCEPT ![call.who] = new]
  OBVIOUS
<1> HIDE DEF new, call
<1>6. row' \in [Partners -> Rows]
  BY <1>1, <1>4, <1>5 DEF WithinInv, Shape
<1>7. Active' \subseteq Active \cup {call.who}
  BY <1>1, <1>5 DEF Active, WithinInv, Shape
<1>8. call.to # "active" => Active' \subseteq Active
  BY <1>1, <1>4, <1>5 DEF Active, WithinInv, Shape
<1>9. /\ IsFiniteSet(Active \cup {call.who})
      /\ Cardinality(Active \cup {call.who}) <= Cardinality(Active) + 1
      /\ Cardinality(Active \cup {call.who}) \in Nat
  <2> DEFINE more == Active \cup {call.who}
  <2>1. /\ IsFiniteSet(more)
        /\ Cardinality(more) = IF call.who \in Active THEN Cardinality(Active)
                               ELSE Cardinality(Active) + 1
    BY ActiveFinite, FS_AddElement
  <2> HIDE DEF more
  <2>2. Cardinality(more) <= Cardinality(Active) + 1 /\ Cardinality(more) \in Nat
    BY <2>1, ActiveFinite
  <2> QED
    BY <2>1, <2>2 DEF more
<1>10. /\ IsFiniteSet(Active')
       /\ Cardinality(Active') <= Cardinality(Active \cup {call.who})
  BY <1>7, <1>9, FS_Subset
<1>11. Cardinality(Active') \in Nat
  BY <1>10, FS_CardinalityType
<1>12. call.to # "active" => Cardinality(Active') <= Cardinality(Active)
  BY <1>8, ActiveFinite, FS_Subset
<1> QED
  BY <1>6, <1>9, <1>10, <1>11, <1>12, ActiveFinite DEF call

\* Other open calls go on, and learn of the admission.
LEMMA CommitOthers ==
  ASSUME WithinInv, NEW r \in Requests, NEW o \in Requests, Commit(r), tx'[o].at # "idle"
  PROVE  /\ o # r /\ tx[o].at # "idle"
         /\ tx'[o].who = tx[o].who /\ tx'[o].to = tx[o].to
         /\ ~tx'[o].beaten => ~tx[o].beaten /\ tx[r].to # "active"
<1>1. tx'[o] = IF o = r \/ tx[o] = Idle THEN Idle
               ELSE [tx[o] EXCEPT !.crossed = @ \cup {tx[r].who}, !.beaten = @ \/ tx[r].to = "active"]
  BY DEF Commit
<1>2. o # r /\ tx[o] # Idle
  BY <1>1, IdleType
<1>3. tx[o] \in CallType
  BY DEF WithinInv, Shape
<1> DEFINE crossed == tx[o].crossed \cup {tx[r].who}
           beaten == tx[o].beaten \/ tx[r].to = "active"
<1>4. tx'[o] = [tx[o] EXCEPT !.crossed = crossed, !.beaten = beaten]
  BY <1>1, <1>2
<1> HIDE DEF crossed, beaten
<1>5. /\ tx'[o].at = tx[o].at /\ tx'[o].who = tx[o].who /\ tx'[o].to = tx[o].to
      /\ tx'[o].beaten = beaten
  BY <1>3, <1>4 DEF CallType
<1> QED
  BY <1>2, <1>5 DEF beaten

LEMMA CommitTypes ==
  ASSUME WithinInv, NEW r \in Requests, Commit(r)
  PROVE  /\ tx' \in [Requests -> CallType]
         /\ place' \in [Partners -> [Programs -> Places]]
<1>1. tx[r] \in CallType /\ tx[r].who \in Partners /\ tx[r].at = "written"
  BY DEF WithinInv, Shape, Commit
<1>2. ASSUME NEW o \in Requests
      PROVE  tx'[o] \in CallType
  <2>1. tx'[o] = IF o = r \/ tx[o] = Idle THEN Idle
                 ELSE [tx[o] EXCEPT !.crossed = @ \cup {tx[r].who}, !.beaten = @ \/ tx[r].to = "active"]
    BY DEF Commit
  <2> DEFINE crossed == tx[o].crossed \cup {tx[r].who}
             beaten == tx[o].beaten \/ tx[r].to = "active"
  <2>2. tx[o] \in CallType
    BY DEF WithinInv, Shape
  <2>3. crossed \in SUBSET Partners
    BY <1>1, <2>2 DEF CallType
  <2>4. beaten \in BOOLEAN
    OBVIOUS
  <2>5. tx'[o] = Idle \/ tx'[o] = [tx[o] EXCEPT !.crossed = crossed, !.beaten = beaten]
    BY <2>1
  <2> HIDE DEF crossed, beaten
  <2>6. [tx[o] EXCEPT !.crossed = crossed, !.beaten = beaten] \in CallType
    BY <2>2, <2>3, <2>4 DEF CallType
  <2> QED
    BY <2>5, <2>6, IdleType
<1>3. tx' = [o \in Requests |-> tx'[o]]
  BY DEF Commit
<1>4. tx' \in [Requests -> CallType]
  BY <1>2, <1>3
<1>5. Memberships(tx[r]) \in [Programs -> Places]
  <2>1. ASSUME NEW p \in Programs
        PROVE  (IF p \in tx[r].asks THEN Upsert(tx[r], p)
                ELSE IF tx[r].op = "approve" /\ place[tx[r].who][p] = "pending" THEN "active"
                ELSE place[tx[r].who][p]) \in Places
    BY <1>1 DEF CallType, Upsert, Places, WithinInv, Shape
  <2> QED
    BY <2>1 DEF Memberships
<1>6. place' = [place EXCEPT ![tx[r].who] = Memberships(tx[r])]
  BY DEF Commit
<1>7. place' \in [Partners -> [Programs -> Places]]
  BY <1>5, <1>6 DEF WithinInv, Shape
<1> QED
  BY <1>4, <1>7

LEMMA CommitStep ==
  ASSUME WithinInv, NEW r \in Requests, Commit(r)
  PROVE  WithinInv'
<1>1. /\ tx[r].at = "written" /\ UNCHANGED <<limit, highest>>
      /\ row' = [row EXCEPT ![tx[r].who] = Written(tx[r])]
      /\ late' = IF tx[r].to = "active" /\ tx[r].beaten THEN late + 1 ELSE late
  BY DEF Commit
<1>2. /\ row' \in [Partners -> Rows]
      /\ Cardinality(Active') \in Nat /\ Cardinality(Active) \in Nat
      /\ Cardinality(Active') <= Cardinality(Active) + 1
      /\ tx[r].to # "active" => Cardinality(Active') <= Cardinality(Active)
  BY <1>1, CommitActive, ActiveFinite
<1>3. late \in Nat /\ highest \in Nat /\ late' \in Nat /\ late' >= late
  BY <1>1 DEF WithinInv, Shape
<1>4. Cardinality(Active') <= highest + late'
  <2>1. CASE tx[r].to = "active" /\ tx[r].beaten
    BY <2>1, <1>1, <1>2, <1>3 DEF WithinInv, WithinLimit
  <2>2. CASE tx[r].to = "active" /\ ~tx[r].beaten
    <3>1. Cardinality(Active) + 1 <= highest + late
      BY <2>2, <1>1 DEF WithinInv, Room
    <3> QED
      BY <3>1, <1>2, <1>3
  <2>3. CASE tx[r].to # "active"
    BY <2>3, <1>1, <1>2, <1>3 DEF WithinInv, WithinLimit
  <2> QED
    BY <2>1, <2>2, <2>3
<1>5. ASSUME NEW o \in Requests, tx'[o].at # "idle", tx'[o].to = "active", ~tx'[o].beaten
      PROVE  Cardinality(Active') + 1 <= highest + late'
  <2>1. tx[o].at # "idle" /\ tx[o].to = "active" /\ ~tx[o].beaten /\ tx[r].to # "active"
    BY <1>5, CommitOthers
  <2>2. Cardinality(Active) + 1 <= highest + late
    BY <2>1 DEF WithinInv, Room
  <2> QED
    BY <2>1, <2>2, <1>2, <1>3
<1>6. Room'
  BY <1>1, <1>5 DEF Room
<1>7. \A o \in Requests : tx'[o].at # "idle" => tx'[o].who \in Partners
  BY CommitOthers DEF WithinInv, Shape
<1>8. Shape'
  BY <1>1, <1>2, <1>3, <1>7, CommitTypes DEF WithinInv, Shape
<1> QED
  BY <1>1, <1>4, <1>6, <1>8 DEF WithinInv, WithinLimit

----------------------------------------------------------------------------

LEMMA WithinStep ==
  ASSUME WithinInv, [Next]_vars
  PROVE  WithinInv'
<1>1. CASE AffiliatesNext
  <2>1. ASSUME NEW a \in Partners, NEW p \in Programs, InviteAffiliate(a, p)
        PROVE  WithinInv'
    BY <2>1, QuietStep DEF InviteAffiliate, history, WithinInv, Shape
  <2>2. ASSUME NEW i \in invited, LapseInvite(i)
        PROVE  WithinInv'
    BY <2>2, QuietStep DEF LapseInvite, history, WithinInv, Shape
  <2> QED
    BY <1>1, <2>1, <2>2, PartnerCases, BeginStep, WriteStep, RefuseStep, CommitStep, PlanStep
<1>2. CASE UNCHANGED <<row, place, limit, tx, highest, late>>
  BY <1>2, QuietStep DEF WithinInv, Shape
<1> QED
  BY <1>1, <1>2, PartnersOnly DEF Apartly

LEMMA WithinInit ==
  ASSUME Init
  PROVE  WithinInv
<1>1. PICK start \in [Partners -> Earlier] :
        /\ row = [a \in Partners |-> start[a].row]
        /\ place = [a \in Partners |-> start[a].places]
  BY DEF Init, AffiliatesInit
<1>2. Earlier \subseteq [row : Rows, places : [Programs -> Places]]
  BY DEF Earlier, Standings, Rows, Statuses, Logins, Places
<1>3. row \in [Partners -> Rows] /\ place \in [Partners -> [Programs -> Places]]
  BY <1>1, <1>2
<1>4. /\ limit \in Nat /\ highest = limit /\ late = 0 /\ Cardinality(Active) <= limit
      /\ tx = [r \in Requests |-> Idle]
  BY AffiliatesConstants DEF AffiliatesConstants, Init, AffiliatesInit
<1>5. Shape
  BY <1>3, <1>4, IdleType DEF Shape
<1>6. Room
  BY <1>4, IdleType DEF Room
<1> QED
  BY <1>4, <1>5, <1>6 DEF WithinInv, WithinLimit

\* The plan's limit of active affiliates is passed only by admissions that overlap
\* (assertWithinLimit, plans.ts:127-141), whatever the plan changes to meanwhile.
THEOREM WithinLimitCorrect == Spec => []WithinLimit
<1>1. Init => WithinInv
  BY WithinInit
<1>2. WithinInv /\ [Next]_vars => WithinInv'
  BY WithinStep
<1>3. WithinInv => WithinLimit
  BY DEF WithinInv
<1> QED
  BY <1>1, <1>2, <1>3, PTL DEF Spec

----------------------------------------------------------------------------
(* What a call that nobody overlapped does.                                *)

\* Until another call of the same person commits, an open call's copies are what the tables hold;
\* what it is going to write suits what it read.
Fresh ==
  \A r \in Requests : tx[r].at # "idle" =>
    /\ Suits(tx[r].copy, tx[r].to, tx[r].login)
    /\ tx[r].who \notin tx[r].crossed =>
         /\ tx[r].copy = row[tx[r].who]
         /\ tx[r].at = "written" => tx[r].read = place[tx[r].who]

RowsProper == \A a \in Partners \ raced : Proper(row[a])

CallsInv == Fresh /\ RowsProper

LEMMA FreshBegin ==
  ASSUME Shape, CallsInv, NEW r \in Requests, NEW a \in Partners, BeginsAbout(r, a)
  PROVE  CallsInv'
<1> PICK op \in Ops, to \in Statuses \cup {Null}, login \in Logins \cup {Null},
         asks \in SUBSET Programs, want \in Places :
      Suits(row[a], to, login) /\ Begin(r, Call(op, a, to, login, asks, want))
  BY DEF BeginsAbout
<1> DEFINE new == Call(op, a, to, login, asks, want)
<1>1. /\ new.copy = row[a] /\ new.who = a /\ new.to = to /\ new.login = login /\ new.at = "begun"
  BY DEF Call
<1>2. tx' = [tx EXCEPT ![r] = new] /\ UNCHANGED <<row, place, raced>>
  BY DEF Begin, history
<1> HIDE DEF new
<1> QED
  BY <1>1, <1>2 DEF Shape, CallsInv, Fresh, RowsProper, Suits

LEMMA FreshWrite ==
  ASSUME Shape, CallsInv, NEW r \in Requests, WriteRow(r)
  PROVE  CallsInv'
<1> DEFINE new == [tx[r] EXCEPT !.at = "written", !.read = place[tx[r].who]]
<1>1. tx[r] \in CallType /\ tx[r].at = "begun"
  BY DEF WriteRow, Shape
<1>2. /\ new.copy = tx[r].copy /\ new.who = tx[r].who /\ new.to = tx[r].to /\ new.login = tx[r].login
      /\ new.crossed = tx[r].crossed /\ new.read = place[tx[r].who] /\ new.at = "written"
  BY <1>1 DEF CallType
<1>3. tx' = [tx EXCEPT ![r] = new] /\ UNCHANGED <<row, place, raced>>
  BY DEF WriteRow, history
<1> HIDE DEF new
<1> QED
  BY <1>1, <1>2, <1>3 DEF Shape, CallsInv, Fresh, RowsProper, Suits

LEMMA FreshRefuse ==
  ASSUME Shape, CallsInv, NEW r \in Requests, Refuse(r)
  PROVE  CallsInv'
<1>1. tx' = [tx EXCEPT ![r] = Idle] /\ UNCHANGED <<row, place, raced>>
  BY DEF Refuse, history
<1> QED
  BY <1>1, IdleType DEF Shape, CallsInv, Fresh, RowsProper, Suits

\* Of an open call, a commit of another changes only what it knows of others.
LEMMA CommitKeeps ==
  ASSUME Shape, NEW r \in Requests, NEW o \in Requests, Commit(r), tx'[o].at # "idle"
  PROVE  /\ tx[o].at = tx'[o].at /\ tx'[o].who = tx[o].who /\ tx'[o].copy = tx[o].copy
         /\ tx'[o].to = tx[o].to /\ tx'[o].login = tx[o].login /\ tx'[o].read = tx[o].read
         /\ tx'[o].crossed = tx[o].crossed \cup {tx[r].who}
<1>1. tx'[o] = IF o = r \/ tx[o] = Idle THEN Idle
               ELSE [tx[o] EXCEPT !.crossed = @ \cup {tx[r].who}, !.beaten = @ \/ tx[r].to = "active"]
  BY DEF Commit
<1>2. o # r /\ tx[o] # Idle
  BY <1>1, IdleType
<1>3. tx[o] \in CallType
  BY DEF Shape
<1> DEFINE crossed == tx[o].crossed \cup {tx[r].who}
           beaten == tx[o].beaten \/ tx[r].to = "active"
<1>4. tx'[o] = [tx[o] EXCEPT !.crossed = crossed, !.beaten = beaten]
  BY <1>1, <1>2
<1> HIDE DEF crossed, beaten
<1>5. /\ tx'[o].at = tx[o].at /\ tx'[o].who = tx[o].who /\ tx'[o].copy = tx[o].copy
      /\ tx'[o].to = tx[o].to /\ tx'[o].login = tx[o].login /\ tx'[o].read = tx[o].read
      /\ tx'[o].crossed = crossed
  BY <1>3, <1>4 DEF CallType
<1> QED
  BY <1>5 DEF crossed

LEMMA FreshCommit ==
  ASSUME Shape, CallsInv, NEW r \in Requests, Commit(r)
  PROVE  CallsInv'
<1> DEFINE call == tx[r]
           a == call.who
<1>1. /\ call.at = "written" /\ a \in Partners
      /\ row' = [row EXCEPT ![a] = Written(call)]
      /\ place' = [place EXCEPT ![a] = Memberships(call)]
      /\ raced' = IF a \in call.crossed THEN raced \cup {a} ELSE raced
  BY DEF Commit, Shape
<1>2. Written(call) = Merged(row[a], call.to, call.login)
  BY DEF Written, Merged
<1>3. \A b \in Partners : b # a => row'[b] = row[b] /\ place'[b] = place[b]
  BY <1>1 DEF Shape
<1>4. row'[a] = Merged(row[a], call.to, call.login)
  BY <1>1, <1>2 DEF Shape
<1> HIDE DEF call, a
<1>5. RowsProper'
  <2> SUFFICES ASSUME NEW b \in Partners \ raced' PROVE Proper(row'[b])
    BY DEF RowsProper, Proper
  <2>1. b \notin raced /\ (b = a => a \notin call.crossed)
    BY <1>1
  <2>2. Proper(row[b])
    BY <2>1 DEF CallsInv, RowsProper
  <2>3. CASE b = a
    <3>1. Suits(row[a], call.to, call.login)
      BY <2>1, <2>3, <1>1 DEF CallsInv, Fresh, call, a
    <3> QED
      BY <3>1, <2>2, <2>3, <1>4 DEF Suits
  <2> QED
    BY <2>2, <2>3, <1>3
<1>6. ASSUME NEW o \in Requests, tx'[o].at # "idle"
      PROVE  /\ Suits(tx'[o].copy, tx'[o].to, tx'[o].login)
             /\ tx'[o].who \notin tx'[o].crossed =>
                  /\ tx'[o].copy = row'[tx'[o].who]
                  /\ tx'[o].at = "written" => tx'[o].read = place'[tx'[o].who]
  <2>1. /\ tx[o].at = tx'[o].at /\ tx'[o].who = tx[o].who /\ tx'[o].copy = tx[o].copy
        /\ tx'[o].to = tx[o].to /\ tx'[o].login = tx[o].login /\ tx'[o].read = tx[o].read
        /\ tx'[o].crossed = tx[o].crossed \cup {a}
    BY <1>6, CommitKeeps DEF call, a
  <2>2. tx[o].who \in Partners
    BY <1>6, <2>1 DEF Shape
  <2> QED
    BY <1>6, <2>1, <2>2, <1>3 DEF CallsInv, Fresh
<1>7. Fresh'
  BY <1>6 DEF Fresh, Suits, Proper, Merged
<1> QED
  BY <1>5, <1>7 DEF CallsInv

LEMMA CallsStep ==
  ASSUME Shape, CallsInv, [Next]_vars
  PROVE  CallsInv'
<1>1. CASE UNCHANGED <<row, place, tx, raced>>
  BY <1>1 DEF CallsInv, Fresh, RowsProper, Suits, Proper, Merged
<1>2. CASE AffiliatesNext
  <2>1. ASSUME \/ \E a \in Partners, p \in Programs : InviteAffiliate(a, p)
               \/ \E i \in invited : LapseInvite(i)
               \/ \E n \in Limits \ {limit} : ChangePlan(n)
        PROVE  UNCHANGED <<row, place, tx, raced>>
    BY <2>1 DEF InviteAffiliate, LapseInvite, ChangePlan, history
  <2> QED
    BY <1>1, <1>2, <2>1, PartnerCases, FreshBegin, FreshWrite, FreshRefuse, FreshCommit
<1> QED
  BY <1>1, <1>2, PartnersOnly DEF Apartly

LEMMA CallsInit ==
  ASSUME Init
  PROVE  CallsInv
<1>1. PICK start \in [Partners -> Earlier] : row = [a \in Partners |-> start[a].row]
  BY DEF Init, AffiliatesInit
<1>2. ASSUME NEW e \in Earlier PROVE Proper(e.row)
  BY <1>2 DEF Earlier, Standings, Proper
<1>3. RowsProper
  BY <1>1, <1>2 DEF RowsProper
<1>4. tx = [r \in Requests |-> Idle]
  BY DEF Init, AffiliatesInit
<1>5. Fresh
  BY <1>4, IdleType DEF Fresh
<1> QED
  BY <1>3, <1>5 DEF CallsInv

\* Whoever is suspended or rejected cannot sign in (affiliates.ts:179, 393), by whatever sequence of
\* applications, invitations and decisions they got there, unless two of them overlapped.
THEOREM ShutOutCorrect == Spec => []ShutOut
<1>1. Init => WithinInv /\ CallsInv
  BY WithinInit, CallsInit
<1>2. WithinInv /\ CallsInv /\ [Next]_vars => WithinInv' /\ CallsInv'
  BY WithinStep, CallsStep DEF WithinInv
<1>3. CallsInv => ShutOut
  BY DEF CallsInv, RowsProper, Proper, ShutOut
<1> QED
  BY <1>1, <1>2, <1>3, PTL DEF Spec

NoDemotion ==
  \A r \in Requests, p \in Programs :
    /\ Ends(r) /\ tx[r].who \notin tx[r].crossed
    /\ place[tx[r].who][p] = "active"
    => place'[tx[r].who][p] = "active"

\* A membership is written where the call that writes it ends.
LEMMA CommitDemotes ==
  ASSUME Shape, CallsInv, NEW o \in Requests, Commit(o)
  PROVE  NoDemotion
<1> SUFFICES ASSUME NEW r \in Requests, NEW p \in Programs, Ends(r), tx[r].who \notin tx[r].crossed,
                    place[tx[r].who][p] = "active"
             PROVE  place'[tx[r].who][p] = "active"
  BY DEF NoDemotion
<1>1. tx[r].at = "written" /\ tx'[r].at = "idle" /\ tx[r] \in CallType /\ tx[r].who \in Partners
  BY IdleType DEF Ends, Shape
<1>2. r = o
  <2>1. tx'[r] = IF r = o \/ tx[r] = Idle THEN Idle
                 ELSE [tx[r] EXCEPT !.crossed = @ \cup {tx[o].who}, !.beaten = @ \/ tx[o].to = "active"]
    BY DEF Commit
  <2> DEFINE crossed == tx[r].crossed \cup {tx[o].who}
             beaten == tx[r].beaten \/ tx[o].to = "active"
  <2>2. r # o => tx'[r] = [tx[r] EXCEPT !.crossed = crossed, !.beaten = beaten]
    BY <2>1, <1>1, IdleType
  <2> HIDE DEF crossed, beaten
  <2> QED
    BY <2>2, <1>1 DEF CallType
<1>3. tx[r].read = place[tx[r].who]
  BY <1>1 DEF CallsInv, Fresh
<1>4. place' = [place EXCEPT ![tx[r].who] = Memberships(tx[r])]
  BY <1>2 DEF Commit
<1>5. Memberships(tx[r])[p] = "active"
  BY <1>3 DEF Memberships, Upsert
<1> QED
  BY <1>1, <1>4, <1>5 DEF Shape

LEMMA DemotesStep ==
  ASSUME Shape, CallsInv, [Next]_vars
  PROVE  [NoDemotion]_affiliateVars
<1>1. UNCHANGED place => NoDemotion
  BY DEF NoDemotion
<1>2. CASE AffiliatesNext
  <2>1. ASSUME \/ \E r \in Requests, a \in Partners : BeginsAbout(r, a)
               \/ \E a \in Partners, p \in Programs : InviteAffiliate(a, p)
               \/ \E i \in invited : LapseInvite(i)
               \/ \E n \in Limits \ {limit} : ChangePlan(n)
               \/ \E r \in Requests : WriteRow(r) \/ Refuse(r)
        PROVE  UNCHANGED place
    BY <2>1 DEF BeginsAbout, Begin, InviteAffiliate, LapseInvite, ChangePlan, WriteRow, Refuse
  <2> QED
    BY <1>1, <1>2, <2>1, PartnerCases, CommitDemotes
<1> QED
  BY <1>1, <1>2, PartnersOnly DEF Apartly

\* An active membership is never put back to pending (affiliates.ts:491), unless the call that
\* does it overlapped another call of the same person.
THEOREM NeverDemotedCorrect == Spec => NeverDemoted
<1>1. Init => WithinInv /\ CallsInv
  BY WithinInit, CallsInit
<1>2. WithinInv /\ CallsInv /\ [Next]_vars => WithinInv' /\ CallsInv'
  BY WithinStep, CallsStep DEF WithinInv
<1>3. WithinInv /\ CallsInv /\ [Next]_vars => [NoDemotion]_affiliateVars
  BY DemotesStep DEF WithinInv
<1>4. NeverDemoted <=> [][NoDemotion]_affiliateVars
  BY DEF NeverDemoted, NoDemotion
<1> QED
  BY <1>1, <1>2, <1>3, <1>4, PTL DEF Spec

----------------------------------------------------------------------------
(* Attribution, for any evidence, programs and affiliates.                 *)

\* The clicks of a sale that count.
Counting(e) == {c \in e.clicks : ClickCounts(c, e.offer)}

\* The coupon counts and is not beaten by a click.
CouponFirst(e) ==
  /\ e.coupon # Null /\ CouponCounts(e.coupon, e.offer)
  /\ Counting(e) = {} \/ Terms[e.coupon.program].precedence # "link_wins"

LEMMA CreditedCases ==
  ASSUME NEW e
  PROVE  Credited(e) = IF CouponFirst(e) THEN {e.coupon} ELSE ByClick(Counting(e))
  BY DEF Credited, CouponFirst, Counting

\* Counting clicks are not in the future, and not older than their program allows.
LEMMA CountingAges ==
  ASSUME NEW e \in Evidence, NEW c \in Counting(e)
  PROVE  /\ c \in Clicks /\ c.age \in Nat
         /\ Terms[c.program].window \in Nat /\ c.age <= Terms[c.program].window
<1>1. c \in Clicks /\ ClickCounts(c, e.offer)
  BY DEF Counting, Evidence
<1>2. c.age \in Int /\ c.program \in Programs
  BY <1>1 DEF Clicks
<1>3. Terms[c.program].window \in Nat
  BY <1>2, AttributionConstants DEF AttributionConstants
<1> QED
  BY <1>1, <1>2, <1>3 DEF ClickCounts

\* A nonempty set of naturals has a least element: of the intervals below its elements, one has no
\* other inside it.
LEMMA LeastNatural ==
  ASSUME NEW S \in SUBSET Nat, S # {}
  PROVE  \E n \in S : \A m \in S : n <= m
<1> DEFINE upto == {0..n : n \in S}
           R == StrictSubsetOrdering(Nat)
           F == FiniteSubsetsOf(Nat)
<1>1. upto \subseteq F /\ upto # {}
  <2>1. \A n \in S : 0..n \subseteq Nat /\ IsFiniteSet(0..n)
    BY FS_Interval
  <2> QED
    BY <2>1 DEF FiniteSubsetsOf
<1>2. IsWellFoundedOn(R, F)
  BY FS_StrictSubsetOrderingWellFounded
<1> HIDE DEF upto, R, F
<1>3. PICK I \in upto : \A J \in upto : ~ (<<J, I>> \in R)
  BY <1>1, <1>2, WFMin
<1> USE DEF upto, R
<1>4. PICK n \in S : I = 0..n
  BY <1>3
<1>5. ASSUME NEW m \in S, m < n PROVE FALSE
  <2>1. 0..m \in upto
    OBVIOUS
  <2>2. 0..m \subseteq I /\ 0..m # I /\ 0..m \subseteq Nat /\ I \subseteq Nat
    BY <1>4, <1>5
  <2> HIDE DEF upto
  <2>3. <<0..m, I>> \in R
    BY <2>2 DEF StrictSubsetOrdering
  <2> QED
    BY <2>1, <2>3, <1>3
<1> QED
  BY <1>4, <1>5

\* Clicks that are not in the future have a latest.
LEMMA SomeLatest ==
  ASSUME NEW C, \A c \in C : c.age \in Nat, C # {}
  PROVE  Latest(C) # {}
<1> DEFINE ages == {c.age : c \in C}
<1>1. ages \in SUBSET Nat /\ ages # {}
  OBVIOUS
<1> HIDE DEF ages
<1>2. PICK n \in ages : \A m \in ages : n <= m
  BY <1>1, LeastNatural
<1> USE DEF ages
<1>3. PICK c \in C : c.age = n
  OBVIOUS
<1>4. \A d \in C : c.age <= d.age
  BY <1>2, <1>3
<1> QED
  BY <1>4 DEF Latest

\* Clicks that are not older than N have an earliest.
LEMMA SomeEarliest ==
  ASSUME NEW C, NEW N \in Nat, \A c \in C : c.age \in Nat /\ c.age <= N, C # {}
  PROVE  Earliest(C) # {}
<1> DEFINE left == {N - c.age : c \in C}
<1>1. left \in SUBSET Nat /\ left # {}
  OBVIOUS
<1> HIDE DEF left
<1>2. PICK n \in left : \A m \in left : n <= m
  BY <1>1, LeastNatural
<1> USE DEF left
<1>3. PICK c \in C : N - c.age = n
  OBVIOUS
<1>4. ASSUME NEW d \in C PROVE c.age >= d.age
  <2>1. n <= N - d.age
    BY <1>2
  <2> QED
    BY <2>1, <1>3
<1> QED
  BY <1>4 DEF Earliest

----------------------------------------------------------------------------

\* Whoever is credited brought the click or the code, which counts: it was within its program's
\* window and consented to, and its affiliate is an active member of an active program that sells
\* the offer (attribution.ts:166-197).
THEOREM CreditIsEarned ==
  ASSUME NEW e \in Evidence, NEW d \in Credited(e)
  PROVE  \/ d = e.coupon /\ CouponCounts(d, e.offer)
         \/ d \in e.clicks /\ ClickCounts(d, e.offer)
<1>1. CASE CouponFirst(e)
  BY <1>1, CreditedCases DEF CouponFirst
<1>2. CASE ~CouponFirst(e)
  <2>1. d \in ByClick(Counting(e))
    BY <1>2, CreditedCases
  <2> QED
    BY <2>1 DEF ByClick, Counting
<1> QED
  BY <1>1, <1>2

\* A sale with a click or a code that counts is somebody's (attribution.ts:124-141), if there is a
\* longest window.
THEOREM SomebodyIsCredited ==
  ASSUME NEW e \in Evidence, NEW N \in Nat, \A p \in Programs : Terms[p].window <= N,
         \/ Counting(e) # {}
         \/ e.coupon # Null /\ CouponCounts(e.coupon, e.offer)
  PROVE  Credited(e) # {}
<1> DEFINE C == Counting(e)
<1>1. CASE CouponFirst(e)
  BY <1>1, CreditedCases
<1>2. CASE ~CouponFirst(e)
  <2>1. C # {}
    BY <1>2 DEF CouponFirst
  <2>2. \A c \in C : c.age \in Nat /\ c.age <= N
    <3>1. ASSUME NEW c \in C PROVE c.age \in Nat /\ c.age <= N
      <4>1. c \in Clicks /\ c.age \in Nat /\ Terms[c.program].window \in Nat
            /\ c.age <= Terms[c.program].window
        BY CountingAges
      <4>2. Terms[c.program].window <= N
        BY <4>1 DEF Clicks
      <4> QED
        BY <4>1, <4>2
    <3> QED
      BY <3>1
  <2> HIDE DEF C
  <2>3. PICK l \in Latest(C) : TRUE
    BY <2>1, <2>2, SomeLatest
  <2>4. PICK f \in Earliest(C) : TRUE
    BY <2>1, <2>2, SomeEarliest
  <2>5. ByClick(C) # {}
    BY <2>3, <2>4 DEF ByClick, Latest, Earliest
  <2> QED
    BY <1>2, <2>5, CreditedCases DEF C
<1> QED
  BY <1>1, <1>2

\* Where all programs use the same model, one more click gives its own affiliate the credit or
\* changes nothing: it never moves the credit from one affiliate to a third.  Where the models
\* differ it may (MixedModelsShiftCredit in MCLeads), for the program clicked last chooses among the
\* clicks of all (attribution.ts:128).
THEOREM OneMoreClick ==
  ASSUME NEW e \in Evidence, NEW x \in Clicks, NEW model,
         \A p \in Programs : Terms[p].model = model,
         NEW d \in Credited([e EXCEPT !.clicks = @ \cup {x}])
  PROVE  d = x \/ d \in Credited(e)
<1> DEFINE f == [e EXCEPT !.clicks = @ \cup {x}]
           C == Counting(e)
           D == Counting(f)
<1>1. /\ f.coupon = e.coupon /\ f.offer = e.offer /\ f.clicks = e.clicks \cup {x}
      /\ f \in Evidence
  BY DEF Evidence
<1>2. C \subseteq D /\ D \subseteq C \cup {x}
  BY <1>1 DEF Counting
<1>3. CASE CouponFirst(f)
  <2>1. CouponFirst(e) /\ d = e.coupon
    BY <1>1, <1>2, <1>3, CreditedCases DEF CouponFirst
  <2> QED
    BY <2>1, CreditedCases
<1>4. CASE ~CouponFirst(f)
  <2>1. d \in ByClick(D) /\ d \in D
    BY <1>4, CreditedCases DEF ByClick
  <2>2. CASE C = {}
    BY <2>1, <2>2, <1>2
  <2>3. CASE C # {}
    <3>1. ~CouponFirst(e)
      BY <1>1, <1>2, <1>4, <2>3 DEF CouponFirst
    <3>2. \A c \in C : c.age \in Nat /\ c.program \in Programs
      BY CountingAges DEF Clicks
    <3>3. \A c \in D : c.program \in Programs
      BY <1>1, CountingAges DEF Clicks
    <3> HIDE DEF C, D, f
    <3>4. ASSUME d # x PROVE d \in ByClick(C)
      <4>1. d \in C
        BY <2>1, <1>2, <3>4
      <4>2. PICK l \in Latest(D) : IF Terms[l.program].model = "first_touch" THEN d \in Earliest(D)
                                  ELSE d = l
        BY <2>1 DEF ByClick
      <4>3. l \in D /\ l.program \in Programs
        BY <3>3 DEF Latest
      <4>4. CASE model = "first_touch"
        <5>1. d \in Earliest(C)
          BY <4>1, <4>2, <4>3, <4>4, <1>2 DEF Earliest
        <5>2. PICK k \in Latest(C) : k \in C /\ k.program \in Programs
          BY <2>3, <3>2, SomeLatest DEF Latest
        <5> QED
          BY <4>1, <4>4, <5>1, <5>2 DEF ByClick
      <4>5. CASE model # "first_touch"
        <5>1. d = l /\ d \in Latest(C)
          BY <4>1, <4>2, <4>3, <4>5, <1>2 DEF Latest
        <5>2. Terms[d.program].model # "first_touch"
          BY <4>3, <4>5, <5>1
        <5> QED
          BY <4>1, <5>1, <5>2 DEF ByClick
      <4> QED
        BY <4>4, <4>5
    <3> QED
      BY <3>1, <3>4, CreditedCases DEF C
  <2> QED
    BY <2>2, <2>3
<1> QED
  BY <1>3, <1>4

----------------------------------------------------------------------------
(* Leads: what the tables and the open calls hold.                         *)

Dispositions == {"unknown", "none", "qualified", "disqualified", "duplicate"}
Sales == {"none", "pending", "approved", "cancelled", "reversed", "refunded"}
Commissions == Unpaid \cup {"none", "paid", "void", "reversed"}
LeadRows ==
  [disposition : Dispositions, who : Partners \cup {Null}, program : Programs \cup {Null},
   sale : Sales, commission : Commissions]

Verdicts == {"qualify", "disqualify"}

\* The calls about a lead that is known, and those of them that make a commission earn.
Later == Verdicts \cup Byhand
Granting == {"approve commission", "release"}

TaskRows ==
  [op : {"none", "record"} \cup Later, lead : Leads \cup {Null}, copy : LeadRows \cup {Null},
   sale : LeadRows \cup {Null}, at : {"idle", "begun", "written"}, crossed : BOOLEAN]

LeadShape ==
  /\ leads \in [Leads -> LeadRows]
  /\ task \in [Requests -> TaskRows]
  /\ \A r \in Requests :
       IF task[r].at = "idle" THEN task[r].op = "none" /\ task[r].lead = Null
       ELSE task[r].lead \in Leads /\ task[r].op # "none" /\ task[r].copy \in LeadRows
  /\ \A r \in Requests : task[r].at = "written" => task[r].sale \in LeadRows

LEMMA LeadType ==
  ASSUME NEW disposition \in Dispositions, NEW who \in Partners \cup {Null},
         NEW program \in Programs \cup {Null}, NEW sale \in Sales, NEW commission \in Commissions
  PROVE  LET x == Lead(disposition, [affiliate |-> who, program |-> program], sale, commission)
         IN  /\ x \in LeadRows /\ x.disposition = disposition /\ x.who = who
             /\ x.program = program /\ x.sale = sale /\ x.commission = commission
  BY DEF Lead, LeadRows

\* A credit names an affiliate and a program of the workspace.
LEMMA CreditType ==
  ASSUME NEW e \in Evidence, NEW credit \in Credited(e)
  PROVE  credit.affiliate \in Partners /\ credit.program \in Programs
<1>1. CASE CouponFirst(e)
  <2>1. credit = e.coupon /\ e.coupon # Null
    BY <1>1, CreditedCases DEF CouponFirst
  <2> QED
    BY <2>1 DEF Evidence, Coupons
<1>2. CASE ~CouponFirst(e)
  <2>1. credit \in e.clicks
    BY <1>2, CreditedCases DEF ByClick, Counting
  <2> QED
    BY <2>1 DEF Evidence, Clicks
<1> QED
  BY <1>1, <1>2

\* What recording, judging and paying write.
LEMMA RecordedCopy ==
  ASSUME NEW l \in Leads,
         NEW credit \in IF Credited(Claim[l].evidence) = {} THEN {Nobody(Claim[l].program)}
                        ELSE Credited(Claim[l].evidence)
  PROVE  LET x == Lead("none", credit, "pending", "none")
         IN  x \in LeadRows /\ (x.who # Null => x.program # Null)
<1>1. Claim[l].program \in Programs \cup {Null} /\ Claim[l].evidence \in Evidence
  BY LeadsConstants DEF LeadsConstants
<1>2. /\ credit.affiliate \in Partners \cup {Null} /\ credit.program \in Programs \cup {Null}
      /\ credit.affiliate # Null => credit.program # Null
  <2>1. CASE credit \in Credited(Claim[l].evidence)
    BY <2>1, <1>1, CreditType, AffiliatesConstants DEF AffiliatesConstants
  <2>2. CASE credit = Nobody(Claim[l].program)
    BY <2>2, <1>1 DEF Nobody
  <2> QED
    BY <2>1, <2>2
<1> QED
  BY <1>2 DEF Lead, LeadRows, Dispositions, Sales, Commissions

Earns(x) == x.commission \in Unpaid \cup {"paid"}

\* A lead that may earn: an affiliate's, and no duplicate.
Counts(x) == x.who # Null /\ x.disposition \notin {"unknown", "duplicate"}

\* The row InsertLead writes.
NewRow(r, automatic) ==
  LET who == task[r].copy.who
      credit == [affiliate |-> who, program |-> task[r].copy.program]
      earns(status) == IF who = Null THEN "none" ELSE status
  IN  IF Duplicate(task[r].lead, credit.program) THEN Lead("duplicate", credit, "cancelled", earns("void"))
      ELSE IF automatic /\ who # Null THEN Lead("qualified", credit, "approved", "approved")
      ELSE Lead("none", credit, "pending", earns("pending"))

LEMMA NewRowType ==
  ASSUME NEW r, NEW automatic, task[r].copy \in LeadRows
  PROVE  /\ NewRow(r, automatic) \in LeadRows
         /\ NewRow(r, automatic).program = task[r].copy.program
         /\ NewRow(r, automatic).who = task[r].copy.who
         /\ NewRow(r, automatic).disposition \in {"none", "qualified", "duplicate"}
         /\ NewRow(r, automatic).disposition = "duplicate" =>
              /\ NewRow(r, automatic).sale = "cancelled"
              /\ ~Earns(NewRow(r, automatic))
         /\ NewRow(r, automatic).disposition = "qualified" =>
              /\ NewRow(r, automatic).sale = "approved"
              /\ NewRow(r, automatic).commission = "approved"
         /\ NewRow(r, automatic).disposition = "none" =>
              /\ NewRow(r, automatic).sale = "pending"
              /\ task[r].copy.who # Null => NewRow(r, automatic).commission = "pending"
         /\ Earns(NewRow(r, automatic)) => Counts(NewRow(r, automatic))
         /\ Counts(NewRow(r, automatic)) =>
              /\ task[r].copy.who # Null
              /\ ~Duplicate(task[r].lead, task[r].copy.program)
<1> DEFINE who == task[r].copy.who
           program == task[r].copy.program
           twice == Duplicate(task[r].lead, program)
<1>1. who \in Partners \cup {Null} /\ program \in Programs \cup {Null}
  BY DEF LeadRows
<1>2. NewRow(r, automatic) =
        [disposition |-> IF twice THEN "duplicate"
                         ELSE IF automatic /\ who # Null THEN "qualified" ELSE "none",
         who |-> who, program |-> program,
         sale |-> IF twice THEN "cancelled"
                  ELSE IF automatic /\ who # Null THEN "approved" ELSE "pending",
         commission |-> IF who = Null THEN "none"
                        ELSE IF twice THEN "void" ELSE IF automatic THEN "approved" ELSE "pending"]
  BY DEF NewRow, Lead
<1> HIDE DEF who, program, twice
<1>3. /\ NewRow(r, automatic) \in LeadRows
      /\ NewRow(r, automatic).program = program /\ NewRow(r, automatic).who = who
  BY <1>1, <1>2 DEF LeadRows, Dispositions, Sales, Commissions, Unpaid
<1>4. /\ NewRow(r, automatic).disposition \in {"none", "qualified", "duplicate"}
      /\ NewRow(r, automatic).disposition = "duplicate" =>
           NewRow(r, automatic).sale = "cancelled" /\ ~Earns(NewRow(r, automatic))
      /\ NewRow(r, automatic).disposition = "qualified" =>
           NewRow(r, automatic).sale = "approved" /\ NewRow(r, automatic).commission = "approved"
      /\ NewRow(r, automatic).disposition = "none" =>
           /\ NewRow(r, automatic).sale = "pending"
           /\ who # Null => NewRow(r, automatic).commission = "pending"
      /\ Earns(NewRow(r, automatic)) => Counts(NewRow(r, automatic))
      /\ Counts(NewRow(r, automatic)) => who # Null /\ ~twice
  BY <1>2 DEF Earns, Counts, Unpaid
<1> QED
  BY <1>3, <1>4 DEF who, program, twice

\* What a call that has read copy makes of a lead.
Makes(op, copy, now, made) ==
  \/ op = "qualify" /\ made = Accepted(copy, now)
  \/ op = "disqualify" /\ made = Refused(copy, now)
  \/ op = "cancel" /\ made = TakenBack(now, "cancelled", "void")
  \/ op = "refund" /\ made = TakenBack(now, "refunded", "reversed")
  \/ op = "reverse" /\ made = [now EXCEPT !.commission = "reversed"]
  \/ op = "approve sale" /\ made = [now EXCEPT !.sale = "approved"]
  \/ op = "approve commission" /\ made = [now EXCEPT !.commission = "approved"]
  \/ op = "release" /\ made = Released(copy, now)

\* The same, field by field.
MadeOf(op, copy, now, made) ==
  /\ made \in LeadRows /\ made.who = now.who /\ made.program = now.program
  /\ op = "qualify" =>
       /\ made.disposition = "qualified"
       /\ made.sale = IF copy.sale = "pending" THEN "approved" ELSE now.sale
       /\ made.commission = IF now.commission = "pending" THEN "approved" ELSE now.commission
  /\ op = "disqualify" =>
       /\ made.disposition = "disqualified"
       /\ made.sale = IF copy.sale = "pending" THEN "cancelled"
                      ELSE IF copy.sale = "approved" THEN "reversed" ELSE now.sale
       /\ made.commission = IF now.commission \notin Unpaid THEN now.commission
                            ELSE IF copy.sale = "pending" THEN "void"
                            ELSE IF copy.sale = "approved" THEN "reversed" ELSE now.commission
  /\ op \notin Verdicts => made.disposition = now.disposition
  /\ op = "cancel" =>
       /\ made.sale = "cancelled"
       /\ made.commission = IF now.commission \in Unpaid THEN "void" ELSE now.commission
  /\ op = "refund" =>
       /\ made.sale = "refunded"
       /\ made.commission = IF now.commission \in Unpaid THEN "reversed" ELSE now.commission
  /\ op = "reverse" => made.sale = now.sale /\ made.commission = "reversed"
  /\ op = "approve sale" => made.sale = "approved" /\ made.commission = now.commission
  /\ op = "approve commission" => made.sale = now.sale /\ made.commission = "approved"
  /\ op = "release" =>
       /\ made.sale = IF copy.sale = "pending" /\ now.sale = "pending" THEN "approved" ELSE now.sale
       /\ made.commission = "payable"
  /\ op \in Later

LEMMA MadeFields ==
  ASSUME NEW op, NEW copy \in LeadRows, NEW now \in LeadRows, NEW made, Makes(op, copy, now, made)
  PROVE  MadeOf(op, copy, now, made)
<1> USE DEF Verdicts, MadeOf
<1>0. now.sale \in Sales /\ now.commission \in Commissions /\ now.disposition \in Dispositions
  BY DEF LeadRows
<1>3. op \in {"qualify", "disqualify", "cancel", "refund", "reverse", "approve sale",
             "approve commission", "release"}
  BY DEF Makes
<1>8. op \in Later
  BY <1>3 DEF Later, Verdicts, Byhand, Takings
<1>1. CASE op = "qualify"
  <2> DEFINE sale == IF copy.sale = "pending" THEN "approved" ELSE now.sale
             due == IF now.commission = "pending" THEN "approved" ELSE now.commission
  <2>1. made = [now EXCEPT !.disposition = "qualified", !.sale = sale, !.commission = due]
    BY <1>1 DEF Makes, Accepted
  <2>2. sale \in Sales /\ due \in Commissions /\ "qualified" \in Dispositions
    BY <1>0 DEF Sales, Commissions, Unpaid, Dispositions
  <2> HIDE DEF sale, due
  <2>3. /\ made \in LeadRows /\ made.who = now.who /\ made.program = now.program
        /\ made.disposition = "qualified" /\ made.sale = sale /\ made.commission = due
    BY <1>0, <2>1, <2>2 DEF LeadRows
  <2> QED
    BY <1>1, <1>8, <2>3 DEF sale, due
<1>2. CASE op = "disqualify"
  <2> DEFINE sale == IF copy.sale = "pending" THEN "cancelled"
                     ELSE IF copy.sale = "approved" THEN "reversed" ELSE now.sale
             due == IF now.commission \notin Unpaid THEN now.commission
                    ELSE IF copy.sale = "pending" THEN "void"
                    ELSE IF copy.sale = "approved" THEN "reversed" ELSE now.commission
  <2>1. made = [now EXCEPT !.disposition = "disqualified", !.sale = sale, !.commission = due]
    BY <1>2 DEF Makes, Refused
  <2>2. sale \in Sales /\ due \in Commissions /\ "disqualified" \in Dispositions
    BY <1>0 DEF Sales, Commissions, Unpaid, Dispositions
  <2> HIDE DEF sale, due
  <2>3. /\ made \in LeadRows /\ made.who = now.who /\ made.program = now.program
        /\ made.disposition = "disqualified" /\ made.sale = sale /\ made.commission = due
    BY <1>0, <2>1, <2>2 DEF LeadRows
  <2> QED
    BY <1>2, <1>8, <2>3 DEF sale, due
<1>4. CASE op = "cancel"
  <2> DEFINE due == IF now.commission \in Unpaid THEN "void" ELSE now.commission
  <2>1. made = [now EXCEPT !.sale = "cancelled", !.commission = due]
    BY <1>4 DEF Makes, TakenBack
  <2>2. "cancelled" \in Sales /\ due \in Commissions
    BY <1>0 DEF Sales, Commissions, Unpaid
  <2> HIDE DEF due
  <2>3. /\ made \in LeadRows /\ made.who = now.who /\ made.program = now.program
        /\ made.sale = "cancelled" /\ made.commission = due /\ made.disposition = now.disposition
    BY <1>0, <2>1, <2>2 DEF LeadRows
  <2> QED
    BY <1>4, <2>3, <1>8 DEF due
<1>7. CASE op = "refund"
  <2> DEFINE due == IF now.commission \in Unpaid THEN "reversed" ELSE now.commission
  <2>1. made = [now EXCEPT !.sale = "refunded", !.commission = due]
    BY <1>7 DEF Makes, TakenBack
  <2>2. "refunded" \in Sales /\ due \in Commissions
    BY <1>0 DEF Sales, Commissions, Unpaid
  <2> HIDE DEF due
  <2>3. /\ made \in LeadRows /\ made.who = now.who /\ made.program = now.program
        /\ made.sale = "refunded" /\ made.commission = due /\ made.disposition = now.disposition
    BY <1>0, <2>1, <2>2 DEF LeadRows
  <2> QED
    BY <1>7, <2>3, <1>8 DEF due
<1>5. CASE op \in {"reverse", "approve sale", "approve commission"}
  BY <1>0, <1>5, <1>8 DEF Makes, LeadRows, Sales, Commissions, Unpaid
<1>6. CASE op = "release"
  <2> DEFINE sale == IF copy.sale = "pending" /\ now.sale = "pending" THEN "approved" ELSE now.sale
  <2>1. made = [now EXCEPT !.sale = sale, !.commission = "payable"]
    BY <1>6 DEF Makes, Released
  <2>2. sale \in Sales /\ "payable" \in Commissions
    BY <1>0 DEF Sales, Commissions, Unpaid
  <2> HIDE DEF sale
  <2>3. /\ made \in LeadRows /\ made.who = now.who /\ made.program = now.program
        /\ made.sale = sale /\ made.commission = "payable" /\ made.disposition = now.disposition
    BY <1>0, <2>1, <2>2 DEF LeadRows
  <2> QED
    BY <1>0, <1>6, <1>8, <2>3 DEF sale
<1> QED
  BY <1>1, <1>2, <1>3, <1>4, <1>5, <1>6, <1>7


\* The steps of a call about a lead, with what they make of its task.
LEMMA FreeType == Free \in TaskRows /\ Free.at = "idle" /\ Free.op = "none" /\ Free.lead = Null
  BY DEF Free, TaskRows

LEMMA Beginning ==
  ASSUME LeadShape, NEW r \in Requests, NEW op \in {"record"} \cup Later, NEW l \in Leads,
         NEW copy \in LeadRows, BeginLead(r, op, l, copy)
  PROVE  /\ task[r] = Free
         /\ task' \in [Requests -> TaskRows]
         /\ \A o \in Requests : o # r => task'[o] = task[o]
         /\ task'[r].op = op /\ task'[r].lead = l /\ task'[r].copy = copy
         /\ task'[r].at = "begun" /\ task'[r].crossed = FALSE
         /\ UNCHANGED <<leads, gone, tangled, spent, corrected>>
<1> DEFINE new == [Free EXCEPT !.op = op, !.lead = l, !.copy = copy, !.at = "begun"]
<1>1. /\ new \in TaskRows /\ new.op = op /\ new.lead = l /\ new.copy = copy
      /\ new.at = "begun" /\ new.crossed = FALSE
  BY DEF Free, TaskRows
<1>2. task[r] = Free /\ task' = [task EXCEPT ![r] = new] /\ UNCHANGED <<leads, gone, tangled, spent, corrected>>
  BY DEF BeginLead
<1> HIDE DEF new
<1> QED
  BY <1>1, <1>2 DEF LeadShape

LEMMA Writing ==
  ASSUME LeadShape, NEW r \in Requests, NEW sale \in LeadRows, LeadWritten(r, sale)
  PROVE  /\ task[r].at = "begun" /\ ~LeadLocked(r, task[r].lead)
         /\ task' \in [Requests -> TaskRows]
         /\ \A o \in Requests : o # r => task'[o] = task[o]
         /\ task'[r].op = task[r].op /\ task'[r].lead = task[r].lead
         /\ task'[r].copy = task[r].copy /\ task'[r].sale = sale
         /\ task'[r].at = "written" /\ task'[r].crossed = task[r].crossed
         /\ UNCHANGED <<leads, gone, met, tangled, spent, corrected>>
<1> DEFINE new == [task[r] EXCEPT !.sale = sale, !.at = "written"]
<1>1. task[r] \in TaskRows
  BY DEF LeadShape
<1>2. /\ new \in TaskRows /\ new.op = task[r].op /\ new.lead = task[r].lead /\ new.copy = task[r].copy
      /\ new.sale = sale /\ new.at = "written" /\ new.crossed = task[r].crossed
  BY <1>1 DEF TaskRows
<1>3. /\ task[r].at = "begun" /\ ~LeadLocked(r, task[r].lead) /\ task' = [task EXCEPT ![r] = new]
      /\ UNCHANGED <<leads, gone, met, tangled, spent, corrected>>
  BY DEF LeadWritten
<1> HIDE DEF new
<1> QED
  BY <1>2, <1>3 DEF LeadShape

\* A task learns that its lead was written, and nothing else.
Learns(o, l) ==
  /\ task'[o] \in TaskRows
  /\ task'[o].op = task[o].op /\ task'[o].lead = task[o].lead /\ task'[o].copy = task[o].copy
  /\ task'[o].sale = task[o].sale /\ task'[o].at = task[o].at
  /\ task'[o].crossed <=> (task[o].crossed \/ task[o].lead = l)

LEMMA LearnsIntro ==
  ASSUME LeadShape, NEW o \in Requests, NEW l \in Leads,
         task'[o] = [task[o] EXCEPT !.crossed = @ \/ task[o].lead = l]
  PROVE  Learns(o, l)
<1> DEFINE crossed == task[o].crossed \/ task[o].lead = l
<1>1. task[o] \in TaskRows
  BY DEF LeadShape
<1>2. crossed \in BOOLEAN /\ task'[o] = [task[o] EXCEPT !.crossed = crossed]
  OBVIOUS
<1> HIDE DEF crossed
<1>4. /\ task'[o] \in TaskRows
      /\ task'[o].op = task[o].op /\ task'[o].lead = task[o].lead /\ task'[o].copy = task[o].copy
      /\ task'[o].sale = task[o].sale /\ task'[o].at = task[o].at
      /\ task'[o].crossed = crossed
  BY <1>1, <1>2 DEF TaskRows
<1> QED
  BY <1>4 DEF Learns, crossed

LEMMA Committing ==
  ASSUME LeadShape, NEW r \in Requests, NEW l \in Leads, task[r].lead = l, NEW now \in LeadRows,
         LeadCommit(r, now)
  PROVE  /\ leads' \in [Leads -> LeadRows] /\ leads'[l] = now
         /\ \A k \in Leads : k # l => leads'[k] = leads[k]
         /\ task' \in [Requests -> TaskRows] /\ task'[r] = Free
         /\ \A o \in Requests : o # r => Learns(o, l)
         /\ tangled' = IF task[r].crossed THEN tangled \cup {l} ELSE tangled
         /\ UNCHANGED <<gone, met>>
<1>1. /\ leads' = [leads EXCEPT ![l] = now]
      /\ tangled' = IF task[r].crossed THEN tangled \cup {l} ELSE tangled
      /\ UNCHANGED <<gone, met>>
  BY DEF LeadCommit
<1>2. task' = [o \in Requests |->
                 IF o = r THEN Free ELSE [task[o] EXCEPT !.crossed = @ \/ task[o].lead = l]]
  BY DEF LeadCommit
<1>3. ASSUME NEW o \in Requests, o # r PROVE Learns(o, l)
  BY <1>2, <1>3, LearnsIntro
<1>4. task'[r] = Free
  BY <1>2
<1>5. task' \in [Requests -> TaskRows]
  BY <1>2, <1>3, <1>4, FreeType DEF Learns
<1> QED
  BY <1>1, <1>3, <1>4, <1>5 DEF LeadShape

LEMMA Becoming ==
  ASSUME LeadShape, NEW l \in Leads, NEW sale \in Sales, NEW commission \in Commissions,
         Becomes(l, sale, commission)
  PROVE  /\ leads' \in [Leads -> LeadRows]
         /\ leads'[l].sale = sale /\ leads'[l].commission = commission
         /\ leads'[l].disposition = leads[l].disposition /\ leads'[l].who = leads[l].who
         /\ leads'[l].program = leads[l].program
         /\ \A k \in Leads : k # l => leads'[k] = leads[k]
         /\ task' \in [Requests -> TaskRows]
         /\ \A o \in Requests : Learns(o, l)
         /\ UNCHANGED <<gone, met, tangled, spent, corrected>>
<1>1. /\ leads' = [leads EXCEPT ![l] = [leads[l] EXCEPT !.sale = sale, !.commission = commission]]
      /\ UNCHANGED <<gone, met, tangled, spent, corrected>>
  BY DEF Becomes, LeadShape
<1>2. task' = [o \in Requests |-> [task[o] EXCEPT !.crossed = @ \/ task[o].lead = l]]
  BY DEF Becomes
<1>3. ASSUME NEW o \in Requests PROVE Learns(o, l)
  BY <1>2, <1>3, LearnsIntro
<1>4. task' \in [Requests -> TaskRows]
  BY <1>2, <1>3 DEF Learns
<1>5. leads[l] \in LeadRows
  BY DEF LeadShape
<1> DEFINE new == [leads[l] EXCEPT !.sale = sale, !.commission = commission]
<1>6. /\ new \in LeadRows /\ new.sale = sale /\ new.commission = commission
      /\ new.disposition = leads[l].disposition /\ new.who = leads[l].who
      /\ new.program = leads[l].program
  BY <1>5 DEF LeadRows
<1> HIDE DEF new
<1>7. leads' = [leads EXCEPT ![l] = new]
  BY <1>1 DEF new
<1> QED
  BY <1>1, <1>3, <1>4, <1>6, <1>7 DEF LeadShape


\* What a call must have read to go on.
Permits(op, copy) ==
  /\ op = "qualify" => copy.disposition = "none"
  /\ op = "disqualify" =>
       copy.disposition \notin {"disqualified", "duplicate"} /\ copy.sale # "refunded"
  /\ op \in {"cancel", "approve sale"} => copy.sale = "pending"
  /\ op = "refund" => copy.sale \in {"pending", "approved", "refunded"}
  /\ op = "reverse" => copy.commission \in Unpaid
  /\ op = "approve commission" => copy.commission = "pending"
  /\ op = "release" => copy.commission \in {"pending", "approved"}

\* A step of Leads, by what it does to the tasks.
BeginsOn(r, l) ==
  \E op \in {"record"} \cup Later, copy \in LeadRows :
    /\ BeginLead(r, op, l, copy)
    /\ op = "record" =>
         /\ copy.who # Null => copy.program # Null
         /\ met' = met \cup {{l, task[o].lead} : o \in {o \in Requests : task[o].op = "record"}}
    /\ op # "record" => copy = leads[l] /\ l \in Known /\ met' = met
    /\ Permits(op, copy)

Quiets(r) ==
  /\ task' = [task EXCEPT ![r] = Free]
  /\ UNCHANGED <<leads, gone, met, tangled, spent, corrected>>

Inserts(r, automatic) ==
  /\ task[r].op = "record" /\ task[r].lead \notin Known
  /\ LeadWritten(r, NewRow(r, automatic))

Decides(r) == JudgeLead(r) \/ WriteByHand(r)
Finishes(r) == RecordDone(r) \/ JudgementDone(r) \/ ByHandDone(r)

MovesOn(l) ==
  /\ leads[l].commission \in Unpaid
  /\ Undisturbed(l)
  /\ \E sale \in Sales, commission \in {"payable", "paid"} :
       /\ sale = IF leads[l].sale = "pending" /\ commission = "payable" THEN "approved" ELSE leads[l].sale
       /\ commission = "paid" => leads[l].commission = "payable"
       /\ commission = "payable" => leads[l].commission \in {"pending", "approved"}
       /\ Becomes(l, sale, commission)

LEMMA LeadCases ==
  ASSUME LeadShape, [Next]_vars
  PROVE  \/ UNCHANGED leadVars
         \/ \E r \in Requests, l \in Leads : BeginsOn(r, l)
         \/ \E r \in Requests, automatic \in BOOLEAN :
              Inserts(r, automatic)
         \/ \E r \in Requests : Decides(r) \/ Quiets(r) \/ Finishes(r)
         \/ \E l \in Leads : MovesOn(l)
         \/ UNCHANGED <<leads, task, met, tangled, spent, corrected>> /\ gone \subseteq gone'
<1>1. ASSUME NEW r \in Requests, NEW l \in Leads, RecordLead(r, l) PROVE BeginsOn(r, l)
  <2>1. PICK credit \in IF Credited(Claim[l].evidence) = {} THEN {Nobody(Claim[l].program)}
                        ELSE Credited(Claim[l].evidence) :
          BeginLead(r, "record", l, Lead("none", credit, "pending", "none"))
    BY <1>1 DEF RecordLead
  <2>2. met' = met \cup {{l, task[o].lead} : o \in {o \in Requests : task[o].op = "record"}}
    BY <1>1 DEF RecordLead
  <2> DEFINE copy == Lead("none", credit, "pending", "none")
  <2>3. copy \in LeadRows /\ (copy.who # Null => copy.program # Null)
    BY RecordedCopy
  <2> HIDE DEF copy
  <2>4. BeginLead(r, "record", l, copy)
    BY <2>1 DEF copy
  <2>5. Permits("record", copy)
    BY DEF Permits
  <2> QED
    BY <2>2, <2>3, <2>4, <2>5 DEF BeginsOn
<1>2. ASSUME NEW r \in Requests, NEW l \in Leads,
             \/ QualifyLead(r, l) \/ DisqualifyLead(r, l)
             \/ CancelConversion(r, l) \/ RefundConversion(r, l) \/ ReverseCommission(r, l)
             \/ ApproveConversion(r, l) \/ ApproveCommission(r, l) \/ ReleaseCommission(r, l)
      PROVE  BeginsOn(r, l)
  <2>1. leads[l] \in LeadRows
    BY DEF LeadShape
  <2>2. \E op \in Later : BeginLead(r, op, l, leads[l]) /\ l \in Known /\ met' = met /\ Permits(op, leads[l])
    <3>1. CASE QualifyLead(r, l)
      <4>1. BeginLead(r, "qualify", l, leads[l]) /\ Permits("qualify", leads[l])
        BY <3>1 DEF QualifyLead, Permits
      <4> QED
        BY <4>1, <3>1 DEF QualifyLead, Later, Verdicts
    <3>2. CASE DisqualifyLead(r, l)
      <4>1. BeginLead(r, "disqualify", l, leads[l]) /\ Permits("disqualify", leads[l])
        BY <3>2 DEF DisqualifyLead, Permits
      <4> QED
        BY <4>1, <3>2 DEF DisqualifyLead, Later, Verdicts
    <3>3. ASSUME NEW op \in Byhand, BeginByHand(r, op, l), l \in Known, Permits(op, leads[l])
          PROVE  \E o \in Later : BeginLead(r, o, l, leads[l]) /\ l \in Known /\ met' = met
                                 /\ Permits(o, leads[l])
      BY <3>3 DEF BeginByHand, Later
    <3>4. CASE CancelConversion(r, l)
      BY <3>3, <3>4 DEF CancelConversion, Byhand, Takings, Permits
    <3>5. CASE RefundConversion(r, l)
      BY <3>3, <3>5 DEF RefundConversion, Byhand, Takings, Permits
    <3>6. CASE ReverseCommission(r, l)
      BY <3>3, <3>6 DEF ReverseCommission, Byhand, Takings, Permits
    <3>7. CASE ApproveConversion(r, l)
      BY <3>3, <3>7 DEF ApproveConversion, Byhand, Permits
    <3>8. CASE ApproveCommission(r, l)
      BY <3>3, <3>8 DEF ApproveCommission, Byhand, Permits
    <3>9. CASE ReleaseCommission(r, l)
      BY <3>3, <3>9 DEF ReleaseCommission, Byhand, Permits
    <3> QED
      BY <1>2, <3>1, <3>2, <3>4, <3>5, <3>6, <3>7, <3>8, <3>9
  <2>3. "record" \notin Later
    BY DEF Later, Verdicts, Byhand, Takings
  <2> QED
    BY <2>1, <2>2, <2>3 DEF BeginsOn
<1>3. ASSUME NEW r \in Requests, NEW automatic \in BOOLEAN, InsertLead(r, automatic)
      PROVE  Inserts(r, automatic)
  BY <1>3 DEF InsertLead, NewRow, Inserts
<1>4. ASSUME NEW r \in Requests, LoseLead(r) \/ VoidRefused(r) PROVE Quiets(r)
  BY <1>4 DEF LoseLead, VoidRefused, Quiets
<1>5. ASSUME NEW l \in Leads, SettleLead(l) \/ PayLead(l) PROVE MovesOn(l)
  <2>1. leads[l].sale \in Sales
    BY DEF LeadShape, LeadRows
  <2>2. CASE SettleLead(l)
    BY <2>1, <2>2 DEF SettleLead, MovesOn, Sales, Unpaid
  <2>3. CASE PayLead(l)
    BY <2>1, <2>3 DEF PayLead, MovesOn, Unpaid
  <2> QED
    BY <1>5, <2>2, <2>3
<1>6. ASSUME NEW l \in Leads, LeaveWindow(l) \/ EraseContact(l)
      PROVE  UNCHANGED <<leads, task, met, tangled, spent, corrected>> /\ gone \subseteq gone'
  BY <1>6 DEF LeaveWindow, EraseContact
<1>7. Partnering \/ UNCHANGED vars => UNCHANGED leadVars
  BY DEF Partnering, vars
<1> QED
  BY <1>1, <1>2, <1>3, <1>4, <1>5, <1>6, <1>7 DEF Next, Decides, Finishes


LEMMA DecidingWrites ==
  ASSUME LeadShape, NEW r \in Requests, Decides(r)
  PROVE  \E made \in LeadRows :
           /\ LeadWritten(r, made) /\ task[r].op \in Later
           /\ Makes(task[r].op, task[r].copy, leads[task[r].lead], made)
<1>1. task[r].at = "begun"
  BY DEF Decides, JudgeLead, WriteByHand, LeadWritten
<1>2. task[r].copy \in LeadRows /\ leads[task[r].lead] \in LeadRows
  BY <1>1 DEF LeadShape
<1>3. PICK made : LeadWritten(r, made) /\ Makes(task[r].op, task[r].copy, leads[task[r].lead], made)
  BY DEF Decides, JudgeLead, WriteByHand, Makes
<1>4. MadeOf(task[r].op, task[r].copy, leads[task[r].lead], made)
  BY <1>2, <1>3, MadeFields
<1> QED
  BY <1>3, <1>4 DEF MadeOf

LEMMA DoneCommits ==
  ASSUME LeadShape, NEW r \in Requests, Finishes(r)
  PROVE  /\ task[r].at = "written" /\ task[r].lead \in Leads /\ task[r].sale \in LeadRows
         /\ LeadCommit(r, task[r].sale)
         /\ spent' = IF task[r].op = "disqualify" /\ task[r].sale.commission = "paid"
                     THEN spent \cup {task[r].lead} ELSE spent
         /\ corrected' = IF task[r].op \in Takings THEN corrected \cup {task[r].lead} ELSE corrected
  BY DEF Finishes, RecordDone, JudgementDone, ByHandDone, LeadShape, Byhand, Takings

LEMMA LeadShapeStep ==
  ASSUME LeadShape, [Next]_vars
  PROVE  LeadShape'
<1>1. CASE UNCHANGED leadVars
  BY <1>1 DEF leadVars, LeadShape
<1>2. ASSUME NEW r \in Requests, NEW l \in Leads, BeginsOn(r, l) PROVE LeadShape'
  <2>1. PICK op \in {"record"} \cup Later, copy \in LeadRows : BeginLead(r, op, l, copy)
    BY <1>2 DEF BeginsOn
  <2>2. /\ task' \in [Requests -> TaskRows] /\ leads' = leads
        /\ \A o \in Requests : o # r => task'[o] = task[o]
        /\ task'[r].op = op /\ task'[r].lead = l /\ task'[r].copy = copy /\ task'[r].at = "begun"
    BY <2>1, Beginning
  <2>3. op # "none"
    BY DEF Later, Verdicts, Byhand, Takings
  <2> QED
    BY <2>2, <2>3 DEF LeadShape
<1>3. ASSUME NEW r \in Requests, NEW sale \in LeadRows, LeadWritten(r, sale) PROVE LeadShape'
  BY <1>3, Writing DEF LeadShape
<1>4. ASSUME NEW r \in Requests, NEW automatic \in BOOLEAN, LeadWritten(r, NewRow(r, automatic))
      PROVE  LeadShape'
  <2>1. task[r].copy \in LeadRows
    BY <1>4 DEF LeadWritten, LeadShape
  <2> QED
    BY <1>3, <1>4, <2>1, NewRowType
<1>5. ASSUME NEW r \in Requests, Quiets(r) PROVE LeadShape'
  BY <1>5, FreeType DEF Quiets, LeadShape
<1>6. ASSUME NEW r \in Requests, Finishes(r) PROVE LeadShape'
  BY <1>6, DoneCommits, Committing, FreeType DEF LeadShape, Learns
<1>7. ASSUME NEW l \in Leads, MovesOn(l) PROVE LeadShape'
  <2>1. PICK sale \in Sales, commission \in Commissions : Becomes(l, sale, commission)
    BY <1>7 DEF MovesOn, Commissions, Unpaid
  <2> QED
    BY <2>1, Becoming DEF LeadShape, Learns
<1>8. CASE UNCHANGED <<leads, task, met, tangled, spent, corrected>>
  BY <1>8 DEF LeadShape
<1> QED
  BY <1>1, <1>2, <1>3, <1>4, <1>5, <1>6, <1>7, <1>8, LeadCases, DecidingWrites DEF Inserts

LEMMA LeadInit ==
  ASSUME Init
  PROVE  LeadShape /\ Known = {}
<1>1. Unknown \in LeadRows
  BY DEF Unknown, Lead, Nobody, LeadRows, Dispositions, Sales, Commissions
<1> QED
  BY <1>1, FreeType DEF Init, LeadShape, Known

----------------------------------------------------------------------------
(* The verdict and the money.                                              *)

\* A lead's status, its sale and its commission agree.
Agrees(x, wasSpent, wasCorrected) ==
  /\ x.disposition # "unknown" /\ x.sale # "none"
  /\ x.disposition = "duplicate" => ~Earns(x) /\ x.sale = "cancelled"
  /\ x.disposition = "disqualified" =>
       x.sale \in {"cancelled", "reversed"} /\ (Earns(x) => x.commission = "paid" /\ wasSpent)
  /\ x.disposition = "qualified" /\ ~wasCorrected =>
       x.sale = "approved" /\ (x.who # Null => x.commission \in {"approved", "payable", "paid"})
  /\ x.disposition = "none" /\ ~wasCorrected =>
       x.sale \in {"pending", "approved"} /\ (x.who # Null => Earns(x))
  /\ x.sale \notin {"pending", "approved"} => x.commission \notin Unpaid

\* What a call that no other overlapped has read is what the table holds, it was free to go on, and
\* it writes what it makes of that.
Judged(r) ==
  task[r].op \in Later =>
    /\ task[r].lead \in Known
    /\ task[r].at = "written" => task[r].sale.disposition # "unknown"
    /\ ~task[r].crossed =>
         /\ task[r].copy = leads[task[r].lead] /\ Permits(task[r].op, task[r].copy)
         /\ task[r].at = "written" => Makes(task[r].op, task[r].copy, task[r].copy, task[r].sale)

Recorded(r) == task[r].op = "record" /\ task[r].at = "written" => Agrees(task[r].sale, FALSE, FALSE)

VerdictInv ==
  /\ \A l \in Known : leads[l].disposition # "unknown"
  /\ \A l \in Known \ tangled : Agrees(leads[l], l \in spent, l \in corrected)
  /\ \A r \in Requests : Recorded(r) /\ Judged(r)

LEMMA Kinds == "record" \notin Later /\ "none" \notin Later
  BY DEF Later, Verdicts, Byhand, Takings

\* Every call leaves a lead in agreement that it found so and was free to change.
LEMMA MadeAgrees ==
  ASSUME NEW x \in LeadRows, NEW s \in BOOLEAN, NEW c \in BOOLEAN, Agrees(x, s, c),
         NEW op, Permits(op, x), NEW now, Makes(op, x, x, now),
         NEW t \in BOOLEAN, NEW d \in BOOLEAN, c => d, op \in Takings => d,
         s => t, op = "disqualify" /\ now.commission = "paid" => t
  PROVE  Agrees(now, t, d)
<1>1. x.disposition \in Dispositions /\ x.sale \in Sales /\ x.commission \in Commissions
  BY DEF LeadRows
<1>0. MadeOf(op, x, x, now)
  BY MadeFields
<1>2. now.who = x.who /\ op \in Later
  BY <1>0 DEF MadeOf
<1>3. CASE op = "qualify"
  <2>1. /\ now.disposition = "qualified"
        /\ now.sale = IF x.sale = "pending" THEN "approved" ELSE x.sale
        /\ now.commission = IF x.commission = "pending" THEN "approved" ELSE x.commission
    BY <1>0, <1>3 DEF MadeOf
  <2> QED
    BY <1>2, <1>3, <2>1 DEF Agrees, Permits, Earns, Unpaid
<1>4. CASE op = "disqualify"
  <2>1. /\ now.disposition = "disqualified"
        /\ now.sale = IF x.sale = "pending" THEN "cancelled"
                      ELSE IF x.sale = "approved" THEN "reversed" ELSE x.sale
        /\ now.commission = IF x.commission \notin Unpaid THEN x.commission
                            ELSE IF x.sale = "pending" THEN "void"
                            ELSE IF x.sale = "approved" THEN "reversed" ELSE x.commission
    BY <1>0, <1>4 DEF MadeOf
  <2> QED
    BY <1>1, <1>4, <2>1 DEF Agrees, Permits, Earns, Unpaid, Sales
<1>5. CASE op \in {"cancel", "refund"}
  <2>1. /\ now.disposition = x.disposition
        /\ now.sale = IF op = "cancel" THEN "cancelled" ELSE "refunded"
        /\ now.commission = IF x.commission \notin Unpaid THEN x.commission
                            ELSE IF op = "cancel" THEN "void" ELSE "reversed"
    BY <1>0, <1>5 DEF MadeOf, Verdicts
  <2>2. d
    BY <1>5 DEF Takings
  <2> QED
    BY <1>5, <2>1, <2>2 DEF Agrees, Permits, Unpaid
<1>6. CASE op = "reverse"
  <2>1. now.disposition = x.disposition /\ now.sale = x.sale /\ now.commission = "reversed"
    BY <1>0, <1>6 DEF MadeOf, Verdicts
  <2>2. d
    BY <1>6 DEF Takings
  <2> QED
    BY <1>6, <2>1, <2>2 DEF Agrees, Permits, Earns, Unpaid
<1>7. CASE op = "approve sale"
  <2>1. now.disposition = x.disposition /\ now.sale = "approved" /\ now.commission = x.commission
    BY <1>0, <1>7 DEF MadeOf, Verdicts
  <2> QED
    BY <1>2, <1>7, <2>1 DEF Agrees, Permits, Earns
<1>8. CASE op \in Granting
  <2>1. /\ now.disposition = x.disposition /\ now.commission \in {"approved", "payable"}
        /\ now.sale \in {x.sale} \/ (x.sale = "pending" /\ now.sale = "approved")
    BY <1>0, <1>8 DEF MadeOf, Granting, Verdicts
  <2>2. x.commission \in {"pending", "approved"}
    BY <1>8 DEF Granting, Permits
  <2> QED
    BY <1>2, <2>1, <2>2 DEF Agrees, Earns, Unpaid
<1> QED
  BY <1>2, <1>3, <1>4, <1>5, <1>6, <1>7, <1>8 DEF Later, Verdicts, Byhand, Takings, Granting

\* A task that stays as it is, over leads that stay as they are.
LEMMA SameTask ==
  ASSUME VerdictInv, NEW o \in Requests, task'[o] = task[o], leads' = leads, Known' = Known
  PROVE  Recorded(o)' /\ Judged(o)'
<1>1. Recorded(o) /\ Judged(o)
  BY DEF VerdictInv
<1>2. Recorded(o)'
  BY <1>1 DEF Recorded, Agrees, Earns
<1>3. Judged(o)'
  BY <1>1 DEF Judged, Makes
<1> QED
  BY <1>2, <1>3

LEMMA VerdictBegin ==
  ASSUME LeadShape, VerdictInv, NEW r \in Requests, NEW l \in Leads, BeginsOn(r, l)
  PROVE  VerdictInv'
<1>0. PICK op \in {"record"} \cup Later, copy \in LeadRows :
      /\ BeginLead(r, op, l, copy)
      /\ op # "record" => copy = leads[l] /\ l \in Known
      /\ Permits(op, copy)
  BY DEF BeginsOn
<1>1. /\ \A o \in Requests : o # r => task'[o] = task[o]
      /\ task'[r].op = op /\ task'[r].lead = l /\ task'[r].copy = copy
      /\ task'[r].at = "begun" /\ task'[r].crossed = FALSE
      /\ UNCHANGED <<leads, gone, tangled, spent, corrected>>
  <2>1. BeginLead(r, op, l, copy)
    BY <1>0
  <2> QED
    BY <2>1, Beginning
<1>2. Known' = Known
  BY <1>1 DEF Known
<1>3. Recorded(r)'
  BY <1>1 DEF Recorded
<1>4. Judged(r)'
  <2>1. Permits(task'[r].op, task'[r].copy)
    BY <1>0, <1>1
  <2> QED
    BY <1>0, <1>1, <1>2, <2>1, Kinds DEF Judged
<1>5. ASSUME NEW o \in Requests, o # r PROVE Recorded(o)' /\ Judged(o)'
  BY <1>1, <1>2, <1>5, SameTask
<1> QED
  BY <1>1, <1>2, <1>3, <1>4, <1>5 DEF VerdictInv, Agrees, Earns

LEMMA VerdictInsert ==
  ASSUME LeadShape, VerdictInv, NEW r \in Requests, NEW automatic \in BOOLEAN,
         Inserts(r, automatic)
  PROVE  VerdictInv'
<1> DEFINE sale == NewRow(r, automatic)
<1>1. task[r].copy \in LeadRows
  BY DEF Inserts, LeadWritten, LeadShape
<1>2. sale \in LeadRows /\ Agrees(sale, FALSE, FALSE)
  <2>1. sale.disposition \in {"none", "qualified", "duplicate"} /\ sale.who = task[r].copy.who
    BY <1>1, NewRowType
  <2> HIDE DEF sale
  <2>2. /\ sale \in LeadRows
        /\ sale.disposition = "duplicate" => sale.sale = "cancelled" /\ ~Earns(sale)
        /\ sale.disposition = "qualified" => sale.sale = "approved" /\ sale.commission = "approved"
        /\ sale.disposition = "none" =>
             sale.sale = "pending" /\ (task[r].copy.who # Null => sale.commission = "pending")
    BY <1>1, NewRowType DEF sale
  <2> QED
    BY <2>1, <2>2 DEF Agrees, Earns, Unpaid
<1> HIDE DEF sale
<1>3. /\ \A o \in Requests : o # r => task'[o] = task[o]
      /\ task'[r].op = "record" /\ task'[r].sale = sale /\ UNCHANGED <<leads, gone, tangled, spent, corrected>>
  BY <1>2, Writing DEF sale, Inserts
<1>4. Known' = Known
  BY <1>3 DEF Known
<1>5. Recorded(r)' /\ Judged(r)'
  BY <1>2, <1>3, Kinds DEF Recorded, Judged, Agrees, Earns
<1>6. ASSUME NEW o \in Requests, o # r PROVE Recorded(o)' /\ Judged(o)'
  BY <1>3, <1>4, <1>6, SameTask
<1> QED
  BY <1>3, <1>4, <1>5, <1>6 DEF VerdictInv, Agrees, Earns

LEMMA VerdictDecide ==
  ASSUME LeadShape, VerdictInv, NEW r \in Requests, Decides(r)
  PROVE  VerdictInv'
<1> PICK made \in LeadRows :
      /\ LeadWritten(r, made) /\ task[r].op \in Later
      /\ Makes(task[r].op, task[r].copy, leads[task[r].lead], made)
  BY DecidingWrites
<1>1. /\ \A o \in Requests : o # r => task'[o] = task[o]
      /\ task'[r].op = task[r].op /\ task'[r].lead = task[r].lead
      /\ task'[r].copy = task[r].copy /\ task'[r].sale = made
      /\ task'[r].at = "written" /\ task'[r].crossed = task[r].crossed
      /\ UNCHANGED <<leads, gone, tangled, spent, corrected>>
  BY Writing
<1>2. Known' = Known
  BY <1>1 DEF Known
<1>3. task[r].lead \in Known
  BY DEF VerdictInv, Judged
<1>4. made.disposition # "unknown"
  <2>1. task[r].copy \in LeadRows /\ leads[task[r].lead] \in LeadRows
    BY DEF LeadWritten, LeadShape
  <2>2. leads[task[r].lead].disposition # "unknown"
    BY <1>3 DEF VerdictInv
  <2> QED
    <3>1. MadeOf(task[r].op, task[r].copy, leads[task[r].lead], made)
      BY <2>1, MadeFields
    <3> QED
      BY <2>2, <3>1 DEF MadeOf, Verdicts
<1>5. ~task[r].crossed =>
        /\ task[r].copy = leads[task[r].lead] /\ Permits(task[r].op, task[r].copy)
        /\ Makes(task[r].op, task[r].copy, task[r].copy, made)
  BY DEF VerdictInv, Judged
<1>6. Judged(r)'
  <2>1. ~task'[r].crossed =>
          /\ task'[r].copy = leads'[task'[r].lead] /\ Permits(task'[r].op, task'[r].copy)
          /\ Makes(task[r].op, task[r].copy, task[r].copy, made)
    BY <1>1, <1>5
  <2>2. Makes(task[r].op, task[r].copy, task[r].copy, made) =>
          Makes(task'[r].op, task'[r].copy, task'[r].copy, task'[r].sale)
    BY <1>1
  <2> QED
    BY <2>1, <2>2, <1>1, <1>2, <1>3, <1>4 DEF Judged
<1>7. Recorded(r)'
  BY <1>1, Kinds DEF Recorded
<1>8. ASSUME NEW o \in Requests, o # r PROVE Recorded(o)' /\ Judged(o)'
  BY <1>1, <1>2, <1>8, SameTask
<1> QED
  BY <1>1, <1>2, <1>6, <1>7, <1>8 DEF VerdictInv, Agrees, Earns

\* A lead that is written is known from then on.
LEMMA KnownCommit ==
  ASSUME NEW l \in Leads, leads'[l].disposition # "unknown",
         \A k \in Leads : k # l => leads'[k] = leads[k]
  PROVE  Known' = Known \cup {l}
<1>1. leads'[l] # Unknown
  BY DEF Unknown, Lead
<1> QED
  BY <1>1 DEF Known

LEMMA VerdictCommit ==
  ASSUME LeadShape, VerdictInv, NEW r \in Requests, Finishes(r)
  PROVE  VerdictInv'
<1> DEFINE l == task[r].lead
           now == task[r].sale
<1>1. /\ task[r].at = "written" /\ l \in Leads /\ now \in LeadRows /\ LeadCommit(r, now)
      /\ spent' = IF task[r].op = "disqualify" /\ now.commission = "paid" THEN spent \cup {l} ELSE spent
      /\ corrected' = IF task[r].op \in Takings THEN corrected \cup {l} ELSE corrected
  BY DoneCommits
<1>2. task[r].op \in {"record"} \cup Later
  BY <1>1 DEF LeadShape, TaskRows
<1>0. Recorded(r) /\ Judged(r)
  BY DEF VerdictInv
<1> HIDE DEF l, now
<1>3. /\ leads'[l] = now /\ \A k \in Leads : k # l => leads'[k] = leads[k]
      /\ task'[r] = Free
      /\ \A o \in Requests : o # r => Learns(o, l)
      /\ tangled' = IF task[r].crossed THEN tangled \cup {l} ELSE tangled
  BY <1>1, Committing DEF l
<1>4. now.disposition # "unknown"
  BY <1>0, <1>1, <1>2 DEF Recorded, Judged, Agrees, now
<1>5. Known' = Known \cup {l}
  BY <1>1, <1>3, <1>4, KnownCommit
<1>6. ASSUME l \notin tangled' PROVE Agrees(now, l \in spent', l \in corrected')
  <2>1. ~task[r].crossed /\ l \notin tangled
    BY <1>3, <1>6
  <2>2. CASE task[r].op = "record"
    <3>1. Agrees(now, FALSE, FALSE)
      BY <2>2, <1>0, <1>1 DEF Recorded, now
    <3> DEFINE t == l \in spent'
               d == l \in corrected'
    <3>2. t \in BOOLEAN /\ d \in BOOLEAN
      OBVIOUS
    <3> HIDE DEF t, d
    <3>3. Agrees(now, t, d)
      BY <3>1, <3>2 DEF Agrees
    <3> QED
      BY <3>3 DEF t, d
  <2>3. CASE task[r].op \in Later
    <3>1. l \in Known /\ task[r].copy = leads[l] /\ leads[l] \in LeadRows
      BY <2>1, <2>3, <1>0, <1>1 DEF Judged, LeadShape, l
    <3>2. Agrees(leads[l], l \in spent, l \in corrected)
      BY <2>1, <3>1 DEF VerdictInv
    <3>3. Permits(task[r].op, leads[l])
      BY <2>1, <2>3, <3>1, <1>0 DEF Judged
    <3>4. Makes(task[r].op, leads[l], leads[l], now)
      BY <2>1, <2>3, <3>1, <1>0, <1>1 DEF Judged, now
    <3>5. /\ l \in spent => l \in spent'
          /\ l \in corrected => l \in corrected'
          /\ task[r].op \in Takings => l \in corrected'
          /\ task[r].op = "disqualify" /\ now.commission = "paid" => l \in spent'
      BY <1>1
    <3> DEFINE op == task[r].op
    <3>6. /\ Permits(op, leads[l]) /\ Makes(op, leads[l], leads[l], now)
          /\ op \in Takings => l \in corrected'
          /\ op = "disqualify" /\ now.commission = "paid" => l \in spent'
      BY <3>3, <3>4, <3>5
    <3> DEFINE s == l \in spent
               c == l \in corrected
               t == l \in spent'
               d == l \in corrected'
    <3>7. /\ s \in BOOLEAN /\ c \in BOOLEAN /\ t \in BOOLEAN /\ d \in BOOLEAN
          /\ c => d
          /\ s => t
      BY <3>5
    <3>8. Agrees(leads[l], s, c)
      BY <3>2
    <3>9. /\ op \in Takings => d
          /\ op = "disqualify" /\ now.commission = "paid" => t
      BY <3>6
    <3> HIDE DEF op, s, c, t, d
    <3>10. Agrees(now, t, d)
      BY <3>1, <3>6, <3>7, <3>8, <3>9, MadeAgrees
    <3> QED
      BY <3>10 DEF t, d
  <2> QED
    BY <1>2, <2>2, <2>3
<1>7. \A k \in Known' : leads'[k].disposition # "unknown"
  BY <1>3, <1>4, <1>5 DEF VerdictInv, Known
<1>8. \A k \in Known' \ tangled' : Agrees(leads'[k], k \in spent', k \in corrected')
  <2> TAKE k \in Known' \ tangled'
  <2>1. CASE k = l
    BY <2>1, <1>3, <1>6
  <2>2. CASE k # l
    <3>1. /\ k \in Known \ tangled /\ leads'[k] = leads[k]
          /\ (k \in spent <=> k \in spent') /\ (k \in corrected <=> k \in corrected')
      BY <2>2, <1>1, <1>3, <1>5 DEF Known
    <3> QED
      BY <3>1 DEF VerdictInv, Agrees
  <2> QED
    BY <2>1, <2>2
<1>9. ASSUME NEW o \in Requests, o # r, task'[o].op \in Later
      PROVE  /\ task'[o].lead \in Known'
             /\ ~task'[o].crossed =>
                  ~task[o].crossed /\ leads'[task'[o].lead] = leads[task[o].lead]
  <2>1. Learns(o, l)
    BY <1>3, <1>9
  <2>2. task[o].lead \in Known /\ task'[o].lead = task[o].lead
    BY <2>1, <1>9 DEF Learns, VerdictInv, Judged
  <2>3. ~task'[o].crossed => task[o].lead # l /\ ~task[o].crossed
    BY <2>1 DEF Learns
  <2> QED
    BY <2>2, <2>3, <1>3, <1>5 DEF Known
<1>10. \A o \in Requests : o # r =>
         /\ task'[o].op = task[o].op /\ task'[o].lead = task[o].lead /\ task'[o].copy = task[o].copy
         /\ task'[o].sale = task[o].sale /\ task'[o].at = task[o].at
  BY <1>3 DEF Learns
<1>11. task'[r].op = "none"
  BY <1>3, FreeType
<1>12. ASSUME NEW o \in Requests PROVE Recorded(o)' /\ Judged(o)'
  <2>1. CASE o = r
    BY <2>1, <1>11, Kinds DEF Recorded, Judged
  <2>2. CASE o # r
    <3>1. Recorded(o) /\ Judged(o)
      BY DEF VerdictInv
    <3>2. Recorded(o)'
      BY <2>2, <3>1, <1>10 DEF Recorded, Agrees, Earns
    <3>3. Judged(o)'
      BY <2>2, <3>1, <1>9, <1>10 DEF Judged, Makes
    <3> QED
      BY <3>2, <3>3
  <2> QED
    BY <2>1, <2>2
<1>13. \A k \in (Known \ tangled)' : Agrees(leads[k], k \in spent, k \in corrected)'
  BY <1>8 DEF Agrees, Earns
<1> QED
  BY <1>7, <1>12, <1>13 DEF VerdictInv

LEMMA VerdictMoves ==
  ASSUME LeadShape, VerdictInv, NEW l \in Leads, MovesOn(l)
  PROVE  VerdictInv'
<1> PICK sale \in Sales, commission \in {"payable", "paid"} :
      /\ sale = IF leads[l].sale = "pending" /\ commission = "payable" THEN "approved" ELSE leads[l].sale
      /\ commission = "paid" => leads[l].commission = "payable"
      /\ commission = "payable" => leads[l].commission \in {"pending", "approved"}
      /\ Becomes(l, sale, commission)
  BY DEF MovesOn
<1>1. /\ leads'[l].sale = sale /\ leads'[l].commission = commission
      /\ leads'[l].disposition = leads[l].disposition /\ leads'[l].who = leads[l].who
      /\ \A k \in Leads : k # l => leads'[k] = leads[k]
      /\ \A o \in Requests : Learns(o, l)
      /\ UNCHANGED <<gone, met, tangled, spent, corrected>>
  <2>1. commission \in Commissions
    BY DEF Commissions, Unpaid
  <2> QED
    BY <2>1, Becoming
<1>2. leads[l].commission \in Unpaid /\ l \in Known
  BY DEF MovesOn, Known, Unknown, Lead, Unpaid
<1>3. leads'[l].disposition # "unknown"
  BY <1>1, <1>2 DEF VerdictInv
<1>4. Known' = Known
  BY <1>1, <1>2, <1>3, KnownCommit DEF Known
<1>5. ASSUME l \notin tangled PROVE Agrees(leads'[l], l \in spent, l \in corrected)
  <2>1. Agrees(leads[l], l \in spent, l \in corrected)
    BY <1>2, <1>5 DEF VerdictInv
  <2> QED
    BY <2>1, <1>1, <1>2 DEF Agrees, Earns, Unpaid
<1>6. \A k \in Known : leads'[k].disposition # "unknown"
  BY <1>1, <1>3 DEF VerdictInv, Known
<1>7. \A k \in Known \ tangled : Agrees(leads'[k], k \in spent, k \in corrected)
  BY <1>1, <1>5 DEF VerdictInv, Known
<1>8. ASSUME NEW o \in Requests, task'[o].op \in Later, ~task'[o].crossed
      PROVE  leads'[task'[o].lead] = leads[task[o].lead] /\ ~task[o].crossed
  <2>1. task[o].lead # l /\ ~task[o].crossed /\ task[o].op \in Later /\ task'[o].lead = task[o].lead
    BY <1>1, <1>8 DEF Learns
  <2>2. task[o].lead \in Known
    BY <2>1 DEF VerdictInv, Judged
  <2> QED
    BY <2>1, <2>2, <1>1 DEF Known
<1>9. \A o \in Requests :
        /\ task'[o].op = task[o].op /\ task'[o].lead = task[o].lead /\ task'[o].copy = task[o].copy
        /\ task'[o].sale = task[o].sale /\ task'[o].at = task[o].at
  BY <1>1 DEF Learns
<1>10. ASSUME NEW o \in Requests PROVE Recorded(o)' /\ Judged(o)'
  <2>1. Recorded(o) /\ Judged(o)
    BY DEF VerdictInv
  <2>2. Recorded(o)'
    BY <2>1, <1>9 DEF Recorded, Agrees, Earns
  <2>3. Judged(o)'
    BY <2>1, <1>4, <1>8, <1>9 DEF Judged, Makes
  <2> QED
    BY <2>2, <2>3
<1>11. \A k \in (Known \ tangled)' : Agrees(leads[k], k \in spent, k \in corrected)'
  BY <1>1, <1>4, <1>7 DEF Agrees, Earns
<1> QED
  BY <1>4, <1>6, <1>10, <1>11 DEF VerdictInv

LEMMA VerdictStep ==
  ASSUME LeadShape, VerdictInv, [Next]_vars
  PROVE  VerdictInv'
<1>1. CASE UNCHANGED <<leads, task, tangled, spent, corrected>>
  <2>1. ASSUME NEW o \in Requests PROVE Recorded(o)' /\ Judged(o)'
    BY <1>1 DEF VerdictInv, Recorded, Judged, Known, Agrees, Earns, Makes
  <2> QED
    BY <1>1, <2>1 DEF VerdictInv, Known, Agrees, Earns
<1>2. ASSUME NEW r \in Requests, Quiets(r) PROVE VerdictInv'
  <2>1. task' = [task EXCEPT ![r] = Free] /\ UNCHANGED <<leads, tangled, spent, corrected>>
    BY <1>2 DEF Quiets
  <2>2. \A o \in Requests : o # r => task'[o] = task[o]
    BY <2>1 DEF LeadShape
  <2>3. task'[r].op = "none"
    BY <2>1, FreeType DEF LeadShape
  <2>4. ASSUME NEW o \in Requests PROVE Recorded(o)' /\ Judged(o)'
    <3>1. CASE o = r
      BY <3>1, <2>3, Kinds DEF Recorded, Judged
    <3>2. CASE o # r
      <4>1. Known' = Known
        BY <2>1 DEF Known
      <4> QED
        BY <3>2, <2>1, <2>2, <4>1, SameTask
    <3> QED
      BY <3>1, <3>2
  <2>5. /\ \A l \in Known' : leads'[l].disposition # "unknown"
        /\ \A l \in (Known \ tangled)' : Agrees(leads[l], l \in spent, l \in corrected)'
    BY <2>1 DEF VerdictInv, Known, Agrees, Earns
  <2> QED
    BY <2>4, <2>5 DEF VerdictInv
<1>3. UNCHANGED leadVars => UNCHANGED <<leads, task, tangled, spent, corrected>>
  BY DEF leadVars
<1> QED
  BY <1>1, <1>2, <1>3, LeadCases, VerdictBegin, VerdictInsert, VerdictDecide, VerdictCommit, VerdictMoves

\* The merchant's verdict and the money agree (leads.ts:155-207): a duplicate earns nothing, nor does
\* a disqualified lead unless it was paid before; a qualified lead's commission is on its way, unless
\* the merchant took it back by hand; and a sale that is off earns nothing more, whatever the verdict.
\* Unless two calls about the lead overlapped.
THEOREM VerdictHoldsCorrect == Spec => []VerdictHolds
<1>1. Init => LeadShape /\ VerdictInv
  <2> SUFFICES ASSUME Init PROVE LeadShape /\ VerdictInv
    OBVIOUS
  <2>1. LeadShape /\ Known = {} /\ \A r \in Requests : task[r] = Free
    BY LeadInit DEF Init
  <2> QED
    BY <2>1, FreeType, Kinds DEF VerdictInv, Recorded, Judged
<1>2. LeadShape /\ VerdictInv /\ [Next]_vars => LeadShape' /\ VerdictInv'
  BY LeadShapeStep, VerdictStep
<1>3. LeadShape /\ VerdictInv => VerdictHolds
  <2> SUFFICES ASSUME LeadShape, VerdictInv, NEW l \in Known \ tangled
               PROVE  /\ CASE leads[l].disposition = "duplicate" ->
                                ~Earning(l) /\ leads[l].sale = "cancelled"
                           [] leads[l].disposition = "disqualified" ->
                                /\ leads[l].sale \in {"cancelled", "reversed"}
                                /\ Earning(l) => leads[l].commission = "paid" /\ l \in spent
                           [] leads[l].disposition = "qualified" /\ l \notin corrected ->
                                /\ leads[l].sale = "approved"
                                /\ leads[l].who # Null =>
                                     leads[l].commission \in {"approved", "payable", "paid"}
                           [] OTHER -> leads[l].sale \in {"pending", "approved"} \/ l \in corrected
                      /\ leads[l].sale \notin {"pending", "approved"} =>
                           leads[l].commission \notin Unpaid
    BY DEF VerdictHolds
  <2>1. /\ Agrees(leads[l], l \in spent, l \in corrected)
        /\ leads[l].disposition \in Dispositions
    BY DEF VerdictInv, LeadShape, LeadRows, Known
  <2>2. Earning(l) <=> Earns(leads[l])
    BY DEF Earning, Earns
  <2> QED
    BY <2>1, <2>2 DEF Agrees, Dispositions
<1> QED
  BY <1>1, <1>2, <1>3, PTL DEF Spec


----------------------------------------------------------------------------
(* One pay for a person.                                                   *)

Excused(k, l) == {k, l} \in met \/ {k, l} \cap gone # {}

\* A row that is to be lead l's is no second pay for a person.
FirstPay(l, x) ==
  Counts(x) =>
    \A k \in Leads : k # l /\ Counts(leads[k]) /\ Claim[k].person = Claim[l].person
                     /\ leads[k].program = x.program => Excused(k, l)

\* Only a lead that counts earns.
Due(x) == Earns(x) => Counts(x)

\* What a call that records is going to write.
Records(r) ==
  task[r].op = "record" =>
    /\ task[r].copy.who # Null => task[r].copy.program # Null
    /\ task[r].at = "written" =>
         /\ task[r].lead \notin Known
         /\ task[r].sale.disposition # "unknown"
         /\ Due(task[r].sale)
         /\ FirstPay(task[r].lead, task[r].sale)

\* Rewriting a lead makes it nobody else's, and no duplicate another kind of lead.
Same(x, y) ==
  /\ x.who = y.who /\ x.program = y.program /\ x.disposition # "unknown"
  /\ (x.disposition = "duplicate") <=> (y.disposition = "duplicate")

\* A verdict is passed on no duplicate, and a commission is only granted to a lead that counts.
Judges(r) ==
  task[r].op \in Later =>
    /\ task[r].lead \in Known
    /\ task[r].op \in Verdicts => leads[task[r].lead].disposition # "duplicate"
    /\ task[r].op \in Granting => Counts(leads[task[r].lead])
    /\ task[r].at = "written" => Same(task[r].sale, leads[task[r].lead]) /\ Due(task[r].sale)

Apart(r, o) ==
  r # o =>
    /\ task[r].at = "written" /\ task[o].at = "written" => task[r].lead # task[o].lead
    /\ task[r].op = "record" /\ task[o].op = "record" => {task[r].lead, task[o].lead} \in met

PayInv ==
  /\ \A l \in Known : leads[l].disposition # "unknown"
  /\ \A l \in Leads : Due(leads[l])
  /\ \A l \in Leads : FirstPay(l, leads[l])
  /\ \A r \in Requests : Records(r) /\ Judges(r)
  /\ \A r, o \in Requests : Apart(r, o)

LEMMA PayBegin ==
  ASSUME LeadShape, PayInv, NEW r \in Requests, NEW l \in Leads, BeginsOn(r, l)
  PROVE  PayInv'
<1>0. PICK op \in {"record"} \cup Later, copy \in LeadRows :
      /\ BeginLead(r, op, l, copy)
      /\ op = "record" =>
           /\ copy.who # Null => copy.program # Null
           /\ met' = met \cup {{l, task[o].lead} : o \in {o \in Requests : task[o].op = "record"}}
      /\ op # "record" => copy = leads[l] /\ l \in Known /\ met' = met
      /\ Permits(op, copy)
  BY DEF BeginsOn
<1>1. /\ \A o \in Requests : o # r => task'[o] = task[o]
      /\ task'[r].op = op /\ task'[r].lead = l /\ task'[r].copy = copy /\ task'[r].at = "begun"
      /\ UNCHANGED <<leads, gone, tangled, spent, corrected>>
  <2>1. BeginLead(r, op, l, copy)
    BY <1>0
  <2> QED
    BY <2>1, Beginning
<1>2. met \subseteq met' /\ Known' = Known
  BY <1>0, <1>1 DEF Known
<1>3. \A k, m \in Leads : Excused(k, m) => Excused(k, m)'
  BY <1>1, <1>2 DEF Excused
<1>4. ASSUME NEW m \in Leads, NEW x, FirstPay(m, x) PROVE FirstPay(m, x)'
  BY <1>1, <1>3, <1>4 DEF FirstPay, Counts
<1>5. ASSUME NEW o \in Requests PROVE Records(o)' /\ Judges(o)'
  <2>1. CASE o = r
    <3>1. Records(r)'
      BY <1>0, <1>1 DEF Records
    <3>2. op \in Verdicts => leads[l].disposition # "duplicate"
      BY <1>0 DEF Permits, Verdicts
    <3>3. op \in Granting => Counts(leads[l])
      BY <1>0 DEF Permits, Granting, PayInv, Due, Earns, Unpaid
    <3>4. Judges(r)'
      BY <1>0, <1>1, <1>2, <3>2, <3>3, Kinds DEF Judges, Counts
    <3> QED
      BY <2>1, <3>1, <3>4
  <2>2. CASE o # r
    <3>1. Records(o) /\ Judges(o) /\ task'[o] = task[o]
      BY <2>2, <1>1 DEF PayInv
    <3>2. task[o].at = "written" => task[o].lead \in Leads
      BY DEF LeadShape
    <3>3. Judges(o)'
      BY <3>1, <1>1, <1>2 DEF Judges, Counts, Same, Due, Earns
    <3>4. Records(o)'
      BY <3>1, <3>2, <1>2, <1>4 DEF Records, Due, Counts, Earns
    <3> QED
      BY <3>3, <3>4
  <2> QED
    BY <2>1, <2>2
<1>6. ASSUME NEW o \in Requests, NEW q \in Requests PROVE Apart(o, q)'
  <2>1. CASE o # r /\ q # r
    BY <2>1, <1>1, <1>2 DEF PayInv, Apart
  <2>2. ASSUME NEW p \in Requests, p # r, op = "record", task[p].op = "record"
        PROVE  {l, task[p].lead} \in met' /\ {task[p].lead, l} \in met'
    <3>1. {l, task[p].lead} \in met'
      BY <2>2, <1>0
    <3>2. {l, task[p].lead} = {task[p].lead, l}
      OBVIOUS
    <3> QED
      BY <3>1, <3>2
  <2>3. CASE o = r \/ q = r
    BY <2>2, <2>3, <1>1 DEF Apart
  <2> QED
    BY <2>1, <2>3
<1>7. \A m \in Leads : FirstPay(m, leads[m])'
  <2> TAKE m \in Leads
  <2>1. FirstPay(m, leads[m])
    BY DEF PayInv
  <2> QED
    BY <2>1, <1>1, <1>3 DEF FirstPay, Counts
<1>8. (\A m \in Known : leads[m].disposition # "unknown")' /\ (\A m \in Leads : Due(leads[m]))'
  BY <1>1, <1>2 DEF PayInv, Due, Counts, Earns
<1> QED
  BY <1>5, <1>6, <1>7, <1>8 DEF PayInv

\* What a write keeps: all but the task that writes.
LEMMA PayWriting ==
  ASSUME LeadShape, PayInv, NEW r \in Requests, NEW sale \in LeadRows, LeadWritten(r, sale),
         Records(r)' /\ Judges(r)'
  PROVE  PayInv'
<1>1. /\ \A o \in Requests : o # r => task'[o] = task[o]
      /\ task'[r].op = task[r].op /\ task'[r].lead = task[r].lead
      /\ ~LeadLocked(r, task[r].lead)
      /\ UNCHANGED <<leads, gone, met, tangled, spent, corrected>>
  BY Writing
<1>2. Known' = Known /\ \A k, m \in Leads : Excused(k, m)' <=> Excused(k, m)
  BY <1>1 DEF Known, Excused
<1>3. ASSUME NEW o \in Requests PROVE Records(o)' /\ Judges(o)'
  <2>1. CASE o # r
    <3>1. Records(o) /\ Judges(o) /\ task'[o] = task[o]
      BY <2>1, <1>1 DEF PayInv
    <3>2. task[o].at = "written" => task[o].lead \in Leads
      BY DEF LeadShape
    <3>3. Judges(o)'
      BY <3>1, <1>1, <1>2 DEF Judges, Counts, Same, Due, Earns
    <3>4. Records(o)'
      BY <3>1, <3>2, <1>1, <1>2 DEF Records, Earns, Due, Counts, FirstPay
    <3> QED
      BY <3>3, <3>4
  <2> QED
    BY <2>1
<1>4. ASSUME NEW o \in Requests, NEW q \in Requests PROVE Apart(o, q)'
  <2>1. Apart(o, q)
    BY DEF PayInv
  <2> QED
    BY <2>1, <1>1 DEF Apart, LeadLocked
<1>5. \A m \in Leads : FirstPay(m, leads[m])'
  BY <1>1, <1>2 DEF PayInv, FirstPay, Counts
<1>6. (\A m \in Known : leads[m].disposition # "unknown")' /\ (\A m \in Leads : Due(leads[m]))'
  BY <1>1, <1>2 DEF PayInv, Due, Counts, Earns
<1> QED
  BY <1>3, <1>4, <1>5, <1>6 DEF PayInv


\* The look for earlier leads finds whatever already pays for the person, unless it was forgotten.
LEMMA PayInsert ==
  ASSUME LeadShape, PayInv, NEW r \in Requests, NEW automatic \in BOOLEAN,
         Inserts(r, automatic)
  PROVE  PayInv'
<1> DEFINE l == task[r].lead
           sale == NewRow(r, automatic)
<1>1. task[r].copy \in LeadRows /\ l \in Leads /\ task[r].op = "record" /\ l \notin Known
  BY DEF Inserts, LeadWritten, LeadShape
<1>2. /\ sale \in LeadRows /\ sale.program = task[r].copy.program
      /\ sale.disposition \in {"none", "qualified", "duplicate"}
      /\ Due(sale)
      /\ Counts(sale) => task[r].copy.who # Null /\ ~Duplicate(l, task[r].copy.program)
  BY <1>1, NewRowType DEF Due
<1> HIDE DEF l, sale
<1>3. FirstPay(l, sale)
  <2> SUFFICES ASSUME Counts(sale), NEW k \in Leads, k # l, Counts(leads[k]),
                      Claim[k].person = Claim[l].person, leads[k].program = sale.program
               PROVE  Excused(k, l)
    BY DEF FirstPay
  <2>1. sale.program # Null /\ ~Duplicate(l, sale.program)
    BY <1>1, <1>2 DEF PayInv, Records
  <2>2. k \in Known /\ leads[k].disposition # "duplicate"
    BY DEF Known, Unknown, Lead, Counts
  <2>3. k \in gone
    BY <2>1, <2>2 DEF Duplicate, Twins
  <2> QED
    BY <2>3 DEF Excused
<1>4. LeadWritten(r, sale)
  BY DEF sale, Inserts
<1>5. /\ task'[r].op = "record" /\ task'[r].lead = l /\ task'[r].copy = task[r].copy
      /\ task'[r].sale = sale /\ UNCHANGED <<leads, gone, met>>
  BY <1>1, <1>2, <1>4, Writing DEF l
<1>6. Records(r)'
  <2>1. Known' = Known
    BY <1>5 DEF Known
  <2>2. FirstPay(task[r].lead, task[r].sale)'
    BY <1>3, <1>5 DEF FirstPay, Excused, Counts
  <2>3. Due(task[r].sale)' /\ task'[r].sale.disposition # "unknown"
    BY <1>2, <1>5 DEF Due, Earns, Counts
  <2> QED
    BY <1>1, <1>5, <2>1, <2>2, <2>3 DEF Records, PayInv
<1>7. Judges(r)'
  BY <1>5, Kinds DEF Judges
<1> QED
  BY <1>2, <1>4, <1>6, <1>7, PayWriting

LEMMA PayDecide ==
  ASSUME LeadShape, PayInv, NEW r \in Requests, Decides(r)
  PROVE  PayInv'
<1>0. PICK made \in LeadRows :
        /\ LeadWritten(r, made) /\ task[r].op \in Later
        /\ Makes(task[r].op, task[r].copy, leads[task[r].lead], made)
  BY DecidingWrites
<1> DEFINE op == task[r].op
           copy == task[r].copy
           now == leads[task[r].lead]
<1>1. /\ task'[r].op = op /\ task'[r].lead = task[r].lead
      /\ task'[r].sale = made /\ UNCHANGED <<leads, gone, met>>
  BY <1>0, Writing
<1>2. copy \in LeadRows /\ now \in LeadRows
  BY <1>0 DEF LeadWritten, LeadShape
<1>3. /\ task[r].lead \in Known
      /\ op \in Verdicts => now.disposition # "duplicate"
      /\ op \in Granting => Counts(now)
  BY <1>0 DEF PayInv, Judges
<1>4. now.disposition # "unknown" /\ Due(now)
  BY <1>3 DEF PayInv, Known
<1>5. Makes(op, copy, now, made) /\ op \in Later
  BY <1>0
<1> HIDE DEF op, copy, now
<1>11. MadeOf(op, copy, now, made)
  BY <1>2, <1>5, MadeFields
<1>6. Same(made, now)
  <2>1. op \in Verdicts => made.disposition \in {"qualified", "disqualified"}
    BY <1>11 DEF MadeOf, Verdicts
  <2> QED
    BY <1>3, <1>4, <1>11, <2>1 DEF Same, MadeOf
<1>7. Earns(made) => Earns(now) \/ op \in Granting
  <2>1. CASE op = "qualify"
    BY <1>11, <2>1 DEF MadeOf, Earns, Unpaid
  <2>2. CASE op = "disqualify"
    BY <1>11, <2>2 DEF MadeOf, Earns, Unpaid
  <2>3. CASE op \in {"cancel", "refund"}
    BY <1>11, <2>3 DEF MadeOf, Earns, Unpaid
  <2>4. CASE op \in {"reverse", "approve sale"}
    BY <1>11, <2>4 DEF MadeOf, Earns, Unpaid
  <2> QED
    BY <1>5, <2>1, <2>2, <2>3, <2>4 DEF Later, Verdicts, Byhand, Takings, Granting
<1>8. Due(made)
  BY <1>3, <1>4, <1>6, <1>7 DEF Due, Same, Counts
<1>9. Records(r)'
  BY <1>1, <1>5, Kinds DEF Records
<1>10. Judges(r)'
  <2>1. Known' = Known /\ leads'[task'[r].lead] = now
    BY <1>1 DEF Known, now
  <2>2. Same(task[r].sale, leads[task[r].lead])' /\ Due(task[r].sale)'
    BY <1>1, <1>6, <1>8, <2>1 DEF Same, Due, Earns, Counts
  <2> QED
    BY <1>1, <1>3, <2>1, <2>2 DEF Judges, Counts
<1> QED
  BY <1>0, <1>9, <1>10, PayWriting

LEMMA PayCommit ==
  ASSUME LeadShape, PayInv, NEW r \in Requests, Finishes(r)
  PROVE  PayInv'
<1> DEFINE l == task[r].lead
           now == task[r].sale
<1>1. task[r].at = "written" /\ l \in Leads /\ now \in LeadRows /\ LeadCommit(r, now)
  BY DoneCommits
<1>2. task[r].op \in {"record"} \cup Later
  BY <1>1 DEF LeadShape, TaskRows
<1> HIDE DEF l, now
<1>3. /\ leads'[l] = now /\ \A k \in Leads : k # l => leads'[k] = leads[k]
      /\ task'[r] = Free
      /\ \A o \in Requests : o # r => Learns(o, l)
      /\ UNCHANGED <<gone, met>>
  BY <1>1, Committing DEF l
<1>4. Records(r) /\ Judges(r)
  BY DEF PayInv
<1>5. now.disposition # "unknown" /\ Due(now)
  BY <1>1, <1>2, <1>4 DEF Records, Judges, Same, now
<1>6. Known' = Known \cup {l}
  BY <1>1, <1>3, <1>5, KnownCommit
<1>7. /\ task[r].op \in Later => l \in Known /\ Same(now, leads[l])
      /\ task[r].op = "record" => l \notin Known
  BY <1>1, <1>4 DEF Judges, Records, l, now
<1>17. task[r].op \in Later => (Counts(now) <=> Counts(leads[l])) /\ now.program = leads[l].program
  BY <1>1, <1>7 DEF Same, Counts, PayInv
<1>8. FirstPay(l, now)
  <2>1. CASE task[r].op = "record"
    BY <2>1, <1>1, <1>4 DEF Records, l, now
  <2>2. CASE task[r].op \in Later
    <3>1. FirstPay(l, leads[l])
      BY <1>1 DEF PayInv
    <3> QED
      BY <2>2, <3>1, <1>17 DEF FirstPay
  <2> QED
    BY <1>2, <2>1, <2>2
<1>9. \A k, m \in Leads : (Excused(k, m)' <=> Excused(k, m)) /\ (Excused(k, m) => Excused(m, k))
  <2>1. \A k, m \in Leads : {k, m} = {m, k}
    OBVIOUS
  <2> QED
    BY <2>1, <1>3 DEF Excused
<1>10. ASSUME NEW m \in Leads PROVE FirstPay(m, leads[m])'
  <2> SUFFICES ASSUME Counts(leads'[m]), NEW k \in Leads, k # m, Counts(leads'[k]),
                      Claim[k].person = Claim[m].person, leads'[k].program = leads'[m].program
               PROVE  Excused(k, m)
    BY <1>9 DEF FirstPay, Counts
  <2>1. CASE m = l
    BY <2>1, <1>3, <1>8 DEF FirstPay
  <2>2. CASE k = l
    BY <2>2, <1>3, <1>8, <1>9 DEF FirstPay
  <2>3. CASE m # l /\ k # l
    BY <2>3, <1>3 DEF PayInv, FirstPay
  <2> QED
    BY <2>1, <2>2, <2>3
<1>11. ASSUME NEW o \in Requests, o # r
       PROVE  /\ task'[o].op = task[o].op /\ task'[o].lead = task[o].lead
              /\ task'[o].copy = task[o].copy
              /\ task'[o].sale = task[o].sale /\ task'[o].at = task[o].at
              /\ task[o].at = "written" => task[o].lead \in Leads /\ task[o].lead # l
  BY <1>1, <1>3, <1>11 DEF Learns, PayInv, Apart, LeadShape, l
<1>12. task'[r].op = "none" /\ task'[r].at = "idle"
  BY <1>3, FreeType
<1>13. ASSUME NEW o \in Requests PROVE Judges(o)'
  <2>1. CASE o = r
    BY <2>1, <1>12, Kinds DEF Judges
  <2>2. CASE o # r
    <3>1. Judges(o)
      BY DEF PayInv
    <3>2. CASE task[o].lead # l
      <4>1. task[o].op \in Later => leads'[task[o].lead] = leads[task[o].lead]
        BY <3>1, <3>2, <1>3 DEF Judges, Known
      <4> QED
        BY <2>2, <3>1, <4>1, <1>6, <1>11 DEF Judges, Counts, Same, Due, Earns
    <3>3. CASE task[o].lead = l /\ task[o].op \in Later
      <4>1. l \in Known /\ task[r].op \in Later /\ task[o].at # "written"
        BY <2>2, <3>1, <3>3, <1>2, <1>7, <1>11 DEF Judges
      <4>2. /\ (Counts(now) <=> Counts(leads[l]))
            /\ (now.disposition = "duplicate" <=> leads[l].disposition = "duplicate")
        BY <4>1, <1>7, <1>17 DEF Same
      <4> QED
        BY <2>2, <3>1, <3>3, <4>1, <4>2, <1>3, <1>6, <1>11 DEF Judges, Counts
    <3>4. CASE task[o].op \notin Later
      BY <2>2, <3>4, <1>11 DEF Judges
    <3> QED
      BY <3>2, <3>3, <3>4
  <2> QED
    BY <2>1, <2>2
<1>14. ASSUME NEW o \in Requests PROVE Records(o)'
  <2>1. CASE o = r
    BY <2>1, <1>12 DEF Records
  <2>2. ASSUME o # r, task[o].op = "record", task[o].at = "written"
        PROVE  FirstPay(task[o].lead, task[o].sale)'
    <3> DEFINE m == task[o].lead
               x == task[o].sale
    <3>1. FirstPay(m, x) /\ m \in Leads /\ m # l
      BY <2>2, <1>11 DEF PayInv, Records
    <3>2. task[r].op = "record" => Excused(l, m)
      BY <2>2 DEF PayInv, Apart, Excused, l
    <3>3. task'[o].lead = m /\ task'[o].sale = x
      BY <2>2, <1>11
    <3> HIDE DEF m, x
    <3>4. ASSUME Counts(x), NEW k \in Leads, k # m, Counts(leads'[k]),
                 Claim[k].person = Claim[m].person, leads'[k].program = x.program
          PROVE  Excused(k, m)
      <4>1. CASE k # l
        BY <4>1, <3>1, <3>4, <1>3 DEF FirstPay
      <4>2. CASE k = l /\ task[r].op = "record"
        BY <4>2, <3>2
      <4>3. CASE k = l /\ task[r].op \in Later
        BY <4>3, <3>1, <3>4, <1>3, <1>17 DEF FirstPay
      <4> QED
        BY <4>1, <4>2, <4>3, <1>2
    <3> QED
      BY <3>1, <3>3, <3>4, <1>9 DEF FirstPay, Counts
  <2>3. CASE o # r
    <3>1. Records(o)
      BY DEF PayInv
    <3> QED
      BY <2>2, <2>3, <3>1, <1>6, <1>11 DEF Records, Due, Counts, Earns
  <2> QED
    BY <2>1, <2>3
<1>15. ASSUME NEW o \in Requests, NEW q \in Requests PROVE Apart(o, q)'
  <2>1. Apart(o, q)
    BY DEF PayInv
  <2> QED
    BY <2>1, <1>3, <1>11, <1>12 DEF Apart
<1>16. /\ \A m \in Leads : Due(leads'[m])
       /\ \A m \in Known' : leads'[m].disposition # "unknown"
  BY <1>3, <1>5, <1>6 DEF PayInv, Known
<1> QED
  BY <1>10, <1>13, <1>14, <1>15, <1>16 DEF PayInv, Due, Counts, Earns

LEMMA PayMoves ==
  ASSUME LeadShape, PayInv, NEW l \in Leads, MovesOn(l)
  PROVE  PayInv'
<1> PICK sale \in Sales, commission \in {"payable", "paid"} : Becomes(l, sale, commission)
  BY DEF MovesOn
<1>1. /\ leads'[l].commission = commission /\ leads'[l].disposition = leads[l].disposition
      /\ leads'[l].who = leads[l].who /\ leads'[l].program = leads[l].program
      /\ \A k \in Leads : k # l => leads'[k] = leads[k]
      /\ \A o \in Requests : Learns(o, l)
      /\ UNCHANGED <<gone, met>>
  <2>1. commission \in Commissions
    BY DEF Commissions, Unpaid
  <2> QED
    BY <2>1, Becoming
<1>2. leads[l].commission \in Unpaid
  BY DEF MovesOn
<1>3. ASSUME NEW k \in Leads
      PROVE  /\ leads'[k].program = leads[k].program /\ leads'[k].who = leads[k].who
             /\ leads'[k].disposition = leads[k].disposition
             /\ Counts(leads'[k]) <=> Counts(leads[k])
             /\ Due(leads[k]) => Due(leads'[k])
  <2>1. Earns(leads[l])
    BY <1>2 DEF Earns
  <2> QED
    BY <2>1, <1>1 DEF Counts, Due
<1>4. Known' = Known
  <2>1. l \in Known
    BY <1>2 DEF Known, Unknown, Lead, Unpaid
  <2>2. leads'[l].disposition # "unknown"
    BY <1>1, <2>1 DEF PayInv
  <2> QED
    BY <1>1, <2>1, <2>2, KnownCommit
<1>5. \A k, m \in Leads : Excused(k, m)' <=> Excused(k, m)
  BY <1>1 DEF Excused
<1>6. ASSUME NEW m \in Leads, NEW x, FirstPay(m, x)
      PROVE  \A k \in Leads : Counts(x) /\ k # m /\ Counts(leads'[k])
               /\ Claim[k].person = Claim[m].person /\ leads'[k].program = x.program
               => Excused(k, m)'
  BY <1>3, <1>5, <1>6 DEF FirstPay
<1>7. ASSUME NEW m \in Leads PROVE FirstPay(m, leads[m])'
  <2>1. FirstPay(m, leads[m])
    BY DEF PayInv
  <2> QED
    BY <2>1, <1>3, <1>6 DEF FirstPay, Counts
<1>8. ASSUME NEW o \in Requests
      PROVE  /\ task'[o].op = task[o].op /\ task'[o].lead = task[o].lead
             /\ task'[o].copy = task[o].copy
             /\ task'[o].sale = task[o].sale /\ task'[o].at = task[o].at
             /\ task[o].at = "written" => task[o].lead \in Leads
  BY <1>1 DEF Learns, LeadShape
<1>9. ASSUME NEW o \in Requests PROVE Records(o)'
  <2>1. Records(o)
    BY DEF PayInv
  <2> DEFINE m == task[o].lead
             x == task[o].sale
  <2>2. task[o].op = "record" /\ task[o].at = "written" =>
          \A k \in Leads : Counts(x) /\ k # m /\ Counts(leads'[k])
               /\ Claim[k].person = Claim[m].person /\ leads'[k].program = x.program
               => Excused(k, m)'
    BY <2>1, <1>6, <1>8 DEF Records
  <2> QED
    BY <2>1, <2>2, <1>4, <1>8 DEF Records, FirstPay, Due, Counts, Earns
<1>10. ASSUME NEW o \in Requests PROVE Judges(o)'
  <2>1. Judges(o)
    BY DEF PayInv
  <2>2. task[o].op \in Later => task[o].lead \in Leads
    BY <2>1 DEF Judges, Known
  <2> QED
    BY <2>1, <2>2, <1>3, <1>4, <1>8 DEF Judges, Counts, Same, Due, Earns
<1>11. ASSUME NEW o \in Requests, NEW q \in Requests PROVE Apart(o, q)'
  <2>1. Apart(o, q)
    BY DEF PayInv
  <2> QED
    BY <2>1, <1>1, <1>8 DEF Apart
<1>12. /\ \A k \in Leads : Due(leads'[k])
       /\ \A k \in Known' : leads'[k].disposition # "unknown"
  BY <1>3, <1>4 DEF PayInv, Known
<1> QED
  BY <1>7, <1>9, <1>10, <1>11, <1>12 DEF PayInv, Due, Counts, Earns

LEMMA PayStep ==
  ASSUME LeadShape, PayInv, [Next]_vars
  PROVE  PayInv'
<1>1. ASSUME UNCHANGED <<leads, task, met>>, gone \subseteq gone' PROVE PayInv'
  <2>1. \A k, m \in Leads : Excused(k, m) => Excused(k, m)'
    BY <1>1 DEF Excused
  <2>2. Known' = Known
    BY <1>1 DEF Known
  <2>3. ASSUME NEW m \in Leads, NEW x, FirstPay(m, x) PROVE FirstPay(m, x)'
    BY <1>1, <2>1, <2>3 DEF FirstPay, Counts
  <2>4. ASSUME NEW m \in Leads PROVE FirstPay(m, leads[m])'
    BY <1>1, <2>1 DEF PayInv, FirstPay, Counts
  <2>5. ASSUME NEW o \in Requests PROVE Records(o)' /\ Judges(o)'
    <3>1. Records(o) /\ Judges(o)
      BY DEF PayInv
    <3>2. task[o].at = "written" => task[o].lead \in Leads
      BY DEF LeadShape
    <3>3. Judges(o)'
      BY <3>1, <1>1, <2>2 DEF Judges, Counts, Same, Due, Earns
    <3>4. Records(o)'
      BY <3>1, <3>2, <1>1, <2>1, <2>2 DEF Records, FirstPay, Due, Counts, Earns
    <3> QED
      BY <3>3, <3>4
  <2>6. ASSUME NEW o \in Requests, NEW q \in Requests PROVE Apart(o, q)'
    BY <1>1 DEF PayInv, Apart
  <2>7. (\A m \in Known : leads[m].disposition # "unknown")' /\ (\A m \in Leads : Due(leads[m]))'
    BY <1>1, <2>2 DEF PayInv, Due, Counts, Earns
  <2> QED
    BY <2>4, <2>5, <2>6, <2>7 DEF PayInv
<1>2. UNCHANGED leadVars => UNCHANGED <<leads, task, met>> /\ gone \subseteq gone'
  BY DEF leadVars
<1>3. ASSUME NEW r \in Requests, Quiets(r) PROVE PayInv'
  <2>1. task' = [task EXCEPT ![r] = Free] /\ UNCHANGED <<leads, gone, met>>
    BY <1>3 DEF Quiets
  <2>2. \A o \in Requests : o # r => task'[o] = task[o]
    BY <2>1 DEF LeadShape
  <2>3. task'[r].op = "none" /\ task'[r].at = "idle"
    BY <2>1, FreeType DEF LeadShape
  <2>4. Known' = Known /\ \A k, m : Excused(k, m)' <=> Excused(k, m)
    BY <2>1 DEF Known, Excused
  <2>5. ASSUME NEW m, NEW x, FirstPay(m, x)
        PROVE \A k \in Leads : Counts(x) /\ k # m /\ Counts(leads'[k])
               /\ Claim[k].person = Claim[m].person /\ leads'[k].program = x.program
               => Excused(k, m)'
    BY <2>1, <2>4, <2>5 DEF FirstPay
  <2>6. ASSUME NEW m \in Leads PROVE FirstPay(m, leads[m])'
    BY <2>1, <2>4 DEF PayInv, FirstPay, Counts
  <2>7. ASSUME NEW o \in Requests PROVE Records(o)' /\ Judges(o)'
    <3>1. CASE o = r
      BY <3>1, <2>3, Kinds DEF Records, Judges
    <3>2. CASE o # r
      <4>1. Records(o) /\ Judges(o) /\ task'[o] = task[o]
        BY <3>2, <2>2 DEF PayInv
      <4>2. Judges(o)'
        BY <4>1, <2>1, <2>4 DEF Judges, Counts, Same, Due, Earns
      <4>3. Records(o)'
        BY <4>1, <2>1, <2>4 DEF Records, FirstPay, Due, Counts, Earns
      <4> QED
        BY <4>2, <4>3
    <3> QED
      BY <3>1, <3>2
  <2>8. ASSUME NEW o \in Requests, NEW q \in Requests PROVE Apart(o, q)'
    <3>1. Apart(o, q)
      BY DEF PayInv
    <3> QED
      BY <3>1, <2>1, <2>2, <2>3 DEF Apart
  <2>9. (\A m \in Known : leads[m].disposition # "unknown")' /\ (\A m \in Leads : Due(leads[m]))'
    BY <2>1, <2>4 DEF PayInv, Due, Counts, Earns
  <2> QED
    BY <2>6, <2>7, <2>8, <2>9 DEF PayInv
<1> QED
  BY <1>1, <1>2, <1>3, LeadCases, PayBegin, PayInsert, PayDecide, PayCommit, PayMoves

\* Affiliates are not paid twice for one person (leads.ts:21-23): of two leads of one person for one
\* program one earns, unless they were recorded at the same time, or one had been forgotten.  What
\* makes it inductive: a lead that is written, and not committed yet, already is no second pay.
THEOREM OnePayPerPersonCorrect == Spec => []OnePayPerPerson
<1>1. Init => LeadShape /\ PayInv
  <2> SUFFICES ASSUME Init PROVE LeadShape /\ PayInv
    OBVIOUS
  <2>1. LeadShape /\ \A r \in Requests : task[r] = Free
    BY LeadInit DEF Init
  <2>2. Known = {} /\ \A l \in Leads : ~Earns(leads[l]) /\ ~Counts(leads[l])
    BY LeadInit DEF Init, Earns, Counts, Unknown, Lead, Unpaid
  <2> QED
    BY <2>1, <2>2, FreeType, Kinds DEF PayInv, Due, FirstPay, Records, Judges, Apart
<1>2. LeadShape /\ PayInv /\ [Next]_vars => LeadShape' /\ PayInv'
  BY LeadShapeStep, PayStep
<1>3. PayInv => OnePayPerPerson
  <2>1. \A l \in Leads : Earning(l) => Earns(leads[l])
    BY DEF Earning, Earns
  <2> QED
    BY <2>1 DEF PayInv, Due, FirstPay, Excused, OnePayPerPerson
<1> QED
  BY <1>1, <1>2, <1>3, PTL DEF Spec

==============================================================================
