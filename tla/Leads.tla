-------------------------------- MODULE Leads --------------------------------
(***************************************************************************)
(* Leads, which the affiliates of Affiliates send and are paid for.        *)
(*                                                                         *)
(* A lead is a sale of kind lead with a contact beside it, told about by a *)
(* form or an API client and credited by Attribution: here one row with    *)
(* the sale's status, the commission's and the merchant's disposition.     *)
(* The sale and its commission are like any others, so that the merchant   *)
(* may also cancel, refund, approve, release or reverse them by hand.      *)
(* Its requests share the connections of Affiliates, and take three steps  *)
(* like the others: they read, they write the sale, which others then wait *)
(* for, they commit.                                                       *)
(***************************************************************************)
EXTENDS Attribution

CONSTANTS
  Leads,    \* what the sources tell, each with an id of its own
  Claim     \* the person each is about, the program it names (or Null) and its evidence

ASSUME LeadsConstants ==
  /\ Null \notin Leads
  /\ DOMAIN Claim = Leads
  /\ \A l \in Leads : Claim[l].program \in Programs \cup {Null} /\ Claim[l].evidence \in Evidence

VARIABLES
  leads,    \* the committed leads
  gone,     \* leads out of their program's dedupe window, or whose contact was blanked
  task,     \* each connection's open call about a lead
  met,      \* history: pairs of leads that were recorded at the same time
  tangled,  \* history: leads about which two calls overlapped
  spent,    \* history: leads whose commission was paid before they were disqualified
  corrected \* history: leads whose sale or commission the merchant took back by hand

leadVars == <<leads, gone, task, met, tangled, spent, corrected>>

vars == <<affiliateVars, leadVars>>

Free == [op |-> "none", lead |-> Null, copy |-> Null, sale |-> Null, at |-> "idle", crossed |-> FALSE]

\* credit is the affiliate, if the lead is anybody's, and the program.
Lead(disposition, credit, sale, commission) ==
  [disposition |-> disposition, who |-> credit.affiliate, program |-> credit.program,
   sale |-> sale, commission |-> commission]

Nobody(program) == [affiliate |-> Null, program |-> program]

Unknown == Lead("unknown", Nobody(Null), "none", "none")

Known == {l \in Leads : leads[l] # Unknown}

BeginLead(r, op, l, copy) ==
  /\ tx[r] = Idle /\ task[r] = Free
  /\ calls < MaxCalls
  /\ calls' = calls + 1
  /\ task' = [task EXCEPT ![r] = [Free EXCEPT !.op = op, !.lead = l, !.copy = copy, !.at = "begun"]]
  /\ UNCHANGED <<row, place, invited, limit, tx, history, leads, gone, tangled, spent, corrected>>

LeadLocked(r, l) == \E o \in Requests \ {r} : task[o].at = "written" /\ task[o].lead = l

LeadWritten(r, sale) ==
  /\ task[r].at = "begun"
  /\ ~LeadLocked(r, task[r].lead)
  /\ task' = [task EXCEPT ![r] = [@ EXCEPT !.sale = sale, !.at = "written"]]
  /\ UNCHANGED <<affiliateVars, leads, gone, met, tangled, spent, corrected>>

LeadCommit(r, now) ==
  LET l == task[r].lead
  IN  /\ leads' = [leads EXCEPT ![l] = now]
      /\ task' = [o \in Requests |->
                    IF o = r THEN Free
                    ELSE [task[o] EXCEPT !.crossed = @ \/ task[o].lead = l]]
      /\ tangled' = IF task[r].crossed THEN tangled \cup {l} ELSE tangled
      /\ UNCHANGED <<affiliateVars, gone, met>>

----------------------------------------------------------------------------
(* Recording.                                                              *)

\* A lead whose id is known is returned as it is.  Nobody's lead is kept all the same.
RecordLead(r, l) ==
  /\ l \notin Known
  /\ LET found == Credited(Claim[l].evidence)
     IN  \E credit \in IF found = {} THEN {Nobody(Claim[l].program)} ELSE found :
           BeginLead(r, "record", l, Lead("none", credit, "pending", "none"))
  /\ met' = met \cup {{l, task[o].lead} : o \in {o \in Requests : task[o].op = "record"}}

\* Earlier leads of the person for the program, within the dedupe window.
Twins(l, program) ==
  {k \in Known \ gone :
     Claim[k].person = Claim[l].person /\ leads[k].program = program}

\* Mutant: a lead the merchant has judged no longer counts.
UndecidedTwin(l, program) ==
  program # Null /\ \E k \in Twins(l, program) : leads[k].disposition = "none"

\* findDuplicate
Duplicate(l, program) ==
  program # Null /\ \E k \in Twins(l, program) : leads[k].disposition # "duplicate"

\* The sale and its commission are inserted, and the earlier leads looked up.  A duplicate is
\* cancelled at once; a program may qualify the others at once if they are an affiliate's.
InsertLead(r, automatic) ==
  /\ task[r].op = "record"
  /\ task[r].lead \notin Known
  /\ LET who == task[r].copy.who
         credit == [affiliate |-> who, program |-> task[r].copy.program]
         earns(status) == IF who = Null THEN "none" ELSE status
     IN  LeadWritten(r, IF Duplicate(task[r].lead, credit.program)
                        THEN Lead("duplicate", credit, "cancelled", earns("void"))
                        ELSE IF automatic /\ who # Null THEN Lead("qualified", credit, "approved", "approved")
                        ELSE Lead("none", credit, "pending", earns("pending")))

\* Another request recorded the same lead meanwhile: the contact's row is refused.
LoseLead(r) ==
  /\ task[r].op = "record" /\ task[r].at = "begun" /\ task[r].lead \in Known
  /\ task' = [task EXCEPT ![r] = Free]
  /\ UNCHANGED <<affiliateVars, leads, gone, met, tangled, spent, corrected>>

RecordDone(r) ==
  /\ task[r].op = "record" /\ task[r].at = "written"
  /\ LeadCommit(r, task[r].sale)
  /\ UNCHANGED <<spent, corrected>>

----------------------------------------------------------------------------
(* The merchant's verdict.  The sale is written from the copy the call     *)
(* read; the commission is read again after that.                          *)

QualifyLead(r, l) ==
  /\ l \in Known /\ leads[l].disposition = "none"
  /\ BeginLead(r, "qualify", l, leads[l])
  /\ UNCHANGED met

\* A refunded sale cannot be cancelled.
DisqualifyLead(r, l) ==
  /\ l \in Known /\ leads[l].disposition \notin {"disqualified", "duplicate"}
  /\ leads[l].sale # "refunded"
  /\ BeginLead(r, "disqualify", l, leads[l])
  /\ UNCHANGED met

Unpaid == {"pending", "approved", "payable"}

\* Mutant: an approved sale's commission stays.
RefusedLenient(copy, now) ==
  [now EXCEPT !.disposition = "disqualified",
              !.sale = IF copy.sale = "pending" THEN "cancelled"
                       ELSE IF copy.sale = "approved" THEN "reversed" ELSE @,
              !.commission = IF copy.sale = "pending" /\ @ \in Unpaid THEN "void" ELSE @]

\* What disqualifying makes of the lead.  A commission that was paid stays paid.
Refused(copy, now) ==
  [now EXCEPT !.disposition = "disqualified",
              !.sale = IF copy.sale = "pending" THEN "cancelled"
                       ELSE IF copy.sale = "approved" THEN "reversed" ELSE @,
              !.commission = IF @ \notin Unpaid THEN @
                             ELSE IF copy.sale = "pending" THEN "void"
                             ELSE IF copy.sale = "approved" THEN "reversed" ELSE @]

\* qualifyRow
Accepted(copy, now) ==
  [now EXCEPT !.disposition = "qualified",
              !.sale = IF copy.sale = "pending" THEN "approved" ELSE @,
              !.commission = IF @ = "pending" THEN "approved" ELSE @]

\* Cancelling the sale voids its commission, which cannot be done to a payable one.
VoidsPayable(r) ==
  /\ task[r].op = "cancel" \/ (task[r].op = "disqualify" /\ task[r].copy.sale = "pending")
  /\ leads[task[r].lead].commission = "payable"

JudgeLead(r) ==
  LET now == leads[task[r].lead]
      copy == task[r].copy
  IN  \/ /\ task[r].op = "qualify"
         /\ LeadWritten(r, Accepted(copy, now))
      \/ /\ task[r].op = "disqualify" /\ ~VoidsPayable(r)
         /\ LeadWritten(r, Refused(copy, now))

JudgementDone(r) ==
  /\ task[r].op \in {"qualify", "disqualify"} /\ task[r].at = "written"
  /\ LeadCommit(r, task[r].sale)
  /\ spent' = IF task[r].op = "disqualify" /\ task[r].sale.commission = "paid"
              THEN spent \cup {task[r].lead} ELSE spent
  /\ UNCHANGED corrected

----------------------------------------------------------------------------
(* The merchant's calls about a sale or a commission, which do not look at *)
(* its kind.  What a call read first decides whether it may go on, and it  *)
(* writes by the row's key alone.                                          *)

Takings == {"cancel", "refund", "reverse"}
Byhand == Takings \cup {"approve sale", "approve commission", "release"}

BeginByHand(r, op, l) ==
  /\ BeginLead(r, op, l, leads[l])
  /\ UNCHANGED met

CancelConversion(r, l) ==
  /\ l \in Known /\ leads[l].sale = "pending"
  /\ BeginByHand(r, "cancel", l)

RefundConversion(r, l) ==
  /\ l \in Known /\ leads[l].sale \in {"pending", "approved", "refunded"}
  /\ BeginByHand(r, "refund", l)

ReverseCommission(r, l) ==
  /\ l \in Known /\ leads[l].commission \in Unpaid
  /\ BeginByHand(r, "reverse", l)

ApproveConversion(r, l) ==
  /\ l \in Known /\ leads[l].sale = "pending"
  /\ BeginByHand(r, "approve sale", l)

ApproveCommission(r, l) ==
  /\ l \in Known /\ leads[l].commission = "pending"
  /\ BeginByHand(r, "approve commission", l)

ReleaseCommission(r, l) ==
  /\ l \in Known /\ leads[l].commission \in {"pending", "approved"}
  /\ BeginByHand(r, "release", l)

TakenBack(now, sale, commission) ==
  [now EXCEPT !.sale = sale, !.commission = IF @ \in Unpaid THEN commission ELSE @]

\* approveSale looks at the sale's status again as it writes.
Released(copy, now) ==
  [now EXCEPT !.commission = "payable",
              !.sale = IF copy.sale = "pending" /\ @ = "pending" THEN "approved" ELSE @]

\* A lead is worth nothing, so that any refund is a whole one.
WriteByHand(r) ==
  LET now == leads[task[r].lead]
      copy == task[r].copy
      op == task[r].op
  IN  \/ op = "cancel" /\ ~VoidsPayable(r) /\ LeadWritten(r, TakenBack(now, "cancelled", "void"))
      \/ op = "refund" /\ LeadWritten(r, TakenBack(now, "refunded", "reversed"))
      \/ op = "reverse" /\ LeadWritten(r, [now EXCEPT !.commission = "reversed"])
      \/ op = "approve sale" /\ LeadWritten(r, [now EXCEPT !.sale = "approved"])
      \/ op = "approve commission" /\ LeadWritten(r, [now EXCEPT !.commission = "approved"])
      \/ op = "release" /\ LeadWritten(r, Released(copy, now))

\* The call throws, and leaves everything as it was.
VoidRefused(r) ==
  /\ task[r].at = "begun" /\ VoidsPayable(r) /\ ~LeadLocked(r, task[r].lead)
  /\ task' = [task EXCEPT ![r] = Free]
  /\ UNCHANGED <<affiliateVars, leads, gone, met, tangled, spent, corrected>>

ByHandDone(r) ==
  /\ task[r].op \in Byhand /\ task[r].at = "written"
  /\ LeadCommit(r, task[r].sale)
  /\ corrected' = IF task[r].op \in Takings THEN corrected \cup {task[r].lead} ELSE corrected
  /\ UNCHANGED spent

----------------------------------------------------------------------------
(* Time and money.                                                         *)

Undisturbed(l) == \A r \in Requests : task[r].at # "written" \/ task[r].lead # l

Becomes(l, sale, commission) ==
  /\ leads' = [leads EXCEPT ![l].sale = sale, ![l].commission = commission]
  /\ task' = [r \in Requests |-> [task[r] EXCEPT !.crossed = @ \/ task[r].lead = l]]
  /\ UNCHANGED <<affiliateVars, gone, met, tangled, spent, corrected>>

\* settleHoldingPeriods, once the holding period is over: pending commissions too.
SettleLead(l) ==
  /\ l \in Known /\ leads[l].commission \in {"pending", "approved"}
  /\ Undisturbed(l)
  /\ Becomes(l, IF leads[l].sale = "pending" THEN "approved" ELSE leads[l].sale, "payable")

PayLead(l) ==
  /\ l \in Known /\ leads[l].commission = "payable"
  /\ Undisturbed(l)
  /\ Becomes(l, leads[l].sale, "paid")

\* Only when another lead of the person comes in does it matter whether a lead is forgotten, so it
\* is decided then.
Awaited(l) ==
  \E r \in Requests :
    /\ task[r].op = "record" /\ task[r].at = "begun" /\ task[r].lead \notin Known
    /\ Claim[task[r].lead].person = Claim[l].person

LeaveWindow(l) ==
  /\ l \in Known \ gone /\ Awaited(l)
  /\ gone' = gone \cup {l}
  /\ UNCHANGED <<affiliateVars, leads, task, met, tangled, spent, corrected>>

\* eraseOldLeadContacts: a judged lead's, after as many days as the workspace likes.
EraseContact(l) ==
  /\ l \in Known \ gone /\ Awaited(l) /\ leads[l].disposition # "none"
  /\ Undisturbed(l)
  /\ gone' = gone \cup {l}
  /\ UNCHANGED <<affiliateVars, leads, task, met, tangled, spent, corrected>>

----------------------------------------------------------------------------

Init ==
  /\ AffiliatesInit
  /\ leads = [l \in Leads |-> Unknown]
  /\ gone = {}
  /\ task = [r \in Requests |-> Free]
  /\ met = {} /\ tangled = {} /\ spent = {} /\ corrected = {}

\* A connection serves one call at a time.
Partnering ==
  /\ AffiliatesNext
  /\ \A r \in Requests : task[r] # Free => tx'[r].at = "idle"
  /\ UNCHANGED leadVars

Next ==
  \/ Partnering
  \/ \E r \in Requests, l \in Leads :
       \/ RecordLead(r, l) \/ QualifyLead(r, l) \/ DisqualifyLead(r, l)
       \/ CancelConversion(r, l) \/ RefundConversion(r, l) \/ ReverseCommission(r, l)
       \/ ApproveConversion(r, l) \/ ApproveCommission(r, l) \/ ReleaseCommission(r, l)
  \/ \E r \in Requests :
       \/ \E automatic \in BOOLEAN : InsertLead(r, automatic)
       \/ LoseLead(r) \/ RecordDone(r) \/ JudgeLead(r) \/ JudgementDone(r)
       \/ WriteByHand(r) \/ VoidRefused(r) \/ ByHandDone(r)
  \/ \E l \in Leads : SettleLead(l) \/ PayLead(l) \/ LeaveWindow(l) \/ EraseContact(l)

Spec == Init /\ [][Next]_vars

----------------------------------------------------------------------------
(* Properties.                                                             *)

Earning(l) == l \in Known /\ leads[l].commission \in Unpaid \cup {"paid"}

\* Affiliates are not paid twice for one person (leads.ts:21-23): of two leads of one person for one
\* program, one earns, unless they were recorded at the same time, or the program's window or the
\* workspace's retention had forgotten one.
OnePayPerPerson ==
  \A k, l \in Leads :
    /\ k # l /\ Earning(k) /\ Earning(l)
    /\ Claim[k].person = Claim[l].person /\ leads[k].program = leads[l].program
    => {k, l} \in met \/ {k, l} \cap gone # {}

\* The merchant's verdict and the money agree (leads.ts:155-207): a duplicate earns nothing, nor does
\* a disqualified lead unless it was paid before; a qualified lead's commission is on its way, unless
\* the merchant took it back by hand; and a sale that is off earns nothing more, whatever the verdict.
\* Unless two calls about the lead overlapped.
VerdictHolds ==
  \A l \in Known \ tangled :
    /\ CASE leads[l].disposition = "duplicate" -> ~Earning(l) /\ leads[l].sale = "cancelled"
         [] leads[l].disposition = "disqualified" ->
              /\ leads[l].sale \in {"cancelled", "reversed"}
              /\ Earning(l) => leads[l].commission = "paid" /\ l \in spent
         [] leads[l].disposition = "qualified" /\ l \notin corrected ->
              /\ leads[l].sale = "approved"
              /\ leads[l].who # Null => leads[l].commission \in {"approved", "payable", "paid"}
         [] OTHER -> leads[l].sale \in {"pending", "approved"} \/ l \in corrected
    /\ leads[l].sale \notin {"pending", "approved"} => leads[l].commission \notin Unpaid

\* "A lead is worth nothing until the business qualifies it" (apps/web/content/affiliate-guide.md:60).
\* Settlement makes pending commissions payable whether or not their lead was qualified.
NothingUnqualified ==
  \A l \in Known : leads[l].disposition = "none" => leads[l].commission \notin {"payable", "paid"}
=============================================================================
