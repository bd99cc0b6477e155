-------------------------- MODULE SettlementRaces --------------------------
(***************************************************************************)
(* The calls of Settlement once more, with their statements apart.         *)
(*                                                                         *)
(* Every request and every job runs in one transaction (apps/api           *)
(* src/lib/rls.ts, withTenantScope) at the default level of Postgres, READ *)
(* COMMITTED: a statement sees what was committed when it started, an      *)
(* UPDATE waits for the row's lock and then writes what it was given.      *)
(* Most calls read a row, check its status in the program and update it by *)
(* id alone, so that what they checked may be gone when they write.        *)
(*                                                                         *)
(* One sale with the commission it was recorded with, in the same units,   *)
(* its batches and its disputes, in a program whose refund policy is       *)
(* "partial".  A later commission of the sale, which reattribution adds,   *)
(* is a row of its own that is only known to be there: from then on what   *)
(* corrects the sale's latest commission leaves this one alone.            *)
(* Settlement says what the calls do one after another; the properties     *)
(* here say which pairs of calls may not overlap for that to stay true,    *)
(* and what holds whatever overlaps.                                       *)
(***************************************************************************)
EXTENDS Naturals, Integers, FiniteSets

CONSTANTS
  Sessions,  \* database connections
  Payouts, Disputes,
  Amount,    \* of the sale, and of its commission
  MaxCalls,  \* bound: calls made in all
  MaxMeetings,  \* bound: pairs of calls that overlap in one behaviour
  Null

ASSUME RaceConstants ==
  /\ Amount \in Nat \ {0}
  /\ MaxCalls \in Nat /\ MaxMeetings \in Nat
  /\ IsFiniteSet(Payouts)
  /\ Payouts \cap Disputes = {}
  /\ {"sale", "commission", Null} \cap (Payouts \cup Disputes) = {}
  /\ Null \notin {"sale", "commission"}

VARIABLES
  db,      \* the committed rows
  tx,      \* each session's open transaction: its call, the copies it read, the rows it wrote
  ledger,  \* committed: what credits and reversals of the commission sum to
  superseded,  \* committed: the sale has a later commission
  calls,   \* history: calls made so far
  given,   \* history: what committed refunds gave back
  met      \* history: pairs of calls that were open at the same time

vars == <<db, tx, ledger, superseded, calls, given, met>>

Rows == {"sale", "commission"} \cup Payouts \cup Disputes

SaleMoves ==
  [pending   |-> {"approved", "cancelled", "refunded", "disputed"},
   approved  |-> {"refunded", "disputed"},
   refunded  |-> {"refunded"},
   disputed  |-> {"approved", "refunded", "cancelled", "pending"},
   cancelled |-> {}]

CommissionMoves ==
  [pending  |-> {"approved", "payable", "reversed", "void"},
   approved |-> {"payable", "reversed", "void"},
   payable  |-> {"paid", "reversed"},
   paid     |-> {},
   reversed |-> {},
   void     |-> {}]

PayoutMoves ==
  [absent     |-> {},
   draft      |-> {"processing", "paid", "cancelled"},
   processing |-> {"paid", "failed"},
   failed     |-> {"processing", "cancelled"},
   paid       |-> {},
   cancelled  |-> {}]

NoRows == [r \in {} |-> Null]

Put(r, x, rows) == [q \in {r} \cup DOMAIN rows |-> IF q = r THEN x ELSE rows[q]]

\* A session between calls; entries are the ledger rows its transaction inserted.
Idle == [call |-> "none", at |-> "idle", row |-> Null, part |-> 0,
         seen |-> NoRows, mine |-> NoRows, entries |-> 0]

\* The sale is recorded, or its commission is already payable.
Init ==
  /\ \E settled \in BOOLEAN :
       db = [r \in Rows |->
         CASE r = "sale" ->
                [status |-> IF settled THEN "approved" ELSE "pending", refunded |-> 0]
           [] r = "commission" ->
                [status |-> IF settled THEN "payable" ELSE "pending", amount |-> Amount,
                 payout |-> Null]
           [] r \in Payouts -> [status |-> "absent", amount |-> 0]
           [] r \in Disputes -> [status |-> "absent", previous |-> "none"]]
  /\ tx = [s \in Sessions |-> Idle]
  /\ ledger = Amount
  /\ superseded = FALSE
  /\ calls = 0
  /\ given = 0
  /\ met = {}

----------------------------------------------------------------------------
(* Transactions.                                                           *)

Held(s) == DOMAIN tx[s].mine

\* A row as a statement of s sees it: its own write, or what is committed.
Row(s, r) == IF r \in Held(s) THEN tx[s].mine[r] ELSE db[r]

\* s may lock r.
Lockable(s, r) == \A o \in Sessions \ {s} : r \notin Held(o)

Seen(s, r) == tx[s].seen[r]

At(s, label) == tx[s].at = label

\* A call begins with its first statement, which reads the rows in `reads`.
Start(s, call, row, part, reads, next) ==
  /\ At(s, "idle")
  /\ calls < MaxCalls
  /\ calls' = calls + 1
  /\ tx' = [tx EXCEPT ![s] = [Idle EXCEPT !.call = call, !.at = next, !.row = row,
                                          !.part = part,
                                          !.seen = [r \in reads |-> db[r]]]]
  /\ met' = met \cup {{call, tx[o].call} : o \in {o \in Sessions : tx[o].call # "none"}}
  /\ Cardinality(met') <= MaxMeetings
  /\ UNCHANGED <<db, ledger, superseded, given>>

\* A statement that reads row r.
Read(s, r, next) ==
  /\ tx' = [tx EXCEPT ![s] = [tx[s] EXCEPT !.seen = Put(r, Row(s, r), @), !.at = next]]
  /\ UNCHANGED <<db, ledger, superseded, calls, given, met>>

\* A statement that only decides how the call goes on.
Pass(s, next) ==
  /\ tx' = [tx EXCEPT ![s].at = next]
  /\ UNCHANGED <<db, ledger, superseded, calls, given, met>>

\* The call throws and its transaction is rolled back.
Throw(s) ==
  /\ tx' = [tx EXCEPT ![s] = Idle]
  /\ UNCHANGED <<db, ledger, superseded, calls, given, met>>

Commit(s) ==
  /\ At(s, "commit")
  /\ db' = [r \in Rows |-> Row(s, r)]
  /\ ledger' = ledger + tx[s].entries
  /\ superseded' = (superseded \/ tx[s].call \in {"reattribute", "resolve"})
  /\ given' = IF tx[s].call = "refund" THEN given + tx[s].part ELSE given
  /\ tx' = [tx EXCEPT ![s] = Idle]
  /\ UNCHANGED <<calls, met>>

----------------------------------------------------------------------------
(* What each statement that writes is about.                               *)

Closed == {"reversed", "void"}

\* Attribution corrected: to another affiliate, to nobody, or to settle a dispute.
Reattributions == {"reattribute", "detach", "resolve"}

Voiding(s) == tx[s].call \in {"cancel"} \cup Reattributions

\* What the sale's row says was given back once s is done with it, by the copy s read.
RefundedTotal(s) == Seen(s, "sale").refunded + tx[s].part

\* Whether the call takes the whole commission back, and what it leaves of it otherwise.
Closing(s) == tx[s].call # "refund" \/ RefundedTotal(s) >= Amount
Corrected(s) == IF Closing(s) THEN 0 ELSE Amount - RefundedTotal(s)

\* The transition table lets no payable commission become void, and a commission that was paid is
\* not reattributed.
Refused(s) ==
  LET copy == Seen(s, "commission")
  IN  \/ /\ Voiding(s) /\ copy.status \notin Closed \cup {"paid"}
         /\ "void" \notin CommissionMoves[copy.status]
      \/ tx[s].call \in Reattributions /\ copy.status = "paid"

\* A correction writes the row unless the copy is closed, paid or low enough already.
Corrects(s) ==
  LET copy == Seen(s, "commission")
  IN  /\ copy.status \notin Closed \cup {"paid"}
      /\ Closing(s) \/ Corrected(s) < copy.amount
      /\ ~Refused(s)

\* The row the next statement of s locks, or Null.  Only the last three look at the row itself.
Target(s) ==
  CASE tx[s].at \in {"close sale", "approve by hand", "touch sale",
                     "hold sale", "restore sale"} -> "sale"
    [] tx[s].at \in {"approve commission", "settle commission", "take commission"} -> "commission"
    [] tx[s].at \in {"insert batch", "set batch", "pay batch", "cancel batch",
                     "insert dispute", "review dispute", "close dispute"} -> tx[s].row
    [] At(s, "correct commission") /\ Corrects(s) -> "commission"
    [] At(s, "approve sale") /\ Seen(s, "sale").status = "pending"
         /\ Row(s, "sale").status = "pending" -> "sale"
    [] At(s, "pay commission") /\ Row(s, "commission").payout = tx[s].row
         /\ Row(s, "commission").status = "payable" -> "commission"
    [] At(s, "release commission") /\ Row(s, "commission").payout = tx[s].row -> "commission"
    [] OTHER -> Null

\* A statement that writes its target once it is free, with an entry in the ledger.
WriteWithEntry(s, row, entry, next) ==
  /\ Target(s) # Null /\ Lockable(s, Target(s))
  /\ tx' = [tx EXCEPT ![s] = [tx[s] EXCEPT !.mine = Put(Target(s), row, @), !.at = next,
                                          !.entries = @ + entry]]
  /\ UNCHANGED <<db, ledger, superseded, calls, given, met>>

Write(s, row, next) == WriteWithEntry(s, row, 0, next)

\* A statement that finds nothing to write.
Skip(s, next) == Target(s) = Null /\ Pass(s, next)

\* What a call does last: one that resolves a dispute closes it.
Rest(s) == IF tx[s].row \in Disputes THEN "close dispute" ELSE "commit"

----------------------------------------------------------------------------
(* Refund and cancellation write the sale first, then its commission.      *)

\* A part of the sale, or all that remains.
RefundConversion(s, part) ==
  /\ "refunded" \in SaleMoves[db["sale"].status]
  /\ part <= Amount - db["sale"].refunded
  /\ Start(s, "refund", "sale", part, {"sale"}, "close sale")

CancelConversion(s) ==
  /\ "cancelled" \in SaleMoves[db["sale"].status]
  /\ Start(s, "cancel", "sale", 0, {"sale"}, "close sale")

\* By hand or by an automation rule: a pending sale, or a disputed one whatever its dispute.
ApproveConversion(s) ==
  /\ "approved" \in SaleMoves[db["sale"].status]
  /\ Start(s, "approve", "sale", 0, {"sale"}, "approve by hand")

ApproveByHand(s) ==
  /\ At(s, "approve by hand")
  /\ Write(s, [Row(s, "sale") EXCEPT !.status = "approved"], "commit")

\* Mutant: the refund is added to the row, not to the copy it was checked against.
RefundedInPlace(s) == Row(s, "sale").refunded + tx[s].part

RefundedInRow(s) == RefundedTotal(s)

ClosedSale(s) ==
  [Row(s, "sale") EXCEPT
     !.status = IF tx[s].call = "refund" THEN "refunded" ELSE "cancelled",
     !.refunded = IF tx[s].call = "refund" THEN RefundedInRow(s) ELSE @]

\* Mutant: the commission is read before the sale is written.
CloseSaleLate(s) ==
  /\ At(s, "close sale")
  /\ IF "commission" \notin DOMAIN tx[s].seen THEN Read(s, "commission", "close sale")
     ELSE Write(s, ClosedSale(s), "correct commission")

CloseSale(s) ==
  /\ At(s, "close sale")
  /\ Write(s, ClosedSale(s), "read commission")

\* Reattribution goes on to the sale.
AfterCorrection(s) == IF tx[s].call \in Reattributions THEN "touch sale" ELSE Rest(s)

\* currentCommission: the sale's latest.
ReadCommission(s) ==
  /\ At(s, "read commission")
  /\ IF superseded THEN Pass(s, AfterCorrection(s)) ELSE Read(s, "commission", "correct commission")

\* reverseCommission begins with the commission.
ReverseCommission(s) ==
  Start(s, "reverse", "commission", 0, {"commission"}, "correct commission")

\* reverseCommissionRow, reduceCommissionRow.  The clawback of a paid commission is a ledger entry
\* of another kind and leaves the row alone.
CorrectCommission(s) ==
  LET row == Row(s, "commission")
      to == CASE Voiding(s) -> "void" [] Closing(s) -> "reversed" [] OTHER -> row.status
  IN  /\ At(s, "correct commission")
      /\ IF Refused(s) THEN Throw(s)
         ELSE \/ WriteWithEntry(s, [row EXCEPT !.status = to, !.amount = Corrected(s)],
                                Corrected(s) - Seen(s, "commission").amount, AfterCorrection(s))
              \/ Skip(s, AfterCorrection(s))

----------------------------------------------------------------------------
(* Reattribution writes the old commission first, then the sale.           *)

\* To another affiliate, whose commission is a new row, or to nobody.
ReattributeConversion(s, call) ==
  /\ call \in {"reattribute", "detach"}
  /\ Start(s, call, "sale", 0, {"sale"}, "read commission")

\* The affiliate's columns alone.
TouchSale(s) ==
  /\ At(s, "touch sale")
  /\ Write(s, Row(s, "sale"), Rest(s))

----------------------------------------------------------------------------
(* Settlement writes the commission first, then its sale; approval of a    *)
(* commission writes nothing else.                                         *)

\* Mutant: an approval goes through the statements of a release.
ApproveCommissionAsRelease(s) ==
  /\ "approved" \in CommissionMoves[db["commission"].status]
  /\ Start(s, "approve commission", "commission", 0, {"commission", "sale"}, "settle commission")

ApproveCommission(s) ==
  /\ "approved" \in CommissionMoves[db["commission"].status]
  /\ Start(s, "approve commission", "commission", 0, {"commission"}, "approve commission")

MarkApproved(s) ==
  /\ At(s, "approve commission")
  /\ Write(s, [Row(s, "commission") EXCEPT !.status = "approved"], "commit")

\* Mutant: the holding period alone decides.
DueWhatever == db["sale"].status # "disputed"

\* The commission is due and its sale is not held.
Due == db["commission"].status \in {"pending", "approved"} /\ db["sale"].status # "disputed"

SettleHoldingPeriods(s) ==
  /\ Due
  /\ Start(s, "settle", "commission", 0, {"commission", "sale"}, "settle commission")

\* By hand: the sale is read by a statement of its own.
ReleaseCommission(s) ==
  /\ db["commission"].status \in {"pending", "approved"}
  /\ Start(s, "release", "commission", 0, {"commission"}, "look at sale")

LookAtSale(s) ==
  /\ At(s, "look at sale")
  /\ IF Row(s, "sale").status = "disputed" THEN Throw(s) ELSE Read(s, "sale", "settle commission")

SettleCommission(s) ==
  /\ At(s, "settle commission")
  /\ Write(s, [Row(s, "commission") EXCEPT !.status = "payable"], "approve sale")

\* The one UPDATE of a sale that asks for the status it expects.
ApproveSale(s) ==
  /\ At(s, "approve sale")
  /\ Write(s, [Row(s, "sale") EXCEPT !.status = "approved"], "commit") \/ Skip(s, "commit")

----------------------------------------------------------------------------
(* Batches.                                                                *)

\* p is a new row of s.
Unused(p) == db[p].status = "absent" /\ \A s \in Sessions : tx[s].row # p

\* Mutant: a commission stays on offer once it is in a batch.
OnOfferAgain == db["commission"].status = "payable"

OnOffer == db["commission"].status = "payable" /\ db["commission"].payout = Null

\* A draft, or a batch that is recorded as paid outside in the same transaction.
CreatePayoutBatch(s, p, call) ==
  /\ call \in {"draw", "record"}
  /\ Unused(p)
  /\ OnOffer /\ db["commission"].amount > 0
  /\ Start(s, call, p, 0, {"commission"}, "insert batch")

InsertBatch(s) ==
  /\ At(s, "insert batch")
  /\ Write(s, [status |-> "draft", amount |-> Seen(s, "commission").amount], "take commission")

TakeCommission(s) ==
  /\ At(s, "take commission")
  /\ Write(s, [Row(s, "commission") EXCEPT !.payout = tx[s].row],
           IF tx[s].call = "record" THEN "pay batch" ELSE "commit")

\* markPayoutProcessing, markPayoutFailed.
MarkPayout(s, p, call, to) ==
  /\ to \in PayoutMoves[db[p].status]
  /\ Start(s, call, p, 0, {p}, "set batch")

SetBatch(s) ==
  /\ At(s, "set batch")
  /\ Write(s, [Row(s, tx[s].row) EXCEPT
                !.status = IF tx[s].call = "process" THEN "processing" ELSE "failed"], "commit")

MarkPayoutPaid(s, p) ==
  /\ "paid" \in PayoutMoves[db[p].status]
  /\ Start(s, "pay", p, 0, {p}, "pay batch")

PayBatch(s) ==
  /\ At(s, "pay batch")
  /\ Write(s, [Row(s, tx[s].row) EXCEPT !.status = "paid"], "pay commission")

PayCommission(s) ==
  /\ At(s, "pay commission")
  /\ \/ Write(s, [Row(s, "commission") EXCEPT !.status = "paid"], "commit")
     \/ Skip(s, "commit")

CancelPayout(s, p) ==
  /\ "cancelled" \in PayoutMoves[db[p].status]
  /\ Start(s, "cancel batch", p, 0, {p}, "cancel batch")

CancelBatch(s) ==
  /\ At(s, "cancel batch")
  /\ Write(s, [Row(s, tx[s].row) EXCEPT !.status = "cancelled"], "release commission")

GiveBack(s) ==
  /\ At(s, "release commission")
  /\ \/ Write(s, [Row(s, "commission") EXCEPT !.payout = Null], "commit")
     \/ Skip(s, "commit")

----------------------------------------------------------------------------
(* Disputes.                                                               *)

\* Mutant: a sale may be disputed twice.
NoneOpenUnchecked == TRUE

OpenStates == {"open", "under_review"}

NoneOpen == \A d \in Disputes : db[d].status \notin OpenStates

OpenDispute(s, d) ==
  /\ Unused(d)
  /\ NoneOpen
  /\ Start(s, "dispute", d, 0, {}, "remember sale")

\* holdConversion: a pending or approved sale is held.
RememberSale(s) ==
  /\ At(s, "remember sale")
  /\ Read(s, "sale", IF Row(s, "sale").status \in {"pending", "approved"} THEN "check sale"
                     ELSE "insert dispute")

\* disputeConversion reads the sale again.
CheckSale(s) ==
  /\ At(s, "check sale")
  /\ IF "disputed" \in SaleMoves[Row(s, "sale").status] THEN Skip(s, "hold sale") ELSE Throw(s)

HoldSale(s) ==
  /\ At(s, "hold sale")
  /\ Write(s, [Row(s, "sale") EXCEPT !.status = "disputed"], "insert dispute")

InsertDispute(s) ==
  /\ At(s, "insert dispute")
  /\ Write(s, [status |-> "open", previous |-> Seen(s, "sale").status], "commit")

StartReview(s, d) ==
  /\ db[d].status = "open"
  /\ Start(s, "review", d, 0, {d}, "review dispute")

ReviewDispute(s) ==
  /\ At(s, "review dispute")
  /\ Write(s, [Row(s, tx[s].row) EXCEPT !.status = "under_review"], "commit")

\* Withdrawal, and resolution that restores the sale; resolution that reattributes it restores it
\* first.
EndDispute(s, d, call) ==
  /\ call \in {"withdraw", "resolve"}
  /\ db[d].status \in OpenStates
  /\ Start(s, call, d, 0, {d}, "peek at sale")

\* Resolution that cancels the sale.
ResolveByCancelling(s, d) ==
  /\ db[d].status \in OpenStates
  /\ Start(s, "cancel", d, 0, {d}, "read sale")

ReadSale(s) ==
  /\ At(s, "read sale")
  /\ IF "cancelled" \in SaleMoves[Row(s, "sale").status] THEN Read(s, "sale", "close sale")
     ELSE Throw(s)

AfterRelease(s) == IF tx[s].call = "resolve" THEN "read commission" ELSE "close dispute"

PeekAtSale(s) ==
  /\ At(s, "peek at sale")
  /\ Read(s, "sale", IF Row(s, "sale").status = "disputed" THEN "restore sale" ELSE AfterRelease(s))

\* What a restored sale goes back to, by the dispute that was read.
Restored(s) == IF Seen(s, tx[s].row).previous = "approved" THEN "approved" ELSE "pending"

\* Mutant: the copy that was read is put back, not its status alone.
RestoreSaleWhole(s) ==
  /\ At(s, "restore sale")
  /\ Write(s, [Seen(s, "sale") EXCEPT !.status = Restored(s)], AfterRelease(s))

RestoreSale(s) ==
  /\ At(s, "restore sale")
  /\ Write(s, [Row(s, "sale") EXCEPT !.status = Restored(s)], AfterRelease(s))

CloseDispute(s) ==
  /\ At(s, "close dispute")
  /\ Write(s, [Row(s, tx[s].row) EXCEPT !.status = "ended"], "commit")

----------------------------------------------------------------------------

Waits(s, o) == Target(s) # Null /\ Target(s) \in Held(o)

\* External: of two transactions that wait for each other, Postgres ends one.
EndDeadlock(s) ==
  /\ \E o \in Sessions \ {s} : Waits(s, o) /\ Waits(o, s)
  /\ Throw(s)

Call(s) ==
  \/ \E part \in 1..Amount : RefundConversion(s, part)
  \/ CancelConversion(s) \/ ApproveConversion(s)
  \/ \E call \in {"reattribute", "detach"} : ReattributeConversion(s, call)
  \/ ReverseCommission(s) \/ ApproveCommission(s)
  \/ SettleHoldingPeriods(s) \/ ReleaseCommission(s)
  \/ \E p \in Payouts :
       \/ \E call \in {"draw", "record"} : CreatePayoutBatch(s, p, call)
       \/ MarkPayout(s, p, "process", "processing") \/ MarkPayout(s, p, "fail", "failed")
       \/ MarkPayoutPaid(s, p) \/ CancelPayout(s, p)
  \/ \E d \in Disputes :
       \/ OpenDispute(s, d) \/ StartReview(s, d)
       \/ \E call \in {"withdraw", "resolve"} : EndDispute(s, d, call)
       \/ ResolveByCancelling(s, d)

Statement(s) ==
  \/ CloseSale(s) \/ ApproveByHand(s)
  \/ ReadCommission(s) \/ CorrectCommission(s) \/ TouchSale(s)
  \/ MarkApproved(s) \/ LookAtSale(s) \/ SettleCommission(s) \/ ApproveSale(s)
  \/ InsertBatch(s) \/ TakeCommission(s) \/ SetBatch(s)
  \/ PayBatch(s) \/ PayCommission(s) \/ CancelBatch(s) \/ GiveBack(s)
  \/ RememberSale(s) \/ CheckSale(s) \/ HoldSale(s) \/ InsertDispute(s)
  \/ ReviewDispute(s) \/ ReadSale(s)
  \/ PeekAtSale(s) \/ RestoreSale(s) \/ CloseDispute(s)
  \/ Commit(s)
  \/ EndDeadlock(s)

Next == \E s \in Sessions : Call(s) \/ Statement(s)

Spec == Init /\ [][Next]_vars

----------------------------------------------------------------------------
(* Properties.                                                             *)

Corrections == {"refund", "cancel", "reverse"} \cup Reattributions
Promotions == {"settle", "release", "approve commission"}

Calls == Corrections \cup Promotions \cup
  {"approve", "draw", "record", "process", "fail", "pay", "cancel batch",
   "dispute", "review", "withdraw"}

\* Calls a and b have overlapped.
Met(a, b) == {a, b} \in met

MetOneOf(as, bs) == \E a \in as, b \in bs : Met(a, b)

\* Rows have the shape of their tables, no row is locked twice, and a session between calls has
\* nothing open.
TypeOK ==
  /\ db["sale"] \in [status : DOMAIN SaleMoves, refunded : Int]
  /\ db["commission"] \in [status : DOMAIN CommissionMoves, amount : Int,
                           payout : Payouts \cup {Null}]
  /\ \A p \in Payouts : db[p] \in [status : DOMAIN PayoutMoves, amount : 0..Amount]
  /\ \A d \in Disputes : db[d] \in [status : {"absent", "ended"} \cup OpenStates,
                                    previous : DOMAIN SaleMoves \cup {"none"}]
  /\ \A s, o \in Sessions : s # o => Held(s) \cap Held(o) = {}
  /\ \A s \in Sessions : At(s, "idle") => tx[s] = Idle
  /\ superseded \in BOOLEAN
  /\ met \subseteq {{a, b} : a, b \in Calls}

\* Whatever overlaps, a sale is never refunded beyond its amount, in the row or in the making.
RefundsWithin ==
  /\ db["sale"].refunded \in 0..Amount
  /\ \A s \in Sessions : "sale" \in Held(s) => tx[s].mine["sale"].refunded \in 0..Amount

\* Every refund counts on its sale, unless two refunds of it overlapped.
NoRefundLost == Met("refund", "refund") \/ db["sale"].refunded = given

\* Corrections that do not write the sale first; refunds and cancellations do, and so wait for each
\* other.
Unqueued == {"reverse"} \cup Reattributions

\* The ledger's credits and reversals are worth what the commission is, unless a reversal by hand or
\* a reattribution met another correction.
LedgerFollowsRow == MetOneOf(Unqueued, Corrections) \/ ledger = db["commission"].amount

Draws == {"draw", "record"}

\* A batch keeps its commission unless it is cancelled: a failed one may be paid yet.
Live(p) == db[p].status \notin {"absent", "cancelled"}

\* The commission is in two live batches only if two draws overlapped, or if its batch was cancelled
\* while another call gave it a status.
PaidOnce ==
  Cardinality({p \in Payouts : Live(p)}) > 1 =>
    MetOneOf(Draws, Draws) \/ MetOneOf({"cancel batch"}, {"process", "fail", "pay"})

\* A dispute is open and its sale is not held.
Unheld ==
  /\ \E d \in Disputes : db[d].status \in OpenStates
  /\ db["sale"].status \in {"pending", "approved"}

\* An open dispute holds its sale until it is over, with two exceptions: a call that was open with
\* another one of disputes, or with an approval, writes by an old copy; and an approval of a
\* disputed sale takes it out of its hold, dispute or no dispute.
HeldWhileOpen ==
  [][~Unheld /\ Unheld' =>
       \/ MetOneOf({"dispute", "review"}, {"dispute", "withdraw", "resolve", "approve"})
       \/ \E s \in Sessions : tx[s].call = "approve" /\ tx'[s] # tx[s] ]_vars

\* The status of a commission that was taken back, or paid, is final as in Settlement, except for a
\* settlement or an approval that met a correction, for corrections that do not wait for each
\* other, and for what met the payment.
EndedStaysEnded ==
  [][LET before == db["commission"].status
         after == db'["commission"].status
     IN  /\ before \in Closed /\ after # before =>
              MetOneOf(Promotions \cup Unqueued, Corrections)
         /\ before = "paid" /\ after # before =>
              MetOneOf({"pay", "record"}, Promotions \cup Corrections) ]_vars

SaleFirst == {"refund", "cancel", "resolve"}
CommissionFirst == {"settle", "release"} \cup Reattributions

\* Two transactions wait for each other only when one writes the sale before its commission and the
\* other the commission before its sale; batches, approvals and the other calls of disputes lock in
\* one order.
CycleOnlyAgainstOrder ==
  \A s, o \in Sessions :
    s # o /\ Waits(s, o) /\ Waits(o, s) =>
      \/ tx[s].call \in SaleFirst /\ tx[o].call \in CommissionFirst
      \/ tx[o].call \in SaleFirst /\ tx[s].call \in CommissionFirst

============================================================================
