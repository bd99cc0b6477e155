---------------------------- MODULE Settlement ----------------------------
(***************************************************************************)
(* The life of the money of one workspace: conversions (sales), their      *)
(* commissions, the affiliate ledger and payout batches, as the services   *)
(* conversions.ts, commissions.ts, payouts.ts and disputes.ts move them.   *)
(*                                                                         *)
(* One action is one service call, which runs in one database transaction  *)
(* (lib/rls.ts); the calls are atomic here, and how their statements may   *)
(* interleave is left to a model of its own.  A call that throws rolls     *)
(* back, so its checks are guards.  Time is abstracted: any subset of the  *)
(* held commissions may have reached payableAt when the settlement job     *)
(* looks.  One currency; sales that came through an affiliate, no leads.   *)
(***************************************************************************)
EXTENDS Naturals, Integers, FiniteSets, FiniteSetsExt, Money

CONSTANTS
  Orders,          \* external order ids; a conversion row each
  Affiliates,
  Null,            \* a null reference: no row, no affiliate
  SaleAmounts,     \* conversion amounts, in minor units
  Earnings,        \* what computeCommission may return
  Adjustments,     \* signed amounts of manual adjustments and bonuses
  TestModes,       \* values programs.testMode takes
  Threshold,       \* tenant.defaults.payoutThresholdMinor
  MaxCommissions,  \* bound: rows of the commissions table
  MaxEntries,      \* bound: adjustment and clawback rows of the ledger
  MaxPayouts       \* bound: rows of the payouts table

ASSUME ConstantsOK ==
  /\ Null \notin Affiliates \cup Orders
  /\ SaleAmounts \subseteq Nat
  /\ Earnings \subseteq Nat
  /\ Adjustments \subseteq Int \ {0}
  /\ TestModes \subseteq BOOLEAN
  /\ Threshold \in Nat
  /\ MaxCommissions \in Nat
  /\ MaxEntries \in Nat
  /\ MaxPayouts \in Nat

VARIABLES
  conversions,  \* the conversions table, with the open dispute on each row
  commissions,  \* the commissions table; ids follow the seq column
  credited,     \* per commission, the sum of its credit and reversal ledger rows
  entries,      \* the ledger's adjustment and clawback rows: those a batch can carry
  payouts       \* the payouts table, with the row ids its audit record snapshots

vars == <<conversions, commissions, credited, entries, payouts>>

CommissionIds == 1..MaxCommissions
EntryIds == 1..MaxEntries
PayoutIds == 1..MaxPayouts
NoPayout == 0       \* payoutId is null
NoCommission == 0   \* commissionId is null

ConversionStatus == {"pending", "approved", "refunded", "cancelled", "reversed", "disputed"}
CommissionStatus == {"pending", "approved", "payable", "paid", "reversed", "void"}
PayoutStatus == {"draft", "processing", "paid", "failed", "cancelled"}
Policies == {"full", "partial", "none"}

----------------------------------------------------------------------------
(* Transition tables: the statuses that may follow each status.            *)

ConversionMoves ==
  [absent    |-> {},
   pending   |-> {"approved", "refunded", "cancelled", "reversed", "disputed"},
   approved  |-> {"refunded", "reversed", "disputed"},
   disputed  |-> {"pending", "approved", "refunded", "cancelled", "reversed"},
   refunded  |-> {"refunded", "reversed"},
   cancelled |-> {},
   reversed  |-> {}]

CommissionMoves ==
  [absent   |-> {},
   pending  |-> {"approved", "payable", "reversed", "void"},
   approved |-> {"payable", "reversed", "void"},
   payable  |-> {"paid", "reversed"},
   paid     |-> {},
   reversed |-> {},
   void     |-> {}]

\* Mutant: a paid batch may still be cancelled.
PayoutMovesReopened ==
  [absent |-> {}, draft |-> {"processing", "paid", "cancelled"},
   processing |-> {"paid", "failed"}, failed |-> {"processing", "cancelled"},
   paid |-> {"cancelled"}, cancelled |-> {}]

PayoutMoves ==
  [absent     |-> {},
   draft      |-> {"processing", "paid", "cancelled"},
   processing |-> {"paid", "failed"},
   failed     |-> {"processing", "cancelled"},
   paid       |-> {},
   cancelled  |-> {}]

----------------------------------------------------------------------------
(* Rows.                                                                   *)

AbsentConversion == [status |-> "absent", amount |-> 0, refunded |-> 0, dispute |-> "none"]

AbsentCommission ==
  [status |-> "absent", order |-> Null, affiliate |-> Null, amount |-> 0, original |-> 0,
   payout |-> NoPayout, test |-> FALSE]

AbsentEntry ==
  [type |-> "absent", affiliate |-> Null, commission |-> NoCommission, amount |-> 0,
   payout |-> NoPayout]

AbsentPayout ==
  [status |-> "absent", affiliate |-> Null, amount |-> 0, commissions |-> {}, entries |-> {}]

Init ==
  /\ conversions = [o \in Orders |-> AbsentConversion]
  /\ commissions = [k \in CommissionIds |-> AbsentCommission]
  /\ credited = [k \in CommissionIds |-> 0]
  /\ entries = [e \in EntryIds |-> AbsentEntry]
  /\ payouts = [p \in PayoutIds |-> AbsentPayout]

\* The next row of each table: ids are handed out in order.
FreshCommission(k) ==
  commissions[k].status = "absent" /\ \A j \in 1..(k - 1) : commissions[j].status # "absent"
FreshEntry(e) ==
  entries[e].type = "absent" /\ \A f \in 1..(e - 1) : entries[f].type # "absent"
FreshPayout(p) ==
  payouts[p].status = "absent" /\ \A q \in 1..(p - 1) : payouts[q].status # "absent"

\* k is the row currentCommission returns for order o: the latest of its conversion.
IsCurrent(k, o) ==
  /\ commissions[k].order = o
  /\ \A j \in CommissionIds : commissions[j].order = o => j <= k

\* The commission is closed: every later correction of it is a no-op.
Closed(k) == commissions[k].status \in {"reversed", "void"}

----------------------------------------------------------------------------
(* Row operations shared by the calls.                                     *)

NewCommission(o, a, earned, test) ==
  [status |-> "pending", order |-> o, affiliate |-> a, amount |-> earned,
   original |-> earned, payout |-> NoPayout, test |-> test]

WriteEntry(type, a, k, amount) ==
  \E e \in EntryIds :
    /\ FreshEntry(e)
    /\ entries' = [entries EXCEPT ![e] =
         [type |-> type, affiliate |-> a, commission |-> k, amount |-> amount,
          payout |-> NoPayout]]

\* An unpaid row gives its amount back to the ledger and closes as `to`.
CloseRow(k, to) ==
  /\ to \in CommissionMoves[commissions[k].status]
  /\ commissions' = [commissions EXCEPT ![k] = [@ EXCEPT !.status = to, !.amount = 0]]
  /\ credited' = [credited EXCEPT ![k] = @ - commissions[k].amount]
  /\ UNCHANGED entries

\* Money that has left comes back through the ledger; the row stays as it was paid.
Clawback(k, amount) ==
  /\ WriteEntry("clawback", commissions[k].affiliate, k, -amount)
  /\ UNCHANGED <<commissions, credited>>

ReverseCommissionRow(k, to) ==
  \/ Closed(k) /\ UNCHANGED <<commissions, credited, entries>>
  \/ commissions[k].status = "paid" /\ Clawback(k, commissions[k].amount)
  \/ ~Closed(k) /\ commissions[k].status # "paid" /\ CloseRow(k, to)

\* Mutant: the row shrinks and no reversal is written to the ledger.
ShrinkRowSilently(k, newAmount) ==
  /\ commissions' = [commissions EXCEPT ![k].amount = newAmount]
  /\ UNCHANGED <<credited, entries>>

ShrinkRow(k, newAmount) ==
  /\ commissions' = [commissions EXCEPT ![k].amount = newAmount]
  /\ credited' = [credited EXCEPT ![k] = @ + newAmount - commissions[k].amount]
  /\ UNCHANGED entries

ReduceCommissionRow(k, newAmount) ==
  \/ /\ Closed(k) \/ newAmount >= commissions[k].amount
     /\ UNCHANGED <<commissions, credited, entries>>
  \/ /\ ~Closed(k) /\ newAmount < commissions[k].amount /\ newAmount <= 0
     /\ ReverseCommissionRow(k, "reversed")
  \/ /\ ~Closed(k) /\ newAmount < commissions[k].amount /\ newAmount > 0
     /\ IF commissions[k].status = "paid"
        THEN Clawback(k, commissions[k].amount - newAmount)
        ELSE ShrinkRow(k, newAmount)

----------------------------------------------------------------------------
(* Conversions.                                                            *)

SetConversion(o, to) ==
  /\ to \in ConversionMoves[conversions[o].status]
  /\ conversions' = [conversions EXCEPT ![o].status = to]

RecordConversion(o, a, amount, earned, test) ==
  /\ conversions[o].status = "absent"
  /\ conversions' = [conversions EXCEPT ![o] =
       [status |-> "pending", amount |-> amount, refunded |-> 0, dispute |-> "none"]]
  /\ \E k \in CommissionIds :
       /\ FreshCommission(k)
       /\ commissions' = [commissions EXCEPT ![k] = NewCommission(o, a, earned, test)]
       /\ credited' = [credited EXCEPT ![k] = earned]
  /\ UNCHANGED <<entries, payouts>>

\* Mutant: earlier refunds are forgotten.
RefundableForgetful(o) == 1..conversions[o].amount

\* What may be refunded: a positive amount up to what is left, or all that is left.
Refundable(o) ==
  LET remaining == conversions[o].amount - conversions[o].refunded
  IN  (1..remaining) \cup {remaining}

\* The merchant edits a program's refund policy at will, so every refund may meet any policy.
RefundConversion(o, refund, policy) ==
  LET row == conversions[o]
      total == row.refunded + refund
  IN  /\ "refunded" \in ConversionMoves[row.status]
      /\ refund \in Refundable(o)
      /\ conversions' = [conversions EXCEPT ![o] =
           [@ EXCEPT !.status = "refunded", !.refunded = total]]
      /\ \E k \in CommissionIds :
           /\ IsCurrent(k, o)
           /\ \/ /\ policy = "full" \/ total >= row.amount
                 /\ ReverseCommissionRow(k, "reversed")
              \/ /\ policy = "partial" /\ total < row.amount
                 /\ ReduceCommissionRow(
                      k, Proportion(commissions[k].original, row.amount - total, row.amount))
              \/ /\ policy = "none" /\ total < row.amount
                 /\ UNCHANGED <<commissions, credited, entries>>
      /\ UNCHANGED payouts

CancelInto(o, dispute) ==
  /\ "cancelled" \in ConversionMoves[conversions[o].status]
  /\ conversions' = [conversions EXCEPT ![o] =
       [@ EXCEPT !.status = "cancelled", !.dispute = dispute]]
  /\ \E k \in CommissionIds : IsCurrent(k, o) /\ ReverseCommissionRow(k, "void")
  /\ UNCHANGED payouts

CancelConversion(o) == CancelInto(o, conversions[o].dispute)

ApproveConversion(o) ==
  SetConversion(o, "approved") /\ UNCHANGED <<commissions, credited, entries, payouts>>

\* The service's own call, which only holdConversion makes; taken alone it holds a sale without a
\* dispute record.
DisputeConversion(o) ==
  SetConversion(o, "disputed") /\ UNCHANGED <<commissions, credited, entries, payouts>>

\* Mutant: the old commission is left as it is.
VoidedForgotten(k) == commissions[k]

\* The row as a reattribution leaves it.
Voided(k) ==
  IF Closed(k) THEN commissions[k]
  ELSE [commissions[k] EXCEPT !.status = "void", !.amount = 0]

\* The old commission is voided, a new one is earned by `a`, or by nobody.
ReattributeInto(o, a, earned, test, status, dispute) ==
  /\ conversions[o].status # "absent"
  /\ conversions' = [conversions EXCEPT ![o] =
       [@ EXCEPT !.status = status, !.dispute = dispute]]
  /\ \E k \in CommissionIds :
       LET old == Voided(k)
       IN  /\ IsCurrent(k, o)
           /\ Closed(k) \/ "void" \in CommissionMoves[commissions[k].status]
           /\ IF a = Null
              THEN /\ commissions' = [commissions EXCEPT ![k] = old]
                   /\ credited' = [credited EXCEPT ![k] = @ + old.amount - commissions[k].amount]
              ELSE \E n \in CommissionIds :
                     /\ FreshCommission(n)
                     /\ commissions' =
                          [commissions EXCEPT ![k] = old, ![n] = NewCommission(o, a, earned, test)]
                     /\ credited' =
                          [credited EXCEPT ![k] = @ + old.amount - commissions[k].amount,
                                           ![n] = earned]
  /\ UNCHANGED <<entries, payouts>>

ReattributeConversion(o, a, earned, test) ==
  ReattributeInto(o, a, earned, test, conversions[o].status, conversions[o].dispute)

----------------------------------------------------------------------------
(* Disputes: at most one open on a sale, opened on it or linked to it by a *)
(* merchant.  Of the status it found, releaseConversion only asks whether  *)
(* it was "approved".                                                      *)

OpenDispute(o) ==
  LET found == conversions[o].status
  IN  /\ found # "absent"
      /\ conversions[o].dispute = "none"
      /\ conversions' = [conversions EXCEPT ![o] =
           [@ EXCEPT !.status = IF found \in {"pending", "approved"} THEN "disputed" ELSE found,
                     !.dispute = IF found = "approved" THEN "approved" ELSE "other"]]
      /\ UNCHANGED <<commissions, credited, entries, payouts>>

\* Where releaseConversion leaves a sale.
Released(o) ==
  IF conversions[o].status # "disputed" THEN conversions[o].status
  ELSE IF conversions[o].dispute = "approved" THEN "approved" ELSE "pending"

RestoreSale(o) ==
  /\ conversions[o].dispute # "none"
  /\ conversions' = [conversions EXCEPT ![o] =
       [@ EXCEPT !.status = Released(o), !.dispute = "none"]]
  /\ UNCHANGED <<commissions, credited, entries, payouts>>

ResolveByCancelling(o) == conversions[o].dispute # "none" /\ CancelInto(o, "none")

ResolveByReattributing(o, a, earned, test) ==
  /\ conversions[o].dispute # "none"
  /\ ReattributeInto(o, a, earned, test, Released(o), "none")

----------------------------------------------------------------------------
(* Commissions.                                                            *)

Held(k) == commissions[k].status \in {"pending", "approved"}

ApproveCommission(k) ==
  /\ "approved" \in CommissionMoves[commissions[k].status]
  /\ commissions' = [commissions EXCEPT ![k].status = "approved"]
  /\ UNCHANGED <<conversions, credited, entries, payouts>>

\* approveSale: a sale whose commission becomes payable is approved if it was pending.
Sold(orders) ==
  [o \in Orders |-> IF o \in orders /\ conversions[o].status = "pending"
                    THEN [conversions[o] EXCEPT !.status = "approved"]
                    ELSE conversions[o]]

\* "Pay now": ends the holding period of one commission.
ReleaseCommission(k) ==
  LET o == commissions[k].order
  IN  /\ "payable" \in CommissionMoves[commissions[k].status]
      /\ ~commissions[k].test
      /\ conversions[o].status # "disputed"
      /\ commissions' = [commissions EXCEPT ![k].status = "payable"]
      /\ conversions' = Sold({o})
      /\ UNCHANGED <<credited, entries, payouts>>

\* The settlement job: `due` are the held commissions past payableAt.
SettleHoldingPeriods(due) ==
  LET moved == {k \in due : conversions[commissions[k].order].status # "disputed"}
  IN  /\ \A k \in due : Held(k) /\ ~commissions[k].test
      /\ moved # {}
      /\ commissions' = [k \in CommissionIds |->
           IF k \in moved THEN [commissions[k] EXCEPT !.status = "payable"]
           ELSE commissions[k]]
      /\ conversions' = Sold({commissions[k].order : k \in moved})
      /\ UNCHANGED <<credited, entries, payouts>>

ReverseCommission(k) ==
  /\ commissions[k].status # "absent"
  /\ ReverseCommissionRow(k, "reversed")
  /\ UNCHANGED <<conversions, payouts>>

\* Manual adjustments, and the campaign bonuses that take the same ledger row.
AdjustAffiliateBalance(a, amount) ==
  /\ WriteEntry("adjustment", a, NoCommission, amount)
  /\ UNCHANGED <<conversions, commissions, credited, payouts>>

----------------------------------------------------------------------------
(* Payout batches.                                                         *)

\* Mutant: rows already in a batch are gathered again.
PayableRowsAgain(a) ==
  {k \in CommissionIds :
     /\ commissions[k].affiliate = a /\ commissions[k].status = "payable"
     /\ ~commissions[k].test}

\* What getPayableSummary gathers for an affiliate.
PayableRows(a) ==
  {k \in CommissionIds :
     /\ commissions[k].affiliate = a /\ commissions[k].status = "payable"
     /\ commissions[k].payout = NoPayout /\ ~commissions[k].test}

\* Mutant: entries already in a batch are gathered again.
OpenEntriesAgain(a) == {e \in EntryIds : entries[e].affiliate = a}

OpenEntries(a) ==
  {e \in EntryIds : entries[e].affiliate = a /\ entries[e].payout = NoPayout}

TotalOf(rows, lines) ==
  SumFunctionOnSet([k \in CommissionIds |-> commissions[k].amount], rows)
    + SumFunctionOnSet([e \in EntryIds |-> entries[e].amount], lines)

\* A new batch for `a` takes every payable row and open entry, and their total.
Batch(p, a, ignoreThreshold, status, rowStatus) ==
  LET rows == PayableRows(a)
      lines == OpenEntries(a)
      total == TotalOf(rows, lines)
  IN  /\ FreshPayout(p)
      /\ total \in Nat \ {0}
      /\ ignoreThreshold \/ total >= Threshold
      /\ payouts' = [payouts EXCEPT ![p] =
           [status |-> status, affiliate |-> a, amount |-> total,
            commissions |-> rows, entries |-> lines]]
      /\ commissions' = [k \in CommissionIds |->
           IF k \in rows THEN [commissions[k] EXCEPT !.payout = p, !.status = rowStatus]
           ELSE commissions[k]]
      /\ entries' = [e \in EntryIds |->
           IF e \in lines THEN [entries[e] EXCEPT !.payout = p] ELSE entries[e]]
      /\ UNCHANGED <<conversions, credited>>

\* createPayoutBatchesForAll is this action, threshold kept, for one affiliate after another.
CreatePayoutBatch(p, a, ignoreThreshold) == Batch(p, a, ignoreThreshold, "draft", "payable")

\* Paid outside the platform: the batch is created and marked paid in one transaction.
RecordExternalPayout(p, a) == Batch(p, a, TRUE, "paid", "paid")

SetPayout(p, to) ==
  /\ to \in PayoutMoves[payouts[p].status]
  /\ payouts' = [payouts EXCEPT ![p].status = to]
  /\ UNCHANGED <<conversions, credited>>

MarkPayoutProcessing(p) == SetPayout(p, "processing") /\ UNCHANGED <<commissions, entries>>

MarkPayoutFailed(p) == SetPayout(p, "failed") /\ UNCHANGED <<commissions, entries>>

MarkPayoutPaid(p) ==
  /\ SetPayout(p, "paid")
  /\ commissions' = [k \in CommissionIds |->
       IF commissions[k].payout = p /\ commissions[k].status = "payable"
       THEN [commissions[k] EXCEPT !.status = "paid"] ELSE commissions[k]]
  /\ UNCHANGED entries

\* Mutant: cancelling keeps the commissions.
CancelPayoutKeepingRows(p) ==
  /\ SetPayout(p, "cancelled")
  /\ entries' = [e \in EntryIds |->
       IF entries[e].payout = p THEN [entries[e] EXCEPT !.payout = NoPayout] ELSE entries[e]]
  /\ UNCHANGED commissions

CancelPayout(p) ==
  /\ SetPayout(p, "cancelled")
  /\ commissions' = [k \in CommissionIds |->
       IF commissions[k].payout = p THEN [commissions[k] EXCEPT !.payout = NoPayout]
       ELSE commissions[k]]
  /\ entries' = [e \in EntryIds |->
       IF entries[e].payout = p THEN [entries[e] EXCEPT !.payout = NoPayout] ELSE entries[e]]

----------------------------------------------------------------------------

SaleStep(o) ==
  \/ \E a \in Affiliates, amount \in SaleAmounts, earned \in Earnings, test \in TestModes :
       RecordConversion(o, a, amount, earned, test)
  \/ \E refund \in Refundable(o), policy \in Policies : RefundConversion(o, refund, policy)
  \/ CancelConversion(o)
  \/ ApproveConversion(o)
  \/ DisputeConversion(o)
  \/ \E a \in Affiliates \cup {Null}, earned \in Earnings, test \in TestModes :
       ReattributeConversion(o, a, earned, test)

DisputeStep(o) ==
  \/ OpenDispute(o)
  \/ RestoreSale(o)
  \/ ResolveByCancelling(o)
  \/ \E a \in Affiliates, earned \in Earnings, test \in TestModes :
       ResolveByReattributing(o, a, earned, test)

CommissionStep(k) ==
  \/ ApproveCommission(k)
  \/ ReleaseCommission(k)
  \/ ReverseCommission(k)

PayoutStep(p) ==
  \/ \E a \in Affiliates, ignoreThreshold \in BOOLEAN : CreatePayoutBatch(p, a, ignoreThreshold)
  \/ \E a \in Affiliates : RecordExternalPayout(p, a)
  \/ MarkPayoutProcessing(p)
  \/ MarkPayoutPaid(p)
  \/ MarkPayoutFailed(p)
  \/ CancelPayout(p)

Next ==
  \/ \E o \in Orders : SaleStep(o) \/ DisputeStep(o)
  \/ \E k \in CommissionIds : CommissionStep(k)
  \/ \E due \in SUBSET CommissionIds : SettleHoldingPeriods(due)
  \/ \E a \in Affiliates, amount \in Adjustments : AdjustAffiliateBalance(a, amount)
  \/ \E p \in PayoutIds : PayoutStep(p)

Spec == Init /\ [][Next]_vars

----------------------------------------------------------------------------
(* Properties.                                                             *)

ConversionRow ==
  [status : ConversionStatus \cup {"absent"}, amount : Nat, refunded : Nat,
   dispute : {"none", "approved", "other"}]

CommissionRow ==
  [status : CommissionStatus \cup {"absent"}, order : Orders \cup {Null},
   affiliate : Affiliates \cup {Null}, amount : Nat, original : Nat,
   payout : PayoutIds \cup {NoPayout}, test : BOOLEAN]

EntryRow ==
  [type : {"adjustment", "clawback", "absent"}, affiliate : Affiliates \cup {Null},
   commission : CommissionIds \cup {NoCommission}, amount : Int,
   payout : PayoutIds \cup {NoPayout}]

PayoutRow ==
  [status : PayoutStatus \cup {"absent"}, affiliate : Affiliates \cup {Null}, amount : Nat,
   commissions : SUBSET CommissionIds, entries : SUBSET EntryIds]

\* Every row has the shape of its table, and no sale is refunded beyond its amount (the check
\* at the head of refundConversion).
TypeOK ==
  /\ conversions \in [Orders -> ConversionRow]
  /\ \A o \in Orders : conversions[o].refunded <= conversions[o].amount
  /\ commissions \in [CommissionIds -> CommissionRow]
  /\ credited \in [CommissionIds -> Int]
  /\ entries \in [EntryIds -> EntryRow]
  /\ payouts \in [PayoutIds -> PayoutRow]

Balanced(k) ==
  /\ credited[k] = commissions[k].amount
  /\ Closed(k) => commissions[k].amount = 0

\* The append-only ledger and the commission rows tell the same story: the credits and
\* reversals written for a commission always sum to the amount its row shows, through every
\* refund, reversal and reattribution, and a closed commission is worth nothing.
LedgerMatchesRows == \A k \in CommissionIds : Balanced(k)

\* "The live commission for a conversion is the most recent one; earlier ones were voided by
\* reattribution": refunds and cancellations look only at the latest row, so an older row that
\* were still open would be paid whatever happened to the sale.
OnlyLatestIsOpen ==
  \A k, j \in CommissionIds :
    /\ commissions[k].status # "absent" /\ ~Closed(k)
    /\ commissions[j].order = commissions[k].order
    => j <= k

Live(p) == payouts[p].status \in {"draft", "processing", "failed", "paid"}

\* No commission and no ledger line is carried by two batches that may both pay out: what one
\* live batch snapshots, no other live batch does, however often batches fail, are cancelled
\* and are drawn again.
NoDoublePay ==
  \A p, q \in PayoutIds :
    p # q /\ Live(p) /\ Live(q) =>
      /\ payouts[p].commissions \cap payouts[q].commissions = {}
      /\ payouts[p].entries \cap payouts[q].entries = {}

Accounted(k) ==
  LET c == commissions[k]
  IN  /\ c.status = "payable" /\ c.payout # NoPayout =>
           payouts[c.payout].status \in {"draft", "processing", "failed"}
      /\ c.status = "paid" => c.payout # NoPayout /\ payouts[c.payout].status = "paid"
      /\ c.payout # NoPayout => Live(c.payout)

EntryAccounted(e) == entries[e].payout # NoPayout => Live(entries[e].payout)

\* Nothing earned is stranded and nothing is paid without a batch: a payable commission is free
\* for the next batch or in a batch still open, a paid one is in a paid batch, and a cancelled
\* batch holds no row back.
NothingStranded ==
  /\ \A k \in CommissionIds : Accounted(k)
  /\ \A e \in EntryIds : EntryAccounted(e)

\* What reconcilePayout sums: the rows and entries that point to the batch.
Covered(p) ==
  TotalOf({k \in CommissionIds : commissions[k].payout = p},
          {e \in EntryIds : entries[e].payout = p})

\* A batch never pays less than what it covers: whatever happens to the commissions in it, the
\* affiliate is not short.
NeverShort == \A p \in PayoutIds : Live(p) => payouts[p].amount >= Covered(p)

\* "Commission status never regresses after paid": no call whatever changes a paid commission
\* row, its amount or the batch it was paid in.
PaidIsFinal ==
  [][\A k \in CommissionIds :
       commissions[k].status = "paid" => commissions'[k] = commissions[k]]_vars

\* The money as its owners see it: a batch waits, is paid, or gives everything back.
Stage(k) ==
  CASE commissions[k].status = "absent" -> "none"
    [] Held(k) -> "held"
    [] commissions[k].status = "payable" -> "due"
    [] commissions[k].status = "paid" -> "paid"
    [] Closed(k) -> "closed"

PayoutStage(p) ==
  CASE payouts[p].status = "absent" -> "none"
    [] payouts[p].status \in {"draft", "processing", "failed"} -> "open"
    [] payouts[p].status \in {"paid", "cancelled"} -> payouts[p].status

Earned ==
  [k \in CommissionIds |->
     [of |-> commissions[k].affiliate, stage |-> Stage(k), worth |-> commissions[k].amount,
      batch |-> commissions[k].payout]]

OtherLines ==
  [e \in EntryIds |->
     [of |-> entries[e].affiliate, worth |-> entries[e].amount, batch |-> entries[e].payout]]

PaidOut ==
  [p \in PayoutIds |->
     [of |-> payouts[p].affiliate, stage |-> PayoutStage(p), amount |-> payouts[p].amount]]

Promise ==
  INSTANCE Wallets WITH
    Commissions <- CommissionIds, Lines <- EntryIds, Batches <- PayoutIds, Nobody <- Null,
    NoBatch <- NoPayout, earned <- Earned, lines <- OtherLines, batches <- PaidOut

\* Sales, refunds, disputes and payouts do to an affiliate's money what Wallets allows, whatever
\* calls come in whatever order: a batch draws all that is due, a paid commission is final, what
\* is taken back or given comes as a line that stays, and a cancelled batch gives everything back.
KeepsPromise == Promise!Spec

\* PAY-06, "the batch amount must equal the sum of what it covers".
PayoutReconciles == \A p \in PayoutIds : Live(p) => payouts[p].amount = Covered(p)

\* "A refund reduces or reverses commission": corrections of a paid commission take back through
\* the ledger at most what was paid for it.
ClawbackWithinPaid ==
  \A k \in CommissionIds :
    commissions[k].status = "paid" =>
      MapThenSumSet(LAMBDA e : -entries[e].amount, {e \in EntryIds : entries[e].commission = k})
        <= commissions[k].amount

============================================================================
