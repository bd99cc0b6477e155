------------------------------- MODULE Intake -------------------------------
(***************************************************************************)
(* How sales come in: the webhooks of a shop and of a payment provider,    *)
(* and the merchant's own page, reporting the same orders.                 *)
(*                                                                         *)
(* A sender repeats an event until it is answered, in any order and on two *)
(* connections at once.  Each delivery is one transaction at READ          *)
(* COMMITTED: the event's key is inserted in the log, the order is looked  *)
(* up, the sale is recorded, refunded or cancelled, and all of it commits  *)
(* or is rolled back together (apps/api src/lib/rls.ts).  A recorded sale  *)
(* may win its affiliate the bonus of a campaign.                          *)
(***************************************************************************)
EXTENDS Integers, FiniteSets, FiniteSetsExt

CONSTANTS
  Requests,       \* database connections
  Orders,
  Events,         \* that the senders have to tell
  Says,           \* what each of them says, see EventType
  Amount,         \* of every sale
  Threshold,      \* sales that earn the bonus
  MaxCalls,       \* bound: deliveries, invitations and removals in all
  MaxInvites,     \* bound: times the affiliate is invited
  Null

\* part is what a shop's refund returned, or all a charge has returned so far; claimed is whether
\* the order carries evidence that leads to the affiliate (resolveAttribution).
EventType ==
  [from : {"shopify", "stripe", "pixel"}, about : {"order", "refund", "cancel"},
   order : Orders, part : Nat, claimed : BOOLEAN]

ASSUME IntakeConstants ==
  /\ Amount \in Nat \ {0} /\ Threshold \in Nat \ {0}
  /\ MaxCalls \in Nat /\ MaxInvites \in Nat \ {0}
  /\ Says \in [Events -> EventType]
  /\ Null \notin Events

VARIABLES
  sales,       \* the committed sales, by source and order
  logged,      \* the committed keys of the delivery log
  member,      \* the affiliate's place in the campaign
  bonuses,     \* bonus entries in the ledger
  tx,          \* each request's open transaction
  calls,       \* history: calls begun
  missed,      \* history: events committed without a sale
  met          \* history: pairs of related events that were open at the same time

vars == <<sales, logged, member, bonuses, tx, calls, missed, met>>

Keys == {"shopify", "stripe", "pixel"} \X Orders

\* Rows of no key, of one key, and f's where it has any and g's elsewhere.
NoSales == [k \in {} |-> Null]
Only(k, row) == [q \in {k} |-> row]
Over(f, g) == [k \in DOMAIN f \cup DOMAIN g |-> IF k \in DOMAIN f THEN f[k] ELSE g[k]]

\* seen is the sale the request read, mine the rows it wrote.
Idle == [event |-> Null, at |-> "idle", seen |-> NoSales, mine |-> NoSales,
         place |-> 0, bonus |-> FALSE]

Init ==
  /\ sales = NoSales
  /\ logged = {}
  /\ member = [id |-> 1, status |-> "active", awarded |-> FALSE]
  /\ bonuses = 0
  /\ tx = [r \in Requests |-> Idle]
  /\ calls = 0
  /\ missed = {}
  /\ met = {}

----------------------------------------------------------------------------
(* Transactions.                                                           *)

At(r, label) == tx[r].at = label

Event(r) == tx[r].event
Said(r) == Says[Event(r)]

\* What a statement of r sees: what is committed and its own writes.
Visible(r) == Over(tx[r].mine, sales)

Lockable(r, k) == \A o \in Requests \ {r} : k \notin DOMAIN tx[o].mine

SalesOf(r, order) == {k \in DOMAIN Visible(r) : k[2] = order}

Stored == <<sales, logged, member, bonuses, calls, missed, met>>

Go(r, next) ==
  /\ tx' = [tx EXCEPT ![r] = [tx[r] EXCEPT !.at = next]]
  /\ UNCHANGED Stored

\* The request goes on with its own copy of sale k.
See(r, k, next) ==
  /\ tx' = [tx EXCEPT ![r] = [tx[r] EXCEPT !.seen = Only(k, Visible(r)[k]), !.at = next]]
  /\ UNCHANGED Stored

Write(r, k, row, next) ==
  /\ Lockable(r, k)
  /\ tx' = [tx EXCEPT ![r] = [tx[r] EXCEPT !.mine = Over(Only(k, row), tx[r].mine), !.at = next]]
  /\ UNCHANGED Stored

\* The one sale the request read, its copy, and what it would read now.
SeenKey(r) == CHOOSE k \in DOMAIN tx[r].seen : TRUE
Copy(r) == tx[r].seen[SeenKey(r)]
Current(r) == Visible(r)[SeenKey(r)]

\* The sales it read or wrote.
Touched(r) == DOMAIN tx[r].seen \cup DOMAIN tx[r].mine

Commit(r) ==
  /\ At(r, "commit")
  /\ sales' = Visible(r)
  /\ logged' = IF Said(r).from = "pixel" THEN logged ELSE logged \cup {Event(r)}
  /\ missed' = IF Touched(r) = {} THEN missed \cup {Event(r)} ELSE missed
  /\ member' = IF tx[r].bonus /\ tx[r].place = member.id /\ member.status # "none"
               THEN [member EXCEPT !.awarded = TRUE] ELSE member
  /\ bonuses' = IF tx[r].bonus THEN bonuses + 1 ELSE bonuses
  /\ tx' = [tx EXCEPT ![r] = Idle]
  /\ UNCHANGED <<calls, met>>

\* Mutant: the record of a failed delivery outlives the transaction.
FailLogged(r) ==
  /\ tx[r].event # Null
  /\ logged' = IF Said(r).from = "pixel" THEN logged ELSE logged \cup {Event(r)}
  /\ tx' = [tx EXCEPT ![r] = Idle]
  /\ UNCHANGED <<sales, member, bonuses, calls, missed, met>>

\* The handler throws, or the process ends: everything is rolled back, the event's key too.
Fail(r) ==
  /\ tx[r].event # Null
  /\ tx' = [tx EXCEPT ![r] = Idle]
  /\ UNCHANGED Stored

----------------------------------------------------------------------------
(* The delivery log.                                                       *)

\* A logged event is answered as done; one that another request has open waits for it.  The
\* page's reports have keys of their own.
Fresh(e) ==
  Says[e].from = "pixel" \/ (e \notin logged /\ \A r \in Requests : Event(r) # e)

\* Events whose requests may get in each other's way.
Related(e, f) ==
  Says[e].order = Says[f].order \/ {Says[e].about, Says[f].about} = {"order"}

Deliver(r, e) ==
  /\ At(r, "idle")
  /\ calls < MaxCalls
  /\ Fresh(e)
  /\ tx' = [tx EXCEPT ![r] = [Idle EXCEPT !.event = e, !.at = "find"]]
  /\ calls' = calls + 1
  /\ LET open == {Event(o) : o \in Requests} \ {Null}
     IN  met' = met \cup {{e, f} : f \in {f \in open : Related(e, f)}}
  /\ UNCHANGED <<sales, logged, member, bonuses, missed>>

----------------------------------------------------------------------------
(* Recording a sale.                                                       *)

\* Mutant: a sale is known by its source and order.
KnownBySource(r) == SalesOf(r, Said(r).order) \cap {<<Said(r).from, Said(r).order>>}

\* findByExternalId: the oldest sale of the order, whatever reported it.
Known(r) == SalesOf(r, Said(r).order)

\* Mutant: a sale that is already there is left alone.
FoundNoBackfill(r, k) == See(r, k, "commit")

\* The shop's id is added to a sale the page reported first.
Found(r, k) ==
  See(r, k, IF Said(r).from = "shopify" /\ ~Visible(r)[k].shopId THEN "add id" ELSE "commit")

FindOrder(r) ==
  /\ At(r, "find") /\ Said(r).about = "order"
  /\ \/ \E k \in Known(r) : Found(r, k)
     \/ Known(r) = {} /\ Go(r, "attribute")

\* Nobody's sale is skipped; an affiliate's belongs to the campaign they take part in.
Attribute(r) ==
  /\ At(r, "attribute")
  /\ tx' = [tx EXCEPT ![r] =
       [tx[r] EXCEPT !.place = IF Said(r).claimed /\ member.status = "active" THEN member.id ELSE 0,
                     !.at = IF Said(r).claimed THEN "insert" ELSE "commit"]]
  /\ UNCHANGED Stored

AddId(r) ==
  /\ At(r, "add id")
  /\ Write(r, SeenKey(r), [Current(r) EXCEPT !.shopId = TRUE], "commit")

OwnKey(r) == <<Said(r).from, Said(r).order>>

\* The unique index waits for a request that inserted the same key, and makes the winner's sale
\* the result.
InsertSale(r) ==
  /\ At(r, "insert")
  /\ Lockable(r, OwnKey(r))
  /\ IF OwnKey(r) \in DOMAIN sales THEN \E k \in Known(r) : Found(r, k)
     ELSE Write(r, OwnKey(r),
                [status |-> "pending", refunded |-> 0, shopId |-> Said(r).from = "shopify",
                 counted |-> tx[r].place # 0],
                IF tx[r].place # 0 THEN "member" ELSE "commit")

----------------------------------------------------------------------------
(* The bonus.                                                              *)

\* Mutant: a bonus is given for every sale past the threshold.
MayWinAgain == member.status # "none"

MayWin == member.status # "none" /\ ~member.awarded

\* evaluateBonus reads the participant, then counts.
ReadMember(r) ==
  /\ At(r, "member")
  /\ tx' = [tx EXCEPT ![r] = [tx[r] EXCEPT !.place = IF MayWin THEN member.id ELSE 0,
                                           !.at = IF MayWin THEN "count" ELSE "commit"]]
  /\ UNCHANGED Stored

Counted(rows) == {k \in DOMAIN rows : rows[k].counted /\ rows[k].status # "cancelled"}

CountSales(r) ==
  /\ At(r, "count")
  /\ Go(r, IF Cardinality(Counted(Visible(r))) >= Threshold THEN "award" ELSE "commit")

\* The entry, and the mark on the participant if that row is still there.
AwardBonus(r) ==
  /\ At(r, "award")
  /\ \A o \in Requests \ {r} : tx[o].bonus => tx[o].place # tx[r].place
  /\ tx' = [tx EXCEPT ![r] = [tx[r] EXCEPT !.bonus = TRUE, !.at = "commit"]]
  /\ UNCHANGED Stored

Called == calls < MaxCalls /\ calls' = calls + 1

\* Calls of the merchant and the affiliate, a transaction each.
Invite ==
  /\ member.status = "none"
  /\ member.id < MaxInvites
  /\ member' = [id |-> member.id + 1, status |-> "invited", awarded |-> FALSE]
  /\ Called /\ UNCHANGED <<sales, logged, bonuses, tx, missed, met>>

JoinCampaign ==
  /\ member.status = "invited"
  /\ member' = [member EXCEPT !.status = "active"]
  /\ UNCHANGED <<sales, logged, bonuses, tx, calls, missed, met>>

\* Waits for a request that has marked the row.
RemoveParticipant ==
  /\ member.status # "none"
  /\ \A r \in Requests : ~tx[r].bonus
  /\ member' = [member EXCEPT !.status = "none"]
  /\ Called /\ UNCHANGED <<sales, logged, bonuses, tx, missed, met>>

----------------------------------------------------------------------------
(* Refunds and cancellations.                                              *)

\* The sales an event about an order is looked up among: a shop's by its own id.
Told(r) ==
  IF Said(r).from = "shopify"
  THEN LET byId == {k \in Known(r) : Visible(r)[k].shopId}
           byName == IF Said(r).about = "cancel" THEN Known(r) ELSE {}
       IN  IF byId # {} THEN byId ELSE byName
  ELSE Known(r)

\* What is to be returned, by the copy: a charge tells the sum so far.
DueBack(r) ==
  IF Said(r).from = "stripe" THEN Max({0, Said(r).part - Copy(r).refunded}) ELSE Said(r).part

FindSale(r) ==
  /\ At(r, "find") /\ Said(r).about \in {"refund", "cancel"}
  /\ \/ \E k \in Told(r) : See(r, k, IF Said(r).about = "refund" THEN "check refund"
                                     ELSE "check cancel")
     \/ Told(r) = {} /\ Go(r, "commit")

Refundable == {"pending", "refunded"}

\* refundMapped asks for no more than is left by the copy.
Asked(r) == Min({DueBack(r), Amount - Copy(r).refunded})

\* refundConversion reads the sale again.
MayRefund(r) ==
  /\ Current(r).status \in Refundable
  /\ Asked(r) > 0 /\ Asked(r) <= Amount - Current(r).refunded

Returning(r) == [Current(r) EXCEPT !.refunded = Current(r).refunded + Asked(r)]

CheckRefund(r) ==
  /\ At(r, "check refund")
  /\ \/ /\ MayRefund(r)
        /\ tx' = [tx EXCEPT ![r] =
             [tx[r] EXCEPT !.seen = Only(SeenKey(r), Returning(r)), !.at = "refund"]]
        /\ UNCHANGED Stored
     \/ ~MayRefund(r) /\ Go(r, "commit")

WriteRefund(r) ==
  /\ At(r, "refund")
  /\ Write(r, SeenKey(r), [Current(r) EXCEPT !.status = "refunded", !.refunded = Copy(r).refunded],
           "commit")

CheckCancel(r) ==
  /\ At(r, "check cancel")
  /\ IF Current(r).status = "pending" THEN Go(r, "cancel") ELSE Go(r, "commit")

WriteCancel(r) ==
  /\ At(r, "cancel")
  /\ Write(r, SeenKey(r), [Current(r) EXCEPT !.status = "cancelled"], "commit")

----------------------------------------------------------------------------
Next ==
  \/ \E r \in Requests, e \in Events : Deliver(r, e)
  \/ \E r \in Requests : Commit(r)
  \/ \E r \in Requests : Fail(r)
  \/ \E r \in Requests : FindOrder(r)
  \/ \E r \in Requests : Attribute(r)
  \/ \E r \in Requests : AddId(r)
  \/ \E r \in Requests : InsertSale(r)
  \/ \E r \in Requests : ReadMember(r)
  \/ \E r \in Requests : CountSales(r)
  \/ \E r \in Requests : AwardBonus(r)
  \/ \E r \in Requests : FindSale(r)
  \/ \E r \in Requests : CheckRefund(r)
  \/ \E r \in Requests : WriteRefund(r)
  \/ \E r \in Requests : CheckCancel(r)
  \/ \E r \in Requests : WriteCancel(r)
  \/ Invite
  \/ JoinCampaign
  \/ RemoveParticipant

Spec == Init /\ [][Next]_vars

----------------------------------------------------------------------------
(* Properties.                                                             *)

Row == [status : {"pending", "refunded", "cancelled"}, refunded : 0..Amount,
        shopId : BOOLEAN, counted : BOOLEAN]

RowsOver(f) == DOMAIN f \subseteq Keys /\ \A k \in DOMAIN f : f[k] \in Row

\* The state has its shape; a request has read at most one sale and written at most one.
TypeOK ==
  /\ RowsOver(sales)
  /\ logged \subseteq Events /\ missed \subseteq Events
  /\ member \in [id : 0..MaxInvites, status : {"none", "invited", "active"}, awarded : BOOLEAN]
  /\ bonuses \in Nat /\ calls \in 0..MaxCalls
  /\ \A r \in Requests :
       /\ tx[r].event \in Events \cup {Null}
       /\ RowsOver(tx[r].seen) /\ \A k, l \in DOMAIN tx[r].seen : k = l
       /\ RowsOver(tx[r].mine) /\ \A k, l \in DOMAIN tx[r].mine : k = l
       /\ tx[r].place \in 0..MaxInvites /\ tx[r].bonus \in BOOLEAN

Overlapped(A, B) == \E e \in A, f \in B : {e, f} \in met

About(order, kind) == {e \in Events : Says[e].order = order /\ Says[e].about = kind}

SalesCommitted(order) == {k \in DOMAIN sales : k[2] = order}

\* One order is one sale whatever reports it and however often: two sales of it come only of two
\* senders' requests that overlapped (the unique index is per source).
OneSalePerOrder ==
  \A k, l \in DOMAIN sales : k # l /\ k[2] = l[2] =>
    Overlapped({e \in About(k[2], "order") : Says[e].from = k[1]},
               {e \in About(k[2], "order") : Says[e].from = l[1]})

OrdersRecorded ==
  \A e \in logged : Says[e].about = "order" /\ Says[e].claimed
    => SalesCommitted(Says[e].order) # {}

\* What refunds returned: a shop tells of each, a charge the sum so far.
Returned(refunds) ==
  LET sofar == {e \in refunds : Says[e].from = "stripe"}
  IN  Max({0} \cup {Says[e].part : e \in sofar})
        + SumFunctionOnSet([e \in Events |-> Says[e].part], refunds \ sofar)

RefundsReflected ==
  \A k \in DOMAIN sales :
    \/ sales[k].status = "cancelled"
    \/ SalesCommitted(k[2]) # {k}
    \/ About(k[2], "refund") \cap missed # {}
    \/ Overlapped(About(k[2], "refund"), About(k[2], "refund"))
    \/ sales[k].refunded = Returned(logged \cap About(k[2], "refund"))

\* Senders tell of refunds that add up: an order's come from one of them, and never return more
\* than was paid.
RefundsAddUp ==
  \A order \in Orders :
    LET refunds == About(order, "refund")
    IN  /\ \A e, f \in refunds : Says[e].from = Says[f].from /\ Says[e].from # "pixel"
        /\ \A some \in SUBSET refunds : IsFiniteSet(some) => Returned(some) <= Amount

\* An event that a repeat is told was already processed has done its work, once: an order an
\* affiliate can claim has its sale, whatever failed half way, and the sale shows what its refunds
\* returned, in whatever order and however often they came: unless one was processed before its
\* sale, or two of them overlapped.
LoggedIsDone == OrdersRecorded /\ RefundsReflected

Recordings == {e \in Events : Says[e].about = "order"}

\* The bonus is given once, and it is given once the sales are there: unless two recordings
\* overlapped, the participant was removed and invited again, which forgets the award, or a refund
\* that overlapped a cancellation brought the cancelled sale back.
BonusRight ==
  \/ Overlapped(Recordings, Recordings)
  \/ \E e \in Events : Says[e].about = "cancel" /\ Overlapped({e}, About(Says[e].order, "refund"))
  \/ member.id > 1
  \/ /\ bonuses <= 1
     /\ member.status = "active" /\ Cardinality(Counted(sales)) >= Threshold => bonuses = 1

\* A refund comes to nothing only if its sender had not reported the order before: once an order
\* event has been processed with a sale, whoever recorded that sale, later refunds find it.
RefundFindsSale ==
  [][\A e \in missed' \ missed : Says[e].about = "refund" =>
       \A f \in logged \cap About(Says[e].order, "order") :
         Says[f].from = Says[e].from => f \in missed \/ {e, f} \in met]_vars
============================================================================
