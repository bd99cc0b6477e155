---------------------------- MODULE IntakeProofs ----------------------------
(***************************************************************************)
(* What holds of the intake of sales however many requests tell of an      *)
(* order, in whatever order they come, fail and are repeated.              *)
(*                                                                         *)
(* Base says what an open request looks like at each statement, that no    *)
(* two have written the same sale, and that of two related events that are *)
(* open each has met the other.  Every statement is of one of seven forms; *)
(* each property has an invariant of its own that the forms preserve.      *)
(***************************************************************************)
EXTENDS Intake, FiniteSetTheorems, TLAPS

IsTx(t) ==
  t \in [event : {t.event}, at : {t.at}, seen : {t.seen}, mine : {t.mine}, place : {t.place},
         bonus : {t.bonus}]

Single(f) == \A k, l \in DOMAIN f : k = l

KeyOf(e) == <<Says[e].from, Says[e].order>>

\* Where the request is, and what it has read and written by then.
Script(t) ==
  LET s == Says[t.event] IN
  /\ t.event \in Events
  /\ t.at \in {"find", "attribute", "insert", "add id", "member", "count", "award",
               "check refund", "refund", "check cancel", "cancel", "commit"}
  /\ RowsOver(t.seen) /\ Single(t.seen) /\ RowsOver(t.mine) /\ Single(t.mine)
  /\ \A k \in DOMAIN t.seen \cup DOMAIN t.mine : k[2] = s.order
  /\ t.place \in 0..MaxInvites /\ t.bonus \in BOOLEAN
  /\ t.at \in {"find", "attribute", "insert"} => DOMAIN t.seen = {} /\ DOMAIN t.mine = {}
  /\ t.at \in {"add id", "check refund", "refund", "check cancel", "cancel"} =>
       DOMAIN t.seen # {} /\ DOMAIN t.mine = {}
  /\ t.at \in {"member", "count", "award"} => KeyOf(t.event) \in DOMAIN t.mine
  /\ t.at \in {"attribute", "insert", "add id", "member", "count", "award"} => s.about = "order"
  /\ t.at = "insert" => s.claimed
  /\ t.at = "add id" => s.from = "shopify"
  /\ t.at \in {"check refund", "refund"} => s.about = "refund"
  /\ t.at \in {"check cancel", "cancel"} => s.about = "cancel"
  /\ t.bonus => t.at = "commit" /\ s.about = "order"
  /\ t.at = "commit" /\ s.about = "order" /\ s.claimed => DOMAIN t.seen \cup DOMAIN t.mine # {}

\* What an event makes of a sale that is there.
Keeps(about, old, new) ==
  /\ new.counted = old.counted
  /\ old.shopId => new.shopId
  /\ new.status = "cancelled" => old.status = "cancelled" \/ about = "cancel"

\* What the request read is there, and what it wrote is a sale of its own or follows from one.
Fits(t, d) ==
  LET s == Says[t.event] IN
  /\ DOMAIN t.seen \subseteq DOMAIN d
  /\ \A k \in DOMAIN t.mine :
       \/ k \in DOMAIN d /\ Keeps(s.about, d[k], t.mine[k])
       \/ /\ k \notin DOMAIN d /\ k = KeyOf(t.event) /\ s.about = "order" /\ s.claimed
          /\ s.from = "shopify" => t.mine[k].shopId

TxOK(t, d) ==
  /\ IsTx(t)
  /\ t.event = Null => t = Idle
  /\ t.event # Null => Script(t) /\ Fits(t, d)

RowsTyped ==
  /\ RowsOver(sales) /\ sales = [k \in DOMAIN sales |-> sales[k]] /\ IsFiniteSet(DOMAIN sales)
  /\ logged \subseteq Events /\ missed \subseteq Events
  /\ member \in [id : 0..MaxInvites, status : {"none", "invited", "active"}, awarded : BOOLEAN]
  /\ bonuses \in Nat /\ calls \in 0..MaxCalls

AllSound ==
  /\ DOMAIN tx = Requests /\ tx = [r \in Requests |-> tx[r]]
  /\ \A r \in Requests : TxOK(tx[r], sales)

Apart == \A r, o \in Requests : r # o => DOMAIN tx[r].mine \cap DOMAIN tx[o].mine = {}

Meeting ==
  \A r, o \in Requests :
    r # o /\ tx[r].event # Null /\ tx[o].event # Null /\ Related(tx[r].event, tx[o].event) =>
      {tx[r].event, tx[o].event} \in met

Base == RowsTyped /\ AllSound /\ Apart /\ Meeting

----------------------------------------------------------------------------
(* The forms of a statement.                                               *)

\* u is t, but for what it has read, has written, or goes by.
Saw(t, u, f) ==
  /\ u.event = t.event /\ u.mine = t.mine /\ u.place = t.place /\ u.bonus = t.bonus
  /\ u.seen = f

Wrote(t, u, k, row) ==
  /\ u.event = t.event /\ u.seen = t.seen /\ u.place = t.place /\ u.bonus = t.bonus
  /\ u.mine = Only(k, row)

Moved(t, u) ==
  u.event = t.event /\ u.seen = t.seen /\ u.mine = t.mine

\* The sales of the order r's event is about, as committed.
Candidates(r) == {k \in DOMAIN sales : k[2] = Said(r).order}

\* A sale of the order is found.
Finds(r, u) ==
  /\ At(r, "find") \/ At(r, "insert")
  /\ \E k \in Candidates(r) :
       /\ Saw(tx[r], u, Only(k, sales[k]))
       /\ Said(r).about = "order" =>
            u.at = IF Said(r).from = "shopify" /\ ~sales[k].shopId THEN "add id" ELSE "commit"
       /\ Said(r).about = "refund" => u.at = "check refund"
       /\ Said(r).about = "cancel" => u.at = "check cancel"

\* None is found.
Misses(r, u) ==
  /\ At(r, "find") /\ Moved(tx[r], u) /\ u.place = tx[r].place /\ u.bonus = tx[r].bonus
  /\ Said(r).about = "order" => u.at = "attribute" /\ Candidates(r) = {}
  /\ Said(r).about # "order" => u.at = "commit"
  /\ Said(r).about = "refund" =>
       \A k \in Candidates(r) : Said(r).from = "shopify" /\ ~sales[k].shopId

Attributes(r, u) ==
  /\ At(r, "attribute") /\ Moved(tx[r], u) /\ u.bonus = tx[r].bonus
  /\ u.at = IF Said(r).claimed THEN "insert" ELSE "commit"
  /\ u.place = IF Said(r).claimed /\ member.status = "active" THEN member.id ELSE 0

NewSale(r) ==
  [status |-> "pending", refunded |-> 0, shopId |-> Said(r).from = "shopify",
   counted |-> tx[r].place # 0]

Inserts(r, u) ==
  /\ At(r, "insert") /\ OwnKey(r) \notin DOMAIN sales /\ Lockable(r, OwnKey(r))
  /\ Wrote(tx[r], u, OwnKey(r), NewSale(r))
  /\ u.at = IF tx[r].place # 0 THEN "member" ELSE "commit"

\* A sale that was found is written.
Updates(r, u) ==
  /\ tx[r].at \in {"add id", "refund", "cancel"} /\ u.at = "commit"
  /\ \E k \in DOMAIN tx[r].seen, row \in Row :
       /\ Lockable(r, k) /\ Wrote(tx[r], u, k, row)
       /\ row.counted = sales[k].counted
       /\ row.refunded = IF At(r, "refund") THEN tx[r].seen[k].refunded ELSE sales[k].refunded
       /\ At(r, "add id") => row.shopId = TRUE /\ row.status = sales[k].status
       /\ At(r, "refund") => row.shopId = sales[k].shopId /\ row.status = "refunded"
       /\ At(r, "cancel") => row.shopId = sales[k].shopId /\ row.status = "cancelled"

\* A sale that was found is looked at again.
Checks(r, u) ==
  /\ tx[r].at \in {"check refund", "check cancel"}
  /\ \E f : Saw(tx[r], u, f) /\ RowsOver(f) /\ DOMAIN f = DOMAIN tx[r].seen
  /\ \/ u.at = "commit"
     \/ /\ At(r, "check refund") /\ u.at = "refund"
        /\ \A k \in DOMAIN tx[r].seen : sales[k].status # "cancelled"
     \/ At(r, "check cancel") /\ u.at = "cancel"
  /\ At(r, "check refund") =>
       \/ MayRefund(r) /\ u.at = "refund" /\ u.seen = Only(SeenKey(r), Returning(r))
       \/ ~MayRefund(r) /\ u.at = "commit" /\ u.seen = tx[r].seen

\* The bonus is considered.
Ponders(r, u) ==
  /\ Moved(tx[r], u)
  /\ \/ /\ At(r, "member") /\ u.bonus = tx[r].bonus
        /\ u.place = IF MayWin THEN member.id ELSE 0
        /\ u.at = IF MayWin THEN "count" ELSE "commit"
     \/ /\ At(r, "count") /\ u.bonus = tx[r].bonus /\ u.place = tx[r].place
        /\ u.at = IF Cardinality(Counted(Visible(r))) >= Threshold THEN "award" ELSE "commit"
     \/ At(r, "award") /\ u.bonus = TRUE /\ u.place = tx[r].place /\ u.at = "commit"

\* A step of r's request between its begin and its end.
Advances(r, u) ==
  /\ tx' = [tx EXCEPT ![r] = u] /\ UNCHANGED Stored
  /\ tx[r].event # Null /\ IsTx(u)
  /\ \/ Finds(r, u) \/ Misses(r, u) \/ Attributes(r, u) \/ Inserts(r, u) \/ Updates(r, u)
     \/ Checks(r, u) \/ Ponders(r, u)

Works(r) ==
  \/ FindOrder(r) \/ Attribute(r) \/ AddId(r) \/ InsertSale(r) \/ ReadMember(r) \/ CountSales(r)
  \/ AwardBonus(r) \/ FindSale(r) \/ CheckRefund(r) \/ WriteRefund(r) \/ CheckCancel(r)
  \/ WriteCancel(r)

LEMMA EventsAreReal == Null \notin Events /\ Says \in [Events -> EventType]
BY IntakeConstants

LEMMA OnlyFacts ==
  ASSUME NEW k, NEW row
  PROVE  /\ DOMAIN Only(k, row) = {k} /\ Only(k, row)[k] = row
         /\ NoSales = [q \in {} |-> Null] /\ DOMAIN NoSales = {}
BY DEF Only, NoSales

LEMMA OverFacts ==
  ASSUME NEW f, NEW g
  PROVE  /\ DOMAIN Over(f, g) = DOMAIN f \cup DOMAIN g
         /\ \A k \in DOMAIN f : Over(f, g)[k] = f[k]
         /\ \A k \in DOMAIN g \ DOMAIN f : Over(f, g)[k] = g[k]
         /\ Over(f, g) = [k \in DOMAIN Over(f, g) |-> Over(f, g)[k]]
BY DEF Over

\* A request that has written nothing sees what is committed.
LEMMA NothingWritten ==
  ASSUME NEW f, NEW g, DOMAIN f = {}, g = [k \in DOMAIN g |-> g[k]]
  PROVE  Over(f, g) = g
BY DEF Over

\* The first row that a request writes is all it has written.
LEMMA FirstWrite ==
  ASSUME NEW f, NEW k, NEW row, DOMAIN f = {}
  PROVE  Over(Only(k, row), f) = Only(k, row)
BY DEF Over, Only

LEMMA MinOfTwo ==
  ASSUME NEW a \in Int, NEW b \in Int
  PROVE  /\ Min({a, b}) \in Int /\ Min({a, b}) = IF a <= b THEN a ELSE b
         /\ Max({a, b}) \in Int /\ Max({a, b}) = IF a >= b THEN a ELSE b
<1>1. (\E x \in {a, b} : \A y \in {a, b} : x <= y) /\ (\E x \in {a, b} : \A y \in {a, b} : x >= y)
  OBVIOUS
<1>2. Min({a, b}) \in {a, b} /\ \A y \in {a, b} : Min({a, b}) <= y
  BY <1>1 DEF Min
<1>3. Max({a, b}) \in {a, b} /\ \A y \in {a, b} : Max({a, b}) >= y
  BY <1>1 DEF Max
<1> QED
  BY <1>2, <1>3

LEMMA ReturningRow ==
  ASSUME NEW r, Copy(r) \in Row, Current(r) \in Row, Said(r).part \in Nat, MayRefund(r)
  PROVE  Returning(r) \in Row /\ Current(r).status # "cancelled"
<1>1. /\ Amount \in Nat
      /\ Copy(r).refunded \in Nat /\ Copy(r).refunded <= Amount
      /\ Current(r).refunded \in Nat /\ Current(r).refunded <= Amount
  BY IntakeConstants DEF Row
<1>2. DueBack(r) \in Int
  <2> DEFINE d == Said(r).part - Copy(r).refunded
  <2>1. d \in Int
    BY <1>1
  <2> HIDE DEF d
  <2>2. Max({0, d}) \in Int
    <3>1. 0 \in Int
      OBVIOUS
    <3> QED
      BY <2>1, <3>1, MinOfTwo
  <2> QED
    BY <2>2 DEF DueBack, d
<1>3. Asked(r) \in Int
  <2>1. Amount - Copy(r).refunded \in Int
    BY <1>1
  <2> QED
    BY <1>2, <2>1, MinOfTwo DEF Asked
<1>4. Current(r).refunded + Asked(r) \in 0..Amount
  BY <1>1, <1>3 DEF MayRefund
<1>5. \A row \in Row, n \in 0..Amount : [row EXCEPT !.refunded = n] \in Row
  BY DEF Row
<1>6. Returning(r) \in Row
  BY <1>4, <1>5 DEF Returning
<1> QED
  BY <1>6 DEF MayRefund, Refundable

\* What a request that has written nothing yet has before it.
LEMMA Reading ==
  ASSUME Base, NEW r \in Requests, tx[r].event # Null, DOMAIN tx[r].mine = {}
  PROVE  /\ Visible(r) = sales /\ Known(r) = Candidates(r)
         /\ IsTx(tx[r]) /\ Script(tx[r]) /\ Fits(tx[r], sales)
         /\ Said(r) \in EventType
         /\ DOMAIN tx[r].seen # {} =>
              /\ SeenKey(r) \in DOMAIN tx[r].seen /\ DOMAIN tx[r].seen = {SeenKey(r)}
              /\ SeenKey(r) \in DOMAIN sales
              /\ Copy(r) \in Row /\ Current(r) = sales[SeenKey(r)] /\ Current(r) \in Row
<1>1. TxOK(tx[r], sales) /\ RowsOver(sales) /\ sales = [k \in DOMAIN sales |-> sales[k]]
  BY DEF Base, AllSound, RowsTyped
<1>2. Script(tx[r]) /\ Fits(tx[r], sales) /\ IsTx(tx[r])
  BY <1>1 DEF TxOK
<1>3. Visible(r) = sales
  BY <1>1, NothingWritten DEF Visible
<1>4. Known(r) = Candidates(r)
  BY <1>3 DEF Known, SalesOf, Candidates
<1>5. Said(r) \in EventType
  BY <1>2, EventsAreReal DEF Script, Said, Event
<1>6. ASSUME DOMAIN tx[r].seen # {}
      PROVE  /\ SeenKey(r) \in DOMAIN tx[r].seen /\ DOMAIN tx[r].seen = {SeenKey(r)}
             /\ SeenKey(r) \in DOMAIN sales
             /\ Copy(r) \in Row /\ Current(r) = sales[SeenKey(r)] /\ Current(r) \in Row
  <2>1. SeenKey(r) \in DOMAIN tx[r].seen
    BY <1>6 DEF SeenKey
  <2>2. DOMAIN tx[r].seen = {SeenKey(r)}
    BY <1>2, <2>1 DEF Script, Single
  <2>3. SeenKey(r) \in DOMAIN sales
    BY <1>2, <2>1 DEF Fits
  <2>4. Copy(r) \in Row
    BY <1>2, <2>1 DEF Script, RowsOver, Copy
  <2>5. Current(r) = sales[SeenKey(r)] /\ Current(r) \in Row
    BY <1>1, <1>3, <2>3 DEF Current, RowsOver
  <2> QED
    BY <2>1, <2>2, <2>3, <2>4, <2>5
<1> QED
  BY <1>2, <1>3, <1>4, <1>5, <1>6

LEMMA WriteFacts ==
  ASSUME Base, NEW r \in Requests, tx[r].event # Null, DOMAIN tx[r].mine = {}, NEW k, NEW row,
         NEW next, Write(r, k, row, next)
  PROVE  \E u : /\ tx' = [tx EXCEPT ![r] = u] /\ IsTx(u) /\ UNCHANGED Stored
                /\ Lockable(r, k) /\ Wrote(tx[r], u, k, row) /\ u.at = next
<1> DEFINE f == Over(Only(k, row), tx[r].mine)
           u == [tx[r] EXCEPT !.mine = f, !.at = next]
<1>1. f = Only(k, row)
  BY FirstWrite
<1> HIDE DEF f
<1>2. /\ IsTx(u) /\ u.event = tx[r].event /\ u.seen = tx[r].seen /\ u.place = tx[r].place
      /\ u.bonus = tx[r].bonus /\ u.mine = f /\ u.at = next
  BY DEF Base, AllSound, TxOK, IsTx
<1>3. tx' = [tx EXCEPT ![r] = u] /\ UNCHANGED Stored /\ Lockable(r, k)
  BY DEF Write, f
<1> QED
  BY <1>1, <1>2, <1>3 DEF Wrote

LEMMA Shaped ==
  ASSUME Base, NEW r \in Requests
  PROVE  IsTx(tx[r])
BY DEF Base, AllSound, TxOK

\* Found() reads the sale and goes on to add the shop's id to it, or is done.
LEMMA FoundFinds ==
  ASSUME Base, NEW r \in Requests, tx[r].event # Null, DOMAIN tx[r].mine = {},
         Said(r).about = "order", At(r, "find") \/ At(r, "insert"),
         NEW k \in Known(r), Found(r, k)
  PROVE  \E u : Advances(r, u)
<1> DEFINE next == IF Said(r).from = "shopify" /\ ~Visible(r)[k].shopId THEN "add id" ELSE "commit"
<1>1. Visible(r) = sales /\ Known(r) = Candidates(r)
  BY Reading
<1>2. tx' = [tx EXCEPT ![r] = [tx[r] EXCEPT !.seen = Only(k, sales[k]), !.at = next]]
      /\ UNCHANGED Stored
  BY <1>1 DEF Found, See
<1>3. PICK u : /\ tx' = [tx EXCEPT ![r] = u] /\ IsTx(u)
               /\ Saw(tx[r], u, Only(k, sales[k])) /\ u.at = next
  <2> DEFINE v == [tx[r] EXCEPT !.seen = Only(k, sales[k]), !.at = next]
  <2>1. IsTx(v) /\ Saw(tx[r], v, Only(k, sales[k])) /\ v.at = next
    BY Shaped DEF IsTx, Saw
  <2>2. tx' = [tx EXCEPT ![r] = v]
    BY <1>2
  <2> HIDE DEF v
  <2> QED
    BY <2>1, <2>2
<1>4. Finds(r, u)
  BY <1>1, <1>3 DEF Finds
<1> QED
  BY <1>2, <1>3, <1>4 DEF Advances

LEMMA FindLeads ==
  ASSUME Base, NEW r \in Requests, tx[r].event # Null, FindOrder(r) \/ FindSale(r)
  PROVE  \E u : Advances(r, u)
<1>1. At(r, "find")
  BY DEF FindOrder, FindSale
<1>2. DOMAIN tx[r].mine = {}
  BY <1>1 DEF Base, AllSound, TxOK, Script, At
<1>3. Visible(r) = sales /\ Known(r) = Candidates(r) /\ Said(r) \in EventType
  BY <1>2, Reading
<1>4. ASSUME NEW next, Go(r, next)
      PROVE  \E u : /\ tx' = [tx EXCEPT ![r] = u] /\ IsTx(u) /\ UNCHANGED Stored
                    /\ Moved(tx[r], u) /\ u.at = next /\ u.place = tx[r].place
                    /\ u.bonus = tx[r].bonus
  <2> DEFINE v == [tx[r] EXCEPT !.at = next]
  <2>1. /\ IsTx(v) /\ Moved(tx[r], v) /\ v.at = next
        /\ v.place = tx[r].place /\ v.bonus = tx[r].bonus
    BY Shaped DEF IsTx, Moved
  <2>2. tx' = [tx EXCEPT ![r] = v] /\ UNCHANGED Stored
    BY <1>4 DEF Go
  <2> HIDE DEF v
  <2> QED
    BY <2>1, <2>2
<1>5. CASE FindOrder(r)
  <2>1. CASE \E k \in Known(r) : Found(r, k)
    BY <1>1, <1>2, <1>5, <2>1, FoundFinds DEF FindOrder
  <2>2. CASE Known(r) = {} /\ Go(r, "attribute")
    <3>1. PICK u : /\ tx' = [tx EXCEPT ![r] = u] /\ IsTx(u) /\ UNCHANGED Stored
                   /\ Moved(tx[r], u) /\ u.at = "attribute" /\ u.place = tx[r].place
                   /\ u.bonus = tx[r].bonus
      BY <1>4, <2>2
    <3>2. Misses(r, u)
      BY <1>1, <1>3, <1>5, <2>2, <3>1 DEF Misses, FindOrder
    <3> QED
      BY <3>1, <3>2 DEF Advances
  <2> QED
    BY <1>5, <2>1, <2>2 DEF FindOrder
<1>6. CASE FindSale(r)
  <2> DEFINE next == IF Said(r).about = "refund" THEN "check refund" ELSE "check cancel"
  <2>1. Said(r).about \in {"refund", "cancel"}
    BY <1>6 DEF FindSale
  <2>2. CASE \E k \in Told(r) : See(r, k, next)
    <3>1. PICK k \in Told(r) : See(r, k, next)
      BY <2>2
    <3>2. k \in Candidates(r)
      BY <1>3, <3>1 DEF Told
    <3>3. /\ tx' = [tx EXCEPT ![r] = [tx[r] EXCEPT !.seen = Only(k, sales[k]), !.at = next]]
          /\ UNCHANGED Stored
      BY <1>3, <3>1 DEF See
    <3>4. PICK u : /\ tx' = [tx EXCEPT ![r] = u] /\ IsTx(u)
                   /\ Saw(tx[r], u, Only(k, sales[k])) /\ u.at = next
      <4> DEFINE v == [tx[r] EXCEPT !.seen = Only(k, sales[k]), !.at = next]
      <4>1. IsTx(v) /\ Saw(tx[r], v, Only(k, sales[k])) /\ v.at = next
        BY Shaped DEF IsTx, Saw
      <4>2. tx' = [tx EXCEPT ![r] = v]
        BY <3>3
      <4> HIDE DEF v
      <4> QED
        BY <4>1, <4>2
    <3>5. Finds(r, u)
      BY <1>1, <2>1, <3>2, <3>4 DEF Finds
    <3> QED
      BY <3>3, <3>4, <3>5 DEF Advances
  <2>3. CASE Told(r) = {} /\ Go(r, "commit")
    <3>1. PICK u : /\ tx' = [tx EXCEPT ![r] = u] /\ IsTx(u) /\ UNCHANGED Stored
                   /\ Moved(tx[r], u) /\ u.at = "commit" /\ u.place = tx[r].place
                   /\ u.bonus = tx[r].bonus
      BY <1>4, <2>3
    <3>2. Said(r).about = "refund" =>
            \A k \in Candidates(r) : Said(r).from = "shopify" /\ ~sales[k].shopId
      <4> SUFFICES ASSUME NEW k \in Candidates(r)
                   PROVE  Said(r).from = "shopify" /\ ~sales[k].shopId
        OBVIOUS
      <4>1. Said(r).from = "shopify"
        BY <1>3, <2>3 DEF Told
      <4>2. CASE sales[k].shopId
        <5>1. k \in {q \in Known(r) : Visible(r)[q].shopId}
          BY <1>3, <4>2
        <5> QED
          BY <2>3, <4>1, <5>1 DEF Told
      <4> QED
        BY <4>1, <4>2
    <3>3. Misses(r, u)
      BY <1>1, <2>1, <3>1, <3>2 DEF Misses
    <3> QED
      BY <3>1, <3>3 DEF Advances
  <2> QED
    BY <1>6, <2>2, <2>3 DEF FindSale
<1> QED
  BY <1>5, <1>6

LEMMA RecordLeads ==
  ASSUME Base, NEW r \in Requests, tx[r].event # Null, Attribute(r) \/ InsertSale(r)
  PROVE  \E u : Advances(r, u)
<1>1. DOMAIN tx[r].mine = {}
  BY DEF Base, AllSound, TxOK, Script, At, Attribute, InsertSale
<1>2. CASE Attribute(r)
  <2> DEFINE next == IF Said(r).claimed THEN "insert" ELSE "commit"
             place == IF Said(r).claimed /\ member.status = "active" THEN member.id ELSE 0
  <2>1. /\ tx' = [tx EXCEPT ![r] = [tx[r] EXCEPT !.at = next, !.place = place]]
        /\ UNCHANGED Stored /\ At(r, "attribute")
    BY <1>2 DEF Attribute
  <2> HIDE DEF next, place
  <2>2. PICK u : /\ tx' = [tx EXCEPT ![r] = u] /\ IsTx(u)
                 /\ Moved(tx[r], u) /\ u.at = next /\ u.place = place /\ u.bonus = tx[r].bonus
    <3> DEFINE v == [tx[r] EXCEPT !.place = place, !.at = next]
    <3>1. /\ IsTx(v) /\ Moved(tx[r], v) /\ v.at = next
          /\ v.place = place /\ v.bonus = tx[r].bonus
      BY Shaped DEF IsTx, Moved
    <3>2. tx' = [tx EXCEPT ![r] = v]
      BY <2>1
    <3> HIDE DEF v
    <3> QED
      BY <3>1, <3>2
  <2>3. Attributes(r, u)
    BY <2>1, <2>2 DEF Attributes, next, place
  <2> QED
    BY <2>1, <2>2, <2>3 DEF Advances
<1>3. CASE InsertSale(r)
  <2>1. At(r, "insert") /\ Said(r).about = "order"
    BY <1>3 DEF InsertSale, Base, AllSound, TxOK, Script, At, Said, Event
  <2>2. CASE OwnKey(r) \in DOMAIN sales
    BY <1>1, <1>3, <2>1, <2>2, FoundFinds DEF InsertSale
  <2>3. CASE OwnKey(r) \notin DOMAIN sales
    <3> DEFINE next == IF tx[r].place # 0 THEN "member" ELSE "commit"
    <3>1. Write(r, OwnKey(r), NewSale(r), next)
      BY <1>3, <2>3 DEF InsertSale, NewSale
    <3> HIDE DEF next
    <3>2. PICK u : /\ tx' = [tx EXCEPT ![r] = u] /\ IsTx(u) /\ UNCHANGED Stored
                   /\ Lockable(r, OwnKey(r)) /\ Wrote(tx[r], u, OwnKey(r), NewSale(r))
                   /\ u.at = next
      BY <1>1, <3>1, WriteFacts
    <3>3. Inserts(r, u)
      BY <2>1, <2>3, <3>2 DEF Inserts, next
    <3> QED
      BY <3>2, <3>3 DEF Advances
  <2> QED
    BY <2>2, <2>3
<1> QED
  BY <1>2, <1>3

LEMMA UpdateLeads ==
  ASSUME Base, NEW r \in Requests, tx[r].event # Null, AddId(r) \/ WriteRefund(r) \/ WriteCancel(r)
  PROVE  \E u : Advances(r, u)
<1>1. DOMAIN tx[r].mine = {} /\ DOMAIN tx[r].seen # {}
  BY DEF Base, AllSound, TxOK, Script, At, AddId, WriteRefund, WriteCancel
<1> DEFINE k == SeenKey(r)
<1>2. /\ k \in DOMAIN tx[r].seen /\ Copy(r) \in Row /\ Current(r) = sales[k] /\ Current(r) \in Row
  BY <1>1, Reading
<1>3. /\ [Current(r) EXCEPT !.shopId = TRUE] \in Row
      /\ [Current(r) EXCEPT !.shopId = TRUE].counted = sales[k].counted
      /\ [Current(r) EXCEPT !.shopId = TRUE].shopId = TRUE
      /\ [Current(r) EXCEPT !.shopId = TRUE].status = sales[k].status
      /\ [Current(r) EXCEPT !.shopId = TRUE].refunded = sales[k].refunded
  BY <1>2 DEF Row
<1>4. LET row == [Current(r) EXCEPT !.status = "refunded", !.refunded = Copy(r).refunded]
      IN  /\ row \in Row /\ row.counted = sales[k].counted /\ row.shopId = sales[k].shopId
          /\ row.status = "refunded" /\ row.refunded = tx[r].seen[k].refunded
  BY <1>2 DEF Row, Copy
<1>5. /\ [Current(r) EXCEPT !.status = "cancelled"] \in Row
      /\ [Current(r) EXCEPT !.status = "cancelled"].counted = sales[k].counted
      /\ [Current(r) EXCEPT !.status = "cancelled"].shopId = sales[k].shopId
      /\ [Current(r) EXCEPT !.status = "cancelled"].status = "cancelled"
      /\ [Current(r) EXCEPT !.status = "cancelled"].refunded = sales[k].refunded
  BY <1>2 DEF Row
<1>6. PICK row \in Row :
        /\ Write(r, k, row, "commit")
        /\ tx[r].at \in {"add id", "refund", "cancel"}
        /\ row.counted = sales[k].counted
        /\ row.refunded = IF At(r, "refund") THEN tx[r].seen[k].refunded ELSE sales[k].refunded
        /\ At(r, "add id") => row.shopId = TRUE /\ row.status = sales[k].status
        /\ At(r, "refund") => row.shopId = sales[k].shopId /\ row.status = "refunded"
        /\ At(r, "cancel") => row.shopId = sales[k].shopId /\ row.status = "cancelled"
  <2>1. CASE AddId(r)
    BY <1>3, <2>1 DEF AddId, At
  <2>2. CASE WriteRefund(r)
    BY <1>4, <2>2 DEF WriteRefund, At
  <2>3. CASE WriteCancel(r)
    BY <1>5, <2>3 DEF WriteCancel, At
  <2> QED
    BY <2>1, <2>2, <2>3
<1> HIDE DEF k
<1>7. PICK u : /\ tx' = [tx EXCEPT ![r] = u] /\ IsTx(u) /\ UNCHANGED Stored
               /\ Lockable(r, k) /\ Wrote(tx[r], u, k, row) /\ u.at = "commit"
  <2>1. Write(r, k, row, "commit")
    BY <1>6
  <2> QED
    BY <1>1, <2>1, WriteFacts
<1>8. Updates(r, u)
  BY <1>2, <1>6, <1>7 DEF Updates
<1> QED
  BY <1>7, <1>8 DEF Advances

LEMMA CheckLeads ==
  ASSUME Base, NEW r \in Requests, tx[r].event # Null, CheckRefund(r) \/ CheckCancel(r)
  PROVE  \E u : Advances(r, u)
<1>1. DOMAIN tx[r].mine = {} /\ DOMAIN tx[r].seen # {} /\ RowsOver(tx[r].seen)
  BY DEF Base, AllSound, TxOK, Script, At, CheckRefund, CheckCancel
<1> DEFINE k == SeenKey(r)
<1>2. /\ k \in DOMAIN tx[r].seen /\ DOMAIN tx[r].seen = {k} /\ Said(r) \in EventType
      /\ Copy(r) \in Row /\ Current(r) = sales[k] /\ Current(r) \in Row
  BY <1>1, Reading
<1>3. tx[r].at \in {"check refund", "check cancel"}
  BY DEF CheckRefund, CheckCancel, At
<1>4. ASSUME NEW next, Go(r, next),
             next = "commit" \/ (next = "cancel" /\ At(r, "check cancel")),
             At(r, "check refund") => ~MayRefund(r) /\ next = "commit"
      PROVE  \E u : Advances(r, u)
  <2>1. PICK u : /\ tx' = [tx EXCEPT ![r] = u] /\ IsTx(u)
                 /\ Moved(tx[r], u) /\ u.at = next /\ u.place = tx[r].place
                 /\ u.bonus = tx[r].bonus
    <3> DEFINE v == [tx[r] EXCEPT !.at = next]
    <3>1. /\ IsTx(v) /\ Moved(tx[r], v) /\ v.at = next
          /\ v.place = tx[r].place /\ v.bonus = tx[r].bonus
      BY Shaped DEF IsTx, Moved
    <3>2. tx' = [tx EXCEPT ![r] = v]
      BY <1>4 DEF Go
    <3> HIDE DEF v
    <3> QED
      BY <3>1, <3>2
  <2>2. Saw(tx[r], u, tx[r].seen)
    BY <2>1 DEF Moved, Saw
  <2>3. \E f : Saw(tx[r], u, f) /\ RowsOver(f) /\ DOMAIN f = DOMAIN tx[r].seen
    BY <1>1, <2>2
  <2>4. /\ u.at = "commit" \/ (At(r, "check cancel") /\ u.at = "cancel")
        /\ At(r, "check refund") => ~MayRefund(r) /\ u.at = "commit" /\ u.seen = tx[r].seen
    BY <1>4, <2>1 DEF Moved
  <2>5. Checks(r, u)
    BY <1>3, <2>3, <2>4 DEF Checks
  <2> QED
    BY <1>4, <2>1, <2>5 DEF Advances, Go
<1>5. CASE CheckRefund(r) /\ MayRefund(r)
  <2>1. Returning(r) \in Row /\ sales[k].status # "cancelled"
    BY <1>2, <1>5, ReturningRow DEF EventType
  <2>2. /\ tx' = [tx EXCEPT ![r] = [tx[r] EXCEPT !.seen = Only(k, Returning(r)), !.at = "refund"]]
        /\ UNCHANGED Stored /\ At(r, "check refund")
    BY <1>5 DEF CheckRefund
  <2>3. /\ DOMAIN Only(k, Returning(r)) = {k} /\ Only(k, Returning(r))[k] = Returning(r)
        /\ k \in Keys
    BY <1>1, <1>2, OnlyFacts DEF RowsOver
  <2> DEFINE f == Only(k, Returning(r))
  <2>4. RowsOver(f) /\ DOMAIN f = DOMAIN tx[r].seen
    BY <1>2, <2>1, <2>3 DEF RowsOver
  <2> HIDE DEF f, k
  <2>5. PICK u : /\ tx' = [tx EXCEPT ![r] = u] /\ IsTx(u) /\ Saw(tx[r], u, f) /\ u.at = "refund"
    <3> DEFINE v == [tx[r] EXCEPT !.seen = f, !.at = "refund"]
    <3>1. IsTx(v) /\ Saw(tx[r], v, f) /\ v.at = "refund"
      BY Shaped DEF IsTx, Saw
    <3>2. tx' = [tx EXCEPT ![r] = v]
      BY <2>2 DEF f
    <3> HIDE DEF v
    <3> QED
      BY <3>1, <3>2
  <2>6. u.seen = Only(SeenKey(r), Returning(r)) /\ MayRefund(r)
    BY <1>5, <2>5 DEF Saw, f, k
  <2>7. Checks(r, u)
    BY <1>2, <1>3, <2>1, <2>2, <2>4, <2>5, <2>6 DEF Checks
  <2> QED
    BY <2>2, <2>5, <2>7 DEF Advances
<1>6. CASE ~(CheckRefund(r) /\ MayRefund(r))
  <2>1. /\ Go(r, "commit") \/ (Go(r, "cancel") /\ At(r, "check cancel"))
        /\ At(r, "check refund") => ~MayRefund(r) /\ Go(r, "commit")
    BY <1>6 DEF CheckRefund, CheckCancel, At
  <2> QED
    BY <1>4, <2>1
<1> QED
  BY <1>5, <1>6

LEMMA PonderLeads ==
  ASSUME Base, NEW r \in Requests, tx[r].event # Null,
         ReadMember(r) \/ CountSales(r) \/ AwardBonus(r)
  PROVE  \E u : Advances(r, u)
<1>1. CASE ReadMember(r)
  <2> DEFINE next == IF MayWin THEN "count" ELSE "commit"
             place == IF MayWin THEN member.id ELSE 0
  <2>1. /\ tx' = [tx EXCEPT ![r] = [tx[r] EXCEPT !.place = place, !.at = next]]
        /\ UNCHANGED Stored /\ At(r, "member")
    BY <1>1 DEF ReadMember
  <2> HIDE DEF next, place
  <2>2. PICK u : /\ tx' = [tx EXCEPT ![r] = u] /\ IsTx(u)
                 /\ Moved(tx[r], u) /\ u.at = next /\ u.place = place /\ u.bonus = tx[r].bonus
    <3> DEFINE v == [tx[r] EXCEPT !.place = place, !.at = next]
    <3>1. /\ IsTx(v) /\ Moved(tx[r], v) /\ v.at = next
          /\ v.place = place /\ v.bonus = tx[r].bonus
      BY Shaped DEF IsTx, Moved
    <3>2. tx' = [tx EXCEPT ![r] = v]
      BY <2>1
    <3> HIDE DEF v
    <3> QED
      BY <3>1, <3>2
  <2>3. Ponders(r, u)
    BY <2>1, <2>2 DEF Ponders, next, place
  <2> QED
    BY <2>1, <2>2, <2>3 DEF Advances
<1>2. CASE CountSales(r)
  <2> DEFINE next == IF Cardinality(Counted(Visible(r))) >= Threshold THEN "award" ELSE "commit"
  <2>1. Go(r, next) /\ At(r, "count")
    BY <1>2 DEF CountSales
  <2> HIDE DEF next
  <2>2. PICK u : /\ tx' = [tx EXCEPT ![r] = u] /\ IsTx(u)
                 /\ Moved(tx[r], u) /\ u.at = next /\ u.place = tx[r].place
                 /\ u.bonus = tx[r].bonus
    <3> DEFINE v == [tx[r] EXCEPT !.at = next]
    <3>1. /\ IsTx(v) /\ Moved(tx[r], v) /\ v.at = next
          /\ v.place = tx[r].place /\ v.bonus = tx[r].bonus
      BY Shaped DEF IsTx, Moved
    <3>2. tx' = [tx EXCEPT ![r] = v]
      BY <2>1 DEF Go
    <3> HIDE DEF v
    <3> QED
      BY <3>1, <3>2
  <2>3. Ponders(r, u)
    BY <2>1, <2>2 DEF Ponders, next
  <2> QED
    BY <2>1, <2>2, <2>3 DEF Advances, Go
<1>3. CASE AwardBonus(r)
  <2>1. /\ tx' = [tx EXCEPT ![r] = [tx[r] EXCEPT !.bonus = TRUE, !.at = "commit"]]
        /\ UNCHANGED Stored /\ At(r, "award")
    BY <1>3 DEF AwardBonus
  <2>2. PICK u : /\ tx' = [tx EXCEPT ![r] = u] /\ IsTx(u)
                 /\ Moved(tx[r], u) /\ u.at = "commit" /\ u.place = tx[r].place
                 /\ u.bonus = TRUE
    <3> DEFINE v == [tx[r] EXCEPT !.bonus = TRUE, !.at = "commit"]
    <3>1. /\ IsTx(v) /\ Moved(tx[r], v) /\ v.at = "commit"
          /\ v.place = tx[r].place /\ v.bonus = TRUE
      BY Shaped DEF IsTx, Moved
    <3>2. tx' = [tx EXCEPT ![r] = v]
      BY <2>1
    <3> HIDE DEF v
    <3> QED
      BY <3>1, <3>2
  <2>3. Ponders(r, u)
    BY <2>1, <2>2 DEF Ponders
  <2> QED
    BY <2>1, <2>2, <2>3 DEF Advances
<1> QED
  BY <1>1, <1>2, <1>3

LEMMA WorkLeads ==
  ASSUME Base, NEW r \in Requests, Works(r)
  PROVE  \E u : Advances(r, u)
<1>1. tx[r].event # Null
  <2>1. tx[r].at # "idle"
    BY DEF Works, FindOrder, Attribute, AddId, InsertSale, ReadMember, CountSales, AwardBonus,
           FindSale, CheckRefund, WriteRefund, CheckCancel, WriteCancel, At
  <2> QED
    BY <2>1 DEF Base, AllSound, TxOK, Idle
<1> QED
  BY <1>1, FindLeads, RecordLeads, UpdateLeads, CheckLeads, PonderLeads DEF Works

----------------------------------------------------------------------------
(* Every statement keeps the request sound.                                *)

\* The row a request inserts.
LEMMA NewSaleFacts ==
  ASSUME Base, NEW r \in Requests, tx[r].event # Null
  PROVE  /\ OwnKey(r) = KeyOf(tx[r].event) /\ OwnKey(r) \in Keys /\ OwnKey(r)[2] = Said(r).order
         /\ Said(r) = Says[tx[r].event] /\ Said(r) \in EventType
         /\ NewSale(r) \in Row /\ NewSale(r).shopId = (Said(r).from = "shopify")
         /\ NewSale(r).status = "pending" /\ NewSale(r).counted = (tx[r].place # 0)
<1>1. Said(r) \in EventType /\ Said(r) = Says[tx[r].event]
  BY EventsAreReal DEF Base, AllSound, TxOK, Script, Said, Event
<1>2. OwnKey(r) = KeyOf(tx[r].event) /\ OwnKey(r) \in Keys /\ OwnKey(r)[2] = Said(r).order
  BY <1>1 DEF OwnKey, KeyOf, Keys, EventType
<1>3. /\ NewSale(r) \in Row /\ NewSale(r).shopId = (Said(r).from = "shopify")
      /\ NewSale(r).status = "pending" /\ NewSale(r).counted = (tx[r].place # 0)
  BY IntakeConstants DEF NewSale, Row
<1> QED
  BY <1>1, <1>2, <1>3

LEMMA WorkSound ==
  ASSUME Base, NEW r \in Requests, NEW u, Advances(r, u)
  PROVE  /\ u.event = tx[r].event /\ TxOK(u, sales)
         /\ \A o \in Requests : o # r => DOMAIN u.mine \cap DOMAIN tx[o].mine = {}
<1> DEFINE t == tx[r]
           s == Says[t.event]
           Goal == /\ u.event = t.event /\ Script(u) /\ Fits(u, sales)
                   /\ DOMAIN u.mine = DOMAIN t.mine \/ \E k : DOMAIN u.mine = {k} /\ Lockable(r, k)
<1>0. SUFFICES Goal
  <2>1. ASSUME Goal, NEW o \in Requests, o # r PROVE DOMAIN u.mine \cap DOMAIN tx[o].mine = {}
    BY <2>1 DEF Lockable, Base, Apart
  <2>2. ASSUME Goal PROVE TxOK(u, sales)
    BY <2>2 DEF TxOK, Advances
  <2> QED
    BY <2>1, <2>2
<1>1. /\ t.event # Null /\ IsTx(u) /\ Script(t) /\ Fits(t, sales) /\ RowsOver(sales)
      /\ s \in EventType /\ Said(r) = s
  <2>1. t.event # Null /\ IsTx(u)
    BY DEF Advances
  <2>2. TxOK(t, sales) /\ RowsOver(sales)
    BY DEF Base, AllSound, RowsTyped
  <2> QED
    BY <2>1, <2>2, NewSaleFacts DEF TxOK
<1>2. CASE Finds(r, u)
  <2>1. PICK k \in Candidates(r) :
       /\ Saw(t, u, Only(k, sales[k]))
       /\ s.about = "order" =>
            u.at = IF s.from = "shopify" /\ ~sales[k].shopId THEN "add id" ELSE "commit"
       /\ s.about = "refund" => u.at = "check refund"
       /\ s.about = "cancel" => u.at = "check cancel"
    BY <1>2 DEF Finds, Said, Event
  <2>2. k \in DOMAIN sales /\ k[2] = s.order /\ k \in Keys /\ sales[k] \in Row
    BY <1>1, <2>1 DEF Candidates, RowsOver
  <2>3. /\ DOMAIN u.seen = {k} /\ u.seen[k] = sales[k] /\ RowsOver(u.seen) /\ Single(u.seen)
        /\ u.mine = t.mine /\ DOMAIN u.mine = {} /\ u.bonus = FALSE /\ u.event = t.event
        /\ u.place = t.place
    <3>1. t.at \in {"find", "insert"}
      BY <1>2 DEF Finds, At
    <3>2. t.bonus = FALSE /\ DOMAIN t.mine = {}
      BY <1>1, <3>1 DEF Script
    <3>3. /\ u.seen = Only(k, sales[k]) /\ u.mine = t.mine /\ u.bonus = t.bonus
          /\ u.event = t.event /\ u.place = t.place
      BY <2>1 DEF Saw
    <3>4. DOMAIN u.seen = {k} /\ u.seen[k] = sales[k]
      <4>1. DOMAIN Only(k, sales[k]) = {k} /\ Only(k, sales[k])[k] = sales[k]
        BY OnlyFacts
      <4> QED
        BY <3>3, <4>1
    <3>5. RowsOver(u.seen) /\ Single(u.seen)
      BY <2>2, <3>4 DEF RowsOver, Single
    <3> QED
      BY <3>2, <3>3, <3>4, <3>5
  <2>4. \/ u.at = "add id" /\ s.about = "order" /\ s.from = "shopify"
        \/ u.at = "commit" /\ s.about = "order"
        \/ u.at = "check refund" /\ s.about = "refund"
        \/ u.at = "check cancel" /\ s.about = "cancel"
    BY <1>1, <2>1 DEF EventType
  <2>5. Script(u)
    BY <1>1, <2>1, <2>2, <2>3, <2>4 DEF Script
  <2>6. Fits(u, sales)
    BY <2>2, <2>3 DEF Fits
  <2> QED
    BY <2>3, <2>5, <2>6
<1>3. CASE Misses(r, u)
  <2>1. /\ DOMAIN u.seen = {} /\ DOMAIN u.mine = {} /\ u.mine = t.mine /\ u.seen = t.seen
        /\ u.bonus = FALSE /\ u.event = t.event /\ u.place = t.place
    BY <1>1, <1>3 DEF Misses, Moved, Script, At
  <2>2. (u.at = "attribute" /\ s.about = "order") \/ (u.at = "commit" /\ s.about # "order")
    BY <1>1, <1>3 DEF Misses
  <2>3. Script(u) /\ Fits(u, sales)
    BY <1>1, <2>1, <2>2 DEF Script, Fits
  <2> QED
    BY <2>1, <2>3
<1>4. CASE Attributes(r, u)
  <2>1. /\ DOMAIN u.seen = {} /\ DOMAIN u.mine = {} /\ u.mine = t.mine /\ u.seen = t.seen
        /\ u.bonus = FALSE /\ u.event = t.event /\ s.about = "order"
    BY <1>1, <1>4 DEF Attributes, Moved, Script, At
  <2>2. u.place \in 0..MaxInvites /\ u.at = IF s.claimed THEN "insert" ELSE "commit"
    BY <1>1, <1>4, IntakeConstants DEF Attributes, Base, RowsTyped
  <2>3. Script(u) /\ Fits(u, sales)
    BY <1>1, <2>1, <2>2 DEF Script, Fits
  <2> QED
    BY <2>1, <2>3
<1>5. CASE Inserts(r, u)
  <2> DEFINE k == OwnKey(r)
  <2>1. /\ k = KeyOf(t.event) /\ k \in Keys /\ k[2] = s.order /\ NewSale(r) \in Row
        /\ NewSale(r).shopId = (s.from = "shopify")
    BY <1>1, NewSaleFacts
  <2>2. /\ DOMAIN u.mine = {k} /\ u.mine[k] = NewSale(r) /\ DOMAIN u.seen = {} /\ u.seen = t.seen
        /\ u.event = t.event /\ u.place = t.place /\ u.bonus = FALSE
        /\ u.at = IF t.place # 0 THEN "member" ELSE "commit"
        /\ s.about = "order" /\ s.claimed /\ k \notin DOMAIN sales /\ Lockable(r, k)
    <3>1. /\ t.at = "insert" /\ k \notin DOMAIN sales /\ Lockable(r, k)
          /\ Wrote(t, u, k, NewSale(r)) /\ u.at = IF t.place # 0 THEN "member" ELSE "commit"
      BY <1>5 DEF Inserts, At
    <3>2. t.bonus = FALSE /\ DOMAIN t.seen = {} /\ s.about = "order" /\ s.claimed
      BY <1>1, <3>1 DEF Script
    <3> HIDE DEF k
    <3>3. DOMAIN Only(k, NewSale(r)) = {k} /\ Only(k, NewSale(r))[k] = NewSale(r)
      BY OnlyFacts
    <3> QED
      BY <3>1, <3>2, <3>3 DEF Wrote
  <2> HIDE DEF k
  <2>3. RowsOver(u.mine) /\ Single(u.mine)
    BY <2>1, <2>2 DEF RowsOver, Single
  <2>4. Script(u)
    BY <1>1, <2>1, <2>2, <2>3 DEF Script
  <2>5. Fits(u, sales)
    BY <2>1, <2>2 DEF Fits
  <2> QED
    BY <2>2, <2>4, <2>5
<1>6. CASE Updates(r, u)
  <2>1. PICK k \in DOMAIN t.seen, row \in Row :
       /\ Lockable(r, k) /\ Wrote(t, u, k, row)
       /\ row.counted = sales[k].counted
       /\ At(r, "add id") => row.shopId = TRUE /\ row.status = sales[k].status
       /\ At(r, "refund") => row.shopId = sales[k].shopId /\ row.status = "refunded"
       /\ At(r, "cancel") => row.shopId = sales[k].shopId /\ row.status = "cancelled"
    BY <1>6 DEF Updates
  <2>2. /\ DOMAIN u.mine = {k} /\ u.mine[k] = row /\ u.seen = t.seen /\ u.event = t.event
        /\ u.place = t.place /\ u.bonus = FALSE /\ u.at = "commit"
        /\ t.at \in {"add id", "refund", "cancel"}
    <3>1. t.at \in {"add id", "refund", "cancel"} /\ u.at = "commit"
      BY <1>6 DEF Updates
    <3>2. t.bonus = FALSE
      BY <1>1, <3>1 DEF Script
    <3>3. DOMAIN Only(k, row) = {k} /\ Only(k, row)[k] = row
      BY OnlyFacts
    <3> QED
      BY <2>1, <3>1, <3>2, <3>3 DEF Wrote
  <2>3. k \in DOMAIN sales /\ k[2] = s.order /\ k \in Keys
    BY <1>1, <2>1 DEF Script, Fits, RowsOver
  <2>4. Keeps(s.about, sales[k], row)
    BY <1>1, <2>1, <2>2 DEF Keeps, At, Script
  <2>5. RowsOver(u.mine) /\ Single(u.mine)
    BY <2>1, <2>2, <2>3 DEF RowsOver, Single
  <2>6. Script(u)
    BY <1>1, <2>1, <2>2, <2>3, <2>5 DEF Script
  <2>7. Fits(u, sales)
    BY <1>1, <2>2, <2>3, <2>4 DEF Fits
  <2> QED
    BY <2>1, <2>2, <2>6, <2>7
<1>7. CASE Checks(r, u)
  <2>1. PICK f : Saw(t, u, f) /\ RowsOver(f) /\ DOMAIN f = DOMAIN t.seen
    BY <1>7 DEF Checks
  <2>2. /\ u.seen = f /\ DOMAIN u.seen = DOMAIN t.seen /\ u.mine = t.mine /\ DOMAIN u.mine = {}
        /\ u.event = t.event /\ u.place = t.place /\ u.bonus = FALSE
        /\ DOMAIN t.seen # {} /\ s.about # "order" /\ RowsOver(u.seen) /\ Single(u.seen)
    BY <1>1, <1>7, <2>1 DEF Checks, Saw, Script, Single
  <2>3. \/ u.at = "commit"
        \/ u.at = "refund" /\ s.about = "refund"
        \/ u.at = "cancel" /\ s.about = "cancel"
    BY <1>1, <1>7 DEF Checks, Script, At
  <2>4. Script(u) /\ Fits(u, sales)
    BY <1>1, <2>2, <2>3 DEF Script, Fits
  <2> QED
    BY <2>2, <2>4
<1>8. CASE Ponders(r, u)
  <2>1. /\ u.event = t.event /\ u.seen = t.seen /\ u.mine = t.mine
        /\ t.at \in {"member", "count", "award"} /\ t.bonus = FALSE
        /\ s.about = "order" /\ KeyOf(t.event) \in DOMAIN t.mine
    BY <1>1, <1>8 DEF Ponders, Moved, Script, At
  <2>2. /\ u.at \in {"count", "award", "commit"} /\ u.bonus \in BOOLEAN
        /\ u.bonus => u.at = "commit"
        /\ u.place \in {t.place, 0, member.id}
    BY <2>1, <1>8 DEF Ponders, At
  <2>3. u.place \in 0..MaxInvites
    <3>1. t.place \in 0..MaxInvites
      BY <1>1 DEF Script
    <3>2. member.id \in 0..MaxInvites /\ 0 \in 0..MaxInvites
      BY IntakeConstants DEF Base, RowsTyped
    <3> QED
      BY <2>2, <3>1, <3>2
  <2>4. Script(u) /\ Fits(u, sales)
    BY <1>1, <2>1, <2>2, <2>3 DEF Script, Fits
  <2> QED
    BY <2>1, <2>4
<1> QED
  BY <1>2, <1>3, <1>4, <1>5, <1>6, <1>7, <1>8 DEF Advances

----------------------------------------------------------------------------
(* Base is inductive.                                                      *)

LEMMA AdvancesBase ==
  ASSUME Base, NEW r \in Requests, NEW u, Advances(r, u)
  PROVE  Base'
<1>1. /\ tx' = [tx EXCEPT ![r] = u] /\ UNCHANGED Stored
      /\ u.event = tx[r].event /\ TxOK(u, sales)
      /\ \A o \in Requests : o # r => DOMAIN u.mine \cap DOMAIN tx[o].mine = {}
  BY WorkSound DEF Advances
<1>2. /\ DOMAIN tx = Requests /\ tx'[r] = u /\ \A o \in Requests : o # r => tx'[o] = tx[o]
      /\ DOMAIN tx' = Requests /\ tx' = [o \in Requests |-> tx'[o]]
  BY <1>1 DEF Base, AllSound
<1>3. RowsTyped'
  BY <1>1 DEF Base, RowsTyped, Stored
<1>4. AllSound'
  BY <1>1, <1>2 DEF Base, AllSound, Stored
<1>5. \A o \in Requests : tx'[o].event = tx[o].event
  BY <1>1, <1>2
<1>6. Apart'
  BY <1>1, <1>2 DEF Base, Apart
<1>7. Meeting'
  BY <1>1, <1>5 DEF Base, Meeting, Stored, Related
<1> QED
  BY <1>3, <1>4, <1>6, <1>7 DEF Base

\* A delivery begins.
LEMMA DeliverFacts ==
  ASSUME Base, NEW r \in Requests, NEW e \in Events, Deliver(r, e)
  PROVE  /\ tx[r].event = Null /\ e # Null /\ Fresh(e)
         /\ tx'[r].event = e /\ tx'[r].at = "find" /\ tx'[r].seen = NoSales /\ tx'[r].mine = NoSales
         /\ tx'[r].place = 0 /\ tx'[r].bonus = FALSE /\ IsTx(tx'[r])
         /\ \A o \in Requests : o # r => tx'[o] = tx[o]
         /\ DOMAIN tx' = Requests /\ tx' = [o \in Requests |-> tx'[o]]
         /\ UNCHANGED <<sales, logged, member, bonuses, missed>>
         /\ calls' \in 0..MaxCalls
         /\ met \subseteq met'
         /\ \A o \in Requests : o # r /\ tx[o].event # Null /\ Related(e, tx[o].event) =>
              {e, tx[o].event} \in met'
<1>1. /\ At(r, "idle") /\ tx' = [tx EXCEPT ![r] = [Idle EXCEPT !.event = e, !.at = "find"]]
      /\ calls < MaxCalls /\ calls' = calls + 1
      /\ met' = met \cup {{e, f} : f \in {f \in {Event(o) : o \in Requests} \ {Null} : Related(e, f)}}
      /\ UNCHANGED <<sales, logged, member, bonuses, missed>> /\ Fresh(e)
  BY DEF Deliver
<1>2. DOMAIN tx = Requests /\ tx = [o \in Requests |-> tx[o]] /\ TxOK(tx[r], sales)
      /\ calls \in 0..MaxCalls
  BY DEF Base, AllSound, RowsTyped
<1>3. tx[r].event = Null
  BY <1>1, <1>2 DEF TxOK, Script, At
<1>4. e # Null
  BY EventsAreReal
<1> DEFINE v == [Idle EXCEPT !.event = e, !.at = "find"]
<1>5. /\ v.event = e /\ v.at = "find" /\ v.seen = NoSales /\ v.mine = NoSales /\ v.place = 0
      /\ v.bonus = FALSE /\ IsTx(v)
  BY DEF Idle, IsTx
<1>6. tx' = [tx EXCEPT ![r] = v]
  BY <1>1
<1> HIDE DEF v
<1>7. /\ tx'[r] = v /\ \A o \in Requests : o # r => tx'[o] = tx[o]
      /\ DOMAIN tx' = Requests /\ tx' = [o \in Requests |-> tx'[o]]
  BY <1>2, <1>6
<1>8. calls' \in 0..MaxCalls
  BY <1>1, <1>2, IntakeConstants
<1>9. \A o \in Requests : o # r /\ tx[o].event # Null /\ Related(e, tx[o].event) =>
        {e, tx[o].event} \in met'
  BY <1>1 DEF Event
<1>10. met \subseteq met'
  BY <1>1
<1> QED
  BY <1>1, <1>3, <1>4, <1>5, <1>7, <1>8, <1>9, <1>10

LEMMA DeliverBase ==
  ASSUME Base, NEW r \in Requests, NEW e \in Events, Deliver(r, e)
  PROVE  Base'
<1>1. RowsTyped'
  BY DeliverFacts DEF Base, RowsTyped
<1>2. /\ DOMAIN tx'[r].mine = {} /\ DOMAIN tx'[r].seen = {}
      /\ RowsOver(tx'[r].mine) /\ RowsOver(tx'[r].seen) /\ Single(tx'[r].mine) /\ Single(tx'[r].seen)
  <2>1. DOMAIN NoSales = {}
    BY DEF NoSales
  <2> QED
    BY <2>1, DeliverFacts DEF RowsOver, Single
<1>3. TxOK(tx'[r], sales)
  <2>1. /\ tx'[r].event = e /\ tx'[r].at = "find" /\ tx'[r].place = 0 /\ tx'[r].bonus = FALSE
        /\ IsTx(tx'[r]) /\ e # Null
    BY DeliverFacts
  <2>2. 0 \in 0..MaxInvites
    BY IntakeConstants
  <2>3. Script(tx'[r])
    BY <1>2, <2>1, <2>2 DEF Script
  <2>4. Fits(tx'[r], sales)
    BY <1>2 DEF Fits
  <2> QED
    BY <2>1, <2>3, <2>4 DEF TxOK
<1>4. AllSound'
  <2>1. /\ \A o \in Requests : o # r => tx'[o] = tx[o]
        /\ DOMAIN tx' = Requests /\ tx' = [o \in Requests |-> tx'[o]] /\ sales' = sales
    BY DeliverFacts
  <2> QED
    BY <1>3, <2>1 DEF Base, AllSound
<1>5. /\ tx'[r].event = e /\ \A o \in Requests : o # r => tx'[o] = tx[o]
      /\ met \subseteq met'
      /\ \A o \in Requests : o # r /\ tx[o].event # Null /\ Related(e, tx[o].event) =>
           {e, tx[o].event} \in met'
  BY DeliverFacts
<1>6. Apart'
  BY <1>2, <1>5 DEF Base, Apart
<1>7. ASSUME NEW o \in Requests, NEW p \in Requests, o # p, tx'[o].event # Null,
             tx'[p].event # Null, Related(tx'[o].event, tx'[p].event)
      PROVE  {tx'[o].event, tx'[p].event} \in met'
  <2>1. CASE o # r /\ p # r
    BY <1>5, <1>7, <2>1 DEF Base, Meeting
  <2>2. CASE o = r
    BY <1>5, <1>7, <2>2
  <2>3. CASE p = r
    <3>1. Related(e, tx[o].event) /\ tx[o].event # Null
      BY <1>5, <1>7, <2>3 DEF Related
    <3>2. {e, tx[o].event} \in met'
      BY <1>5, <1>7, <2>3, <3>1
    <3>3. {tx'[o].event, tx'[p].event} = {e, tx[o].event}
      BY <1>5, <1>7, <2>3
    <3> QED
      BY <3>2, <3>3
  <2> QED
    BY <2>1, <2>2, <2>3
<1>8. Meeting'
  BY <1>7 DEF Meeting, Related
<1> QED
  BY <1>1, <1>4, <1>6, <1>8 DEF Base

\* A request is over, with what it wrote or without.
Quits(r) ==
  /\ tx[r].event # Null /\ tx'[r] = Idle
  /\ \A o \in Requests : o # r => tx'[o] = tx[o]
  /\ DOMAIN tx' = Requests /\ tx' = [o \in Requests |-> tx'[o]]
  /\ UNCHANGED <<calls, met>>

LEMMA CommitFacts ==
  ASSUME Base, NEW r \in Requests, Commit(r)
  PROVE  /\ Quits(r) /\ tx[r].at = "commit" /\ tx[r].event \in Events
         /\ IsTx(tx[r]) /\ Script(tx[r]) /\ Fits(tx[r], sales)
         /\ DOMAIN sales' = DOMAIN sales \cup DOMAIN tx[r].mine
         /\ \A k \in DOMAIN tx[r].mine : sales'[k] = tx[r].mine[k]
         /\ \A k \in DOMAIN sales \ DOMAIN tx[r].mine : sales'[k] = sales[k]
         /\ sales' = [k \in DOMAIN sales' |-> sales'[k]]
         /\ logged' = IF Says[tx[r].event].from = "pixel" THEN logged
                      ELSE logged \cup {tx[r].event}
         /\ missed' = IF DOMAIN tx[r].seen \cup DOMAIN tx[r].mine = {}
                      THEN missed \cup {tx[r].event} ELSE missed
<1>1. TxOK(tx[r], sales) /\ DOMAIN tx = Requests /\ tx = [o \in Requests |-> tx[o]]
  BY DEF Base, AllSound
<1>2. tx[r].at = "commit" /\ tx[r].event # Null
  BY <1>1 DEF Commit, At, TxOK, Idle
<1>3. IsTx(tx[r]) /\ Script(tx[r]) /\ Fits(tx[r], sales) /\ tx[r].event \in Events
  BY <1>1, <1>2 DEF TxOK, Script
<1>4. tx' = [tx EXCEPT ![r] = Idle] /\ UNCHANGED <<calls, met>>
  BY DEF Commit
<1>5. Quits(r)
  BY <1>1, <1>2, <1>4 DEF Quits
<1>6. sales' = Over(tx[r].mine, sales)
  BY DEF Commit, Visible
<1>7. /\ DOMAIN sales' = DOMAIN sales \cup DOMAIN tx[r].mine
      /\ \A k \in DOMAIN tx[r].mine : sales'[k] = tx[r].mine[k]
      /\ \A k \in DOMAIN sales \ DOMAIN tx[r].mine : sales'[k] = sales[k]
      /\ sales' = [k \in DOMAIN sales' |-> sales'[k]]
  <2> DEFINE f == tx[r].mine
             new == Over(f, sales)
  <2>1. /\ DOMAIN new = DOMAIN f \cup DOMAIN sales
        /\ \A k \in DOMAIN f : new[k] = f[k]
        /\ \A k \in DOMAIN sales \ DOMAIN f : new[k] = sales[k]
        /\ new = [k \in DOMAIN new |-> new[k]]
    BY OverFacts
  <2>2. sales' = new
    BY <1>6
  <2> HIDE DEF new
  <2> QED
    BY <2>1, <2>2
<1>8. /\ logged' = IF Says[tx[r].event].from = "pixel" THEN logged
                   ELSE logged \cup {tx[r].event}
      /\ missed' = IF DOMAIN tx[r].seen \cup DOMAIN tx[r].mine = {}
                   THEN missed \cup {tx[r].event} ELSE missed
  BY DEF Commit, Said, Event, Touched
<1> QED
  BY <1>2, <1>3, <1>5, <1>7, <1>8

LEMMA FailFacts ==
  ASSUME Base, NEW r \in Requests, Fail(r)
  PROVE  Quits(r) /\ UNCHANGED Stored
<1>1. DOMAIN tx = Requests /\ tx = [o \in Requests |-> tx[o]]
  BY DEF Base, AllSound
<1> QED
  BY <1>1 DEF Fail, Quits, Stored

\* The rows of others are still what they read and go by.
LEMMA QuitsBase ==
  ASSUME Base, NEW r \in Requests, Quits(r), RowsTyped',
         \A o \in Requests : o # r /\ tx[o].event # Null => Fits(tx[o], sales')
  PROVE  Base'
<1>1. /\ Idle.event = Null /\ DOMAIN Idle.mine = {} /\ IsTx(Idle)
  BY DEF Idle, NoSales, IsTx
<1>2. AllSound'
  <2>1. ASSUME NEW o \in Requests PROVE TxOK(tx'[o], sales')
    <3>1. CASE o = r
      BY <1>1, <3>1 DEF Quits, TxOK
    <3>2. CASE o # r
      BY <3>2 DEF Quits, TxOK, Base, AllSound
    <3> QED
      BY <3>1, <3>2
  <2> QED
    BY <2>1 DEF AllSound, Quits
<1>3. Apart'
  <2> SUFFICES ASSUME NEW o \in Requests, NEW p \in Requests, o # p
               PROVE  DOMAIN tx'[o].mine \cap DOMAIN tx'[p].mine = {}
    BY DEF Apart
  <2>1. \A q \in Requests : DOMAIN tx'[q].mine \subseteq DOMAIN tx[q].mine
    BY <1>1 DEF Quits
  <2> QED
    BY <2>1 DEF Base, Apart
<1>4. \A o \in Requests : tx'[o].event # Null => tx'[o].event = tx[o].event
  BY <1>1 DEF Quits
<1>5. Meeting'
  <2>1. met' = met
    BY DEF Quits
  <2> QED
    BY <1>4, <2>1 DEF Base, Meeting, Related
<1> QED
  BY <1>2, <1>3, <1>5 DEF Base

LEMMA CommitBase ==
  ASSUME Base, NEW r \in Requests, Commit(r)
  PROVE  Base'
<1>1. ASSUME NEW o \in Requests, o # r, tx[o].event # Null PROVE Fits(tx[o], sales')
  <2>1. Fits(tx[o], sales) /\ DOMAIN tx[r].mine \cap DOMAIN tx[o].mine = {}
    BY <1>1 DEF Base, AllSound, TxOK, Apart
  <2>2. DOMAIN sales \subseteq DOMAIN sales'
    BY CommitFacts
  <2>3. \A k \in DOMAIN tx[o].mine :
          /\ k \in DOMAIN sales' <=> k \in DOMAIN sales
          /\ k \in DOMAIN sales => sales'[k] = sales[k]
    BY <2>1, CommitFacts
  <2> QED
    BY <2>1, <2>2, <2>3 DEF Fits
<1>2. RowsOver(sales')
  BY CommitFacts DEF Base, RowsTyped, RowsOver, Script
<1>3. IsFiniteSet(DOMAIN sales')
  <2>1. DOMAIN tx[r].mine = {} \/ \E k : DOMAIN tx[r].mine = {k}
    <3>1. Single(tx[r].mine)
      BY CommitFacts DEF Script
    <3> QED
      BY <3>1 DEF Single
  <2>2. IsFiniteSet(DOMAIN tx[r].mine)
    BY <2>1, FS_EmptySet, FS_Singleton
  <2> QED
    <3>1. DOMAIN sales' = DOMAIN sales \cup DOMAIN tx[r].mine /\ IsFiniteSet(DOMAIN sales)
      BY CommitFacts DEF Base, RowsTyped
    <3> QED
      BY <2>2, <3>1, FS_Union
<1>4. /\ member' \in [id : 0..MaxInvites, status : {"none", "invited", "active"}, awarded : BOOLEAN]
      /\ bonuses' \in Nat
  <2>1. /\ member \in [id : 0..MaxInvites, status : {"none", "invited", "active"}, awarded : BOOLEAN]
        /\ bonuses \in Nat
    BY DEF Base, RowsTyped
  <2>2. (member' = member \/ member' = [member EXCEPT !.awarded = TRUE])
        /\ bonuses' \in {bonuses, bonuses + 1}
    BY DEF Commit
  <2>3. bonuses' \in Nat
    BY <2>1, <2>2
  <2> DEFINE M == [id : 0..MaxInvites, status : {"none", "invited", "active"}, awarded : BOOLEAN]
  <2>4. \A m \in M : [m EXCEPT !.awarded = TRUE] \in M
    OBVIOUS
  <2> QED
    BY <2>1, <2>2, <2>3, <2>4
<1>5. logged' \subseteq Events /\ missed' \subseteq Events
  <2>1. /\ logged' \subseteq logged \cup {tx[r].event} /\ missed' \subseteq missed \cup {tx[r].event}
        /\ tx[r].event \in Events
    BY CommitFacts
  <2> QED
    BY <2>1 DEF Base, RowsTyped
<1>6. RowsTyped'
  BY <1>2, <1>3, <1>4, <1>5, CommitFacts DEF Base, RowsTyped, Quits
<1> QED
  BY <1>1, <1>6, CommitFacts, QuitsBase

\* The affiliate's place in the campaign changes, and nothing else.
Enrols == Invite \/ JoinCampaign \/ RemoveParticipant

LEMMA EnrolsFacts ==
  ASSUME Base, Enrols
  PROVE  /\ UNCHANGED <<sales, logged, bonuses, tx, missed, met>> /\ calls' \in 0..MaxCalls
         /\ member' \in [id : 0..MaxInvites, status : {"none", "invited", "active"}, awarded : BOOLEAN]
<1>1. /\ member \in [id : 0..MaxInvites, status : {"none", "invited", "active"}, awarded : BOOLEAN]
      /\ calls \in 0..MaxCalls /\ MaxCalls \in Nat /\ MaxInvites \in Nat
  BY IntakeConstants DEF Base, RowsTyped
<1>2. CASE Invite
  BY <1>1, <1>2 DEF Invite, Called
<1>3. CASE JoinCampaign
  BY <1>1, <1>3 DEF JoinCampaign
<1>4. CASE RemoveParticipant
  BY <1>1, <1>4 DEF RemoveParticipant, Called
<1> QED
  BY <1>2, <1>3, <1>4 DEF Enrols

LEMMA NextCases ==
  ASSUME Base, [Next]_vars
  PROVE  \/ \E r \in Requests, e \in Events : Deliver(r, e)
         \/ \E r \in Requests : Commit(r)
         \/ \E r \in Requests : Fail(r)
         \/ \E r \in Requests : \E u : Advances(r, u)
         \/ Enrols
         \/ UNCHANGED vars
<1>1. ASSUME NEW r \in Requests, Works(r) PROVE \E u : Advances(r, u)
  BY <1>1, WorkLeads
<1> QED
  BY <1>1 DEF Next, Works, Enrols

LEMMA BaseStep ==
  ASSUME Base, [Next]_vars
  PROVE  Base'
<1>1. ASSUME NEW r \in Requests, Fail(r) PROVE Base'
  <2>1. RowsTyped' /\ \A o \in Requests : o # r /\ tx[o].event # Null => Fits(tx[o], sales')
    BY <1>1, FailFacts DEF Base, RowsTyped, AllSound, TxOK, Stored
  <2> QED
    BY <1>1, <2>1, FailFacts, QuitsBase
<1>2. CASE Enrols
  <2>1. RowsTyped'
    BY <1>2, EnrolsFacts DEF Base, RowsTyped
  <2>2. tx' = tx /\ sales' = sales /\ met' = met
    BY <1>2, EnrolsFacts
  <2>3. AllSound'
    BY <2>2 DEF Base, AllSound
  <2>4. Apart' /\ Meeting'
    BY <2>2 DEF Base, Apart, Meeting, Related
  <2> QED
    BY <2>1, <2>3, <2>4 DEF Base
<1>3. CASE UNCHANGED vars
  <2>1. RowsTyped' /\ AllSound'
    BY <1>3 DEF vars, Base, RowsTyped, AllSound
  <2>2. Apart' /\ Meeting'
    BY <1>3 DEF vars, Base, Apart, Meeting, Related
  <2> QED
    BY <2>1, <2>2 DEF Base
<1> QED
  BY <1>1, <1>2, <1>3, NextCases, AdvancesBase, DeliverBase, CommitBase

LEMMA BaseCorrect == Spec => []Base
<1>1. Init => Base
  <2> SUFFICES ASSUME Init PROVE Base
    OBVIOUS
  <2>1. DOMAIN NoSales = {} /\ NoSales = [k \in DOMAIN NoSales |-> NoSales[k]]
    BY DEF NoSales
  <2>2. RowsTyped
    BY <2>1, FS_EmptySet, IntakeConstants DEF Init, RowsTyped, RowsOver
  <2>3. /\ Idle.event = Null /\ DOMAIN Idle.mine = {} /\ IsTx(Idle)
    BY <2>1 DEF Idle, IsTx
  <2>4. AllSound /\ Apart /\ Meeting
    BY <2>3 DEF Init, AllSound, TxOK, Apart, Meeting
  <2> QED
    BY <2>2, <2>4 DEF Base
<1>2. Base /\ [Next]_vars => Base'
  BY BaseStep
<1> QED
  BY <1>1, <1>2, PTL DEF Spec

\* Rows keep the shape of their tables, and a request reads and writes one sale at most, whatever
\* overlaps, fails or is repeated.
THEOREM TypeCorrect == Spec => []TypeOK
<1>1. Base => TypeOK
  <2> SUFFICES ASSUME Base PROVE TypeOK
    OBVIOUS
  <2>1. ASSUME NEW r \in Requests
        PROVE  /\ tx[r].event \in Events \cup {Null}
               /\ RowsOver(tx[r].seen) /\ \A k, l \in DOMAIN tx[r].seen : k = l
               /\ RowsOver(tx[r].mine) /\ \A k, l \in DOMAIN tx[r].mine : k = l
               /\ tx[r].place \in 0..MaxInvites /\ tx[r].bonus \in BOOLEAN
    <3>1. CASE tx[r].event # Null
      BY <3>1 DEF Base, AllSound, TxOK, Script, Single
    <3>2. CASE tx[r] = Idle
      <4>1. DOMAIN NoSales = {}
        BY DEF NoSales
      <4> QED
        BY <3>2, <4>1, IntakeConstants DEF Idle, RowsOver
    <3> QED
      BY <3>1, <3>2 DEF Base, AllSound, TxOK
  <2> QED
    BY <2>1 DEF TypeOK, Base, RowsTyped
<1> QED
  BY <1>1, BaseCorrect, PTL

----------------------------------------------------------------------------
(* One order is one sale.                                                  *)

\* The order events that would insert sale k; and two sales whose tellers overlapped.
Tellers(k) == {e \in About(k[2], "order") : Says[e].from = k[1]}
Rivals(k, l, m) == \E e \in Tellers(k), f \in Tellers(l) : {e, f} \in m

\* The request is going to insert a sale, or has inserted one.
Inserting(t, d) ==
  /\ t.event # Null /\ Says[t.event].about = "order"
  /\ t.at \in {"attribute", "insert"} \/ KeyOf(t.event) \in DOMAIN t.mine \ DOMAIN d

\* Of the sales there are of its order, all others came of requests that overlapped its sender's.
OnlyRivals(e, d, m) ==
  \A k \in DOMAIN d : k[2] = Says[e].order => k = KeyOf(e) \/ Rivals(k, KeyOf(e), m)

OneSale == \A k, l \in DOMAIN sales : k # l /\ k[2] = l[2] => Rivals(k, l, met)

SaleInv ==
  /\ OneSale
  /\ \A r \in Requests : Inserting(tx[r], sales) => OnlyRivals(tx[r].event, sales, met)

LEMMA RivalsSame ==
  ASSUME NEW k, NEW l, NEW m, NEW n, m \subseteq n, Rivals(k, l, m)
  PROVE  Rivals(k, l, n) /\ Rivals(l, k, n)
<1>1. PICK e \in Tellers(k), f \in Tellers(l) : {e, f} \in n
  BY DEF Rivals
<1>2. {f, e} \in n
  BY <1>1
<1> QED
  BY <1>1, <1>2 DEF Rivals

LEMMA RivalsOnly == OneSale <=> OneSalePerOrder
BY DEF OneSale, OneSalePerOrder, Overlapped, Rivals, Tellers

\* Two requests about one order that are open make their keys rivals.
LEMMA OpenRivals ==
  ASSUME Base, NEW r \in Requests, NEW o \in Requests, r # o,
         tx[r].event # Null, tx[o].event # Null,
         Says[tx[r].event].about = "order", Says[tx[o].event].about = "order",
         Says[tx[r].event].order = Says[tx[o].event].order
  PROVE  Rivals(KeyOf(tx[r].event), KeyOf(tx[o].event), met)
<1>1. {tx[r].event, tx[o].event} \in met
  BY DEF Base, Meeting, Related
<1>2. tx[r].event \in Events /\ tx[o].event \in Events
  BY DEF Base, AllSound, TxOK, Script
<1>3. tx[r].event \in Tellers(KeyOf(tx[r].event)) /\ tx[o].event \in Tellers(KeyOf(tx[o].event))
  BY <1>2 DEF Tellers, About, KeyOf
<1> QED
  BY <1>1, <1>3 DEF Rivals

\* A step that leaves the sales.
LEMMA SaleElsewhere ==
  ASSUME SaleInv, sales' = sales, met \subseteq met',
         \A r \in Requests : Inserting(tx'[r], sales) =>
           \/ Inserting(tx[r], sales) /\ tx'[r].event = tx[r].event
           \/ OnlyRivals(tx'[r].event, sales, met)
  PROVE  SaleInv'
<1>1. \A k, l : Rivals(k, l, met) => Rivals(k, l, met')
  BY RivalsSame
<1>2. \A k, l \in DOMAIN sales' : k # l /\ k[2] = l[2] => Rivals(k, l, met')
  BY <1>1 DEF SaleInv, OneSale
<1>3. \A e : OnlyRivals(e, sales, met) => OnlyRivals(e, sales', met')
  BY <1>1 DEF OnlyRivals
<1>4. \A r \in Requests : Inserting(tx'[r], sales') => OnlyRivals(tx'[r].event, sales', met')
  BY <1>3 DEF SaleInv
<1> QED
  BY <1>2, <1>4 DEF SaleInv, OneSale, Rivals, Tellers, Inserting, OnlyRivals, KeyOf

LEMMA SaleAdvances ==
  ASSUME Base, SaleInv, NEW r \in Requests, NEW u, Advances(r, u)
  PROVE  SaleInv'
<1>1. /\ DOMAIN tx = Requests /\ TxOK(tx[r], sales) /\ tx' = [tx EXCEPT ![r] = u]
      /\ tx[r].event # Null /\ UNCHANGED Stored /\ u.event = tx[r].event
      /\ tx'[r] = u /\ \A o \in Requests : o # r => tx'[o] = tx[o]
  BY WorkSound DEF Base, AllSound, Advances
<1>2. Script(tx[r]) /\ Fits(tx[r], sales)
  BY <1>1 DEF TxOK
<1>3. ASSUME Inserting(u, sales)
      PROVE  Inserting(tx[r], sales) \/ OnlyRivals(u.event, sales, met)
  <2>1. /\ Says[tx[r].event].about = "order"
        /\ u.at \in {"attribute", "insert"} \/ KeyOf(tx[r].event) \in DOMAIN u.mine \ DOMAIN sales
    BY <1>1, <1>3 DEF Inserting
  <2>2. CASE Finds(r, u)
    <3>1. DOMAIN u.mine = {} /\ u.at \notin {"attribute", "insert"}
      BY <1>2, <2>1, <2>2 DEF Finds, Saw, Script, At, Said, Event
    <3> QED
      BY <2>1, <3>1
  <2>3. CASE Misses(r, u)
    <3>1. Candidates(r) = {}
      BY <2>1, <2>3 DEF Misses, Said, Event
    <3>2. OnlyRivals(tx[r].event, sales, met)
      BY <3>1 DEF OnlyRivals, Candidates, Said, Event
    <3> QED
      BY <1>1, <3>2
  <2>4. CASE Attributes(r, u) \/ Inserts(r, u)
    BY <1>1, <2>1, <2>4 DEF Attributes, Inserts, Inserting, At
  <2>5. CASE Updates(r, u)
    <3>1. u.at = "commit" /\ \E k \in DOMAIN tx[r].seen : DOMAIN u.mine = {k}
      BY <2>5 DEF Updates, Wrote, Only
    <3> QED
      BY <1>2, <2>1, <3>1 DEF Fits
  <2>6. CASE Checks(r, u)
    BY <1>2, <2>1, <2>6 DEF Checks, Script
  <2>7. CASE Ponders(r, u)
    BY <1>1, <2>1, <2>7 DEF Ponders, Moved, Inserting
  <2> QED
    BY <2>2, <2>3, <2>4, <2>5, <2>6, <2>7 DEF Advances
<1>4. sales' = sales /\ met' = met
  BY <1>1 DEF Stored
<1> QED
  BY <1>1, <1>3, <1>4, SaleElsewhere

\* What a commit adds is the sale of the request's own key, if it inserted one.
LEMMA Added ==
  ASSUME Base, NEW r \in Requests, Commit(r), NEW k \in DOMAIN sales', k \notin DOMAIN sales
  PROVE  k = KeyOf(tx[r].event) /\ Inserting(tx[r], sales)
<1>1. k \in DOMAIN tx[r].mine /\ Fits(tx[r], sales) /\ tx[r].event # Null
  BY CommitFacts DEF Quits
<1> QED
  BY <1>1 DEF Fits, Inserting

LEMMA SaleCommit ==
  ASSUME Base, SaleInv, NEW r \in Requests, Commit(r)
  PROVE  SaleInv'
<1>1. /\ met' = met /\ DOMAIN sales \subseteq DOMAIN sales'
      /\ tx[r].event # Null /\ tx'[r] = Idle /\ \A o \in Requests : o # r => tx'[o] = tx[o]
  BY CommitFacts DEF Quits
<1>2. \A k, l : Rivals(k, l, met) => Rivals(k, l, met') /\ Rivals(l, k, met')
  BY <1>1, RivalsSame
<1>3. \A k \in DOMAIN sales' \ DOMAIN sales :
        k = KeyOf(tx[r].event) /\ Inserting(tx[r], sales) /\ k[2] = Says[tx[r].event].order
  BY Added DEF KeyOf
<1>4. ASSUME NEW k \in DOMAIN sales' \ DOMAIN sales, NEW l \in DOMAIN sales', k # l, k[2] = l[2]
      PROVE  Rivals(k, l, met') /\ Rivals(l, k, met')
  <2>1. l \in DOMAIN sales /\ OnlyRivals(tx[r].event, sales, met)
    BY <1>3, <1>4 DEF SaleInv
  <2> QED
    BY <1>2, <1>3, <1>4, <2>1 DEF OnlyRivals
<1>5. \A k, l \in DOMAIN sales' : k # l /\ k[2] = l[2] => Rivals(k, l, met')
  BY <1>2, <1>4 DEF SaleInv, OneSale
<1>6. ASSUME NEW o \in Requests, Inserting(tx'[o], sales')
      PROVE  OnlyRivals(tx'[o].event, sales', met')
  <2>1. o # r /\ tx'[o] = tx[o]
    BY <1>1, <1>6 DEF Inserting, Idle
  <2>2. Inserting(tx[o], sales)
    BY <1>1, <1>6, <2>1 DEF Inserting
  <2> DEFINE e == tx[o].event
  <2>3. ASSUME NEW k \in DOMAIN sales', k[2] = Says[e].order, k # KeyOf(e)
        PROVE  Rivals(k, KeyOf(e), met')
    <3>1. CASE k \in DOMAIN sales
      BY <1>2, <2>2, <2>3, <3>1 DEF SaleInv, OnlyRivals
    <3>2. CASE k \notin DOMAIN sales
      <4>1. k = KeyOf(tx[r].event) /\ Inserting(tx[r], sales) /\ k[2] = Says[tx[r].event].order
        BY <1>3, <3>2
      <4>2. Rivals(k, KeyOf(e), met)
        BY <1>1, <2>1, <2>2, <2>3, <4>1, OpenRivals DEF Inserting
      <4> QED
        BY <1>2, <4>2
    <3> QED
      BY <3>1, <3>2
  <2> QED
    BY <2>1, <2>3 DEF OnlyRivals
<1> QED
  BY <1>5, <1>6 DEF SaleInv, OneSale, Rivals, Tellers, Inserting, OnlyRivals, KeyOf

\* A request that is not open inserts nothing, nor does one that has just begun.
LEMMA SaleStep ==
  ASSUME Base, SaleInv, [Next]_vars
  PROVE  SaleInv'
<1>1. ASSUME NEW r \in Requests, NEW e \in Events, Deliver(r, e) PROVE SaleInv'
  <2>1. /\ sales' = sales /\ met \subseteq met' /\ tx'[r].at = "find" /\ tx'[r].mine = NoSales
        /\ \A o \in Requests : o # r => tx'[o] = tx[o]
    BY <1>1, DeliverFacts
  <2>2. ~Inserting(tx'[r], sales)
    BY <2>1 DEF Inserting, NoSales
  <2> QED
    BY <2>1, <2>2, SaleElsewhere
<1>2. ASSUME NEW r \in Requests, Fail(r) PROVE SaleInv'
  <2>1. /\ sales' = sales /\ met' = met /\ tx'[r] = Idle
        /\ \A o \in Requests : o # r => tx'[o] = tx[o]
    BY <1>2, FailFacts DEF Quits, Stored
  <2>2. ~Inserting(tx'[r], sales)
    BY <2>1 DEF Inserting, Idle
  <2> QED
    BY <2>1, <2>2, SaleElsewhere
<1>3. CASE Enrols \/ UNCHANGED vars
  <2>1. sales' = sales /\ met' = met /\ tx' = tx
    BY <1>3, EnrolsFacts DEF vars
  <2> QED
    BY <2>1, SaleElsewhere
<1> QED
  BY <1>1, <1>2, <1>3, NextCases, SaleAdvances, SaleCommit

\* One order is one sale, whatever reports it and however often (findByExternalId,
\* conversions.ts): two sales of it come only of two senders' requests that overlapped.
THEOREM OneSalePerOrderCorrect == Spec => []OneSalePerOrder
<1>1. Init => SaleInv
  BY DEF Init, SaleInv, OneSale, Inserting, Idle, NoSales
<1>2. Base /\ SaleInv /\ [Next]_vars => SaleInv'
  BY SaleStep
<1>3. SaleInv => OneSalePerOrder
  BY RivalsOnly DEF SaleInv
<1> QED
  BY <1>1, <1>2, <1>3, BaseCorrect, PTL DEF Spec

----------------------------------------------------------------------------
(* What was reported is found again.                                       *)

\* There is a sale for what f told, with the shop's id if the shop told it.
Recorded(f, d) ==
  \E k \in DOMAIN d : k[2] = Says[f].order /\ (Says[f].from = "shopify" => d[k].shopId)

LogHolds(lg, ms, d) ==
  \A f \in lg : Says[f].about = "order" =>
    /\ f \in ms \/ Recorded(f, d)
    /\ Says[f].claimed => \E k \in DOMAIN d : k[2] = Says[f].order

\* The shop's request leaves its id on the sale it wrote or found.
LeavesId(t, d) ==
  t.event # Null /\ Says[t.event].about = "order" /\ Says[t.event].from = "shopify" =>
    /\ \A k \in DOMAIN t.mine : t.mine[k].shopId
    /\ t.at = "commit" /\ DOMAIN t.mine = {} => \A k \in DOMAIN t.seen : d[k].shopId

\* A refund that found nothing: its sender's order was not recorded, or is at the same time.
InVain(t) ==
  /\ t.event # Null /\ Says[t.event].about = "refund" /\ t.at = "commit"
  /\ DOMAIN t.seen = {} /\ DOMAIN t.mine = {}

Unrecorded(e, lg, ms, m) ==
  \A f \in lg \cap About(Says[e].order, "order") :
    Says[f].from = Says[e].from => f \in ms \/ {e, f} \in m

FoundInv ==
  /\ LogHolds(logged, missed, sales)
  /\ \A r \in Requests :
       /\ LeavesId(tx[r], sales)
       /\ InVain(tx[r]) => Unrecorded(tx[r].event, logged, missed, met)

LEMMA FoundAdvances ==
  ASSUME Base, FoundInv, NEW r \in Requests, NEW u, Advances(r, u)
  PROVE  FoundInv'
<1>1. /\ DOMAIN tx = Requests /\ TxOK(tx[r], sales) /\ tx' = [tx EXCEPT ![r] = u]
      /\ tx[r].event # Null /\ UNCHANGED Stored /\ u.event = tx[r].event
      /\ tx'[r] = u /\ \A o \in Requests : o # r => tx'[o] = tx[o]
  BY WorkSound DEF Base, AllSound, Advances
<1>2. Script(tx[r]) /\ Fits(tx[r], sales) /\ LeavesId(tx[r], sales)
  BY <1>1 DEF TxOK, FoundInv
<1> DEFINE s == Says[tx[r].event]
<1>3. s \in EventType /\ Said(r) = s
  BY <1>1, NewSaleFacts
<1>4. LeavesId(u, sales)
  <2> SUFFICES ASSUME s.about = "order", s.from = "shopify"
               PROVE  /\ \A k \in DOMAIN u.mine : u.mine[k].shopId
                      /\ u.at = "commit" /\ DOMAIN u.mine = {} => \A k \in DOMAIN u.seen : sales[k].shopId
    BY <1>1 DEF LeavesId
  <2>1. CASE Finds(r, u)
    <3>1. DOMAIN tx[r].mine = {}
      BY <1>2, <2>1 DEF Finds, Script, At
    <3>2. PICK k \in Candidates(r) :
            /\ u.seen = Only(k, sales[k]) /\ u.mine = tx[r].mine
            /\ u.at = IF ~sales[k].shopId THEN "add id" ELSE "commit"
      BY <1>3, <2>1 DEF Finds, Saw
    <3>3. DOMAIN u.seen = {k}
      BY <3>2 DEF Only
    <3> QED
      BY <3>1, <3>2, <3>3
  <2>2. CASE Misses(r, u) \/ Attributes(r, u)
    <3>1. DOMAIN tx[r].mine = {} /\ DOMAIN tx[r].seen = {}
      BY <1>2, <2>2 DEF Misses, Attributes, Script, At
    <3> QED
      BY <2>2, <3>1 DEF Misses, Attributes, Moved
  <2>3. CASE Inserts(r, u)
    <3>1. u.mine = Only(OwnKey(r), NewSale(r)) /\ NewSale(r).shopId
      BY <1>1, <1>3, <2>3, NewSaleFacts DEF Inserts, Wrote
    <3>2. DOMAIN Only(OwnKey(r), NewSale(r)) = {OwnKey(r)}
          /\ Only(OwnKey(r), NewSale(r))[OwnKey(r)] = NewSale(r)
      BY OnlyFacts
    <3> QED
      BY <3>1, <3>2
  <2>4. CASE Updates(r, u)
    <3>1. At(r, "add id")
      BY <1>2, <2>4 DEF Updates, Script, At
    <3>2. PICK k, row : u.mine = Only(k, row) /\ row.shopId = TRUE
      BY <2>4, <3>1 DEF Updates, Wrote
    <3>3. DOMAIN Only(k, row) = {k} /\ Only(k, row)[k] = row
      BY OnlyFacts
    <3> QED
      BY <3>2, <3>3
  <2>5. CASE Checks(r, u)
    BY <1>2, <2>5 DEF Checks, Script
  <2>6. CASE Ponders(r, u)
    <3>1. DOMAIN tx[r].mine # {} /\ u.mine = tx[r].mine
      BY <1>2, <2>6 DEF Ponders, Moved, Script, At
    <3> QED
      BY <1>1, <1>2, <3>1 DEF LeavesId
  <2> QED
    BY <2>1, <2>2, <2>3, <2>4, <2>5, <2>6 DEF Advances
<1>5. ASSUME InVain(u) PROVE Unrecorded(u.event, logged, missed, met)
  <2>1. s.about = "refund" /\ DOMAIN u.seen = {} /\ DOMAIN u.mine = {} /\ u.at = "commit"
    BY <1>1, <1>5 DEF InVain
  <2>2. CASE Misses(r, u)
    <3> SUFFICES ASSUME NEW f \in logged \cap About(s.order, "order"), Says[f].from = s.from,
                        f \notin missed
                 PROVE  FALSE
      BY <1>1 DEF Unrecorded
    <3>1. Says[f].about = "order" /\ Says[f].order = s.order
      BY DEF About
    <3>2. PICK k \in DOMAIN sales :
            k[2] = Says[f].order /\ (Says[f].from = "shopify" => sales[k].shopId)
      BY <3>1 DEF FoundInv, LogHolds, Recorded
    <3>3. k \in Candidates(r)
      BY <1>3, <3>1, <3>2 DEF Candidates
    <3>4. \A q \in Candidates(r) : s.from = "shopify" /\ ~sales[q].shopId
      BY <1>3, <2>1, <2>2 DEF Misses
    <3> QED
      BY <3>2, <3>3, <3>4
  <2>3. CASE Finds(r, u) \/ Checks(r, u) \/ Updates(r, u)
    <3>1. CASE Finds(r, u)
      <4>1. \E k : u.seen = Only(k, sales[k])
        BY <3>1 DEF Finds, Saw
      <4> QED
        BY <2>1, <4>1, OnlyFacts DEF Only
    <3>2. CASE Checks(r, u)
      BY <1>2, <2>1, <3>2 DEF Checks, Saw, Script
    <3>3. CASE Updates(r, u)
      BY <2>1, <3>3 DEF Updates, Wrote, Only
    <3> QED
      BY <2>3, <3>1, <3>2, <3>3
  <2>4. CASE Attributes(r, u) \/ Inserts(r, u) \/ Ponders(r, u)
    BY <1>2, <2>1, <2>4 DEF Attributes, Inserts, Ponders, Script, At
  <2> QED
    BY <2>2, <2>3, <2>4 DEF Advances
<1>6. sales' = sales /\ logged' = logged /\ missed' = missed /\ met' = met
  BY <1>1 DEF Stored
<1> HIDE DEF s
<1>7. ASSUME NEW o \in Requests
      PROVE  /\ LeavesId(tx'[o], sales')
             /\ InVain(tx'[o]) => Unrecorded(tx'[o].event, logged', missed', met')
  <2>1. CASE o = r
    BY <1>1, <1>4, <1>5, <1>6, <2>1
  <2>2. CASE o # r
    BY <1>1, <1>6, <2>2 DEF FoundInv
  <2> QED
    BY <2>1, <2>2
<1>8. LogHolds(logged', missed', sales')
  BY <1>6 DEF FoundInv
<1> QED
  BY <1>7, <1>8 DEF FoundInv, LogHolds, Recorded, LeavesId, InVain, Unrecorded, About

\* A sale that has the shop's id keeps it.
LEMMA IdStays ==
  ASSUME Base, NEW r \in Requests, Commit(r), NEW k \in DOMAIN sales
  PROVE  k \in DOMAIN sales' /\ (sales[k].shopId => sales'[k].shopId)
<1>1. CASE k \in DOMAIN tx[r].mine
  <2>1. Fits(tx[r], sales) /\ sales'[k] = tx[r].mine[k] /\ k \in DOMAIN sales'
    BY <1>1, CommitFacts
  <2> QED
    BY <1>1, <2>1 DEF Fits, Keeps
<1>2. CASE k \notin DOMAIN tx[r].mine
  BY <1>2, CommitFacts
<1> QED
  BY <1>1, <1>2

LEMMA FoundCommit ==
  ASSUME Base, FoundInv, NEW r \in Requests, Commit(r)
  PROVE  FoundInv'
<1> DEFINE e == tx[r].event
<1>1. /\ e # Null /\ e \in Events /\ tx'[r] = Idle /\ \A o \in Requests : o # r => tx'[o] = tx[o]
      /\ met' = met /\ Script(tx[r]) /\ Fits(tx[r], sales) /\ tx[r].at = "commit"
      /\ DOMAIN sales' = DOMAIN sales \cup DOMAIN tx[r].mine
      /\ \A k \in DOMAIN tx[r].mine : sales'[k] = tx[r].mine[k]
      /\ logged' \subseteq logged \cup {e} /\ missed \subseteq missed'
      /\ e \notin missed' => DOMAIN tx[r].seen \cup DOMAIN tx[r].mine # {}
  BY CommitFacts DEF Quits
<1>2. \A k \in DOMAIN sales : k \in DOMAIN sales' /\ (sales[k].shopId => sales'[k].shopId)
  BY IdStays
<1>3. ASSUME Says[e].about = "order", NEW k \in DOMAIN tx[r].seen \cup DOMAIN tx[r].mine,
             DOMAIN tx[r].mine = {} \/ k \in DOMAIN tx[r].mine
      PROVE  k \in DOMAIN sales' /\ k[2] = Says[e].order
             /\ (Says[e].from = "shopify" => sales'[k].shopId)
  <2>1. k \in DOMAIN sales' /\ k[2] = Says[e].order
    BY <1>1, <1>3 DEF Script, Fits
  <2>2. LeavesId(tx[r], sales)
    BY DEF FoundInv
  <2>3. CASE k \in DOMAIN tx[r].mine
    BY <1>1, <1>3, <2>1, <2>2, <2>3 DEF LeavesId
  <2>4. CASE DOMAIN tx[r].mine = {}
    <3>1. k \in DOMAIN sales
      BY <1>1, <1>3, <2>4 DEF Fits
    <3> QED
      BY <1>1, <1>2, <1>3, <2>1, <2>2, <2>4, <3>1 DEF LeavesId
  <2> QED
    BY <1>3, <2>3, <2>4
<1>4. ASSUME Says[e].about = "order", DOMAIN tx[r].seen \cup DOMAIN tx[r].mine # {}
      PROVE  Recorded(e, sales') /\ \E k \in DOMAIN sales' : k[2] = Says[e].order
  <2>1. PICK k \in DOMAIN tx[r].seen \cup DOMAIN tx[r].mine :
          DOMAIN tx[r].mine = {} \/ k \in DOMAIN tx[r].mine
    BY <1>4
  <2> QED
    BY <1>3, <1>4, <2>1 DEF Recorded
<1>5. ASSUME NEW f \in logged', Says[f].about = "order"
      PROVE  /\ f \in missed' \/ Recorded(f, sales')
             /\ Says[f].claimed => \E k \in DOMAIN sales' : k[2] = Says[f].order
  <2>1. CASE f \in logged
    <3>1. Recorded(f, sales) => Recorded(f, sales')
      BY <1>2 DEF Recorded
    <3> QED
      BY <1>1, <1>2, <1>5, <2>1, <3>1 DEF FoundInv, LogHolds
  <2>2. CASE f = e
    <3>1. Says[e].claimed => DOMAIN tx[r].seen \cup DOMAIN tx[r].mine # {}
      BY <1>1, <1>5, <2>2 DEF Script
    <3> QED
      BY <1>1, <1>4, <1>5, <2>2, <3>1
  <2> QED
    BY <1>1, <2>1, <2>2
<1>6. ASSUME NEW o \in Requests
      PROVE  /\ LeavesId(tx'[o], sales')
             /\ InVain(tx'[o]) => Unrecorded(tx'[o].event, logged', missed', met')
  <2>1. CASE o = r
    BY <1>1, <2>1 DEF LeavesId, InVain, Idle
  <2>2. CASE o # r
    <3>1. tx'[o] = tx[o] /\ TxOK(tx[o], sales) /\ LeavesId(tx[o], sales)
          /\ (InVain(tx[o]) => Unrecorded(tx[o].event, logged, missed, met))
      BY <1>1, <2>2 DEF Base, AllSound, FoundInv
    <3>2. tx[o].event # Null => DOMAIN tx[o].seen \subseteq DOMAIN sales
      BY <3>1 DEF TxOK, Fits
    <3>3. LeavesId(tx[o], sales')
      BY <1>2, <3>1, <3>2 DEF LeavesId
    <3>4. ASSUME InVain(tx[o]), NEW f \in logged' \cap About(Says[tx[o].event].order, "order"),
                 Says[f].from = Says[tx[o].event].from
          PROVE  f \in missed' \/ {tx[o].event, f} \in met'
      <4>1. CASE f \in logged
        BY <1>1, <3>1, <3>4, <4>1 DEF Unrecorded
      <4>2. CASE f = e
        <5>1. Related(tx[o].event, e) /\ tx[o].event # Null
          BY <3>4, <4>2 DEF Related, About, InVain
        <5> QED
          BY <1>1, <2>2, <4>2, <5>1 DEF Base, Meeting
      <4> QED
        BY <1>1, <3>4, <4>1, <4>2
    <3> QED
      BY <3>1, <3>3, <3>4 DEF Unrecorded
  <2> QED
    BY <2>1, <2>2
<1>7. LogHolds(logged', missed', sales')
  BY <1>5 DEF LogHolds
<1> QED
  BY <1>6, <1>7 DEF FoundInv, LogHolds, Recorded, LeavesId, InVain, Unrecorded, About

\* A request that begins or ends without a commit, and steps of the campaign.
LEMMA FoundElsewhere ==
  ASSUME FoundInv, UNCHANGED <<sales, logged, missed>>, met \subseteq met',
         \A r \in Requests : tx'[r] = tx[r] \/ (DOMAIN tx'[r].mine = {} /\ tx'[r].at # "commit")
  PROVE  FoundInv'
<1>1. ASSUME NEW r \in Requests
      PROVE  /\ LeavesId(tx'[r], sales')
             /\ InVain(tx'[r]) => Unrecorded(tx'[r].event, logged', missed', met')
  <2>1. CASE tx'[r] = tx[r]
    BY <2>1 DEF FoundInv, Unrecorded
  <2>2. CASE DOMAIN tx'[r].mine = {} /\ tx'[r].at # "commit"
    BY <2>2 DEF LeavesId, InVain
  <2> QED
    BY <2>1, <2>2
<1>2. LogHolds(logged', missed', sales')
  BY DEF FoundInv
<1> QED
  BY <1>1, <1>2 DEF FoundInv, LogHolds, Recorded, LeavesId, InVain, Unrecorded, About

LEMMA FoundStep ==
  ASSUME Base, FoundInv, [Next]_vars
  PROVE  FoundInv'
<1>1. ASSUME NEW r \in Requests, NEW e \in Events, Deliver(r, e) PROVE FoundInv'
  <2>1. /\ UNCHANGED <<sales, logged, missed>> /\ met \subseteq met'
        /\ tx'[r].at = "find" /\ tx'[r].mine = NoSales
        /\ \A o \in Requests : o # r => tx'[o] = tx[o]
    BY <1>1, DeliverFacts
  <2> QED
    BY <2>1, FoundElsewhere DEF NoSales
<1>2. ASSUME NEW r \in Requests, Fail(r) PROVE FoundInv'
  <2>1. /\ UNCHANGED <<sales, logged, missed, met>> /\ tx'[r] = Idle
        /\ \A o \in Requests : o # r => tx'[o] = tx[o]
    BY <1>2, FailFacts DEF Quits, Stored
  <2>2. Idle.at # "commit" /\ DOMAIN Idle.mine = {}
    BY DEF Idle, NoSales
  <2> QED
    BY <2>1, <2>2, FoundElsewhere
<1>3. CASE Enrols \/ UNCHANGED vars
  <2>1. UNCHANGED <<sales, logged, missed, met, tx>>
    BY <1>3, EnrolsFacts DEF vars
  <2> QED
    BY <2>1, FoundElsewhere
<1> QED
  BY <1>1, <1>2, <1>3, NextCases, FoundAdvances, FoundCommit

LEMMA FoundCorrect == Spec => []FoundInv
<1>1. Init => FoundInv
  BY DEF Init, FoundInv, LogHolds, LeavesId, InVain, Idle
<1>2. Base /\ FoundInv /\ [Next]_vars => FoundInv'
  BY FoundStep
<1> QED
  BY <1>1, <1>2, BaseCorrect, PTL DEF Spec

\* A repeat is told an order was processed only if its sale is there, whatever failed half way
\* (orderSources.ts): the first half of LoggedIsDone.
THEOREM OrdersRecordedCorrect == Spec => []OrdersRecorded
<1>1. FoundInv => OrdersRecorded
  BY DEF FoundInv, LogHolds, OrdersRecorded, SalesCommitted
<1> QED
  BY <1>1, FoundCorrect, PTL

\* A refund comes to nothing only if its sender had not reported the order before, or does so at the
\* same time: once an order was processed with a sale, whoever recorded that sale, later refunds of
\* its sender find it, because the shop's id is added to a sale another recorded.
THEOREM RefundFindsSaleCorrect == Spec => RefundFindsSale
<1> DEFINE Vain(e) ==
       e \in missed' \ missed /\ Says[e].about = "refund" => Unrecorded(e, logged, missed, met)
<1>1. ASSUME Base, FoundInv, [Next]_vars, NEW e PROVE Vain(e)
  <2> SUFFICES ASSUME e \in missed' \ missed, Says[e].about = "refund"
               PROVE  Unrecorded(e, logged, missed, met)
    OBVIOUS
  <2>1. ASSUME NEW r \in Requests, Commit(r) PROVE Unrecorded(e, logged, missed, met)
    <3>1. missed' = (IF DOMAIN tx[r].seen \cup DOMAIN tx[r].mine = {}
                     THEN missed \cup {tx[r].event} ELSE missed)
          /\ tx[r].at = "commit" /\ tx[r].event # Null
      BY <1>1, <2>1, CommitFacts DEF Quits
    <3>2. e = tx[r].event /\ DOMAIN tx[r].seen = {} /\ DOMAIN tx[r].mine = {}
      BY <3>1
    <3>3. InVain(tx[r])
      BY <3>1, <3>2 DEF InVain
    <3> QED
      BY <1>1, <3>2, <3>3 DEF FoundInv
  <2>2. ASSUME NEW r \in Requests, NEW u, Advances(r, u) PROVE missed' = missed
    BY <2>2 DEF Advances, Stored
  <2>3. ASSUME NEW r \in Requests, Fail(r) PROVE missed' = missed
    BY <2>3 DEF Fail, Stored
  <2>4. ASSUME NEW r \in Requests, NEW f \in Events, Deliver(r, f) PROVE missed' = missed
    BY <2>4 DEF Deliver
  <2>5. CASE Enrols
    BY <1>1, <2>5, EnrolsFacts
  <2> QED
    BY <1>1, <2>1, <2>2, <2>3, <2>4, <2>5, NextCases DEF vars
<1>2. Base /\ FoundInv /\ [Next]_vars => [\A e : Vain(e)]_vars
  BY <1>1
<1>3. [\A e : Vain(e)]_vars =>
        [\A e \in missed' \ missed : Says[e].about = "refund" =>
           \A f \in logged \cap About(Says[e].order, "order") :
             Says[f].from = Says[e].from => f \in missed \/ {e, f} \in met]_vars
  BY DEF Unrecorded
<1> QED
  BY <1>2, <1>3, BaseCorrect, FoundCorrect, PTL DEF Spec, RefundFindsSale

----------------------------------------------------------------------------
(* Sums over a finite set, as SumFunctionOnSet takes them.                 *)

\* A non-empty set of naturals has a least member.
LEMMA LeastNumber ==
  ASSUME NEW T \in SUBSET Nat, T # {}
  PROVE  \E n \in T : \A m \in T : n <= m
<1>1. PICK n \in T : \A m \in T : ~ (<<m, n>> \in OpToRel(<, Nat))
  BY NatLessThanWellFounded, WFMin
<1>2. \A m \in T : m < n => <<m, n>> \in OpToRel(<, Nat)
  BY DEF OpToRel
<1>3. \A m \in T : ~(m < n)
  BY <1>1, <1>2
<1> QED
  BY <1>3

\* A non-empty set of subsets has a member that is in it with none of its points removed.
LEMMA SmallestSubset ==
  ASSUME NEW S, IsFiniteSet(S), NEW P \in SUBSET SUBSET S, P # {}
  PROVE  \E s \in P : \A x \in s : s \ {x} \notin P
<1>1. \A s \in P : IsFiniteSet(s) /\ Cardinality(s) \in Nat
  BY FS_Subset, FS_CardinalityType
<1>2. PICK n \in {Cardinality(s) : s \in P} : \A s \in P : n <= Cardinality(s)
  <2> DEFINE T == {Cardinality(s) : s \in P}
  <2>1. T \in SUBSET Nat /\ T # {}
    BY <1>1
  <2>2. \E n \in T : \A m \in T : n <= m
    <3> HIDE DEF T
    <3> QED
      BY <2>1, LeastNumber
  <2> QED
    BY <2>2
<1>3. PICK s \in P : n = Cardinality(s)
  BY <1>2
<1>4. \A x \in s : Cardinality(s \ {x}) = Cardinality(s) - 1
  BY <1>1, <1>3, FS_RemoveElement
<1> QED
  BY <1>1, <1>2, <1>3, <1>4

\* The point at which the recursion of SumFunctionOnSet takes a set apart.
Point(s) == CHOOSE x \in s : TRUE

LEMMA PointIn ==
  ASSUME NEW s, s # {}
  PROVE  Point(s) \in s
BY DEF Point

\* That recursion, on the sets of a family.
Sums(g, f, Family) ==
  g = [s \in Family |-> IF s = {} THEN 0 ELSE f[Point(s)] + g[s \ {Point(s)}]]

\* It can be followed down from every finite set.
LEMMA SumsExist ==
  ASSUME NEW f, NEW S, IsFiniteSet(S)
  PROVE  \E g : Sums(g, f, SUBSET S)
<1> DEFINE Small(n) == {s \in SUBSET S : Cardinality(s) <= n}
           T == {n \in Nat : ~\E g : Sums(g, f, Small(n))}
<1>1. \A s \in SUBSET S : IsFiniteSet(s) /\ Cardinality(s) \in Nat
  BY FS_Subset, FS_CardinalityType
<1>2. T = {}
  <2> SUFFICES ASSUME T # {} PROVE FALSE
    OBVIOUS
  <2>1. PICK n \in T : \A m \in T : n <= m
    <3>1. T \in SUBSET Nat
      OBVIOUS
    <3> HIDE DEF T
    <3> QED
      BY <3>1, LeastNumber
  <2>2. CASE n = 0
    <3> DEFINE g == [s \in Small(0) |-> 0]
    <3>1. \A s \in Small(0) : s = {}
      BY <1>1, FS_EmptySet
    <3>2. Sums(g, f, Small(0))
      BY <3>1 DEF Sums
    <3> QED
      BY <2>1, <2>2, <3>2
  <2>3. CASE n # 0
    <3>1. n \in Nat /\ n - 1 \in Nat /\ n - 1 \notin T
      <4>1. n \in Nat /\ n - 1 \in Nat /\ ~(n <= n - 1)
        BY <2>1, <2>3
      <4> HIDE DEF T
      <4> QED
        BY <2>1, <4>1
    <3>2. PICK g : Sums(g, f, Small(n - 1))
      BY <3>1
    <3> DEFINE h == [s \in Small(n) |->
                       IF s = {} THEN 0 ELSE f[Point(s)] + g[s \ {Point(s)}]]
    <3>3. ASSUME NEW s \in Small(n), s # {}
          PROVE  h[s \ {Point(s)}] = g[s \ {Point(s)}]
      <4> DEFINE t == s \ {Point(s)}
      <4>1. Cardinality(t) = Cardinality(s) - 1
        BY <1>1, <3>3, PointIn, FS_RemoveElement
      <4>2. t \in Small(n - 1) /\ t \in Small(n)
        BY <1>1, <3>1, <4>1
      <4>3. g[t] = IF t = {} THEN 0 ELSE f[Point(t)] + g[t \ {Point(t)}]
        <5> HIDE DEF t, Small
        <5> QED
          BY <3>2, <4>2 DEF Sums
      <4> QED
        BY <4>2, <4>3
    <3>4. h = [s \in Small(n) |-> IF s = {} THEN 0 ELSE f[Point(s)] + h[s \ {Point(s)}]]
      <4>1. \A s \in Small(n) :
              h[s] = IF s = {} THEN 0 ELSE f[Point(s)] + h[s \ {Point(s)}]
        BY <3>3
      <4> DEFINE hh == [s \in Small(n) |-> IF s = {} THEN 0 ELSE f[Point(s)] + h[s \ {Point(s)}]]
      <4> QED
        BY <4>1
    <3>5. Sums(h, f, Small(n))
      BY <3>4 DEF Sums
    <3> QED
      BY <2>1, <3>5
  <2> QED
    BY <2>2, <2>3
<1>3. Cardinality(S) \in Nat /\ Small(Cardinality(S)) = SUBSET S
  BY FS_Subset, FS_CardinalityType
<1> QED
  BY <1>2, <1>3

\* SumFunctionOnSet follows it.
LEMMA SumIsSums ==
  ASSUME NEW f, NEW S, IsFiniteSet(S)
  PROVE  \E g : Sums(g, f, SUBSET S) /\ SumFunctionOnSet(f, S) = g[S]
<1> DEFINE iter == CHOOSE g : Sums(g, f, SUBSET S)
<1>1. Sums(iter, f, SUBSET S)
  BY SumsExist
<1>2. SumFunctionOnSet(f, S) = iter[S]
  BY DEF SumFunctionOnSet, FoldFunctionOnSet, MapThenFoldSet, Sums, Point
<1> HIDE DEF iter
<1> QED
  BY <1>1, <1>2

\* A sum is a number, nothing sums up to zero, and any point may be counted first.
LEMMA SumOneFirst ==
  ASSUME NEW S, IsFiniteSet(S), NEW f, \A x \in S : f[x] \in Int
  PROVE  /\ SumFunctionOnSet(f, {}) = 0
         /\ \A T \in SUBSET S :
              /\ SumFunctionOnSet(f, T) \in Int
              /\ \A x \in T : SumFunctionOnSet(f, T) = f[x] + SumFunctionOnSet(f, T \ {x})
<1>1. PICK g : Sums(g, f, SUBSET S)
  BY SumsExist
<1>a. \A s \in SUBSET S : g[s] = IF s = {} THEN 0 ELSE f[Point(s)] + g[s \ {Point(s)}]
  BY <1>1 DEF Sums
<1>2. ASSUME NEW T \in SUBSET S
      PROVE  SumFunctionOnSet(f, T) = g[T]
  <2>1. IsFiniteSet(T)
    BY FS_Subset
  <2>2. PICK t : Sums(t, f, SUBSET T) /\ SumFunctionOnSet(f, T) = t[T]
    BY <2>1, SumIsSums
  <2>3. \A s \in SUBSET T : t[s] = IF s = {} THEN 0 ELSE f[Point(s)] + t[s \ {Point(s)}]
    BY <2>2 DEF Sums
  <2> DEFINE P == {s \in SUBSET T : t[s] # g[s]}
  <2>4. P = {}
    <3> SUFFICES ASSUME P # {} PROVE FALSE
      OBVIOUS
    <3>1. PICK s \in P : \A x \in s : s \ {x} \notin P
      <4>1. P \in SUBSET SUBSET T
        OBVIOUS
      <4> HIDE DEF P
      <4> QED
        BY <2>1, <4>1, SmallestSubset
    <3>2. s # {}
      BY <1>a, <2>3
    <3>3. t[s \ {Point(s)}] = g[s \ {Point(s)}]
      BY <3>1, <3>2, PointIn
    <3> QED
      BY <1>a, <2>3, <3>2, <3>3
  <2> QED
    BY <2>2, <2>4
<1>3. \A s \in SUBSET S : g[s] \in Int
  <2> DEFINE P == {s \in SUBSET S : g[s] \notin Int}
  <2> SUFFICES ASSUME P # {} PROVE FALSE
    OBVIOUS
  <2>1. PICK s \in P : \A x \in s : s \ {x} \notin P
    <3>1. P \in SUBSET SUBSET S
      OBVIOUS
    <3> HIDE DEF P
    <3> QED
      BY <3>1, SmallestSubset
  <2>2. s \in SUBSET S /\ g[s] \notin Int
    BY <2>1
  <2>3. s # {}
    BY <1>a, <2>2
  <2>4. Point(s) \in s /\ g[s \ {Point(s)}] \in Int
    BY <2>1, <2>3, PointIn
  <2>5. g[s] = f[Point(s)] + g[s \ {Point(s)}]
    BY <1>a, <2>2, <2>3
  <2>6. f[Point(s)] \in Int
    BY <2>2, <2>4
  <2> QED
    BY <2>2, <2>4, <2>5, <2>6
<1>4. \A s \in SUBSET S : \A x \in s : g[s] = f[x] + g[s \ {x}]
  <2> DEFINE P == {s \in SUBSET S : \E x \in s : g[s] # f[x] + g[s \ {x}]}
  <2> SUFFICES ASSUME P # {} PROVE FALSE
    OBVIOUS
  <2>1. PICK s \in P : \A x \in s : s \ {x} \notin P
    <3>1. P \in SUBSET SUBSET S
      OBVIOUS
    <3> HIDE DEF P
    <3> QED
      BY <3>1, SmallestSubset
  <2>2. PICK x \in s : g[s] # f[x] + g[s \ {x}]
    OBVIOUS
  <2> DEFINE c == Point(s)
  <2>3. c \in s /\ g[s] = f[c] + g[s \ {c}] /\ c # x
    BY <1>a, <2>2, PointIn
  <2> HIDE DEF c
  <2>4. g[s \ {c}] = f[x] + g[(s \ {c}) \ {x}]
    BY <2>1, <2>3
  <2>5. g[s \ {x}] = f[c] + g[(s \ {x}) \ {c}]
    BY <2>1, <2>3
  <2>6. (s \ {c}) \ {x} = (s \ {x}) \ {c}
    OBVIOUS
  <2>7. /\ f[x] \in Int /\ f[c] \in Int
        /\ (s \ {x}) \ {c} \in SUBSET S
    BY <2>2, <2>3
  <2> DEFINE rest == g[(s \ {x}) \ {c}]
  <2>8. rest \in Int
    BY <1>3, <2>7
  <2>9. g[s] = f[c] + (f[x] + rest) /\ g[s \ {x}] = f[c] + rest
    BY <2>3, <2>4, <2>5, <2>6
  <2> HIDE DEF rest
  <2> QED
    BY <2>2, <2>7, <2>8, <2>9
<1>5. SumFunctionOnSet(f, {}) = 0
  BY <1>2, <1>a
<1>6. \A T \in SUBSET S : \A x \in T : T \ {x} \in SUBSET S
  OBVIOUS
<1> QED
  BY <1>2, <1>3, <1>4, <1>5, <1>6

----------------------------------------------------------------------------
(* A sale shows what its refunds returned.                                 *)

\* Of what finitely many events tell, something is the most.
LEMMA LargestPart ==
  ASSUME NEW R \in SUBSET Events, IsFiniteSet(R)
  PROVE  \E m \in {0} \cup {Says[e].part : e \in R} :
           \A x \in {0} \cup {Says[e].part : e \in R} : m >= x
<1> DEFINE Parts(s) == {0} \cup {Says[e].part : e \in s}
           P == {s \in SUBSET R : ~\E m \in Parts(s) : \A x \in Parts(s) : m >= x}
<1>0. \A e \in R : Says[e].part \in Nat
  BY EventsAreReal DEF EventType
<1> SUFFICES ASSUME P # {} PROVE FALSE
  OBVIOUS
<1>1. PICK s \in P : \A e \in s : s \ {e} \notin P
  <2>1. P \in SUBSET SUBSET R
    OBVIOUS
  <2> HIDE DEF P
  <2> QED
    BY <2>1, SmallestSubset
<1>2. s \in SUBSET R /\ ~\E m \in Parts(s) : \A x \in Parts(s) : m >= x
  BY <1>1
<1>3. PICK e \in s : TRUE
  BY <1>2
<1>4. PICK m \in Parts(s \ {e}) : \A x \in Parts(s \ {e}) : m >= x
  BY <1>1, <1>2
<1>5. m \in Nat /\ Says[e].part \in Nat
  BY <1>0, <1>2, <1>4
<1>6. Parts(s) = Parts(s \ {e}) \cup {Says[e].part} /\ Parts(s) \subseteq Nat
  BY <1>0, <1>2
<1> HIDE DEF Parts, P
<1>7. CASE m >= Says[e].part
  BY <1>2, <1>4, <1>6, <1>7
<1>8. CASE ~(m >= Says[e].part)
  <2>1. \A x \in Parts(s) : Says[e].part >= x
    BY <1>4, <1>5, <1>6, <1>8
  <2> QED
    BY <1>2, <1>6, <2>1
<1> QED
  BY <1>7, <1>8

\* What refunds of one sender returned, and one of them more.
LEMMA OneMoreRefund ==
  ASSUME NEW R \in SUBSET Events, IsFiniteSet(R), NEW e \in Events, e \notin R,
         \A f \in R : Says[f].from = Says[e].from
  PROVE  LET part == Says[e].part IN
         /\ Returned({}) = 0 /\ Returned(R) \in Int /\ part \in Nat
         /\ Returned(R \cup {e}) = IF Says[e].from # "stripe" THEN Returned(R) + part
                                   ELSE IF Returned(R) >= part THEN Returned(R) ELSE part
<1> DEFINE parts == [f \in Events |-> Says[f].part]
           Parts(s) == {0} \cup {Says[f].part : f \in s}
           S == R \cup {e}
<1>1. /\ \A f \in Events : parts[f] \in Int /\ parts[f] = Says[f].part /\ Says[f].part \in Nat
      /\ IsFiniteSet(S) /\ S \in SUBSET Events
  BY EventsAreReal, FS_AddElement DEF EventType
<1>2. /\ SumFunctionOnSet(parts, {}) = 0 /\ SumFunctionOnSet(parts, R) \in Int
      /\ SumFunctionOnSet(parts, S) = parts[e] + SumFunctionOnSet(parts, R)
  <2>1. S \ {e} = R /\ R \in SUBSET S
    OBVIOUS
  <2>2. \A f \in S : parts[f] \in Int
    BY <1>1
  <2> HIDE DEF parts, S
  <2>3. e \in S
    BY DEF S
  <2> QED
    BY <1>1, <2>1, <2>2, <2>3, SumOneFirst
<1>3. ASSUME NEW s \in SUBSET S
      PROVE  Returned(s) = IF Says[e].from = "stripe" THEN Max(Parts(s)) + SumFunctionOnSet(parts, {})
                           ELSE Max(Parts({})) + SumFunctionOnSet(parts, s)
  <2> DEFINE sofar == {f \in s : Says[f].from = "stripe"}
  <2>1. Returned(s) = Max(Parts(sofar)) + SumFunctionOnSet(parts, s \ sofar)
    BY DEF Returned
  <2>2. CASE Says[e].from = "stripe"
    <3>1. sofar = s /\ s \ sofar = {}
      BY <1>3, <2>2
    <3> QED
      BY <2>1, <2>2, <3>1
  <2>3. CASE Says[e].from # "stripe"
    <3>1. sofar = {} /\ s \ sofar = s
      BY <1>3, <2>3
    <3> QED
      BY <2>1, <2>3, <3>1
  <2> QED
    BY <2>2, <2>3
<1>4. ASSUME NEW s \in SUBSET S
      PROVE  Max(Parts(s)) \in Parts(s) /\ \A x \in Parts(s) : Max(Parts(s)) >= x
  <2>1. s \in SUBSET Events /\ IsFiniteSet(s)
    BY <1>1, FS_Subset
  <2>2. \E m \in Parts(s) : \A x \in Parts(s) : m >= x
    BY <2>1, LargestPart
  <2> QED
    BY <2>2 DEF Max
<1>5. Max(Parts({})) = 0
  <2>1. {} \in SUBSET S /\ Parts({}) = {0}
    OBVIOUS
  <2>2. Max(Parts({})) \in Parts({})
    BY <1>4, <2>1
  <2> QED
    BY <2>1, <2>2
<1>6. /\ Max(Parts(R)) \in Nat
      /\ Max(Parts(S)) = IF Max(Parts(R)) >= Says[e].part THEN Max(Parts(R)) ELSE Says[e].part
  <2>1. Parts(S) = Parts(R) \cup {Says[e].part} /\ Parts(S) \subseteq Nat
    BY <1>1
  <2>2. /\ Max(Parts(R)) \in Parts(R) /\ \A x \in Parts(R) : Max(Parts(R)) >= x
        /\ Max(Parts(S)) \in Parts(S) /\ \A x \in Parts(S) : Max(Parts(S)) >= x
    BY <1>4
  <2>3. Says[e].part \in Nat
    BY <1>1
  <2> DEFINE m == Max(Parts(R))
             n == Max(Parts(S))
  <2>4. /\ m \in Nat /\ n \in Nat /\ (n = Says[e].part \/ m >= n)
        /\ n >= m /\ n >= Says[e].part
    <3> HIDE DEF Parts
    <3> QED
      BY <2>1, <2>2
  <2> HIDE DEF m, n, Parts, S
  <2>5. m \in Nat /\ n = IF m >= Says[e].part THEN m ELSE Says[e].part
    BY <2>3, <2>4
  <2> QED
    BY <2>5 DEF m, n
<1>7. Returned({}) = 0
  BY <1>2, <1>3, <1>5
<1>8. CASE Says[e].from = "stripe"
  <2>1. R \in SUBSET S /\ S \in SUBSET S
    OBVIOUS
  <2>2. Returned(R) = Max(Parts(R)) /\ Returned(S) = Max(Parts(S))
    <3>1. Max(Parts(R)) \in Nat /\ Max(Parts(S)) \in Nat
      BY <1>1, <1>6
    <3>2. /\ Returned(R) = Max(Parts(R)) + SumFunctionOnSet(parts, {})
          /\ Returned(S) = Max(Parts(S)) + SumFunctionOnSet(parts, {})
      BY <1>3, <1>8, <2>1
    <3> HIDE DEF Parts, parts, S
    <3> QED
      BY <1>2, <3>1, <3>2
  <2> HIDE DEF Parts
  <2> QED
    BY <1>1, <1>6, <1>7, <1>8, <2>2
<1>9. CASE Says[e].from # "stripe"
  BY <1>1, <1>2, <1>3, <1>5, <1>7, <1>9
<1> QED
  BY <1>8, <1>9

Refunds(order) == About(order, "refund")

\* Nothing speaks against sale k: it is the only one of its order, whose refunds all found it and
\* did not overlap.
Quiet(k, d, ms, m) ==
  /\ {q \in DOMAIN d : q[2] = k[2]} = {k}
  /\ Refunds(k[2]) \cap ms = {}
  /\ \A e, f \in Refunds(k[2]) : {e, f} \notin m

\* What a sale of the order has returned by lg, and will have by t's event.
Sofar(order, lg) == Returned(lg \cap Refunds(order))
Now(order, lg, t) == Returned((lg \cap Refunds(order)) \cup {t.event})

\* A refund has the sale as it is, until it has worked out what the sale will have returned.
Refunding(t, d, lg, ms, m) ==
  t.event # Null /\ Says[t.event].about = "refund" =>
    \A k \in DOMAIN d : Quiet(k, d, ms, m) /\ k[2] = Says[t.event].order =>
      /\ k \in DOMAIN t.seen /\ t.at = "check refund" => t.seen[k].refunded = d[k].refunded
      /\ k \in DOMAIN t.seen /\ t.at = "refund" => t.seen[k].refunded = Now(k[2], lg, t)
      /\ k \in DOMAIN t.seen /\ t.at = "commit" /\ DOMAIN t.mine = {} =>
           d[k].status = "cancelled" \/ d[k].refunded = Now(k[2], lg, t)
      /\ k \in DOMAIN t.mine => t.mine[k].refunded = Now(k[2], lg, t)

\* Other events leave what a sale has returned.
NotRefunding(t, d) ==
  t.event # Null /\ Says[t.event].about # "refund" =>
    \A k \in DOMAIN t.mine :
      IF k \in DOMAIN d
      THEN t.mine[k].refunded = d[k].refunded /\ t.mine[k].status \in {d[k].status, "cancelled"}
      ELSE t.mine[k].refunded = 0

\* An event with a key of its own in the log is handled once.
HandledOnce ==
  \A r \in Requests : tx[r].event # Null /\ Says[tx[r].event].from # "pixel" =>
    tx[r].event \notin logged /\ \A o \in Requests : o # r => tx[o].event # tx[r].event

RefundInv ==
  /\ IsFiniteSet(logged) /\ HandledOnce
  /\ \A e \in logged : Says[e].about = "refund" =>
       e \in missed \/ \E k \in DOMAIN sales : k[2] = Says[e].order
  /\ \A k \in DOMAIN sales : Quiet(k, sales, missed, met) =>
       sales[k].status = "cancelled" \/ sales[k].refunded = Sofar(k[2], logged)
  /\ \A r \in Requests :
       Refunding(tx[r], sales, logged, missed, met) /\ NotRefunding(tx[r], sales)

\* What a refund asks for is what its event says the sale is to have returned.
LEMMA Asking ==
  ASSUME NEW r, NEW after \in Int, after <= Amount, Copy(r) \in Row, Current(r) \in Row,
         Copy(r).refunded = Current(r).refunded, Current(r).status # "cancelled",
         Said(r).part \in Nat,
         after = IF Said(r).from # "stripe" THEN Current(r).refunded + Said(r).part
                 ELSE IF Current(r).refunded >= Said(r).part THEN Current(r).refunded
                 ELSE Said(r).part
  PROVE  IF MayRefund(r) THEN Returning(r).refunded = after ELSE Current(r).refunded = after
<1> DEFINE c == Current(r).refunded
           part == Said(r).part
<1>1. /\ c \in Nat /\ c <= Amount /\ Amount \in Nat /\ part \in Nat /\ Copy(r).refunded = c
      /\ Current(r).status \in Refundable
  BY IntakeConstants DEF Row, Refundable
<1>2. DueBack(r) = after - c
  <2>1. 0 \in Int /\ part - c \in Int
    BY <1>1
  <2>2. Max({0, part - c}) = IF 0 >= part - c THEN 0 ELSE part - c
    BY <2>1, MinOfTwo
  <2>3. DueBack(r) = IF Said(r).from = "stripe" THEN Max({0, part - c}) ELSE part
    BY <1>1 DEF DueBack
  <2>4. after = IF Said(r).from # "stripe" THEN c + part ELSE IF c >= part THEN c ELSE part
    OBVIOUS
  <2> HIDE DEF c, part
  <2> QED
    BY <1>1, <2>2, <2>3, <2>4
<1>3. Asked(r) = after - c
  <2>1. after - c \in Int /\ Amount - c \in Int /\ after - c <= Amount - c
    BY <1>1
  <2>2. Min({after - c, Amount - c}) = after - c
    BY <2>1, MinOfTwo
  <2> QED
    BY <1>1, <1>2, <2>2 DEF Asked
<1>4. after >= c
  BY <1>1
<1>5. MayRefund(r) <=> after > c
  <2>1. MayRefund(r) <=> after - c > 0 /\ after - c <= Amount - c
    BY <1>1, <1>3 DEF MayRefund
  <2> HIDE DEF c
  <2> QED
    BY <1>1, <2>1
<1>6. Returning(r).refunded = after
  <2>1. Returning(r).refunded = c + Asked(r)
    <3>1. \A row \in Row, n \in Int : [row EXCEPT !.refunded = n].refunded = n
      BY DEF Row
    <3>2. c + Asked(r) \in Int
      BY <1>1, <1>3
    <3> QED
      BY <3>1, <3>2 DEF Returning
  <2>2. Returning(r).refunded = c + (after - c) /\ c \in Int
    BY <1>1, <1>3, <2>1
  <2>3. \A x, y \in Int : y + (x - y) = x
    OBVIOUS
  <2> QED
    BY <2>2, <2>3
<1> HIDE DEF c
<1> QED
  BY <1>1, <1>4, <1>5, <1>6 DEF c

\* What the sale of an open refund will have returned, by what it has returned so far.
LEMMA RefundDue ==
  ASSUME RefundsAddUp, Base, RefundInv, NEW r \in Requests, tx[r].event # Null,
         Said(r).about = "refund"
  PROVE  LET so == Sofar(Said(r).order, logged)
             now == Now(Said(r).order, logged, tx[r])
         IN  /\ now \in Int /\ now <= Amount /\ Said(r).part \in Nat
             /\ now = IF Said(r).from # "stripe" THEN so + Said(r).part
                      ELSE IF so >= Said(r).part THEN so ELSE Said(r).part
<1> DEFINE e == tx[r].event
           R == logged \cap Refunds(Said(r).order)
<1>1. /\ e \in Events /\ Said(r) = Says[e] /\ Said(r) \in EventType /\ Said(r).order \in Orders
      /\ logged \subseteq Events
  BY NewSaleFacts DEF Base, AllSound, TxOK, Script, RowsTyped, EventType
<1>2. e \in Refunds(Said(r).order)
  BY <1>1 DEF Refunds, About
<1>3. /\ \A f, g \in Refunds(Said(r).order) : Says[f].from = Says[g].from /\ Says[f].from # "pixel"
      /\ \A some \in SUBSET Refunds(Said(r).order) : IsFiniteSet(some) => Returned(some) <= Amount
  BY <1>1 DEF RefundsAddUp, Refunds
<1>4. e \notin R
  BY <1>1, <1>2, <1>3 DEF RefundInv, HandledOnce
<1>5. R \in SUBSET Events /\ IsFiniteSet(R) /\ IsFiniteSet(R \cup {e})
  <2>1. R \in SUBSET logged /\ IsFiniteSet(logged)
    BY DEF RefundInv
  <2>2. R \in SUBSET Events
    BY <1>1
  <2> HIDE DEF R, e
  <2>3. IsFiniteSet(R)
    BY <2>1, FS_Subset
  <2> QED
    BY <2>2, <2>3, FS_AddElement
<1>6. \A f \in R : Says[f].from = Says[e].from
  BY <1>2, <1>3
<1>7. Returned(R \cup {e}) <= Amount
  BY <1>2, <1>3, <1>5
<1>8. Sofar(Said(r).order, logged) = Returned(R) /\ Now(Said(r).order, logged, tx[r]) = Returned(R \cup {e})
  BY DEF Sofar, Now
<1> HIDE DEF R, e
<1>9. /\ Returned(R) \in Int /\ Says[e].part \in Nat
      /\ Returned(R \cup {e}) = IF Says[e].from # "stripe" THEN Returned(R) + Says[e].part
                                ELSE IF Returned(R) >= Says[e].part THEN Returned(R)
                                ELSE Says[e].part
  BY <1>1, <1>4, <1>5, <1>6, OneMoreRefund
<1>10. Returned(R \cup {e}) \in Int
  BY <1>9
<1> QED
  BY <1>1, <1>7, <1>8, <1>9, <1>10

LEMMA RefundAdvances ==
  ASSUME RefundsAddUp, Base, RefundInv, NEW r \in Requests, NEW u, Advances(r, u)
  PROVE  RefundInv'
<1>1. /\ DOMAIN tx = Requests /\ TxOK(tx[r], sales) /\ tx' = [tx EXCEPT ![r] = u]
      /\ tx[r].event # Null /\ UNCHANGED Stored /\ u.event = tx[r].event
      /\ tx'[r] = u /\ \A o \in Requests : o # r => tx'[o] = tx[o]
  BY WorkSound DEF Base, AllSound, Advances
<1>2. /\ Script(tx[r]) /\ Fits(tx[r], sales)
      /\ Refunding(tx[r], sales, logged, missed, met) /\ NotRefunding(tx[r], sales)
  BY <1>1 DEF TxOK, RefundInv
<1> DEFINE s == Says[tx[r].event]
<1>3. s \in EventType /\ Said(r) = s
  BY <1>1, NewSaleFacts
<1>4. ASSUME s.about = "refund", NEW k \in DOMAIN sales, Quiet(k, sales, missed, met),
             k[2] = s.order
      PROVE  /\ k \in DOMAIN u.seen /\ u.at = "check refund" => u.seen[k].refunded = sales[k].refunded
             /\ k \in DOMAIN u.seen /\ u.at = "refund" => u.seen[k].refunded = Now(k[2], logged, u)
             /\ k \in DOMAIN u.seen /\ u.at = "commit" /\ DOMAIN u.mine = {} =>
                  sales[k].status = "cancelled" \/ sales[k].refunded = Now(k[2], logged, u)
             /\ k \in DOMAIN u.mine => u.mine[k].refunded = Now(k[2], logged, u)
  <2>1. Now(k[2], logged, u) = Now(k[2], logged, tx[r])
    BY <1>1 DEF Now
  <2>2. CASE Finds(r, u)
    <3>1. DOMAIN tx[r].mine = {}
      BY <1>2, <2>2 DEF Finds, Script, At
    <3>2. PICK q \in Candidates(r) :
            u.seen = Only(q, sales[q]) /\ u.mine = tx[r].mine /\ u.at = "check refund"
      BY <1>3, <1>4, <2>2 DEF Finds, Saw
    <3>3. DOMAIN u.seen = {q} /\ u.seen[q] = sales[q]
      BY <3>2 DEF Only
    <3> QED
      BY <3>1, <3>2, <3>3
  <2>3. CASE Misses(r, u)
    BY <1>2, <2>3 DEF Misses, Moved, Script, At
  <2>4. CASE Checks(r, u)
    <3>1. At(r, "check refund") /\ DOMAIN tx[r].mine = {} /\ DOMAIN tx[r].seen # {}
          /\ u.mine = tx[r].mine
      BY <1>2, <1>4, <2>4 DEF Checks, Saw, Script, At
    <3>2. /\ SeenKey(r) \in DOMAIN tx[r].seen /\ DOMAIN tx[r].seen = {SeenKey(r)}
          /\ Copy(r) \in Row /\ Current(r) = sales[SeenKey(r)] /\ Current(r) \in Row
      BY <1>1, <3>1, Reading
    <3>3. \/ MayRefund(r) /\ u.at = "refund" /\ u.seen = Only(SeenKey(r), Returning(r))
          \/ ~MayRefund(r) /\ u.at = "commit" /\ u.seen = tx[r].seen
      BY <2>4, <3>1 DEF Checks
    <3>4. CASE k # SeenKey(r)
      <4>1. k \notin DOMAIN u.seen
        BY <3>2, <3>3, <3>4 DEF Only
      <4> QED
        BY <3>1, <4>1
    <3>5. CASE k = SeenKey(r)
      <4>1. Copy(r).refunded = Current(r).refunded
        BY <1>1, <1>2, <1>4, <3>1, <3>2, <3>5 DEF Refunding, Copy, At
      <4>2. MayRefund(r) => Current(r).status # "cancelled"
        BY DEF MayRefund, Refundable
      <4>3. CASE Current(r).status = "cancelled"
        BY <3>1, <3>2, <3>3, <3>5, <4>2, <4>3
      <4>4. CASE Current(r).status # "cancelled"
        <5>1. sales[k].refunded = Sofar(Said(r).order, logged)
          BY <1>3, <1>4, <3>2, <3>5, <4>4 DEF RefundInv
        <5>2. IF MayRefund(r) THEN Returning(r).refunded = Now(k[2], logged, tx[r])
              ELSE Current(r).refunded = Now(k[2], logged, tx[r])
          BY <1>1, <1>3, <1>4, <3>2, <3>5, <4>1, <4>4, <5>1, RefundDue, Asking
        <5>3. MayRefund(r) => u.seen[k] = Returning(r)
          BY <3>3, <3>5 DEF Only
        <5> QED
          BY <2>1, <3>1, <3>2, <3>3, <3>5, <5>2, <5>3
      <4> QED
        BY <4>3, <4>4
    <3> QED
      BY <3>4, <3>5
  <2>5. CASE Updates(r, u)
    <3>1. At(r, "refund") /\ u.at = "commit"
      BY <1>2, <1>4, <2>5 DEF Updates, Script, At
    <3>2. PICK q \in DOMAIN tx[r].seen, row \in Row :
            u.mine = Only(q, row) /\ row.refunded = tx[r].seen[q].refunded
      BY <2>5, <3>1 DEF Updates, Wrote
    <3>3. DOMAIN u.mine = {q} /\ u.mine[q] = row
      BY <3>2 DEF Only
    <3> QED
      BY <1>1, <1>2, <1>4, <2>1, <3>1, <3>2, <3>3 DEF Refunding, At
  <2>6. CASE Attributes(r, u) \/ Inserts(r, u) \/ Ponders(r, u)
    BY <1>2, <1>4, <2>6 DEF Attributes, Inserts, Ponders, Script, At
  <2> QED
    BY <1>1, <2>2, <2>3, <2>4, <2>5, <2>6 DEF Advances
<1>5. ASSUME s.about # "refund", NEW k \in DOMAIN u.mine
      PROVE  IF k \in DOMAIN sales
             THEN /\ u.mine[k].refunded = sales[k].refunded
                  /\ u.mine[k].status \in {sales[k].status, "cancelled"}
             ELSE u.mine[k].refunded = 0
  <2>1. CASE u.mine = tx[r].mine
    BY <1>1, <1>2, <1>5, <2>1 DEF NotRefunding
  <2>2. CASE Inserts(r, u)
    <3>1. u.mine = Only(OwnKey(r), NewSale(r)) /\ OwnKey(r) \notin DOMAIN sales
      BY <2>2 DEF Inserts, Wrote
    <3>2. k = OwnKey(r) /\ u.mine[k] = NewSale(r)
      BY <1>5, <3>1 DEF Only
    <3>3. NewSale(r).refunded = 0
      BY DEF NewSale
    <3> QED
      BY <3>1, <3>2, <3>3
  <2>3. CASE Updates(r, u)
    <3>1. tx[r].at \in {"add id", "cancel"}
      BY <1>2, <1>5, <2>3 DEF Updates, Script, At
    <3>2. PICK q \in DOMAIN tx[r].seen, row \in Row :
            /\ u.mine = Only(q, row) /\ row.refunded = sales[q].refunded
            /\ row.status \in {sales[q].status, "cancelled"}
      BY <2>3, <3>1 DEF Updates, Wrote, At
    <3>3. DOMAIN u.mine = {q} /\ u.mine[q] = row /\ q \in DOMAIN sales
      BY <1>2, <3>2 DEF Only, Fits
    <3> QED
      BY <1>5, <3>2, <3>3
  <2>4. CASE Finds(r, u) \/ Misses(r, u) \/ Attributes(r, u) \/ Checks(r, u) \/ Ponders(r, u)
    <3>1. u.mine = tx[r].mine
      BY <2>4 DEF Finds, Misses, Attributes, Checks, Ponders, Saw, Moved
    <3> QED
      BY <2>1, <3>1
  <2> QED
    BY <1>1, <2>2, <2>3, <2>4 DEF Advances
<1>6. Refunding(u, sales, logged, missed, met) /\ NotRefunding(u, sales)
  BY <1>1, <1>4, <1>5 DEF Refunding, NotRefunding
<1>7. sales' = sales /\ logged' = logged /\ missed' = missed /\ met' = met
  BY <1>1 DEF Stored
<1> HIDE DEF s
<1>8. \A o \in Requests : tx'[o].event = tx[o].event
  BY <1>1
<1>9. HandledOnce'
  BY <1>7, <1>8 DEF RefundInv, HandledOnce
<1>10. ASSUME NEW o \in Requests
       PROVE  Refunding(tx'[o], sales', logged', missed', met') /\ NotRefunding(tx'[o], sales')
  BY <1>1, <1>6, <1>7 DEF RefundInv
<1> QED
  BY <1>7, <1>9, <1>10 DEF RefundInv, Quiet, Sofar, Now, Refunding, NotRefunding, Refunds, About,
                           Returned

\* A commit that refunds nothing of a sale's order leaves what the sale has returned.
LEMMA Unrefunded ==
  ASSUME Base, RefundInv, NEW r \in Requests, Commit(r), NEW k \in DOMAIN sales,
         Says[tx[r].event].about # "refund" \/ k[2] # Says[tx[r].event].order
  PROVE  /\ sales'[k].refunded = sales[k].refunded
         /\ sales[k].status = "cancelled" => sales'[k].status = "cancelled"
         /\ logged' \cap Refunds(k[2]) = logged \cap Refunds(k[2])
<1>1. /\ Script(tx[r]) /\ tx[r].event # Null /\ NotRefunding(tx[r], sales)
      /\ k \in DOMAIN tx[r].mine => sales'[k] = tx[r].mine[k]
      /\ k \notin DOMAIN tx[r].mine => sales'[k] = sales[k]
      /\ logged \subseteq logged' /\ logged' \subseteq logged \cup {tx[r].event}
  BY CommitFacts DEF Quits, RefundInv
<1>2. logged' \cap Refunds(k[2]) = logged \cap Refunds(k[2])
  BY <1>1 DEF Refunds, About
<1>3. CASE k \in DOMAIN tx[r].mine
  <2>1. Says[tx[r].event].about # "refund"
    BY <1>1, <1>3 DEF Script
  <2> QED
    BY <1>1, <1>2, <1>3, <2>1 DEF NotRefunding
<1>4. CASE k \notin DOMAIN tx[r].mine
  BY <1>1, <1>2, <1>4
<1> QED
  BY <1>3, <1>4

\* A sale that is quiet after a commit was so before.
LEMMA QuietBefore ==
  ASSUME Base, NEW r \in Requests, Commit(r), NEW k \in DOMAIN sales,
         Quiet(k, sales', missed', met')
  PROVE  Quiet(k, sales, missed, met)
BY CommitFacts DEF Quits, Quiet

\* A sale that a commit adds has returned nothing: a refund logged before it missed it, or found a
\* sale that is still there.
LEMMA AddedUnrefunded ==
  ASSUME Base, RefundInv, NEW r \in Requests, Commit(r), NEW k \in DOMAIN sales',
         k \notin DOMAIN sales, Quiet(k, sales', missed', met')
  PROVE  sales'[k].refunded = 0 /\ logged' \cap Refunds(k[2]) = {}
<1> DEFINE e == tx[r].event
<1>1. /\ k \in DOMAIN tx[r].mine /\ sales'[k] = tx[r].mine[k] /\ e # Null
      /\ NotRefunding(tx[r], sales) /\ Fits(tx[r], sales)
      /\ logged' \subseteq logged \cup {e} /\ DOMAIN sales \subseteq DOMAIN sales'
      /\ missed \subseteq missed'
  BY CommitFacts DEF Quits, RefundInv
<1>2. Says[e].about = "order"
  BY <1>1 DEF Fits
<1>3. sales'[k].refunded = 0
  BY <1>1, <1>2 DEF NotRefunding
<1>4. ASSUME NEW f \in logged' \cap Refunds(k[2]) PROVE FALSE
  <2>1. f \in logged /\ Says[f].about = "refund" /\ Says[f].order = k[2]
    BY <1>1, <1>2, <1>4 DEF Refunds, About
  <2>2. f \notin missed
    BY <1>1, <1>4 DEF Quiet
  <2>3. PICK q \in DOMAIN sales : q[2] = k[2]
    BY <2>1, <2>2 DEF RefundInv
  <2> QED
    BY <1>1, <2>3 DEF Quiet
<1> QED
  BY <1>3, <1>4

\* A refund's commit leaves the sale with what its event says it is to have returned.
LEMMA RefundLands ==
  ASSUME RefundsAddUp, Base, RefundInv, NEW r \in Requests, Commit(r),
         Says[tx[r].event].about = "refund", NEW k \in DOMAIN sales,
         k[2] = Says[tx[r].event].order, Quiet(k, sales', missed', met')
  PROVE  sales'[k].status = "cancelled" \/ sales'[k].refunded = Sofar(k[2], logged')
<1> DEFINE e == tx[r].event
<1>1. /\ Script(tx[r]) /\ Fits(tx[r], sales) /\ e # Null /\ e \in Events /\ tx[r].at = "commit"
      /\ Refunding(tx[r], sales, logged, missed, met)
      /\ k \in DOMAIN tx[r].mine => sales'[k] = tx[r].mine[k]
      /\ k \notin DOMAIN tx[r].mine => sales'[k] = sales[k]
      /\ logged' = IF Says[e].from = "pixel" THEN logged ELSE logged \cup {e}
      /\ DOMAIN tx[r].seen \cup DOMAIN tx[r].mine = {} => e \in missed'
  BY CommitFacts DEF Quits, RefundInv
<1>2. Quiet(k, sales, missed, met)
  BY QuietBefore
<1>3. e \in Refunds(k[2]) /\ k[2] \in Orders
  BY <1>1, EventsAreReal DEF Refunds, About, EventType
<1>4. Says[e].from # "pixel"
  BY <1>3 DEF RefundsAddUp, Refunds
<1>5. Sofar(k[2], logged') = Now(k[2], logged, tx[r])
  <2>1. logged' \cap Refunds(k[2]) = (logged \cap Refunds(k[2])) \cup {e}
    BY <1>1, <1>3, <1>4
  <2> QED
    BY <2>1 DEF Sofar, Now
<1>6. \A q \in DOMAIN tx[r].seen \cup DOMAIN tx[r].mine : q = k
  BY <1>1, <1>2 DEF Script, Fits, Quiet
<1>7. k \in DOMAIN tx[r].mine \/ (k \in DOMAIN tx[r].seen /\ DOMAIN tx[r].mine = {})
  <2>1. e \notin missed'
    BY <1>3 DEF Quiet
  <2> QED
    BY <1>1, <1>6, <2>1
<1> QED
  BY <1>1, <1>2, <1>5, <1>7 DEF Refunding

LEMMA RefundCommit ==
  ASSUME RefundsAddUp, Base, RefundInv, NEW r \in Requests, Commit(r)
  PROVE  RefundInv'
<1> DEFINE e == tx[r].event
<1>1. /\ e # Null /\ e \in Events /\ tx'[r] = Idle /\ \A o \in Requests : o # r => tx'[o] = tx[o]
      /\ met' = met /\ Script(tx[r]) /\ Fits(tx[r], sales)
      /\ DOMAIN sales' = DOMAIN sales \cup DOMAIN tx[r].mine
      /\ \A k \in DOMAIN sales \ DOMAIN tx[r].mine : sales'[k] = sales[k]
      /\ logged' \in {logged, logged \cup {e}} /\ missed \subseteq missed'
      /\ DOMAIN tx[r].seen \cup DOMAIN tx[r].mine = {} => e \in missed'
  BY CommitFacts DEF Quits
<1>2. IsFiniteSet(logged')
  BY <1>1, FS_AddElement DEF RefundInv
<1>3. HandledOnce'
  <2> SUFFICES ASSUME NEW o \in Requests, tx'[o].event # Null, Says[tx'[o].event].from # "pixel"
               PROVE  /\ tx'[o].event \notin logged'
                      /\ \A p \in Requests : p # o => tx'[p].event # tx'[o].event
    BY DEF HandledOnce
  <2>1. o # r /\ tx'[o] = tx[o] /\ Idle.event = Null
    BY <1>1 DEF Idle
  <2>2. tx[o].event \notin logged /\ \A p \in Requests : p # o => tx[p].event # tx[o].event
    BY <2>1 DEF RefundInv, HandledOnce
  <2>3. tx[o].event # e
    BY <2>1, <2>2
  <2>4. \A p \in Requests : tx'[p].event \in {tx[p].event, Null}
    BY <1>1, <2>1
  <2> QED
    BY <1>1, <2>1, <2>2, <2>3, <2>4
<1>4. ASSUME NEW f \in logged', Says[f].about = "refund"
      PROVE  f \in missed' \/ \E k \in DOMAIN sales' : k[2] = Says[f].order
  <2>1. CASE f \in logged
    BY <1>1, <1>4, <2>1 DEF RefundInv
  <2>2. CASE f = e
    BY <1>1, <2>2 DEF Script, Fits
  <2> QED
    BY <1>1, <2>1, <2>2
<1>5. ASSUME NEW k \in DOMAIN sales', Quiet(k, sales', missed', met')
      PROVE  sales'[k].status = "cancelled" \/ sales'[k].refunded = Sofar(k[2], logged')
  <2>1. CASE k \notin DOMAIN sales
    <3>1. sales'[k].refunded = 0 /\ logged' \cap Refunds(k[2]) = {}
      BY <1>5, <2>1, AddedUnrefunded
    <3>2. Returned({}) = 0
      BY <1>1, FS_EmptySet, OneMoreRefund
    <3> QED
      BY <3>1, <3>2 DEF Sofar
  <2>2. CASE k \in DOMAIN sales /\ Says[e].about = "refund" /\ k[2] = Says[e].order
    BY <1>5, <2>2, RefundLands
  <2>3. CASE k \in DOMAIN sales /\ (Says[e].about # "refund" \/ k[2] # Says[e].order)
    <3>1. Quiet(k, sales, missed, met)
      BY <1>5, <2>3, QuietBefore
    <3>2. sales[k].status = "cancelled" \/ sales[k].refunded = Sofar(k[2], logged)
      BY <2>3, <3>1 DEF RefundInv
    <3> QED
      BY <2>3, <3>2, Unrefunded DEF Sofar
  <2> QED
    BY <2>1, <2>2, <2>3
<1>6. ASSUME NEW o \in Requests
      PROVE  Refunding(tx'[o], sales', logged', missed', met') /\ NotRefunding(tx'[o], sales')
  <2>1. CASE o = r
    <3>1. tx'[o].event = Null
      BY <1>1, <2>1 DEF Idle
    <3> QED
      BY <3>1 DEF Refunding, NotRefunding
  <2>2. CASE o # r
    <3> DEFINE t == tx[o]
    <3>1. /\ tx'[o] = t /\ TxOK(t, sales)
          /\ Refunding(t, sales, logged, missed, met) /\ NotRefunding(t, sales)
          /\ DOMAIN tx[r].mine \cap DOMAIN t.mine = {}
      BY <1>1, <2>2 DEF Base, AllSound, Apart, RefundInv
    <3>2. NotRefunding(t, sales')
      BY <1>1, <3>1 DEF NotRefunding
    <3>3. ASSUME t.event # Null, Says[t.event].about = "refund", NEW k \in DOMAIN sales',
                 Quiet(k, sales', missed', met'), k[2] = Says[t.event].order
          PROVE  /\ k \in DOMAIN t.seen /\ t.at = "check refund" =>
                      t.seen[k].refunded = sales'[k].refunded
                 /\ k \in DOMAIN t.seen /\ t.at = "refund" =>
                      t.seen[k].refunded = Now(k[2], logged', t)
                 /\ k \in DOMAIN t.seen /\ t.at = "commit" /\ DOMAIN t.mine = {} =>
                      sales'[k].status = "cancelled" \/ sales'[k].refunded = Now(k[2], logged', t)
                 /\ k \in DOMAIN t.mine => t.mine[k].refunded = Now(k[2], logged', t)
      <4>1. Script(t) /\ Fits(t, sales)
        BY <3>1, <3>3 DEF TxOK
      <4>2. CASE k \notin DOMAIN sales
        BY <3>3, <4>1, <4>2 DEF Fits
      <4>3. CASE k \in DOMAIN sales
        <5>1. Quiet(k, sales, missed, met)
          BY <3>3, <4>3, QuietBefore
        <5>2. Says[e].about # "refund" \/ k[2] # Says[e].order
          <6> SUFFICES ASSUME Says[e].about = "refund", k[2] = Says[e].order PROVE FALSE
            OBVIOUS
          <6>1. {t.event, e} \in met
            BY <1>1, <2>2, <3>3 DEF Base, Meeting, Related
          <6>2. t.event \in Refunds(k[2]) /\ e \in Refunds(k[2])
            BY <1>1, <3>3, <4>1 DEF Script, Refunds, About
          <6> QED
            BY <5>1, <6>1, <6>2 DEF Quiet
        <5>3. /\ sales'[k].refunded = sales[k].refunded
              /\ sales[k].status = "cancelled" => sales'[k].status = "cancelled"
              /\ logged' \cap Refunds(k[2]) = logged \cap Refunds(k[2])
          BY <4>3, <5>2, Unrefunded
        <5>4. Now(k[2], logged', t) = Now(k[2], logged, t)
          BY <5>3 DEF Now
        <5> QED
          BY <3>1, <3>3, <4>3, <5>1, <5>3, <5>4 DEF Refunding
      <4> QED
        BY <4>2, <4>3
    <3>4. Refunding(t, sales', logged', missed', met')
      BY <3>3 DEF Refunding
    <3> QED
      BY <3>1, <3>2, <3>4
  <2> QED
    BY <2>1, <2>2
<1> QED
  BY <1>2, <1>3, <1>4, <1>5, <1>6
  DEF RefundInv, Quiet, Sofar, Now, Refunding, NotRefunding, Refunds, About, Returned

\* A request that begins, or ends without a commit, and steps of the campaign.
LEMMA RefundElsewhere ==
  ASSUME RefundInv, UNCHANGED <<sales, logged, missed>>, met \subseteq met', HandledOnce',
         \A r \in Requests :
           tx'[r] = tx[r] \/ (DOMAIN tx'[r].mine = {} /\ DOMAIN tx'[r].seen = {})
  PROVE  RefundInv'
<1>1. \A k : Quiet(k, sales, missed, met') => Quiet(k, sales, missed, met)
  BY DEF Quiet
<1>2. ASSUME NEW r \in Requests
      PROVE  Refunding(tx'[r], sales, logged, missed, met') /\ NotRefunding(tx'[r], sales)
  <2>1. CASE tx'[r] = tx[r]
    <3>1. Refunding(tx[r], sales, logged, missed, met) /\ NotRefunding(tx[r], sales)
      BY DEF RefundInv
    <3> QED
      BY <1>1, <2>1, <3>1 DEF Refunding
  <2>2. CASE DOMAIN tx'[r].mine = {} /\ DOMAIN tx'[r].seen = {}
    BY <2>2 DEF Refunding, NotRefunding
  <2> QED
    BY <2>1, <2>2
<1>3. \A k \in DOMAIN sales : Quiet(k, sales, missed, met') =>
        sales[k].status = "cancelled" \/ sales[k].refunded = Sofar(k[2], logged)
  BY <1>1 DEF RefundInv
<1>4. sales' = sales /\ logged' = logged /\ missed' = missed
  OBVIOUS
<1>5. /\ IsFiniteSet(logged')
      /\ \A e \in logged' : Says[e].about = "refund" =>
           e \in missed' \/ \E k \in DOMAIN sales' : k[2] = Says[e].order
  BY <1>4 DEF RefundInv
<1>6. /\ \A k \in DOMAIN sales' : Quiet(k, sales', missed', met') =>
           sales'[k].status = "cancelled" \/ sales'[k].refunded = Sofar(k[2], logged')
      /\ \A r \in Requests :
           Refunding(tx'[r], sales', logged', missed', met') /\ NotRefunding(tx'[r], sales')
  BY <1>2, <1>3, <1>4
<1> QED
  BY <1>5, <1>6
  DEF RefundInv, Quiet, Sofar, Now, Refunding, NotRefunding, Refunds, About, Returned

LEMMA RefundStep ==
  ASSUME RefundsAddUp, Base, RefundInv, [Next]_vars
  PROVE  RefundInv'
<1>1. ASSUME NEW r \in Requests, NEW e \in Events, Deliver(r, e) PROVE RefundInv'
  <2>1. /\ UNCHANGED <<sales, logged, missed>> /\ met \subseteq met'
        /\ DOMAIN tx'[r].mine = {} /\ DOMAIN tx'[r].seen = {} /\ tx'[r].event = e
        /\ \A o \in Requests : o # r => tx'[o] = tx[o]
    BY <1>1, DeliverFacts DEF NoSales
  <2>2. Fresh(e) /\ tx[r].event = Null
    BY <1>1, DeliverFacts
  <2>3. HandledOnce'
    <3> SUFFICES ASSUME NEW o \in Requests, tx'[o].event # Null, Says[tx'[o].event].from # "pixel"
                 PROVE  /\ tx'[o].event \notin logged
                        /\ \A p \in Requests : p # o => tx'[p].event # tx'[o].event
      BY <2>1 DEF HandledOnce
    <3>1. CASE o = r
      BY <2>1, <2>2, <3>1 DEF Fresh, Event
    <3>2. CASE o # r
      <4>1. tx'[o] = tx[o] /\ tx[o].event \notin logged
            /\ \A p \in Requests : p # o => tx[p].event # tx[o].event
        BY <2>1, <3>2 DEF RefundInv, HandledOnce
      <4>2. e # tx[o].event
        BY <2>2, <4>1 DEF Fresh, Event
      <4> QED
        BY <2>1, <3>2, <4>1, <4>2
    <3> QED
      BY <3>1, <3>2
  <2> QED
    BY <2>1, <2>3, RefundElsewhere
<1>2. ASSUME NEW r \in Requests, Fail(r) PROVE RefundInv'
  <2>1. /\ UNCHANGED <<sales, logged, missed, met>> /\ tx'[r] = Idle
        /\ \A o \in Requests : o # r => tx'[o] = tx[o]
    BY <1>2, FailFacts DEF Quits, Stored
  <2>2. Idle.event = Null /\ DOMAIN Idle.seen = {} /\ DOMAIN Idle.mine = {}
    BY DEF Idle, NoSales
  <2>3. HandledOnce'
    <3>1. \A o \in Requests : tx'[o].event \in {tx[o].event, Null}
      BY <2>1, <2>2
    <3> QED
      BY <2>1, <3>1 DEF RefundInv, HandledOnce
  <2> QED
    BY <2>1, <2>2, <2>3, RefundElsewhere
<1>3. CASE Enrols \/ UNCHANGED vars
  <2>1. UNCHANGED <<sales, logged, missed, met, tx>>
    BY <1>3, EnrolsFacts DEF vars
  <2>2. HandledOnce'
    BY <2>1 DEF RefundInv, HandledOnce
  <2> QED
    BY <2>1, <2>2, RefundElsewhere
<1> QED
  BY <1>1, <1>2, <1>3, NextCases, RefundAdvances, RefundCommit

\* What a repeat is told was already processed has done its work, once, however it came
\* (orderSources.ts, claimWebhook): an order that can be claimed has its sale, and a sale shows what
\* its refunds returned, unless one was processed before its sale or two of them overlapped.  The
\* senders are taken to tell of refunds that add up.
THEOREM LoggedIsDoneCorrect ==
  ASSUME RefundsAddUp
  PROVE  Spec => []LoggedIsDone
<1>1. Init => RefundInv
  BY FS_EmptySet DEF Init, RefundInv, HandledOnce, Refunding, NotRefunding, Idle, NoSales
<1>2. Base /\ RefundInv /\ [Next]_vars => RefundInv'
  BY RefundStep
<1>3. ASSUME RefundInv PROVE RefundsReflected
  <2> SUFFICES ASSUME NEW k \in DOMAIN sales, sales[k].status # "cancelled",
                      SalesCommitted(k[2]) = {k}, About(k[2], "refund") \cap missed = {},
                      ~Overlapped(About(k[2], "refund"), About(k[2], "refund"))
               PROVE  sales[k].refunded = Returned(logged \cap About(k[2], "refund"))
    BY DEF RefundsReflected
  <2>1. Quiet(k, sales, missed, met)
    BY DEF Quiet, SalesCommitted, Overlapped, Refunds
  <2> QED
    BY <1>3, <2>1 DEF RefundInv, Sofar, Refunds
<1>4. Spec => []RefundInv
  BY <1>1, <1>2, BaseCorrect, PTL DEF Spec
<1>5. Spec => []RefundsReflected
  BY <1>3, <1>4, PTL
<1>6. []OrdersRecorded /\ []RefundsReflected => []LoggedIsDone
  <2>1. OrdersRecorded /\ RefundsReflected => LoggedIsDone
    BY DEF LoggedIsDone
  <2> QED
    BY <2>1, PTL
<1> QED
  BY <1>5, <1>6, OrdersRecordedCorrect, PTL

----------------------------------------------------------------------------
(* The bonus, while nothing disturbs it: no two recordings overlap, no     *)
(* cancellation overlaps a refund of its order, and nobody is invited      *)
(* again.                                                                  *)

CalmIn(m) ==
  /\ \A e, f \in Recordings : {e, f} \notin m
  /\ \A e \in Events : Says[e].about = "cancel" =>
       \A f \in About(Says[e].order, "refund") : {e, f} \notin m

\* Once the sales are there, the bonus was given.
Won(rows, m, b) == m.status = "active" /\ Cardinality(Counted(rows)) >= Threshold => b = 1

Counting(t) == t.event # Null /\ (t.at \in {"count", "award"} \/ t.bonus)

\* What a request that counts, or is about to refund, goes by is still so; nobody brings a cancelled
\* sale back; a recording that is about to commit without a bonus owes none.
Right(t, d, m, b) ==
  /\ Counting(t) => b = 0 /\ t.place = m.id
  /\ t.event # Null /\ t.at = "refund" => \A k \in DOMAIN t.seen : d[k].status # "cancelled"
  /\ \A k \in DOMAIN t.mine : k \in DOMAIN d /\ d[k].status = "cancelled" =>
       t.mine[k].status = "cancelled"
  /\ t.event # Null /\ Says[t.event].about = "order" /\ t.at = "commit" /\ ~t.bonus =>
       Won(Over(t.mine, d), m, b)

\* The award is marked, unless the participant is gone.
Marked(m, b) ==
  /\ m.id = 1 /\ m.status \in {"active", "none"} /\ b \in {0, 1}
  /\ b = 1 => m.awarded \/ m.status = "none"
  /\ m.awarded => b = 1

BonusInv ==
  CalmIn(met) /\ member.id <= 1 =>
    /\ Marked(member, bonuses) /\ Won(sales, member, bonuses)
    /\ \A r \in Requests : Right(tx[r], sales, member, bonuses)

\* Fewer sales that count owe no more.
LEMMA FewerCount ==
  ASSUME NEW f, NEW g, NEW m, NEW b, Won(f, m, b), IsFiniteSet(DOMAIN f),
         \A k \in DOMAIN g : g[k].counted /\ g[k].status # "cancelled" =>
           k \in DOMAIN f /\ f[k].counted /\ f[k].status # "cancelled"
  PROVE  Won(g, m, b)
<1>1. Counted(g) \subseteq Counted(f) /\ Counted(f) \subseteq DOMAIN f
  BY DEF Counted
<1>2. IsFiniteSet(Counted(f))
  BY <1>1, FS_Subset
<1>3. IsFiniteSet(Counted(g)) /\ Cardinality(Counted(g)) <= Cardinality(Counted(f))
  BY <1>1, <1>2, FS_Subset
<1>4. Cardinality(Counted(g)) \in Nat /\ Cardinality(Counted(f)) \in Nat /\ Threshold \in Nat
  BY <1>2, <1>3, FS_CardinalityType, IntakeConstants
<1> QED
  BY <1>3, <1>4 DEF Won

\* What a request sees has finitely many sales.
LEMMA FinitelyMany ==
  ASSUME Base, NEW r \in Requests, tx[r].event # Null
  PROVE  IsFiniteSet(DOMAIN sales) /\ IsFiniteSet(DOMAIN Over(tx[r].mine, sales))
<1>1. Single(tx[r].mine) /\ IsFiniteSet(DOMAIN sales)
  BY DEF Base, AllSound, RowsTyped, TxOK, Script
<1>2. DOMAIN tx[r].mine = {} \/ \E k : DOMAIN tx[r].mine = {k}
  BY <1>1 DEF Single
<1>3. IsFiniteSet(DOMAIN tx[r].mine)
  BY <1>2, FS_EmptySet, FS_Singleton
<1>4. DOMAIN Over(tx[r].mine, sales) = DOMAIN tx[r].mine \cup DOMAIN sales
  BY OverFacts
<1> QED
  BY <1>1, <1>3, <1>4, FS_Union

\* The fourth part of Right, of a request whose own write counts for no more than what is there.
LEMMA OwesNone ==
  ASSUME Base, Won(sales, member, bonuses), NEW f,
         \A k \in DOMAIN f : f[k].counted /\ f[k].status # "cancelled" =>
           k \in DOMAIN sales /\ sales[k].counted /\ sales[k].status # "cancelled"
  PROVE  Won(Over(f, sales), member, bonuses)
<1> DEFINE g == Over(f, sales)
<1>1. /\ DOMAIN g = DOMAIN f \cup DOMAIN sales
      /\ \A k \in DOMAIN f : g[k] = f[k]
      /\ \A k \in DOMAIN sales \ DOMAIN f : g[k] = sales[k]
  BY DEF Over
<1>2. IsFiniteSet(DOMAIN sales)
  BY DEF Base, RowsTyped
<1> HIDE DEF g
<1>3. \A k \in DOMAIN g : g[k].counted /\ g[k].status # "cancelled" =>
        k \in DOMAIN sales /\ sales[k].counted /\ sales[k].status # "cancelled"
  BY <1>1
<1>4. Won(g, member, bonuses)
  BY <1>2, <1>3, FewerCount
<1> QED
  BY <1>4 DEF g

LEMMA RightAdvances ==
  ASSUME Base, NEW r \in Requests, NEW u, Advances(r, u),
         Marked(member, bonuses), Won(sales, member, bonuses),
         Right(tx[r], sales, member, bonuses)
  PROVE  Right(u, sales, member, bonuses)
<1> DEFINE t == tx[r]
           s == Says[t.event]
           Owes == s.about = "order" /\ u.at = "commit" /\ ~u.bonus =>
                     Won(Over(u.mine, sales), member, bonuses)
           Gone == \A k \in DOMAIN u.mine : k \in DOMAIN sales /\ sales[k].status = "cancelled" =>
                     u.mine[k].status = "cancelled"
           Live == u.at = "refund" => \A k \in DOMAIN u.seen : sales[k].status # "cancelled"
           Count == Counting(u) => bonuses = 0 /\ u.place = member.id
<1>1. /\ t.event # Null /\ Script(t) /\ Fits(t, sales) /\ u.event = t.event
      /\ Said(r) = s /\ s \in EventType
  BY WorkSound, NewSaleFacts DEF Base, AllSound, TxOK, Advances
<1>2. SUFFICES Owes /\ Gone /\ Live /\ Count
  BY <1>1 DEF Right
<1>3. t.at # "commit" => t.bonus = FALSE
  BY <1>1 DEF Script
<1>4. ASSUME DOMAIN u.mine = {} PROVE Owes /\ Gone
  BY <1>4, OwesNone
<1>5. CASE Finds(r, u)
  <2>1. /\ DOMAIN u.mine = {} /\ u.bonus = FALSE
        /\ u.at \in {"add id", "commit", "check refund", "check cancel"}
    BY <1>1, <1>3, <1>5 DEF Finds, Saw, Script, At, EventType
  <2> QED
    BY <1>4, <2>1 DEF Counting
<1>6. CASE Misses(r, u) \/ Attributes(r, u)
  <2>1. /\ DOMAIN u.mine = {} /\ u.bonus = FALSE
        /\ u.at \in {"attribute", "insert", "commit"}
    BY <1>1, <1>3, <1>6 DEF Misses, Attributes, Moved, Script, At
  <2> QED
    BY <1>4, <2>1 DEF Counting
<1>7. CASE Inserts(r, u)
  <2> DEFINE k == OwnKey(r)
  <2>1. /\ u.mine = Only(k, NewSale(r)) /\ u.bonus = t.bonus /\ t.at = "insert"
        /\ u.at = (IF t.place # 0 THEN "member" ELSE "commit") /\ k \notin DOMAIN sales
    BY <1>7 DEF Inserts, Wrote, At
  <2>2. NewSale(r).counted = (t.place # 0)
    BY <1>1, NewSaleFacts
  <2> HIDE DEF k
  <2>3. DOMAIN u.mine = {k} /\ u.mine[k] = NewSale(r)
    BY <2>1 DEF Only
  <2>4. Owes
    <3> SUFFICES ASSUME t.place = 0 PROVE Won(Over(u.mine, sales), member, bonuses)
      BY <2>1
    <3> QED
      BY <2>2, <2>3, OwesNone
  <2> QED
    BY <1>3, <2>1, <2>3, <2>4 DEF Counting
<1>8. CASE Updates(r, u)
  <2>1. PICK k \in DOMAIN t.seen, row \in Row :
       /\ Wrote(t, u, k, row)
       /\ row.counted = sales[k].counted
       /\ t.at = "add id" => row.status = sales[k].status
       /\ t.at = "cancel" => row.status = "cancelled"
    BY <1>8 DEF Updates, At
  <2>2. t.at \in {"add id", "refund", "cancel"} /\ u.at = "commit"
    BY <1>8 DEF Updates
  <2>3. u.mine = Only(k, row) /\ u.bonus = FALSE
    BY <1>3, <2>1, <2>2 DEF Wrote
  <2>4. DOMAIN u.mine = {k} /\ u.mine[k] = row /\ k \in DOMAIN sales
    BY <1>1, <2>1, <2>3 DEF Only, Fits
  <2>5. t.at = "refund" => sales[k].status # "cancelled"
    BY <1>1, <2>1 DEF Right
  <2>6. Gone
    BY <2>1, <2>2, <2>4, <2>5
  <2>7. Owes
    <3> SUFFICES ASSUME s.about = "order" PROVE Won(Over(u.mine, sales), member, bonuses)
      OBVIOUS
    <3>1. t.at = "add id"
      BY <1>1, <2>2 DEF Script
    <3> QED
      BY <2>1, <2>4, <3>1, OwesNone
  <2> QED
    BY <2>2, <2>3, <2>6, <2>7 DEF Counting
<1>9. CASE Checks(r, u)
  <2>1. /\ DOMAIN u.mine = {} /\ u.bonus = FALSE /\ DOMAIN u.seen = DOMAIN t.seen
        /\ u.at \in {"commit", "refund", "cancel"}
        /\ u.at = "refund" => \A k \in DOMAIN t.seen : sales[k].status # "cancelled"
    BY <1>1, <1>3, <1>9 DEF Checks, Saw, Script, At
  <2> QED
    BY <1>4, <2>1 DEF Counting
<1>10. CASE Ponders(r, u)
  <2>1. u.mine = t.mine /\ u.seen = t.seen /\ u.at \in {"count", "award", "commit"}
    BY <1>10 DEF Ponders, Moved
  <2>2. Gone /\ Live
    BY <2>1 DEF Right
  <2>3. t.at \in {"member", "count", "award"} /\ t.bonus = FALSE
    BY <1>3, <1>10 DEF Ponders, At
  <2>4. CASE At(r, "member")
    <3>1. /\ u.bonus = FALSE /\ u.place = (IF MayWin THEN member.id ELSE 0)
          /\ u.at = (IF MayWin THEN "count" ELSE "commit")
      BY <1>10, <2>3, <2>4 DEF Ponders, At
    <3>2. CASE MayWin
      <4>1. bonuses = 0
        BY <3>2 DEF MayWin, Marked
      <4> QED
        BY <2>2, <3>1, <3>2, <4>1 DEF Counting
    <3>3. CASE ~MayWin
      <4>1. \A rows : Won(rows, member, bonuses)
        BY <3>3 DEF MayWin, Marked, Won
      <4> QED
        BY <2>2, <3>1, <3>3, <4>1 DEF Counting
    <3> QED
      BY <3>2, <3>3
  <2>5. CASE At(r, "count")
    <3>1. /\ u.bonus = FALSE /\ u.place = t.place
          /\ u.at = IF Cardinality(Counted(Over(u.mine, sales))) >= Threshold THEN "award" ELSE "commit"
      BY <1>10, <2>1, <2>3, <2>5 DEF Ponders, At, Visible
    <3>2. bonuses = 0 /\ t.place = member.id
      BY <1>1, <2>5 DEF Right, Counting, At
    <3> QED
      BY <2>2, <3>1, <3>2 DEF Counting, Won
  <2>6. CASE At(r, "award")
    <3>1. u.bonus = TRUE /\ u.place = t.place /\ u.at = "commit"
      BY <1>10, <2>6 DEF Ponders, At
    <3>2. bonuses = 0 /\ t.place = member.id
      BY <1>1, <2>6 DEF Right, Counting, At
    <3> QED
      BY <2>2, <3>1, <3>2 DEF Counting
  <2> QED
    BY <2>3, <2>4, <2>5, <2>6 DEF At
<1> QED
  BY <1>5, <1>6, <1>7, <1>8, <1>9, <1>10 DEF Advances

\* In a calm there is one recording at a time, and no cancellation beside a refund of its order.
LEMMA CalmFacts ==
  ASSUME Base, CalmIn(met), NEW r \in Requests, NEW o \in Requests, r # o,
         tx[r].event # Null, tx[o].event # Null
  PROVE  /\ ~(Says[tx[r].event].about = "order" /\ Says[tx[o].event].about = "order")
         /\ Says[tx[r].event].about = "cancel" /\ Says[tx[o].event].about = "refund" =>
              Says[tx[r].event].order # Says[tx[o].event].order
<1>1. tx[r].event \in Events /\ tx[o].event \in Events
  BY DEF Base, AllSound, TxOK, Script
<1>2. ASSUME Related(tx[r].event, tx[o].event) PROVE {tx[r].event, tx[o].event} \in met
  BY <1>2 DEF Base, Meeting
<1>3. ~(Says[tx[r].event].about = "order" /\ Says[tx[o].event].about = "order")
  BY <1>1, <1>2 DEF CalmIn, Recordings, Related
<1>4. Says[tx[r].event].about = "cancel" /\ Says[tx[o].event].about = "refund" =>
        Says[tx[r].event].order # Says[tx[o].event].order
  BY <1>1, <1>2 DEF CalmIn, About, Related
<1> QED
  BY <1>3, <1>4

LEMMA BonusAdvances ==
  ASSUME Base, BonusInv, NEW r \in Requests, NEW u, Advances(r, u)
  PROVE  BonusInv'
<1>1. /\ DOMAIN tx = Requests /\ tx' = [tx EXCEPT ![r] = u] /\ UNCHANGED Stored
      /\ tx'[r] = u /\ \A o \in Requests : o # r => tx'[o] = tx[o]
  BY DEF Base, AllSound, Advances
<1>2. sales' = sales /\ met' = met /\ member' = member /\ bonuses' = bonuses
  BY <1>1 DEF Stored
<1>3. CASE CalmIn(met) /\ member.id <= 1
  <2>1. Right(u, sales, member, bonuses)
    BY <1>3, RightAdvances DEF BonusInv
  <2>2. \A o \in Requests : Right(tx'[o], sales', member', bonuses')
    BY <1>1, <1>2, <1>3, <2>1 DEF BonusInv
  <2>3. Marked(member', bonuses') /\ Won(sales', member', bonuses')
    BY <1>2, <1>3 DEF BonusInv
  <2> QED
    BY <2>2, <2>3 DEF BonusInv
<1>4. CASE ~(CalmIn(met) /\ member.id <= 1)
  BY <1>2, <1>4 DEF BonusInv
<1> QED
  BY <1>3, <1>4

\* What the commit of r leaves of a sale, in a calm: it counts no more than it did, and it is newly
\* cancelled only by a cancellation.
LEMMA CommitLeaves ==
  ASSUME Base, NEW r \in Requests, Commit(r), Right(tx[r], sales, member, bonuses),
         NEW k \in DOMAIN sales
  PROVE  /\ k \in DOMAIN sales'
         /\ sales'[k].counted = sales[k].counted
         /\ sales[k].status = "cancelled" => sales'[k].status = "cancelled"
         /\ sales'[k].status = "cancelled" =>
              \/ sales[k].status = "cancelled"
              \/ Says[tx[r].event].about = "cancel" /\ k[2] = Says[tx[r].event].order
<1>1. CASE k \in DOMAIN tx[r].mine
  <2>1. /\ Fits(tx[r], sales) /\ Script(tx[r]) /\ sales'[k] = tx[r].mine[k] /\ k \in DOMAIN sales'
    BY <1>1, CommitFacts
  <2>2. Keeps(Says[tx[r].event].about, sales[k], tx[r].mine[k]) /\ k[2] = Says[tx[r].event].order
    BY <1>1, <2>1 DEF Fits, Script
  <2> QED
    BY <1>1, <2>1, <2>2 DEF Keeps, Right
<1>2. CASE k \notin DOMAIN tx[r].mine
  BY <1>2, CommitFacts
<1> QED
  BY <1>1, <1>2

\* What the commit of r makes of the award.
LEMMA CommitAwards ==
  ASSUME Base, NEW r \in Requests, Commit(r), Marked(member, bonuses),
         Right(tx[r], sales, member, bonuses)
  PROVE  /\ Marked(member', bonuses') /\ member'.id = member.id /\ member'.status = member.status
         /\ tx[r].bonus => bonuses' = 1
         /\ ~tx[r].bonus => member' = member /\ bonuses' = bonuses
<1>1. tx[r].event # Null
  BY CommitFacts DEF Quits
<1>2. CASE tx[r].bonus
  <2>1. bonuses = 0 /\ tx[r].place = member.id /\ bonuses' = bonuses + 1
    BY <1>1, <1>2 DEF Right, Counting, Commit
  <2>2. member' = IF member.status # "none" THEN [member EXCEPT !.awarded = TRUE] ELSE member
    BY <1>2, <2>1 DEF Commit
  <2>3. /\ member'.id = member.id /\ member'.status = member.status
        /\ member.status # "none" => member'.awarded
    BY <2>2 DEF Base, RowsTyped
  <2> QED
    BY <1>2, <2>1, <2>3 DEF Marked
<1>3. CASE ~tx[r].bonus
  BY <1>3 DEF Commit
<1> QED
  BY <1>2, <1>3

\* Another request, whose rows stay locked, sees no more sales that count than it did.
LEMMA OthersOwe ==
  ASSUME Base, NEW r \in Requests, NEW o \in Requests, o # r, Commit(r), tx[o].event # Null,
         Says[tx[r].event].about # "order", Right(tx[r], sales, member, bonuses),
         Won(Over(tx[o].mine, sales), member, bonuses)
  PROVE  Won(Over(tx[o].mine, sales'), member, bonuses)
<1> DEFINE f == Over(tx[o].mine, sales)
           g == Over(tx[o].mine, sales')
<1>1. /\ DOMAIN f = DOMAIN tx[o].mine \cup DOMAIN sales
      /\ DOMAIN g = DOMAIN tx[o].mine \cup DOMAIN sales'
      /\ \A k \in DOMAIN tx[o].mine : f[k] = g[k]
      /\ \A k \in DOMAIN sales \ DOMAIN tx[o].mine : f[k] = sales[k]
      /\ \A k \in DOMAIN sales' \ DOMAIN tx[o].mine : g[k] = sales'[k]
  BY DEF Over
<1>2. IsFiniteSet(DOMAIN f)
  BY FinitelyMany
<1>3. DOMAIN sales' \subseteq DOMAIN sales
  BY Added DEF Inserting
<1> HIDE DEF f, g
<1>4. \A k \in DOMAIN g : g[k].counted /\ g[k].status # "cancelled" =>
        k \in DOMAIN f /\ f[k].counted /\ f[k].status # "cancelled"
  BY <1>1, <1>3, CommitLeaves
<1>5. Won(f, member, bonuses)
  BY DEF f
<1>6. Won(g, member, bonuses)
  BY <1>2, <1>4, <1>5, FewerCount
<1> QED
  BY <1>6 DEF g

LEMMA BonusCommit ==
  ASSUME Base, BonusInv, NEW r \in Requests, Commit(r)
  PROVE  BonusInv'
<1>1. /\ tx[r].event # Null /\ tx'[r] = Idle /\ \A o \in Requests : o # r => tx'[o] = tx[o]
      /\ met' = met /\ Script(tx[r]) /\ Fits(tx[r], sales) /\ tx[r].at = "commit"
  BY CommitFacts DEF Quits
<1> DEFINE s == Says[tx[r].event]
<1>2. SUFFICES ASSUME CalmIn(met'), member'.id <= 1
               PROVE  /\ Marked(member', bonuses') /\ Won(sales', member', bonuses')
                      /\ \A o \in Requests : Right(tx'[o], sales', member', bonuses')
  BY DEF BonusInv, Marked, Won, Right, Counted, Counting, Over
<1>3. member' = member \/ member' = [member EXCEPT !.awarded = TRUE]
  BY DEF Commit
<1>4. member'.id = member.id
  BY <1>3 DEF Base, RowsTyped
<1>5. /\ CalmIn(met) /\ Marked(member, bonuses) /\ Won(sales, member, bonuses)
      /\ \A o \in Requests : Right(tx[o], sales, member, bonuses)
  BY <1>1, <1>2, <1>4 DEF BonusInv
<1>6. /\ Marked(member', bonuses') /\ member'.id = member.id /\ member'.status = member.status
      /\ tx[r].bonus => bonuses' = 1
      /\ ~tx[r].bonus => member' = member /\ bonuses' = bonuses
  BY <1>5, CommitAwards
<1>7. tx[r].bonus => s.about = "order"
  BY <1>1 DEF Script
<1>8. Won(sales', member', bonuses')
  <2>1. CASE tx[r].bonus
    BY <1>6, <2>1 DEF Won
  <2>2. CASE ~tx[r].bonus /\ s.about = "order"
    <3>1. Won(Over(tx[r].mine, sales), member, bonuses)
      BY <1>1, <1>5, <2>2 DEF Right
    <3>2. sales' = Over(tx[r].mine, sales)
      BY DEF Commit, Visible
    <3> QED
      BY <1>6, <2>2, <3>1, <3>2
  <2>3. CASE s.about # "order"
    <3>1. DOMAIN sales' \subseteq DOMAIN sales
      BY <2>3, Added DEF Inserting
    <3>2. \A k \in DOMAIN sales' : sales'[k].counted /\ sales'[k].status # "cancelled" =>
            k \in DOMAIN sales /\ sales[k].counted /\ sales[k].status # "cancelled"
      BY <1>5, <3>1, CommitLeaves
    <3>3. IsFiniteSet(DOMAIN sales)
      BY DEF Base, RowsTyped
    <3>4. Won(sales', member, bonuses)
      BY <1>5, <3>2, <3>3, FewerCount
    <3> QED
      BY <1>6, <1>7, <2>3, <3>4
  <2> QED
    BY <2>1, <2>2, <2>3
<1>9. ASSUME NEW o \in Requests PROVE Right(tx'[o], sales', member', bonuses')
  <2>1. CASE o = r
    <3>1. Idle.event = Null /\ DOMAIN Idle.mine = {}
      BY DEF Idle, NoSales
    <3> QED
      BY <1>1, <2>1, <3>1 DEF Right, Counting
  <2>2. CASE o # r /\ tx[o].event = Null
    <3>1. tx[o] = Idle /\ Idle.event = Null /\ DOMAIN Idle.mine = {}
      BY <2>2 DEF Base, AllSound, TxOK, Idle, NoSales
    <3> QED
      BY <1>1, <2>2, <3>1 DEF Right, Counting
  <2>3. CASE o # r /\ tx[o].event # Null
    <3> DEFINE t == tx[o]
               q == Says[t.event]
    <3>1. /\ tx'[o] = t /\ Script(t) /\ Fits(t, sales) /\ Right(t, sales, member, bonuses)
          /\ DOMAIN tx[r].mine \cap DOMAIN t.mine = {}
      BY <1>1, <1>5, <2>3 DEF Base, AllSound, TxOK, Apart
    <3>2. /\ ~(s.about = "order" /\ q.about = "order")
          /\ s.about = "cancel" /\ q.about = "refund" => s.order # q.order
      BY <1>1, <1>5, <2>3, CalmFacts
    <3>3. ASSUME Counting(t) PROVE bonuses' = 0 /\ t.place = member'.id
      <4>1. q.about = "order"
        BY <3>1, <3>3 DEF Counting, Script
      <4> QED
        BY <1>6, <1>7, <3>1, <3>2, <3>3, <4>1 DEF Right
    <3>4. ASSUME t.at = "refund", NEW k \in DOMAIN t.seen PROVE sales'[k].status # "cancelled"
      <4>1. q.about = "refund" /\ k[2] = q.order /\ k \in DOMAIN sales
        BY <3>1, <3>4 DEF Script, Fits
      <4>2. sales[k].status # "cancelled"
        BY <2>3, <3>1, <3>4 DEF Right
      <4> QED
        BY <1>5, <3>2, <4>1, <4>2, CommitLeaves
    <3>5. ASSUME NEW k \in DOMAIN t.mine, k \in DOMAIN sales', sales'[k].status = "cancelled"
          PROVE  t.mine[k].status = "cancelled"
      <4>1. k \in DOMAIN sales /\ sales'[k] = sales[k]
        BY <3>1, <3>5, CommitFacts
      <4> QED
        BY <3>1, <3>5, <4>1 DEF Right
    <3>6. ASSUME q.about = "order", t.at = "commit", ~t.bonus
          PROVE  Won(Over(t.mine, sales'), member', bonuses')
      <4>1. Won(Over(t.mine, sales), member, bonuses)
        BY <2>3, <3>1, <3>6 DEF Right
      <4>2. Won(Over(t.mine, sales'), member, bonuses)
        BY <1>5, <2>3, <3>2, <3>6, <4>1, OthersOwe
      <4> QED
        BY <1>6, <1>7, <3>2, <3>6, <4>2
    <3> QED
      BY <3>1, <3>3, <3>4, <3>5, <3>6 DEF Right
  <2> QED
    BY <2>1, <2>2, <2>3
<1> QED
  BY <1>6, <1>8, <1>9

\* A request that begins, or fails.
LEMMA BonusElsewhere ==
  ASSUME Base, BonusInv, UNCHANGED <<sales, member, bonuses>>, met \subseteq met',
         \A r \in Requests :
           tx'[r] = tx[r] \/ (DOMAIN tx'[r].mine = {} /\ tx'[r].at \in {"idle", "find"} /\ ~tx'[r].bonus)
  PROVE  BonusInv'
<1>1. SUFFICES ASSUME CalmIn(met'), member'.id <= 1
               PROVE  /\ Marked(member', bonuses') /\ Won(sales', member', bonuses')
                      /\ \A o \in Requests : Right(tx'[o], sales', member', bonuses')
  BY DEF BonusInv, Marked, Won, Right, Counted, Counting, Over
<1>2. CalmIn(met) /\ member.id <= 1
  BY <1>1 DEF CalmIn
<1>3. Marked(member', bonuses') /\ Won(sales', member', bonuses')
  BY <1>2 DEF BonusInv
<1>4. ASSUME NEW o \in Requests PROVE Right(tx'[o], sales', member', bonuses')
  <2>1. CASE tx'[o] = tx[o]
    BY <1>2, <2>1 DEF BonusInv
  <2>2. CASE DOMAIN tx'[o].mine = {} /\ tx'[o].at \in {"idle", "find"} /\ ~tx'[o].bonus
    BY <2>2 DEF Right, Counting
  <2> QED
    BY <2>1, <2>2
<1> QED
  BY <1>3, <1>4

\* Whoever leaves the campaign in a calm is not back in it.
LEMMA BonusEnrols ==
  ASSUME Base, BonusInv, Enrols
  PROVE  BonusInv'
<1>1. /\ UNCHANGED <<sales, bonuses, tx, met>>
      /\ member \in [id : 0..MaxInvites, status : {"none", "invited", "active"}, awarded : BOOLEAN]
  BY EnrolsFacts DEF Base, RowsTyped
<1>2. SUFFICES ASSUME CalmIn(met'), member'.id <= 1
               PROVE  /\ Marked(member', bonuses') /\ Won(sales', member', bonuses')
                      /\ \A o \in Requests : Right(tx'[o], sales', member', bonuses')
  BY DEF BonusInv, Marked, Won, Right, Counted, Counting, Over
<1>3. member'.id >= member.id /\ member.id \in Nat /\ member'.id \in Nat
  BY <1>1, IntakeConstants DEF Enrols, Invite, JoinCampaign, RemoveParticipant
<1>4. CalmIn(met) /\ member.id <= 1
  BY <1>1, <1>2, <1>3
<1>5. /\ Marked(member, bonuses)
      /\ \A o \in Requests : Right(tx[o], sales, member, bonuses)
  BY <1>4 DEF BonusInv
<1>6. RemoveParticipant
  BY <1>1, <1>2, <1>5 DEF Enrols, Invite, JoinCampaign, Marked
<1>7. member'.id = member.id /\ member'.status = "none" /\ member'.awarded = member.awarded
  BY <1>1, <1>6 DEF RemoveParticipant
<1>8. Marked(member', bonuses') /\ \A rows : Won(rows, member', bonuses')
  BY <1>1, <1>5, <1>7 DEF Marked, Won
<1>9. \A o \in Requests : Right(tx'[o], sales', member', bonuses')
  BY <1>1, <1>5, <1>7, <1>8 DEF Right
<1> QED
  BY <1>8, <1>9

LEMMA BonusStep ==
  ASSUME Base, BonusInv, [Next]_vars
  PROVE  BonusInv'
<1>1. ASSUME NEW r \in Requests, NEW e \in Events, Deliver(r, e) PROVE BonusInv'
  <2>1. /\ UNCHANGED <<sales, member, bonuses>> /\ met \subseteq met'
        /\ tx'[r].at = "find" /\ tx'[r].mine = NoSales /\ tx'[r].bonus = FALSE
        /\ \A o \in Requests : o # r => tx'[o] = tx[o]
    BY <1>1, DeliverFacts
  <2> QED
    BY <2>1, BonusElsewhere DEF NoSales
<1>2. ASSUME NEW r \in Requests, Fail(r) PROVE BonusInv'
  <2>1. /\ UNCHANGED <<sales, member, bonuses, met>> /\ tx'[r] = Idle
        /\ \A o \in Requests : o # r => tx'[o] = tx[o]
    BY <1>2, FailFacts DEF Quits, Stored
  <2>2. Idle.at = "idle" /\ DOMAIN Idle.mine = {} /\ Idle.bonus = FALSE
    BY DEF Idle, NoSales
  <2> QED
    BY <2>1, <2>2, BonusElsewhere
<1>3. CASE UNCHANGED vars
  BY <1>3, BonusElsewhere DEF vars
<1> QED
  BY <1>1, <1>2, <1>3, NextCases, BonusAdvances, BonusCommit, BonusEnrols

\* The campaign's bonus is given once, and given once the sales are there (evaluateBonus,
\* campaigns.ts), unless two recordings overlapped, the participant was invited again, or a refund
\* that overlapped a cancellation brought the cancelled sale back.
THEOREM BonusRightCorrect == Spec => []BonusRight
<1>1. Init => BonusInv
  <2> SUFFICES ASSUME Init PROVE BonusInv
    OBVIOUS
  <2>1. Marked(member, bonuses)
    BY DEF Init, Marked
  <2>2. Won(sales, member, bonuses)
    <3>1. Counted(sales) = {}
      BY DEF Init, NoSales, Counted
    <3> QED
      BY <3>1, FS_EmptySet, IntakeConstants DEF Won
  <2>3. \A r \in Requests : Right(tx[r], sales, member, bonuses)
    BY DEF Init, Idle, NoSales, Right, Counting
  <2> QED
    BY <2>1, <2>2, <2>3 DEF BonusInv
<1>2. Base /\ BonusInv /\ [Next]_vars => BonusInv'
  BY BonusStep
<1>3. Base /\ BonusInv => BonusRight
  <2> SUFFICES ASSUME Base, BonusInv,
                      ~Overlapped(Recordings, Recordings), ~(member.id > 1),
                      ~\E e \in Events : Says[e].about = "cancel"
                                           /\ Overlapped({e}, About(Says[e].order, "refund"))
               PROVE  /\ bonuses <= 1
                      /\ member.status = "active" /\ Cardinality(Counted(sales)) >= Threshold =>
                           bonuses = 1
    BY DEF BonusRight
  <2>1. CalmIn(met)
    BY DEF CalmIn, Overlapped
  <2>2. member.id <= 1
    BY IntakeConstants DEF Base, RowsTyped
  <2> QED
    BY <2>1, <2>2 DEF BonusInv, Marked, Won
<1> QED
  BY <1>1, <1>2, <1>3, BaseCorrect, PTL DEF Spec

=============================================================================
