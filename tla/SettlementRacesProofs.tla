----------------------- MODULE SettlementRacesProofs -----------------------
(***************************************************************************)
(* What holds of the calls of SettlementRaces however their statements     *)
(* interleave, for any sessions, batches, disputes and amount.             *)
(*                                                                         *)
(* One invariant, Base, says for every statement a call can be at which    *)
(* rows the transaction holds and what it wrote there.  A row that is held *)
(* changes in no other transaction, so that this is about the call alone.  *)
(* The properties follow from Base and from what the calls of each         *)
(* property saw when they began, which stays true until they end unless    *)
(* another call of the kind the property names was open meanwhile.         *)
(***************************************************************************)
EXTENDS SettlementRaces, FiniteSetTheorems, TLAPS

SaleRows == [status : {"pending", "approved", "refunded", "disputed", "cancelled"}, refunded : 0..Amount]
CommissionRows ==
  [status : {"pending", "approved", "payable", "paid"} \cup Closed, amount : 0..Amount,
   payout : Payouts \cup {Null}]
BatchRows ==
  [status : {"absent", "draft", "processing", "failed", "paid", "cancelled"}, amount : 0..Amount]
DisputeRows ==
  [status : {"absent", "ended"} \cup OpenStates,
   previous : {"pending", "approved", "refunded", "disputed", "cancelled", "none"}]

\* x may stand in row r.
Fit(r, x) ==
  /\ r = "sale" => x \in SaleRows
  /\ r = "commission" => x \in CommissionRows
  /\ r \in Payouts => x \in BatchRows
  /\ r \in Disputes => x \in DisputeRows

IsTx(t) ==
  t \in [call : {t.call}, at : {t.at}, row : {t.row}, part : {t.part},
         seen : {t.seen}, mine : {t.mine}, entries : {t.entries}]

\* A correction that has read the commission; a dispute that has seen to the sale.
HasRead(t) == t.call \in Corrections /\ "commission" \in DOMAIN t.seen
HasHeld(t) == t.call = "dispute" /\ t.at \in {"insert dispute", "commit"}

\* Refund and cancellation; moves of a sale alone; settlements; moves of a batch, of a dispute.
OfSale == {"refund", "cancel"}
Settling == {"settle", "release"}
Marking == {"process", "fail", "pay"}
OfBatch == Draws \cup Marking \cup {"cancel batch"}
Over == {"withdraw", "resolve"}
OfDispute == {"dispute", "review"} \cup Over

\* The row a call is about.
About(t) ==
  /\ t.call \in OfBatch => t.row \in Payouts
  /\ t.call \in OfDispute => t.row \in Disputes
  /\ t.call = "cancel" => t.row = "sale" \/ t.row \in Disputes
  /\ t.call \notin OfBatch \cup OfDispute \cup {"cancel"} => t.row \in {"sale", "commission", Null}

\* Statements that use a copy of the sale.
UseSale == {"check sale", "hold sale", "insert dispute"}
UseCommission == {"insert batch", "correct commission"}

Typed(t) ==
  /\ IsTx(t)
  /\ t.call \in Calls \cup {"none"}
  /\ t.call = "none" \/ t.at = "idle" => t = Idle
  /\ t.part \in Nat /\ t.entries \in Int
  /\ About(t)
  /\ \A r \in DOMAIN t.seen : r \in Rows /\ Fit(r, t.seen[r])
  /\ \A r \in DOMAIN t.mine : r \in Rows /\ Fit(r, t.mine[r])
  /\ t.call = "refund" => "sale" \in DOMAIN t.seen /\ t.seen["sale"].refunded + t.part \in 0..Amount
  /\ t.at \in UseCommission => "commission" \in DOMAIN t.seen
  /\ t.at \in UseSale => "sale" \in DOMAIN t.seen

SaleWriters == OfSale \cup Reattributions \cup Settling \cup {"approve", "dispute", "withdraw"}
CommissionWriters == Corrections \cup Promotions \cup Draws \cup {"pay", "cancel batch"}

\* The rows a call may hold at all.
Scope(t) ==
  LET held == DOMAIN t.mine IN
  /\ held \subseteq {"sale", "commission", t.row}
  /\ "sale" \in held => t.call \in SaleWriters
  /\ "commission" \in held => t.call \in CommissionWriters
  /\ t.call \in OfSale /\ HasRead(t) => "sale" \in held

\* Which call a statement belongs to, and the rows that the call holds before it.
SaleScript(t, held) ==
  /\ t.at = "close sale" => t.call \in OfSale /\ held = {}
  /\ t.at = "approve by hand" => t.call = "approve" /\ held = {}
  /\ t.at \in {"read commission", "correct commission"} =>
       /\ t.call \in Corrections /\ held \subseteq {"sale"}
       /\ t.call \in OfSale => held = {"sale"}
       /\ t.call \notin OfSale \cup {"resolve"} => held = {}
  /\ t.at = "touch sale" => t.call \in Reattributions /\ held \subseteq {"sale", "commission"}
  /\ t.at = "approve commission" => t.call = "approve commission" /\ held = {}
  /\ t.at \in {"look at sale", "settle commission"} => t.call \in Settling /\ held = {}
  /\ t.at = "approve sale" => t.call \in Settling /\ held = {"commission"}

BatchScript(t, held) ==
  /\ t.at = "insert batch" => t.call \in Draws /\ held = {}
  /\ t.at = "take commission" => t.call \in Draws /\ held = {t.row}
  /\ t.at = "set batch" => t.call \in {"process", "fail"} /\ held = {}
  /\ t.at = "pay batch" =>
       \/ t.call = "pay" /\ held = {}
       \/ t.call = "record" /\ held = {t.row, "commission"}
  /\ t.at = "pay commission" =>
       \/ t.call = "pay" /\ held = {t.row}
       \/ t.call = "record" /\ held = {t.row, "commission"}
  /\ t.at = "cancel batch" => t.call = "cancel batch" /\ held = {}
  /\ t.at = "release commission" => t.call = "cancel batch" /\ held = {t.row}

DisputeScript(t, held) ==
  /\ t.at \in {"remember sale", "check sale", "hold sale"} => t.call = "dispute" /\ held = {}
  /\ t.at = "insert dispute" => t.call = "dispute" /\ held \subseteq {"sale"}
  /\ t.at = "review dispute" => t.call = "review" /\ held = {}
  /\ t.at = "read sale" => t.call = "cancel" /\ held = {}
  /\ t.at \in {"peek at sale", "restore sale"} => t.call \in Over /\ held = {}
  /\ t.at = "close dispute" =>
       /\ t.call \in Over \cup {"cancel"} /\ t.row \in Disputes
       /\ held \subseteq {"sale", "commission"}
       /\ t.call = "cancel" => "sale" \in held

CommitScript(t, held) ==
  t.at = "commit" =>
    /\ t.call \in OfSale => "sale" \in held
    /\ t.call \in Draws => {t.row, "commission"} \subseteq held
    /\ t.call \in Over \cup {"cancel batch"} => t.row \in held

Script(t) ==
  LET held == DOMAIN t.mine IN
  SaleScript(t, held) /\ BatchScript(t, held) /\ DisputeScript(t, held) /\ CommitScript(t, held)

\* What the call wrote there, beside the committed rows.
WroteSale(t, mine, committed) ==
  /\ t.call = "refund" =>
       mine.status = "refunded" /\ mine.refunded = t.seen["sale"].refunded + t.part
  /\ t.call # "refund" => mine.refunded = committed.refunded
  /\ t.call = "cancel" => mine.status = "cancelled"
  /\ t.call \in Settling => committed.status = "pending" /\ mine.status = "approved"
  /\ t.call = "dispute" => mine.status = "disputed"
  /\ t.call \in {"reattribute", "detach"} => mine.status = committed.status

WroteCommission(t, mine, committed) ==
  /\ t.call \in Corrections =>
       /\ t.seen["commission"].status \notin Closed \cup {"paid"}
       /\ mine.amount = t.seen["commission"].amount + t.entries
       /\ mine.status \in Closed \cup {committed.status}
       /\ HasRead(t)
  /\ t.call \notin Corrections => mine.amount = committed.amount
  /\ t.call \in Promotions => mine.status \in {"payable", "approved"}
  /\ t.call \in {"pay", "record"} =>
       \/ mine.status = committed.status
       \/ committed.status = "payable" /\ mine.status = "paid"
  /\ t.call \in {"draw", "cancel batch"} => mine.status = committed.status
  /\ t.call \in Draws => mine.payout = t.row
  /\ t.call = "cancel batch" => committed.payout = t.row /\ mine.payout = Null
  /\ t.call \notin Draws \cup {"cancel batch"} => mine.payout = committed.payout

WroteRow(t, mine) ==
  /\ t.call \in Draws => mine.status \in {"draft", "paid"}
  /\ t.call \in Marking => mine.status \in {"processing", "failed", "paid"}
  /\ t.call = "cancel batch" => mine.status = "cancelled"
  /\ t.call \in {"dispute", "review"} => mine.status \in OpenStates
  /\ t.call \in Over \cup {"cancel"} => mine.status = "ended"

Wrote(t, d) ==
  /\ "sale" \in DOMAIN t.mine => WroteSale(t, t.mine["sale"], d["sale"])
  /\ "commission" \in DOMAIN t.mine => WroteCommission(t, t.mine["commission"], d["commission"])
  /\ t.row \in DOMAIN t.mine /\ t.row \in Payouts \cup Disputes => WroteRow(t, t.mine[t.row])
  /\ t.entries # 0 => "commission" \in DOMAIN t.mine /\ t.call \in Corrections

Proper(t, d) == Typed(t) /\ Scope(t) /\ Script(t) /\ Wrote(t, d)

\* Two calls that are open have met.
Meeting ==
  \A s, o \in Sessions :
    s # o /\ tx[s].call # "none" /\ tx[o].call # "none" => {tx[s].call, tx[o].call} \in met

Base ==
  /\ DOMAIN db = Rows /\ \A r \in Rows : Fit(r, db[r])
  /\ DOMAIN tx = Sessions /\ tx = [s \in Sessions |-> tx[s]]
  /\ \A s \in Sessions : Proper(tx[s], db)
  /\ \A s, o \in Sessions : s # o => DOMAIN tx[s].mine \cap DOMAIN tx[o].mine = {}
  /\ Meeting

----------------------------------------------------------------------------
(* What each kind of statement does to the session that makes it.          *)

Alone(s) == \A o \in Sessions : o # s => tx'[o] = tx[o]

\* A session goes on with its call, from t to u.
GoesOn(t, u, next) ==
  /\ IsTx(u)
  /\ u.call = t.call /\ u.row = t.row /\ u.part = t.part /\ u.at = next

\* It has also seen x in row r; it has also written x there.
HasSeen(t, u, r, x) ==
  /\ DOMAIN u.seen = {r} \cup DOMAIN t.seen /\ u.seen[r] = x
  /\ \A q \in DOMAIN t.seen : q # r => u.seen[q] = t.seen[q]
  /\ u.mine = t.mine /\ u.entries = t.entries

HasWritten(t, u, r, x, entry) ==
  /\ DOMAIN u.mine = {r} \cup DOMAIN t.mine /\ u.mine[r] = x
  /\ \A q \in DOMAIN t.mine : q # r => u.mine[q] = t.mine[q]
  /\ u.seen = t.seen /\ u.entries = t.entries + entry

LEMMA IdleProper == ASSUME NEW d PROVE Proper(Idle, d)
<1>1. IsTx(Idle)
  BY DEF IsTx, Idle
<1>2. DOMAIN NoRows = {}
  BY DEF NoRows
<1>3. About(Idle)
  BY DEF About, Idle, OfBatch, OfDispute, Draws, Marking, Over
<1>4. Typed(Idle)
  BY <1>1, <1>2, <1>3 DEF Typed, Idle, UseCommission, UseSale
<1>5. Scope(Idle)
  BY <1>2 DEF Scope, Idle, OfSale
<1>6. Script(Idle)
  BY DEF Script, SaleScript, BatchScript, DisputeScript, CommitScript, Idle
<1>7. Idle.mine = NoRows /\ Idle.entries = 0
  BY DEF Idle
<1> QED
  BY <1>2, <1>4, <1>5, <1>6, <1>7 DEF Proper, Wrote

LEMMA Starting ==
  ASSUME Base, NEW s \in Sessions, NEW call, NEW row, NEW part, NEW reads, NEW next,
         Start(s, call, row, part, reads, next)
  PROVE  /\ tx[s].at = "idle" /\ tx[s].call = "none"
         /\ tx' = [o \in Sessions |-> tx'[o]] /\ Alone(s)
         /\ IsTx(tx'[s]) /\ tx'[s].call = call /\ tx'[s].at = next
         /\ tx'[s].row = row /\ tx'[s].part = part
         /\ DOMAIN tx'[s].seen = reads /\ \A r \in reads : tx'[s].seen[r] = db[r]
         /\ tx'[s].mine = NoRows /\ tx'[s].entries = 0
         /\ met' = met \cup {{call, tx[o].call} : o \in {o \in Sessions : tx[o].call # "none"}}
         /\ UNCHANGED <<db, ledger, superseded, given>>
<1>1. tx[s].at = "idle" /\ tx[s] = Idle
  BY DEF Start, At, Base, Proper, Typed
<1>2. tx[s].call = "none"
  BY <1>1 DEF Idle
<1> DEFINE seen == [r \in reads |-> db[r]]
           t == [Idle EXCEPT !.call = call, !.at = next, !.row = row, !.part = part, !.seen = seen]
<1>3. tx' = [tx EXCEPT ![s] = t]
  BY DEF Start
<1>4. DOMAIN seen = reads /\ \A r \in reads : seen[r] = db[r]
  OBVIOUS
<1> HIDE DEF seen
<1>5. /\ t.call = call /\ t.at = next /\ t.row = row /\ t.part = part
      /\ t.seen = seen /\ t.mine = NoRows /\ t.entries = 0
  BY DEF Idle
<1>6. IsTx(t)
  BY <1>5 DEF IsTx, Idle
<1> HIDE DEF t
<1>7. tx'[s] = t /\ Alone(s) /\ tx' = [o \in Sessions |-> tx'[o]]
  BY <1>3 DEF Base, Alone
<1>8. /\ met' = met \cup {{call, tx[o].call} : o \in {o \in Sessions : tx[o].call # "none"}}
      /\ UNCHANGED <<db, ledger, superseded, given>>
  BY DEF Start
<1> QED
  BY <1>1, <1>2, <1>4, <1>5, <1>6, <1>7, <1>8

LEMMA Reading ==
  ASSUME Base, NEW s \in Sessions, NEW r, NEW next, Read(s, r, next)
  PROVE  /\ tx' = [o \in Sessions |-> tx'[o]] /\ Alone(s)
         /\ GoesOn(tx[s], tx'[s], next)
         /\ HasSeen(tx[s], tx'[s], r, Row(s, r))
         /\ UNCHANGED <<db, ledger, superseded, given, met>>
<1> DEFINE seen == Put(r, Row(s, r), tx[s].seen)
           t == [tx[s] EXCEPT !.seen = seen, !.at = next]
<1>1. IsTx(tx[s])
  BY DEF Base, Proper, Typed
<1>2. /\ DOMAIN seen = {r} \cup DOMAIN tx[s].seen /\ seen[r] = Row(s, r)
      /\ \A q \in DOMAIN tx[s].seen : q # r => seen[q] = tx[s].seen[q]
  BY DEF Put
<1>3. tx' = [tx EXCEPT ![s] = t] /\ UNCHANGED <<db, ledger, superseded, given, met>>
  BY DEF Read
<1> HIDE DEF seen
<1>4. /\ t.call = tx[s].call /\ t.at = next /\ t.row = tx[s].row /\ t.part = tx[s].part
      /\ t.seen = seen /\ t.mine = tx[s].mine /\ t.entries = tx[s].entries
  BY <1>1 DEF IsTx
<1>5. IsTx(t)
  BY <1>1, <1>4 DEF IsTx
<1> HIDE DEF t
<1>6. tx'[s] = t /\ Alone(s) /\ tx' = [o \in Sessions |-> tx'[o]]
  BY <1>3 DEF Base, Alone
<1> QED
  BY <1>2, <1>3, <1>4, <1>5, <1>6 DEF GoesOn, HasSeen

LEMMA Writing ==
  ASSUME Base, NEW s \in Sessions, NEW row, NEW entry \in Int, NEW next, WriteWithEntry(s, row, entry, next)
  PROVE  /\ tx' = [o \in Sessions |-> tx'[o]] /\ Alone(s)
         /\ GoesOn(tx[s], tx'[s], next)
         /\ Target(s) # Null /\ \A o \in Sessions : o # s => Target(s) \notin DOMAIN tx[o].mine
         /\ HasWritten(tx[s], tx'[s], Target(s), row, entry)
         /\ UNCHANGED <<db, ledger, superseded, given, met>>
<1> DEFINE r == Target(s)
           mine == Put(r, row, tx[s].mine)
           t == [tx[s] EXCEPT !.mine = mine, !.at = next, !.entries = @ + entry]
<1>1. IsTx(tx[s])
  BY DEF Base, Proper, Typed
<1>2. tx' = [tx EXCEPT ![s] = t] /\ UNCHANGED <<db, ledger, superseded, given, met>>
  BY DEF WriteWithEntry
<1>3. r # Null /\ \A o \in Sessions : o # s => r \notin DOMAIN tx[o].mine
  BY DEF WriteWithEntry, Lockable, Held
<1> HIDE DEF r
<1>4. /\ DOMAIN mine = {r} \cup DOMAIN tx[s].mine /\ mine[r] = row
      /\ \A q \in DOMAIN tx[s].mine : q # r => mine[q] = tx[s].mine[q]
  BY DEF Put
<1> HIDE DEF mine
<1>5. /\ t.call = tx[s].call /\ t.at = next /\ t.row = tx[s].row /\ t.part = tx[s].part
      /\ t.seen = tx[s].seen /\ t.mine = mine /\ t.entries = tx[s].entries + entry
  BY <1>1 DEF IsTx
<1>6. IsTx(t)
  BY <1>1, <1>5 DEF IsTx
<1> HIDE DEF t
<1>7. tx'[s] = t /\ Alone(s) /\ tx' = [o \in Sessions |-> tx'[o]]
  BY <1>2 DEF Base, Alone
<1> QED
  BY <1>2, <1>3, <1>4, <1>5, <1>6, <1>7 DEF GoesOn, HasWritten, r

LEMMA Passing ==
  ASSUME Base, NEW s \in Sessions, NEW next, Pass(s, next)
  PROVE  /\ tx' = [o \in Sessions |-> tx'[o]] /\ Alone(s)
         /\ GoesOn(tx[s], tx'[s], next)
         /\ tx'[s].seen = tx[s].seen /\ tx'[s].mine = tx[s].mine
         /\ tx'[s].entries = tx[s].entries
         /\ UNCHANGED <<db, ledger, superseded, given, met>>
<1> DEFINE t == [tx[s] EXCEPT !.at = next]
<1>1. IsTx(tx[s])
  BY DEF Base, Proper, Typed
<1>2. tx' = [tx EXCEPT ![s] = t] /\ UNCHANGED <<db, ledger, superseded, given, met>>
  BY DEF Pass, Base
<1>3. /\ t.call = tx[s].call /\ t.at = next /\ t.row = tx[s].row /\ t.part = tx[s].part
      /\ t.seen = tx[s].seen /\ t.mine = tx[s].mine /\ t.entries = tx[s].entries
  BY <1>1 DEF IsTx
<1>4. IsTx(t)
  BY <1>1, <1>3 DEF IsTx
<1> HIDE DEF t
<1>5. tx'[s] = t /\ Alone(s) /\ tx' = [o \in Sessions |-> tx'[o]]
  BY <1>2 DEF Base, Alone
<1> QED
  BY <1>2, <1>3, <1>4, <1>5 DEF GoesOn

LEMMA Throwing ==
  ASSUME Base, NEW s \in Sessions, Throw(s)
  PROVE  /\ tx' = [o \in Sessions |-> tx'[o]] /\ Alone(s) /\ tx'[s] = Idle
         /\ UNCHANGED <<db, ledger, superseded, given, met>>
  BY DEF Throw, Base, Alone

LEMMA Committing ==
  ASSUME Base, NEW s \in Sessions, Commit(s)
  PROVE  /\ tx' = [o \in Sessions |-> tx'[o]] /\ Alone(s) /\ tx'[s] = Idle
         /\ tx[s].at = "commit"
         /\ DOMAIN db' = Rows
         /\ \A r \in Rows : db'[r] = IF r \in DOMAIN tx[s].mine THEN tx[s].mine[r] ELSE db[r]
         /\ ledger' = ledger + tx[s].entries
         /\ given' = IF tx[s].call = "refund" THEN given + tx[s].part ELSE given
         /\ superseded' \in BOOLEAN
         /\ UNCHANGED met
<1>1. tx' = [tx EXCEPT ![s] = Idle] /\ db' = [r \in Rows |-> Row(s, r)]
  BY DEF Commit
<1>2. tx' = [o \in Sessions |-> tx'[o]] /\ Alone(s) /\ tx'[s] = Idle
  BY <1>1 DEF Base, Alone
<1> QED
  BY <1>1, <1>2 DEF Commit, At, Row, Held
----------------------------------------------------------------------------
(* Base is kept.                                                           *)

LEMMA Names ==
  /\ "sale" \in Rows /\ "commission" \in Rows
  /\ \A p \in Payouts : p \in Rows /\ p # Null /\ p # "sale" /\ p # "commission" /\ p \notin Disputes
  /\ \A d \in Disputes : d \in Rows /\ d # Null /\ d # "sale" /\ d # "commission" /\ d \notin Payouts
  /\ "sale" # Null /\ "commission" # Null
  BY RaceConstants DEF Rows

LEMMA Targets ==
  ASSUME NEW s \in Sessions
  PROVE  /\ \/ At(s, "close sale") \/ At(s, "approve by hand") \/ At(s, "touch sale")
            \/ At(s, "hold sale") \/ At(s, "restore sale")
            => Target(s) = "sale"
         /\ At(s, "approve commission") \/ At(s, "settle commission") \/ At(s, "take commission")
            => Target(s) = "commission"
         /\ \/ At(s, "insert batch") \/ At(s, "set batch") \/ At(s, "pay batch")
            \/ At(s, "cancel batch") \/ At(s, "insert dispute") \/ At(s, "review dispute")
            \/ At(s, "close dispute")
            => Target(s) = tx[s].row
         /\ Target(s) # Null =>
              /\ At(s, "correct commission") => Target(s) = "commission" /\ Corrects(s)
              /\ At(s, "approve sale") => Target(s) = "sale" /\ Row(s, "sale").status = "pending"
              /\ At(s, "pay commission") =>
                   /\ Target(s) = "commission"
                   /\ Row(s, "commission").payout = tx[s].row
                   /\ Row(s, "commission").status = "payable"
              /\ At(s, "release commission") =>
                   Target(s) = "commission" /\ Row(s, "commission").payout = tx[s].row
  BY DEF Target, At

LEMMA Advance ==
  ASSUME Base, NEW s \in Sessions, Alone(s), tx' = [o \in Sessions |-> tx'[o]], db' = db,
         met \subseteq met',
         \A o \in Sessions : o # s /\ tx'[s].call # "none" /\ tx[o].call # "none" =>
           {tx'[s].call, tx[o].call} \in met',
         \A o \in Sessions : o # s => DOMAIN tx'[s].mine \cap DOMAIN tx[o].mine = {},
         Proper(tx'[s], db)
  PROVE  Base'
<1>1. ASSUME NEW o \in Sessions PROVE Proper(tx'[o], db')
  BY DEF Base, Alone
<1>2. ASSUME NEW p \in Sessions, NEW o \in Sessions, p # o
      PROVE  DOMAIN tx'[p].mine \cap DOMAIN tx'[o].mine = {}
  BY <1>2 DEF Base, Alone
<1>3. ASSUME NEW p \in Sessions, NEW o \in Sessions, p # o,
             tx'[p].call # "none", tx'[o].call # "none"
      PROVE  {tx'[p].call, tx'[o].call} \in met'
  <2>1. {tx'[p].call, tx'[o].call} = {tx'[o].call, tx'[p].call}
    OBVIOUS
  <2>2. CASE p = s
    BY <2>2, <1>3 DEF Alone
  <2>3. CASE o = s
    BY <2>1, <2>3, <1>3 DEF Alone
  <2>4. CASE p # s /\ o # s
    BY <2>4, <1>3 DEF Alone, Base, Meeting
  <2> QED
    BY <2>2, <2>3, <2>4
<1>4. DOMAIN tx' = Sessions
  OBVIOUS
<1> QED
  BY <1>1, <1>2, <1>3, <1>4 DEF Base, Meeting

\* The first statement of a call, and what the call saw.
First(call, next) ==
  \/ call \in OfSale /\ next = "close sale"
  \/ call = "cancel" /\ next = "read sale"
  \/ call = "approve" /\ next = "approve by hand"
  \/ call \in {"reattribute", "detach"} /\ next = "read commission"
  \/ call = "reverse" /\ next = "correct commission"
  \/ call = "approve commission" /\ next = "approve commission"
  \/ call = "settle" /\ next = "settle commission"
  \/ call = "release" /\ next = "look at sale"
  \/ call \in Draws /\ next = "insert batch"
  \/ call \in {"process", "fail"} /\ next = "set batch"
  \/ call = "pay" /\ next = "pay batch"
  \/ call = "cancel batch" /\ next = "cancel batch"
  \/ call = "dispute" /\ next = "remember sale"
  \/ call = "review" /\ next = "review dispute"
  \/ call \in Over /\ next = "peek at sale"

Saw(call, row, part, reads) ==
  /\ reads \subseteq Rows /\ part \in Nat
  /\ call = "refund" => "sale" \in reads /\ part <= Amount - db["sale"].refunded
  /\ call \in OfSale => "commission" \notin reads
  /\ call \in {"reverse"} \cup Draws => "commission" \in reads
  /\ call \in Promotions => db["commission"].status \in {"pending", "approved"}
  /\ call \in OfBatch => row \in Payouts
  /\ call \in Draws => db["commission"].payout = Null
  /\ call \in Marking => Live(row)
  /\ call \in OfDispute => row \in Disputes
  /\ call = "cancel" => row = "sale" \/ row \in Disputes
  /\ call \notin OfBatch \cup OfDispute \cup {"cancel"} => row \in {"sale", "commission", Null}
  /\ call = "dispute" => NoneOpen
  /\ call \in {"review"} \cup Over => db[row].status \in OpenStates

Begins(s, call, row, part, reads, next) ==
  Start(s, call, row, part, reads, next) /\ First(call, next) /\ Saw(call, row, part, reads)

LEMMA CallCases ==
  ASSUME Base, NEW s \in Sessions, Call(s)
  PROVE  \E call, row, part, reads, next : Begins(s, call, row, part, reads, next)
<1>1. \A call, row, part, reads, next :
        Start(s, call, row, part, reads, next) /\ First(call, next) /\ Saw(call, row, part, reads)
          => \E c, w, p, n, a : Begins(s, c, w, p, n, a)
  BY DEF Begins
<1>2. /\ {"sale"} \subseteq Rows /\ {"commission"} \subseteq Rows /\ {"commission", "sale"} \subseteq Rows
      /\ {} \subseteq Rows /\ \A r \in Payouts \cup Disputes : {r} \subseteq Rows /\ "commission" \notin {r}
  BY Names
<1>3. ASSUME NEW p \in Payouts, NEW to \in PayoutMoves[db[p].status]
      PROVE  Live(p)
  <2>1. db[p].status \in {"absent", "draft", "processing", "failed", "paid", "cancelled"}
    BY Names DEF Base, Fit, BatchRows
  <2> QED
    BY <1>3, <2>1 DEF PayoutMoves, Live
<1>14. db["commission"].status \in {"pending", "approved", "payable", "paid"} \cup Closed
  BY Names DEF Base, Fit, CommissionRows
<1>4. ASSUME NEW part \in 1..Amount, RefundConversion(s, part)
      PROVE  Start(s, "refund", "sale", part, {"sale"}, "close sale")
             /\ First("refund", "close sale") /\ Saw("refund", "sale", part, {"sale"})
  <2>1. part \in Nat
    BY RaceConstants
  <2> QED
    BY <1>2, <1>4, <2>1 DEF RefundConversion, First, Saw, OfSale, OfBatch, OfDispute, Draws, Marking, Over,
       Promotions
<1>5. ASSUME CancelConversion(s)
      PROVE  Start(s, "cancel", "sale", 0, {"sale"}, "close sale")
             /\ First("cancel", "close sale") /\ Saw("cancel", "sale", 0, {"sale"})
  BY <1>2, <1>5 DEF CancelConversion, First, Saw, OfSale, OfBatch, OfDispute, Draws, Marking, Over, Promotions
<1>6. ASSUME ApproveConversion(s)
      PROVE  Start(s, "approve", "sale", 0, {"sale"}, "approve by hand")
             /\ First("approve", "approve by hand") /\ Saw("approve", "sale", 0, {"sale"})
  BY <1>2, <1>6 DEF ApproveConversion, First, Saw, OfSale, OfBatch, OfDispute, Draws, Marking, Over, Promotions
<1>7. ASSUME NEW call \in {"reattribute", "detach"}, ReattributeConversion(s, call)
      PROVE  Start(s, call, "sale", 0, {"sale"}, "read commission")
             /\ First(call, "read commission") /\ Saw(call, "sale", 0, {"sale"})
  BY <1>2, <1>7 DEF ReattributeConversion, First, Saw, OfSale, OfBatch, OfDispute, Draws, Marking, Over, Promotions
<1>8. ASSUME ReverseCommission(s)
      PROVE  Start(s, "reverse", "commission", 0, {"commission"}, "correct commission")
             /\ First("reverse", "correct commission") /\ Saw("reverse", "commission", 0, {"commission"})
  BY <1>2, <1>8 DEF ReverseCommission, First, Saw, OfSale, OfBatch, OfDispute, Draws, Marking, Over, Promotions
<1>9. ASSUME ApproveCommission(s)
      PROVE  Start(s, "approve commission", "commission", 0, {"commission"}, "approve commission")
             /\ First("approve commission", "approve commission")
             /\ Saw("approve commission", "commission", 0, {"commission"})
  <2>1. db["commission"].status \in {"pending", "approved"}
    <3>1. "approved" \in CommissionMoves[db["commission"].status]
      BY <1>9 DEF ApproveCommission
    <3>2. db["commission"].status \in {"pending", "approved", "payable", "paid", "reversed", "void"}
      BY <1>14 DEF Closed
    <3> QED
      BY <3>1, <3>2 DEF CommissionMoves
  <2>2. Saw("approve commission", "commission", 0, {"commission"})
    BY <1>2, <2>1 DEF Saw, OfSale, OfBatch, OfDispute, Draws, Marking, Over
  <2> QED
    BY <1>9, <2>2 DEF ApproveCommission, First
<1>10. ASSUME SettleHoldingPeriods(s)
      PROVE  Start(s, "settle", "commission", 0, {"commission", "sale"}, "settle commission")
             /\ First("settle", "settle commission") /\ Saw("settle", "commission", 0, {"commission", "sale"})
  BY <1>2, <1>10 DEF SettleHoldingPeriods, Due, First, Saw, OfSale, OfBatch, OfDispute, Draws, Marking, Over, Promotions
<1>11. ASSUME ReleaseCommission(s)
      PROVE  Start(s, "release", "commission", 0, {"commission"}, "look at sale")
             /\ First("release", "look at sale") /\ Saw("release", "commission", 0, {"commission"})
  BY <1>2, <1>11 DEF ReleaseCommission, First, Saw, OfSale, OfBatch, OfDispute, Draws, Marking, Over, Promotions
<1>12. ASSUME NEW p \in Payouts, NEW call \in {"draw", "record"}, CreatePayoutBatch(s, p, call)
       PROVE  Start(s, call, p, 0, {"commission"}, "insert batch")
              /\ First(call, "insert batch") /\ Saw(call, p, 0, {"commission"})
  BY <1>2, <1>12 DEF CreatePayoutBatch, OnOffer, First, Saw, OfSale, OfBatch, OfDispute, Draws, Marking, Over,
     Promotions
<1>13. ASSUME NEW p \in Payouts, MarkPayout(s, p, "process", "processing")
      PROVE  Start(s, "process", p, 0, {p}, "set batch")
             /\ First("process", "set batch") /\ Saw("process", p, 0, {p})
  BY <1>2, <1>3, <1>13 DEF MarkPayout, First, Saw, OfSale, OfBatch, OfDispute, Draws, Marking, Over, Promotions
<1>15. ASSUME NEW p \in Payouts, MarkPayout(s, p, "fail", "failed")
      PROVE  Start(s, "fail", p, 0, {p}, "set batch")
             /\ First("fail", "set batch") /\ Saw("fail", p, 0, {p})
  BY <1>2, <1>3, <1>15 DEF MarkPayout, First, Saw, OfSale, OfBatch, OfDispute, Draws, Marking, Over, Promotions
<1>16. ASSUME NEW p \in Payouts, MarkPayoutPaid(s, p)
      PROVE  Start(s, "pay", p, 0, {p}, "pay batch")
             /\ First("pay", "pay batch") /\ Saw("pay", p, 0, {p})
  BY <1>2, <1>3, <1>16 DEF MarkPayoutPaid, First, Saw, OfSale, OfBatch, OfDispute, Draws, Marking, Over, Promotions
<1>17. ASSUME NEW p \in Payouts, CancelPayout(s, p)
      PROVE  Start(s, "cancel batch", p, 0, {p}, "cancel batch")
             /\ First("cancel batch", "cancel batch") /\ Saw("cancel batch", p, 0, {p})
  BY <1>2, <1>3, <1>17 DEF CancelPayout, First, Saw, OfSale, OfBatch, OfDispute, Draws, Marking, Over, Promotions
<1>18. ASSUME NEW d \in Disputes, OpenDispute(s, d)
      PROVE  Start(s, "dispute", d, 0, {}, "remember sale")
             /\ First("dispute", "remember sale") /\ Saw("dispute", d, 0, {})
  BY <1>2, <1>18 DEF OpenDispute, First, Saw, OfSale, OfBatch, OfDispute, Draws, Marking, Over, Promotions
<1>19. ASSUME NEW d \in Disputes, StartReview(s, d)
      PROVE  Start(s, "review", d, 0, {d}, "review dispute")
             /\ First("review", "review dispute") /\ Saw("review", d, 0, {d})
  BY <1>2, <1>19 DEF StartReview, OpenStates, First, Saw, OfSale, OfBatch, OfDispute, Draws, Marking, Over, Promotions
<1>20. ASSUME NEW d \in Disputes, NEW call \in {"withdraw", "resolve"}, EndDispute(s, d, call)
       PROVE  Start(s, call, d, 0, {d}, "peek at sale")
              /\ First(call, "peek at sale") /\ Saw(call, d, 0, {d})
  BY <1>2, <1>20 DEF EndDispute, First, Saw, OfSale, OfBatch, OfDispute, Draws, Marking, Over, Promotions
<1>21. ASSUME NEW d \in Disputes, ResolveByCancelling(s, d)
      PROVE  Start(s, "cancel", d, 0, {d}, "read sale")
             /\ First("cancel", "read sale") /\ Saw("cancel", d, 0, {d})
  BY <1>2, <1>21 DEF ResolveByCancelling, First, Saw, OfSale, OfBatch, OfDispute, Draws, Marking, Over, Promotions
<1>22. CASE \/ \E part \in 1..Amount : RefundConversion(s, part)
            \/ CancelConversion(s) \/ ApproveConversion(s)
            \/ \E call \in {"reattribute", "detach"} : ReattributeConversion(s, call)
            \/ ReverseCommission(s) \/ ApproveCommission(s)
            \/ SettleHoldingPeriods(s) \/ ReleaseCommission(s)
  <2> USE DEF Begins
  <2>1. CASE \E part \in 1..Amount : RefundConversion(s, part)
    BY <2>1, <1>4
  <2>2. CASE \E call \in {"reattribute", "detach"} : ReattributeConversion(s, call)
    BY <2>2, <1>7
  <2> QED
    BY <1>22, <2>1, <2>2, <1>5, <1>6, <1>8, <1>9, <1>10, <1>11
<1>23. CASE \E p \in Payouts :
              \/ \E call \in {"draw", "record"} : CreatePayoutBatch(s, p, call)
              \/ MarkPayout(s, p, "process", "processing") \/ MarkPayout(s, p, "fail", "failed")
              \/ MarkPayoutPaid(s, p) \/ CancelPayout(s, p)
  BY <1>23, <1>12, <1>13, <1>15, <1>16, <1>17 DEF Begins
<1>24. CASE \E d \in Disputes :
              \/ OpenDispute(s, d) \/ StartReview(s, d)
              \/ \E call \in {"withdraw", "resolve"} : EndDispute(s, d, call)
              \/ ResolveByCancelling(s, d)
  BY <1>24, <1>18, <1>19, <1>20, <1>21 DEF Begins
<1> QED
  BY <1>22, <1>23, <1>24 DEF Call

LEMMA BeginBase ==
  ASSUME Base, NEW s \in Sessions, NEW call, NEW row, NEW part, NEW reads, NEW next,
         Begins(s, call, row, part, reads, next)
  PROVE  Base'
<1> DEFINE u == tx'[s]
<1>1. /\ tx[s].at = "idle" /\ tx[s].call = "none"
      /\ tx' = [o \in Sessions |-> tx'[o]] /\ Alone(s)
      /\ IsTx(u) /\ u.call = call /\ u.at = next /\ u.row = row /\ u.part = part
      /\ DOMAIN u.seen = reads /\ \A r \in reads : u.seen[r] = db[r]
      /\ u.mine = NoRows /\ u.entries = 0
      /\ met' = met \cup {{call, tx[o].call} : o \in {o \in Sessions : tx[o].call # "none"}}
      /\ UNCHANGED <<db, ledger, superseded, given>>
  BY Starting DEF Begins
<1> HIDE DEF u
<1>2. First(call, next) /\ Saw(call, row, part, reads)
  BY DEF Begins
<1>3. DOMAIN u.mine = {}
  BY <1>1 DEF NoRows
<1>4. Script(u)
  <2>1. /\ next = "close sale" => call \in OfSale
        /\ next = "approve by hand" => call = "approve"
        /\ next \in {"read commission", "correct commission"} => call \in Corrections
        /\ next = "approve commission" => call = "approve commission"
        /\ next \in {"look at sale", "settle commission"} => call \in Settling
        /\ next = "insert batch" => call \in Draws
        /\ next = "set batch" => call \in {"process", "fail"}
        /\ next = "pay batch" => call = "pay"
        /\ next = "cancel batch" => call = "cancel batch"
        /\ next = "remember sale" => call = "dispute"
        /\ next = "review dispute" => call = "review"
        /\ next = "read sale" => call = "cancel"
        /\ next = "peek at sale" => call \in Over
    BY <1>2 DEF First, Settling, Corrections, Reattributions
  <2>2. next \in {"read commission", "correct commission"} => call \notin OfSale
    BY <1>2 DEF First, OfSale
  <2>3. next \in {"close sale", "approve by hand", "read commission", "correct commission",
                  "approve commission", "look at sale", "settle commission", "insert batch",
                  "set batch", "pay batch", "cancel batch", "remember sale", "review dispute",
                  "read sale", "peek at sale"}
    BY <1>2 DEF First
  <2>4. u.call = call /\ u.at = next
    BY <1>1
  <2>5. SaleScript(u, {})
    BY <2>1, <2>2, <2>3, <2>4 DEF SaleScript
  <2>6. BatchScript(u, {})
    BY <2>1, <2>3, <2>4 DEF BatchScript
  <2>7. DisputeScript(u, {})
    BY <2>1, <2>3, <2>4 DEF DisputeScript
  <2>8. CommitScript(u, {})
    BY <2>3, <2>4 DEF CommitScript
  <2> QED
    BY <1>3, <2>5, <2>6, <2>7, <2>8 DEF Script
<1>5. call \in Calls /\ next # "idle" /\ call # "none"
  BY <1>2 DEF First, OfSale, Calls, Draws, Over, Corrections, Reattributions, Promotions
<1>6. \A r \in Rows : Fit(r, db[r])
  BY DEF Base
<1>7. call = "refund" => db["sale"].refunded + part \in 0..Amount
  <2>1. db["sale"].refunded \in 0..Amount
    BY <1>6, Names DEF Fit, SaleRows
  <2> QED
    BY <2>1, <1>2, RaceConstants DEF Saw
<1>8. next \in UseCommission => "commission" \in reads
  BY <1>2 DEF First, Saw, UseCommission
<1>9. Typed(u)
  <2>1. reads \subseteq Rows /\ part \in Nat /\ (call = "refund" => "sale" \in reads)
    BY <1>2 DEF Saw
  <2>9. About(u)
    BY <1>1, <1>2 DEF Saw, About
  <2>2. \A r \in DOMAIN u.seen : r \in Rows /\ Fit(r, u.seen[r])
    BY <1>1, <1>6, <2>1
  <2>3. next \notin UseSale
    BY <1>2 DEF First, UseSale
  <2>4. call = "refund" => u.seen["sale"].refunded + part \in 0..Amount
    BY <1>1, <1>7, <2>1
  <2>5. u.call \in Calls \cup {"none"} /\ (u.call = "none" \/ u.at = "idle" => u = Idle)
    BY <1>1, <1>5
  <2>6. u.part \in Nat /\ u.entries \in Int
    BY <1>1, <2>1
  <2>7. \A r \in DOMAIN u.mine : r \in Rows /\ Fit(r, u.mine[r])
    BY <1>3
  <2> QED
    BY <1>1, <1>8, <2>1, <2>2, <2>3, <2>4, <2>5, <2>6, <2>7, <2>9 DEF Typed
<1>10. Wrote(u, db)
  BY <1>1, <1>3 DEF Wrote
<1>14. Scope(u)
  <2>1. call \in OfSale => ~HasRead(u)
    BY <1>1, <1>2 DEF Saw, HasRead
  <2> QED
    BY <1>1, <1>3, <2>1 DEF Scope
<1>11. Proper(u, db)
  BY <1>4, <1>9, <1>10, <1>14 DEF Proper
<1>12. met \subseteq met'
  BY <1>1
<1>13. ASSUME NEW o \in Sessions, tx[o].call # "none" PROVE {call, tx[o].call} \in met'
  BY <1>1, <1>13
<1> QED
  BY <1>1, <1>3, <1>11, <1>12, <1>13, Advance DEF u

\* A step of a session within its call, or the end of it that leaves nothing.
Progress(s) ==
  LET t == tx[s]
      u == tx'[s]
  IN  /\ Alone(s) /\ t.call # "none" /\ UNCHANGED <<db, ledger, superseded, given, met>>
      /\ \/ u = Idle
         \/ /\ u.call = t.call /\ u.row = t.row /\ u.part = t.part
            /\ DOMAIN t.mine \subseteq DOMAIN u.mine
            /\ t.call = "refund" => u.seen["sale"] = t.seen["sale"]
            /\ HasRead(u) => \/ u.seen["commission"] = db["commission"]
                             \/ HasRead(t) /\ u.seen["commission"] = t.seen["commission"]
            /\ HasHeld(u) => \/ HasHeld(t) \/ "sale" \in DOMAIN u.mine
                             \/ db["sale"].status \notin {"pending", "approved"}

LEMMA OpenCall ==
  ASSUME Base, NEW s \in Sessions, tx[s].at # "idle"
  PROVE  /\ tx[s].call \in Calls /\ tx[s].call # "none"
         /\ Typed(tx[s]) /\ Scope(tx[s]) /\ Script(tx[s]) /\ Wrote(tx[s], db)
         /\ tx[s].part \in Nat /\ tx[s].entries \in Int
         /\ \A o \in Sessions : o # s /\ tx[o].call # "none" => {tx[s].call, tx[o].call} \in met
         /\ \A o \in Sessions : o # s => DOMAIN tx[s].mine \cap DOMAIN tx[o].mine = {}
<1>1. Typed(tx[s]) /\ Scope(tx[s]) /\ Script(tx[s]) /\ Wrote(tx[s], db)
  BY DEF Base, Proper
<1>2. tx[s].part \in Nat /\ tx[s].entries \in Int /\ tx[s].call \in Calls \cup {"none"}
  BY <1>1 DEF Typed
<1>3. tx[s].call # "none"
  <2>1. Idle.at = "idle"
    BY DEF Idle
  <2>2. tx[s].call = "none" => tx[s] = Idle
    BY <1>1 DEF Typed
  <2> QED
    BY <2>1, <2>2
<1> QED
  BY <1>1, <1>2, <1>3 DEF Base, Meeting

LEMMA Zero == 0 \in Int
  OBVIOUS

LEMMA IntegerSum ==
  ASSUME NEW a \in Int, NEW b \in Int, NEW c, c = a + b
  PROVE  c \in Int /\ (b = 0 => c = a)
  OBVIOUS

LEMMA ReadBase ==
  ASSUME Base, NEW s \in Sessions, NEW r \in Rows, NEW next, Read(s, r, next),
         tx[s].at # "idle", next # "idle", next \in UseCommission => r = "commission",
         "commission" \notin DOMAIN tx[s].mine,
         tx[s].call = "refund" => r # "sale",
         next \in UseSale => r = "sale",
         tx[s].call \in OfSale /\ r = "commission" => "sale" \in DOMAIN tx[s].mine,
         HasHeld(tx'[s]) => db["sale"].status \notin {"pending", "approved"},
         Script(tx'[s])
  PROVE  Base' /\ Progress(s)
<1> DEFINE t == tx[s]
           u == tx'[s]
<1>0. /\ tx' = [o \in Sessions |-> tx'[o]] /\ Alone(s) /\ UNCHANGED <<db, ledger, superseded, given, met>>
      /\ GoesOn(t, u, next) /\ HasSeen(t, u, r, Row(s, r))
  BY Reading
<1>1. /\ tx' = [o \in Sessions |-> tx'[o]] /\ Alone(s)
      /\ IsTx(u) /\ u.call = t.call /\ u.row = t.row /\ u.part = t.part /\ u.at = next
      /\ DOMAIN u.seen = {r} \cup DOMAIN t.seen
      /\ u.seen[r] = Row(s, r)
      /\ \A q \in DOMAIN t.seen : q # r => u.seen[q] = t.seen[q]
      /\ u.mine = t.mine /\ u.entries = t.entries
      /\ UNCHANGED <<db, ledger, superseded, given, met>>
  <2> HIDE DEF t, u
  <2> QED
    BY <1>0 DEF GoesOn, HasSeen
<1>2. /\ t.call \in Calls /\ t.call # "none" /\ Typed(t) /\ Scope(t) /\ Wrote(t, db)
      /\ t.part \in Nat /\ t.entries \in Int
      /\ \A o \in Sessions : o # s => DOMAIN t.mine \cap DOMAIN tx[o].mine = {}
      /\ \A o \in Sessions : o # s /\ tx[o].call # "none" => {t.call, tx[o].call} \in met
  BY OpenCall
<1>3. Row(s, r) = IF r \in DOMAIN t.mine THEN t.mine[r] ELSE db[r]
  BY DEF Row, Held
<1>4. Fit(r, Row(s, r))
  <2>1. r \in DOMAIN t.mine => Fit(r, t.mine[r])
    BY <1>2 DEF Typed
  <2>2. Fit(r, db[r])
    BY DEF Base
  <2> QED
    BY <2>1, <2>2, <1>3
<1> HIDE DEF t, u
<1>5. \A q \in DOMAIN u.seen : q \in Rows /\ Fit(q, u.seen[q])
  BY <1>1, <1>2, <1>4 DEF Typed
<1>6. t.call = "refund" =>
        "sale" \in DOMAIN t.seen /\ u.seen["sale"] = t.seen["sale"] /\ "sale" \in DOMAIN u.seen
  <2>1. t.call = "refund" => "sale" \in DOMAIN t.seen
    BY <1>2 DEF Typed
  <2> QED
    BY <2>1, <1>1 DEF t
<1>7. HasRead(u) => \/ u.seen["commission"] = db["commission"]
                    \/ HasRead(t) /\ u.seen["commission"] = t.seen["commission"]
  <2>1. CASE r = "commission"
    BY <2>1, <1>1, <1>3 DEF t
  <2>2. CASE r # "commission"
    BY <2>2, <1>1 DEF HasRead
  <2> QED
    BY <2>1, <2>2
<1>8. Typed(u)
  <2>1. u.call \in Calls \cup {"none"} /\ (u.call = "none" \/ u.at = "idle" => u = Idle)
    BY <1>1, <1>2
  <2>2. u.part \in Nat /\ u.entries \in Int
    BY <1>1, <1>2
  <2>3. About(u)
    BY <1>1, <1>2 DEF Typed, About
  <2>4. \A q \in DOMAIN u.mine : q \in Rows /\ Fit(q, u.mine[q])
    BY <1>1, <1>2 DEF Typed
  <2>5. u.call = "refund" => "sale" \in DOMAIN u.seen /\ u.seen["sale"].refunded + u.part \in 0..Amount
    BY <1>1, <1>2, <1>6 DEF Typed
  <2>6. u.at \in UseCommission => "commission" \in DOMAIN u.seen
    BY <1>1
  <2>7. u.at \in UseSale => "sale" \in DOMAIN u.seen
    BY <1>1
  <2> QED
    BY <1>1, <1>5, <2>1, <2>2, <2>3, <2>4, <2>5, <2>6, <2>7 DEF Typed
<1>9. Wrote(u, db)
  <2>1. "commission" \notin DOMAIN u.mine
    BY <1>1 DEF t
  <2>2. "sale" \in DOMAIN u.mine => WroteSale(u, u.mine["sale"], db["sale"])
    BY <1>1, <1>2, <1>6 DEF Wrote, WroteSale
  <2>3. u.row \in DOMAIN u.mine /\ u.row \in Payouts \cup Disputes => WroteRow(u, u.mine[u.row])
    BY <1>1, <1>2 DEF Wrote, WroteRow
  <2> QED
    BY <2>1, <2>2, <2>3, <1>1, <1>2 DEF Wrote
<1>13. Scope(u)
  <2>1. u.call \in OfSale /\ HasRead(u) => "sale" \in DOMAIN u.mine
    <3>1. CASE r = "commission"
      BY <3>1, <1>1 DEF t
    <3>2. CASE r # "commission"
      BY <3>2, <1>1, <1>2 DEF Scope, HasRead
    <3> QED
      BY <3>1, <3>2
  <2> QED
    BY <2>1, <1>1, <1>2 DEF Scope
<1>10. Proper(u, db)
  BY <1>8, <1>9, <1>13 DEF Proper, u
<1>11. \A o \in Sessions : o # s => DOMAIN u.mine \cap DOMAIN tx[o].mine = {}
  BY <1>1, <1>2
<1>12. Base'
  BY <1>1, <1>2, <1>10, <1>11, Advance DEF u
<1> QED
  BY <1>1, <1>2, <1>6, <1>7, <1>12 DEF Progress, u, t

LEMMA WriteBase ==
  ASSUME Base, NEW s \in Sessions, NEW row, NEW entry \in Int, NEW next,
         WriteWithEntry(s, row, entry, next),
         tx[s].at # "idle", next \notin {"idle"} \cup UseCommission,
         Target(s) \in {"sale", "commission", tx[s].row}, Target(s) \in Rows, Fit(Target(s), row),
         Target(s) = "sale" => tx[s].call \in SaleWriters,
         Target(s) = "commission" => tx[s].call \in CommissionWriters,
         next \in UseSale => "sale" \in DOMAIN tx[s].seen,
         HasHeld(tx'[s]) => HasHeld(tx[s]) \/ Target(s) = "sale",
         Script(tx'[s]),
         Target(s) = "sale" => WroteSale(tx'[s], row, db["sale"]),
         Target(s) = "commission" => WroteCommission(tx'[s], row, db["commission"]),
         Target(s) \in Payouts \cup Disputes => WroteRow(tx'[s], row),
         entry # 0 => Target(s) = "commission" /\ tx[s].call \in Corrections
  PROVE  Base' /\ Progress(s)
<1> DEFINE t == tx[s]
           u == tx'[s]
           r == Target(s)
<1>0. /\ tx' = [o \in Sessions |-> tx'[o]] /\ Alone(s) /\ UNCHANGED <<db, ledger, superseded, given, met>>
      /\ GoesOn(t, u, next) /\ HasWritten(t, u, r, row, entry)
      /\ r # Null /\ \A o \in Sessions : o # s => r \notin DOMAIN tx[o].mine
  BY Writing
<1>1. /\ tx' = [o \in Sessions |-> tx'[o]] /\ Alone(s)
      /\ IsTx(u) /\ u.call = t.call /\ u.row = t.row /\ u.part = t.part /\ u.at = next
      /\ r # Null /\ \A o \in Sessions : o # s => r \notin DOMAIN tx[o].mine
      /\ DOMAIN u.mine = {r} \cup DOMAIN t.mine
      /\ u.mine[r] = row
      /\ \A q \in DOMAIN t.mine : q # r => u.mine[q] = t.mine[q]
      /\ u.seen = t.seen /\ u.entries = t.entries + entry
      /\ UNCHANGED <<db, ledger, superseded, given, met>>
  <2> HIDE DEF t, u, r
  <2> QED
    BY <1>0 DEF GoesOn, HasWritten
<1>2. /\ t.call \in Calls /\ t.call # "none" /\ Typed(t) /\ Scope(t) /\ Wrote(t, db)
      /\ t.part \in Nat /\ t.entries \in Int
      /\ \A o \in Sessions : o # s => DOMAIN t.mine \cap DOMAIN tx[o].mine = {}
      /\ \A o \in Sessions : o # s /\ tx[o].call # "none" => {t.call, tx[o].call} \in met
  BY OpenCall
<1>3. /\ r \in Rows /\ Fit(r, row) /\ Script(u)
      /\ r = "sale" => WroteSale(u, row, db["sale"])
      /\ r = "commission" => WroteCommission(u, row, db["commission"])
      /\ r \in Payouts \cup Disputes => WroteRow(u, row)
      /\ entry # 0 => r = "commission" /\ t.call \in Corrections
      /\ next \in UseSale => "sale" \in DOMAIN t.seen
      /\ HasHeld(u) => HasHeld(t) \/ r = "sale"
      /\ r \in {"sale", "commission", t.row}
      /\ r = "sale" => t.call \in SaleWriters
      /\ r = "commission" => t.call \in CommissionWriters
  OBVIOUS
<1> HIDE DEF t, u, r
<1>10. u.entries \in Int /\ (entry = 0 => u.entries = t.entries)
  <2>1. u.entries = t.entries + entry
    BY <1>1
  <2>2. t.entries \in Int
    BY <1>2
  <2> QED
    BY <2>1, <2>2, IntegerSum
<1>11. HasRead(u) <=> HasRead(t)
  BY <1>1 DEF HasRead
<1>4. Typed(u)
  <2>1. u.call \in Calls \cup {"none"} /\ (u.call = "none" \/ u.at = "idle" => u = Idle)
    BY <1>1, <1>2
  <2>2. u.part \in Nat /\ u.entries \in Int
    BY <1>1, <1>2, <1>10
  <2>3. About(u)
    BY <1>1, <1>2 DEF Typed, About
  <2>4. \A q \in DOMAIN u.mine : q \in Rows /\ Fit(q, u.mine[q])
    BY <1>1, <1>2, <1>3 DEF Typed
  <2>5. u.call = "refund" => "sale" \in DOMAIN u.seen /\ u.seen["sale"].refunded + u.part \in 0..Amount
    BY <1>1, <1>2 DEF Typed
  <2>6. u.at \notin UseCommission
    BY <1>1
  <2>7. u.at \in UseSale => "sale" \in DOMAIN u.seen
    BY <1>1, <1>3
  <2>8. \A q \in DOMAIN u.seen : q \in Rows /\ Fit(q, u.seen[q])
    BY <1>1, <1>2 DEF Typed
  <2> QED
    BY <1>1, <2>1, <2>2, <2>3, <2>4, <2>5, <2>6, <2>7, <2>8 DEF Typed
<1>5. Wrote(u, db)
  <2>1. "sale" \in DOMAIN u.mine => WroteSale(u, u.mine["sale"], db["sale"])
    <3>1. CASE r = "sale"
      BY <3>1, <1>1, <1>3
    <3>2. CASE r # "sale"
      BY <3>2, <1>1, <1>2 DEF Wrote, WroteSale
    <3> QED
      BY <3>1, <3>2
  <2>2. "commission" \in DOMAIN u.mine => WroteCommission(u, u.mine["commission"], db["commission"])
    <3>1. CASE r = "commission"
      BY <3>1, <1>1, <1>3
    <3>2. CASE r # "commission"
      <4>1. u.entries = t.entries
        BY <3>2, <1>3, <1>10
      <4> HIDE DEF HasRead
      <4> QED
        BY <3>2, <4>1, <1>1, <1>2, <1>11 DEF Wrote, WroteCommission
    <3> QED
      BY <3>1, <3>2
  <2>3. u.row \in DOMAIN u.mine /\ u.row \in Payouts \cup Disputes => WroteRow(u, u.mine[u.row])
    <3>1. CASE r = t.row
      BY <3>1, <1>1, <1>3
    <3>2. CASE r # t.row
      BY <3>2, <1>1, <1>2 DEF Wrote, WroteRow
    <3> QED
      BY <3>1, <3>2
  <2>4. u.entries # 0 => "commission" \in DOMAIN u.mine /\ u.call \in Corrections
    <3>1. CASE entry # 0
      BY <3>1, <1>1, <1>3
    <3>2. CASE entry = 0
      <4>1. u.entries = t.entries
        BY <3>2, <1>10
      <4> QED
        BY <4>1, <1>1, <1>2 DEF Wrote
    <3> QED
      BY <3>1, <3>2
  <2> QED
    BY <2>1, <2>2, <2>3, <2>4 DEF Wrote
<1>12. Scope(u)
  BY <1>1, <1>2, <1>3, <1>11 DEF Scope
<1>6. Proper(u, db)
  BY <1>3, <1>4, <1>5, <1>12 DEF Proper
<1>7. \A o \in Sessions : o # s => DOMAIN u.mine \cap DOMAIN tx[o].mine = {}
  BY <1>1, <1>2
<1>8. Base'
  BY <1>1, <1>2, <1>6, <1>7, Advance DEF u
<1>9. HasHeld(u) => HasHeld(t) \/ "sale" \in DOMAIN u.mine
  BY <1>1, <1>3
<1> QED
  BY <1>1, <1>2, <1>8, <1>9, <1>11 DEF Progress, u, t

LEMMA PassBase ==
  ASSUME Base, NEW s \in Sessions, NEW next, Pass(s, next),
         tx[s].at # "idle", next \notin {"idle"} \cup UseCommission,
         next \in UseSale => "sale" \in DOMAIN tx[s].seen,
         HasHeld(tx'[s]) => HasHeld(tx[s]),
         Script(tx'[s])
  PROVE  Base' /\ Progress(s)
<1> DEFINE t == tx[s]
           u == tx'[s]
<1>1. /\ tx' = [o \in Sessions |-> tx'[o]] /\ Alone(s)
      /\ IsTx(u) /\ u.call = t.call /\ u.row = t.row /\ u.part = t.part /\ u.at = next
      /\ u.seen = t.seen /\ u.mine = t.mine /\ u.entries = t.entries
      /\ UNCHANGED <<db, ledger, superseded, given, met>>
  BY Passing DEF GoesOn
<1>2. /\ t.call \in Calls /\ t.call # "none" /\ Typed(t) /\ Scope(t) /\ Wrote(t, db)
      /\ t.part \in Nat /\ t.entries \in Int
      /\ \A o \in Sessions : o # s => DOMAIN t.mine \cap DOMAIN tx[o].mine = {}
      /\ \A o \in Sessions : o # s /\ tx[o].call # "none" => {t.call, tx[o].call} \in met
  BY OpenCall
<1>3. /\ (HasHeld(u) => HasHeld(t)) /\ Script(u)
      /\ next \in UseSale => "sale" \in DOMAIN t.seen
  OBVIOUS
<1> HIDE DEF t, u
<1>9. HasRead(u) <=> HasRead(t)
  BY <1>1 DEF HasRead
<1>4. Typed(u)
  <2>1. u.call \in Calls \cup {"none"} /\ (u.call = "none" \/ u.at = "idle" => u = Idle)
    BY <1>1, <1>2
  <2>2. u.part \in Nat /\ u.entries \in Int
    BY <1>1, <1>2
  <2>3. About(u)
    BY <1>1, <1>2 DEF Typed, About
  <2>4. \A q \in DOMAIN u.mine : q \in Rows /\ Fit(q, u.mine[q])
    BY <1>1, <1>2 DEF Typed
  <2>5. u.call = "refund" => "sale" \in DOMAIN u.seen /\ u.seen["sale"].refunded + u.part \in 0..Amount
    BY <1>1, <1>2 DEF Typed
  <2>6. u.at \notin UseCommission
    BY <1>1
  <2>7. \A q \in DOMAIN u.seen : q \in Rows /\ Fit(q, u.seen[q])
    BY <1>1, <1>2 DEF Typed
  <2>8. u.at \in UseSale => "sale" \in DOMAIN u.seen
    BY <1>1, <1>3
  <2> QED
    BY <1>1, <2>1, <2>2, <2>3, <2>4, <2>5, <2>6, <2>7, <2>8 DEF Typed
<1>5. Wrote(u, db)
  <2>1. "sale" \in DOMAIN u.mine => WroteSale(u, u.mine["sale"], db["sale"])
    BY <1>1, <1>2 DEF Wrote, WroteSale
  <2>2. "commission" \in DOMAIN u.mine => WroteCommission(u, u.mine["commission"], db["commission"])
    BY <1>1, <1>2, <1>9 DEF Wrote, WroteCommission
  <2>3. u.row \in DOMAIN u.mine /\ u.row \in Payouts \cup Disputes => WroteRow(u, u.mine[u.row])
    BY <1>1, <1>2 DEF Wrote, WroteRow
  <2> QED
    BY <1>1, <1>2, <2>1, <2>2, <2>3 DEF Wrote
<1>10. Scope(u)
  BY <1>1, <1>2, <1>9 DEF Scope
<1>6. Proper(u, db)
  BY <1>3, <1>4, <1>5, <1>10 DEF Proper
<1>7. \A o \in Sessions : o # s => DOMAIN u.mine \cap DOMAIN tx[o].mine = {}
  BY <1>1, <1>2
<1>8. Base'
  BY <1>1, <1>2, <1>6, <1>7, Advance DEF u
<1> QED
  BY <1>1, <1>2, <1>3, <1>8, <1>9 DEF Progress, u, t

LEMMA ThrowBase ==
  ASSUME Base, NEW s \in Sessions, Throw(s), tx[s].at # "idle"
  PROVE  Base' /\ Progress(s)
<1>1. /\ tx' = [o \in Sessions |-> tx'[o]] /\ Alone(s) /\ tx'[s] = Idle
      /\ UNCHANGED <<db, ledger, superseded, given, met>>
  BY Throwing
<1>2. tx[s].call # "none" /\ Idle.call = "none" /\ DOMAIN Idle.mine = {}
  BY OpenCall DEF Idle, NoRows
<1>3. Base'
  BY <1>1, <1>2, IdleProper, Advance
<1> QED
  BY <1>1, <1>2, <1>3 DEF Progress

LEMMA AfterWrite ==
  ASSUME Base, NEW s \in Sessions, NEW row, NEW entry \in Int, NEW next, WriteWithEntry(s, row, entry, next)
  PROVE  /\ tx'[s].call = tx[s].call /\ tx'[s].row = tx[s].row /\ tx'[s].part = tx[s].part
         /\ tx'[s].at = next
         /\ DOMAIN tx'[s].mine = {Target(s)} \cup DOMAIN tx[s].mine
         /\ tx'[s].seen = tx[s].seen
<1>1. GoesOn(tx[s], tx'[s], next) /\ HasWritten(tx[s], tx'[s], Target(s), row, entry)
  BY Writing
<1> QED
  BY <1>1 DEF GoesOn, HasWritten

\* A write without an entry.
LEMMA AfterPlain ==
  ASSUME Base, NEW s \in Sessions, NEW row, NEW next, Write(s, row, next)
  PROVE  /\ tx'[s].call = tx[s].call /\ tx'[s].row = tx[s].row /\ tx'[s].part = tx[s].part
         /\ tx'[s].at = next
         /\ DOMAIN tx'[s].mine = {Target(s)} \cup DOMAIN tx[s].mine
         /\ tx'[s].seen = tx[s].seen
<1>1. WriteWithEntry(s, row, 0, next) /\ 0 \in Int
  BY DEF Write
<1> HIDE DEF Write
<1> QED
  BY <1>1, AfterWrite

LEMMA PlainBase ==
  ASSUME Base, NEW s \in Sessions, NEW row, NEW next, Write(s, row, next),
         tx[s].at # "idle", next \notin {"idle"} \cup UseCommission,
         Target(s) \in {"sale", "commission", tx[s].row}, Target(s) \in Rows, Fit(Target(s), row),
         Target(s) = "sale" => tx[s].call \in SaleWriters,
         Target(s) = "commission" => tx[s].call \in CommissionWriters,
         next \in UseSale => "sale" \in DOMAIN tx[s].seen,
         HasHeld(tx'[s]) => HasHeld(tx[s]) \/ Target(s) = "sale",
         Script(tx'[s]),
         Target(s) = "sale" => WroteSale(tx'[s], row, db["sale"]),
         Target(s) = "commission" => WroteCommission(tx'[s], row, db["commission"]),
         Target(s) \in Payouts \cup Disputes => WroteRow(tx'[s], row)
  PROVE  Base' /\ Progress(s)
<1>1. WriteWithEntry(s, row, 0, next)
  BY DEF Write
<1> QED
  BY <1>1, Zero, WriteBase

LEMMA AfterRead ==
  ASSUME Base, NEW s \in Sessions, NEW r, NEW next, Read(s, r, next)
  PROVE  /\ tx'[s].call = tx[s].call /\ tx'[s].row = tx[s].row
         /\ tx'[s].at = next /\ tx'[s].mine = tx[s].mine
<1>1. GoesOn(tx[s], tx'[s], next) /\ HasSeen(tx[s], tx'[s], r, Row(s, r))
  BY Reading
<1> QED
  BY <1>1 DEF GoesOn, HasSeen

LEMMA AfterPass ==
  ASSUME Base, NEW s \in Sessions, NEW next, Pass(s, next)
  PROVE  /\ tx'[s].call = tx[s].call /\ tx'[s].row = tx[s].row
         /\ tx'[s].at = next /\ tx'[s].mine = tx[s].mine
<1>1. GoesOn(tx[s], tx'[s], next) /\ tx'[s].mine = tx[s].mine
  BY Passing
<1> QED
  BY <1>1 DEF GoesOn

LEMMA RowsFit ==
  ASSUME Base, NEW s \in Sessions
  PROVE  /\ db["sale"] \in SaleRows /\ db["commission"] \in CommissionRows
         /\ \A p \in Payouts : db[p] \in BatchRows /\ Row(s, p) \in BatchRows
         /\ \A d \in Disputes : db[d] \in DisputeRows /\ Row(s, d) \in DisputeRows
         /\ Row(s, "sale") \in SaleRows /\ Row(s, "commission") \in CommissionRows
         /\ \A r \in Rows : r \notin DOMAIN tx[s].mine => Row(s, r) = db[r]
         /\ "sale" \in DOMAIN tx[s].seen => tx[s].seen["sale"] \in SaleRows
         /\ "commission" \in DOMAIN tx[s].seen => tx[s].seen["commission"] \in CommissionRows
<1>1. \A r \in Rows : Fit(r, db[r])
  BY DEF Base
<1>2. \A r \in DOMAIN tx[s].seen : Fit(r, tx[s].seen[r])
  BY DEF Base, Proper, Typed
<1>3. \A r \in DOMAIN tx[s].mine : Fit(r, tx[s].mine[r])
  BY DEF Base, Proper, Typed
<1>4. \A r \in Rows : Fit(r, Row(s, r))
  BY <1>1, <1>3 DEF Row, Held
<1> QED
  BY <1>1, <1>2, <1>4, Names DEF Fit, Row, Held

\* A session is at one statement.
LEMMA SaleOnly ==
  ASSUME NEW u, SaleScript(u, DOMAIN u.mine),
         u.at \in {"close sale", "approve by hand", "read commission", "correct commission", "touch sale",
                   "approve commission", "look at sale", "settle commission", "approve sale"}
  PROVE  Script(u)
  BY DEF Script, BatchScript, DisputeScript, CommitScript

LEMMA BatchOnly ==
  ASSUME NEW u, BatchScript(u, DOMAIN u.mine),
         u.at \in {"insert batch", "take commission", "set batch", "pay batch", "pay commission",
                   "cancel batch", "release commission"}
  PROVE  Script(u)
  BY DEF Script, SaleScript, DisputeScript, CommitScript

LEMMA DisputeOnly ==
  ASSUME NEW u, DisputeScript(u, DOMAIN u.mine),
         u.at \in {"remember sale", "check sale", "hold sale", "insert dispute", "review dispute",
                   "read sale", "peek at sale", "restore sale", "close dispute"}
  PROVE  Script(u)
  BY DEF Script, SaleScript, BatchScript, CommitScript

LEMMA CommitOnly ==
  ASSUME NEW u, CommitScript(u, DOMAIN u.mine), u.at = "commit"
  PROVE  Script(u)
  BY DEF Script, SaleScript, BatchScript, DisputeScript

\* Corrections of the commission go on to the sale, to the dispute or to the end.
LEMMA CorrectionGoesOn ==
  ASSUME Base, NEW s \in Sessions,
         tx[s].at \in {"read commission", "correct commission"},
         tx'[s].call = tx[s].call, tx'[s].row = tx[s].row, tx'[s].at = AfterCorrection(s),
         DOMAIN tx[s].mine \subseteq DOMAIN tx'[s].mine,
         DOMAIN tx'[s].mine \subseteq DOMAIN tx[s].mine \cup {"commission"}
  PROVE  /\ Script(tx'[s]) /\ ~HasHeld(tx'[s])
         /\ AfterCorrection(s) \notin {"idle"} \cup UseCommission \cup UseSale
<1> DEFINE u == tx'[s]
<1>0. /\ u.call = tx[s].call /\ u.row = tx[s].row /\ u.at = AfterCorrection(s)
      /\ DOMAIN tx[s].mine \subseteq DOMAIN u.mine
      /\ DOMAIN u.mine \subseteq DOMAIN tx[s].mine \cup {"commission"}
  OBVIOUS
<1> HIDE DEF u
<1>1. Typed(tx[s]) /\ SaleScript(tx[s], DOMAIN tx[s].mine)
  BY OpenCall DEF Script
<1>2. /\ tx[s].call \in Corrections /\ DOMAIN tx[s].mine \subseteq {"sale"}
      /\ tx[s].call \in OfSale => "sale" \in DOMAIN tx[s].mine
      /\ tx[s].call \in {"refund", "reverse"} => tx[s].row \notin Disputes
  BY <1>1, Names DEF SaleScript, Typed, About, OfBatch, OfDispute, Over, Draws, Marking
<1>3. ~HasHeld(u)
  BY <1>0, <1>2 DEF HasHeld, Corrections, Reattributions
<1>4. CASE tx[s].call \in Reattributions
  <2>1. u.at = "touch sale" /\ AfterCorrection(s) = "touch sale"
    BY <1>0, <1>4 DEF AfterCorrection
  <2>2. SaleScript(u, DOMAIN u.mine)
    BY <1>0, <1>2, <1>4, <2>1 DEF SaleScript
  <2> QED
    BY <1>3, <2>1, <2>2, SaleOnly DEF UseCommission, UseSale, u
<1>5. CASE tx[s].call \notin Reattributions /\ tx[s].row \in Disputes
  <2>1. u.at = "close dispute" /\ AfterCorrection(s) = "close dispute"
    BY <1>0, <1>5 DEF AfterCorrection, Rest
  <2>2. tx[s].call = "cancel"
    BY <1>2, <1>5 DEF Corrections
  <2>3. DisputeScript(u, DOMAIN u.mine)
    BY <1>0, <1>2, <1>5, <2>1, <2>2 DEF DisputeScript, OfSale
  <2> QED
    BY <1>3, <2>1, <2>3, DisputeOnly DEF UseCommission, UseSale, u
<1>6. CASE tx[s].call \notin Reattributions /\ tx[s].row \notin Disputes
  <2>1. u.at = "commit" /\ AfterCorrection(s) = "commit"
    BY <1>0, <1>6 DEF AfterCorrection, Rest
  <2>2. tx[s].call \notin Draws \cup Over \cup {"cancel batch"}
    BY <1>2, <1>6 DEF Corrections, Reattributions, Draws, Over
  <2>3. CommitScript(u, DOMAIN u.mine)
    BY <1>0, <1>2, <2>2 DEF CommitScript
  <2> QED
    BY <1>3, <2>1, <2>3, CommitOnly DEF UseCommission, UseSale, u
<1> QED
  BY <1>4, <1>5, <1>6 DEF u

\* The statements that write the sale.
LEMMA CloseSaleBase ==
  ASSUME Base, NEW s \in Sessions, CloseSale(s)
  PROVE  Base' /\ Progress(s)
<1>1. tx[s].at = "close sale" /\ Write(s, ClosedSale(s), "read commission")
  BY DEF CloseSale, At
<1>2. Typed(tx[s]) /\ SaleScript(tx[s], DOMAIN tx[s].mine)
  BY <1>1, OpenCall DEF Script
<1>3. tx[s].call \in OfSale /\ DOMAIN tx[s].mine = {}
  BY <1>1, <1>2 DEF SaleScript
<1>4. Target(s) = "sale" /\ Row(s, "sale") = db["sale"] /\ db["sale"] \in SaleRows
  BY <1>1, <1>3, Targets, RowsFit, Names DEF At
<1>5. tx[s].call = "refund" => tx[s].seen["sale"].refunded + tx[s].part \in 0..Amount
  BY <1>2 DEF Typed
<1>6. /\ ClosedSale(s) \in SaleRows
      /\ tx[s].call = "refund" =>
           /\ ClosedSale(s).status = "refunded"
           /\ ClosedSale(s).refunded = tx[s].seen["sale"].refunded + tx[s].part
      /\ tx[s].call = "cancel" =>
           ClosedSale(s).status = "cancelled" /\ ClosedSale(s).refunded = db["sale"].refunded
  BY <1>3, <1>4, <1>5 DEF ClosedSale, RefundedInRow, RefundedTotal, Seen, SaleRows, OfSale
<1>7. /\ tx'[s].call = tx[s].call /\ tx'[s].part = tx[s].part /\ tx'[s].seen = tx[s].seen
      /\ tx'[s].at = "read commission" /\ DOMAIN tx'[s].mine = {"sale"}
  BY <1>1, <1>3, <1>4, AfterPlain
<1>8. Script(tx'[s])
  <2>1. SaleScript(tx'[s], DOMAIN tx'[s].mine)
    BY <1>3, <1>7 DEF SaleScript, OfSale, Corrections
  <2> QED
    BY <1>7, <2>1, SaleOnly
<1>9. WroteSale(tx'[s], ClosedSale(s), db["sale"])
  BY <1>3, <1>6, <1>7 DEF WroteSale, OfSale, Settling
<1>10. Fit(Target(s), ClosedSale(s)) /\ Target(s) \in Rows
  BY <1>4, <1>6, Names DEF Fit
<1>11. ~HasHeld(tx'[s]) /\ tx[s].call \in SaleWriters
  BY <1>3, <1>7 DEF OfSale, HasHeld, SaleWriters
<1>12. "read commission" \notin {"idle"} \cup UseCommission \cup UseSale
  BY DEF UseCommission, UseSale
<1> QED
  BY <1>1, <1>4, <1>8, <1>9, <1>10, <1>11, <1>12, Names, PlainBase

LEMMA MoveSaleBase ==
  ASSUME Base, NEW s \in Sessions,
         ApproveByHand(s) \/ TouchSale(s) \/ HoldSale(s) \/ RestoreSale(s)
  PROVE  Base' /\ Progress(s)
<1>1. PICK row, next :
        /\ Write(s, row, next)
        /\ \/ /\ tx[s].at = "approve by hand" /\ next = "commit"
              /\ row = [Row(s, "sale") EXCEPT !.status = "approved"]
           \/ /\ tx[s].at = "touch sale" /\ next = Rest(s)
              /\ row = Row(s, "sale")
           \/ /\ tx[s].at = "hold sale" /\ next = "insert dispute"
              /\ row = [Row(s, "sale") EXCEPT !.status = "disputed"]
           \/ /\ tx[s].at = "restore sale" /\ next = AfterRelease(s)
              /\ row = [Row(s, "sale") EXCEPT !.status = Restored(s)]
  BY DEF ApproveByHand, TouchSale, HoldSale, RestoreSale, At
<1>2. /\ Typed(tx[s]) /\ Wrote(tx[s], db)
      /\ SaleScript(tx[s], DOMAIN tx[s].mine) /\ DisputeScript(tx[s], DOMAIN tx[s].mine)
  BY <1>1, OpenCall DEF Script
<1>3. /\ tx[s].at = "approve by hand" => tx[s].call = "approve" /\ DOMAIN tx[s].mine = {}
      /\ tx[s].at = "touch sale" =>
           tx[s].call \in Reattributions /\ DOMAIN tx[s].mine \subseteq {"sale", "commission"}
      /\ tx[s].at = "hold sale" => tx[s].call = "dispute" /\ DOMAIN tx[s].mine = {}
      /\ tx[s].at = "restore sale" => tx[s].call \in Over /\ DOMAIN tx[s].mine = {}
  BY <1>2 DEF SaleScript, DisputeScript
<1>4. tx[s].call \in {"approve", "dispute"} \cup Over \cup Reattributions
  BY <1>1, <1>3
<1>5. Target(s) = "sale" /\ Row(s, "sale") \in SaleRows
  BY <1>1, Targets, RowsFit DEF At
<1>6. Row(s, "sale").refunded = db["sale"].refunded
  <2>1. CASE "sale" \in DOMAIN tx[s].mine
    <3>1. WroteSale(tx[s], Row(s, "sale"), db["sale"])
      BY <1>2, <2>1 DEF Wrote, Row, Held
    <3> QED
      BY <3>1, <1>4 DEF WroteSale, Over, Reattributions
  <2>2. CASE "sale" \notin DOMAIN tx[s].mine
    BY <2>2, RowsFit, Names
  <2> QED
    BY <2>1, <2>2
<1>7. tx[s].call \in {"reattribute", "detach"} => row.status = db["sale"].status
  <2> SUFFICES ASSUME tx[s].call \in {"reattribute", "detach"} PROVE row.status = db["sale"].status
    OBVIOUS
  <2>1. row = Row(s, "sale")
    BY <1>1, <1>3 DEF Over
  <2>2. CASE "sale" \in DOMAIN tx[s].mine
    <3>1. WroteSale(tx[s], Row(s, "sale"), db["sale"])
      BY <1>2, <2>2 DEF Wrote, Row, Held
    <3> QED
      BY <2>1, <3>1 DEF WroteSale
  <2>3. CASE "sale" \notin DOMAIN tx[s].mine
    BY <2>1, <2>3, RowsFit, Names
  <2> QED
    BY <2>2, <2>3
<1>8. /\ row \in SaleRows /\ row.refunded = db["sale"].refunded
      /\ tx[s].call = "dispute" => row.status = "disputed"
  <2>1. Restored(s) \in {"pending", "approved"}
    BY DEF Restored
  <2>2. CASE tx[s].at = "touch sale"
    BY <2>2, <1>1, <1>3, <1>5, <1>6 DEF Reattributions
  <2>3. CASE tx[s].at # "touch sale"
    <3>1. PICK to \in {"approved", "disputed", "pending"} :
            /\ row = [Row(s, "sale") EXCEPT !.status = to]
            /\ tx[s].at = "hold sale" => to = "disputed"
      BY <2>3, <2>1, <1>1
    <3>2. tx[s].call = "dispute" => tx[s].at = "hold sale"
      BY <2>3, <1>1, <1>3 DEF Over
    <3> QED
      BY <3>1, <3>2, <1>5, <1>6 DEF SaleRows
  <2> QED
    BY <2>2, <2>3
<1>9. WroteSale(tx'[s], row, db["sale"])
  <2>1. tx'[s].call = tx[s].call
    BY <1>1, AfterPlain
  <2> QED
    BY <2>1, <1>4, <1>7, <1>8 DEF WroteSale, Settling, Over, Reattributions
<1>10. /\ tx'[s].call = tx[s].call /\ tx'[s].row = tx[s].row /\ tx'[s].at = next
       /\ DOMAIN tx'[s].mine = {"sale"} \cup DOMAIN tx[s].mine
  BY <1>1, <1>5, AfterPlain
<1>11. /\ tx[s].call \in OfDispute => tx[s].row \in Disputes
       /\ tx[s].call \in {"approve", "reattribute", "detach"} => tx[s].row \notin Disputes
  BY <1>2, Names DEF Typed, About, OfBatch, OfDispute, Over, Draws, Marking
<1>12. /\ Script(tx'[s])
       /\ next \notin {"idle"} \cup UseCommission
       /\ next \in UseSale => "sale" \in DOMAIN tx[s].seen
  <2>1. CASE tx[s].at = "approve by hand" \/ (tx[s].at = "touch sale" /\ tx[s].row \notin Disputes)
    <3>1. next = "commit"
      BY <2>1, <1>1 DEF Rest
    <3>2. tx[s].call \notin OfSale \cup Draws \cup Over \cup {"cancel batch"}
      BY <2>1, <1>3, <1>11 DEF OfSale, Draws, Over, OfDispute, Reattributions
    <3>3. CommitScript(tx'[s], DOMAIN tx'[s].mine)
      BY <1>10, <3>2 DEF CommitScript
    <3> QED
      BY <1>10, <3>1, <3>3, CommitOnly DEF UseCommission, UseSale
  <2>2. CASE tx[s].at = "touch sale" /\ tx[s].row \in Disputes
    <3>1. next = "close dispute"
      BY <2>2, <1>1 DEF Rest
    <3>2. tx[s].call = "resolve"
      BY <2>2, <1>3, <1>11 DEF Reattributions
    <3>3. DisputeScript(tx'[s], DOMAIN tx'[s].mine)
      BY <2>2, <1>3, <1>10, <3>1, <3>2 DEF DisputeScript, Over
    <3> QED
      BY <1>10, <3>1, <3>3, DisputeOnly DEF UseCommission, UseSale
  <2>3. CASE tx[s].at = "hold sale"
    <3>1. next = "insert dispute" /\ "sale" \in DOMAIN tx[s].seen
      BY <2>3, <1>1, <1>2 DEF Typed, UseSale
    <3>2. DisputeScript(tx'[s], DOMAIN tx'[s].mine)
      BY <2>3, <1>3, <1>10, <3>1 DEF DisputeScript
    <3> QED
      BY <1>10, <3>1, <3>2, DisputeOnly DEF UseCommission
  <2>4. CASE tx[s].at = "restore sale" /\ tx[s].call = "resolve"
    <3>1. next = "read commission"
      BY <2>4, <1>1 DEF AfterRelease
    <3>2. SaleScript(tx'[s], DOMAIN tx'[s].mine)
      BY <2>4, <1>3, <1>10, <3>1 DEF SaleScript, Corrections, Reattributions, OfSale
    <3> QED
      BY <1>10, <3>1, <3>2, SaleOnly DEF UseCommission, UseSale
  <2>5. CASE tx[s].at = "restore sale" /\ tx[s].call # "resolve"
    <3>1. next = "close dispute" /\ tx[s].call = "withdraw"
      BY <2>5, <1>1, <1>3 DEF AfterRelease, Over
    <3>2. DisputeScript(tx'[s], DOMAIN tx'[s].mine)
      BY <2>5, <1>3, <1>10, <1>11, <3>1 DEF DisputeScript, Over, OfDispute
    <3> QED
      BY <1>10, <3>1, <3>2, DisputeOnly DEF UseCommission, UseSale
  <2> QED
    BY <1>1, <2>1, <2>2, <2>3, <2>4, <2>5
<1>13. Fit(Target(s), row) /\ Target(s) \in Rows /\ Target(s) \notin Payouts \cup Disputes
  BY <1>5, <1>8, Names DEF Fit
<1>14. tx[s].call \in SaleWriters
  BY <1>4 DEF SaleWriters, Over, Reattributions
<1> QED
  BY <1>1, <1>5, <1>9, <1>12, <1>13, <1>14, PlainBase

LEMMA ApproveSaleBase ==
  ASSUME Base, NEW s \in Sessions, ApproveSale(s)
  PROVE  Base' /\ Progress(s)
<1> DEFINE row == [Row(s, "sale") EXCEPT !.status = "approved"]
<1>1. tx[s].at = "approve sale" /\ (Write(s, row, "commit") \/ Skip(s, "commit"))
  BY DEF ApproveSale, At
<1>2. SaleScript(tx[s], DOMAIN tx[s].mine)
  BY <1>1, OpenCall DEF Script
<1>3. tx[s].call \in Settling /\ DOMAIN tx[s].mine = {"commission"}
  BY <1>1, <1>2 DEF SaleScript
<1>4. Write(s, row, "commit") \/ Pass(s, "commit")
  BY <1>1 DEF Skip
<1>5. tx'[s].call = tx[s].call /\ tx'[s].at = "commit"
  <2> HIDE DEF row
  <2> QED
    BY <1>4, AfterPlain, AfterPass
<1>6. Script(tx'[s]) /\ ~HasHeld(tx'[s]) /\ "commit" \notin {"idle"} \cup UseCommission \cup UseSale
  <2>1. tx[s].call \notin OfSale \cup Draws \cup Over \cup {"cancel batch", "dispute"}
    BY <1>3 DEF Settling, OfSale, Draws, Over
  <2>2. CommitScript(tx'[s], DOMAIN tx'[s].mine)
    BY <1>5, <2>1 DEF CommitScript
  <2> QED
    BY <1>5, <2>1, <2>2, CommitOnly DEF HasHeld, UseCommission, UseSale
<1>7. CASE Pass(s, "commit")
  BY <1>1, <1>6, <1>7, PassBase
<1>8. CASE Write(s, row, "commit")
  <2>1. Target(s) # Null
    BY <1>8 DEF Write, WriteWithEntry
  <2>2. Target(s) = "sale" /\ Row(s, "sale").status = "pending"
    BY <1>1, <2>1, Targets DEF At
  <2>3. Row(s, "sale") = db["sale"] /\ db["sale"] \in SaleRows
    BY <1>3, RowsFit, Names
  <2>4. row \in SaleRows /\ row.status = "approved" /\ row.refunded = db["sale"].refunded
    BY <2>3 DEF SaleRows
  <2> HIDE DEF row
  <2>5. WroteSale(tx'[s], row, db["sale"])
    BY <1>3, <1>5, <2>2, <2>3, <2>4 DEF WroteSale, Settling
  <2>6. Fit(Target(s), row) /\ Target(s) \in Rows /\ Target(s) \notin Payouts \cup Disputes
    BY <2>2, <2>4, Names DEF Fit
  <2>7. tx[s].call \in SaleWriters
    BY <1>3 DEF SaleWriters
  <2> QED
    BY <1>1, <1>6, <1>8, <2>2, <2>5, <2>6, <2>7, PlainBase
<1> QED
  BY <1>4, <1>7, <1>8

\* The statements that write the commission.
LEMMA CorrectBase ==
  ASSUME Base, NEW s \in Sessions, CorrectCommission(s)
  PROVE  Base' /\ Progress(s)
<1> DEFINE to == CASE Voiding(s) -> "void"
                   [] Closing(s) -> "reversed"
                   [] OTHER -> Row(s, "commission").status
           row == [Row(s, "commission") EXCEPT !.status = to, !.amount = Corrected(s)]
           entry == Corrected(s) - Seen(s, "commission").amount
           next == AfterCorrection(s)
<1>1. /\ tx[s].at = "correct commission"
      /\ Throw(s) \/ WriteWithEntry(s, row, entry, next) \/ Pass(s, next)
  BY DEF CorrectCommission, At, Skip
<1>2. Typed(tx[s]) /\ SaleScript(tx[s], DOMAIN tx[s].mine) /\ Wrote(tx[s], db)
  BY <1>1, OpenCall DEF Script
<1>3. tx[s].call \in Corrections /\ "commission" \notin DOMAIN tx[s].mine
  BY <1>1, <1>2 DEF SaleScript
<1>4. HasRead(tx[s]) /\ tx[s].seen["commission"] \in CommissionRows
  BY <1>1, <1>2, <1>3, RowsFit DEF HasRead, Typed, UseCommission
<1>5. tx[s].entries = 0
  BY <1>2, <1>3 DEF Wrote
<1>6. CASE Throw(s)
  BY <1>1, <1>6, ThrowBase
<1>7. CASE Pass(s, next)
  <2>1. tx'[s].call = tx[s].call /\ tx'[s].row = tx[s].row /\ tx'[s].at = next /\ tx'[s].mine = tx[s].mine
    BY <1>7, AfterPass
  <2>2. /\ Script(tx'[s]) /\ ~HasHeld(tx'[s])
        /\ next \notin {"idle"} \cup UseCommission \cup UseSale
    <3>1. /\ DOMAIN tx[s].mine \subseteq DOMAIN tx'[s].mine
          /\ DOMAIN tx'[s].mine \subseteq DOMAIN tx[s].mine \cup {"commission"}
      BY <2>1
    <3> QED
      BY <1>1, <2>1, <3>1, CorrectionGoesOn
  <2> HIDE DEF next
  <2> QED
    BY <1>1, <1>7, <2>2, PassBase
<1>8. CASE WriteWithEntry(s, row, entry, next)
  <2>1. Target(s) # Null
    BY <1>8 DEF WriteWithEntry
  <2>2. Target(s) = "commission" /\ Corrects(s)
    BY <1>1, <2>1, Targets DEF At
  <2>3. Row(s, "commission") = db["commission"] /\ db["commission"] \in CommissionRows
    BY <1>3, RowsFit, Names
  <2>4. Corrected(s) \in 0..Amount
    <3>1. CASE Closing(s)
      BY <3>1, RaceConstants DEF Corrected
    <3>2. CASE ~Closing(s)
      <4>1. tx[s].call = "refund" /\ ~(RefundedTotal(s) >= Amount)
        BY <3>2 DEF Closing
      <4>2. RefundedTotal(s) \in 0..Amount
        BY <1>2, <4>1 DEF Typed, RefundedTotal, Seen
      <4> QED
        BY <3>2, <4>2, RaceConstants DEF Corrected
    <3> QED
      BY <3>1, <3>2
  <2>5. /\ to \in Closed \cup {db["commission"].status}
        /\ tx[s].seen["commission"].status \notin Closed \cup {"paid"}
    BY <2>2, <2>3 DEF Closed, Corrects, Seen
  <2> HIDE DEF to
  <2>6. /\ row \in CommissionRows /\ row.status = to /\ row.amount = Corrected(s)
        /\ row.payout = db["commission"].payout
    BY <2>3, <2>4, <2>5 DEF CommissionRows
  <2>7. tx[s].seen["commission"].amount \in 0..Amount
    BY <1>4 DEF CommissionRows
  <2>8. entry \in Int /\ Corrected(s) = tx[s].seen["commission"].amount + (0 + entry)
    BY <2>4, <2>7, RaceConstants DEF Seen
  <2> HIDE DEF row, entry, next
  <2>9. GoesOn(tx[s], tx'[s], next) /\ HasWritten(tx[s], tx'[s], Target(s), row, entry)
    BY <1>8, <2>8, Writing
  <2>10. /\ tx'[s].call = tx[s].call /\ tx'[s].row = tx[s].row /\ tx'[s].at = next
         /\ DOMAIN tx'[s].mine = {"commission"} \cup DOMAIN tx[s].mine
         /\ tx'[s].seen = tx[s].seen /\ tx'[s].entries = 0 + entry
    BY <1>5, <2>2, <2>9 DEF GoesOn, HasWritten
  <2>11. /\ Script(tx'[s]) /\ ~HasHeld(tx'[s])
         /\ next \notin {"idle"} \cup UseCommission \cup UseSale
    <3>1. /\ DOMAIN tx[s].mine \subseteq DOMAIN tx'[s].mine
          /\ DOMAIN tx'[s].mine \subseteq DOMAIN tx[s].mine \cup {"commission"}
      BY <2>10
    <3> QED
      BY <1>1, <2>10, <3>1, CorrectionGoesOn DEF next
  <2>12. WroteCommission(tx'[s], row, db["commission"])
    <3>1. row.amount = tx'[s].seen["commission"].amount + tx'[s].entries
      BY <2>6, <2>8, <2>10
    <3>2. HasRead(tx'[s])
      BY <1>4, <2>10 DEF HasRead
    <3>3. tx[s].call \notin Promotions \cup Draws \cup {"pay", "record", "draw", "cancel batch"}
      BY <1>3 DEF Corrections, Reattributions, Promotions, Draws
    <3> QED
      BY <1>3, <2>5, <2>6, <2>10, <3>1, <3>2, <3>3 DEF WroteCommission
  <2>13. Fit(Target(s), row) /\ Target(s) \in Rows /\ Target(s) \notin Payouts \cup Disputes \cup {"sale"}
    BY <2>2, <2>6, Names DEF Fit
  <2>14. tx[s].call \in CommissionWriters
    BY <1>3 DEF CommissionWriters
  <2> QED
    BY <1>1, <1>3, <1>8, <2>2, <2>8, <2>11, <2>12, <2>13, <2>14, WriteBase
<1> QED
  BY <1>1, <1>6, <1>7, <1>8

LEMMA MoveCommissionBase ==
  ASSUME Base, NEW s \in Sessions, MarkApproved(s) \/ SettleCommission(s) \/ TakeCommission(s)
  PROVE  Base' /\ Progress(s)
<1>1. PICK row, next :
        /\ Write(s, row, next)
        /\ \/ /\ tx[s].at = "approve commission" /\ next = "commit"
              /\ row = [Row(s, "commission") EXCEPT !.status = "approved"]
           \/ /\ tx[s].at = "settle commission" /\ next = "approve sale"
              /\ row = [Row(s, "commission") EXCEPT !.status = "payable"]
           \/ /\ tx[s].at = "take commission"
              /\ next = IF tx[s].call = "record" THEN "pay batch" ELSE "commit"
              /\ row = [Row(s, "commission") EXCEPT !.payout = tx[s].row]
  BY DEF MarkApproved, SettleCommission, TakeCommission, At
<1>2. /\ Typed(tx[s])
      /\ SaleScript(tx[s], DOMAIN tx[s].mine) /\ BatchScript(tx[s], DOMAIN tx[s].mine)
  BY <1>1, OpenCall DEF Script
<1>3. /\ tx[s].at = "approve commission" => tx[s].call = "approve commission" /\ DOMAIN tx[s].mine = {}
      /\ tx[s].at = "settle commission" => tx[s].call \in Settling /\ DOMAIN tx[s].mine = {}
      /\ tx[s].at = "take commission" => tx[s].call \in Draws /\ DOMAIN tx[s].mine = {tx[s].row}
      /\ tx[s].call \in Draws => tx[s].row \in Payouts
  BY <1>2 DEF SaleScript, BatchScript, Typed, About, OfBatch
<1>4. /\ tx[s].at \in {"approve commission", "settle commission"} => tx[s].call \in Promotions
      /\ tx[s].call \in Promotions \cup Draws
      /\ tx[s].call \in Promotions => tx[s].at # "take commission"
  BY <1>1, <1>3 DEF Settling, Promotions, Draws
<1>5. "commission" \notin DOMAIN tx[s].mine
  BY <1>1, <1>3, Names
<1>6. Target(s) = "commission" /\ Row(s, "commission") = db["commission"] /\ db["commission"] \in CommissionRows
  BY <1>1, <1>5, Targets, RowsFit, Names DEF At
<1>7. /\ row \in CommissionRows /\ row.amount = db["commission"].amount
      /\ tx[s].call \in Promotions =>
           row.status \in {"payable", "approved"} /\ row.payout = db["commission"].payout
      /\ tx[s].call \in Draws => row.status = db["commission"].status /\ row.payout = tx[s].row
  <2>1. CASE tx[s].at = "take commission"
    <3>1. row = [db["commission"] EXCEPT !.payout = tx[s].row] /\ tx[s].row \in Payouts
      BY <2>1, <1>1, <1>3, <1>6
    <3> QED
      BY <2>1, <3>1, <1>4, <1>6 DEF CommissionRows
  <2>2. CASE tx[s].at # "take commission"
    <3>1. PICK to \in {"payable", "approved"} : row = [db["commission"] EXCEPT !.status = to]
      BY <2>2, <1>1, <1>6
    <3>2. tx[s].call \notin Draws
      BY <2>2, <1>1, <1>4 DEF Promotions, Draws
    <3> QED
      BY <3>1, <3>2, <1>6 DEF CommissionRows
  <2> QED
    BY <2>1, <2>2
<1>8. /\ tx'[s].call = tx[s].call /\ tx'[s].at = next /\ tx'[s].row = tx[s].row
      /\ DOMAIN tx'[s].mine = {"commission"} \cup DOMAIN tx[s].mine
  <2>1. Write(s, row, next)
    BY <1>1
  <2> QED
    BY <1>6, <2>1, AfterPlain
<1>9. /\ Script(tx'[s]) /\ next \notin {"idle"} \cup UseCommission \cup UseSale
      /\ ~HasHeld(tx'[s])
  <2>1. ~HasHeld(tx'[s])
    BY <1>4, <1>8 DEF HasHeld, Promotions, Draws
  <2>2. CASE next = "commit"
    <3>1. tx[s].call \in Draws => {tx'[s].row, "commission"} \subseteq DOMAIN tx'[s].mine
      BY <1>3, <1>4, <1>1, <1>8 DEF Promotions, Draws
    <3>2. tx[s].call \notin OfSale \cup Over \cup {"cancel batch"}
      BY <1>4 DEF Promotions, Draws, OfSale, Over
    <3>3. CommitScript(tx'[s], DOMAIN tx'[s].mine)
      BY <1>8, <3>1, <3>2 DEF CommitScript
    <3> QED
      BY <1>8, <2>1, <2>2, <3>3, CommitOnly DEF UseCommission, UseSale
  <2>3. CASE next = "approve sale"
    <3>1. tx[s].at = "settle commission"
      BY <2>3, <1>1
    <3>2. SaleScript(tx'[s], DOMAIN tx'[s].mine)
      BY <1>3, <1>8, <2>3, <3>1 DEF SaleScript
    <3> QED
      BY <1>8, <2>1, <2>3, <3>2, SaleOnly DEF UseCommission, UseSale
  <2>4. CASE next = "pay batch"
    <3>1. tx[s].at = "take commission" /\ tx[s].call = "record"
      BY <2>4, <1>1
    <3>2. BatchScript(tx'[s], DOMAIN tx'[s].mine)
      BY <1>3, <1>8, <2>4, <3>1 DEF BatchScript
    <3> QED
      BY <1>8, <2>1, <2>4, <3>2, BatchOnly DEF UseCommission, UseSale
  <2> QED
    BY <1>1, <2>2, <2>3, <2>4
<1>10. WroteCommission(tx'[s], row, db["commission"])
  <2>1. tx[s].call \notin Corrections
    BY <1>4 DEF Corrections, Reattributions, Promotions, Draws
  <2>2. tx[s].call \in Promotions => tx[s].call \notin Draws \cup {"cancel batch", "pay", "record", "draw"}
    BY DEF Promotions, Draws
  <2>3. tx[s].call \in Draws => tx[s].call \notin {"cancel batch"} \cup Promotions
    BY DEF Promotions, Draws
  <2> QED
    BY <1>4, <1>7, <1>8, <2>1, <2>2, <2>3 DEF WroteCommission
<1>11. Fit(Target(s), row) /\ Target(s) \in Rows /\ Target(s) \notin Payouts \cup Disputes \cup {"sale"}
  BY <1>6, <1>7, Names DEF Fit
<1>12. tx[s].call \in CommissionWriters /\ tx[s].at # "idle"
  BY <1>1, <1>4 DEF CommissionWriters
<1> QED
  BY <1>1, <1>6, <1>9, <1>10, <1>11, <1>12, PlainBase

LEMMA PayCommissionBase ==
  ASSUME Base, NEW s \in Sessions, PayCommission(s) \/ GiveBack(s)
  PROVE  Base' /\ Progress(s)
<1> DEFINE row == IF tx[s].at = "pay commission"
                  THEN [Row(s, "commission") EXCEPT !.status = "paid"]
                  ELSE [Row(s, "commission") EXCEPT !.payout = Null]
<1>1. /\ tx[s].at \in {"pay commission", "release commission"}
      /\ Write(s, row, "commit") \/ Pass(s, "commit")
  BY DEF PayCommission, GiveBack, At, Skip
<1>2. Typed(tx[s]) /\ Wrote(tx[s], db) /\ BatchScript(tx[s], DOMAIN tx[s].mine)
  BY <1>1, OpenCall DEF Script
<1>3. /\ tx[s].at = "pay commission" => tx[s].call \in {"pay", "record"}
      /\ tx[s].at = "release commission" => tx[s].call = "cancel batch" /\ "commission" \notin DOMAIN tx[s].mine
      /\ tx[s].call = "pay" => "commission" \notin DOMAIN tx[s].mine
      /\ tx[s].call = "record" => "commission" \in DOMAIN tx[s].mine
      /\ tx[s].row \in DOMAIN tx[s].mine
      /\ tx[s].call \in {"pay", "record", "cancel batch"}
  <2>1. tx[s].row \in Payouts
    BY <1>1, <1>2 DEF BatchScript, Typed, About, OfBatch, Draws, Marking
  <2> QED
    BY <1>1, <1>2, <2>1, Names DEF BatchScript
<1>4. Row(s, "commission") \in CommissionRows
  BY RowsFit
<1>5. Row(s, "commission").status = "payable" \/ tx[s].at = "release commission" =>
        /\ Row(s, "commission").amount = db["commission"].amount
        /\ Row(s, "commission").status = db["commission"].status
        /\ tx[s].call = "record" => Row(s, "commission").payout = tx[s].row
        /\ tx[s].call # "record" => Row(s, "commission").payout = db["commission"].payout
  <2>1. CASE tx[s].call = "record"
    <3>1. WroteCommission(tx[s], Row(s, "commission"), db["commission"])
      BY <2>1, <1>2, <1>3 DEF Wrote, Row, Held
    <3>2. "record" \notin Corrections /\ "record" \in Draws
      BY DEF Corrections, Reattributions, Draws
    <3> QED
      BY <2>1, <1>1, <1>3, <3>1, <3>2 DEF WroteCommission
  <2>2. CASE tx[s].call # "record"
    <3>1. "commission" \notin DOMAIN tx[s].mine
      BY <2>2, <1>1, <1>3
    <3>2. Row(s, "commission") = db["commission"]
      BY <3>1, RowsFit, Names
    <3> QED
      BY <2>2, <3>2
  <2> QED
    BY <2>1, <2>2
<1>6. tx'[s].call = tx[s].call /\ tx'[s].at = "commit" /\ tx'[s].row = tx[s].row
      /\ DOMAIN tx[s].mine \subseteq DOMAIN tx'[s].mine
  <2> HIDE DEF row
  <2>1. CASE Write(s, row, "commit")
    <3>1. /\ tx'[s].call = tx[s].call /\ tx'[s].at = "commit" /\ tx'[s].row = tx[s].row
          /\ DOMAIN tx'[s].mine = {Target(s)} \cup DOMAIN tx[s].mine
      BY <2>1, AfterPlain
    <3> QED
      BY <3>1
  <2>2. CASE Pass(s, "commit")
    <3>1. /\ tx'[s].call = tx[s].call /\ tx'[s].at = "commit" /\ tx'[s].row = tx[s].row
          /\ tx'[s].mine = tx[s].mine
      BY <2>2, AfterPass
    <3> QED
      BY <3>1
  <2> QED
    BY <1>1, <2>1, <2>2
<1>7. /\ Script(tx'[s]) /\ "commit" \notin {"idle"} \cup UseCommission \cup UseSale
      /\ ~HasHeld(tx'[s])
  <2>1. tx[s].call \notin OfSale \cup Over \cup {"dispute"} /\ (tx[s].call \in Draws => tx[s].call = "record")
    BY <1>3 DEF OfSale, Over, Draws
  <2>2. CommitScript(tx'[s], DOMAIN tx'[s].mine)
    BY <1>3, <1>6, <2>1 DEF CommitScript
  <2> QED
    BY <1>6, <2>1, <2>2, CommitOnly DEF HasHeld, UseCommission, UseSale
<1>8. CASE Pass(s, "commit")
  BY <1>1, <1>7, <1>8, PassBase
<1>9. CASE Write(s, row, "commit")
  <2>1. Target(s) # Null
    BY <1>9 DEF Write, WriteWithEntry
  <2>2. /\ Target(s) = "commission" /\ Row(s, "commission").payout = tx[s].row
        /\ tx[s].at = "pay commission" => Row(s, "commission").status = "payable"
    BY <1>1, <2>1, Targets DEF At
  <2>3. /\ row \in CommissionRows /\ row.amount = db["commission"].amount
        /\ tx[s].at = "pay commission" =>
             /\ row.status = "paid" /\ db["commission"].status = "payable"
             /\ row.payout = Row(s, "commission").payout
        /\ tx[s].at = "release commission" =>
             row.status = db["commission"].status /\ row.payout = Null
    <3>1. CASE tx[s].at = "pay commission"
      <4>1. row = [Row(s, "commission") EXCEPT !.status = "paid"]
        BY <3>1
      <4> HIDE DEF row
      <4> QED
        BY <3>1, <4>1, <1>4, <1>5, <2>2 DEF CommissionRows
    <3>2. CASE tx[s].at = "release commission"
      <4>1. row = [Row(s, "commission") EXCEPT !.payout = Null]
        BY <3>2
      <4> HIDE DEF row
      <4> QED
        BY <3>2, <4>1, <1>4, <1>5, <2>2 DEF CommissionRows
    <3> QED
      BY <1>1, <3>1, <3>2
  <2> HIDE DEF row
  <2>4. WroteCommission(tx'[s], row, db["commission"])
    <3>1. tx[s].call \notin Corrections \cup Promotions
      BY <1>3 DEF Corrections, Reattributions, Promotions
    <3>2. CASE tx[s].at = "pay commission"
      <4>1. tx[s].call \in {"pay", "record"} /\ tx[s].call \notin {"draw", "cancel batch"}
        BY <3>2, <1>3
      <4>2. /\ tx[s].call \in Draws => row.payout = tx[s].row
            /\ tx[s].call \notin Draws => row.payout = db["commission"].payout
        BY <3>2, <4>1, <1>5, <2>2, <2>3 DEF Draws
      <4> QED
        BY <3>1, <3>2, <4>1, <4>2, <1>6, <2>3 DEF WroteCommission
    <3>3. CASE tx[s].at = "release commission"
      <4>1. tx[s].call = "cancel batch" /\ db["commission"].payout = tx[s].row
        BY <3>3, <1>3, <1>5, <2>2
      <4> QED
        BY <3>1, <3>3, <4>1, <1>6, <2>3 DEF WroteCommission, Draws
    <3> QED
      BY <1>1, <3>2, <3>3
  <2>5. Fit(Target(s), row) /\ Target(s) \in Rows /\ Target(s) \notin Payouts \cup Disputes \cup {"sale"}
    BY <2>2, <2>3, Names DEF Fit
  <2>6. tx[s].call \in CommissionWriters
    BY <1>3 DEF CommissionWriters, Draws
  <2> QED
    BY <1>1, <1>7, <1>9, <2>2, <2>4, <2>5, <2>6, PlainBase
<1> QED
  BY <1>1, <1>8, <1>9


\* The statements that write the row a call is about.
LEMMA RowBase ==
  ASSUME Base, NEW s \in Sessions,
         \/ InsertBatch(s) \/ SetBatch(s) \/ PayBatch(s) \/ CancelBatch(s)
         \/ InsertDispute(s) \/ ReviewDispute(s) \/ CloseDispute(s)
  PROVE  Base' /\ Progress(s)
<1>1. PICK row, next :
        /\ Write(s, row, next)
        /\ \/ /\ tx[s].at = "insert batch" /\ next = "take commission"
              /\ row = [status |-> "draft", amount |-> Seen(s, "commission").amount]
           \/ /\ tx[s].at = "set batch" /\ next = "commit"
              /\ row = [Row(s, tx[s].row) EXCEPT
                          !.status = IF tx[s].call = "process" THEN "processing" ELSE "failed"]
           \/ /\ tx[s].at = "pay batch" /\ next = "pay commission"
              /\ row = [Row(s, tx[s].row) EXCEPT !.status = "paid"]
           \/ /\ tx[s].at = "cancel batch" /\ next = "release commission"
              /\ row = [Row(s, tx[s].row) EXCEPT !.status = "cancelled"]
           \/ /\ tx[s].at = "insert dispute" /\ next = "commit"
              /\ row = [status |-> "open", previous |-> Seen(s, "sale").status]
           \/ /\ tx[s].at = "review dispute" /\ next = "commit"
              /\ row = [Row(s, tx[s].row) EXCEPT !.status = "under_review"]
           \/ /\ tx[s].at = "close dispute" /\ next = "commit"
              /\ row = [Row(s, tx[s].row) EXCEPT !.status = "ended"]
  BY DEF InsertBatch, SetBatch, PayBatch, CancelBatch, InsertDispute, ReviewDispute, CloseDispute, At
<1>2. /\ Typed(tx[s])
      /\ BatchScript(tx[s], DOMAIN tx[s].mine) /\ DisputeScript(tx[s], DOMAIN tx[s].mine)
  BY <1>1, OpenCall DEF Script
<1>3. /\ tx[s].at = "insert batch" => tx[s].call \in Draws /\ DOMAIN tx[s].mine = {}
      /\ tx[s].at = "set batch" => tx[s].call \in {"process", "fail"} /\ DOMAIN tx[s].mine = {}
      /\ tx[s].at = "pay batch" =>
           \/ tx[s].call = "pay" /\ DOMAIN tx[s].mine = {}
           \/ tx[s].call = "record" /\ DOMAIN tx[s].mine = {tx[s].row, "commission"}
      /\ tx[s].at = "cancel batch" => tx[s].call = "cancel batch" /\ DOMAIN tx[s].mine = {}
      /\ tx[s].at = "insert dispute" => tx[s].call = "dispute" /\ DOMAIN tx[s].mine \subseteq {"sale"}
      /\ tx[s].at = "review dispute" => tx[s].call = "review" /\ DOMAIN tx[s].mine = {}
      /\ tx[s].at = "close dispute" =>
           /\ tx[s].call \in Over \cup {"cancel"} /\ tx[s].row \in Disputes
           /\ DOMAIN tx[s].mine \subseteq {"sale", "commission"}
           /\ tx[s].call = "cancel" => "sale" \in DOMAIN tx[s].mine
  BY <1>2 DEF BatchScript, DisputeScript
<1>4. /\ tx[s].at \in {"insert batch", "set batch", "pay batch", "cancel batch"} => tx[s].row \in Payouts
      /\ tx[s].at \in {"insert dispute", "review dispute", "close dispute"} => tx[s].row \in Disputes
  <2>1. About(tx[s])
    BY <1>2 DEF Typed
  <2>2. /\ tx[s].at \in {"insert batch", "set batch", "pay batch", "cancel batch"} => tx[s].call \in OfBatch
        /\ tx[s].at \in {"insert dispute", "review dispute"} => tx[s].call \in OfDispute
    BY <1>3 DEF OfBatch, OfDispute, Draws, Marking
  <2> QED
    BY <1>3, <2>1, <2>2 DEF About
<1>5. tx[s].row \in Rows /\ tx[s].row \notin {"sale", "commission", Null}
  BY <1>1, <1>4, Names
<1>6. Target(s) = tx[s].row
  BY <1>1, Targets DEF At
<1>7. Fit(tx[s].row, row) /\ WroteRow(tx[s], row)
  <2>1. CASE tx[s].at = "insert batch"
    <3>1. tx[s].row \in Payouts /\ tx[s].call \in Draws
      BY <2>1, <1>3, <1>4
    <3>2. tx[s].seen["commission"] \in CommissionRows
      BY <2>1, <1>2, RowsFit DEF Typed, UseCommission
    <3>3. tx[s].seen["commission"].amount \in 0..Amount
      BY <3>2 DEF CommissionRows
    <3>4. row = [status |-> "draft", amount |-> tx[s].seen["commission"].amount]
      BY <2>1, <1>1 DEF Seen
    <3>5. row \in BatchRows /\ row.status = "draft"
      BY <3>3, <3>4 DEF BatchRows
    <3> QED
      BY <3>1, <3>5, Names DEF Fit, WroteRow, Draws, Marking, Over
  <2>2. CASE tx[s].at \in {"set batch", "pay batch", "cancel batch"}
    <3>1. tx[s].row \in Payouts
      BY <2>2, <1>4
    <3>2. Row(s, tx[s].row) \in BatchRows
      BY <3>1, RowsFit
    <3>3. PICK to \in {"processing", "failed", "paid", "cancelled"} :
            /\ row = [Row(s, tx[s].row) EXCEPT !.status = to]
            /\ tx[s].at = "pay batch" => to = "paid"
            /\ tx[s].at = "set batch" => to \in {"processing", "failed"}
            /\ tx[s].at = "cancel batch" => to = "cancelled"
      BY <2>2, <1>1
    <3>4. row \in BatchRows /\ row.status = to
      BY <3>2, <3>3 DEF BatchRows
    <3>5. WroteRow(tx[s], row)
      BY <2>2, <1>3, <3>3, <3>4 DEF WroteRow, Draws, Marking, Over
    <3> QED
      BY <3>1, <3>4, <3>5, Names DEF Fit
  <2>3. CASE tx[s].at = "insert dispute"
    <3>1. tx[s].row \in Disputes /\ tx[s].call = "dispute"
      BY <2>3, <1>3, <1>4
    <3>2. tx[s].seen["sale"] \in SaleRows
      BY <2>3, <1>2, RowsFit DEF Typed, UseSale
    <3>3. row = [status |-> "open", previous |-> tx[s].seen["sale"].status]
      BY <2>3, <1>1 DEF Seen
    <3>4. row \in DisputeRows /\ row.status = "open"
      BY <3>2, <3>3 DEF DisputeRows, SaleRows, OpenStates
    <3> QED
      BY <3>1, <3>4, Names DEF Fit, WroteRow, Draws, Marking, Over, OpenStates
  <2>4. CASE tx[s].at \in {"review dispute", "close dispute"}
    <3>1. tx[s].row \in Disputes
      BY <2>4, <1>4
    <3>2. Row(s, tx[s].row) \in DisputeRows
      BY <3>1, RowsFit
    <3>3. PICK to \in {"under_review", "ended"} :
            /\ row = [Row(s, tx[s].row) EXCEPT !.status = to]
            /\ tx[s].at = "review dispute" <=> to = "under_review"
      BY <2>4, <1>1
    <3>4. row \in DisputeRows /\ row.status = to
      BY <3>2, <3>3 DEF DisputeRows, OpenStates
    <3>5. WroteRow(tx[s], row)
      BY <2>4, <1>3, <3>3, <3>4 DEF WroteRow, Draws, Marking, Over, OpenStates
    <3> QED
      BY <3>1, <3>4, <3>5, Names DEF Fit
  <2> QED
    BY <1>1, <2>1, <2>2, <2>3, <2>4
<1>9. Write(s, row, next)
  BY <1>1
<1>8. /\ tx[s].at = "insert batch" => next = "take commission"
      /\ tx[s].at = "pay batch" => next = "pay commission"
      /\ tx[s].at = "cancel batch" => next = "release commission"
      /\ tx[s].at \in {"set batch", "insert dispute", "review dispute", "close dispute"} => next = "commit"
      /\ tx[s].at \in {"insert batch", "set batch", "pay batch", "cancel batch", "insert dispute",
                       "review dispute", "close dispute"}
  BY <1>1
<1>10. /\ tx'[s].call = tx[s].call /\ tx'[s].at = next /\ tx'[s].row = tx[s].row
       /\ DOMAIN tx'[s].mine = {tx[s].row} \cup DOMAIN tx[s].mine
  BY <1>6, <1>9, AfterPlain
<1>11. Script(tx'[s])
  <2>1. CASE next = "commit"
    <3>1. tx[s].call \notin Draws \cup {"cancel batch", "refund"}
      BY <2>1, <1>3, <1>8 DEF Draws, Over
    <3>2. tx[s].call = "cancel" => "sale" \in DOMAIN tx'[s].mine
      BY <2>1, <1>3, <1>8, <1>10
    <3>3. CommitScript(tx'[s], DOMAIN tx'[s].mine)
      BY <1>10, <3>1, <3>2 DEF CommitScript, OfSale
    <3> QED
      BY <1>10, <2>1, <3>3, CommitOnly
  <2>2. CASE next # "commit"
    <3>1. BatchScript(tx'[s], DOMAIN tx'[s].mine)
      BY <2>2, <1>3, <1>8, <1>10 DEF BatchScript
    <3> QED
      BY <2>2, <1>8, <1>10, <3>1, BatchOnly
  <2> QED
    BY <2>1, <2>2
<1>12. WroteRow(tx'[s], row)
  BY <1>7, <1>10 DEF WroteRow
<1>13. HasHeld(tx'[s]) => HasHeld(tx[s])
  BY <1>3, <1>8, <1>10 DEF HasHeld, Draws, Over
<1>14. /\ next \notin {"idle"} \cup UseCommission \cup UseSale
       /\ tx[s].at # "idle" /\ Target(s) # "sale" /\ Target(s) # "commission"
  BY <1>5, <1>6, <1>8 DEF UseCommission, UseSale
<1> QED
  BY <1>5, <1>6, <1>7, <1>9, <1>11, <1>12, <1>13, <1>14, PlainBase

\* The statements that read.
LEMMA ReadCommissionBase ==
  ASSUME Base, NEW s \in Sessions, ReadCommission(s)
  PROVE  Base' /\ Progress(s)
<1>1. /\ tx[s].at = "read commission"
      /\ Pass(s, AfterCorrection(s)) \/ Read(s, "commission", "correct commission")
  BY DEF ReadCommission, At
<1>2. SaleScript(tx[s], DOMAIN tx[s].mine)
  BY <1>1, OpenCall DEF Script
<1>3. /\ tx[s].call \in Corrections /\ DOMAIN tx[s].mine \subseteq {"sale"}
      /\ tx[s].call \in OfSale => DOMAIN tx[s].mine = {"sale"}
      /\ tx[s].call \notin OfSale \cup {"resolve"} => DOMAIN tx[s].mine = {}
  BY <1>1, <1>2 DEF SaleScript
<1>4. CASE Pass(s, AfterCorrection(s))
  <2>1. /\ tx'[s].call = tx[s].call /\ tx'[s].row = tx[s].row /\ tx'[s].at = AfterCorrection(s)
        /\ tx'[s].mine = tx[s].mine
    BY <1>4, AfterPass
  <2>2. /\ DOMAIN tx[s].mine \subseteq DOMAIN tx'[s].mine
        /\ DOMAIN tx'[s].mine \subseteq DOMAIN tx[s].mine \cup {"commission"}
    BY <2>1
  <2>3. /\ Script(tx'[s]) /\ ~HasHeld(tx'[s])
        /\ AfterCorrection(s) \notin {"idle"} \cup UseCommission \cup UseSale
    BY <1>1, <2>1, <2>2, CorrectionGoesOn
  <2> QED
    BY <1>1, <1>4, <2>3, PassBase
<1>5. CASE Read(s, "commission", "correct commission")
  <2>1. tx'[s].call = tx[s].call /\ tx'[s].at = "correct commission" /\ tx'[s].mine = tx[s].mine
    BY <1>5, AfterRead
  <2>2. SaleScript(tx'[s], DOMAIN tx'[s].mine)
    BY <1>3, <2>1 DEF SaleScript
  <2>3. Script(tx'[s])
    BY <2>1, <2>2, SaleOnly
  <2>4. ~HasHeld(tx'[s])
    BY <2>1 DEF HasHeld
  <2>5. "commission" \in Rows /\ "commission" # "sale" /\ "commission" \notin DOMAIN tx[s].mine
    BY <1>3, Names
  <2>6. tx[s].call \in OfSale => "sale" \in DOMAIN tx[s].mine
    BY <1>3
  <2>7. "correct commission" # "idle" /\ "correct commission" \notin UseSale
    BY DEF UseSale
  <2> QED
    BY <1>1, <1>5, <2>3, <2>4, <2>5, <2>6, <2>7, ReadBase
<1> QED
  BY <1>1, <1>4, <1>5

LEMMA LookBase ==
  ASSUME Base, NEW s \in Sessions,
         LookAtSale(s) \/ RememberSale(s) \/ CheckSale(s) \/ ReadSale(s) \/ PeekAtSale(s)
  PROVE  Base' /\ Progress(s)
<1>1. tx[s].at \in {"look at sale", "remember sale", "check sale", "read sale", "peek at sale"}
  BY DEF LookAtSale, RememberSale, CheckSale, ReadSale, PeekAtSale, At
<1>2. /\ Typed(tx[s])
      /\ SaleScript(tx[s], DOMAIN tx[s].mine) /\ DisputeScript(tx[s], DOMAIN tx[s].mine)
  BY <1>1, OpenCall DEF Script
<1>3. /\ tx[s].at = "look at sale" => tx[s].call \in Settling
      /\ tx[s].at \in {"remember sale", "check sale"} => tx[s].call = "dispute"
      /\ tx[s].at = "read sale" => tx[s].call = "cancel"
      /\ tx[s].at = "peek at sale" => tx[s].call \in Over
      /\ DOMAIN tx[s].mine = {}
  BY <1>1, <1>2 DEF SaleScript, DisputeScript
<1>4. CASE Throw(s)
  BY <1>1, <1>4, ThrowBase
<1>5. CASE CheckSale(s) /\ ~Throw(s)
  <2>1. Pass(s, "hold sale") /\ tx[s].at = "check sale"
    BY <1>5 DEF CheckSale, At, Skip
  <2>2. tx'[s].call = tx[s].call /\ tx'[s].at = "hold sale" /\ tx'[s].mine = tx[s].mine
    BY <2>1, AfterPass
  <2>3. DisputeScript(tx'[s], DOMAIN tx'[s].mine)
    BY <1>3, <2>1, <2>2 DEF DisputeScript
  <2>4. Script(tx'[s])
    BY <2>2, <2>3, DisputeOnly
  <2>5. ~HasHeld(tx'[s]) /\ "sale" \in DOMAIN tx[s].seen
    BY <1>2, <2>1, <2>2 DEF HasHeld, Typed, UseSale
  <2>6. "hold sale" \notin {"idle"} \cup UseCommission
    BY DEF UseCommission
  <2> QED
    BY <2>1, <2>4, <2>5, <2>6, PassBase
<1>6. CASE ~CheckSale(s) /\ ~Throw(s)
  <2>1. PICK next :
          /\ Read(s, "sale", next)
          /\ \/ tx[s].at = "look at sale" /\ next = "settle commission"
             \/ /\ tx[s].at = "remember sale"
                /\ \/ next = "check sale"
                   \/ next = "insert dispute" /\ Row(s, "sale").status \notin {"pending", "approved"}
             \/ tx[s].at = "read sale" /\ next = "close sale"
             \/ tx[s].at = "peek at sale" /\ next \in {"restore sale", AfterRelease(s)}
    BY <1>6 DEF LookAtSale, RememberSale, ReadSale, PeekAtSale, At
  <2>2. Read(s, "sale", next)
    BY <2>1
  <2>3. /\ tx'[s].call = tx[s].call /\ tx'[s].row = tx[s].row /\ tx'[s].at = next
        /\ tx'[s].mine = tx[s].mine
    BY <2>2, AfterRead
  <2>4. DOMAIN tx'[s].mine = {}
    BY <1>3, <2>3
  <2>5. Row(s, "sale") = db["sale"]
    BY <1>3, RowsFit, Names
  <2>6. HasHeld(tx'[s]) => db["sale"].status \notin {"pending", "approved"}
    BY <1>3, <2>1, <2>3, <2>5 DEF HasHeld, Settling, Over
  <2>7. /\ Script(tx'[s])
        /\ next \notin {"idle"} \cup UseCommission
    <3>1. CASE tx[s].at \in {"look at sale", "read sale"}
      <4>1. SaleScript(tx'[s], DOMAIN tx'[s].mine)
        BY <3>1, <1>3, <2>1, <2>3, <2>4 DEF SaleScript, OfSale
      <4> QED
        BY <3>1, <2>1, <2>3, <4>1, SaleOnly DEF UseCommission
    <3>2. CASE tx[s].at = "remember sale"
      <4>1. DisputeScript(tx'[s], DOMAIN tx'[s].mine)
        BY <3>2, <1>3, <2>1, <2>3, <2>4 DEF DisputeScript
      <4> QED
        BY <3>2, <2>1, <2>3, <4>1, DisputeOnly DEF UseCommission
    <3>3. CASE tx[s].at = "peek at sale" /\ next = "restore sale"
      <4>1. DisputeScript(tx'[s], DOMAIN tx'[s].mine)
        BY <3>3, <1>3, <2>1, <2>3, <2>4 DEF DisputeScript
      <4> QED
        BY <3>3, <2>1, <2>3, <4>1, DisputeOnly DEF UseCommission
    <3>4. CASE tx[s].at = "peek at sale" /\ next = "read commission"
      <4>1. tx[s].call = "resolve"
        BY <3>4, <2>1 DEF AfterRelease
      <4>2. SaleScript(tx'[s], DOMAIN tx'[s].mine)
        BY <3>4, <2>3, <2>4, <4>1 DEF SaleScript, Corrections, Reattributions, OfSale
      <4> QED
        BY <3>4, <2>3, <4>2, SaleOnly DEF UseCommission
    <3>5. CASE tx[s].at = "peek at sale" /\ next = "close dispute"
      <4>1. tx[s].call \in Over /\ tx[s].call # "cancel"
        BY <3>5, <1>3 DEF Over
      <4>2. tx[s].row \in Disputes
        BY <1>2, <4>1 DEF Typed, About, OfDispute
      <4>3. DisputeScript(tx'[s], DOMAIN tx'[s].mine)
        BY <3>5, <2>3, <2>4, <4>1, <4>2 DEF DisputeScript
      <4> QED
        BY <3>5, <2>3, <4>3, DisputeOnly DEF UseCommission
    <3> QED
      BY <2>1, <3>1, <3>2, <3>3, <3>4, <3>5 DEF AfterRelease
  <2>8. tx[s].call # "refund" /\ "commission" \notin DOMAIN tx[s].mine
    BY <1>1, <1>3 DEF Settling, Over
  <2> HIDE DEF HasHeld
  <2> QED
    BY <1>1, <2>2, <2>6, <2>7, <2>8, Names, ReadBase
<1> QED
  BY <1>4, <1>5, <1>6
----------------------------------------------------------------------------
(* Every step is one of four kinds.                                        *)

\* A session begins a call, and what it saw.
Opens(s) ==
  LET u == tx'[s]
  IN  /\ Alone(s) /\ UNCHANGED <<db, ledger, superseded, given>>
      /\ met \subseteq met' /\ met' \subseteq met \cup {{a, b} : a, b \in Calls}
      /\ u.call = "refund" => u.seen["sale"] = db["sale"]
      /\ HasRead(u) => u.seen["commission"] = db["commission"]
      /\ ~HasHeld(u)
      /\ u.call \in Promotions => db["commission"].status \in {"pending", "approved"}
      /\ u.call \in Draws => db["commission"].payout = Null
      /\ u.call \in Marking => Live(u.row)
      /\ u.call = "dispute" => NoneOpen
      /\ u.call \in {"review"} \cup Over => db[u.row].status \in OpenStates

\* A session commits what it wrote.
Ends(s) ==
  LET t == tx[s]
  IN  /\ Alone(s) /\ tx'[s] = Idle /\ UNCHANGED met
      /\ t.at = "commit" /\ t.call \in Calls
      /\ Typed(t) /\ Scope(t) /\ Script(t) /\ Wrote(t, db)
      /\ \A r \in Rows : db'[r] = IF r \in DOMAIN t.mine THEN t.mine[r] ELSE db[r]
      /\ ledger' = ledger + t.entries
      /\ given' = IF t.call = "refund" THEN given + t.part ELSE given
      /\ superseded' \in BOOLEAN
      /\ \A o \in Sessions : o # s =>
           /\ tx[o].call # "none" => {t.call, tx[o].call} \in met
           /\ DOMAIN t.mine \cap DOMAIN tx[o].mine = {}

LEMMA Opening ==
  ASSUME Base, NEW s \in Sessions, Call(s)
  PROVE  Base' /\ Opens(s)
<1>1. PICK call, row, part, reads, next : Begins(s, call, row, part, reads, next)
  BY CallCases
<1>2. Base'
  BY <1>1, BeginBase
<1>3. /\ Alone(s) /\ tx'[s].call = call /\ tx'[s].at = next /\ tx'[s].row = row
      /\ DOMAIN tx'[s].seen = reads /\ \A r \in reads : tx'[s].seen[r] = db[r]
      /\ met' = met \cup {{call, tx[o].call} : o \in {o \in Sessions : tx[o].call # "none"}}
      /\ UNCHANGED <<db, ledger, superseded, given>>
  BY <1>1, Starting DEF Begins
<1>4. First(call, next) /\ Saw(call, row, part, reads)
  BY <1>1 DEF Begins
<1>5. ~HasHeld(tx'[s])
  BY <1>3, <1>4 DEF HasHeld, First
<1>7. HasRead(tx'[s]) => tx'[s].seen["commission"] = db["commission"]
  BY <1>3 DEF HasRead
<1>8. call = "refund" => tx'[s].seen["sale"] = db["sale"]
  BY <1>3, <1>4 DEF Saw
<1>9. met \subseteq met' /\ met' \subseteq met \cup {{a, b} : a, b \in Calls}
  <2>1. call \in Calls
    BY <1>4 DEF First, OfSale, Calls, Draws, Over, Corrections, Reattributions, Promotions
  <2>2. \A o \in Sessions : tx[o].call # "none" => tx[o].call \in Calls
    BY DEF Base, Proper, Typed
  <2> QED
    BY <1>3, <2>1, <2>2
<1>10. /\ call \in Promotions => db["commission"].status \in {"pending", "approved"}
       /\ call \in Draws => db["commission"].payout = Null
       /\ call \in Marking => Live(row)
       /\ call = "dispute" => NoneOpen
       /\ call \in {"review"} \cup Over => db[row].status \in OpenStates
  BY <1>4 DEF Saw
<1> HIDE DEF HasRead, HasHeld
<1> QED
  BY <1>2, <1>3, <1>5, <1>7, <1>8, <1>9, <1>10 DEF Opens

LEMMA Ending ==
  ASSUME Base, NEW s \in Sessions, Commit(s)
  PROVE  Base' /\ Ends(s)
<1>1. /\ tx' = [o \in Sessions |-> tx'[o]] /\ Alone(s) /\ tx'[s] = Idle
      /\ tx[s].at = "commit"
      /\ DOMAIN db' = Rows
      /\ \A r \in Rows : db'[r] = IF r \in DOMAIN tx[s].mine THEN tx[s].mine[r] ELSE db[r]
      /\ ledger' = ledger + tx[s].entries
      /\ given' = IF tx[s].call = "refund" THEN given + tx[s].part ELSE given
      /\ superseded' \in BOOLEAN
      /\ UNCHANGED met
  BY Committing
<1>2. /\ tx[s].call \in Calls
      /\ Typed(tx[s]) /\ Scope(tx[s]) /\ Script(tx[s]) /\ Wrote(tx[s], db)
      /\ \A o \in Sessions : o # s /\ tx[o].call # "none" => {tx[s].call, tx[o].call} \in met
      /\ \A o \in Sessions : o # s => DOMAIN tx[s].mine \cap DOMAIN tx[o].mine = {}
  BY <1>1, OpenCall
<1>3. Ends(s)
  BY <1>1, <1>2 DEF Ends
<1>4. ASSUME NEW r \in Rows PROVE Fit(r, db'[r])
  <2>1. Fit(r, db[r])
    BY DEF Base
  <2>2. r \in DOMAIN tx[s].mine => Fit(r, tx[s].mine[r])
    BY <1>2 DEF Typed
  <2> QED
    BY <1>1, <2>1, <2>2
<1>5. Idle.call = "none" /\ DOMAIN Idle.mine = {}
  BY DEF Idle, NoRows
<1>6. ASSUME NEW o \in Sessions PROVE Proper(tx'[o], db')
  <2>1. CASE o = s
    BY <2>1, <1>1, IdleProper
  <2>2. CASE o # s
    <3>1. tx'[o] = tx[o] /\ Typed(tx[o]) /\ Scope(tx[o]) /\ Script(tx[o]) /\ Wrote(tx[o], db)
      BY <2>2, <1>1 DEF Alone, Base, Proper
    <3>2. /\ "sale" \in DOMAIN tx[o].mine => db'["sale"] = db["sale"]
          /\ "commission" \in DOMAIN tx[o].mine => db'["commission"] = db["commission"]
      BY <2>2, <1>1, <1>2, Names
    <3>3. Wrote(tx[o], db')
      BY <3>1, <3>2 DEF Wrote
    <3> QED
      BY <3>1, <3>3 DEF Proper
  <2> QED
    BY <2>1, <2>2
<1>7. ASSUME NEW p \in Sessions, NEW o \in Sessions, p # o
      PROVE  DOMAIN tx'[p].mine \cap DOMAIN tx'[o].mine = {}
  BY <1>1, <1>5, <1>7 DEF Base, Alone
<1>8. Meeting'
  BY <1>1, <1>5 DEF Base, Alone, Meeting
<1>9. DOMAIN tx' = Sessions
  BY <1>1
<1> QED
  BY <1>1, <1>3, <1>4, <1>6, <1>7, <1>8, <1>9 DEF Base

LEMMA Stepping ==
  ASSUME Base, [Next]_vars
  PROVE  Base' /\ (UNCHANGED vars \/ \E s \in Sessions : Opens(s) \/ Progress(s) \/ Ends(s))
<1>1. ASSUME UNCHANGED vars PROVE Base'
  BY <1>1 DEF Base, vars, Meeting
<1>2. ASSUME NEW s \in Sessions, Call(s) PROVE Base' /\ Opens(s)
  BY <1>2, Opening
<1>3. ASSUME NEW s \in Sessions, EndDeadlock(s) PROVE Base' /\ Progress(s)
  <2>1. Target(s) # Null /\ Throw(s)
    BY <1>3 DEF EndDeadlock, Waits
  <2>2. tx[s].at # "idle"
    BY <2>1 DEF Target, At
  <2> QED
    BY <2>1, <2>2, ThrowBase
<1>4. ASSUME NEW s \in Sessions, Statement(s) PROVE Base' /\ (Progress(s) \/ Ends(s))
  <2>1. CASE CloseSale(s)
    BY <2>1, CloseSaleBase
  <2>2. CASE ApproveSale(s)
    BY <2>2, ApproveSaleBase
  <2>3. CASE ApproveByHand(s) \/ TouchSale(s) \/ HoldSale(s) \/ RestoreSale(s)
    BY <2>3, MoveSaleBase
  <2>4. CASE CorrectCommission(s)
    BY <2>4, CorrectBase
  <2>5. CASE MarkApproved(s) \/ SettleCommission(s) \/ TakeCommission(s)
    BY <2>5, MoveCommissionBase
  <2>6. CASE PayCommission(s) \/ GiveBack(s)
    BY <2>6, PayCommissionBase
  <2>7. CASE \/ InsertBatch(s) \/ SetBatch(s) \/ PayBatch(s) \/ CancelBatch(s)
             \/ InsertDispute(s) \/ ReviewDispute(s) \/ CloseDispute(s)
    BY <2>7, RowBase
  <2>8. CASE ReadCommission(s)
    BY <2>8, ReadCommissionBase
  <2>9. CASE LookAtSale(s) \/ RememberSale(s) \/ CheckSale(s) \/ ReadSale(s) \/ PeekAtSale(s)
    BY <2>9, LookBase
  <2>10. CASE Commit(s)
    BY <2>10, Ending
  <2>11. CASE EndDeadlock(s)
    BY <2>11, <1>3
  <2> QED
    BY <1>4, <2>1, <2>2, <2>3, <2>4, <2>5, <2>6, <2>7, <2>8, <2>9, <2>10, <2>11 DEF Statement
<1>5. CASE UNCHANGED vars
  BY <1>1, <1>5
<1>6. CASE Next
  <2>1. PICK s \in Sessions : Call(s) \/ Statement(s)
    BY <1>6 DEF Next
  <2> QED
    BY <2>1, <1>2, <1>4
<1> QED
  BY <1>5, <1>6

LEMMA Starts ==
  ASSUME Init
  PROVE  Base /\ \A s \in Sessions : tx[s] = Idle
<1>1. \A s \in Sessions : tx[s] = Idle
  BY DEF Init
<1>2. DOMAIN tx = Sessions /\ tx = [s \in Sessions |-> tx[s]]
  BY DEF Init
<1>3. ASSUME NEW r \in Rows PROVE Fit(r, db[r])
  <2>1. r = "sale" => \E settled \in BOOLEAN :
          db[r] = [status |-> IF settled THEN "approved" ELSE "pending", refunded |-> 0]
    BY Names DEF Init
  <2>2. r = "commission" => \E settled \in BOOLEAN :
          db[r] = [status |-> IF settled THEN "payable" ELSE "pending", amount |-> Amount,
                   payout |-> Null]
    BY Names DEF Init
  <2>3. r \in Payouts => db[r] = [status |-> "absent", amount |-> 0]
    BY Names DEF Init, Rows
  <2>4. r \in Disputes => db[r] = [status |-> "absent", previous |-> "none"]
    BY Names DEF Init, Rows
  <2>5. 0 \in 0..Amount /\ Amount \in 0..Amount
    BY RaceConstants
  <2>6. r = "sale" => db[r] \in SaleRows
    <3> SUFFICES ASSUME r = "sale" PROVE db[r] \in SaleRows
      OBVIOUS
    <3>1. PICK settled \in BOOLEAN :
            db[r] = [status |-> IF settled THEN "approved" ELSE "pending", refunded |-> 0]
      BY <2>1
    <3>2. (IF settled THEN "approved" ELSE "pending") \in {"pending", "approved"}
      OBVIOUS
    <3> QED
      BY <2>5, <3>1, <3>2 DEF SaleRows
  <2>7. r = "commission" => db[r] \in CommissionRows
    <3> SUFFICES ASSUME r = "commission" PROVE db[r] \in CommissionRows
      OBVIOUS
    <3>1. PICK settled \in BOOLEAN :
            db[r] = [status |-> IF settled THEN "payable" ELSE "pending", amount |-> Amount,
                     payout |-> Null]
      BY <2>2
    <3>2. (IF settled THEN "payable" ELSE "pending") \in {"pending", "payable"}
      OBVIOUS
    <3> QED
      BY <2>5, <3>1, <3>2 DEF CommissionRows
  <2> QED
    BY <2>3, <2>4, <2>5, <2>6, <2>7 DEF Fit, BatchRows, DisputeRows
<1>4. DOMAIN db = Rows
  BY DEF Init
<1>5. \A s \in Sessions : Proper(tx[s], db)
  BY <1>1, IdleProper
<1>6. Idle.call = "none" /\ DOMAIN Idle.mine = {}
  BY DEF Idle, NoRows
<1>7. Meeting /\ \A s, o \in Sessions : s # o => DOMAIN tx[s].mine \cap DOMAIN tx[o].mine = {}
  BY <1>1, <1>6 DEF Meeting
<1> QED
  BY <1>1, <1>2, <1>3, <1>4, <1>5, <1>7 DEF Base
----------------------------------------------------------------------------
(* The theorems.                                                           *)

LEMMA BaseCorrect == Spec => []Base
<1>1. Init => Base
  BY Starts
<1>2. Base /\ [Next]_vars => Base'
  BY Stepping
<1> QED
  BY <1>1, <1>2, PTL DEF Spec

\* Whatever overlaps, a sale is never refunded beyond its amount, in the committed row or in the
\* copy a transaction is about to commit: a refund checks its copy and writes that copy back.
THEOREM RefundsWithinCorrect == Spec => []RefundsWithin
<1>1. Base => RefundsWithin
  <2> SUFFICES ASSUME Base PROVE RefundsWithin
    OBVIOUS
  <2>1. \A r \in Rows : Fit(r, db[r])
    BY DEF Base
  <2>2. \A s \in Sessions : \A r \in DOMAIN tx[s].mine : Fit(r, tx[s].mine[r])
    BY DEF Base, Proper, Typed
  <2> QED
    BY <2>1, <2>2, Names DEF RefundsWithin, Fit, SaleRows, Held
<1> QED
  BY <1>1, BaseCorrect, PTL

\* Rows keep the shape of their tables whatever overlaps, no row is locked by two transactions, and
\* a session between calls has nothing open.
THEOREM TypeCorrect == Spec => []TypeOK
<1> DEFINE Pairs == met \subseteq {{a, b} : a, b \in Calls} /\ superseded \in BOOLEAN
<1>1. Init => Pairs
  <2> SUFFICES ASSUME Init PROVE Pairs
    OBVIOUS
  <2>1. met \subseteq {{a, b} : a, b \in Calls}
    BY DEF Init
  <2>2. superseded \in BOOLEAN
    BY DEF Init
  <2> QED
    BY <2>1, <2>2
<1>2. Base /\ Pairs /\ [Next]_vars => Pairs'
  <2> SUFFICES ASSUME Base, Pairs, [Next]_vars PROVE Pairs'
    OBVIOUS
  <2>1. /\ met' = met \/ met' \subseteq met \cup {{a, b} : a, b \in Calls}
        /\ superseded' = superseded \/ superseded' \in BOOLEAN
    BY Stepping DEF vars, Opens, Progress, Ends
  <2> QED
    BY <2>1
<1>3. Base /\ Pairs => TypeOK
  <2> SUFFICES ASSUME Base, Pairs PROVE TypeOK
    OBVIOUS
  <2>1. 0..Amount \subseteq Int
    BY RaceConstants
  <2>2. \A r \in Rows : Fit(r, db[r])
    BY DEF Base
  <2>3. db["sale"] \in [status : DOMAIN SaleMoves, refunded : Int]
    BY <2>1, <2>2, Names DEF Fit, SaleRows, SaleMoves
  <2>4. db["commission"] \in [status : DOMAIN CommissionMoves, amount : Int,
                              payout : Payouts \cup {Null}]
    <3>1. {"pending", "approved", "payable", "paid"} \cup Closed = DOMAIN CommissionMoves
      BY DEF Closed, CommissionMoves
    <3> QED
      BY <2>1, <2>2, <3>1, Names DEF Fit, CommissionRows
  <2>5. \A p \in Payouts : db[p] \in [status : DOMAIN PayoutMoves, amount : 0..Amount]
    BY <2>2, Names DEF Fit, BatchRows, PayoutMoves
  <2>6. \A d \in Disputes : db[d] \in [status : {"absent", "ended"} \cup OpenStates,
                                        previous : DOMAIN SaleMoves \cup {"none"}]
    BY <2>2, Names DEF Fit, DisputeRows, SaleMoves
  <2>7. \A s, o \in Sessions : s # o => Held(s) \cap Held(o) = {}
    BY DEF Base, Held
  <2>8. \A s \in Sessions : At(s, "idle") => tx[s] = Idle
    BY DEF Base, Proper, Typed, At
  <2> QED
    BY <2>3, <2>4, <2>5, <2>6, <2>7, <2>8 DEF TypeOK
<1> QED
  BY <1>1, <1>2, <1>3, BaseCorrect, PTL DEF Spec

\* What a transaction that holds a row can still wait for.
WaitsAs(s) ==
  \/ tx[s].call \in CommissionFirst /\ DOMAIN tx[s].mine = {"commission"} /\ Target(s) = "sale"
  \/ tx[s].call \in SaleFirst /\ DOMAIN tx[s].mine = {"sale"} /\ Target(s) = "commission"
  \/ /\ tx[s].row \in Payouts /\ DOMAIN tx[s].mine = {tx[s].row} /\ Target(s) = "commission"
  \/ DOMAIN tx[s].mine \subseteq {"sale", "commission"} /\ Target(s) \in Disputes
  \/ Target(s) \in DOMAIN tx[s].mine

LEMMA Waiting ==
  ASSUME Base, NEW s \in Sessions, Target(s) # Null, DOMAIN tx[s].mine # {}
  PROVE  WaitsAs(s)
<1>1. tx[s].at \in {"close sale", "approve by hand", "touch sale", "hold sale", "restore sale",
                    "approve commission", "settle commission", "take commission",
                    "insert batch", "set batch", "pay batch", "cancel batch",
                    "insert dispute", "review dispute", "close dispute",
                    "correct commission", "approve sale", "pay commission", "release commission"}
  BY DEF Target, At
<1>2. /\ Typed(tx[s]) /\ SaleScript(tx[s], DOMAIN tx[s].mine)
      /\ BatchScript(tx[s], DOMAIN tx[s].mine) /\ DisputeScript(tx[s], DOMAIN tx[s].mine)
  BY <1>1, OpenCall DEF Script
<1>3. /\ tx[s].call \in OfBatch => tx[s].row \in Payouts
      /\ tx[s].call \in OfDispute => tx[s].row \in Disputes
  BY <1>2 DEF Typed, About
<1>4. CASE tx[s].at \in {"close sale", "approve by hand", "hold sale", "restore sale",
                         "approve commission", "settle commission", "insert batch", "set batch",
                         "cancel batch", "review dispute"}
  BY <1>2, <1>4 DEF SaleScript, BatchScript, DisputeScript
<1>5. CASE tx[s].at \in {"take commission", "pay commission", "release commission"}
  <2>1. Target(s) = "commission"
    BY <1>5, Targets DEF At
  <2>2. \/ DOMAIN tx[s].mine = {tx[s].row} /\ tx[s].call \in OfBatch
        \/ "commission" \in DOMAIN tx[s].mine
    BY <1>2, <1>5 DEF BatchScript, OfBatch, Draws, Marking
  <2> QED
    BY <2>1, <2>2, <1>3 DEF WaitsAs
<1>6. CASE tx[s].at \in {"insert dispute", "close dispute"}
  <2>1. DOMAIN tx[s].mine \subseteq {"sale", "commission"} /\ tx[s].row \in Disputes
    BY <1>2, <1>3, <1>6 DEF DisputeScript, OfDispute
  <2>2. Target(s) = tx[s].row
    BY <1>6, Targets DEF At
  <2> QED
    BY <2>1, <2>2 DEF WaitsAs
<1>7. CASE tx[s].at = "correct commission"
  <2>1. DOMAIN tx[s].mine = {"sale"} /\ tx[s].call \in SaleFirst
    BY <1>2, <1>7 DEF SaleScript, OfSale, SaleFirst
  <2>2. Target(s) = "commission"
    BY <1>7, Targets DEF At
  <2> QED
    BY <2>1, <2>2 DEF WaitsAs
<1>8. CASE tx[s].at \in {"approve sale", "touch sale"}
  <2>1. /\ tx[s].call \in CommissionFirst
        /\ DOMAIN tx[s].mine = {"commission"} \/ "sale" \in DOMAIN tx[s].mine
    BY <1>2, <1>8 DEF SaleScript, CommissionFirst, Settling
  <2>2. Target(s) = "sale"
    BY <1>8, Targets DEF At
  <2> QED
    BY <2>1, <2>2 DEF WaitsAs
<1>9. CASE tx[s].at = "pay batch"
  <2>1. tx[s].row \in DOMAIN tx[s].mine /\ Target(s) = tx[s].row
    BY <1>2, <1>9, Targets DEF BatchScript, At
  <2> QED
    BY <2>1 DEF WaitsAs
<1> QED
  BY <1>1, <1>4, <1>5, <1>6, <1>7, <1>8, <1>9

\* Two transactions wait for each other's rows only when one takes the sale before its commission
\* and the other the commission before its sale: every other pair of calls locks in one order.
THEOREM CycleOnlyAgainstOrderCorrect == Spec => []CycleOnlyAgainstOrder
<1>1. Base => CycleOnlyAgainstOrder
  <2> SUFFICES ASSUME Base, NEW s \in Sessions, NEW o \in Sessions, s # o, Waits(s, o), Waits(o, s)
               PROVE  \/ tx[s].call \in SaleFirst /\ tx[o].call \in CommissionFirst
                      \/ tx[o].call \in SaleFirst /\ tx[s].call \in CommissionFirst
    BY DEF CycleOnlyAgainstOrder
  <2>1. /\ Target(s) # Null /\ Target(s) \in DOMAIN tx[o].mine
        /\ Target(o) # Null /\ Target(o) \in DOMAIN tx[s].mine
    BY DEF Waits, Held
  <2>2. DOMAIN tx[s].mine # {} /\ DOMAIN tx[o].mine # {}
    BY <2>1
  <2>3. DOMAIN tx[s].mine \cap DOMAIN tx[o].mine = {}
    BY DEF Base
  <2>4. WaitsAs(s) /\ WaitsAs(o)
    BY <2>1, <2>2, Waiting
  <2>5. Target(s) \notin DOMAIN tx[s].mine /\ Target(o) \notin DOMAIN tx[o].mine
    BY <2>1, <2>3
  <2> HIDE DEF Target
  <2> QED
    BY <2>1, <2>4, <2>5, Names DEF WaitsAs
<1> QED
  BY <1>1, BaseCorrect, PTL

\* What every open refund read is what the sale's row still says, until two refunds overlap.
RefundsRead ==
  Met("refund", "refund") \/
    /\ db["sale"].refunded = given
    /\ \A s \in Sessions : tx[s].call = "refund" => tx[s].seen["sale"].refunded = db["sale"].refunded

LEMMA RefundsReadStep ==
  ASSUME Base, RefundsRead, NEW s \in Sessions, Opens(s) \/ Progress(s) \/ Ends(s)
  PROVE  RefundsRead'
<1>1. met \subseteq met' /\ Alone(s)
  BY DEF Opens, Progress, Ends
<1>2. CASE Met("refund", "refund")
  BY <1>1, <1>2 DEF RefundsRead, Met
<1> SUFFICES ASSUME ~Met("refund", "refund")
             PROVE  /\ db'["sale"].refunded = given'
                    /\ \A o \in Sessions : tx'[o].call = "refund" =>
                         tx'[o].seen["sale"].refunded = db'["sale"].refunded
  BY <1>2 DEF RefundsRead
<1>3. /\ db["sale"].refunded = given
      /\ \A o \in Sessions : tx[o].call = "refund" => tx[o].seen["sale"].refunded = db["sale"].refunded
  BY DEF RefundsRead
<1>4. \A o \in Sessions : o # s => tx'[o] = tx[o]
  BY <1>1 DEF Alone
<1>5. Idle.call = "none"
  BY DEF Idle
<1>6. CASE Opens(s)
  BY <1>3, <1>4, <1>6 DEF Opens
<1>7. CASE Progress(s)
  BY <1>3, <1>4, <1>5, <1>7 DEF Progress
<1>8. CASE Ends(s)
  <2>1. /\ db'["sale"] = IF "sale" \in DOMAIN tx[s].mine THEN tx[s].mine["sale"] ELSE db["sale"]
        /\ given' = IF tx[s].call = "refund" THEN given + tx[s].part ELSE given
        /\ tx'[s] = Idle /\ tx[s].at = "commit"
        /\ Script(tx[s]) /\ Wrote(tx[s], db)
        /\ \A o \in Sessions : o # s /\ tx[o].call # "none" => {tx[s].call, tx[o].call} \in met
    BY <1>8, Names DEF Ends
  <2>2. CASE tx[s].call = "refund"
    <3>1. "sale" \in DOMAIN tx[s].mine
      BY <2>1, <2>2 DEF Script, CommitScript, OfSale
    <3>2. WroteSale(tx[s], tx[s].mine["sale"], db["sale"])
      BY <2>1, <3>1 DEF Wrote
    <3>3. db'["sale"].refunded = given'
      BY <1>3, <2>1, <2>2, <3>1, <3>2 DEF WroteSale
    <3>4. ASSUME NEW o \in Sessions, o # s PROVE tx[o].call # "refund"
      BY <2>1, <2>2, <3>4 DEF Met
    <3> QED
      BY <1>4, <1>5, <2>1, <3>3, <3>4
  <2>3. CASE tx[s].call # "refund"
    <3>1. db'["sale"].refunded = db["sale"].refunded
      BY <2>1, <2>3 DEF Wrote, WroteSale
    <3> QED
      BY <1>3, <1>4, <1>5, <2>1, <2>3, <3>1
  <2> QED
    BY <2>2, <2>3
<1> QED
  BY <1>6, <1>7, <1>8

\* Every refund that committed counts on its sale, unless two refunds overlapped: each writes the
\* sum it computed from its copy of the row, and only another refund can have changed that.
THEOREM NoRefundLostCorrect == Spec => []NoRefundLost
<1>1. Init => RefundsRead
  <2> SUFFICES ASSUME Init PROVE RefundsRead
    OBVIOUS
  <2>1. \A s \in Sessions : tx[s].call = "none"
    BY Starts DEF Idle
  <2>2. db["sale"].refunded = 0 /\ given = 0
    BY Names DEF Init
  <2> QED
    BY <2>1, <2>2 DEF RefundsRead
<1>2. Base /\ RefundsRead /\ [Next]_vars => RefundsRead'
  <2> SUFFICES ASSUME Base, RefundsRead, [Next]_vars PROVE RefundsRead'
    OBVIOUS
  <2>1. CASE UNCHANGED vars
    BY <2>1 DEF RefundsRead, Met, vars
  <2> QED
    BY <2>1, Stepping, RefundsReadStep
<1>3. RefundsRead => NoRefundLost
  BY DEF RefundsRead, NoRefundLost
<1> QED
  BY <1>1, <1>2, <1>3, BaseCorrect, PTL DEF Spec
\* Two corrections of one sale that both wait for its row are never past it at the same time.
LEMMA OneOfSale ==
  ASSUME Base, NEW s \in Sessions, NEW o \in Sessions, o # s, Ends(s),
         tx[s].call \in Corrections, HasRead(tx[o])
  PROVE  MetOneOf(Unqueued, Corrections)
<1>1. /\ tx[s].at = "commit" /\ Script(tx[s])
      /\ tx[o].call # "none" => {tx[s].call, tx[o].call} \in met
      /\ DOMAIN tx[s].mine \cap DOMAIN tx[o].mine = {}
  BY DEF Ends
<1>2. Scope(tx[o]) /\ tx[o].call \in Corrections
  BY DEF Base, Proper, HasRead
<1>3. {tx[s].call, tx[o].call} \in met /\ {tx[o].call, tx[s].call} = {tx[s].call, tx[o].call}
  <2>1. "none" \notin Corrections
    BY DEF Corrections, Reattributions
  <2> QED
    BY <1>1, <1>2, <2>1
<1>4. CASE tx[s].call \in Unqueued \/ tx[o].call \in Unqueued
  BY <1>2, <1>3, <1>4 DEF MetOneOf, Met
<1>5. CASE tx[s].call \in OfSale /\ tx[o].call \in OfSale
  <2>1. "sale" \in DOMAIN tx[s].mine
    BY <1>1, <1>5 DEF Script, CommitScript
  <2>2. "sale" \in DOMAIN tx[o].mine
    BY <1>2, <1>5 DEF Scope
  <2> QED
    BY <1>1, <2>1, <2>2
<1>6. \A call \in Corrections : call \in Unqueued \/ call \in OfSale
  BY DEF Corrections, Unqueued, OfSale
<1> QED
  BY <1>2, <1>4, <1>5, <1>6

UnqueuedMet == MetOneOf(Unqueued, Corrections)

\* The ledger is worth the row, and so is the copy every correction is about to correct.
LedgerRead ==
  UnqueuedMet \/
    /\ ledger = db["commission"].amount
    /\ \A s \in Sessions : HasRead(tx[s]) =>
         tx[s].seen["commission"].amount = db["commission"].amount

LEMMA LedgerReadStep ==
  ASSUME Base, LedgerRead, NEW s \in Sessions, Opens(s) \/ Progress(s) \/ Ends(s)
  PROVE  LedgerRead'
<1>1. met \subseteq met' /\ Alone(s)
  BY DEF Opens, Progress, Ends
<1>2. CASE UnqueuedMet
  BY <1>1, <1>2 DEF LedgerRead, UnqueuedMet, MetOneOf, Met
<1> SUFFICES ASSUME ~UnqueuedMet
             PROVE  /\ ledger' = db'["commission"].amount
                    /\ \A o \in Sessions : HasRead(tx'[o]) =>
                         tx'[o].seen["commission"].amount = db'["commission"].amount
  BY <1>2 DEF LedgerRead, HasRead
<1>3. /\ ledger = db["commission"].amount
      /\ \A o \in Sessions : HasRead(tx[o]) =>
           tx[o].seen["commission"].amount = db["commission"].amount
  BY DEF LedgerRead
<1>4. \A o \in Sessions : o # s => tx'[o] = tx[o]
  BY <1>1 DEF Alone
<1>5. ~HasRead(Idle)
  BY DEF Idle, HasRead, Corrections, Reattributions
<1>6. CASE Opens(s)
  <2>1. UNCHANGED <<db, ledger>> /\ (HasRead(tx'[s]) => tx'[s].seen["commission"] = db["commission"])
    BY <1>6 DEF Opens
  <2> QED
    BY <1>3, <1>4, <2>1
<1>7. CASE Progress(s)
  <2>1. /\ UNCHANGED <<db, ledger>>
        /\ \/ tx'[s] = Idle
           \/ HasRead(tx'[s]) => \/ tx'[s].seen["commission"] = db["commission"]
                                 \/ /\ HasRead(tx[s])
                                    /\ tx'[s].seen["commission"] = tx[s].seen["commission"]
    BY <1>7 DEF Progress
  <2> QED
    BY <1>3, <1>4, <1>5, <2>1
<1>8. CASE Ends(s)
  <2>1. /\ db'["commission"] = IF "commission" \in DOMAIN tx[s].mine THEN tx[s].mine["commission"]
                               ELSE db["commission"]
        /\ ledger' = ledger + tx[s].entries
        /\ tx'[s] = Idle /\ tx[s].at = "commit" /\ Wrote(tx[s], db)
    BY <1>8, Names DEF Ends
  <2>2. ledger \in Int
    BY <1>3, RowsFit DEF CommissionRows
  <2>3. CASE tx[s].call \in Corrections /\ "commission" \in DOMAIN tx[s].mine
    <3>1. tx[s].mine["commission"].amount = tx[s].seen["commission"].amount + tx[s].entries
      BY <2>1, <2>3 DEF Wrote, WroteCommission
    <3>2. tx[s].seen["commission"].amount = db["commission"].amount
      <4>1. HasRead(tx[s])
        BY <2>1, <2>3 DEF Wrote, WroteCommission
      <4> QED
        BY <1>3, <4>1
    <3>3. ledger' = db'["commission"].amount
      BY <1>3, <2>1, <2>3, <3>1, <3>2
    <3>4. ASSUME NEW o \in Sessions, o # s, HasRead(tx[o]) PROVE FALSE
      <4>1. MetOneOf(Unqueued, Corrections)
        BY <1>8, <2>3, <3>4, OneOfSale
      <4> QED
        BY <4>1 DEF UnqueuedMet
    <3> HIDE DEF HasRead
    <3> QED
      BY <1>4, <1>5, <2>1, <3>3, <3>4
  <2>4. CASE ~(tx[s].call \in Corrections /\ "commission" \in DOMAIN tx[s].mine)
    <3>1. tx[s].entries = 0 /\ db'["commission"].amount = db["commission"].amount
      BY <2>1, <2>4 DEF Wrote, WroteCommission
    <3>2. ledger' = ledger
      BY <2>1, <2>2, <3>1
    <3> QED
      BY <1>3, <1>4, <1>5, <2>1, <3>1, <3>2
  <2> QED
    BY <2>3, <2>4
<1> QED
  BY <1>6, <1>7, <1>8

\* What the ledger's credits and reversals sum to is what the commission's row is worth, unless a
\* reversal by hand or a reattribution overlapped another correction: refunds and cancellations of
\* the sale wait for one another at the sale's row before they read the commission.
THEOREM LedgerFollowsRowCorrect == Spec => []LedgerFollowsRow
<1>1. Init => LedgerRead
  <2> SUFFICES ASSUME Init PROVE LedgerRead
    OBVIOUS
  <2>1. \A s \in Sessions : tx[s].call = "none"
    BY Starts DEF Idle
  <2>2. db["commission"].amount = Amount /\ ledger = Amount
    BY Names DEF Init
  <2> QED
    BY <2>1, <2>2 DEF LedgerRead, HasRead, Corrections, Reattributions
<1>2. Base /\ LedgerRead /\ [Next]_vars => LedgerRead'
  <2> SUFFICES ASSUME Base, LedgerRead, [Next]_vars PROVE LedgerRead'
    OBVIOUS
  <2>1. CASE UNCHANGED vars
    BY <2>1 DEF LedgerRead, UnqueuedMet, MetOneOf, Met, HasRead, vars
  <2> QED
    BY <2>1, Stepping, LedgerReadStep
<1>3. LedgerRead => LedgerFollowsRow
  BY DEF LedgerRead, LedgerFollowsRow, UnqueuedMet
<1> QED
  BY <1>1, <1>2, <1>3, BaseCorrect, PTL DEF Spec

\* A batch that is live holds the commission; nothing does while a draw is open; a batch that is
\* given another status stays live.
BatchMet == MetOneOf(Draws, Draws) \/ MetOneOf({"cancel batch"}, Marking)

LiveHolds ==
  BatchMet \/
    /\ \A p \in Payouts : Live(p) => db["commission"].payout = p
    /\ \A s \in Sessions : tx[s].call \in Draws => db["commission"].payout = Null
    /\ \A s \in Sessions : tx[s].call \in Marking => Live(tx[s].row)

LEMMA LiveHoldsStep ==
  ASSUME Base, Base', LiveHolds, NEW s \in Sessions, Opens(s) \/ Progress(s) \/ Ends(s)
  PROVE  LiveHolds'
<1>1. met \subseteq met' /\ Alone(s)
  BY DEF Opens, Progress, Ends
<1>2. CASE BatchMet
  BY <1>1, <1>2 DEF LiveHolds, BatchMet, MetOneOf, Met
<1> SUFFICES ASSUME ~BatchMet
             PROVE  /\ \A p \in Payouts : Live(p)' => db'["commission"].payout = p
                    /\ \A o \in Sessions : tx'[o].call \in Draws => db'["commission"].payout = Null
                    /\ \A o \in Sessions : tx'[o].call \in Marking =>
                         db'[tx'[o].row].status \notin {"absent", "cancelled"}
  BY <1>2 DEF LiveHolds, Live
<1>3. /\ \A p \in Payouts : db[p].status \notin {"absent", "cancelled"} => db["commission"].payout = p
      /\ \A o \in Sessions : tx[o].call \in Draws => db["commission"].payout = Null
      /\ \A o \in Sessions : tx[o].call \in Marking => db[tx[o].row].status \notin {"absent", "cancelled"}
  BY DEF LiveHolds, Live
<1>4. \A o \in Sessions : o # s => tx'[o] = tx[o]
  BY <1>1 DEF Alone
<1>5. Idle.call = "none" /\ "none" \notin Draws \cup Marking
  BY DEF Idle, Draws, Marking
<1>6. CASE Opens(s)
  BY <1>3, <1>4, <1>6 DEF Opens, Live
<1>7. CASE Progress(s)
  BY <1>3, <1>4, <1>5, <1>7 DEF Progress, Live
<1>8. CASE Ends(s)
  <2> DEFINE p == tx[s].row
  <2>1. /\ \A r \in Rows : db'[r] = IF r \in DOMAIN tx[s].mine THEN tx[s].mine[r] ELSE db[r]
        /\ tx'[s] = Idle /\ tx[s].at = "commit" /\ tx[s].call \in Calls
        /\ Typed(tx[s]) /\ Scope(tx[s]) /\ Script(tx[s]) /\ Wrote(tx[s], db)
        /\ \A o \in Sessions : o # s /\ tx[o].call # "none" => {tx[s].call, tx[o].call} \in met
    BY <1>8 DEF Ends
  <2>2. \A o \in Sessions : tx[o].call \in Marking => tx[o].row \in Payouts
    BY DEF Base, Proper, Typed, About, OfBatch
  <2>3. db'["commission"].payout = IF "commission" \in DOMAIN tx[s].mine
                                   THEN tx[s].mine["commission"].payout ELSE db["commission"].payout
    BY <2>1, Names
  <2>4. tx[s].call \notin Draws \cup {"cancel batch"} =>
          db'["commission"].payout = db["commission"].payout
    BY <2>1, <2>3 DEF Wrote, WroteCommission
  <2>5. DOMAIN tx[s].mine \subseteq {"sale", "commission", p}
    BY <2>1 DEF Scope
  <2>6. \A q \in Payouts : q # p => db'[q] = db[q]
    BY <2>1, <2>5, Names
  <2>7. CASE tx[s].call \notin OfBatch
    <3>1. p \notin Payouts
      <4>1. p \in Disputes \/ p \in {"sale", "commission", Null}
        BY <2>1, <2>7 DEF Typed, About
      <4> QED
        BY <4>1, Names
    <3>2. \A q \in Payouts : db'[q] = db[q]
      BY <2>6, <3>1
    <3>3. db'["commission"].payout = db["commission"].payout
      BY <2>4, <2>7 DEF OfBatch
    <3> QED
      BY <1>3, <1>4, <1>5, <2>1, <2>2, <3>2, <3>3 DEF Live
  <2>8. CASE tx[s].call \in OfBatch
    <3>1. p \in Payouts
      BY <2>1, <2>8 DEF Typed, About
    <3>2. p \in DOMAIN tx[s].mine => WroteRow(tx[s], db'[p])
      BY <2>1, <3>1, Names DEF Wrote
    <3>3. CASE tx[s].call \in Draws
      <4>1. "commission" \in DOMAIN tx[s].mine
        BY <2>1, <3>3 DEF Script, CommitScript
      <4>2. db'["commission"].payout = p
        BY <2>1, <2>3, <3>3, <4>1 DEF Wrote, WroteCommission
      <4>3. db["commission"].payout = Null
        BY <1>3, <3>3
      <4>4. \A q \in Payouts : db[q].status \in {"absent", "cancelled"}
        BY <1>3, <4>3, Names
      <4>5. ASSUME NEW o \in Sessions, o # s PROVE tx[o].call \notin Draws \cup Marking
        <5>1. tx[o].call \notin Marking
          BY <1>3, <2>2, <4>4, <4>5
        <5>2. tx[o].call \notin Draws
          <6> SUFFICES ASSUME tx[o].call \in Draws PROVE FALSE
            OBVIOUS
          <6>1. {tx[s].call, tx[o].call} \in met
            BY <1>5, <2>1, <4>5
          <6> QED
            BY <3>3, <6>1 DEF BatchMet, MetOneOf, Met
        <5> QED
          BY <5>1, <5>2
      <4> QED
        BY <1>4, <1>5, <2>1, <2>6, <4>2, <4>4, <4>5 DEF Live
    <3>4. CASE tx[s].call \in Marking
      <4>1. db'["commission"].payout = db["commission"].payout
        BY <2>4, <3>4 DEF Marking, Draws
      <4>2. db[p].status \notin {"absent", "cancelled"}
        BY <1>3, <3>4
      <4>3. db'[p].status \notin {"absent", "cancelled"}
        BY <2>1, <3>1, <3>2, <3>4, <4>2, Names DEF WroteRow
      <4> QED
        BY <1>3, <1>4, <1>5, <2>1, <2>2, <2>6, <3>1, <4>1, <4>2, <4>3 DEF Live
    <3>5. CASE tx[s].call = "cancel batch"
      <4>1. \/ db'["commission"].payout = db["commission"].payout
            \/ db["commission"].payout = p /\ db'["commission"].payout = Null
        BY <2>1, <2>3, <3>5 DEF Wrote, WroteCommission
      <4>2. \A o \in Sessions : o # s => tx[o].call \notin Marking
        <5> SUFFICES ASSUME NEW o \in Sessions, o # s, tx[o].call \in Marking PROVE FALSE
          OBVIOUS
        <5>1. {"cancel batch", tx[o].call} \in met
          BY <1>5, <2>1, <3>5
        <5> QED
          BY <5>1 DEF BatchMet, MetOneOf, Met
      <4>3. p \in DOMAIN tx[s].mine /\ db'[p].status = "cancelled"
        <5>1. p \in DOMAIN tx[s].mine
          BY <2>1, <3>5 DEF Script, CommitScript
        <5> QED
          BY <3>2, <3>5, <5>1 DEF WroteRow
      <4>4. ASSUME NEW q \in Payouts, db'[q].status \notin {"absent", "cancelled"}
            PROVE  db'["commission"].payout = q
        <5>1. q # p /\ db'[q] = db[q]
          BY <2>6, <4>3, <4>4
        <5>2. db["commission"].payout = q
          BY <1>3, <4>4, <5>1
        <5> QED
          BY <4>1, <5>1, <5>2
      <4>5. ASSUME NEW o \in Sessions, tx'[o].call \in Draws
            PROVE  db'["commission"].payout = Null
        <5>1. tx[o].call \in Draws
          BY <1>4, <1>5, <2>1, <4>5
        <5>2. db["commission"].payout = Null
          BY <1>3, <5>1
        <5> QED
          BY <4>1, <5>2
      <4>6. \A o \in Sessions : tx'[o].call \notin Marking
        BY <1>4, <1>5, <2>1, <4>2
      <4> QED
        BY <4>4, <4>5, <4>6 DEF Live
    <3> QED
      BY <2>8, <3>3, <3>4, <3>5 DEF OfBatch
  <2> QED
    BY <2>7, <2>8
<1> QED
  BY <1>6, <1>7, <1>8

\* The commission is in two live batches only if two draws overlapped, or its batch was cancelled
\* while another call gave it a status: a draw takes what it read as free, and a mark writes the
\* status it found allowed, without looking again.
THEOREM PaidOnceCorrect == Spec => []PaidOnce
<1>1. Init => LiveHolds
  <2> SUFFICES ASSUME Init PROVE LiveHolds
    OBVIOUS
  <2>1. \A s \in Sessions : tx[s].call = "none"
    BY Starts DEF Idle
  <2>2. \A p \in Payouts : db[p] = [status |-> "absent", amount |-> 0]
    BY Names DEF Init
  <2>3. "none" \notin Draws \cup Marking
    BY DEF Draws, Marking
  <2> QED
    BY <2>1, <2>2, <2>3 DEF LiveHolds, Live
<1>2. Base /\ LiveHolds /\ [Next]_vars => LiveHolds'
  <2> SUFFICES ASSUME Base, LiveHolds, [Next]_vars PROVE LiveHolds'
    OBVIOUS
  <2>1. CASE UNCHANGED vars
    BY <2>1 DEF LiveHolds, BatchMet, MetOneOf, Met, Live, vars
  <2> QED
    BY <2>1, Stepping, LiveHoldsStep
<1>3. LiveHolds => PaidOnce
  <2> SUFFICES ASSUME LiveHolds PROVE PaidOnce
    OBVIOUS
  <2> DEFINE live == {p \in Payouts : Live(p)}
  <2>1. CASE BatchMet
    BY <2>1 DEF PaidOnce, BatchMet, Marking
  <2>2. CASE ~BatchMet
    <3>1. live \subseteq {db["commission"].payout}
      BY <2>2 DEF LiveHolds
    <3>2. IsFiniteSet({db["commission"].payout}) /\ Cardinality({db["commission"].payout}) = 1
      BY FS_Singleton
    <3>3. Cardinality(live) <= 1 /\ IsFiniteSet(live)
      BY <3>1, <3>2, FS_Subset
    <3>4. Cardinality(live) \in Nat
      BY <3>3, FS_CardinalityType
    <3>5. ~(Cardinality(live) > 1)
      BY <3>3, <3>4
    <3> QED
      BY <3>5 DEF PaidOnce
  <2> QED
    BY <2>1, <2>2
<1> QED
  BY <1>1, <1>2, <1>3, BaseCorrect, PTL DEF Spec
OnSale == {"pending", "approved"}
Open(d) == db[d].status \in OpenStates

\* What a commit does to the disputes and the status of the sale.
LEMMA DisputesAfter ==
  ASSUME Base, NEW s \in Sessions, Ends(s)
  PROVE  /\ \A d \in Disputes :
              /\ Open(d)' => Open(d) \/ (d = tx[s].row /\ tx[s].call \in {"dispute", "review"})
              /\ Open(d) => \/ Open(d)'
                            \/ tx[s].call \in Over /\ d = tx[s].row
                            \/ tx[s].call = "cancel" /\ db'["sale"].status \notin OnSale
              /\ tx[s].call \in Over /\ d = tx[s].row => ~Open(d)'
         /\ tx[s].call \notin {"approve"} \cup Over /\ db["sale"].status \notin OnSale =>
              db'["sale"].status \notin OnSale
         /\ tx[s].call = "dispute" =>
              /\ HasHeld(tx[s])
              /\ "sale" \in DOMAIN tx[s].mine => db'["sale"].status \notin OnSale
         /\ tx[s].call = "review" => db'["sale"] = db["sale"]
         /\ tx[s].call \in {"dispute", "review"} \cup Over => tx[s].row \in Disputes
<1> DEFINE row == tx[s].row
<1>1. /\ \A r \in Rows : db'[r] = IF r \in DOMAIN tx[s].mine THEN tx[s].mine[r] ELSE db[r]
      /\ tx[s].at = "commit" /\ tx[s].call \in Calls
      /\ Typed(tx[s]) /\ Scope(tx[s]) /\ Script(tx[s]) /\ Wrote(tx[s], db)
  BY DEF Ends
<1>2. /\ DOMAIN tx[s].mine \subseteq {"sale", "commission", row}
      /\ "sale" \in DOMAIN tx[s].mine =>
           tx[s].call \in SaleWriters /\ WroteSale(tx[s], db'["sale"], db["sale"])
      /\ "sale" \notin DOMAIN tx[s].mine => db'["sale"] = db["sale"]
  BY <1>1, Names DEF Scope, Wrote
<1>3. ASSUME NEW d \in Disputes, db'[d] # db[d]
      PROVE  /\ d = row /\ d \in DOMAIN tx[s].mine /\ WroteRow(tx[s], db'[d])
             /\ tx[s].call \in OfDispute \cup {"cancel"}
  <2>1. d \in DOMAIN tx[s].mine /\ d = row
    BY <1>1, <1>2, <1>3, Names
  <2>2. WroteRow(tx[s], db'[d])
    BY <1>1, <2>1, Names DEF Wrote
  <2>3. tx[s].call \in OfDispute \cup {"cancel"}
    <3>1. row \notin Payouts /\ row \notin {"sale", "commission", Null}
      BY <2>1, Names
    <3> QED
      BY <1>1, <3>1 DEF Typed, About
  <2> QED
    BY <2>1, <2>2, <2>3
<1>4. "ended" \notin OpenStates
  BY DEF OpenStates
<1>5. tx[s].call = "cancel" => db'["sale"].status \notin OnSale
  <2> SUFFICES ASSUME tx[s].call = "cancel" PROVE db'["sale"].status \notin OnSale
    OBVIOUS
  <2>1. "sale" \in DOMAIN tx[s].mine
    BY <1>1 DEF Script, CommitScript, OfSale
  <2> QED
    BY <1>2, <2>1 DEF WroteSale, OnSale
<1>6. ASSUME NEW d \in Disputes
      PROVE  /\ Open(d)' => Open(d) \/ (d = row /\ tx[s].call \in {"dispute", "review"})
             /\ Open(d) => \/ Open(d)'
                           \/ tx[s].call \in Over /\ d = row
                           \/ tx[s].call = "cancel" /\ db'["sale"].status \notin OnSale
  <2>1. CASE db'[d] = db[d]
    BY <2>1 DEF Open
  <2>2. CASE db'[d] # db[d]
    <3>1. d = row /\ WroteRow(tx[s], db'[d]) /\ tx[s].call \in OfDispute \cup {"cancel"}
      BY <1>3, <2>2
    <3>2. CASE tx[s].call \in {"dispute", "review"}
      BY <3>1, <3>2 DEF WroteRow, Open
    <3>3. CASE tx[s].call \in Over \cup {"cancel"}
      BY <1>4, <1>5, <3>1, <3>3 DEF WroteRow, Open
    <3> QED
      BY <3>1, <3>2, <3>3 DEF OfDispute
  <2> QED
    BY <2>1, <2>2
<1>7. ASSUME NEW d \in Disputes, tx[s].call \in Over, d = row PROVE ~Open(d)'
  <2>1. d \in DOMAIN tx[s].mine
    BY <1>1, <1>7 DEF Script, CommitScript
  <2>2. WroteRow(tx[s], db'[d])
    BY <1>1, <1>7, <2>1, Names DEF Wrote
  <2> QED
    BY <1>4, <1>7, <2>2 DEF WroteRow, Open
<1>8. tx[s].call \notin {"approve"} \cup Over /\ db["sale"].status \notin OnSale =>
        db'["sale"].status \notin OnSale
  <2> SUFFICES ASSUME tx[s].call \notin {"approve"} \cup Over, db["sale"].status \notin OnSale,
                      "sale" \in DOMAIN tx[s].mine
               PROVE  db'["sale"].status \notin OnSale
    BY <1>2
  <2>1. tx[s].call \in {"refund", "cancel", "reattribute", "detach", "settle", "release", "dispute"}
    BY <1>2 DEF SaleWriters, OfSale, Reattributions, Settling, Over
  <2>2. WroteSale(tx[s], db'["sale"], db["sale"])
    BY <1>2
  <2> QED
    BY <2>1, <2>2 DEF WroteSale, OnSale, Settling
<1>9. tx[s].call = "dispute" =>
        /\ HasHeld(tx[s])
        /\ "sale" \in DOMAIN tx[s].mine => db'["sale"].status \notin OnSale
  BY <1>1, <1>2 DEF HasHeld, WroteSale, OnSale
<1>10. tx[s].call = "review" => db'["sale"] = db["sale"]
  BY <1>2 DEF SaleWriters, OfSale, Reattributions, Settling
<1>11. tx[s].call \in {"dispute", "review"} \cup Over => row \in Disputes
  BY <1>1 DEF Typed, About, OfDispute
<1> QED
  BY <1>6, <1>7, <1>8, <1>9, <1>10, <1>11

\* At most one dispute is open; a dispute begins with none open, and what else is about a dispute
\* with that one; a dispute that has seen to the sale, and a review of one that is over, find the
\* sale held when they commit.
DisputeMet == MetOneOf({"dispute", "review"}, {"dispute", "withdraw", "resolve", "approve"})

Hold ==
  /\ \A d, e \in Disputes : Open(d) /\ Open(e) => d = e
  /\ \A s \in Sessions : tx[s].call = "dispute" => \A d \in Disputes : ~Open(d)
  /\ \A s \in Sessions : tx[s].call \in {"review"} \cup Over =>
       \A d \in Disputes : Open(d) => d = tx[s].row
  /\ \A s \in Sessions : HasHeld(tx[s]) =>
       "sale" \in DOMAIN tx[s].mine \/ db["sale"].status \notin OnSale
  /\ \A s \in Sessions : tx[s].call = "review" => Open(tx[s].row) \/ db["sale"].status \notin OnSale
  /\ \A s, o \in Sessions : tx[s].call = "review" /\ tx[o].call = "review" => tx[s].row = tx[o].row

DisputeHolds == DisputeMet \/ Hold

LEMMA HoldOpens ==
  ASSUME Base, Base', Hold, NEW s \in Sessions, Opens(s)
  PROVE  Hold'
<1>1. /\ db' = db /\ ~HasHeld(tx'[s])
      /\ tx'[s].call = "dispute" => \A d \in Disputes : ~Open(d)
      /\ tx'[s].call \in {"review"} \cup Over => Open(tx'[s].row)
  BY DEF Opens, NoneOpen, Open
<1>2. \A o \in Sessions : o # s => tx'[o] = tx[o]
  BY DEF Opens, Alone
<1>3. tx'[s].call \in {"review"} \cup Over => tx'[s].row \in Disputes
  BY DEF Base, Proper, Typed, About, OfDispute
<1>4. \A d : Open(d)' <=> Open(d)
  BY <1>1 DEF Open
<1>5. /\ \A d, e \in Disputes : Open(d) /\ Open(e) => d = e
      /\ \A o \in Sessions : tx[o].call = "dispute" => \A d \in Disputes : ~Open(d)
      /\ \A o \in Sessions : tx[o].call \in {"review"} \cup Over =>
           \A d \in Disputes : Open(d) => d = tx[o].row
      /\ \A o \in Sessions : HasHeld(tx[o]) =>
           "sale" \in DOMAIN tx[o].mine \/ db["sale"].status \notin OnSale
      /\ \A o \in Sessions : tx[o].call = "review" => Open(tx[o].row) \/ db["sale"].status \notin OnSale
      /\ \A p, o \in Sessions : tx[p].call = "review" /\ tx[o].call = "review" => tx[p].row = tx[o].row
  BY DEF Hold
<1>6. ASSUME NEW o \in Sessions, tx'[o].call = "dispute", NEW d \in Disputes PROVE ~Open(d)
  BY <1>1, <1>2, <1>5, <1>6
<1>7. ASSUME NEW o \in Sessions, tx'[o].call \in {"review"} \cup Over, NEW d \in Disputes, Open(d)
      PROVE  d = tx'[o].row
  <2>1. CASE o = s
    BY <1>1, <1>3, <1>5, <1>7, <2>1
  <2>2. CASE o # s
    <3>1. tx'[o] = tx[o]
      BY <1>2, <2>2
    <3> QED
      BY <1>5, <1>7, <3>1
  <2> QED
    BY <2>1, <2>2
<1>8. ASSUME NEW o \in Sessions, HasHeld(tx'[o])
      PROVE  "sale" \in DOMAIN tx'[o].mine \/ db["sale"].status \notin OnSale
  <2>1. o # s /\ tx'[o] = tx[o]
    BY <1>1, <1>2, <1>8
  <2> QED
    BY <1>5, <1>8, <2>1
<1>9. ASSUME NEW o \in Sessions, tx'[o].call = "review"
      PROVE  Open(tx'[o].row) \/ db["sale"].status \notin OnSale
  BY <1>1, <1>2, <1>5, <1>9
<1>10. ASSUME NEW p \in Sessions, NEW o \in Sessions, tx'[p].call = "review", tx'[o].call = "review"
       PROVE  tx'[p].row = tx'[o].row
  <2>1. CASE p # s /\ o # s
    BY <1>2, <1>5, <1>10, <2>1
  <2>2. CASE p = s
    BY <1>1, <1>3, <1>7, <1>10, <2>2
  <2>3. CASE o = s
    BY <1>1, <1>3, <1>7, <1>10, <2>3
  <2> QED
    BY <2>1, <2>2, <2>3
<1> HIDE DEF HasHeld
<1> QED
  BY <1>1, <1>4, <1>5, <1>6, <1>7, <1>8, <1>9, <1>10 DEF Hold

LEMMA HoldProgress ==
  ASSUME Base, Hold, NEW s \in Sessions, Progress(s)
  PROVE  Hold'
<1>1. /\ db' = db
      /\ \/ tx'[s] = Idle
         \/ /\ tx'[s].call = tx[s].call /\ tx'[s].row = tx[s].row
            /\ DOMAIN tx[s].mine \subseteq DOMAIN tx'[s].mine
            /\ HasHeld(tx'[s]) => \/ HasHeld(tx[s]) \/ "sale" \in DOMAIN tx'[s].mine
                                  \/ db["sale"].status \notin OnSale
  BY DEF Progress, OnSale
<1>2. \A o \in Sessions : o # s => tx'[o] = tx[o]
  BY DEF Progress, Alone
<1>3. Idle.call = "none" /\ ~HasHeld(Idle) /\ "none" \notin {"dispute", "review"} \cup Over
  BY DEF Idle, HasHeld, Over
<1>4. \A d : Open(d)' <=> Open(d)
  BY <1>1 DEF Open
<1>5. \A o \in Sessions : tx'[o].call \in {"dispute", "review"} \cup Over =>
        tx'[o].call = tx[o].call /\ tx'[o].row = tx[o].row
  BY <1>1, <1>2, <1>3
<1>6. ASSUME NEW o \in Sessions, HasHeld(tx'[o])
      PROVE  "sale" \in DOMAIN tx'[o].mine \/ db["sale"].status \notin OnSale
  <2>0. HasHeld(tx[o]) => "sale" \in DOMAIN tx[o].mine \/ db["sale"].status \notin OnSale
    BY DEF Hold
  <2>1. CASE o = s
    <3>1. tx'[s] # Idle
      BY <1>3, <1>6, <2>1
    <3> HIDE DEF HasHeld
    <3> QED
      BY <1>1, <1>6, <2>0, <2>1, <3>1
  <2>2. CASE o # s
    <3>1. tx'[o] = tx[o]
      BY <1>2, <2>2
    <3> QED
      BY <1>6, <2>0, <3>1
  <2> QED
    BY <2>1, <2>2
<1>7. \A o \in Sessions : tx'[o].call = "dispute" => \A d \in Disputes : ~Open(d)
  BY <1>5 DEF Hold
<1>8. \A o \in Sessions : tx'[o].call \in {"review"} \cup Over =>
        \A d \in Disputes : Open(d) => d = tx'[o].row
  BY <1>5 DEF Hold
<1>9. \A o \in Sessions : tx'[o].call = "review" => Open(tx'[o].row) \/ db["sale"].status \notin OnSale
  BY <1>5 DEF Hold
<1>10. \A p, o \in Sessions : tx'[p].call = "review" /\ tx'[o].call = "review" => tx'[p].row = tx'[o].row
  BY <1>5 DEF Hold
<1>11. \A d, e \in Disputes : Open(d) /\ Open(e) => d = e
  BY DEF Hold
<1> HIDE DEF HasHeld
<1> QED
  BY <1>1, <1>4, <1>6, <1>7, <1>8, <1>9, <1>10, <1>11 DEF Hold

LEMMA HoldEnds ==
  ASSUME Base, Hold, ~DisputeMet, NEW s \in Sessions, Ends(s)
  PROVE  Hold'
<1> DEFINE call == tx[s].call
<1>1. /\ \A d \in Disputes :
           /\ Open(d)' => Open(d) \/ (d = tx[s].row /\ call \in {"dispute", "review"})
           /\ Open(d) => \/ Open(d)'
                         \/ call \in Over /\ d = tx[s].row
                         \/ call = "cancel" /\ db'["sale"].status \notin OnSale
      /\ call \notin {"approve"} \cup Over /\ db["sale"].status \notin OnSale =>
           db'["sale"].status \notin OnSale
      /\ call \in {"dispute", "review"} \cup Over => tx[s].row \in Disputes
  BY DisputesAfter
<1>2. /\ tx'[s] = Idle /\ \A o \in Sessions : o # s => tx'[o] = tx[o]
      /\ \A o \in Sessions : o # s /\ tx[o].call # "none" => {call, tx[o].call} \in met
  BY DEF Ends, Alone
<1>3. Idle.call = "none" /\ ~HasHeld(Idle) /\ "none" \notin {"dispute", "review"} \cup Over
  BY DEF Idle, HasHeld, Over
<1>4. ASSUME NEW o \in Sessions, o # s
      PROVE  /\ call \in {"dispute", "review"} =>
                  tx[o].call \notin {"dispute", "withdraw", "resolve", "approve"}
             /\ tx[o].call \in {"dispute", "review"} =>
                  call \notin {"dispute", "withdraw", "resolve", "approve"}
  <2>1. tx[o].call # "none" => {call, tx[o].call} \in met /\ {tx[o].call, call} \in met
    <3>1. {call, tx[o].call} = {tx[o].call, call}
      OBVIOUS
    <3> QED
      BY <1>2, <1>4, <3>1
  <2> HIDE DEF call
  <2> QED
    BY <2>1 DEF DisputeMet, MetOneOf, Met
<1>5. \A o \in Sessions : tx'[o].call \in {"dispute", "review"} \cup Over \/ HasHeld(tx'[o]) =>
        o # s /\ tx'[o] = tx[o]
  BY <1>2, <1>3
<1> HIDE DEF call
<1>6. /\ \A d, e \in Disputes : Open(d) /\ Open(e) => d = e
      /\ call = "dispute" => \A d \in Disputes : ~Open(d)
      /\ call \in {"review"} \cup Over => \A d \in Disputes : Open(d) => d = tx[s].row
  BY DEF Hold, call
<1>7. ASSUME NEW d \in Disputes, NEW e \in Disputes, Open(d)', Open(e)' PROVE d = e
  BY <1>1, <1>6, <1>7
<1>8. ASSUME NEW o \in Sessions, tx'[o].call = "dispute", NEW d \in Disputes PROVE ~Open(d)'
  <2>1. o # s /\ tx[o].call = "dispute"
    BY <1>5, <1>8
  <2>2. call \notin {"dispute", "review"}
    BY <1>4, <2>1
  <2>3. ~Open(d)
    BY <2>1 DEF Hold
  <2> QED
    BY <1>1, <2>2, <2>3
<1>9. ASSUME NEW o \in Sessions, tx'[o].call \in {"review"} \cup Over, NEW d \in Disputes, Open(d)'
      PROVE  d = tx'[o].row
  <2>1. o # s /\ tx'[o] = tx[o] /\ tx[o].call \in {"review"} \cup Over
    BY <1>5, <1>9
  <2>2. CASE Open(d)
    BY <2>1, <2>2 DEF Hold
  <2>3. CASE d = tx[s].row /\ call \in {"dispute", "review"}
    <3>1. call = "review" /\ tx[o].call = "review"
      BY <1>4, <2>1, <2>3 DEF Over
    <3> QED
      BY <2>1, <2>3, <3>1 DEF Hold, call
  <2> QED
    BY <1>1, <1>9, <2>2, <2>3
<1>10. ASSUME NEW o \in Sessions, HasHeld(tx'[o])
       PROVE  "sale" \in DOMAIN tx'[o].mine \/ db'["sale"].status \notin OnSale
  <2>1. o # s /\ tx'[o] = tx[o]
    BY <1>5, <1>10
  <2>2. tx[o].call = "dispute"
    BY <1>10, <2>1 DEF HasHeld
  <2>3. "sale" \in DOMAIN tx[o].mine \/ db["sale"].status \notin OnSale
    BY <1>10, <2>1 DEF Hold
  <2>4. call \notin {"approve"} \cup Over
    BY <1>4, <2>1, <2>2 DEF Over
  <2> QED
    BY <1>1, <2>1, <2>3, <2>4
<1>11. ASSUME NEW o \in Sessions, tx'[o].call = "review"
       PROVE  db'[tx'[o].row].status \in OpenStates \/ db'["sale"].status \notin OnSale
  <2>1. o # s /\ tx'[o] = tx[o] /\ tx[o].call = "review"
    BY <1>5, <1>11
  <2>2. tx[o].row \in Disputes
    BY <2>1 DEF Base, Proper, Typed, About, OfDispute
  <2>3. Open(tx[o].row) \/ db["sale"].status \notin OnSale
    BY <2>1 DEF Hold
  <2>4. call \notin {"approve"} \cup Over
    BY <1>4, <2>1 DEF Over
  <2>5. CASE db["sale"].status \notin OnSale
    BY <1>1, <2>4, <2>5
  <2>6. CASE Open(tx[o].row)
    <3>1. PICK d \in Disputes : d = tx[o].row
      BY <2>2
    <3>2. Open(d)
      BY <2>6, <3>1
    <3>3. Open(d)' \/ db'["sale"].status \notin OnSale
      BY <1>1, <2>4, <3>2
    <3> QED
      BY <2>1, <3>1, <3>3 DEF Open
  <2> QED
    BY <2>3, <2>5, <2>6
<1>12. ASSUME NEW p \in Sessions, NEW o \in Sessions, tx'[p].call = "review", tx'[o].call = "review"
       PROVE  tx'[p].row = tx'[o].row
  <2>1. tx'[p] = tx[p] /\ tx'[o] = tx[o]
    BY <1>5, <1>12
  <2> QED
    BY <1>12, <2>1 DEF Hold
<1> QED
  BY <1>7, <1>8, <1>9, <1>10, <1>11, <1>12 DEF Hold, Open

\* A sale comes out of its hold with a dispute open only by an approval of the sale, or after a call
\* that opens or reviews a dispute overlapped another one of disputes, or an approval: every other
\* call that gives the sale a status leaves a held one held or ends the one dispute there is.
THEOREM HeldWhileOpenCorrect == Spec => HeldWhileOpen
<1>1. Init => DisputeHolds
  <2> SUFFICES ASSUME Init PROVE Hold
    BY DEF DisputeHolds
  <2>1. \A s \in Sessions : tx[s].call = "none" /\ ~HasHeld(tx[s])
    <3>1. Idle.call = "none"
      BY DEF Idle
    <3> QED
      BY <3>1, Starts DEF HasHeld
  <2>2. \A d \in Disputes : db[d] = [status |-> "absent", previous |-> "none"]
    BY Names DEF Init
  <2>3. \A d \in Disputes : ~Open(d)
    BY <2>2 DEF Open, OpenStates
  <2>4. "none" \notin {"dispute", "review"} \cup Over
    BY DEF Over
  <2> QED
    BY <2>1, <2>3, <2>4 DEF Hold
<1>2. Base /\ DisputeHolds /\ [Next]_vars => DisputeHolds'
  <2> SUFFICES ASSUME Base, DisputeHolds, [Next]_vars PROVE DisputeHolds'
    OBVIOUS
  <2>1. CASE UNCHANGED vars
    BY <2>1 DEF DisputeHolds, DisputeMet, MetOneOf, Met, Hold, Open, HasHeld, vars
  <2>2. CASE \E s \in Sessions : Opens(s) \/ Progress(s) \/ Ends(s)
    <3>1. PICK s \in Sessions : Opens(s) \/ Progress(s) \/ Ends(s)
      BY <2>2
    <3>2. Base'
      BY Stepping
    <3>3. DisputeMet => DisputeMet'
      <4>1. met \subseteq met'
        BY <3>1 DEF Opens, Progress, Ends
      <4> QED
        BY <4>1 DEF DisputeMet, MetOneOf, Met
    <3>4. Hold /\ ~DisputeMet => Hold'
      BY <3>1, <3>2, HoldOpens, HoldProgress, HoldEnds
    <3> QED
      BY <3>3, <3>4 DEF DisputeHolds
  <2> QED
    BY <2>1, <2>2, Stepping
<1>3. Base /\ DisputeHolds /\ [Next]_vars =>
        [~Unheld /\ Unheld' =>
           \/ MetOneOf({"dispute", "review"}, {"dispute", "withdraw", "resolve", "approve"})
           \/ \E s \in Sessions : tx[s].call = "approve" /\ tx'[s] # tx[s] ]_vars
  <2> SUFFICES ASSUME Base, Hold, ~DisputeMet, [Next]_vars, ~Unheld, Unheld',
                      ~\E s \in Sessions : tx[s].call = "approve" /\ tx'[s] # tx[s]
               PROVE  FALSE
    BY DEF DisputeHolds, DisputeMet
  <2>1. db' # db
    BY DEF Unheld
  <2>2. PICK s \in Sessions : Ends(s)
    BY <2>1, Stepping DEF vars, Opens, Progress
  <2>3. tx[s].call # "approve"
    <3>1. tx'[s] = Idle /\ tx[s].call \in Calls
      BY <2>2 DEF Ends
    <3>2. Idle.call = "none" /\ "none" # "approve"
      BY DEF Idle
    <3> QED
      BY <3>1, <3>2
  <2>4. /\ \A d \in Disputes :
             /\ Open(d)' => Open(d) \/ (d = tx[s].row /\ tx[s].call \in {"dispute", "review"})
             /\ tx[s].call \in Over /\ d = tx[s].row => ~Open(d)'
        /\ tx[s].call \notin {"approve"} \cup Over /\ db["sale"].status \notin OnSale =>
             db'["sale"].status \notin OnSale
        /\ tx[s].call = "dispute" =>
             /\ HasHeld(tx[s])
             /\ "sale" \in DOMAIN tx[s].mine => db'["sale"].status \notin OnSale
        /\ tx[s].call = "review" => db'["sale"] = db["sale"]
        /\ tx[s].call \in {"dispute", "review"} \cup Over => tx[s].row \in Disputes
    BY <2>2, DisputesAfter
  <2>5. PICK d \in Disputes : Open(d)'
    BY DEF Unheld, Open
  <2>6. db'["sale"].status \in OnSale
    BY DEF Unheld, OnSale
  <2>7. (\A e \in Disputes : ~Open(e)) \/ db["sale"].status \notin OnSale
    BY DEF Unheld, OnSale, Open
  <2>8. CASE tx[s].call \in Over
    <3>1. Open(d) /\ d = tx[s].row
      BY <2>4, <2>5, <2>8 DEF Hold, Over
    <3> QED
      BY <2>4, <2>5, <2>8, <3>1
  <2>9. CASE tx[s].call = "dispute"
    <3>1. "sale" \in DOMAIN tx[s].mine \/ db["sale"].status \notin OnSale
      BY <2>4, <2>9 DEF Hold
    <3> QED
      BY <2>4, <2>6, <2>9, <3>1 DEF Over
  <2>10. CASE tx[s].call = "review"
    <3>1. Open(tx[s].row) \/ db["sale"].status \notin OnSale
      BY <2>10 DEF Hold
    <3> QED
      BY <2>4, <2>6, <2>7, <2>10, <3>1
  <2>11. CASE tx[s].call \notin {"dispute", "review"} \cup Over
    BY <2>3, <2>4, <2>5, <2>6, <2>7, <2>11
  <2> QED
    BY <2>8, <2>9, <2>10, <2>11
<1> QED
  BY <1>1, <1>2, <1>3, BaseCorrect, PTL DEF Spec, HeldWhileOpen

\* A commission that is about to be settled or approved is neither closed nor paid, and one that a
\* correction takes for open is open, unless calls of the named kinds overlapped.
ClosedMet == MetOneOf(Promotions \cup Unqueued, Corrections)
PaidMet == MetOneOf({"pay", "record"}, Promotions \cup Corrections)

EndedSeen ==
  /\ ClosedMet \/
       /\ \A s \in Sessions : tx[s].call \in Promotions => db["commission"].status \notin Closed
       /\ \A s \in Sessions : HasRead(tx[s]) /\ db["commission"].status \in Closed =>
            tx[s].seen["commission"].status \in Closed
  /\ PaidMet \/
       /\ \A s \in Sessions : tx[s].call \in Promotions => db["commission"].status # "paid"
       /\ \A s \in Sessions : HasRead(tx[s]) /\ db["commission"].status = "paid" =>
            tx[s].seen["commission"].status = "paid"

\* The status after a commit: a correction closes what its copy had open, a settlement or an
\* approval leaves it open, a payment pays what was payable.
LEMMA StatusAfter ==
  ASSUME Base, NEW s \in Sessions, Ends(s)
  PROVE  \/ db'["commission"].status = db["commission"].status
         \/ /\ tx[s].call \in Corrections /\ HasRead(tx[s]) /\ db'["commission"].status \in Closed
            /\ tx[s].seen["commission"].status \notin Closed \cup {"paid"}
         \/ tx[s].call \in Promotions /\ db'["commission"].status \in {"payable", "approved"}
         \/ /\ tx[s].call \in {"pay", "record"} /\ db'["commission"].status = "paid"
            /\ db["commission"].status = "payable"
<1>1. /\ db'["commission"] = IF "commission" \in DOMAIN tx[s].mine THEN tx[s].mine["commission"]
                             ELSE db["commission"]
      /\ Scope(tx[s]) /\ Wrote(tx[s], db)
  BY Names DEF Ends
<1>2. CASE "commission" \notin DOMAIN tx[s].mine
  BY <1>1, <1>2
<1>3. CASE "commission" \in DOMAIN tx[s].mine
  <2>1. WroteCommission(tx[s], db'["commission"], db["commission"])
    BY <1>1, <1>3 DEF Wrote
  <2>2. tx[s].call \in CommissionWriters
    BY <1>1, <1>3 DEF Scope
  <2>3. CASE tx[s].call \in Corrections
    <3> HIDE DEF HasRead
    <3> QED
      BY <2>1, <2>3 DEF WroteCommission
  <2>4. CASE tx[s].call \in Promotions
    BY <2>1, <2>4 DEF WroteCommission
  <2>5. CASE tx[s].call \in {"pay", "record"}
    BY <2>1, <2>5 DEF WroteCommission
  <2>6. CASE tx[s].call \in {"draw", "cancel batch"}
    BY <2>1, <2>6 DEF WroteCommission
  <2> QED
    BY <2>2, <2>3, <2>4, <2>5, <2>6 DEF CommissionWriters, Draws
<1> QED
  BY <1>2, <1>3

LEMMA EndedSeenStep ==
  ASSUME Base, EndedSeen, NEW s \in Sessions, Opens(s) \/ Progress(s) \/ Ends(s)
  PROVE  EndedSeen'
<1> DEFINE before == db["commission"].status
           after == db'["commission"].status
<1>1. met \subseteq met' /\ \A o \in Sessions : o # s => tx'[o] = tx[o]
  BY DEF Opens, Progress, Ends, Alone
<1>2. (ClosedMet => ClosedMet') /\ (PaidMet => PaidMet')
  BY <1>1 DEF ClosedMet, PaidMet, MetOneOf, Met
<1>3. Idle.call \notin Promotions /\ ~HasRead(Idle)
  BY DEF Idle, HasRead, Promotions, Corrections, Reattributions
<1>4. /\ ~ClosedMet => /\ \A o \in Sessions : tx[o].call \in Promotions => before \notin Closed
                       /\ \A o \in Sessions : HasRead(tx[o]) /\ before \in Closed =>
                            tx[o].seen["commission"].status \in Closed
      /\ ~PaidMet => /\ \A o \in Sessions : tx[o].call \in Promotions => before # "paid"
                     /\ \A o \in Sessions : HasRead(tx[o]) /\ before = "paid" =>
                          tx[o].seen["commission"].status = "paid"
  BY DEF EndedSeen
<1>5. SUFFICES
        /\ ~ClosedMet => /\ \A o \in Sessions : tx'[o].call \in Promotions => after \notin Closed
                         /\ \A o \in Sessions : HasRead(tx'[o]) /\ after \in Closed =>
                              tx'[o].seen["commission"].status \in Closed
        /\ ~PaidMet => /\ \A o \in Sessions : tx'[o].call \in Promotions => after # "paid"
                       /\ \A o \in Sessions : HasRead(tx'[o]) /\ after = "paid" =>
                            tx'[o].seen["commission"].status = "paid"
  BY <1>2 DEF EndedSeen, HasRead
<1>6. CASE Opens(s)
  <2>1. /\ UNCHANGED db
        /\ HasRead(tx'[s]) => tx'[s].seen["commission"] = db["commission"]
        /\ tx'[s].call \in Promotions => before \in {"pending", "approved"}
    BY <1>6 DEF Opens
  <2>2. tx'[s].call \in Promotions => before \notin Closed /\ before # "paid"
    BY <2>1 DEF Closed
  <2> QED
    BY <1>1, <1>4, <2>1, <2>2
<1>7. CASE Progress(s)
  <2>1. /\ UNCHANGED db
        /\ \/ tx'[s] = Idle
           \/ /\ tx'[s].call = tx[s].call
              /\ HasRead(tx'[s]) => \/ tx'[s].seen["commission"] = db["commission"]
                                    \/ /\ HasRead(tx[s])
                                       /\ tx'[s].seen["commission"] = tx[s].seen["commission"]
    BY <1>7 DEF Progress
  <2>2. tx'[s].call \in Promotions => tx[s].call \in Promotions
    BY <1>3, <2>1
  <2>3. HasRead(tx'[s]) => \/ tx'[s].seen["commission"] = db["commission"]
                           \/ /\ HasRead(tx[s])
                              /\ tx'[s].seen["commission"] = tx[s].seen["commission"]
    BY <1>3, <2>1
  <2> HIDE DEF HasRead
  <2> QED
    BY <1>1, <1>4, <2>1, <2>2, <2>3
<1>8. CASE Ends(s)
  <2>1. /\ tx'[s] = Idle
        /\ \A o \in Sessions : o # s /\ tx[o].call # "none" => {tx[s].call, tx[o].call} \in met
    BY <1>8 DEF Ends
  <2>2. /\ \A o \in Sessions : tx'[o].call \in Promotions => o # s /\ tx[o].call \in Promotions
        /\ \A o \in Sessions : HasRead(tx'[o]) => o # s /\ HasRead(tx[o]) /\ tx'[o] = tx[o]
    BY <1>1, <1>3, <2>1
  <2>3. CASE after = before
    BY <1>4, <2>2, <2>3
  <2>4. CASE tx[s].call \in Corrections /\ after \in Closed
    <3>1. after # "paid"
      BY <2>4 DEF Closed
    <3>2. ASSUME NEW o \in Sessions, o # s, tx[o].call \in Promotions PROVE ClosedMet
      <4>1. {tx[o].call, tx[s].call} \in met
        <5>1. "none" \notin Promotions /\ {tx[o].call, tx[s].call} = {tx[s].call, tx[o].call}
          BY DEF Promotions
        <5> QED
          BY <2>1, <3>2, <5>1
      <4> QED
        BY <2>4, <3>2, <4>1 DEF ClosedMet, MetOneOf, Met
    <3>3. ASSUME NEW o \in Sessions, o # s, HasRead(tx[o]) PROVE ClosedMet
      <4>1. MetOneOf(Unqueued, Corrections)
        BY <1>8, <2>4, <3>3, OneOfSale
      <4> QED
        BY <4>1 DEF ClosedMet, MetOneOf
    <3> QED
      BY <2>2, <3>1, <3>2, <3>3
  <2>5. CASE after \in {"payable", "approved"}
    BY <2>5 DEF Closed
  <2>6. CASE tx[s].call \in {"pay", "record"} /\ after = "paid"
    <3>1. after \notin Closed
      BY <2>6 DEF Closed
    <3>2. ASSUME NEW o \in Sessions, o # s, tx[o].call \in Promotions \cup Corrections PROVE PaidMet
      <4>1. {tx[s].call, tx[o].call} \in met
        <5>1. "none" \notin Promotions \cup Corrections
          BY DEF Promotions, Corrections, Reattributions
        <5> QED
          BY <2>1, <3>2, <5>1
      <4> QED
        BY <2>6, <3>2, <4>1 DEF PaidMet, MetOneOf, Met
    <3>3. \A o \in Sessions : HasRead(tx[o]) => tx[o].call \in Corrections
      BY DEF HasRead
    <3> QED
      BY <2>2, <3>1, <3>2, <3>3
  <2> QED
    BY <1>8, <2>3, <2>4, <2>5, <2>6, StatusAfter
<1> QED
  BY <1>6, <1>7, <1>8

\* A commission that was taken back stays so, unless a settlement or an approval met a correction,
\* or a correction that does not wait for the sale met another; one that was paid stays paid, unless
\* a call that read it before met the payment.
THEOREM EndedStaysEndedCorrect == Spec => EndedStaysEnded
<1>1. Init => EndedSeen
  <2> SUFFICES ASSUME Init PROVE EndedSeen
    OBVIOUS
  <2>1. \A s \in Sessions : tx[s].call = "none"
    BY Starts DEF Idle
  <2> QED
    BY <2>1 DEF EndedSeen, HasRead, Promotions, Corrections, Reattributions
<1>2. Base /\ EndedSeen /\ [Next]_vars => EndedSeen'
  <2> SUFFICES ASSUME Base, EndedSeen, [Next]_vars PROVE EndedSeen'
    OBVIOUS
  <2>1. CASE UNCHANGED vars
    BY <2>1 DEF EndedSeen, ClosedMet, PaidMet, MetOneOf, Met, HasRead, vars
  <2> QED
    BY <2>1, Stepping, EndedSeenStep
<1>3. Base /\ EndedSeen /\ [Next]_vars =>
        [LET before == db["commission"].status
             after == db'["commission"].status
         IN  /\ before \in Closed /\ after # before =>
                  MetOneOf(Promotions \cup Unqueued, Corrections)
             /\ before = "paid" /\ after # before =>
                  MetOneOf({"pay", "record"}, Promotions \cup Corrections) ]_vars
  <2> SUFFICES ASSUME Base, EndedSeen, [Next]_vars, db' # db
               PROVE  /\ /\ db["commission"].status \in Closed
                         /\ db'["commission"].status # db["commission"].status
                         => ClosedMet
                      /\ /\ db["commission"].status = "paid"
                         /\ db'["commission"].status # db["commission"].status
                         => PaidMet
    BY DEF ClosedMet, PaidMet
  <2>1. PICK s \in Sessions : Ends(s)
    BY Stepping DEF vars, Opens, Progress
  <2>2. HasRead(tx[s]) \/ tx[s].call \in Promotions =>
          /\ db["commission"].status \in Closed =>
               ClosedMet \/ (HasRead(tx[s]) /\ tx[s].seen["commission"].status \in Closed)
          /\ db["commission"].status = "paid" =>
               PaidMet \/ (HasRead(tx[s]) /\ tx[s].seen["commission"].status = "paid")
    <3>1. ~(HasRead(tx[s]) /\ tx[s].call \in Promotions)
      BY DEF HasRead, Corrections, Reattributions, Promotions
    <3> QED
      BY <3>1 DEF EndedSeen
  <2>3. tx[s].call \in Promotions => ~HasRead(tx[s])
    BY DEF HasRead, Corrections, Reattributions, Promotions
  <2>4. {"payable", "approved"} \cap (Closed \cup {"paid"}) = {}
    BY DEF Closed
  <2> HIDE DEF HasRead
  <2> QED
    BY <2>1, <2>2, <2>3, <2>4, StatusAfter
<1> QED
  BY <1>1, <1>2, <1>3, BaseCorrect, PTL DEF Spec, EndedStaysEnded

====
