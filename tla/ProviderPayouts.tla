-------------------------- MODULE ProviderPayouts --------------------------
(***************************************************************************)
(* Payouts sent through a payment provider (integrations.ts,               *)
(* payoutProviders.ts) on top of the job queue: a merchant hands a batch   *)
(* over, a worker asks the provider to pay it, the settlement job polls    *)
(* what the provider has not settled yet, and meanwhile people mark        *)
(* batches paid or failed by hand, cancel them and draw new ones.          *)
(*                                                                         *)
(* The provider's answer may be lost: every error of the call, a timeout   *)
(* included, is returned as a failure.  A worker's transaction is open     *)
(* while the provider is asked, so that what it read before the call may   *)
(* have changed when it writes the answer.  A merchant's request reads the *)
(* batch or the commissions, checks what it read, and writes by key alone: *)
(* others may write in between, and its UPDATE does not look again.        *)
(***************************************************************************)
EXTENDS Naturals, FiniteSets

CONSTANTS
  Payouts,   \* batches; the job of a batch has its id, as its key send_payout:<id> has
  Rows,      \* commissions of one affiliate
  People,    \* merchants' requests that may overlap
  Workers, Null, MaxAttempts, MaxRetries, MaxSlips, MaxCrashes,
  MaxAsks    \* bound: requests made, draws apart

ASSUME ProviderConstants ==
  /\ Null \notin Payouts
  /\ MaxAttempts \in Nat \ {0}
  /\ MaxRetries \in Nat
  /\ MaxAsks \in Nat

VARIABLES
  jobs, workers, commits, retries, slips, crashes,  \* the queue, see JobQueue
  payouts,    \* status, provider and providerRef of each batch, and the rows it was drawn from
  rows,       \* status and payoutId of each commission
  requests,   \* what each merchant's open request has read
  connected,  \* the providers whose credentials the workspace has
  calls,      \* the provider each worker's open transaction is asking, or what it answered
  polled,     \* the batches the poll in progress read, or Null between polls
  provider,   \* external: what each provider made of a batch's idempotency key
  doubtful,   \* history: batches recorded as failed that the provider had taken
  reopened,   \* history: failed batches put back to processing by hand
  asks,       \* history: requests made so far, draws apart
  stale       \* history: batches written from a copy that no longer held

Queue == INSTANCE JobQueue WITH JobIds <- Payouts

queueVars == <<jobs, workers, commits, retries, slips, crashes>>
history == <<doubtful, reopened, asks, stale>>
vars == <<queueVars, payouts, rows, requests, connected, calls, polled, provider, history>>

\* Mutant: a batch that is being paid can be cancelled.
PayoutMovesInFlight ==
  [absent     |-> {},
   draft      |-> {"processing", "paid", "cancelled"},
   processing |-> {"paid", "failed", "cancelled"},
   failed     |-> {"processing", "cancelled"},
   paid       |-> {},
   cancelled  |-> {}]

PayoutMoves ==
  [absent     |-> {},
   draft      |-> {"processing", "paid", "cancelled"},
   processing |-> {"paid", "failed"},
   failed     |-> {"processing", "cancelled"},
   paid       |-> {},
   cancelled  |-> {}]

Methods == {"stripe_connect", "paypal"}

\* A provider knows a batch by the key payout:<id>, kept on its row; each provider keeps its own keys.
Keys == Payouts \X Methods

\* What a worker hears from a provider.
Heards == {"paid", "processing", "failed", "denied"}

AbsentPayout == [status |-> "absent", via |-> "none", ref |-> FALSE, rows |-> {}]

\* A request, with the status it read or the rows it found, and later the provider.
Request(call, p, seen, found) ==
  [call |-> call, payout |-> p, seen |-> seen, via |-> "none", rows |-> found]

NoRequest == Request("none", Null, "absent", {})

Init ==
  /\ Queue!Init
  /\ payouts = [p \in Payouts |-> AbsentPayout]
  /\ rows = [k \in Rows |-> [status |-> "approved", payout |-> Null]]
  /\ requests = [h \in People |-> NoRequest]
  /\ connected = Methods
  /\ calls = [w \in Workers |-> "none"]
  /\ polled = Null
  /\ provider = [key \in Keys |-> "none"]
  /\ doubtful = {}
  /\ reopened = {}
  /\ asks = 0
  /\ stale = {}

----------------------------------------------------------------------------
(* The merchant's requests.  Each is a transaction that reads and checks,  *)
(* and later writes whatever the row has become; a row lock makes the      *)
(* write and the commit one step.                                          *)

\* A commission's holding period ends.
Settle(k) ==
  /\ rows[k].status = "approved"
  /\ rows' = [rows EXCEPT ![k].status = "payable"]
  /\ UNCHANGED <<queueVars, payouts, requests, connected, calls, polled, provider, history>>

Counted == asks < MaxAsks /\ asks' = asks + 1

Asks(h, request) ==
  /\ requests[h] = NoRequest
  /\ IF request.call = "draw" THEN asks' = asks ELSE Counted
  /\ requests' = [requests EXCEPT ![h] = request]
  /\ UNCHANGED <<queueVars, payouts, rows, connected, calls, polled, provider, doubtful, reopened,
                 stale>>

Answered(h) == requests' = [requests EXCEPT ![h] = NoRequest]

Free(k) == rows[k].status = "payable" /\ rows[k].payout = Null

\* createPayoutBatch finds every payable commission that is in no batch, for a batch with a new id.
AskBatch(h, p) ==
  LET free == {k \in Rows : Free(k)}
  IN  /\ payouts[p].status = "absent"
      /\ \A other \in People : requests[other].payout # p
      /\ free # {}
      /\ Asks(h, Request("draw", p, "absent", free))

\* Its writes: a draft, and the commissions taken for it.
CreateBatch(h) ==
  LET p == requests[h].payout
      taken == requests[h].rows
  IN  /\ requests[h].call = "draw"
      /\ payouts' = [payouts EXCEPT ![p] = [@ EXCEPT !.status = "draft", !.rows = taken]]
      /\ rows' = [k \in Rows |-> IF k \in taken THEN [rows[k] EXCEPT !.payout = p] ELSE rows[k]]
      /\ stale' = IF \A k \in taken : Free(k) THEN stale ELSE stale \cup {p}
      /\ Answered(h)
      /\ UNCHANGED <<queueVars, connected, calls, polled, provider, doubtful, reopened, asks>>

\* Mutant: a batch that failed can be handed over again.
SendableAgain(p) == payouts[p].status \in {"draft", "failed"}

Sendable(p) == payouts[p].status = "draft"

\* queueProviderPayout reads a draft.
AskSend(h, p) ==
  /\ Sendable(p)
  /\ Asks(h, Request("send", p, payouts[p].status, {}))

\* It finds the affiliate's payout method, whatever the affiliate last chose, and its provider
\* connected.
FindProvider(h, method) ==
  /\ requests[h].call = "send" /\ requests[h].via = "none"
  /\ method \in connected
  /\ requests' = [requests EXCEPT ![h].via = method]
  /\ UNCHANGED <<queueVars, payouts, rows, connected, calls, polled, provider, history>>

\* The batch that h asks about is no longer as h read it.
Overtaken(h) ==
  LET p == requests[h].payout
  IN  IF payouts[p].status = requests[h].seen THEN {} ELSE {p}

\* The batch goes to the provider, through a job: a key already in the table inserts nothing.
QueueProviderPayout(h) ==
  LET p == requests[h].payout
  IN  /\ requests[h].call = "send" /\ requests[h].via # "none"
      /\ payouts' = [payouts EXCEPT ![p] = [@ EXCEPT !.status = "processing", !.via = requests[h].via]]
      /\ IF jobs[p].status = "absent" THEN Queue!Enqueue({p}) ELSE UNCHANGED queueVars
      /\ stale' = stale \cup Overtaken(h)
      /\ Answered(h)
      /\ UNCHANGED <<rows, connected, calls, polled, provider, doubtful, reopened, asks>>

InFlight(p) == payouts[p].status = "processing" /\ payouts[p].via # "none"

ConnectPayoutProvider(method) ==
  /\ method \notin connected
  /\ connected' = connected \cup {method}
  /\ UNCHANGED <<queueVars, payouts, rows, requests, calls, polled, provider, history>>

DisconnectPayoutProvider(method) ==
  /\ method \in connected
  /\ \A p \in Payouts : InFlight(p) => payouts[p].via # method
  /\ connected' = connected \ {method}
  /\ Counted
  /\ UNCHANGED <<queueVars, payouts, rows, requests, calls, polled, provider, doubtful, reopened,
                 stale>>

----------------------------------------------------------------------------
(* What happens to a batch's rows with its status.                         *)

RowsPaid(paid) ==
  [k \in Rows |-> IF rows[k].payout \in paid /\ rows[k].status = "payable"
                  THEN [rows[k] EXCEPT !.status = "paid"] ELSE rows[k]]

RowsReleased(p) ==
  [k \in Rows |-> IF rows[k].payout = p THEN [rows[k] EXCEPT !.payout = Null] ELSE rows[k]]

\* The provider has p, under the key of one provider or the other.
Took(p) == \E key \in Keys : key[1] = p /\ provider[key] \in {"accepted", "paid"}

\* A worker is asking for p.
Asked(p) == \E w \in Workers : workers[w].job = p /\ calls[w] \in Methods

\* If p is now recorded as failed, the provider may have it all the same.
InDoubt(p) == IF Took(p) \/ Asked(p) THEN {p} ELSE {}

\* markPayoutProcessing, markPayoutPaid, markPayoutFailed and cancelPayout read the batch and check
\* the move.
AskMove(h, p, to) ==
  /\ to \in PayoutMoves[payouts[p].status]
  /\ Asks(h, Request(to, p, payouts[p].status, {}))

\* setStatus: the status is written by the batch's key alone.
SetStatus(h, to) ==
  LET p == requests[h].payout
  IN  /\ requests[h].call = to
      /\ payouts' = [payouts EXCEPT ![p].status = to]
      /\ stale' = stale \cup Overtaken(h)
      /\ Answered(h)
      /\ UNCHANGED <<queueVars, connected, calls, polled, provider, asks>>

MarkPayoutProcessing(h) ==
  /\ SetStatus(h, "processing")
  /\ reopened' = reopened \cup {requests[h].payout}
  /\ UNCHANGED <<rows, doubtful>>

MarkPayoutPaid(h) ==
  /\ SetStatus(h, "paid")
  /\ rows' = RowsPaid({requests[h].payout})
  /\ UNCHANGED <<doubtful, reopened>>

MarkPayoutFailed(h) ==
  /\ SetStatus(h, "failed")
  /\ doubtful' = doubtful \cup InDoubt(requests[h].payout)
  /\ UNCHANGED <<rows, reopened>>

CancelPayout(h) ==
  /\ SetStatus(h, "cancelled")
  /\ rows' = RowsReleased(requests[h].payout)
  /\ UNCHANGED <<doubtful, reopened>>

----------------------------------------------------------------------------
(* executeProviderPayout in a worker's transaction.                        *)

Starts(w, p) == workers[w].stage = "running" /\ workers[w].job = p /\ calls[w] = "none"

\* The batch is not open, not for a provider, or sent already.
NothingToSend(p) == ~InFlight(p) \/ payouts[p].ref

ExecuteNothing(w) ==
  \E p \in Payouts :
    /\ Starts(w, p)
    /\ NothingToSend(p)
    /\ Queue!Commit(w)
    /\ UNCHANGED <<payouts, rows, requests, connected, calls, polled, provider, history>>

\* The batch is read, and its provider's adapter built if the provider is still connected.
ExecuteRead(w) ==
  \E p \in Payouts :
    /\ Starts(w, p)
    /\ ~NothingToSend(p)
    /\ calls' = [calls EXCEPT ![w] = IF payouts[p].via \in connected THEN payouts[p].via ELSE "gone"]
    /\ UNCHANGED <<queueVars, payouts, rows, requests, connected, polled, provider, history>>

\* Without a provider the batch is failed; it was processing when it was read.
ExecuteDisconnected(w) ==
  LET p == workers[w].job
  IN  /\ calls[w] = "gone"
      /\ payouts' = [payouts EXCEPT ![p].status = "failed"]
      /\ doubtful' = doubtful \cup InDoubt(p)
      /\ stale' = IF payouts[p].status = "processing" THEN stale ELSE stale \cup {p}
      /\ calls' = [calls EXCEPT ![w] = "none"]
      /\ Queue!Commit(w)
      /\ UNCHANGED <<rows, requests, connected, polled, provider, reopened, asks>>

\* What the provider makes of a request under a key, and what it answers: a new key is paid at
\* once, taken for later, refused or denied; a known key changes nothing.
Reaction(method, known) ==
  IF known = "none"
  THEN {[made |-> "none", answer |-> "failed"],
        IF method = "paypal" THEN [made |-> "accepted", answer |-> "processing"]
        ELSE [made |-> "paid", answer |-> "paid"]}
       \cup (IF method = "paypal" THEN {[made |-> "returned", answer |-> "denied"]} ELSE {})
  ELSE {[made |-> known, answer |-> IF method = "paypal" THEN "processing" ELSE "paid"]}

\* adapter.send: any error on the way back is a failure to the caller.
Heard(reaction) == {reaction.answer, "failed"}

Send(w) ==
  LET key == <<workers[w].job, calls[w]>>
  IN  /\ calls[w] \in Methods
      /\ \E r \in Reaction(calls[w], provider[key]) : \E answer \in Heard(r) :
           /\ provider' = [provider EXCEPT ![key] = r.made]
           /\ calls' = [calls EXCEPT ![w] = answer]
      /\ UNCHANGED <<queueVars, payouts, rows, requests, connected, polled, history>>

\* applyProviderResult: how an answer leaves the batch, and the move it must be allowed to make.
Target(answer) ==
  CASE answer = "paid" -> "paid"
    [] answer \in {"failed", "denied", "gone"} -> "failed"
    [] answer = "processing" -> "processing"

Allowed(p, answer) ==
  answer = "processing" \/ Target(answer) \in PayoutMoves[payouts[p].status]

\* Mutant: an error leaves the batch as it was, for another try.
AppliedLeavingFailed(row, answer) ==
  [row EXCEPT !.status = IF answer \in {"processing", "failed"} THEN @ ELSE Target(answer),
              !.ref = answer # "failed"]

\* An error has no reference, and the copy of the row that was read had none either.
Applied(row, answer) ==
  [row EXCEPT !.status = IF answer = "processing" THEN @ ELSE Target(answer),
              !.ref = answer # "failed"]

\* The answer is written; the first UPDATE locks the row before the status is checked.
ApplyResult(w) ==
  LET p == workers[w].job
      answer == calls[w]
  IN  /\ answer \in Heards /\ Allowed(p, answer)
      /\ payouts' = [payouts EXCEPT ![p] = Applied(@, answer)]
      /\ rows' = IF answer = "paid" THEN RowsPaid({p}) ELSE rows
      /\ doubtful' = IF answer \in {"failed", "denied"} THEN doubtful \cup InDoubt(p) ELSE doubtful
      /\ calls' = [calls EXCEPT ![w] = "none"]
      /\ Queue!Commit(w)
      /\ UNCHANGED <<requests, connected, polled, provider, reopened, asks, stale>>

\* The batch was moved meanwhile: the write throws, and the job fails.
ApplyRefused(w) ==
  LET p == workers[w].job
  IN  /\ calls[w] \in Heards \cup {"gone"} /\ ~Allowed(p, calls[w])
      /\ calls' = [calls EXCEPT ![w] = "none"]
      /\ Queue!Throw(w)
      /\ UNCHANGED <<payouts, rows, requests, connected, polled, provider, history>>

Execute(w) ==
  \/ ExecuteNothing(w) \/ ExecuteRead(w) \/ ExecuteDisconnected(w)
  \/ Send(w) \/ ApplyResult(w) \/ ApplyRefused(w)

\* The rest of the worker's loop leaves the batches alone.
Loop(w) ==
  /\ Queue!Pick(w) \/ Queue!Claim(w) \/ Queue!LoseRace(w)
       \/ Queue!CompleteJob(w) \/ Queue!FailJob(w)
  /\ UNCHANGED <<payouts, rows, requests, connected, calls, polled, provider, history>>

\* An error or a crash rolls the transaction back, whatever the provider has done.
Fault(w) ==
  /\ Queue!Fault(w)
  /\ calls' = [calls EXCEPT ![w] = "none"]
  /\ UNCHANGED <<payouts, rows, requests, connected, polled, provider, history>>

----------------------------------------------------------------------------
(* pollProviderPayouts, at the end of each settlement job: one transaction *)
(* for all open batches.                                                   *)

\* Only PayPal's adapter can be asked again.
Pollable(p) == InFlight(p) /\ payouts[p].ref /\ payouts[p].via = "paypal"

PollRead ==
  /\ polled = Null
  /\ \E p \in Payouts : Pollable(p)
  /\ polled' = {p \in Payouts : Pollable(p)}
  /\ UNCHANGED <<queueVars, payouts, rows, requests, connected, calls, provider, history>>

\* External: what a poll of p answers, if anything.
PollAnswer(p) ==
  CASE provider[<<p, "paypal">>] = "paid" -> "paid"
    [] provider[<<p, "paypal">>] = "returned" -> "denied"
    [] OTHER -> "processing"

\* A poll that gets no answer leaves the batch processing.
Answers(silent) ==
  [p \in polled |-> IF "paypal" \in connected /\ p \notin silent THEN PollAnswer(p)
                    ELSE "processing"]

PollWrite(silent) ==
  LET answers == Answers(silent)
      settled == {p \in polled : answers[p] # "processing"}
  IN  /\ polled # Null
      /\ silent \subseteq polled
      /\ IF \A p \in settled : Allowed(p, answers[p])
         THEN /\ payouts' = [p \in Payouts |->
                   IF p \in settled THEN Applied(payouts[p], answers[p]) ELSE payouts[p]]
              /\ rows' = RowsPaid({p \in settled : answers[p] = "paid"})
              /\ doubtful' = doubtful \cup
                   UNION {InDoubt(p) : p \in {q \in settled : answers[q] = "denied"}}
         ELSE UNCHANGED <<payouts, rows, doubtful>>
      /\ polled' = Null
      /\ UNCHANGED <<queueVars, requests, connected, calls, provider, reopened, asks, stale>>

\* External: the provider settles what it has accepted.
ProviderSettles(key) ==
  /\ provider[key] = "accepted"
  /\ \E to \in {"paid", "returned"} : provider' = [provider EXCEPT ![key] = to]
  /\ UNCHANGED <<queueVars, payouts, rows, requests, connected, calls, polled, history>>

----------------------------------------------------------------------------

Moves == {"processing", "paid", "failed", "cancelled"}

Asking(h, p) ==
  \/ AskBatch(h, p) \/ AskSend(h, p)
  \/ \E to \in Moves : AskMove(h, p, to)

Writing(h) ==
  \/ CreateBatch(h) \/ QueueProviderPayout(h)
  \/ MarkPayoutProcessing(h) \/ MarkPayoutPaid(h) \/ MarkPayoutFailed(h) \/ CancelPayout(h)

Workspace(h) ==
  \/ \E p \in Payouts : Asking(h, p)
  \/ \E method \in Methods : FindProvider(h, method)
  \/ Writing(h)

RetryJob(p) ==
  /\ Queue!RetryJob(p)
  /\ Counted
  /\ UNCHANGED <<payouts, rows, requests, connected, calls, polled, provider, doubtful, reopened,
                 stale>>

Poll == PollRead \/ \E silent \in SUBSET Payouts : PollWrite(silent)

Next ==
  \/ \E k \in Rows : Settle(k)
  \/ \E h \in People : Workspace(h)
  \/ \E p \in Payouts : RetryJob(p)
  \/ \E method \in Methods : ConnectPayoutProvider(method) \/ DisconnectPayoutProvider(method)
  \/ \E w \in Workers : Execute(w) \/ Loop(w) \/ Fault(w)
  \/ Poll
  \/ \E key \in Keys : ProviderSettles(key)

Spec == Init /\ [][Next]_vars

----------------------------------------------------------------------------
(* Properties.                                                             *)

PayoutStatus == {"absent", "draft", "processing", "paid", "failed", "cancelled"}

\* Every row has the shape of its table, and a worker has a call open only inside an attempt.
TypeOK ==
  /\ Queue!TypeOK
  /\ payouts \in [Payouts -> [status : PayoutStatus, via : Methods \cup {"none"}, ref : BOOLEAN,
                              rows : SUBSET Rows]]
  /\ rows \in [Rows -> [status : {"approved", "payable", "paid"}, payout : Payouts \cup {Null}]]
  /\ requests \in [People -> [call : {"none", "draw", "send"} \cup Moves,
                              payout : Payouts \cup {Null}, seen : PayoutStatus,
                              via : Methods \cup {"none"}, rows : SUBSET Rows]]
  /\ connected \subseteq Methods
  /\ calls \in [Workers -> {"none", "gone"} \cup Methods \cup Heards]
  /\ \A w \in Workers : calls[w] # "none" => workers[w].stage = "running"
  /\ polled \in (SUBSET Payouts) \cup {Null}
  /\ provider \in [Keys -> {"none", "accepted", "paid", "returned"}]
  /\ doubtful \subseteq Payouts /\ reopened \subseteq Payouts /\ stale \subseteq Payouts
  /\ asks \in Nat

Taken(key) == provider[key] \in {"accepted", "paid"}

\* "Stable per payout so retries never pay twice": the key keeps a batch from being paid twice by
\* one provider, and it is never taken by the other as well, whatever is retried and whatever method
\* the affiliate chooses meanwhile, unless a request overlapped another and wrote over it.
OnePaymentPerBatch ==
  \A key, other \in Keys :
    Taken(key) /\ Taken(other) /\ key[1] = other[1] => key = other \/ key[1] \in stale

\* The money of p has left or is on its way.
Moved(p) == Took(p) \/ payouts[p].status = "paid"

\* A commission is in a batch that was written from a copy that no longer held.
Overwritten(k) == \E p \in stale : k \in payouts[p].rows

\* A commission is paid by two batches only if one was recorded as failed while the provider had it
\* or was being asked, because its answer was lost or came too late or someone marked it failed by
\* hand, or if a request wrote over what another had done to a batch of the commission.
PaidTwiceOnlyInDoubt ==
  \A p, q \in Payouts : \A k \in payouts[p].rows \cap payouts[q].rows :
    p # q /\ Moved(p) /\ Moved(q) => p \in doubtful \/ q \in doubtful \/ Overwritten(k)

\* A batch that waits to be sent always has a job that will send it or that a crash left stuck: no
\* path lets the job end while the batch is still to be sent, except a merchant who puts a failed
\* batch back to processing, which queues nothing, and a request that writes over a batch that has
\* been sent, or is being sent, already.
QueuedHasJob ==
  \A p \in Payouts :
    InFlight(p) /\ ~payouts[p].ref /\ p \notin reopened \cup stale /\ slips[p] = 0 =>
      jobs[p].status \in {"queued", "running"}

============================================================================
