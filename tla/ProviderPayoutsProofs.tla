------------------------ MODULE ProviderPayoutsProofs ------------------------
(***************************************************************************)
(* Theorems about ProviderPayouts: whatever the batches, commissions,      *)
(* processes, requests, retries, errors and crashes, a batch is paid by    *)
(* one provider once, a commission is paid by two batches only in doubt,   *)
(* and no batch waits without a job, except where a request wrote over     *)
(* another.                                                                *)
(***************************************************************************)
EXTENDS ProviderPayouts, TLAPS

QueueNext == [Queue!Next]_queueVars

\* A request that is open is about a batch.
Named ==
  /\ requests = [h \in People |-> requests[h]]
  /\ \A h \in People : requests[h].call # "none" => requests[h].payout \in Payouts

\* What a step does to the requests.
LEMMA RequestCases ==
  ASSUME [Next]_vars
  PROVE  \/ \E h \in People, p \in Payouts : Asking(h, p)
         \/ \E h \in People, method \in Methods : FindProvider(h, method)
         \/ \E h \in People : Writing(h)
         \/ requests' = requests
<1>1. ASSUME NEW w \in Workers, Execute(w) \/ Loop(w) \/ Fault(w) PROVE requests' = requests
  BY <1>1 DEF Execute, ExecuteNothing, ExecuteRead, ExecuteDisconnected, Send, ApplyResult,
     ApplyRefused, Loop, Fault
<1>2. ASSUME Poll PROVE requests' = requests
  BY <1>2 DEF Poll, PollRead, PollWrite
<1>3. ASSUME \/ \E k \in Rows : Settle(k)
             \/ \E method \in Methods : ConnectPayoutProvider(method) \/ DisconnectPayoutProvider(method)
             \/ \E key \in Keys : ProviderSettles(key)
             \/ \E p \in Payouts : RetryJob(p)
             \/ UNCHANGED vars
      PROVE  requests' = requests
  BY <1>3 DEF Settle, ConnectPayoutProvider, DisconnectPayoutProvider, ProviderSettles, RetryJob, vars
<1> QED
  BY <1>1, <1>2, <1>3 DEF Next, Workspace

\* A request that writes is over, and only a request about a batch writes.
LEMMA WritingAnswers ==
  ASSUME NEW h \in People, Writing(h)
  PROVE  requests' = [requests EXCEPT ![h] = NoRequest] /\ requests[h].call # "none"
  BY DEF Writing, CreateBatch, QueueProviderPayout, MarkPayoutProcessing, MarkPayoutPaid,
     MarkPayoutFailed, CancelPayout, SetStatus, Answered

\* What is asked is about a batch, and about no other than p.
LEMMA AskingAsks ==
  ASSUME NEW h \in People, NEW p \in Payouts, Asking(h, p)
  PROVE  \E call \in {"draw", "send"} \cup Moves : \E seen, found :
           requests' = [requests EXCEPT ![h] = Request(call, p, seen, found)]
<1>1. CASE AskBatch(h, p)
  BY <1>1 DEF AskBatch, Asks
<1>2. CASE AskSend(h, p)
  BY <1>2 DEF AskSend, Asks
<1>3. ASSUME NEW to \in Moves, AskMove(h, p, to)
      PROVE  requests' = [requests EXCEPT ![h] = Request(to, p, payouts[p].status, {})]
  BY <1>3 DEF AskMove, Asks
<1> QED
  BY <1>1, <1>2, <1>3 DEF Asking

NamedHolds == Spec => []Named

LEMMA NamedCorrect == NamedHolds
<1>1. Init => Named
  BY DEF Init, Named, NoRequest, Request
<1>2. ASSUME Named, [Next]_vars PROVE Named'
  <2>1. ASSUME NEW h \in People, NEW p \in Payouts, Asking(h, p) PROVE Named'
    BY <1>2, <2>1, AskingAsks DEF Named, Request
  <2>2. ASSUME NEW h \in People, NEW method \in Methods, FindProvider(h, method) PROVE Named'
    <3>1. requests' = [requests EXCEPT ![h].via = method]
      BY <2>2 DEF FindProvider
    <3>2. \A g \in People : requests'[g].call = requests[g].call /\ requests'[g].payout = requests[g].payout
      BY <1>2, <2>2, <3>1 DEF Named, FindProvider
    <3> QED
      BY <1>2, <3>1, <3>2 DEF Named
  <2>3. ASSUME NEW h \in People, Writing(h) PROVE Named'
    BY <1>2, <2>3, WritingAnswers DEF Named, NoRequest, Request
  <2> QED
    BY <1>2, <2>1, <2>2, <2>3, RequestCases DEF Named
<1> QED
  BY <1>1, <1>2, PTL DEF Spec, NamedHolds

\* What a merchant's request does to the queue.
LEMMA WorkspaceQueue ==
  ASSUME NEW h \in People, Workspace(h)
  PROVE  \/ UNCHANGED queueVars
         \/ QueueProviderPayout(h) /\ Queue!Enqueue({requests[h].payout})
<1>1. ASSUME NEW p \in Payouts, Asking(h, p) PROVE UNCHANGED queueVars
  BY <1>1 DEF Asking, AskBatch, AskSend, AskMove, Asks
<1>2. ASSUME NEW method \in Methods, FindProvider(h, method) PROVE UNCHANGED queueVars
  BY <1>2 DEF FindProvider
<1>3. ASSUME \/ CreateBatch(h) \/ MarkPayoutProcessing(h) \/ MarkPayoutPaid(h)
             \/ MarkPayoutFailed(h) \/ CancelPayout(h)
      PROVE  UNCHANGED queueVars
  BY <1>3 DEF CreateBatch, MarkPayoutProcessing, MarkPayoutPaid, MarkPayoutFailed, CancelPayout, SetStatus
<1>4. CASE QueueProviderPayout(h)
  BY <1>4 DEF QueueProviderPayout
<1> QED
  BY <1>1, <1>2, <1>3, <1>4 DEF Workspace, Writing

LEMMA QueueStep ==
  ASSUME Named, [Next]_vars
  PROVE  QueueNext
<1> USE DEF QueueNext, Queue!Next, Queue!WorkerStep
<1>1. ASSUME NEW h \in People, Workspace(h) PROVE QueueNext
  <2>1. QueueProviderPayout(h) => requests[h].payout \in Payouts
    BY DEF QueueProviderPayout, Named
  <2> QED
    BY <1>1, <2>1, WorkspaceQueue
<1>2. ASSUME NEW w \in Workers, Execute(w) PROVE QueueNext
  BY <1>2 DEF Execute, ExecuteNothing, ExecuteRead, ExecuteDisconnected, Send, ApplyResult, ApplyRefused
<1>3. ASSUME NEW w \in Workers, Loop(w) \/ Fault(w) PROVE QueueNext
  BY <1>3 DEF Loop, Fault
<1>4. CASE Poll
  BY <1>4 DEF Poll, PollRead, PollWrite
<1>5. ASSUME \/ \E k \in Rows : Settle(k)
             \/ \E method \in Methods : ConnectPayoutProvider(method) \/ DisconnectPayoutProvider(method)
             \/ \E key \in Keys : ProviderSettles(key)
      PROVE  QueueNext
  BY <1>5 DEF Settle, ConnectPayoutProvider, DisconnectPayoutProvider, ProviderSettles
<1>6. ASSUME NEW p \in Payouts, RetryJob(p) PROVE QueueNext
  BY <1>6 DEF RetryJob
<1>7. CASE UNCHANGED vars
  BY <1>7 DEF vars
<1> QED
  BY <1>1, <1>2, <1>3, <1>4, <1>5, <1>6, <1>7 DEF Next

\* Payout jobs are jobs like any other: the specification of the queue is implemented.
THEOREM QueueImplemented == Spec => Queue!Safety
<1>1. Init => Queue!Init
  BY DEF Init
<1>2. Named /\ [Next]_vars => [Queue!Next]_queueVars
  BY QueueStep DEF QueueNext
<1> QED
  BY <1>1, <1>2, NamedCorrect, PTL DEF NamedHolds, Spec, Queue!Safety, Queue!vars, queueVars

----------------------------------------------------------------------------
(* The queue's part of the invariants.                                     *)

\* A step of the queue, with the worker named.
LEMMA QueueCases ==
  ASSUME QueueNext
  PROVE  \/ \E new \in SUBSET Payouts : Queue!Enqueue(new)
         \/ \E w \in Workers :
              \/ Queue!Pick(w) \/ Queue!Claim(w) \/ Queue!LoseRace(w)
              \/ Queue!Commit(w) \/ Queue!Throw(w) \/ Queue!Slip(w)
              \/ Queue!CompleteJob(w) \/ Queue!FailJob(w) \/ Queue!Crash(w)
         \/ \E p \in Payouts : Queue!RetryJob(p)
         \/ UNCHANGED queueVars
  BY DEF QueueNext, Queue!Next, Queue!WorkerStep, Queue!Fault

WorkerRows == [stage : Queue!Stages, job : Payouts \cup {Null}, attempt : Nat]

\* A worker that goes on keeps its job.
LEMMA GoOn ==
  ASSUME Queue!TypeOK, NEW w \in Workers, NEW to \in {"ran", "failing"}, ~Queue!At(w, "idle"),
         Queue!GoTo(w, to)
  PROVE  /\ workers' \in [Workers -> WorkerRows]
         /\ workers'[w].stage = to /\ workers'[w].job = workers[w].job
         /\ workers[w].job \in Payouts
         /\ workers'[w].attempt = workers[w].attempt
         /\ \A v \in Workers : v # w => workers'[v] = workers[v]
         /\ \A v \in Workers : Queue!At(v, "idle")' <=> workers'[v].job = Null
  BY DEF Queue!TypeOK, Queue!GoTo, Queue!At, Queue!Stages, WorkerRows

\* A worker that rests has no job any more.
LEMMA RestKeeps ==
  ASSUME Queue!TypeOK, NEW w \in Workers, Queue!Rest(w)
  PROVE  /\ workers' \in [Workers -> WorkerRows]
         /\ workers'[w] = Queue!Idle
         /\ workers'[w].stage = "idle" /\ workers'[w].job = Null
         /\ \A v \in Workers : v # w => workers'[v] = workers[v]
         /\ \A v \in Workers : Queue!At(v, "idle")' <=> workers'[v].job = Null
  BY DEF Queue!TypeOK, Queue!Rest, Queue!Idle, Queue!Stages, Queue!At, WorkerRows

LEMMA QueueTypeStep ==
  ASSUME Queue!TypeOK, QueueNext
  PROVE  Queue!TypeOK'
<1> USE ProviderConstants
    DEF ProviderConstants, Queue!TypeOK, Queue!JobStatus, Queue!Stages, Queue!At, WorkerRows
<1>1. ASSUME NEW new \in SUBSET Payouts, Queue!Enqueue(new) PROVE Queue!TypeOK'
  BY <1>1 DEF Queue!Enqueue
<1>2. ASSUME NEW w \in Workers, Queue!Pick(w) \/ Queue!Claim(w) PROVE Queue!TypeOK'
  <2>1. CASE Queue!Pick(w)
    BY <2>1 DEF Queue!Pick
  <2>2. CASE Queue!Claim(w)
    BY <2>2 DEF Queue!Claim
  <2> QED
    BY <1>2, <2>1, <2>2
<1>3. ASSUME NEW w \in Workers,
             Queue!LoseRace(w) \/ Queue!Crash(w) \/ Queue!CompleteJob(w) \/ Queue!FailJob(w)
      PROVE  Queue!TypeOK'
  <2>1. Queue!Rest(w) /\ UNCHANGED <<commits, retries, slips>> /\ crashes' \in Nat
    BY <1>3 DEF Queue!LoseRace, Queue!Crash, Queue!CompleteJob, Queue!FailJob
  <2>2. jobs' \in [Payouts -> [status : Queue!JobStatus, attempts : Nat]]
    BY <1>3 DEF Queue!LoseRace, Queue!Crash, Queue!CompleteJob, Queue!FailJob, Queue!SetStatus,
                Queue!AfterFailure
  <2> QED
    BY <2>1, <2>2, RestKeeps
<1>4. ASSUME NEW w \in Workers, Queue!Commit(w) \/ Queue!Throw(w) \/ Queue!Slip(w)
      PROVE  Queue!TypeOK'
  <2>1. /\ ~Queue!At(w, "idle") /\ UNCHANGED <<jobs, retries, crashes>>
        /\ \E to \in {"ran", "failing"} : Queue!GoTo(w, to)
        /\ commits' \in [Payouts -> Nat] /\ slips' \in [Payouts -> Nat]
    BY <1>4 DEF Queue!Commit, Queue!Throw, Queue!Slip
  <2> QED
    BY <2>1, GoOn
<1>5. ASSUME NEW p \in Payouts, Queue!RetryJob(p) PROVE Queue!TypeOK'
  BY <1>5 DEF Queue!RetryJob
<1>6. CASE UNCHANGED queueVars
  BY <1>6 DEF queueVars
<1> QED
  BY <1>1, <1>2, <1>3, <1>4, <1>5, <1>6, QueueCases

----------------------------------------------------------------------------
(* The batches, the commissions and the provider.                          *)

PayoutRows == [status : PayoutStatus, via : Methods \cup {"none"}, ref : BOOLEAN, rows : SUBSET Rows]
CommissionRows == [status : {"approved", "payable", "paid"}, payout : Payouts \cup {Null}]
RequestRows ==
  [call : {"none", "draw", "send"} \cup Moves, payout : Payouts \cup {Null}, seen : PayoutStatus,
   via : Methods \cup {"none"}, rows : SUBSET Rows]
Made == {"none", "accepted", "paid", "returned"}
Calls == {"none", "gone"} \cup Methods \cup Heards

TablesInv ==
  /\ payouts \in [Payouts -> PayoutRows]
  /\ rows \in [Rows -> CommissionRows]
  /\ requests \in [People -> RequestRows]
  /\ provider \in [Keys -> Made]
  /\ calls \in [Workers -> Calls]

\* A worker has a call open only inside an attempt, about a batch that exists.
CallsInv ==
  \A w \in Workers : calls[w] # "none" =>
    /\ workers[w].stage = "running" /\ workers[w].job \in Payouts
    /\ payouts[workers[w].job].status # "absent"

\* What a request has read: a draw has a batch to itself that is not there yet, the others one that
\* is, in a status that allows what they are about to do.
RequestsInv ==
  \A h \in People :
    /\ requests[h].call # "none" => requests[h].payout \in Payouts
    /\ requests[h].call = "draw" =>
         /\ payouts[requests[h].payout].status = "absent"
         /\ \A g \in People : requests[g].payout = requests[h].payout => g = h
    /\ requests[h].call \in {"send"} \cup Moves => payouts[requests[h].payout].status # "absent"
    /\ requests[h].call \in Moves => requests[h].call \in PayoutMoves[requests[h].seen]
    /\ requests[h].call = "send" => requests[h].seen = "draft"

EmptyInv == \A p \in Payouts : payouts[p].status = "absent" => payouts[p].rows = {}

Base == Queue!TypeOK /\ TablesInv /\ CallsInv /\ RequestsInv /\ EmptyInv

\* An answer leaves a batch a row of the table.
LEMMA AppliedType ==
  ASSUME NEW row \in PayoutRows, NEW answer \in Heards
  PROVE  /\ Applied(row, answer) \in PayoutRows
         /\ Applied(row, answer).rows = row.rows
         /\ Applied(row, answer).via = row.via
         /\ Applied(row, answer).ref <=> answer # "failed"
         /\ Applied(row, answer).status =
              IF answer = "processing" THEN row.status
              ELSE IF answer = "paid" THEN "paid" ELSE "failed"
<1>1. answer # "processing" => Target(answer) = IF answer = "paid" THEN "paid" ELSE "failed"
  BY DEF Target, Heards
<1>2. answer # "processing" => Target(answer) \in PayoutStatus
  BY <1>1 DEF PayoutStatus
<1> QED
  BY <1>1, <1>2 DEF Applied, PayoutRows

LEMMA ReactionTyped ==
  ASSUME NEW method, NEW known \in Made, NEW r \in Reaction(method, known), NEW answer \in Heard(r)
  PROVE  /\ r.made \in Made /\ answer \in Heards
         /\ known # "none" => r.made = known
  BY DEF Reaction, Heard, Made, Heards

\* A poll's answers are answers.
LEMMA AnswersTyped ==
  ASSUME NEW silent, NEW p \in polled
  PROVE  Answers(silent)[p] \in {"paid", "processing", "denied"}
  BY DEF Answers, PollAnswer

----------------------------------------------------------------------------
(* How a step moves a batch.                                               *)

Near(p) == Took(p) \/ Asked(p)

Created(p) == \E h \in People : requests[h].payout = p /\ CreateBatch(h)
Queued(p) == \E h \in People : requests[h].payout = p /\ QueueProviderPayout(h)

Kept(p) == payouts'[p].via = payouts[p].via /\ payouts'[p].rows = payouts[p].rows

\* The status is set, from one that allows it or from a copy that no longer held.
Shifted(p) == \E to \in Moves :
  /\ payouts'[p] = [payouts[p] EXCEPT !.status = to]
  /\ p \in stale' \/ to \in PayoutMoves[payouts[p].status]
  /\ payouts[p].status # "absent"
  /\ to = "processing" => p \in reopened'
  /\ to = "failed" /\ Near(p) => p \in doubtful'

\* An answer is written.
Settled(p) == \E answer \in Heards :
  /\ Allowed(p, answer)
  /\ payouts'[p] = Applied(payouts[p], answer)
  /\ answer \in {"failed", "denied"} /\ Near(p) => p \in doubtful'

Histories ==
  /\ doubtful \subseteq doubtful' /\ reopened \subseteq reopened' /\ stale \subseteq stale'
  /\ payouts' = [p \in Payouts |-> payouts'[p]]

BatchStepped(p) == payouts'[p] = payouts[p] \/ Created(p) \/ Queued(p) \/ Shifted(p) \/ Settled(p)

LEMMA SetStatusMoves ==
  ASSUME Base, NEW h \in People, NEW to \in Moves, SetStatus(h, to),
         to = "processing" => requests[h].payout \in reopened',
         to = "failed" => doubtful' = doubtful \cup InDoubt(requests[h].payout)
  PROVE  \A p \in Payouts : payouts'[p] = payouts[p] \/ Shifted(p)
<1> DEFINE q == requests[h].payout
<1>1. /\ requests[h].call = to /\ payouts' = [payouts EXCEPT ![q].status = to]
      /\ stale' = stale \cup Overtaken(h)
  BY DEF SetStatus
<1>2. /\ q \in Payouts /\ payouts[q].status # "absent" /\ to \in PayoutMoves[requests[h].seen]
  BY <1>1 DEF Base, RequestsInv, Moves
<1>3. payouts[q].status = requests[h].seen \/ q \in stale'
  BY <1>1 DEF Overtaken
<1>4. /\ payouts'[q] = [payouts[q] EXCEPT !.status = to]
      /\ \A p \in Payouts : p # q => payouts'[p] = payouts[p]
  BY <1>1, <1>2 DEF Base, TablesInv, PayoutRows
<1>5. to = "failed" /\ Near(q) => q \in doubtful'
  BY DEF InDoubt, Near
<1> QED
  BY <1>2, <1>3, <1>4, <1>5 DEF Shifted

LEMMA BatchStep ==
  ASSUME Base, [Next]_vars
  PROVE  Histories /\ \A p \in Payouts : BatchStepped(p)
<1> DEFINE Goal == Histories /\ \A p \in Payouts : BatchStepped(p)
<1>1. ASSUME payouts' = payouts, Histories PROVE Goal
  BY <1>1 DEF BatchStepped
<1>2. ASSUME NEW h \in People, CreateBatch(h) PROVE Goal
  <2>1. /\ \E row : payouts' = [payouts EXCEPT ![requests[h].payout] = row]
        /\ UNCHANGED <<doubtful, reopened>> /\ stale \subseteq stale'
    BY <1>2 DEF CreateBatch
  <2> QED
    BY <1>2, <2>1 DEF BatchStepped, Created, Histories, Base, TablesInv
<1>3. ASSUME NEW h \in People, QueueProviderPayout(h) PROVE Goal
  <2>1. /\ \E row : payouts' = [payouts EXCEPT ![requests[h].payout] = row]
        /\ UNCHANGED <<doubtful, reopened>> /\ stale \subseteq stale'
    BY <1>3 DEF QueueProviderPayout
  <2> QED
    BY <1>3, <2>1 DEF BatchStepped, Queued, Histories, Base, TablesInv
<1>4. ASSUME NEW h \in People, MarkPayoutProcessing(h) PROVE Goal
  <2>1. /\ SetStatus(h, "processing") /\ requests[h].payout \in reopened' /\ Histories
    BY <1>4 DEF MarkPayoutProcessing, SetStatus, Histories, Base, TablesInv
  <2> QED
    BY <2>1, SetStatusMoves DEF BatchStepped, Moves
<1>5. ASSUME NEW h \in People, MarkPayoutPaid(h) PROVE Goal
  <2>1. SetStatus(h, "paid") /\ Histories
    BY <1>5 DEF MarkPayoutPaid, SetStatus, Histories, Base, TablesInv
  <2> QED
    BY <2>1, SetStatusMoves DEF BatchStepped, Moves
<1>6. ASSUME NEW h \in People, MarkPayoutFailed(h) PROVE Goal
  <2>1. /\ SetStatus(h, "failed") /\ doubtful' = doubtful \cup InDoubt(requests[h].payout)
        /\ Histories
    BY <1>6 DEF MarkPayoutFailed, SetStatus, Histories, Base, TablesInv
  <2> QED
    BY <2>1, SetStatusMoves DEF BatchStepped, Moves
<1>7. ASSUME NEW h \in People, CancelPayout(h) PROVE Goal
  <2>1. SetStatus(h, "cancelled") /\ Histories
    BY <1>7 DEF CancelPayout, SetStatus, Histories, Base, TablesInv
  <2> QED
    BY <2>1, SetStatusMoves DEF BatchStepped, Moves
<1>8. ASSUME NEW w \in Workers, ExecuteDisconnected(w) PROVE Goal
  <2> DEFINE q == workers[w].job
  <2>1. /\ payouts' = [payouts EXCEPT ![q].status = "failed"]
        /\ doubtful' = doubtful \cup InDoubt(q)
        /\ payouts[q].status = "processing" \/ q \in stale'
        /\ q \in Payouts /\ payouts[q].status # "absent" /\ Histories
    BY <1>8 DEF ExecuteDisconnected, Base, CallsInv, Histories, TablesInv
  <2>2. /\ payouts'[q] = [payouts[q] EXCEPT !.status = "failed"]
        /\ \A p \in Payouts : p # q => payouts'[p] = payouts[p]
    BY <2>1 DEF Base, TablesInv
  <2>3. Near(q) => q \in doubtful'
    BY <2>1 DEF InDoubt, Near
  <2>4. q \in stale' \/ "failed" \in PayoutMoves[payouts[q].status]
    BY <2>1 DEF PayoutMoves
  <2>5. Shifted(q)
    BY <2>1, <2>2, <2>3, <2>4 DEF Shifted, Moves
  <2> HIDE DEF q
  <2> QED
    BY <2>1, <2>2, <2>5 DEF BatchStepped
<1>9. ASSUME NEW w \in Workers, ApplyResult(w) PROVE Goal
  <2> DEFINE q == workers[w].job
  <2>1. /\ calls[w] \in Heards /\ Allowed(q, calls[w]) /\ Histories
        /\ payouts' = [payouts EXCEPT ![q] = Applied(payouts[q], calls[w])]
        /\ calls[w] \in {"failed", "denied"} => doubtful' = doubtful \cup InDoubt(q)
    BY <1>9 DEF ApplyResult, Histories, Base, TablesInv
  <2>2. calls[w] \in {"failed", "denied"} /\ Near(q) => q \in doubtful'
    BY <2>1 DEF InDoubt, Near
  <2>3. q \in Payouts => Settled(q)
    BY <2>1, <2>2 DEF Settled, Base, TablesInv
  <2> HIDE DEF q
  <2> QED
    BY <2>1, <2>3 DEF BatchStepped, Base, TablesInv
<1>10. ASSUME NEW silent \in SUBSET Payouts, PollWrite(silent) PROVE Goal
  <2> DEFINE answers == Answers(silent)
             settled == {p \in polled : answers[p] # "processing"}
             denied == {q \in settled : answers[q] = "denied"}
  <2>1. UNCHANGED <<reopened, stale>>
    BY <1>10 DEF PollWrite
  <2>2. CASE UNCHANGED <<payouts, rows, doubtful>>
    BY <2>1, <2>2, <1>1 DEF Histories, Base, TablesInv
  <2>3. CASE /\ \A p \in settled : Allowed(p, answers[p])
             /\ payouts' = [p \in Payouts |->
                  IF p \in settled THEN Applied(payouts[p], answers[p]) ELSE payouts[p]]
             /\ doubtful' = doubtful \cup UNION {InDoubt(p) : p \in denied}
    <3>1. ASSUME NEW p \in Payouts, p \in settled PROVE Settled(p)
      <4>1. answers[p] \in {"paid", "denied"}
        BY <3>1, AnswersTyped
      <4>2. payouts'[p] = Applied(payouts[p], answers[p]) /\ Allowed(p, answers[p])
        BY <2>3, <3>1
      <4>3. answers[p] = "denied" => p \in denied
        BY <3>1
      <4> HIDE DEF answers, settled, denied
      <4>4. answers[p] = "denied" /\ Near(p) => p \in doubtful'
        BY <2>3, <4>3 DEF InDoubt, Near
      <4> QED
        BY <4>1, <4>2, <4>4 DEF Settled, Heards
    <3>2. ASSUME NEW p \in Payouts, p \notin settled PROVE payouts'[p] = payouts[p]
      BY <2>3, <3>2
    <3>3. Histories
      BY <2>1, <2>3 DEF Histories
    <3> HIDE DEF settled
    <3> QED
      BY <3>1, <3>2, <3>3 DEF BatchStepped
  <2> QED
    BY <1>10, <2>2, <2>3 DEF PollWrite
<1>11. ASSUME NEW w \in Workers,
             ExecuteNothing(w) \/ ExecuteRead(w) \/ Send(w) \/ ApplyRefused(w) \/ Loop(w) \/ Fault(w)
      PROVE  payouts' = payouts /\ Histories
  BY <1>11 DEF ExecuteNothing, ExecuteRead, Send, ApplyRefused, Loop, Fault, history, Histories, Base, TablesInv
<1>12. ASSUME \/ \E k \in Rows : Settle(k)
              \/ \E method \in Methods : ConnectPayoutProvider(method) \/ DisconnectPayoutProvider(method)
              \/ PollRead
              \/ \E key \in Keys : ProviderSettles(key)
              \/ \E p \in Payouts : RetryJob(p)
              \/ \E h \in People, method \in Methods : FindProvider(h, method)
              \/ UNCHANGED vars
       PROVE  payouts' = payouts /\ Histories
  BY <1>12 DEF Settle, ConnectPayoutProvider, DisconnectPayoutProvider, PollRead, ProviderSettles,
               RetryJob, FindProvider, vars, history, Histories, Base, TablesInv
<1>13. ASSUME NEW h \in People, NEW p \in Payouts, Asking(h, p) PROVE payouts' = payouts /\ Histories
  BY <1>13 DEF Asking, AskBatch, AskSend, AskMove, Asks, Histories, Base, TablesInv
<1> HIDE DEF Goal
<1>14. Goal
  BY <1>1, <1>2, <1>3, <1>4, <1>5, <1>6, <1>7, <1>8, <1>9, <1>10, <1>11, <1>12, <1>13
     DEF Next, Workspace, Writing, Execute, Poll
<1> QED
  BY <1>14 DEF Goal

\* The same, field by field.
LEMMA BatchFields ==
  ASSUME Base, [Next]_vars, NEW p \in Payouts
  PROVE  /\ Created(p) =>
              /\ payouts[p].status = "absent" /\ payouts'[p].status = "draft"
              /\ payouts'[p].via = payouts[p].via /\ payouts'[p].ref = payouts[p].ref
         /\ Queued(p) =>
              /\ payouts[p].status # "absent" /\ payouts'[p].status = "processing"
              /\ payouts'[p].via \in Methods /\ payouts'[p].ref = payouts[p].ref
              /\ payouts'[p].rows = payouts[p].rows
              /\ payouts[p].status = "draft" \/ p \in stale'
         /\ Shifted(p) =>
              /\ Kept(p) /\ payouts'[p].ref = payouts[p].ref
              /\ payouts[p].status # "absent" /\ payouts'[p].status \in Moves
              /\ p \in stale' \/ payouts'[p].status \in PayoutMoves[payouts[p].status]
              /\ payouts'[p].status = "processing" => p \in reopened'
              /\ payouts'[p].status = "failed" /\ Near(p) => p \in doubtful'
         /\ Settled(p) =>
              /\ Kept(p)
              /\ payouts'[p].status = payouts[p].status
                   \/ /\ payouts'[p].status \in {"paid", "failed"}
                      /\ payouts'[p].status \in PayoutMoves[payouts[p].status]
              /\ payouts'[p].status = "processing" => payouts'[p].ref
              /\ payouts'[p].status = "failed" /\ Near(p) =>
                   payouts[p].status = "failed" \/ p \in doubtful'
         /\ payouts'[p] \in PayoutRows
<1>1. ASSUME Created(p)
      PROVE  /\ payouts[p].status = "absent" /\ payouts'[p].status = "draft"
             /\ payouts'[p].via = payouts[p].via /\ payouts'[p].ref = payouts[p].ref
             /\ payouts'[p] \in PayoutRows
  <2>1. PICK h \in People : requests[h].payout = p /\ CreateBatch(h)
    BY <1>1 DEF Created
  <2>2. /\ payouts' = [payouts EXCEPT ![p] = [@ EXCEPT !.status = "draft", !.rows = requests[h].rows]]
        /\ requests[h].call = "draw"
    BY <2>1 DEF CreateBatch
  <2>3. requests[h].rows \in SUBSET Rows /\ payouts[p].status = "absent"
    BY <2>1, <2>2 DEF Base, TablesInv, RequestRows, RequestsInv
  <2> QED
    BY <2>2, <2>3 DEF Base, TablesInv, PayoutRows, PayoutStatus
<1>2. ASSUME Queued(p)
      PROVE  /\ payouts[p].status # "absent" /\ payouts'[p].status = "processing"
             /\ payouts'[p].via \in Methods /\ payouts'[p].ref = payouts[p].ref
             /\ payouts'[p].rows = payouts[p].rows
             /\ payouts[p].status = "draft" \/ p \in stale'
             /\ payouts'[p] \in PayoutRows
  <2>1. PICK h \in People : requests[h].payout = p /\ QueueProviderPayout(h)
    BY <1>2 DEF Queued
  <2>2. /\ payouts' = [payouts EXCEPT ![p] = [@ EXCEPT !.status = "processing", !.via = requests[h].via]]
        /\ requests[h].call = "send" /\ requests[h].via # "none"
        /\ stale' = stale \cup Overtaken(h)
    BY <2>1 DEF QueueProviderPayout
  <2>3. requests[h].via \in Methods /\ payouts[p].status # "absent" /\ requests[h].seen = "draft"
    BY <2>1, <2>2 DEF Base, TablesInv, RequestRows, RequestsInv
  <2>4. payouts[p].status = "draft" \/ p \in stale'
    BY <2>1, <2>2, <2>3 DEF Overtaken
  <2> QED
    BY <2>2, <2>3, <2>4 DEF Base, TablesInv, PayoutRows, PayoutStatus
<1>3. ASSUME Settled(p)
      PROVE  /\ Kept(p)
             /\ payouts'[p].status = payouts[p].status
                  \/ /\ payouts'[p].status \in {"paid", "failed"}
                     /\ payouts'[p].status \in PayoutMoves[payouts[p].status]
             /\ payouts'[p].status = "processing" => payouts'[p].ref
             /\ payouts'[p].status = "failed" /\ Near(p) =>
                  payouts[p].status = "failed" \/ p \in doubtful'
             /\ payouts'[p] \in PayoutRows
  <2>1. PICK answer \in Heards :
          /\ Allowed(p, answer) /\ payouts'[p] = Applied(payouts[p], answer)
          /\ answer \in {"failed", "denied"} /\ Near(p) => p \in doubtful'
    BY <1>3 DEF Settled
  <2>2. /\ payouts'[p] \in PayoutRows /\ Kept(p)
        /\ payouts'[p].ref <=> answer # "failed"
        /\ payouts'[p].status = IF answer = "processing" THEN payouts[p].status
                                ELSE IF answer = "paid" THEN "paid" ELSE "failed"
    BY <2>1, AppliedType DEF Base, TablesInv, Kept
  <2>3. answer # "processing" => payouts'[p].status \in PayoutMoves[payouts[p].status]
    BY <2>1, <2>2 DEF Allowed, Target, Heards
  <2> QED
    BY <2>1, <2>2, <2>3 DEF Heards
<1>4. payouts'[p] = payouts[p] => payouts'[p] \in PayoutRows
  BY DEF Base, TablesInv
<1>5. Shifted(p) =>
        /\ Kept(p) /\ payouts'[p].ref = payouts[p].ref
        /\ payouts[p].status # "absent" /\ payouts'[p].status \in Moves
        /\ p \in stale' \/ payouts'[p].status \in PayoutMoves[payouts[p].status]
        /\ payouts'[p].status = "processing" => p \in reopened'
        /\ payouts'[p].status = "failed" /\ Near(p) => p \in doubtful'
        /\ payouts'[p] \in PayoutRows
  BY DEF Shifted, Kept, Moves, PayoutStatus, Base, TablesInv, PayoutRows
<1> QED
  BY <1>1, <1>2, <1>3, <1>4, <1>5, BatchStep DEF BatchStepped

----------------------------------------------------------------------------
(* The tables, the calls and the requests keep their shape.                *)

\* A batch that is there does not go.
LEMMA NotAbsentStays ==
  ASSUME Base, [Next]_vars, NEW p \in Payouts, payouts[p].status # "absent"
  PROVE  payouts'[p].status # "absent"
<1>1. "absent" \notin Moves
  BY DEF Moves
<1> QED
  BY <1>1, BatchStep, BatchFields DEF BatchStepped

LEMMA EmptyStep ==
  ASSUME Base, [Next]_vars
  PROVE  EmptyInv'
<1> SUFFICES ASSUME NEW p \in Payouts, payouts'[p].status = "absent" PROVE payouts'[p].rows = {}
  BY DEF EmptyInv
<1>1. payouts[p].status = "absent"
  BY NotAbsentStays
<1>2. payouts'[p].rows = payouts[p].rows
  BY <1>1, BatchStep, BatchFields DEF BatchStepped, Kept
<1> QED
  BY <1>1, <1>2 DEF Base, EmptyInv

\* What a step does to the rows: every commission keeps its batch unless a draw takes it or a
\* cancellation of its batch lets it go.
LEMMA RowsStep ==
  ASSUME Base, [Next]_vars
  PROVE  /\ rows' \in [Rows -> CommissionRows]
         /\ \A k \in Rows :
              \/ rows'[k].payout = rows[k].payout
              \/ \E h \in People : CreateBatch(h) /\ k \in requests[h].rows
              \/ \E p \in Payouts : rows[k].payout = p /\ payouts'[p].status = "cancelled"
<1> DEFINE Same == rows' \in [Rows -> CommissionRows] /\ \A k \in Rows : rows'[k].payout = rows[k].payout
           Goal == /\ rows' \in [Rows -> CommissionRows]
                   /\ \A k \in Rows :
                        \/ rows'[k].payout = rows[k].payout
                        \/ \E h \in People : CreateBatch(h) /\ k \in requests[h].rows
                        \/ \E p \in Payouts : rows[k].payout = p /\ payouts'[p].status = "cancelled"
<1>1. rows' = rows => Same
  BY DEF Base, TablesInv
<1>2. ASSUME NEW paid, rows' = RowsPaid(paid) PROVE Same
  BY <1>2 DEF RowsPaid, Base, TablesInv, CommissionRows
<1>3. ASSUME NEW k \in Rows, Settle(k) PROVE Same
  BY <1>3 DEF Settle, Base, TablesInv, CommissionRows
<1>4. ASSUME NEW h \in People, CreateBatch(h) PROVE Goal
  <2>1. /\ rows' = [k \in Rows |-> IF k \in requests[h].rows
                                  THEN [rows[k] EXCEPT !.payout = requests[h].payout] ELSE rows[k]]
        /\ requests[h].payout \in Payouts
    BY <1>4 DEF CreateBatch, Base, RequestsInv
  <2>2. rows' \in [Rows -> CommissionRows]
    BY <2>1 DEF Base, TablesInv, CommissionRows
  <2>3. \A k \in Rows : k \notin requests[h].rows => rows'[k].payout = rows[k].payout
    BY <2>1
  <2> QED
    BY <1>4, <2>2, <2>3
<1>5. ASSUME NEW h \in People, CancelPayout(h) PROVE Goal
  <2> DEFINE p == requests[h].payout
  <2>1. /\ rows' = RowsReleased(p) /\ p \in Payouts
        /\ payouts' = [payouts EXCEPT ![p].status = "cancelled"]
    BY <1>5 DEF CancelPayout, SetStatus, Base, RequestsInv
  <2>2. rows' \in [Rows -> CommissionRows] /\ \A k \in Rows : rows[k].payout # p => rows'[k].payout = rows[k].payout
    BY <2>1 DEF RowsReleased, Base, TablesInv, CommissionRows
  <2>3. payouts'[p].status = "cancelled"
    BY <2>1 DEF Base, TablesInv, PayoutRows
  <2> HIDE DEF p
  <2> QED
    BY <2>1, <2>2, <2>3
<1>6. ASSUME NEW h \in People,
             \/ QueueProviderPayout(h) \/ MarkPayoutProcessing(h) \/ MarkPayoutPaid(h)
             \/ MarkPayoutFailed(h)
      PROVE  Same
  <2>1. rows' = rows \/ rows' = RowsPaid({requests[h].payout})
    BY <1>6 DEF QueueProviderPayout, MarkPayoutProcessing, MarkPayoutPaid, MarkPayoutFailed
  <2> QED
    BY <2>1, <1>1, <1>2
<1>7. ASSUME NEW w \in Workers, Execute(w) \/ Loop(w) \/ Fault(w) PROVE Same
  <2>1. rows' = rows \/ rows' = RowsPaid({workers[w].job})
    BY <1>7 DEF Execute, ExecuteNothing, ExecuteRead, ExecuteDisconnected, Send, ApplyResult,
       ApplyRefused, Loop, Fault
  <2> QED
    BY <2>1, <1>1, <1>2
<1>8. ASSUME Poll PROVE Same
  <2>1. rows' = rows \/ \E paid : rows' = RowsPaid(paid)
    BY <1>8 DEF Poll, PollRead, PollWrite
  <2> QED
    BY <2>1, <1>1, <1>2
<1>9. ASSUME \/ \E method \in Methods : ConnectPayoutProvider(method) \/ DisconnectPayoutProvider(method)
             \/ \E key \in Keys : ProviderSettles(key)
             \/ \E p \in Payouts : RetryJob(p)
             \/ \E h \in People, method \in Methods : FindProvider(h, method)
             \/ UNCHANGED vars
      PROVE  rows' = rows
  BY <1>9 DEF ConnectPayoutProvider, DisconnectPayoutProvider, ProviderSettles, RetryJob, FindProvider, vars
<1>10. ASSUME NEW h \in People, NEW p \in Payouts, Asking(h, p) PROVE rows' = rows
  BY <1>10 DEF Asking, AskBatch, AskSend, AskMove, Asks
<1>11. Same => Goal
  OBVIOUS
<1> HIDE DEF Goal, Same
<1>12. Goal
  BY <1>1, <1>3, <1>4, <1>5, <1>6, <1>7, <1>8, <1>9, <1>10, <1>11 DEF Next, Workspace, Writing
<1> QED
  BY <1>12 DEF Goal

\* What a step does to the calls and to what the providers have.
LEMMA CallCases ==
  ASSUME Base, [Next]_vars
  PROVE  \/ \E w \in Workers : ExecuteRead(w) \/ Send(w)
         \/ \E w \in Workers :
              /\ calls' = [calls EXCEPT ![w] = "none"] /\ provider' = provider
              /\ \A v \in Workers : v # w => workers'[v] = workers[v]
         \/ calls' = calls /\ provider' = provider /\ workers' = workers
         \/ \E key \in Keys : ProviderSettles(key)
         \/ \E w \in Workers :
              /\ calls' = calls /\ provider' = provider
              /\ workers[w].stage # "running" \/ calls[w] = "none"
              /\ \A v \in Workers : v # w => workers'[v] = workers[v]
<1> DEFINE Ends(w) == /\ calls' = [calls EXCEPT ![w] = "none"] /\ provider' = provider
                      /\ \A v \in Workers : v # w => workers'[v] = workers[v]
           Goes(w) == /\ calls' = calls /\ provider' = provider
                      /\ workers[w].stage # "running" \/ calls[w] = "none"
                      /\ \A v \in Workers : v # w => workers'[v] = workers[v]
           Rests == calls' = calls /\ provider' = provider /\ workers' = workers
<1>1. ASSUME NEW w \in Workers, NEW to, Queue!GoTo(w, to) PROVE \A v \in Workers : v # w => workers'[v] = workers[v]
  BY <1>1 DEF Queue!GoTo, Base, Queue!TypeOK
<1>2. ASSUME NEW w \in Workers, ExecuteDisconnected(w) \/ ApplyResult(w) \/ ApplyRefused(w) PROVE Ends(w)
  <2>1. /\ calls' = [calls EXCEPT ![w] = "none"] /\ provider' = provider
        /\ \E to : Queue!GoTo(w, to)
    BY <1>2 DEF ExecuteDisconnected, ApplyResult, ApplyRefused, Queue!Commit, Queue!Throw
  <2> QED
    BY <1>1, <2>1
<1>3. ASSUME NEW w \in Workers, ExecuteNothing(w) PROVE Goes(w)
  <2>1. calls' = calls /\ provider' = provider /\ calls[w] = "none" /\ \E to : Queue!GoTo(w, to)
    BY <1>3 DEF ExecuteNothing, Starts, Queue!Commit
  <2> QED
    BY <1>1, <2>1
<1>4. ASSUME NEW w \in Workers, Loop(w) PROVE Goes(w)
  <2>1. calls' = calls /\ provider' = provider /\ workers[w].stage # "running"
    BY <1>4 DEF Loop, Queue!Pick, Queue!Claim, Queue!LoseRace, Queue!CompleteJob, Queue!FailJob, Queue!At
  <2>2. \A v \in Workers : v # w => workers'[v] = workers[v]
    BY <1>4 DEF Loop, Queue!Pick, Queue!Claim, Queue!LoseRace, Queue!CompleteJob, Queue!FailJob,
                Queue!Rest, Base, Queue!TypeOK
  <2> QED
    BY <2>1, <2>2
<1>5. ASSUME NEW w \in Workers, Fault(w) PROVE Ends(w)
  BY <1>5 DEF Fault, Queue!Fault, Queue!Slip, Queue!Crash, Queue!Rest, Queue!GoTo, Base, Queue!TypeOK
<1>6. ASSUME NEW h \in People, Workspace(h) PROVE Rests
  <2>1. workers' = workers
    BY <1>6, WorkspaceQueue DEF queueVars, Queue!Enqueue
  <2>2. CASE Writing(h)
    BY <2>1, <2>2 DEF Writing, CreateBatch, QueueProviderPayout, MarkPayoutProcessing, MarkPayoutPaid,
       MarkPayoutFailed, CancelPayout, SetStatus
  <2>3. ASSUME NEW p \in Payouts, Asking(h, p) PROVE Rests
    BY <2>1, <2>3 DEF Asking, AskBatch, AskSend, AskMove, Asks
  <2>4. ASSUME NEW method \in Methods, FindProvider(h, method) PROVE Rests
    BY <2>1, <2>4 DEF FindProvider
  <2> QED
    BY <1>6, <2>2, <2>3, <2>4 DEF Workspace
<1>7. Poll => Rests
  BY DEF Poll, PollRead, PollWrite, queueVars
<1>8. ASSUME \/ \E k \in Rows : Settle(k)
             \/ \E method \in Methods : ConnectPayoutProvider(method) \/ DisconnectPayoutProvider(method)
             \/ \E p \in Payouts : RetryJob(p)
             \/ UNCHANGED vars
      PROVE  Rests
  BY <1>8 DEF Settle, ConnectPayoutProvider, DisconnectPayoutProvider, RetryJob, Queue!RetryJob, vars, queueVars
<1> HIDE DEF Ends, Goes, Rests
<1>9. ASSUME NEW w \in Workers, Execute(w) \/ Loop(w) \/ Fault(w)
      PROVE  ExecuteRead(w) \/ Send(w) \/ Ends(w) \/ Goes(w)
  BY <1>9, <1>2, <1>3, <1>4, <1>5 DEF Execute
<1>10. \/ \E w \in Workers : ExecuteRead(w) \/ Send(w) \/ Ends(w) \/ Goes(w)
       \/ Rests \/ \E key \in Keys : ProviderSettles(key)
  <2>1. Next \/ UNCHANGED vars
    OBVIOUS
  <2>2. CASE UNCHANGED vars
    BY <1>8, <2>2
  <2>3. CASE Next
    BY <1>6, <1>7, <1>8, <1>9, <2>3 DEF Next
  <2> QED
    BY <2>1, <2>2, <2>3
<1> QED
  BY <1>10 DEF Ends, Goes, Rests

\* A worker asks the provider that its batch is for, or finds it gone.
LEMMA ReadFacts ==
  ASSUME Base, NEW w \in Workers, ExecuteRead(w)
  PROVE  /\ workers[w].stage = "running" /\ workers[w].job \in Payouts /\ calls[w] = "none"
         /\ payouts[workers[w].job].status = "processing"
         /\ \E to \in {"gone", payouts[workers[w].job].via} :
              to \in Methods \cup {"gone"} /\ calls' = [calls EXCEPT ![w] = to]
         /\ workers' = workers /\ provider' = provider /\ payouts' = payouts
  BY DEF ExecuteRead, Starts, NothingToSend, InFlight, queueVars, Base, TablesInv, PayoutRows

\* A worker that is answered had asked, and the provider forgets nothing it had.
LEMMA SendFacts ==
  ASSUME Base, NEW w \in Workers, Send(w)
  PROVE  /\ calls[w] \in Methods /\ workers[w].job \in Payouts
         /\ \E made \in Made : provider' = [provider EXCEPT ![<<workers[w].job, calls[w]>>] = made]
         /\ \E answer \in Heards : calls' = [calls EXCEPT ![w] = answer]
         /\ workers' = workers /\ payouts' = payouts
<1> DEFINE key == <<workers[w].job, calls[w]>>
<1>1. calls[w] \in Methods /\ workers' = workers /\ payouts' = payouts
  BY DEF Send, queueVars
<1>2. workers[w].job \in Payouts
  BY <1>1 DEF Base, CallsInv, Methods
<1>3. key \in Keys /\ provider[key] \in Made
  BY <1>1, <1>2 DEF Keys, Base, TablesInv
<1>4. PICK r \in Reaction(calls[w], provider[key]) : \E answer \in Heard(r) :
        /\ provider' = [provider EXCEPT ![key] = r.made]
        /\ calls' = [calls EXCEPT ![w] = answer]
  BY DEF Send
<1>5. PICK answer \in Heard(r) : /\ provider' = [provider EXCEPT ![key] = r.made]
                                 /\ calls' = [calls EXCEPT ![w] = answer]
  BY <1>4
<1>6. r.made \in Made /\ answer \in Heards
  BY <1>3, ReactionTyped
<1>7. \E made \in Made : provider' = [provider EXCEPT ![key] = made]
  BY <1>5, <1>6
<1>8. \E heard \in Heards : calls' = [calls EXCEPT ![w] = heard]
  BY <1>5, <1>6
<1> HIDE DEF key
<1> QED
  BY <1>1, <1>2, <1>7, <1>8 DEF key

LEMMA TablesStep ==
  ASSUME Base, [Next]_vars
  PROVE  TablesInv'
<1>1. payouts' \in [Payouts -> PayoutRows]
  BY BatchStep, BatchFields DEF Histories
<1>2. rows' \in [Rows -> CommissionRows]
  BY RowsStep
<1>3. requests' \in [People -> RequestRows]
  <2>1. ASSUME NEW h \in People, NEW p \in Payouts, Asking(h, p) PROVE requests' \in [People -> RequestRows]
    <3>1. CASE AskBatch(h, p)
      BY <3>1 DEF AskBatch, Asks, Request, Base, TablesInv, RequestRows, PayoutStatus
    <3>2. payouts[p].status \in PayoutStatus
      BY DEF Base, TablesInv, PayoutRows
    <3>3. CASE AskSend(h, p)
      BY <3>2, <3>3 DEF AskSend, Asks, Request, Base, TablesInv, RequestRows
    <3>4. ASSUME NEW to \in Moves, AskMove(h, p, to) PROVE requests' \in [People -> RequestRows]
      BY <3>2, <3>4 DEF AskMove, Asks, Request, Base, TablesInv, RequestRows
    <3> QED
      BY <2>1, <3>1, <3>3, <3>4 DEF Asking
  <2>2. ASSUME NEW h \in People, NEW method \in Methods, FindProvider(h, method)
        PROVE  requests' \in [People -> RequestRows]
    BY <2>2 DEF FindProvider, Base, TablesInv, RequestRows
  <2>3. NoRequest \in RequestRows
    BY DEF NoRequest, Request, RequestRows, PayoutStatus
  <2>4. ASSUME NEW h \in People, Writing(h) PROVE requests' \in [People -> RequestRows]
    BY <2>3, <2>4, WritingAnswers DEF Base, TablesInv
  <2> QED
    BY <2>1, <2>2, <2>4, RequestCases DEF Base, TablesInv
<1>4. provider' \in [Keys -> Made] /\ calls' \in [Workers -> Calls]
  <2>1. ASSUME NEW w \in Workers, ExecuteRead(w) PROVE provider' \in [Keys -> Made] /\ calls' \in [Workers -> Calls]
    BY <2>1, ReadFacts DEF Base, TablesInv, Calls
  <2>2. ASSUME NEW w \in Workers, Send(w) PROVE provider' \in [Keys -> Made] /\ calls' \in [Workers -> Calls]
    BY <2>2, SendFacts DEF Base, TablesInv, Calls
  <2>3. ASSUME NEW key \in Keys, ProviderSettles(key) PROVE provider' \in [Keys -> Made] /\ calls' = calls
    BY <2>3 DEF ProviderSettles, Base, TablesInv, Made
  <2> QED
    BY <2>1, <2>2, <2>3, CallCases DEF Base, TablesInv, Calls
<1> QED
  BY <1>1, <1>2, <1>3, <1>4 DEF TablesInv

LEMMA CallsStep ==
  ASSUME Base, [Next]_vars
  PROVE  CallsInv'
<1>1. ASSUME NEW w \in Workers, calls'[w] = "none" \/ (calls[w] # "none" /\ workers'[w] = workers[w])
      PROVE  calls'[w] # "none" =>
               /\ workers'[w].stage = "running" /\ workers'[w].job \in Payouts
               /\ payouts'[workers'[w].job].status # "absent"
  BY <1>1, NotAbsentStays DEF Base, CallsInv
<1>2. ASSUME NEW w \in Workers, ExecuteRead(w) PROVE CallsInv'
  BY <1>2, ReadFacts DEF CallsInv, Base, TablesInv
<1>3. ASSUME NEW w \in Workers, Send(w) PROVE CallsInv'
  BY <1>3, SendFacts DEF CallsInv, Base, TablesInv, Methods
<1>4. ASSUME NEW key \in Keys, ProviderSettles(key) PROVE CallsInv'
  BY <1>4 DEF ProviderSettles, CallsInv, Base, queueVars
<1>5. ASSUME calls' = calls /\ workers' = workers PROVE CallsInv'
  BY <1>1, <1>5 DEF CallsInv
<1>6. ASSUME NEW w \in Workers, calls' = [calls EXCEPT ![w] = "none"],
             \A v \in Workers : v # w => workers'[v] = workers[v]
      PROVE  CallsInv'
  BY <1>1, <1>6 DEF CallsInv, Base, TablesInv
<1>7. ASSUME NEW w \in Workers, calls' = calls, workers[w].stage # "running" \/ calls[w] = "none",
             \A v \in Workers : v # w => workers'[v] = workers[v]
      PROVE  CallsInv'
  <2>1. calls[w] = "none"
    BY <1>7 DEF Base, CallsInv
  <2> QED
    BY <1>1, <1>7, <2>1 DEF CallsInv
<1> QED
  BY <1>2, <1>3, <1>4, <1>5, <1>6, <1>7, CallCases

LEMMA RequestsStep ==
  ASSUME Base, [Next]_vars
  PROVE  RequestsInv'
<1>1. CASE requests' = requests
  <2> SUFFICES ASSUME NEW h \in People, requests[h].call = "draw"
               PROVE  payouts'[requests[h].payout].status = "absent"
    BY <1>1, NotAbsentStays DEF RequestsInv, Base, Moves
  <2> DEFINE p == requests[h].payout
  <2>1. p \in Payouts /\ payouts[p].status = "absent"
    BY DEF Base, RequestsInv
  <2>2. ~Created(p) /\ ~Queued(p)
    <3>1. ASSUME NEW g \in People, Writing(g) PROVE FALSE
      BY <1>1, <3>1, WritingAnswers DEF NoRequest, Request, Base, TablesInv
    <3> QED
      BY <3>1 DEF Created, Queued, Writing
  <2>3. PayoutMoves["absent"] = {}
    BY DEF PayoutMoves
  <2> HIDE DEF p
  <2>4. payouts'[p].status = "absent"
    BY <2>1, <2>2, <2>3, BatchStep, BatchFields DEF BatchStepped
  <2> QED
    BY <2>4 DEF p
<1>2. ASSUME NEW h \in People, NEW p \in Payouts, Asking(h, p) PROVE RequestsInv'
  <2>0. payouts' = payouts
    BY <1>2 DEF Asking, AskBatch, AskSend, AskMove, Asks
  <2>1. CASE AskBatch(h, p)
    <3>1. \E found : requests' = [requests EXCEPT ![h] = Request("draw", p, "absent", found)]
      BY <2>1 DEF AskBatch, Asks
    <3>2. payouts[p].status = "absent" /\ \A g \in People : requests[g].payout # p
      BY <2>1 DEF AskBatch
    <3> QED
      BY <2>0, <3>1, <3>2 DEF RequestsInv, Base, TablesInv, Request, Moves
  <2>2. CASE AskSend(h, p)
    <3>1. /\ requests' = [requests EXCEPT ![h] = Request("send", p, "draft", {})]
          /\ payouts[p].status = "draft"
      BY <2>2 DEF AskSend, Asks, Sendable
    <3> QED
      BY <2>0, <3>1 DEF RequestsInv, Base, TablesInv, Request, Moves
  <2>3. ASSUME NEW to \in Moves, AskMove(h, p, to) PROVE RequestsInv'
    <3>1. /\ requests' = [requests EXCEPT ![h] = Request(to, p, payouts[p].status, {})]
          /\ to \in PayoutMoves[payouts[p].status]
      BY <2>3 DEF AskMove, Asks
    <3>2. payouts[p].status # "absent"
      BY <3>1 DEF PayoutMoves
    <3> QED
      BY <2>0, <3>1, <3>2 DEF RequestsInv, Base, TablesInv, Request, Moves
  <2> QED
    BY <1>2, <2>1, <2>2, <2>3 DEF Asking
<1>3. ASSUME NEW h \in People, NEW method \in Methods, FindProvider(h, method) PROVE RequestsInv'
  <2>1. payouts' = payouts /\ requests' = [requests EXCEPT ![h].via = method]
    BY <1>3 DEF FindProvider
  <2>2. \A g \in People : /\ requests'[g].call = requests[g].call
                          /\ requests'[g].payout = requests[g].payout
                          /\ requests'[g].seen = requests[g].seen
    BY <2>1 DEF Base, TablesInv, RequestRows
  <2> QED
    BY <2>1, <2>2 DEF RequestsInv, Base
<1>4. ASSUME NEW h \in People, Writing(h) PROVE RequestsInv'
  <2>1. /\ requests' = [requests EXCEPT ![h] = NoRequest]
        /\ requests[h].call # "none" /\ requests[h].payout \in Payouts
    BY <1>4, WritingAnswers DEF Base, RequestsInv
  <2>2. /\ requests'[h].call = "none" /\ requests'[h].payout = Null
        /\ \A g \in People : g # h => requests'[g] = requests[g]
    BY <2>1 DEF NoRequest, Request, Base, TablesInv
  <2>3. \A q \in Payouts : q # requests[h].payout => payouts'[q] = payouts[q]
    <3>1. \E row : payouts' = [payouts EXCEPT ![requests[h].payout] = row]
      BY <1>4 DEF Writing, CreateBatch, QueueProviderPayout, MarkPayoutProcessing, MarkPayoutPaid,
         MarkPayoutFailed, CancelPayout, SetStatus
    <3> QED
      BY <3>1 DEF Base, TablesInv
  <2>4. ASSUME NEW g \in People, g # h, requests[g].call = "draw"
        PROVE  payouts'[requests[g].payout].status = "absent"
    BY <2>3, <2>4 DEF Base, RequestsInv
  <2>5. ASSUME NEW g \in People, g # h PROVE
          /\ requests[g].call # "none" => requests[g].payout \in Payouts
          /\ requests[g].call \in {"send"} \cup Moves => payouts'[requests[g].payout].status # "absent"
    BY <2>5, NotAbsentStays DEF Base, RequestsInv, Moves
  <2>6. Null \notin Payouts
    BY ProviderConstants DEF ProviderConstants
  <2> QED
    BY <2>2, <2>4, <2>5, <2>6 DEF RequestsInv, Base, Moves
<1> QED
  BY <1>1, <1>2, <1>3, <1>4, RequestCases

BaseHolds == Spec => []Base

LEMMA BaseCorrect == BaseHolds
<1>1. Init => Base
  <2>1. Init => Queue!TypeOK
    BY DEF Init, Queue!Init, Queue!TypeOK, Queue!Idle, Queue!At, Queue!Stages, Queue!JobStatus
  <2>2. Init => TablesInv
    BY ProviderConstants
       DEF ProviderConstants, Init, TablesInv, AbsentPayout, PayoutRows, CommissionRows, PayoutStatus,
           Made, RequestRows, NoRequest, Request, Calls
  <2>3. Init => CallsInv /\ RequestsInv /\ EmptyInv
    BY DEF Init, CallsInv, RequestsInv, EmptyInv, AbsentPayout, NoRequest, Request, Moves
  <2> QED
    BY <2>1, <2>2, <2>3 DEF Base
<1>2. ASSUME Base, Named, [Next]_vars PROVE Base'
  BY <1>2, QueueStep, QueueTypeStep, TablesStep, CallsStep, RequestsStep, EmptyStep DEF Base
<1> QED
  BY <1>1, <1>2, NamedCorrect, PTL DEF Spec, BaseHolds, NamedHolds

----------------------------------------------------------------------------
(* A batch is paid by one provider.                                        *)

\* Once a provider is asked about a batch, the batch is its own and no draft any more, unless a
\* request wrote over another.
ViaInv ==
  \A p \in Payouts, method \in Methods :
    \/ provider[<<p, method>>] # "none"
    \/ \E w \in Workers : workers[w].job = p /\ calls[w] = method
    => p \in stale \/ (payouts[p].via = method /\ payouts[p].status \notin {"absent", "draft"})

\* The provider of a batch changes only with a draft, unless a request wrote over another.
LEMMA ViaStays ==
  ASSUME Base, [Next]_vars, NEW p \in Payouts, payouts[p].status \notin {"absent", "draft"}
  PROVE  /\ p \in stale' \/ payouts'[p].via = payouts[p].via
         /\ payouts'[p].status \notin {"absent", "draft"}
BY BatchStep, BatchFields DEF BatchStepped, Kept, Moves

LEMMA ViaStep ==
  ASSUME Base, ViaInv, [Next]_vars
  PROVE  ViaInv'
<1> DEFINE Has(p, method) == \/ provider[<<p, method>>] # "none"
                             \/ \E w \in Workers : workers[w].job = p /\ calls[w] = method
           Its(p, method) == payouts[p].via = method /\ payouts[p].status \notin {"absent", "draft"}
<1> SUFFICES ASSUME NEW p \in Payouts, NEW method \in Methods,
                    \/ provider'[<<p, method>>] # "none"
                    \/ \E w \in Workers : workers'[w].job = p /\ calls'[w] = method
             PROVE  p \in stale' \/ Its(p, method)'
  BY DEF ViaInv
<1>1. ASSUME Has(p, method) \/ Its(p, method) PROVE p \in stale' \/ Its(p, method)'
  BY <1>1, ViaStays, BatchStep DEF ViaInv, Histories
<1>2. <<p, method>> \in Keys
  BY DEF Keys
<1>3. ASSUME NEW w \in Workers, ExecuteRead(w) PROVE Has(p, method) \/ Its(p, method)
  BY <1>3, ReadFacts DEF Base, TablesInv, Methods
<1>4. ASSUME NEW w \in Workers, Send(w) PROVE Has(p, method)
  <2>1. CASE provider'[<<p, method>>] # "none"
    <3>1. CASE <<p, method>> = <<workers[w].job, calls[w]>>
      BY <3>1
    <3>2. CASE <<p, method>> # <<workers[w].job, calls[w]>>
      BY <1>2, <1>4, <2>1, <3>2, SendFacts DEF Base, TablesInv
    <3> QED
      BY <3>1, <3>2
  <2>2. ASSUME NEW v \in Workers, workers'[v].job = p, calls'[v] = method PROVE Has(p, method)
    <3>1. PICK answer \in Heards : calls' = [calls EXCEPT ![w] = answer]
      BY <1>4, SendFacts
    <3>2. method \notin Heards
      BY DEF Methods, Heards
    <3>3. v # w /\ workers' = workers
      BY <1>4, <2>2, <3>1, <3>2, SendFacts DEF Base, TablesInv
    <3> QED
      BY <2>2, <3>1, <3>3 DEF Base, TablesInv
  <2> QED
    BY <2>1, <2>2
<1>5. ASSUME NEW key \in Keys, ProviderSettles(key) PROVE Has(p, method)
  BY <1>2, <1>5 DEF ProviderSettles, Base, TablesInv, queueVars
<1>6. ASSUME provider' = provider, calls' = calls, workers' = workers PROVE Has(p, method)
  BY <1>6
<1>7. ASSUME NEW w \in Workers, provider' = provider,
             \/ calls' = [calls EXCEPT ![w] = "none"]
             \/ calls' = calls /\ calls[w] = "none",
             \A v \in Workers : v # w => workers'[v] = workers[v]
      PROVE  Has(p, method)
  <2>1. calls'[w] # method /\ \A v \in Workers : v # w => calls'[v] = calls[v]
    BY <1>7 DEF Methods, Base, TablesInv
  <2> QED
    BY <1>7, <2>1
<1>8. \A w \in Workers : workers[w].stage # "running" => calls[w] = "none"
  BY DEF Base, CallsInv
<1> HIDE DEF Has, Its
<1> QED
  BY <1>1, <1>3, <1>4, <1>5, <1>6, <1>7, <1>8, CallCases

ViaHolds == Spec => []ViaInv

\* "Stable per payout so retries never pay twice": however often a job is retried by the queue or by
\* an admin, whatever payout method the affiliate chooses meanwhile, and wherever a worker crashed,
\* one provider at most has a payment of a batch, under its one key, unless a request wrote over what
\* another had done to the batch.
THEOREM OnePaymentPerBatchCorrect == Spec => []OnePaymentPerBatch
<1>1. Init => ViaInv
  BY DEF Init, ViaInv, Keys, Methods
<1>2. Base /\ ViaInv /\ [Next]_vars => ViaInv'
  BY ViaStep
<1>3. ViaInv => OnePaymentPerBatch
  <2> SUFFICES ASSUME ViaInv, NEW key \in Keys, NEW other \in Keys, Taken(key), Taken(other),
                      key[1] = other[1], key[1] \notin stale
               PROVE  key = other
    BY DEF OnePaymentPerBatch
  <2>1. PICK p \in Payouts, method \in Methods, m \in Methods : key = <<p, method>> /\ other = <<p, m>>
    BY DEF Keys
  <2>2. provider[<<p, method>>] # "none" /\ provider[<<p, m>>] # "none"
    BY <2>1 DEF Taken
  <2> QED
    BY <2>1, <2>2 DEF ViaInv
<1> QED
  BY <1>1, <1>2, <1>3, BaseCorrect, PTL DEF Spec, BaseHolds

----------------------------------------------------------------------------
(* A commission is paid by two batches only in doubt.                      *)

\* A batch the provider has, or is being asked about, is being paid, is paid, or is in doubt.
DoubtInv ==
  \A p \in Payouts :
    Near(p) /\ payouts[p].status \notin {"processing", "paid"} => p \in doubtful \cup stale

\* The commissions of a batch stay in it until it is cancelled, unless a request wrote over another.
HoldsRows ==
  \A p \in Payouts : payouts[p].status # "cancelled" =>
    \A k \in payouts[p].rows : rows[k].payout = p \/ Overwritten(k)

\* A provider comes near a batch only when a worker reads the batch in flight.
LEMMA NearStep ==
  ASSUME Base, [Next]_vars, NEW p \in Payouts, Near(p)', ~Near(p)
  PROVE  payouts[p].status = "processing" /\ payouts' = payouts
<1>1. ASSUME NEW w \in Workers, ExecuteRead(w) PROVE payouts[p].status = "processing" /\ payouts' = payouts
  <2>1. /\ provider' = provider /\ workers' = workers /\ payouts' = payouts
        /\ payouts[workers[w].job].status = "processing"
        /\ \A v \in Workers : v # w => calls'[v] = calls[v]
    BY <1>1, ReadFacts DEF Base, TablesInv
  <2>2. workers[w].job = p
    BY <2>1 DEF Near, Took, Asked
  <2> QED
    BY <2>1, <2>2
<1>2. ASSUME NEW w \in Workers, Send(w) PROVE FALSE
  <2>1. /\ workers' = workers /\ calls[w] \in Methods
        /\ workers[w].job \in Payouts
        /\ \A v \in Workers : calls'[v] \in Methods => calls[v] \in Methods
        /\ \A key \in Keys : key # <<workers[w].job, calls[w]>> => provider'[key] = provider[key]
    BY <1>2, SendFacts DEF Base, TablesInv, Methods, Heards
  <2>2. workers[w].job # p
    BY <2>1 DEF Near, Asked
  <2>3. Took(p)' => Took(p)
    BY <2>1, <2>2 DEF Took
  <2>4. Asked(p)' => Asked(p)
    BY <2>1 DEF Asked
  <2> QED
    BY <2>3, <2>4 DEF Near
<1>3. ASSUME NEW key \in Keys, ProviderSettles(key) PROVE FALSE
  BY <1>3 DEF ProviderSettles, Near, Took, Asked, Base, TablesInv, queueVars
<1>4. ASSUME provider' = provider,
             \A w \in Workers : calls'[w] \in Methods => calls[w] \in Methods /\ workers'[w] = workers[w]
      PROVE  FALSE
  BY <1>4 DEF Near, Took, Asked
<1>5. ASSUME NEW w \in Workers, provider' = provider,
             \/ calls' = [calls EXCEPT ![w] = "none"]
             \/ calls' = calls /\ calls[w] = "none",
             \A v \in Workers : v # w => workers'[v] = workers[v]
      PROVE  FALSE
  <2>1. calls'[w] \notin Methods /\ \A v \in Workers : v # w => calls'[v] = calls[v]
    BY <1>5 DEF Methods, Base, TablesInv
  <2> QED
    BY <1>4, <1>5, <2>1
<1>6. \A w \in Workers : workers[w].stage # "running" => calls[w] = "none"
  BY DEF Base, CallsInv
<1> QED
  BY <1>1, <1>2, <1>3, <1>4, <1>5, <1>6, CallCases

LEMMA DoubtStep ==
  ASSUME Base, DoubtInv, [Next]_vars
  PROVE  DoubtInv'
<1> SUFFICES ASSUME NEW p \in Payouts, Near(p)', payouts'[p].status \notin {"processing", "paid"}
             PROVE  p \in doubtful' \cup stale'
  BY DEF DoubtInv
<1>1. Near(p)
  BY NearStep
<1>2. p \in doubtful \cup stale => p \in doubtful' \cup stale'
  BY BatchStep DEF Histories
<1>3. CASE payouts[p].status \notin {"processing", "paid"}
  BY <1>1, <1>2, <1>3 DEF DoubtInv
<1>4. CASE payouts[p].status \in {"processing", "paid"}
  <2>1. PayoutMoves["processing"] = {"paid", "failed"} /\ PayoutMoves["paid"] = {}
    BY DEF PayoutMoves
  <2> QED
    BY <1>1, <1>4, <2>1, BatchStep, BatchFields DEF BatchStepped
<1> QED
  BY <1>3, <1>4

StaleInv == stale \subseteq Payouts

\* A commission written over stays so.
LEMMA OverwrittenStays ==
  ASSUME Base, [Next]_vars, NEW k, Overwritten(k), StaleInv
  PROVE  Overwritten(k)'
<1>1. PICK p \in stale : k \in payouts[p].rows
  BY DEF Overwritten
<1>2. p \in Payouts /\ payouts[p].status # "absent"
  BY <1>1 DEF Base, EmptyInv, StaleInv
<1>3. payouts'[p].rows = payouts[p].rows /\ p \in stale'
  BY <1>1, <1>2, BatchStep, BatchFields DEF BatchStepped, Kept, Histories
<1> QED
  BY <1>1, <1>3 DEF Overwritten

LEMMA HoldsRowsStep ==
  ASSUME Base, StaleInv, HoldsRows, [Next]_vars
  PROVE  HoldsRows'
<1>1. ASSUME NEW h \in People, CreateBatch(h) PROVE HoldsRows'
  <2> DEFINE p == requests[h].payout
             taken == requests[h].rows
  <2>1. /\ p \in Payouts /\ taken \in SUBSET Rows
        /\ payouts' = [payouts EXCEPT ![p] = [@ EXCEPT !.status = "draft", !.rows = taken]]
        /\ rows' = [k \in Rows |-> IF k \in taken THEN [rows[k] EXCEPT !.payout = p] ELSE rows[k]]
        /\ stale' = IF \A k \in taken : Free(k) THEN stale ELSE stale \cup {p}
    BY <1>1 DEF CreateBatch, Base, RequestsInv, TablesInv, RequestRows
  <2>2. payouts'[p].rows = taken /\ \A k \in taken : rows'[k].payout = p
    BY <2>1 DEF Base, TablesInv, PayoutRows, CommissionRows
  <2>3. \A q \in Payouts : q # p => payouts'[q] = payouts[q]
    BY <2>1 DEF Base, TablesInv
  <2>4. ASSUME NEW q \in Payouts, q # p, payouts[q].status # "cancelled", NEW k \in payouts[q].rows
        PROVE  rows'[k].payout = q \/ Overwritten(k)'
    <3>1. k \in Rows /\ (rows[k].payout = q \/ Overwritten(k)')
      BY <2>4, OverwrittenStays DEF HoldsRows, Base, TablesInv, PayoutRows
    <3>2. CASE k \notin taken
      BY <2>1, <3>1, <3>2
    <3>3. CASE k \in taken /\ Free(k)
      BY <2>4, <3>1, <3>3, ProviderConstants DEF ProviderConstants, Free
    <3>4. CASE k \in taken /\ ~Free(k)
      <4>1. p \in stale'
        BY <2>1, <3>4
      <4> QED
        BY <2>2, <3>4, <4>1 DEF Overwritten
    <3> QED
      BY <3>2, <3>3, <3>4
  <2> HIDE DEF p, taken
  <2> QED
    BY <2>2, <2>3, <2>4 DEF HoldsRows
<1>2. CASE \A h \in People : ~CreateBatch(h)
  <2> SUFFICES ASSUME NEW p \in Payouts, payouts'[p].status # "cancelled", NEW k \in payouts'[p].rows
               PROVE  rows'[k].payout = p \/ Overwritten(k)'
    BY DEF HoldsRows
  <2>1. ~Created(p)
    BY <1>2 DEF Created
  <2>2. payouts'[p].rows = payouts[p].rows
    BY <2>1, BatchStep, BatchFields DEF BatchStepped, Kept
  <2>3. k \in Rows
    BY <2>2 DEF Base, TablesInv, PayoutRows
  <2>4. CASE payouts[p].status = "cancelled"
    <3>1. PayoutMoves["cancelled"] = {}
      BY DEF PayoutMoves
    <3>2. p \in stale'
      BY <2>1, <2>4, <3>1, BatchStep, BatchFields DEF BatchStepped
    <3> QED
      BY <3>2 DEF Overwritten
  <2>5. CASE payouts[p].status # "cancelled"
    <3>1. rows[k].payout = p \/ Overwritten(k)'
      BY <2>2, <2>5, OverwrittenStays DEF HoldsRows
    <3>2. rows[k].payout = p => rows'[k].payout = p
      BY <1>2, <2>3, RowsStep
    <3> QED
      BY <3>1, <3>2
  <2> QED
    BY <2>4, <2>5
<1> QED
  BY <1>1, <1>2

\* The batches that were written over are batches.
LEMMA StaleStep ==
  ASSUME Base, StaleInv, [Next]_vars
  PROVE  StaleInv'
<1> USE DEF StaleInv
<1>1. ASSUME NEW h \in People, Writing(h) PROVE stale' \subseteq Payouts
  <2>1. requests[h].payout \in Payouts
    BY <1>1, WritingAnswers DEF Base, RequestsInv
  <2> QED
    BY <1>1, <2>1 DEF Writing, CreateBatch, QueueProviderPayout, MarkPayoutProcessing, MarkPayoutPaid,
       MarkPayoutFailed, CancelPayout, SetStatus, Overtaken
<1>2. ASSUME NEW w \in Workers, ExecuteDisconnected(w) PROVE stale' \subseteq Payouts
  BY <1>2 DEF ExecuteDisconnected, Base, CallsInv
<1>3. ASSUME NEW w \in Workers,
             \/ ExecuteNothing(w) \/ ExecuteRead(w) \/ Send(w) \/ ApplyResult(w) \/ ApplyRefused(w)
             \/ Loop(w) \/ Fault(w)
      PROVE  stale' = stale
  BY <1>3 DEF ExecuteNothing, ExecuteRead, Send, ApplyResult, ApplyRefused, Loop, Fault, history
<1>4. ASSUME \/ \E k \in Rows : Settle(k)
             \/ \E method \in Methods : ConnectPayoutProvider(method) \/ DisconnectPayoutProvider(method)
             \/ \E key \in Keys : ProviderSettles(key)
             \/ \E p \in Payouts : RetryJob(p)
             \/ \E h \in People, method \in Methods : FindProvider(h, method)
             \/ Poll
             \/ UNCHANGED vars
      PROVE  stale' = stale
  BY <1>4 DEF Settle, ConnectPayoutProvider, DisconnectPayoutProvider, ProviderSettles, RetryJob,
     FindProvider, Poll, PollRead, PollWrite, vars, history
<1>5. ASSUME NEW h \in People, NEW p \in Payouts, Asking(h, p) PROVE stale' = stale
  BY <1>5 DEF Asking, AskBatch, AskSend, AskMove, Asks
<1> QED
  BY <1>1, <1>2, <1>3, <1>4, <1>5 DEF Next, Workspace, Execute

\* A commission is paid by two batches only if one of them was recorded as failed while the provider
\* had it or was being asked, or if a request wrote over what another had done to a batch of it.
THEOREM PaidTwiceOnlyInDoubtCorrect == Spec => []PaidTwiceOnlyInDoubt
<1>1. Init => DoubtInv /\ HoldsRows /\ StaleInv
  BY DEF StaleInv, Init, DoubtInv, HoldsRows, Near, Took, Asked, AbsentPayout, Methods, Queue!Init, Queue!Idle
<1>2. Base /\ StaleInv /\ DoubtInv /\ HoldsRows /\ [Next]_vars =>
        DoubtInv' /\ HoldsRows' /\ StaleInv'
  BY DoubtStep, HoldsRowsStep, StaleStep
<1>3. Base /\ DoubtInv /\ HoldsRows => PaidTwiceOnlyInDoubt
  <2> SUFFICES ASSUME Base, DoubtInv, HoldsRows, NEW p \in Payouts, NEW q \in Payouts,
                      NEW k \in payouts[p].rows \cap payouts[q].rows, p # q, Moved(p), Moved(q)
               PROVE  p \in doubtful \/ q \in doubtful \/ Overwritten(k)
    BY DEF PaidTwiceOnlyInDoubt
  <2>1. ASSUME ~Overwritten(k) PROVE payouts[p].status = "cancelled" \/ payouts[q].status = "cancelled"
    BY <2>1 DEF HoldsRows
  <2>2. p \in stale \/ q \in stale => Overwritten(k)
    BY DEF Overwritten
  <2> QED
    BY <2>1, <2>2 DEF DoubtInv, Moved, Near
<1> QED
  BY <1>1, <1>2, <1>3, BaseCorrect, PTL DEF Spec, BaseHolds

----------------------------------------------------------------------------
(* No batch waits to be sent without a job.                                *)

Waiting(p) == InFlight(p) /\ ~payouts[p].ref /\ p \notin reopened \cup stale

Ended == {"ran", "failing"}

JobInv ==
  /\ \A p \in Payouts : payouts[p].status \in {"absent", "draft"} => jobs[p].status = "absent"
  /\ \A w \in Workers : workers[w].job # Null => jobs[workers[w].job].status # "absent"
  /\ \A w \in Workers :
       workers[w].stage \in Ended /\ slips[workers[w].job] = 0 => ~Waiting(workers[w].job)
  /\ \A p \in Payouts : Waiting(p) /\ slips[p] = 0 => jobs[p].status \in {"queued", "running"}

\* What the queue does to a job's row: a row never goes, and only the worker whose attempt is over
\* ends the job.
LEMMA JobMoves ==
  ASSUME Queue!TypeOK, QueueNext, NEW p \in Payouts
  PROVE  /\ slips'[p] >= slips[p]
         /\ jobs[p].status # "absent" => jobs'[p].status # "absent"
         /\ \/ jobs'[p].status \in {"queued", "running"} \/ jobs'[p] = jobs[p]
            \/ \E w \in Workers : workers[w].job = p /\ workers[w].stage \in Ended
<1> USE ProviderConstants DEF ProviderConstants, Queue!TypeOK, Ended, Queue!At
<1>1. ASSUME NEW new \in SUBSET Payouts, Queue!Enqueue(new)
      PROVE  slips' = slips /\ (jobs'[p].status = "queued" \/ jobs'[p] = jobs[p])
  BY <1>1 DEF Queue!Enqueue
<1>2. ASSUME NEW w \in Workers, Queue!Pick(w) \/ Queue!LoseRace(w) \/ Queue!Commit(w)
                                  \/ Queue!Throw(w) \/ Queue!Crash(w)
      PROVE  UNCHANGED <<slips, jobs>>
  BY <1>2 DEF Queue!Pick, Queue!LoseRace, Queue!Commit, Queue!Throw, Queue!Crash
<1>3. ASSUME NEW w \in Workers, Queue!Slip(w) PROVE slips'[p] >= slips[p] /\ jobs' = jobs
  BY <1>3 DEF Queue!Slip
<1>4. ASSUME NEW w \in Workers, Queue!Claim(w)
      PROVE  slips' = slips /\ (jobs'[p].status = "running" \/ jobs'[p] = jobs[p])
  BY <1>4 DEF Queue!Claim
<1>5. ASSUME NEW w \in Workers, Queue!CompleteJob(w) \/ Queue!FailJob(w)
      PROVE  /\ slips' = slips
             /\ \/ jobs'[p] = jobs[p]
                \/ workers[w].job = p /\ workers[w].stage \in Ended /\ jobs'[p].status # "absent"
  BY <1>5 DEF Queue!CompleteJob, Queue!FailJob, Queue!SetStatus, Queue!AfterFailure
<1>6. ASSUME NEW q \in Payouts, Queue!RetryJob(q)
      PROVE  slips' = slips /\ (jobs'[p].status = "queued" \/ jobs'[p] = jobs[p])
  BY <1>6 DEF Queue!RetryJob
<1>7. CASE UNCHANGED queueVars
  BY <1>7 DEF queueVars
<1> QED
  BY <1>1, <1>2, <1>3, <1>4, <1>5, <1>6, <1>7, QueueCases

\* A worker's new job was queued, and an attempt ends with the job it began with.
LEMMA WorkerMoves ==
  ASSUME Queue!TypeOK, QueueNext, NEW w \in Workers, workers'[w].job # Null
  PROVE  /\ workers'[w].job \in Payouts
         /\ workers'[w].job = workers[w].job \/ jobs[workers'[w].job].status = "queued"
         /\ workers'[w].stage \in Ended => workers'[w].job = workers[w].job
<1> USE ProviderConstants DEF ProviderConstants, Queue!TypeOK, Ended, Queue!At
<1>1. ASSUME NEW v \in Workers, Queue!Pick(v)
      PROVE  \/ workers'[w] = workers[w]
             \/ /\ workers'[w].stage = "picked" /\ workers'[w].job \in Payouts
                /\ jobs[workers'[w].job].status = "queued"
  BY <1>1 DEF Queue!Pick
<1>2. ASSUME NEW v \in Workers, Queue!Claim(v) \/ Queue!Commit(v) \/ Queue!Throw(v) \/ Queue!Slip(v)
      PROVE  workers'[w].job = workers[w].job
  <2>1. CASE Queue!Claim(v)
    BY <2>1 DEF Queue!Claim
  <2>2. ASSUME NEW to, Queue!GoTo(v, to) PROVE workers'[w].job = workers[w].job
    BY <2>2 DEF Queue!GoTo
  <2> QED
    BY <1>2, <2>1, <2>2 DEF Queue!Commit, Queue!Throw, Queue!Slip
<1>3. ASSUME NEW v \in Workers, Queue!LoseRace(v) \/ Queue!Crash(v)
                                  \/ Queue!CompleteJob(v) \/ Queue!FailJob(v)
      PROVE  workers'[w] = workers[w]
  BY <1>3 DEF Queue!LoseRace, Queue!Crash, Queue!CompleteJob, Queue!FailJob, Queue!Rest, Queue!Idle
<1>4. ASSUME \/ \E new \in SUBSET Payouts : Queue!Enqueue(new)
             \/ \E q \in Payouts : Queue!RetryJob(q) \/ UNCHANGED queueVars
      PROVE  workers' = workers
  BY <1>4 DEF Queue!Enqueue, Queue!RetryJob, queueVars
<1>5. \/ workers'[w].job = workers[w].job
      \/ /\ workers'[w].stage = "picked" /\ workers'[w].job \in Payouts
         /\ jobs[workers'[w].job].status = "queued"
  BY <1>1, <1>2, <1>3, <1>4, QueueCases DEF queueVars
<1> QED
  BY <1>5

\* Only the job of a batch that is handed over is new.
LEMMA AbsentStays ==
  ASSUME Base, JobInv, [Next]_vars, NEW p \in Payouts, jobs[p].status = "absent", ~Queued(p)
  PROVE  jobs'[p].status = "absent"
<1>1. ASSUME NEW h \in People, Workspace(h) PROVE jobs'[p].status = "absent"
  BY <1>1, WorkspaceQueue DEF Queued, Queue!Enqueue, queueVars
<1>2. ASSUME NEW w \in Workers, Execute(w) \/ Loop(w) \/ Fault(w) PROVE jobs'[p].status = "absent"
  <2>1. CASE Queue!CompleteJob(w) \/ Queue!FailJob(w)
    <3>1. workers[w].job # Null /\ workers[w].job \in Payouts
      BY <2>1 DEF Queue!CompleteJob, Queue!FailJob, Base, Queue!TypeOK, Queue!At
    <3>2. workers[w].job # p
      BY <3>1 DEF JobInv
    <3> QED
      BY <2>1, <3>2 DEF Queue!CompleteJob, Queue!FailJob, Queue!SetStatus, Base, Queue!TypeOK
  <2>2. CASE Queue!Claim(w)
    BY <2>2 DEF Queue!Claim, Queue!Claimable, Base, Queue!TypeOK
  <2>3. CASE \/ Queue!Pick(w) \/ Queue!LoseRace(w) \/ Queue!Slip(w) \/ Queue!Crash(w)
             \/ Queue!Commit(w) \/ Queue!Throw(w) \/ UNCHANGED queueVars
    BY <2>3 DEF Queue!Pick, Queue!LoseRace, Queue!Slip, Queue!Crash, Queue!Commit, Queue!Throw, queueVars
  <2> QED
    BY <1>2, <2>1, <2>2, <2>3 DEF Execute, ExecuteNothing, ExecuteRead, ExecuteDisconnected, Send,
       ApplyResult, ApplyRefused, Loop, Fault, Queue!Fault
<1>3. ASSUME NEW q \in Payouts, RetryJob(q) PROVE jobs'[p].status = "absent"
  BY <1>3 DEF RetryJob, Queue!RetryJob, Base, Queue!TypeOK
<1>4. ASSUME \/ \E k \in Rows : Settle(k)
             \/ \E method \in Methods : ConnectPayoutProvider(method) \/ DisconnectPayoutProvider(method)
             \/ Poll
             \/ \E key \in Keys : ProviderSettles(key)
             \/ UNCHANGED vars
      PROVE  jobs' = jobs
  BY <1>4 DEF Settle, ConnectPayoutProvider, DisconnectPayoutProvider, Poll, PollRead, PollWrite,
     ProviderSettles, vars, queueVars
<1> QED
  BY <1>1, <1>2, <1>3, <1>4 DEF Next

\* A batch begins to wait only when it is handed over, and none becomes a draft again.
LEMMA WaitStep ==
  ASSUME Base, [Next]_vars, NEW p \in Payouts, ~Queued(p)
  PROVE  /\ Waiting(p)' => Waiting(p)
         /\ payouts'[p].status \in {"absent", "draft"} => payouts[p].status \in {"absent", "draft"}
<1>1. Histories /\ BatchStepped(p)
  BY BatchStep
<1> QED
  BY <1>1, BatchFields DEF BatchStepped, Histories, Waiting, InFlight, Kept, Moves

\* A batch that is handed over and was no draft has been written over.
LEMMA QueuedAgain ==
  ASSUME Base, [Next]_vars, NEW p \in Payouts, Queued(p)
  PROVE  /\ payouts[p].status = "draft" \/ ~Waiting(p)'
         /\ payouts'[p].status = "processing"
  BY BatchFields DEF Waiting

\* An attempt ends with the batch sent, failed or moved on by someone, unless an error ended it.
LEMMA EndStep ==
  ASSUME Base, [Next]_vars, NEW w \in Workers, NEW p \in Payouts,
         workers[w].job = p, workers[w].stage \notin Ended, workers'[w].stage \in Ended
  PROVE  slips'[p] > 0 \/ ~Waiting(p)'
<1> DEFINE Goal == slips'[p] > 0 \/ ~Waiting(p)'
<1>1. workers'[w] # workers[w]
  OBVIOUS
<1>2. ASSUME NEW v \in Workers, Queue!Commit(v) \/ Queue!Throw(v) \/ Queue!Slip(v) PROVE v = w
  <2>1. \E to : Queue!GoTo(v, to)
    BY <1>2 DEF Queue!Commit, Queue!Throw, Queue!Slip
  <2> QED
    BY <1>1, <2>1 DEF Queue!GoTo, Base, Queue!TypeOK
<1>3. ASSUME NEW v \in Workers, ExecuteNothing(v) PROVE Goal
  BY <1>2, <1>3 DEF ExecuteNothing, Starts, NothingToSend, Waiting, InFlight, history
<1>4. ASSUME NEW v \in Workers, ExecuteDisconnected(v) PROVE Goal
  BY <1>2, <1>4 DEF ExecuteDisconnected, Waiting, InFlight, Base, TablesInv, PayoutRows
<1>5. ASSUME NEW v \in Workers, ApplyResult(v) PROVE Goal
  <2>1. v = w
    BY <1>2, <1>5 DEF ApplyResult
  <2>2. calls[w] \in Heards /\ payouts'[p] = Applied(payouts[p], calls[w])
    BY <1>5, <2>1 DEF ApplyResult, Base, TablesInv
  <2>3. payouts'[p].status = "processing" => payouts'[p].ref
    BY <2>2, AppliedType DEF Base, TablesInv, Heards
  <2> QED
    BY <2>3 DEF Waiting, InFlight
<1>6. ASSUME NEW v \in Workers, ApplyRefused(v) PROVE Goal
  <2>1. v = w
    BY <1>2, <1>6 DEF ApplyRefused
  <2>2. calls[w] \in Heards \cup {"gone"} /\ ~Allowed(p, calls[w]) /\ payouts' = payouts
    BY <1>6, <2>1 DEF ApplyRefused
  <2>3. calls[w] # "processing" => Target(calls[w]) \in {"paid", "failed"}
    BY <2>2 DEF Target, Heards
  <2> QED
    BY <2>2, <2>3 DEF Allowed, PayoutMoves, Waiting, InFlight
<1>7. ASSUME NEW v \in Workers, Queue!Slip(v) PROVE Goal
  <2>1. v = w
    BY <1>2, <1>7
  <2>2. slips' = [slips EXCEPT ![p] = slips[p] + 1]
    BY <1>7, <2>1 DEF Queue!Slip
  <2> QED
    BY <2>2 DEF Base, Queue!TypeOK
<1>8. ASSUME NEW v \in Workers, ExecuteRead(v) \/ Send(v) \/ Loop(v) \/ Queue!Crash(v) PROVE FALSE
  BY <1>8 DEF ExecuteRead, Send, Loop, Queue!Crash, Queue!Pick, Queue!Claim, Queue!LoseRace,
              Queue!CompleteJob, Queue!FailJob, Queue!Rest, Queue!Idle, Ended, queueVars, Base,
              Queue!TypeOK
<1>9. ASSUME NEW h \in People, Workspace(h) PROVE workers' = workers
  BY <1>9, WorkspaceQueue DEF queueVars, Queue!Enqueue
<1>10. ASSUME \/ \E k \in Rows : Settle(k)
              \/ \E method \in Methods : ConnectPayoutProvider(method) \/ DisconnectPayoutProvider(method)
              \/ Poll
              \/ \E key \in Keys : ProviderSettles(key)
              \/ \E q \in Payouts : RetryJob(q)
              \/ UNCHANGED vars
       PROVE  workers' = workers
  BY <1>10 DEF Settle, ConnectPayoutProvider, DisconnectPayoutProvider, Poll, PollRead, PollWrite,
     ProviderSettles, RetryJob, Queue!RetryJob, vars, queueVars
<1> HIDE DEF Goal
<1>11. Goal
  BY <1>1, <1>3, <1>4, <1>5, <1>6, <1>7, <1>8, <1>9, <1>10 DEF Next, Execute, Fault, Queue!Fault
<1> QED
  BY <1>11 DEF Goal

LEMMA JobStep ==
  ASSUME Base, JobInv, [Next]_vars
  PROVE  JobInv'
<1>1. QueueNext /\ Queue!TypeOK /\ Queue!TypeOK'
  <2>1. Named
    BY DEF Named, Base, TablesInv, RequestsInv
  <2> QED
    BY <2>1, QueueStep, QueueTypeStep DEF Base
<1>2. ASSUME NEW p \in Payouts, payouts'[p].status \in {"absent", "draft"}
      PROVE  jobs'[p].status = "absent"
  <2>1. ~Queued(p)
    BY <1>2, QueuedAgain
  <2> QED
    BY <1>2, <2>1, WaitStep, AbsentStays DEF JobInv
<1>3. ASSUME NEW w \in Workers, workers'[w].job # Null PROVE jobs'[workers'[w].job].status # "absent"
  <2>1. workers'[w].job \in Payouts /\ jobs[workers'[w].job].status # "absent"
    BY <1>1, <1>3, WorkerMoves DEF JobInv
  <2> QED
    BY <1>1, <2>1, JobMoves
<1>4. ASSUME NEW w \in Workers, workers'[w].stage \in Ended,
             NEW p, p = workers'[w].job, slips'[p] = 0
      PROVE  ~Waiting(p)'
  <2>1. p # Null
    BY <1>1, <1>4 DEF Queue!TypeOK, Queue!At, Ended
  <2>2. p \in Payouts /\ p = workers[w].job
    BY <1>1, <1>4, <2>1, WorkerMoves
  <2>3. CASE workers[w].stage \notin Ended
    BY <1>4, <2>2, <2>3, EndStep
  <2>4. CASE workers[w].stage \in Ended
    <3>1. slips[p] = 0
      BY <1>1, <1>4, <2>2, JobMoves DEF Queue!TypeOK
    <3>2. ~Waiting(p) /\ jobs[p].status # "absent"
      BY <2>1, <2>2, <2>4, <3>1 DEF JobInv
    <3>3. CASE Queued(p)
      BY <2>2, <3>2, <3>3, QueuedAgain DEF JobInv
    <3>4. CASE ~Queued(p)
      BY <2>2, <3>2, <3>4, WaitStep
    <3> QED
      BY <3>3, <3>4
  <2> QED
    BY <2>3, <2>4
<1>5. ASSUME NEW p \in Payouts, Waiting(p)', slips'[p] = 0
      PROVE  jobs'[p].status \in {"queued", "running"}
  <2>1. CASE Queued(p)
    <3>1. jobs[p].status = "absent"
      BY <1>5, <2>1, QueuedAgain DEF JobInv
    <3> QED
      BY <2>1, <3>1 DEF Queued, QueueProviderPayout, Queue!Enqueue
  <2>2. CASE ~Queued(p)
    <3>1. Waiting(p) /\ slips[p] = 0
      BY <1>1, <1>5, <2>2, WaitStep, JobMoves DEF Queue!TypeOK
    <3>2. \A w \in Workers : workers[w].job = p => workers[w].stage \notin Ended
      BY <3>1 DEF JobInv
    <3> QED
      BY <1>1, <3>1, <3>2, JobMoves DEF JobInv
  <2> QED
    BY <2>1, <2>2
<1> QED
  BY <1>2, <1>3, <1>4, <1>5 DEF JobInv

\* A batch that waits to be sent has a job that will send it or that a crash left stuck: no path lets
\* the job end before, except a database error, which may use the attempts up, a merchant who puts a
\* failed batch back to processing, which queues nothing, and a request that writes over another.
THEOREM QueuedHasJobCorrect == Spec => []QueuedHasJob
<1>1. Init => JobInv
  BY DEF Init, Queue!Init, Queue!Idle, JobInv, Ended, AbsentPayout, Waiting, InFlight
<1>2. Base /\ JobInv /\ [Next]_vars => JobInv'
  BY JobStep
<1>3. JobInv => QueuedHasJob
  BY DEF JobInv, QueuedHasJob, Waiting
<1> QED
  BY <1>1, <1>2, <1>3, BaseCorrect, PTL DEF Spec, BaseHolds

----------------------------------------------------------------------------
(* Type correctness.                                                       *)

RestInv ==
  /\ connected \subseteq Methods /\ polled \in (SUBSET Payouts) \cup {Null}
  /\ doubtful \subseteq Payouts /\ reopened \subseteq Payouts /\ asks \in Nat

LEMMA RestStep ==
  ASSUME Base, RestInv, [Next]_vars
  PROVE  RestInv'
<1> USE DEF RestInv
<1>1. ASSUME NEW h \in People, Writing(h) PROVE RestInv'
  <2>1. requests[h].payout \in Payouts
    BY <1>1, WritingAnswers DEF Base, RequestsInv
  <2> QED
    BY <1>1, <2>1 DEF Writing, CreateBatch, QueueProviderPayout, MarkPayoutProcessing, MarkPayoutPaid,
       MarkPayoutFailed, CancelPayout, SetStatus, InDoubt
<1>2. ASSUME NEW h \in People, NEW p \in Payouts, Asking(h, p) PROVE RestInv'
  BY <1>2 DEF Asking, AskBatch, AskSend, AskMove, Asks, Counted
<1>3. ASSUME NEW w \in Workers, ExecuteDisconnected(w) \/ ApplyResult(w) PROVE RestInv'
  BY <1>3 DEF ExecuteDisconnected, ApplyResult, InDoubt, Base, CallsInv, Heards
<1>4. ASSUME NEW w \in Workers,
             ExecuteNothing(w) \/ ExecuteRead(w) \/ Send(w) \/ ApplyRefused(w) \/ Loop(w) \/ Fault(w)
      PROVE  RestInv'
  BY <1>4 DEF ExecuteNothing, ExecuteRead, Send, ApplyRefused, Loop, Fault, history
<1>5. ASSUME NEW silent \in SUBSET Payouts, PollWrite(silent) PROVE RestInv'
  <2>1. polled \subseteq Payouts
    BY <1>5 DEF PollWrite
  <2>2. \/ doubtful' = doubtful
        \/ \E denied \in SUBSET polled : doubtful' = doubtful \cup UNION {InDoubt(p) : p \in denied}
    BY <1>5 DEF PollWrite
  <2>3. ASSUME NEW denied \in SUBSET polled PROVE UNION {InDoubt(p) : p \in denied} \subseteq Payouts
    BY <2>1 DEF InDoubt
  <2>4. doubtful' \subseteq Payouts
    BY <2>2, <2>3
  <2> QED
    BY <1>5, <2>4 DEF PollWrite
<1>6. ASSUME NEW p \in Payouts, RetryJob(p) PROVE RestInv'
  BY <1>6 DEF RetryJob, Counted
<1>7. ASSUME NEW method \in Methods, ConnectPayoutProvider(method) \/ DisconnectPayoutProvider(method)
      PROVE  RestInv'
  BY <1>7 DEF ConnectPayoutProvider, DisconnectPayoutProvider, Counted, history
<1>8. ASSUME \/ \E k \in Rows : Settle(k)
             \/ \E h \in People, method \in Methods : FindProvider(h, method)
             \/ PollRead
             \/ \E key \in Keys : ProviderSettles(key)
             \/ UNCHANGED vars
      PROVE  RestInv'
  BY <1>8 DEF Settle, FindProvider, PollRead, ProviderSettles, vars, history
<1> QED
  BY <1>1, <1>2, <1>3, <1>4, <1>5, <1>6, <1>7, <1>8 DEF Next, Workspace, Execute, Poll

\* Every row keeps the shape of its table, and a worker has a call open only inside an attempt.
THEOREM TypeCorrect == Spec => []TypeOK
<1>1. Init => RestInv /\ StaleInv
  BY DEF Init, RestInv, StaleInv
<1>2. Base /\ RestInv /\ StaleInv /\ [Next]_vars => RestInv' /\ StaleInv'
  BY RestStep, StaleStep
<1>3. Base /\ RestInv /\ StaleInv => TypeOK
  BY DEF Base, RestInv, StaleInv, TypeOK, TablesInv, CallsInv, PayoutRows, CommissionRows, RequestRows,
         Made, Calls
<1> QED
  BY <1>1, <1>2, <1>3, BaseCorrect, PTL DEF Spec, BaseHolds
=============================================================================
