--------------------------- MODULE WebhooksProofs ---------------------------
(***************************************************************************)
(* Theorems about Webhooks: whatever the deliveries, subscriptions,        *)
(* processes, errors and crashes, webhook jobs are jobs of the queue, an   *)
(* endpoint hears an accepted delivery once, no delivery is forgotten, and *)
(* with one process an endpoint that keeps failing is paused.              *)
(***************************************************************************)
EXTENDS Webhooks, TLAPS

QueueNext == [Queue!Next]_queueVars

\* What the queue sees of an attempt.
LEMMA AttemptSteps ==
  ASSUME NEW w \in Workers, Attempt(w)
  PROVE  Queue!Commit(w) \/ Queue!Throw(w) \/ UNCHANGED queueVars
<1>1. ASSUME NEW answer, Post(w, answer) PROVE UNCHANGED queueVars
  BY <1>1 DEF Post
<1> QED
  BY <1>1 DEF Attempt, DeliverMissing, DeliverSettled, DeliverInactive, WriteDelivered, RetryLater,
              WriteExhausted

\* Whatever happens to the webhooks is a step of the queue or none.
LEMMA QueueStep ==
  ASSUME [Next]_vars
  PROVE  QueueNext
<1>1. ASSUME NEW s \in Subs, Merchant(s) PROVE QueueNext
  BY <1>1 DEF Merchant, CreateSubscription, PauseSubscription, EnableSubscription,
              DeleteSubscription, QueueNext
<1>2. ASSUME NEW d \in Deliveries, NEW new \in Deliveries, Redeliver(d, new) PROVE QueueNext
  BY <1>2 DEF Redeliver, QueueNext, Queue!Next
<1>3. CASE FanOut
  <2>1. PICK delivery \in [Active -> Fresh] : Queue!Enqueue(Range(delivery))
    BY <1>3 DEF FanOut
  <2>2. Range(delivery) \in SUBSET Deliveries
    BY DEF Range, Fresh
  <2> QED
    BY <2>1, <2>2 DEF QueueNext, Queue!Next
<1>4. ASSUME NEW w \in Workers, Attempt(w) PROVE QueueNext
  BY <1>4, AttemptSteps DEF QueueNext, Queue!Next, Queue!WorkerStep
<1>5. ASSUME NEW w \in Workers, Loop(w) PROVE QueueNext
  BY <1>5 DEF Loop, QueueNext, Queue!Next, Queue!WorkerStep
<1>6. ASSUME NEW w \in Workers, Fault(w) PROVE QueueNext
  BY <1>6 DEF Fault, QueueNext, Queue!Next
<1>7. ASSUME NEW d \in Deliveries, Queue!RetryJob(d) PROVE QueueNext
  BY <1>7 DEF QueueNext, Queue!Next
<1>8. CASE UNCHANGED vars
  BY <1>8 DEF vars, QueueNext
<1> QED
  BY <1>1, <1>2, <1>3, <1>4, <1>5, <1>6, <1>7, <1>8 DEF Next

\* Webhook jobs are jobs like any other: the specification of the queue is implemented.
THEOREM QueueImplemented == Spec => ImplementsQueue
<1>1. Init => Queue!Init
  BY DEF Init
<1>2. [Next]_vars => [Queue!Next]_queueVars
  BY QueueStep DEF QueueNext
<1> QED
  BY <1>1, <1>2, PTL DEF Spec, ImplementsQueue, Queue!Safety, Queue!vars, queueVars

----------------------------------------------------------------------------
(* The queue's part of the invariants: a worker never has a row that is    *)
(* not there, and while nobody has retried a job by hand one worker at     *)
(* most has it.                                                            *)

Holds(w, d) == Queue!Holds(w, d)

\* One worker at most has d in hand, and while it does nobody else can take d.
Claimed(d) ==
  \A w \in Workers : Holds(w, d) =>
    /\ jobs[d].status = "running"
    /\ \A v \in Workers : Holds(v, d) => v = w

QueueInv ==
  /\ Queue!TypeOK
  /\ \A w \in Workers, d \in Deliveries : workers[w].job = d => jobs[d].status # "absent"
  /\ \A d \in Deliveries : retries[d] = 0 => Claimed(d)

\* A step of the queue, with the worker named.
LEMMA QueueCases ==
  ASSUME QueueNext
  PROVE  \/ \E new \in SUBSET Deliveries : Queue!Enqueue(new)
         \/ \E w \in Workers :
              \/ Queue!Pick(w) \/ Queue!Claim(w) \/ Queue!LoseRace(w)
              \/ Queue!Commit(w) \/ Queue!Throw(w) \/ Queue!Slip(w)
              \/ Queue!CompleteJob(w) \/ Queue!FailJob(w) \/ Queue!Crash(w)
         \/ \E d \in Deliveries : Queue!RetryJob(d)
         \/ UNCHANGED queueVars
  BY DEF QueueNext, Queue!Next, Queue!WorkerStep, Queue!Fault

WorkerRows == [stage : Queue!Stages, job : Deliveries \cup {Null}, attempt : Nat]

\* A worker that goes on keeps its job.
LEMMA GoOn ==
  ASSUME Queue!TypeOK, NEW w \in Workers, NEW to \in {"ran", "failing"}, ~Queue!At(w, "idle"),
         Queue!GoTo(w, to)
  PROVE  /\ workers' \in [Workers -> WorkerRows]
         /\ workers'[w].stage = to /\ workers'[w].job = workers[w].job
         /\ workers[w].job \in Deliveries
         /\ workers'[w].attempt = workers[w].attempt
         /\ \A v \in Workers : v # w => workers'[v] = workers[v]
         /\ \A v \in Workers : Queue!At(v, "idle")' <=> workers'[v].job = Null
  BY DEF Queue!TypeOK, Queue!GoTo, Queue!At, Queue!Stages, WorkerRows

\* A worker that rests has no job any more.
LEMMA RestKeeps ==
  ASSUME Queue!TypeOK, NEW w \in Workers, Queue!Rest(w)
  PROVE  /\ workers' \in [Workers -> WorkerRows]
         /\ workers'[w] = Queue!Idle
         /\ workers'[w].stage = "idle" /\ workers'[w].job = Null
         /\ \A v \in Workers : v # w => workers'[v] = workers[v]
         /\ \A v \in Workers : Queue!At(v, "idle")' <=> workers'[v].job = Null
  BY DEF Queue!TypeOK, Queue!Rest, Queue!Idle, Queue!Stages, Queue!At, WorkerRows

LEMMA QueueTypeStep ==
  ASSUME Queue!TypeOK, QueueNext
  PROVE  Queue!TypeOK'
<1> USE WebhookConstants
    DEF WebhookConstants, Queue!TypeOK, Queue!JobStatus, Queue!Stages, Queue!At, WorkerRows
<1>1. ASSUME NEW new \in SUBSET Deliveries, Queue!Enqueue(new) PROVE Queue!TypeOK'
  BY <1>1 DEF Queue!Enqueue
<1>2. ASSUME NEW w \in Workers, Queue!Pick(w) \/ Queue!Claim(w) PROVE Queue!TypeOK'
  <2>1. CASE Queue!Pick(w)
    BY <2>1 DEF Queue!Pick
  <2>2. CASE Queue!Claim(w)
    BY <2>2 DEF Queue!Claim
  <2> QED
    BY <1>2, <2>1, <2>2
<1>3. ASSUME NEW w \in Workers,
             Queue!LoseRace(w) \/ Queue!Crash(w) \/ Queue!CompleteJob(w) \/ Queue!FailJob(w)
      PROVE  Queue!TypeOK'
  <2>1. Queue!Rest(w) /\ UNCHANGED <<commits, retries, slips>> /\ crashes' \in Nat
    BY <1>3 DEF Queue!LoseRace, Queue!Crash, Queue!CompleteJob, Queue!FailJob
  <2>2. jobs' \in [Deliveries -> [status : Queue!JobStatus, attempts : Nat]]
    BY <1>3 DEF Queue!LoseRace, Queue!Crash, Queue!CompleteJob, Queue!FailJob, Queue!SetStatus,
                Queue!AfterFailure
  <2> QED
    BY <2>1, <2>2, RestKeeps
<1>4. ASSUME NEW w \in Workers, Queue!Commit(w) \/ Queue!Throw(w) \/ Queue!Slip(w)
      PROVE  Queue!TypeOK'
  <2>1. /\ ~Queue!At(w, "idle") /\ UNCHANGED <<jobs, retries, crashes>>
        /\ \E to \in {"ran", "failing"} : Queue!GoTo(w, to)
        /\ commits' \in [Deliveries -> Nat] /\ slips' \in [Deliveries -> Nat]
    BY <1>4 DEF Queue!Commit, Queue!Throw, Queue!Slip
  <2> QED
    BY <2>1, GoOn
<1>5. ASSUME NEW d \in Deliveries, Queue!RetryJob(d) PROVE Queue!TypeOK'
  BY <1>5 DEF Queue!RetryJob
<1>6. CASE UNCHANGED queueVars
  BY <1>6 DEF queueVars
<1> QED
  BY <1>1, <1>2, <1>3, <1>4, <1>5, <1>6, QueueCases

\* A worker that lets go of its job, or of no job, disturbs no claim.
LEMMA RestClaimed ==
  ASSUME NEW w \in Workers, NEW d \in Deliveries, Claimed(d),
         workers'[w].stage = "idle",
         \A v \in Workers : v # w => workers'[v] = workers[v],
         jobs'[d].status = jobs[d].status \/ Holds(w, d)
  PROVE  Claimed(d)'
<1>1. \A v \in Workers : Holds(v, d)' => v # w /\ Holds(v, d)
  BY DEF Holds, Queue!Holds
<1> QED
  BY <1>1 DEF Claimed

LEMMA QueueInvStep ==
  ASSUME QueueInv, QueueNext
  PROVE  QueueInv'
<1>0. Queue!TypeOK /\ Queue!TypeOK'
  BY QueueTypeStep DEF QueueInv
<1>a. ASSUME NEW d \in Deliveries PROVE retries[d] = 0 => Claimed(d)
  BY DEF QueueInv
<1>b. ASSUME NEW w \in Workers, NEW d \in Deliveries, workers[w].job = d PROVE jobs[d].status # "absent"
  BY <1>b DEF QueueInv
<1>1. ASSUME NEW new \in SUBSET Deliveries, Queue!Enqueue(new) PROVE QueueInv'
  BY <1>1, <1>0, <1>a, <1>b DEF Queue!Enqueue, QueueInv, Claimed, Holds, Queue!Holds, Queue!TypeOK
<1>2. ASSUME NEW w \in Workers, Queue!Pick(w) PROVE QueueInv'
  BY <1>2, <1>0, <1>a, <1>b DEF Queue!Pick, QueueInv, Claimed, Holds, Queue!Holds, Queue!TypeOK
<1>3. ASSUME NEW w \in Workers, Queue!Claim(w) PROVE QueueInv'
  BY <1>3, <1>0, <1>a, <1>b DEF Queue!Claim, Queue!Claimable, Queue!At, QueueInv, Claimed, Holds,
     Queue!Holds, Queue!TypeOK
<1>4. ASSUME NEW w \in Workers,
             Queue!LoseRace(w) \/ Queue!Crash(w) \/ Queue!CompleteJob(w) \/ Queue!FailJob(w)
      PROVE  QueueInv'
  <2>1. Queue!Rest(w) /\ retries' = retries
    BY <1>4 DEF Queue!LoseRace, Queue!Crash, Queue!CompleteJob, Queue!FailJob
  <2>2. \A d \in Deliveries :
          /\ jobs[d].status # "absent" => jobs'[d].status # "absent"
          /\ jobs'[d].status = jobs[d].status \/ Holds(w, d)
    BY <1>4, <1>0 DEF Queue!LoseRace, Queue!Crash, Queue!CompleteJob, Queue!FailJob, Queue!SetStatus,
       Queue!AfterFailure, Queue!TypeOK, Queue!At, Holds, Queue!Holds
  <2> QED
    BY <2>1, <2>2, <1>0, <1>a, <1>b, RestKeeps, RestClaimed, WebhookConstants
       DEF WebhookConstants, QueueInv
<1>5. ASSUME NEW w \in Workers, Queue!Commit(w) \/ Queue!Throw(w) \/ Queue!Slip(w)
      PROVE  QueueInv'
  <2>1. /\ Queue!At(w, "running") \/ Queue!At(w, "ran")
        /\ UNCHANGED <<jobs, retries>> /\ \E to \in {"ran", "failing"} : Queue!GoTo(w, to)
    BY <1>5 DEF Queue!Commit, Queue!Throw, Queue!Slip
  <2>2. \A v \in Workers : workers'[v].job = workers[v].job
    BY <2>1, <1>0, GoOn DEF Queue!At
  <2>3. \A v \in Workers, d \in Deliveries : Holds(v, d)' => Holds(v, d)
    BY <2>1, <1>0, GoOn DEF Queue!At, Holds, Queue!Holds
  <2> QED
    BY <2>1, <2>2, <2>3, <1>0, <1>a, <1>b DEF QueueInv, Claimed
<1>6. ASSUME NEW d \in Deliveries, Queue!RetryJob(d) PROVE QueueInv'
  BY <1>6, <1>0, <1>a, <1>b DEF Queue!RetryJob, QueueInv, Claimed, Holds, Queue!Holds, Queue!TypeOK
<1>7. CASE UNCHANGED queueVars
  BY <1>7, <1>0, <1>a, <1>b DEF queueVars, QueueInv, Claimed, Holds, Queue!Holds
<1> QED
  BY <1>1, <1>2, <1>3, <1>4, <1>5, <1>6, <1>7, QueueCases

LEMMA QueueInvInit ==
  ASSUME Init
  PROVE  QueueInv
  BY WebhookConstants
     DEF WebhookConstants, Init, Queue!Init, Queue!Idle, QueueInv, Queue!TypeOK, Queue!JobStatus,
         Queue!Stages, Queue!At, Claimed, Holds, Queue!Holds

----------------------------------------------------------------------------
(* The webhooks' tables.                                                   *)

HookTypes ==
  /\ subs \in [Subs -> [status : SubStatus, streak : Nat]]
  /\ deliveries \in [Deliveries -> [status : DeliveryStatus, sub : Subs \cup {Null}]]
  /\ posts \in [Workers -> [streak : Nat, answer : {"none", "ok", "failed"}]]
  /\ \A w \in Workers : posts[w] # NoPost => workers[w].stage = "running"
  /\ accepted \in [Deliveries -> Nat]
  /\ lost \in [Deliveries -> Nat]
  /\ exhausted \in [Subs -> Nat]

\* A delivery and its job come together, and a delivery belongs to a subscription.
Paired ==
  \A d \in Deliveries :
    /\ deliveries[d].status = "absent" <=> jobs[d].status = "absent"
    /\ deliveries[d].status = "absent" <=> deliveries[d].sub = Null

TablesInv == QueueInv /\ HookTypes /\ Paired

\* New deliveries come pending, with their jobs.
Arrive(new) ==
  /\ new \in SUBSET Fresh
  /\ Queue!Enqueue(new)
  /\ deliveries' \in [Deliveries -> [status : DeliveryStatus, sub : Subs \cup {Null}]]
  /\ \A d \in new : deliveries'[d].status = "pending" /\ deliveries'[d].sub \in Subs
  /\ \A d \in Deliveries \ new : deliveries'[d] = deliveries[d]
  /\ UNCHANGED <<subs, posts, accepted, lost, exhausted, edits>>

LEMMA RedeliverArrives ==
  ASSUME TablesInv, NEW d \in Deliveries, NEW new \in Deliveries, Redeliver(d, new)
  PROVE  Arrive({new})
<1>1. deliveries[d].sub \in Subs
  BY DEF Redeliver, TablesInv, Paired, HookTypes
<1> QED
  BY <1>1 DEF Redeliver, Arrive, TablesInv, HookTypes, DeliveryStatus, Fresh

LEMMA FanOutArrives ==
  ASSUME TablesInv, FanOut
  PROVE  \E new : Arrive(new)
<1>1. PICK delivery \in [Active -> Fresh] :
        /\ deliveries' = [d \in Deliveries |->
             IF d \in Range(delivery)
             THEN [status |-> "pending", sub |-> CHOOSE s \in Active : delivery[s] = d]
             ELSE deliveries[d]]
        /\ Queue!Enqueue(Range(delivery))
  BY DEF FanOut
<1> DEFINE new == Range(delivery)
           owner(d) == CHOOSE s \in Active : delivery[s] = d
<1>2. new \in SUBSET Fresh /\ Fresh \subseteq Deliveries /\ Active \subseteq Subs
  BY DEF Range, Fresh, Active
<1>3. ASSUME NEW d \in new PROVE owner(d) \in Subs
  <2>1. \E s \in Active : delivery[s] = d
    BY DEF Range
  <2> QED
    BY <2>1, <1>2
<1>4. deliveries' = [d \in Deliveries |->
        IF d \in new THEN [status |-> "pending", sub |-> owner(d)] ELSE deliveries[d]]
  BY <1>1
<1> HIDE DEF new, owner
<1>5. /\ deliveries' \in [Deliveries -> [status : DeliveryStatus, sub : Subs \cup {Null}]]
      /\ \A d \in new : deliveries'[d].status = "pending" /\ deliveries'[d].sub \in Subs
      /\ \A d \in Deliveries \ new : deliveries'[d] = deliveries[d]
  BY <1>2, <1>3, <1>4 DEF TablesInv, HookTypes, DeliveryStatus
<1>6. Queue!Enqueue(new) /\ UNCHANGED <<subs, posts, accepted, lost, exhausted, edits>>
  BY <1>1 DEF new, FanOut
<1> QED
  BY <1>2, <1>5, <1>6 DEF Arrive

\* What the merchant does to the tables: deliveries may be deleted, the queue and the attempts go on.
Manage ==
  /\ UNCHANGED <<queueVars, posts, accepted, lost>>
  /\ subs' \in [Subs -> [status : SubStatus, streak : Nat]]
  /\ exhausted' \in [Subs -> Nat]
  /\ deliveries' \in [Deliveries -> [status : DeliveryStatus, sub : Subs \cup {Null}]]
  /\ \A d \in Deliveries :
       \/ deliveries'[d] = deliveries[d]
       \/ /\ deliveries[d].status # "absent" /\ deliveries'[d].status = "deleted"
          /\ deliveries'[d].sub = deliveries[d].sub

LEMMA MerchantManages ==
  ASSUME TablesInv, NEW s \in Subs, Merchant(s)
  PROVE  Manage
<1>1. CASE CreateSubscription(s) \/ PauseSubscription(s) \/ EnableSubscription(s)
  BY <1>1 DEF CreateSubscription, PauseSubscription, EnableSubscription, Manage, TablesInv, HookTypes,
              SubStatus
<1>2. CASE DeleteSubscription(s)
  BY <1>2, WebhookConstants DEF WebhookConstants, DeleteSubscription, Manage, TablesInv, HookTypes,
              Paired, SubStatus, DeliveryStatus
<1> QED
  BY <1>1, <1>2 DEF Merchant

\* The steps of the system, as far as the tables are concerned.
LEMMA HookCases ==
  ASSUME TablesInv, [Next]_vars
  PROVE  \/ Manage
         \/ \E new : Arrive(new)
         \/ \E w \in Workers : Attempt(w) \/ Loop(w) \/ Fault(w)
         \/ \E d \in Deliveries : Queue!RetryJob(d) /\ UNCHANGED hookVars
         \/ UNCHANGED vars
  BY MerchantManages, RedeliverArrives, FanOutArrives DEF Next

\* Only a worker's own steps touch its stage.
LEMMA LoopStages ==
  ASSUME QueueInv, NEW w \in Workers, Loop(w)
  PROVE  /\ \A v \in Workers : workers[v].stage = "running" => workers'[v].stage = "running"
         /\ \A v \in Workers : v # w => workers'[v] = workers[v]
  BY DEF Loop, Queue!Pick, Queue!Claim, Queue!LoseRace, Queue!CompleteJob, Queue!FailJob, Queue!Rest,
         Queue!At, QueueInv, Queue!TypeOK

LEMMA EndStages ==
  ASSUME QueueInv, NEW w \in Workers, Queue!Commit(w) \/ Queue!Throw(w) \/ Queue!Fault(w)
  PROVE  \A v \in Workers : v # w => workers'[v] = workers[v]
  BY DEF Queue!Commit, Queue!Throw, Queue!Fault, Queue!Slip, Queue!Crash, Queue!GoTo, Queue!Rest,
         QueueInv, Queue!TypeOK

LEMMA HookTypesStep ==
  ASSUME TablesInv, [Next]_vars
  PROVE  HookTypes'
<1>0. HookTypes /\ QueueInv
  BY DEF TablesInv
<1>1. CASE Manage
  BY <1>0, <1>1 DEF Manage, HookTypes, queueVars
<1>2. ASSUME NEW new, Arrive(new) PROVE HookTypes'
  BY <1>0, <1>2 DEF Arrive, Queue!Enqueue, HookTypes
<1>3. ASSUME NEW w \in Workers, Attempt(w) PROVE HookTypes'
  <2>1. CASE DeliverMissing(w) \/ DeliverSettled(w)
    <3>1. UNCHANGED hookVars /\ posts[w] = NoPost /\ (Queue!Commit(w) \/ Queue!Throw(w))
      BY <2>1 DEF DeliverMissing, DeliverSettled, Starts
    <3> QED
      BY <3>1, <1>0, EndStages DEF HookTypes, hookVars
  <2>2. CASE DeliverInactive(w)
    <3>1. /\ UNCHANGED <<subs, posts, accepted, lost, exhausted>>
          /\ posts[w] = NoPost /\ Queue!Commit(w)
          /\ deliveries' \in [Deliveries -> [status : DeliveryStatus, sub : Subs \cup {Null}]]
      BY <2>2, <1>0 DEF DeliverInactive, Starts, HookTypes, DeliveryStatus
    <3> QED
      BY <3>1, <1>0, EndStages DEF HookTypes
  <2>3. ASSUME NEW answer \in {"ok", "failed"}, Post(w, answer) PROVE HookTypes'
    BY <2>3, <1>0 DEF Post, Starts, Active, HookTypes, queueVars
  <2>4. CASE WriteDelivered(w) \/ RetryLater(w) \/ WriteExhausted(w)
    <3>1. /\ posts' = [posts EXCEPT ![w] = NoPost] /\ UNCHANGED <<accepted, lost>>
          /\ Queue!Commit(w) \/ Queue!Throw(w)
      BY <2>4 DEF WriteDelivered, RetryLater, WriteExhausted
    <3>2. /\ posts' \in [Workers -> [streak : Nat, answer : {"none", "ok", "failed"}]]
          /\ \A v \in Workers : posts'[v] # NoPost => v # w /\ posts[v] # NoPost
      BY <3>1, <1>0 DEF HookTypes, NoPost
    <3>3. deliveries' \in [Deliveries -> [status : DeliveryStatus, sub : Subs \cup {Null}]]
      <4>1. ASSUME NEW to \in DeliveryStatus, Write(w, to)
            PROVE  deliveries' \in [Deliveries -> [status : DeliveryStatus, sub : Subs \cup {Null}]]
        BY <4>1, <1>0 DEF Write, HookTypes
      <4>2. {"delivered", "dead"} \subseteq DeliveryStatus
        BY DEF DeliveryStatus
      <4> QED
        BY <2>4, <4>1, <4>2, <1>0 DEF WriteDelivered, RetryLater, WriteExhausted, HookTypes
    <3>4. subs' \in [Subs -> [status : SubStatus, streak : Nat]]
      <4>1. ASSUME NEW s, NEW row, subs' = [subs EXCEPT ![s] = row],
                   s \in Subs => row \in [status : SubStatus, streak : Nat]
            PROVE  subs' \in [Subs -> [status : SubStatus, streak : Nat]]
        BY <4>1, <1>0 DEF HookTypes
      <4>2. ASSUME NEW s \in Subs
            PROVE  Counted(s, posts[w].streak + 1) \in [status : SubStatus, streak : Nat]
        BY <1>0 DEF Counted, HookTypes, SubStatus
      <4>3. CASE WriteDelivered(w)
        BY <4>3, <1>0 DEF WriteDelivered, HookTypes
      <4>4. CASE WriteExhausted(w)
        BY <4>1, <4>2, <4>4 DEF WriteExhausted
      <4>5. CASE RetryLater(w)
        BY <4>5, <1>0 DEF RetryLater, HookTypes
      <4> QED
        BY <2>4, <4>3, <4>4, <4>5
    <3>5. exhausted' \in [Subs -> Nat]
      BY <2>4, <1>0 DEF WriteDelivered, RetryLater, WriteExhausted, HookTypes
    <3> QED
      BY <3>1, <3>2, <3>3, <3>4, <3>5, <1>0, EndStages DEF HookTypes
  <2> QED
    BY <1>3, <2>1, <2>2, <2>3, <2>4 DEF Attempt
<1>4. ASSUME NEW w \in Workers, Loop(w) PROVE HookTypes'
  BY <1>4, <1>0, LoopStages DEF Loop, hookVars, HookTypes
<1>5. ASSUME NEW w \in Workers, Fault(w) PROVE HookTypes'
  <2>1. /\ posts' \in [Workers -> [streak : Nat, answer : {"none", "ok", "failed"}]]
        /\ \A v \in Workers : posts'[v] # NoPost => v # w /\ posts[v] # NoPost
    BY <1>5, <1>0 DEF Fault, HookTypes, NoPost
  <2> QED
    BY <2>1, <1>5, <1>0, EndStages DEF Fault, HookTypes
<1>6. ASSUME NEW d \in Deliveries, Queue!RetryJob(d), UNCHANGED hookVars PROVE HookTypes'
  BY <1>6, <1>0 DEF Queue!RetryJob, hookVars, HookTypes
<1>7. CASE UNCHANGED vars
  BY <1>7, <1>0 DEF vars, queueVars, hookVars, HookTypes
<1> QED
  BY <1>1, <1>2, <1>3, <1>4, <1>5, <1>6, <1>7, HookCases

\* What an attempt does to the deliveries: none, or the one in hand is settled.
LEMMA AttemptRows ==
  ASSUME TablesInv, NEW w \in Workers, Attempt(w)
  PROVE  /\ workers[w].job \in Deliveries /\ UNCHANGED jobs
         /\ \A d \in Deliveries :
              \/ deliveries'[d] = deliveries[d]
              \/ /\ d = workers[w].job /\ deliveries[d].status \notin {"absent", "deleted"}
                 /\ deliveries'[d].status \in {"delivered", "dead"}
                 /\ deliveries'[d].sub = deliveries[d].sub
<1>0. HookTypes /\ QueueInv /\ Paired /\ Queue!TypeOK
  BY DEF TablesInv, QueueInv
<1>1. workers[w].stage = "running"
  BY DEF Attempt, DeliverMissing, DeliverSettled, DeliverInactive, Post, WriteDelivered, RetryLater,
         WriteExhausted, Starts, Posted
<1>2. workers[w].job \in Deliveries
  BY <1>0, <1>1, WebhookConstants DEF WebhookConstants, Queue!TypeOK, Queue!At
<1>3. deliveries[workers[w].job].status # "absent"
  BY <1>0, <1>2 DEF QueueInv, Paired
<1>4. UNCHANGED jobs
  BY AttemptSteps DEF Queue!Commit, Queue!Throw, queueVars
<1>5. CASE UNCHANGED deliveries
  BY <1>2, <1>4, <1>5
<1>6. CASE DeliverInactive(w) \/ WriteDelivered(w) \/ WriteExhausted(w)
  BY <1>0, <1>2, <1>3, <1>4, <1>6 DEF DeliverInactive, Starts, WriteDelivered, WriteExhausted, Write, HookTypes
<1>7. UNCHANGED deliveries \/ DeliverInactive(w) \/ WriteDelivered(w) \/ WriteExhausted(w)
  BY DEF Attempt, DeliverMissing, DeliverSettled, Post, RetryLater, hookVars
<1> QED
  BY <1>5, <1>6, <1>7

LEMMA PairedStep ==
  ASSUME TablesInv, [Next]_vars
  PROVE  Paired'
<1>0. HookTypes /\ QueueInv /\ Paired /\ Queue!TypeOK
  BY DEF TablesInv, QueueInv
<1> SUFFICES ASSUME NEW d \in Deliveries
             PROVE  /\ deliveries'[d].status = "absent" <=> jobs'[d].status = "absent"
                    /\ deliveries'[d].status = "absent" <=> deliveries'[d].sub = Null
  BY DEF Paired
<1> DEFINE Goal == /\ deliveries'[d].status = "absent" <=> jobs'[d].status = "absent"
                   /\ deliveries'[d].status = "absent" <=> deliveries'[d].sub = Null
<1>a. /\ deliveries[d].status = "absent" <=> jobs[d].status = "absent"
      /\ deliveries[d].status = "absent" <=> deliveries[d].sub = Null
  BY <1>0 DEF Paired
<1>1. CASE Manage
  BY <1>a, <1>1 DEF Manage, queueVars
<1>2. ASSUME NEW new, Arrive(new) PROVE Goal
  BY <1>a, <1>2, WebhookConstants DEF WebhookConstants, Arrive, Queue!Enqueue, Fresh
<1>3. ASSUME NEW w \in Workers, Attempt(w) PROVE Goal
  BY <1>a, <1>3, AttemptRows
<1>4. ASSUME NEW w \in Workers, Loop(w) \/ Fault(w) PROVE Goal
  <2>1. deliveries' = deliveries
    BY <1>4 DEF Loop, Fault, hookVars
  <2>2. jobs'[d].status = "absent" <=> jobs[d].status = "absent"
    <3>1. UNCHANGED jobs \/ Queue!Claim(w) \/ Queue!CompleteJob(w) \/ Queue!FailJob(w)
      BY <1>4 DEF Loop, Fault, Queue!Fault, Queue!Pick, Queue!LoseRace, Queue!Slip, Queue!Crash
    <3>2. workers[w].stage # "idle" => jobs[workers[w].job].status # "absent" /\ workers[w].job \in Deliveries
      BY <1>0, WebhookConstants DEF WebhookConstants, QueueInv, Queue!TypeOK, Queue!At
    <3>3. CASE Queue!Claim(w)
      BY <1>0, <3>2, <3>3 DEF Queue!Claim, Queue!At, Queue!TypeOK
    <3>4. CASE Queue!CompleteJob(w) \/ Queue!FailJob(w)
      BY <1>0, <3>2, <3>4 DEF Queue!CompleteJob, Queue!FailJob, Queue!SetStatus, Queue!AfterFailure, Queue!At, Queue!TypeOK
    <3> QED
      BY <3>1, <3>3, <3>4
  <2> QED
    BY <1>a, <2>1, <2>2
<1>5. ASSUME NEW e \in Deliveries, Queue!RetryJob(e), UNCHANGED hookVars PROVE Goal
  BY <1>0, <1>a, <1>5 DEF Queue!RetryJob, Queue!TypeOK, hookVars
<1>6. CASE UNCHANGED vars
  BY <1>a, <1>6 DEF vars, queueVars, hookVars
<1> QED
  BY <1>1, <1>2, <1>3, <1>4, <1>5, <1>6, HookCases

LEMMA TablesStep ==
  ASSUME TablesInv, [Next]_vars
  PROVE  TablesInv'
  BY QueueStep, QueueInvStep, HookTypesStep, PairedStep DEF TablesInv

LEMMA TablesInit ==
  ASSUME Init
  PROVE  TablesInv
  BY QueueInvInit, WebhookConstants
     DEF WebhookConstants, Init, Queue!Init, TablesInv, HookTypes, Paired, SubStatus, DeliveryStatus, NoPost

LEMMA TablesCorrect == Spec => []TablesInv
<1>1. Init => TablesInv
  BY TablesInit
<1>2. TablesInv /\ [Next]_vars => TablesInv'
  BY TablesStep
<1> QED
  BY <1>1, <1>2, PTL DEF Spec

\* Every row has the shape of its table, and a worker has posted only inside an attempt.
THEOREM TypeCorrect == Spec => []TypeOK
<1>1. TablesInv => TypeOK
  BY DEF TablesInv, QueueInv, HookTypes, TypeOK
<1> QED
  BY <1>1, TablesCorrect, PTL

----------------------------------------------------------------------------
(* No delivery is forgotten.  A job ends only when its delivery waits no   *)
(* more: what ties the two together is the copy of the attempt number that *)
(* the worker carries.                                                     *)

Waits(d) == deliveries[d].status = "pending"

\* The worker has thrown before the last attempt, unless an error or the delivery's end made it.
Carries(w) ==
  LET d == workers[w].job
  IN  /\ workers[w].stage = "ran" => ~Waits(d)
      /\ workers[w].stage = "failing" => ~Waits(d) \/ slips[d] > 0 \/ workers[w].attempt < MaxAttempts

WaitInv ==
  /\ \A w \in Workers : Carries(w)
  /\ \A d \in Deliveries :
       Waits(d) => jobs[d].status # "done" /\ (jobs[d].status = "dead" => slips[d] > 0)

\* Deliveries that do not begin to wait, and errors that are not forgotten, keep what a worker
\* that goes on carries.
LEMMA CarriesOn ==
  ASSUME TablesInv, NEW w \in Workers, Carries(w), workers'[w] = workers[w],
         \A d \in Deliveries : Waits(d)' => Waits(d) \/ jobs[d].status = "absent",
         \A d \in Deliveries : slips[d] > 0 => slips'[d] > 0
  PROVE  Carries(w)'
<1>1. workers[w].stage \in {"ran", "failing"} =>
        workers[w].job \in Deliveries /\ jobs[workers[w].job].status # "absent"
  BY WebhookConstants DEF WebhookConstants, TablesInv, QueueInv, Queue!TypeOK, Queue!At
<1> QED
  BY <1>1 DEF Carries

LEMMA WaitStep ==
  ASSUME TablesInv, WaitInv, [Next]_vars
  PROVE  WaitInv'
<1>0. HookTypes /\ QueueInv /\ Paired /\ Queue!TypeOK
  BY DEF TablesInv, QueueInv
<1>a. \A w \in Workers : Carries(w)
  BY DEF WaitInv
<1>b. ASSUME NEW d \in Deliveries, Waits(d)
      PROVE  jobs[d].status # "done" /\ (jobs[d].status = "dead" => slips[d] > 0)
  BY <1>b DEF WaitInv
<1>1. CASE Manage
  <2>1. UNCHANGED <<jobs, workers, slips>> /\ \A d \in Deliveries : Waits(d)' => Waits(d)
    BY <1>1 DEF Manage, queueVars, Waits
  <2> QED
    BY <2>1, <1>a, <1>b, CarriesOn DEF WaitInv
<1>2. ASSUME NEW new, Arrive(new) PROVE WaitInv'
  <2>1. /\ UNCHANGED <<workers, slips>>
        /\ \A d \in Deliveries : Waits(d)' => Waits(d) \/ jobs[d].status = "absent"
        /\ \A d \in Deliveries : jobs'[d] = jobs[d] \/ jobs'[d].status = "queued"
    BY <1>2 DEF Arrive, Queue!Enqueue, Waits
  <2>2. \A d \in Deliveries : Waits(d)' /\ jobs'[d] = jobs[d] => Waits(d)
    BY <1>2, <1>0 DEF Arrive, Queue!Enqueue, Waits
  <2> QED
    BY <2>1, <2>2, <1>a, <1>b, CarriesOn DEF WaitInv
<1>3. ASSUME NEW w \in Workers, Attempt(w) PROVE WaitInv'
  <2> DEFINE d == workers[w].job
  <2>1. /\ d \in Deliveries /\ UNCHANGED jobs
        /\ \A e \in Deliveries : Waits(e)' => Waits(e)
    BY <1>3, AttemptRows DEF Waits
  <2>2. UNCHANGED slips /\ \A v \in Workers : v # w => workers'[v] = workers[v]
    BY <1>3, <1>0, AttemptSteps, EndStages DEF Queue!Commit, Queue!Throw, queueVars
  <2>3. \A v \in Workers : v # w => Carries(v)'
    BY <2>1, <2>2, <1>a, CarriesOn
  <2>4. Carries(w)'
    <3>1. ASSUME NEW answer, Post(w, answer) PROVE Carries(w)'
      BY <3>1, <2>1, <2>2, <1>a, CarriesOn DEF Post, queueVars
    <3>2. CASE DeliverMissing(w) \/ DeliverSettled(w)
      <4>1. ~Waits(d) /\ UNCHANGED deliveries /\ (Queue!Commit(w) \/ Queue!Throw(w))
        BY <3>2 DEF DeliverMissing, DeliverSettled, Starts, Settled, Waits, hookVars
      <4>2. workers'[w].job = d
        BY <4>1, <1>0, GoOn DEF Queue!Commit, Queue!Throw, Queue!At
      <4> QED
        BY <4>1, <4>2 DEF Carries, Waits
    <3>3. CASE DeliverInactive(w) \/ WriteDelivered(w) \/ WriteExhausted(w)
      <4>1. Queue!Commit(w)
        BY <3>3 DEF DeliverInactive, WriteDelivered, WriteExhausted
      <4>2. workers'[w].job = d
        BY <4>1, <1>0, GoOn DEF Queue!Commit, Queue!At
      <4>3. deliveries'[d].status # "pending"
        BY <3>3, <2>1, <1>0 DEF DeliverInactive, Starts, WriteDelivered, WriteExhausted, Write, HookTypes
      <4> QED
        BY <4>2, <4>3 DEF Carries, Waits
    <3>4. CASE RetryLater(w)
      <4>1. Queue!Throw(w) /\ ~Final(w)
        BY <3>4 DEF RetryLater
      <4>2. workers'[w].job = d /\ workers'[w].stage = "failing" /\ workers'[w].attempt = workers[w].attempt
        BY <4>1, <1>0, GoOn DEF Queue!Throw, Queue!At
      <4>3. workers[w].attempt < MaxAttempts
        BY <4>1, <1>0, WebhookConstants DEF WebhookConstants, Final, Queue!TypeOK
      <4> QED
        BY <4>2, <4>3 DEF Carries
    <3> QED
      BY <1>3, <3>1, <3>2, <3>3, <3>4 DEF Attempt
  <2> QED
    BY <2>1, <2>2, <2>3, <2>4, <1>b DEF WaitInv
<1>4. ASSUME NEW w \in Workers, Loop(w) PROVE WaitInv'
  <2>1. /\ UNCHANGED <<deliveries, slips>> /\ \A d \in Deliveries : Waits(d)' <=> Waits(d)
        /\ \A v \in Workers : v # w => workers'[v] = workers[v]
    BY <1>4, <1>0, LoopStages DEF Loop, hookVars, Waits, Queue!Pick, Queue!Claim, Queue!LoseRace,
       Queue!CompleteJob, Queue!FailJob
  <2>2. \A v \in Workers : v # w => Carries(v)'
    BY <2>1, <1>a, CarriesOn
  <2>3. workers'[w].stage \notin {"ran", "failing"}
    BY <1>4, <1>0 DEF Loop, Queue!Pick, Queue!Claim, Queue!LoseRace, Queue!CompleteJob, Queue!FailJob,
       Queue!Rest, Queue!Idle, Queue!TypeOK
  <2>4. ASSUME NEW d \in Deliveries, Waits(d)'
        PROVE  jobs'[d].status # "done" /\ (jobs'[d].status = "dead" => slips'[d] > 0)
    <3>0. Waits(d) /\ UNCHANGED slips
      BY <2>1, <2>4
    <3>1. CASE Queue!CompleteJob(w)
      <4>1. workers[w].job # d
        BY <3>0, <3>1, <1>a DEF Carries, Queue!CompleteJob, Queue!At
      <4> QED
        BY <3>0, <3>1, <4>1, <1>b, <1>0 DEF Queue!CompleteJob, Queue!SetStatus, Queue!TypeOK
    <3>2. CASE Queue!FailJob(w)
      <4>1. CASE workers[w].job = d
        <5>1. slips[d] > 0 \/ workers[w].attempt < MaxAttempts
          BY <3>0, <3>2, <4>1, <1>a DEF Carries, Queue!FailJob, Queue!At
        <5>2. jobs'[d].status = Queue!AfterFailure(workers[w].attempt)
          BY <3>2, <4>1, <1>0 DEF Queue!FailJob, Queue!SetStatus, Queue!TypeOK
        <5>3. workers[w].attempt \in Nat /\ MaxAttempts \in Nat
          BY <1>0, WebhookConstants DEF WebhookConstants, Queue!TypeOK
        <5> QED
          BY <3>0, <5>1, <5>2, <5>3 DEF Queue!AfterFailure
      <4>2. CASE workers[w].job # d
        BY <3>0, <3>2, <4>2, <1>b, <1>0 DEF Queue!FailJob, Queue!SetStatus, Queue!TypeOK
      <4> QED
        BY <4>1, <4>2
    <3>3. CASE Queue!Claim(w)
      BY <3>0, <3>3, <1>b, <1>0 DEF Queue!Claim, Queue!TypeOK
    <3>4. CASE UNCHANGED jobs
      BY <3>0, <3>4, <1>b
    <3> QED
      BY <1>4, <3>1, <3>2, <3>3, <3>4 DEF Loop, Queue!Pick, Queue!LoseRace
  <2> QED
    BY <2>2, <2>3, <2>4 DEF WaitInv, Carries
<1>5. ASSUME NEW w \in Workers, Fault(w) PROVE WaitInv'
  <2>1. UNCHANGED <<jobs, deliveries>> /\ \A d \in Deliveries : Waits(d)' <=> Waits(d)
    BY <1>5 DEF Fault, Queue!Fault, Queue!Slip, Queue!Crash, Waits
  <2>2. \A v \in Workers : v # w => workers'[v] = workers[v]
    BY <1>5, <1>0, EndStages DEF Fault
  <2>3. \A d \in Deliveries : slips[d] > 0 => slips'[d] > 0
    BY <1>5, <1>0 DEF Fault, Queue!Fault, Queue!Slip, Queue!Crash, Queue!TypeOK
  <2>4. \A v \in Workers : v # w => Carries(v)'
    BY <2>1, <2>2, <2>3, <1>a, CarriesOn
  <2>5. Carries(w)'
    <3>1. CASE Queue!Slip(w)
      <4>1. /\ workers[w].job \in Deliveries /\ workers'[w].job = workers[w].job
            /\ workers'[w].stage = "failing"
        BY <3>1, <1>0, GoOn DEF Queue!Slip, Queue!At
      <4>2. slips'[workers[w].job] > 0
        BY <3>1, <4>1, <1>0 DEF Queue!Slip, Queue!TypeOK
      <4> QED
        BY <4>1, <4>2 DEF Carries
    <3>2. CASE Queue!Crash(w)
      BY <3>2, <1>0, RestKeeps DEF Queue!Crash, Carries
    <3> QED
      BY <1>5, <3>1, <3>2 DEF Fault, Queue!Fault
  <2> QED
    BY <2>1, <2>3, <2>4, <2>5, <1>b DEF WaitInv
<1>6. ASSUME NEW d \in Deliveries, Queue!RetryJob(d), UNCHANGED hookVars PROVE WaitInv'
  <2>1. /\ UNCHANGED <<workers, slips, deliveries>> /\ \A e \in Deliveries : Waits(e)' <=> Waits(e)
        /\ \A e \in Deliveries : jobs'[e] = jobs[e] \/ jobs'[e].status = "queued"
    BY <1>6, <1>0 DEF Queue!RetryJob, hookVars, Waits, Queue!TypeOK
  <2> QED
    BY <2>1, <1>a, <1>b, CarriesOn DEF WaitInv
<1>7. CASE UNCHANGED vars
  BY <1>7, <1>a, <1>b DEF vars, queueVars, hookVars, WaitInv, Carries, Waits
<1> QED
  BY <1>1, <1>2, <1>3, <1>4, <1>5, <1>6, <1>7, HookCases

\* No path through deliver(), the queue or an admin's retry lets a job end while its delivery waits.
THEOREM PendingHasJobCorrect == Spec => []PendingHasJob
<1>1. Init => WaitInv
  BY DEF Init, Queue!Init, Queue!Idle, WaitInv, Carries, Waits
<1>2. TablesInv /\ WaitInv /\ [Next]_vars => WaitInv'
  BY WaitStep
<1>3. TablesInv /\ WaitInv => PendingHasJob
  BY DEF TablesInv, QueueInv, Queue!TypeOK, Queue!JobStatus, Paired, WaitInv, Waits, PendingHasJob
<1> QED
  BY <1>1, <1>2, <1>3, TablesCorrect, PTL DEF Spec

----------------------------------------------------------------------------
(* What the endpoint hears.  While nobody has retried the job by hand, the *)
(* record of an accepted post is either written, or on its way, or lost.   *)

Posting(w, d) == workers[w].job = d /\ posts[w] # NoPost

Recorded(d) ==
  /\ \A w \in Workers : Posting(w, d) => deliveries[d].status \in {"pending", "deleted"}
  /\ accepted[d] <= lost[d] + 1
  /\ accepted[d] > lost[d] =>
       \/ deliveries[d].status \in {"delivered", "deleted"}
       \/ \E w \in Workers : Posting(w, d) /\ posts[w].answer = "ok"

AnswerInv == \A d \in Deliveries : retries[d] = 0 => Recorded(d)

\* Of a job that nobody retried, only the worker that holds it can have posted.
LEMMA SolePoster ==
  ASSUME TablesInv, NEW w \in Workers, NEW v \in Workers, NEW d \in Deliveries, retries[d] = 0,
         workers[w].stage = "running", workers[w].job = d, Posting(v, d)
  PROVE  v = w
  BY DEF TablesInv, QueueInv, HookTypes, Claimed, Holds, Queue!Holds, Posting

\* No step but an attempt's or a fault's, and no attempt on another delivery, changes what is known
\* of a delivery.
LEMMA RecordedElsewhere ==
  ASSUME TablesInv, NEW d \in Deliveries, Recorded(d),
         accepted'[d] = accepted[d], lost'[d] = lost[d],
         \/ deliveries'[d].status = deliveries[d].status
         \/ deliveries'[d].status = "deleted",
         \A w \in Workers : Posting(w, d) => posts'[w] = posts[w] /\ workers'[w].job = d,
         \A w \in Workers : Posting(w, d)' => Posting(w, d)
  PROVE  Recorded(d)'
<1>1. \A w \in Workers : Posting(w, d) /\ posts[w].answer = "ok"
        => Posting(w, d)' /\ posts'[w].answer = "ok"
  BY DEF Posting
<1> QED
  BY <1>1 DEF Recorded

\* An attempt on d itself.
LEMMA AttemptRecorded ==
  ASSUME TablesInv, NEW w \in Workers, Attempt(w), retries[workers[w].job] = 0,
         Recorded(workers[w].job), workers[w].job \in Deliveries
  PROVE  Recorded(workers[w].job)'
<1> DEFINE d == workers[w].job
<1>0. HookTypes /\ QueueInv /\ Queue!TypeOK /\ d \in Deliveries
  BY DEF TablesInv, QueueInv
<1>1. workers[w].stage = "running"
  BY DEF Attempt, DeliverMissing, DeliverSettled, DeliverInactive, Post, WriteDelivered, RetryLater,
         WriteExhausted, Starts, Posted
<1>2. \A v \in Workers : Posting(v, d) => v = w
  BY <1>0, <1>1, SolePoster
<1>3. \A v \in Workers : v # w => workers'[v] = workers[v]
  BY <1>0, AttemptSteps, EndStages DEF queueVars
<1>4. workers'[w].job = d
  BY <1>0, <1>1, AttemptSteps, GoOn DEF Queue!Commit, Queue!Throw, Queue!At, queueVars
<1>5. CASE DeliverMissing(w) \/ DeliverSettled(w)
  <2>1. UNCHANGED hookVars
    BY <1>5 DEF DeliverMissing, DeliverSettled
  <2>2. \A v \in Workers : Posting(v, d)' <=> Posting(v, d)
    BY <2>1, <1>3, <1>4 DEF Posting, hookVars
  <2> QED
    BY <2>1, <2>2, <1>4 DEF Recorded, hookVars
<1> SUFFICES ASSUME ~DeliverMissing(w), ~DeliverSettled(w)
             PROVE  /\ \A v \in Workers : workers'[v].job = d /\ posts'[v] # NoPost
                         => deliveries'[d].status \in {"pending", "deleted"}
                    /\ accepted'[d] <= lost'[d] + 1
                    /\ accepted'[d] > lost'[d] =>
                         \/ deliveries'[d].status \in {"delivered", "deleted"}
                         \/ \E v \in Workers : workers'[v].job = d /\ posts'[v].answer = "ok" /\ posts'[v] # NoPost
  BY <1>4, <1>5 DEF Recorded, Posting
<1>6. CASE DeliverInactive(w)
  <2>1. /\ posts[w] = NoPost /\ Waits(d) /\ UNCHANGED <<posts, accepted, lost>>
    BY <1>6 DEF DeliverInactive, Starts, Waits
  <2>2. \A v \in Workers : ~Posting(v, d)
    BY <2>1, <1>2 DEF Posting
  <2>3. accepted[d] <= lost[d]
    BY <2>1, <2>2, <1>0 DEF Recorded, Waits, HookTypes
  <2>4. \A v \in Workers : ~(workers'[v].job = d /\ posts'[v] # NoPost)
    BY <2>1, <2>2, <1>3, <1>4 DEF Posting
  <2> QED
    BY <2>1, <2>3, <2>4, <1>0 DEF HookTypes
<1>7. ASSUME NEW answer \in {"ok", "failed"}, Post(w, answer)
      PROVE  /\ \A v \in Workers : workers'[v].job = d /\ posts'[v] # NoPost
                         => deliveries'[d].status \in {"pending", "deleted"}
             /\ accepted'[d] <= lost'[d] + 1
             /\ accepted'[d] > lost'[d] =>
                  \E v \in Workers : workers'[v].job = d /\ posts'[v].answer = "ok" /\ posts'[v] # NoPost
  <2>1. /\ posts[w] = NoPost /\ UNCHANGED <<deliveries, lost>>
        /\ deliveries[d].status \notin {"delivered", "dead", "deleted"} /\ deliveries[d].sub \in Subs
    BY <1>7 DEF Post, Starts, Settled, Active
  <2>2. Waits(d)
    BY <2>1, <1>0, WebhookConstants DEF WebhookConstants, TablesInv, Paired, HookTypes, DeliveryStatus, Waits
  <2>3. \A v \in Workers : ~Posting(v, d)
    BY <2>1, <1>2 DEF Posting
  <2>4. accepted[d] <= lost[d]
    BY <2>2, <2>3, <1>0 DEF Recorded, Waits, HookTypes
  <2>5. /\ accepted'[d] = IF answer = "ok" THEN accepted[d] + 1 ELSE accepted[d]
        /\ posts'[w].answer = answer
    BY <1>7, <1>0 DEF Post, Starts, HookTypes
  <2> QED
    BY <2>1, <2>2, <2>4, <2>5, <1>0, <1>4 DEF HookTypes, Waits, NoPost
<1>8. CASE WriteDelivered(w) \/ RetryLater(w) \/ WriteExhausted(w)
  <2>1. /\ Posting(w, d) /\ posts' = [posts EXCEPT ![w] = NoPost] /\ UNCHANGED <<accepted, lost>>
        /\ posts[w].answer = "ok" <=> WriteDelivered(w)
    BY <1>8 DEF WriteDelivered, RetryLater, WriteExhausted, Posted, Posting, NoPost
  <2>2. deliveries[d].status \in {"pending", "deleted"}
    BY <2>1 DEF Recorded
  <2>3. \A v \in Workers : ~(workers'[v].job = d /\ posts'[v] # NoPost)
    BY <2>1, <1>0, <1>2, <1>3 DEF Posting, HookTypes
  <2>4. WriteDelivered(w) => deliveries'[d].status \in {"delivered", "deleted"}
    BY <2>2, <1>0 DEF WriteDelivered, Write, HookTypes
  <2>5. deliveries[d].status = "deleted" => deliveries'[d].status = "deleted"
    BY <1>8, <1>0 DEF WriteDelivered, RetryLater, WriteExhausted, Write, HookTypes
  <2>6. ~WriteDelivered(w) /\ accepted[d] > lost[d] => deliveries[d].status = "deleted"
    BY <2>1, <2>2, <1>2 DEF Recorded
  <2>7. accepted[d] <= lost[d] + 1
    BY DEF Recorded
  <2> QED
    BY <2>1, <2>3, <2>4, <2>5, <2>6, <2>7
<1> QED
  BY <1>6, <1>7, <1>8 DEF Attempt

LEMMA AnswerStep ==
  ASSUME TablesInv, AnswerInv, [Next]_vars
  PROVE  AnswerInv'
<1>0. HookTypes /\ QueueInv /\ Paired /\ Queue!TypeOK
  BY DEF TablesInv, QueueInv
<1> SUFFICES ASSUME NEW d \in Deliveries, retries'[d] = 0 PROVE Recorded(d)'
  BY DEF AnswerInv
<1>1. CASE Manage
  BY <1>1, RecordedElsewhere DEF AnswerInv, Manage, queueVars, Posting
<1>2. ASSUME NEW new, Arrive(new) PROVE Recorded(d)'
  <2>1. Recorded(d) /\ UNCHANGED <<workers, posts, accepted, lost>>
    BY <1>2 DEF Arrive, Queue!Enqueue, AnswerInv
  <2>2. CASE d \in new
    <3>1. jobs[d].status = "absent" /\ deliveries[d].status = "absent"
      BY <1>2, <2>2 DEF Arrive, Queue!Enqueue, Fresh
    <3>2. \A w \in Workers : ~Posting(w, d)
      BY <3>1, <1>0 DEF QueueInv, Posting
    <3>3. \A w \in Workers : ~Posting(w, d)'
      BY <2>1, <3>2 DEF Posting
    <3> QED
      BY <2>1, <3>1, <3>2, <3>3, <1>0 DEF Recorded, HookTypes
  <2>3. CASE d \notin new
    BY <1>2, <2>1, <2>3, RecordedElsewhere DEF Arrive, Posting
  <2> QED
    BY <2>2, <2>3
<1>3. ASSUME NEW w \in Workers, Attempt(w) PROVE Recorded(d)'
  <2>1. workers[w].job \in Deliveries
    BY <1>3, AttemptRows
  <2>2. UNCHANGED retries
    BY <1>3, AttemptSteps DEF Queue!Commit, Queue!Throw, queueVars
  <2>3. Recorded(d)
    BY <2>2 DEF AnswerInv
  <2>4. CASE workers[w].job = d
    <3>1. Recorded(workers[w].job)'
      BY <1>3, <2>1, <2>2, <2>3, <2>4, AttemptRecorded
    <3>2. workers'[w].job = d
      BY <1>3, <1>0, <2>1, <2>4, AttemptSteps, GoOn, WebhookConstants
         DEF Queue!Commit, Queue!Throw, Queue!At, queueVars
    <3> QED
      BY <2>4, <3>1, <3>2
  <2>5. CASE workers[w].job # d
    <3>1. deliveries'[d] = deliveries[d]
      BY <1>3, <2>5, AttemptRows
    <3>2. \A v \in Workers : v # w => workers'[v] = workers[v]
      BY <1>3, <1>0, AttemptSteps, EndStages DEF queueVars
    <3>3. workers'[w].job = workers[w].job
      BY <1>3, <1>0, AttemptSteps, GoOn DEF Queue!Commit, Queue!Throw, Queue!At, queueVars
    <3>4. accepted'[d] = accepted[d] /\ lost'[d] = lost[d]
      BY <1>3, <2>5, <1>0 DEF Attempt, DeliverMissing, DeliverSettled, DeliverInactive, Post, Starts,
         WriteDelivered, RetryLater, WriteExhausted, hookVars, HookTypes
    <3>5. \A v \in Workers : v # w => posts'[v] = posts[v]
      BY <1>3, <1>0 DEF Attempt, DeliverMissing, DeliverSettled, DeliverInactive, Post,
         WriteDelivered, RetryLater, WriteExhausted, hookVars, HookTypes
    <3>6. \A v \in Workers : Posting(v, d)' => v # w
      BY <2>5, <3>3 DEF Posting
    <3>7. \A v \in Workers : Posting(v, d) => v # w
      BY <2>5 DEF Posting
    <3>8. /\ \A v \in Workers : Posting(v, d) => posts'[v] = posts[v] /\ workers'[v].job = d
          /\ \A v \in Workers : Posting(v, d)' => Posting(v, d)
      BY <3>2, <3>5, <3>6, <3>7 DEF Posting
    <3> QED
      BY <2>3, <3>1, <3>4, <3>8, RecordedElsewhere
  <2> QED
    BY <2>4, <2>5
<1>4. ASSUME NEW w \in Workers, Loop(w) PROVE Recorded(d)'
  <2>1. UNCHANGED hookVars /\ UNCHANGED retries /\ posts[w] = NoPost
    BY <1>4, <1>0 DEF Loop, Queue!Pick, Queue!Claim, Queue!LoseRace, Queue!CompleteJob, Queue!FailJob,
       Queue!At, HookTypes
  <2>2. \A v \in Workers : v # w => workers'[v] = workers[v]
    BY <1>4, <1>0, LoopStages
  <2>3. /\ \A v \in Workers : Posting(v, d) => posts'[v] = posts[v] /\ workers'[v].job = d
        /\ \A v \in Workers : Posting(v, d)' => Posting(v, d)
    BY <2>1, <2>2 DEF Posting, hookVars
  <2> QED
    BY <2>1, <2>3, RecordedElsewhere DEF hookVars, AnswerInv
<1>5. ASSUME NEW w \in Workers, Fault(w) PROVE Recorded(d)'
  <2>1. UNCHANGED retries /\ UNCHANGED <<deliveries, accepted>>
    BY <1>5 DEF Fault, Queue!Fault, Queue!Slip, Queue!Crash
  <2>2. Recorded(d)
    BY <2>1 DEF AnswerInv
  <2>3. \A v \in Workers : v # w => workers'[v] = workers[v] /\ posts'[v] = posts[v]
    BY <1>5, <1>0, EndStages DEF Fault, HookTypes
  <2>4. posts'[w] = NoPost
    BY <1>5, <1>0 DEF Fault, HookTypes
  <2>5. \A v \in Workers : Posting(v, d)' => v # w /\ Posting(v, d)
    BY <2>3, <2>4 DEF Posting
  <2>6. CASE posts[w].answer = "ok" /\ workers[w].job = d
    <3>1. lost'[d] = lost[d] + 1
      BY <1>5, <2>6 DEF Fault
    <3>2. accepted'[d] <= lost'[d]
      BY <3>1, <2>1, <2>2, <1>0 DEF Recorded, HookTypes
    <3>3. lost'[d] \in Nat /\ accepted'[d] \in Nat
      BY <3>1, <2>1, <1>0 DEF HookTypes
    <3> QED
      BY <2>1, <2>2, <2>5, <3>2, <3>3 DEF Recorded
  <2>7. CASE ~(posts[w].answer = "ok" /\ workers[w].job = d)
    <3>1. lost'[d] = lost[d]
      BY <1>5, <2>7 DEF Fault
    <3>2. \A v \in Workers : Posting(v, d) /\ posts[v].answer = "ok" => Posting(v, d)' /\ posts'[v].answer = "ok"
      BY <2>3, <2>7 DEF Posting
    <3> QED
      BY <2>1, <2>2, <2>5, <3>1, <3>2 DEF Recorded
  <2> QED
    BY <2>6, <2>7
<1>6. ASSUME NEW e \in Deliveries, Queue!RetryJob(e), UNCHANGED hookVars PROVE Recorded(d)'
  <2>1. retries[d] = 0 /\ UNCHANGED workers
    BY <1>6, <1>0 DEF Queue!RetryJob, Queue!TypeOK
  <2> QED
    BY <1>6, <2>1, RecordedElsewhere DEF hookVars, AnswerInv, Posting
<1>7. CASE UNCHANGED vars
  BY <1>7, RecordedElsewhere DEF vars, queueVars, hookVars, AnswerInv, Posting
<1> QED
  BY <1>1, <1>2, <1>3, <1>4, <1>5, <1>6, <1>7, HookCases

LEMMA AnswersCorrect == Spec => [](TablesInv /\ AnswerInv)
<1>1. Init => AnswerInv
  BY DEF Init, Queue!Init, AnswerInv, Recorded, Posting
<1>2. TablesInv /\ AnswerInv /\ [Next]_vars => AnswerInv'
  BY AnswerStep
<1> QED
  BY <1>1, <1>2, TablesCorrect, PTL DEF Spec

\* The endpoint hears an accepted delivery again only if the record of it was rolled back.
THEOREM AcceptedOnceCorrect == Spec => []AcceptedOnce
<1>1. TablesInv /\ AnswerInv => AcceptedOnce
  BY DEF TablesInv, HookTypes, AnswerInv, Recorded, AcceptedOnce
<1> QED
  BY <1>1, AnswersCorrect, PTL

\* What the log shows as delivered or dead stays so, unless an admin put a second worker on it.
THEOREM SettledIsFinalCorrect == Spec => SettledIsFinal
<1> DEFINE Final1(d) == deliveries[d].status \in {"delivered", "dead"} /\ retries[d] = 0 =>
                          deliveries'[d].status \in {deliveries[d].status, "deleted"}
<1>1. ASSUME TablesInv, AnswerInv, [Next]_vars, NEW d \in Deliveries PROVE Final1(d)
  <2>1. CASE Manage \/ UNCHANGED vars
    BY <2>1 DEF Manage, vars, hookVars
  <2>2. ASSUME NEW new, Arrive(new) PROVE Final1(d)
    BY <2>2 DEF Arrive, Fresh
  <2>3. ASSUME NEW w \in Workers, Attempt(w) PROVE Final1(d)
    <3>1. SUFFICES ASSUME deliveries[d].status \in {"delivered", "dead"}, retries[d] = 0
                   PROVE  deliveries'[d] = deliveries[d]
      OBVIOUS
    <3>2. CASE DeliverInactive(w)
      BY <2>3, <3>1, <3>2, AttemptRows DEF DeliverInactive, Starts, TablesInv, HookTypes
    <3>3. CASE WriteDelivered(w) \/ WriteExhausted(w)
      <4>1. posts[w] # NoPost
        BY <3>3 DEF WriteDelivered, WriteExhausted, Posted, NoPost
      <4>2. workers[w].job # d
        BY <1>1, <3>1, <4>1 DEF AnswerInv, Recorded, Posting
      <4> QED
        BY <1>1, <2>3, <4>2, AttemptRows
    <3> QED
      BY <2>3, <3>2, <3>3 DEF Attempt, DeliverMissing, DeliverSettled, Post, RetryLater, hookVars
  <2>4. ASSUME NEW w \in Workers, Loop(w) \/ Fault(w) PROVE Final1(d)
    BY <2>4 DEF Loop, Fault, hookVars
  <2>5. ASSUME NEW e \in Deliveries, Queue!RetryJob(e), UNCHANGED hookVars PROVE Final1(d)
    BY <2>5 DEF hookVars
  <2> QED
    BY <1>1, <2>1, <2>2, <2>3, <2>4, <2>5, HookCases
<1>2. TablesInv /\ AnswerInv /\ [Next]_vars => [\A d \in Deliveries : Final1(d)]_vars
  BY <1>1
<1> QED
  BY <1>2, AnswersCorrect, PTL DEF Spec, SettledIsFinal

----------------------------------------------------------------------------
(* The auto-pause, with one process: the streak written from what was read *)
(* is then never behind the deliveries exhausted in a row.                 *)

PauseInv ==
  /\ \A s \in Subs :
       /\ subs[s].status = "absent" => exhausted[s] = 0
       /\ Exists(s) => exhausted[s] <= subs[s].streak
       /\ subs[s].status = "active" => exhausted[s] < DisableAfter
  /\ \A w \in Workers :
       posts[w] # NoPost =>
         /\ subs[SubOf(w)].status # "absent"
         /\ exhausted[SubOf(w)] <= posts[w].streak

\* A step that leaves the subscriptions, the posts and whose they are.
LEMMA PauseElsewhere ==
  ASSUME TablesInv, PauseInv, UNCHANGED <<subs, exhausted>>,
         \A w \in Workers : posts'[w] # NoPost =>
           posts'[w] = posts[w] /\ SubOf(w)' = SubOf(w)
  PROVE  PauseInv'
  BY DEF PauseInv, Exists

\* Whose a post is does not change while it is made.
LEMMA PostedSub ==
  ASSUME TablesInv, NEW w \in Workers, posts[w] # NoPost
  PROVE  workers[w].job \in Deliveries /\ SubOf(w) \in Subs
<1>1. workers[w].job \in Deliveries /\ jobs[workers[w].job].status # "absent"
  BY WebhookConstants DEF WebhookConstants, TablesInv, QueueInv, HookTypes, Queue!TypeOK, Queue!At
<1> QED
  BY <1>1 DEF TablesInv, Paired, HookTypes, SubOf

LEMMA PauseStep ==
  ASSUME \A w, v \in Workers : w = v,
         TablesInv, PauseInv, [Next]_vars
  PROVE  PauseInv'
<1>0. HookTypes /\ QueueInv /\ Paired /\ Queue!TypeOK
  BY DEF TablesInv, QueueInv
<1>a. DisableAfter \in Nat \ {0}
  BY WebhookConstants DEF WebhookConstants
<1>1. ASSUME NEW s \in Subs, Merchant(s) PROVE PauseInv'
  <2>1. /\ UNCHANGED <<workers, posts>>
        /\ \A d \in Deliveries : deliveries'[d].sub = deliveries[d].sub
    BY <1>1, <1>0 DEF Merchant, CreateSubscription, PauseSubscription, EnableSubscription,
       DeleteSubscription, queueVars, HookTypes
  <2>2. \A w \in Workers : posts[w] # NoPost => SubOf(w)' = SubOf(w) /\ SubOf(w) \in Subs
    BY <2>1, PostedSub DEF SubOf
  <2>3. \A u \in Subs :
          /\ subs'[u].status = "absent" => subs[u].status = "absent"
          /\ exhausted'[u] = exhausted[u] \/ exhausted'[u] = 0
          /\ subs'[u].status = "absent" => exhausted'[u] = 0
          /\ Exists(u)' => exhausted'[u] <= subs'[u].streak
          /\ subs'[u].status = "active" => exhausted'[u] < DisableAfter
    <3>1. CASE CreateSubscription(s)
      BY <3>1, <1>0, <1>a DEF CreateSubscription, PauseInv, HookTypes, Exists
    <3>2. CASE PauseSubscription(s)
      BY <3>2, <1>0, <1>a DEF PauseSubscription, PauseInv, HookTypes, Exists
    <3>3. CASE EnableSubscription(s)
      BY <3>3, <1>0, <1>a DEF EnableSubscription, PauseInv, HookTypes, Exists
    <3>4. CASE DeleteSubscription(s)
      BY <3>4, <1>0, <1>a DEF DeleteSubscription, PauseInv, HookTypes, Exists
    <3> QED
      BY <1>1, <3>1, <3>2, <3>3, <3>4 DEF Merchant
  <2>4. \A w \in Workers : posts'[w] # NoPost =>
          subs'[SubOf(w)'].status # "absent" /\ exhausted'[SubOf(w)'] <= posts'[w].streak
    BY <2>1, <2>2, <2>3, <1>0 DEF PauseInv, HookTypes
  <2> QED
    BY <2>3, <2>4 DEF PauseInv
<1>2. ASSUME NEW new, Arrive(new) PROVE PauseInv'
  <2>1. UNCHANGED <<subs, exhausted, posts, workers>>
    BY <1>2 DEF Arrive, Queue!Enqueue
  <2>2. \A w \in Workers : posts[w] # NoPost => workers[w].job \in Deliveries \ new
    BY <1>2, <1>0, PostedSub DEF Arrive, Queue!Enqueue, QueueInv
  <2>3. \A w \in Workers : posts[w] # NoPost => SubOf(w)' = SubOf(w)
    BY <1>2, <2>1, <2>2 DEF Arrive, SubOf
  <2> QED
    BY <2>1, <2>3, PauseElsewhere
<1>3. ASSUME NEW w \in Workers, Attempt(w) PROVE PauseInv'
  <2>1. CASE DeliverMissing(w) \/ DeliverSettled(w) \/ DeliverInactive(w) \/ RetryLater(w)
    <3>1. UNCHANGED <<subs, exhausted>>
      BY <2>1 DEF DeliverMissing, DeliverSettled, DeliverInactive, RetryLater, hookVars
    <3>2. posts'[w] = NoPost
      BY <2>1, <1>0 DEF DeliverMissing, DeliverSettled, DeliverInactive, RetryLater, hookVars, Starts, HookTypes
    <3> QED
      BY <3>1, <3>2, PauseElsewhere
  <2>2. ASSUME NEW answer \in {"ok", "failed"}, Post(w, answer) PROVE PauseInv'
    <3>1. /\ UNCHANGED <<subs, exhausted, deliveries, workers>> /\ SubOf(w) \in Active
          /\ posts'[w].streak = subs[SubOf(w)].streak
      BY <2>2, <1>0 DEF Post, Starts, SubOf, queueVars, HookTypes
    <3>2. subs[SubOf(w)].status # "absent" /\ exhausted[SubOf(w)] <= posts'[w].streak
      BY <3>1 DEF Active, PauseInv, Exists
    <3>3. SubOf(w)' = SubOf(w)
      BY <3>1 DEF SubOf
    <3> QED
      BY <3>1, <3>2, <3>3 DEF PauseInv, Exists
  <2>3. CASE WriteDelivered(w) \/ WriteExhausted(w)
    <3> DEFINE s == SubOf(w)
    <3>1. posts[w] # NoPost
      BY <2>3 DEF WriteDelivered, WriteExhausted, Posted, NoPost
    <3>2. s \in Subs /\ subs[s].status # "absent" /\ exhausted[s] <= posts[w].streak
      BY <3>1, PostedSub DEF PauseInv
    <3>3. \A v \in Workers : posts'[v] = NoPost
      BY <2>3, <1>0 DEF WriteDelivered, WriteExhausted, HookTypes
    <3>4. CASE WriteDelivered(w)
      <4>1. subs' = [subs EXCEPT ![s].streak = 0] /\ exhausted' = [exhausted EXCEPT ![s] = 0]
        BY <3>4 DEF WriteDelivered
      <4> HIDE DEF s
      <4>2. ASSUME NEW u \in Subs
            PROVE  /\ subs'[u].status = "absent" => exhausted'[u] = 0
                   /\ Exists(u)' => exhausted'[u] <= subs'[u].streak
                   /\ subs'[u].status = "active" => exhausted'[u] < DisableAfter
        BY <4>1, <3>2, <1>0, <1>a DEF PauseInv, HookTypes, Exists
      <4> QED
        BY <4>2, <3>3 DEF PauseInv
    <3>5. CASE WriteExhausted(w)
      <4> DEFINE streak == posts[w].streak + 1
      <4>1. subs' = [subs EXCEPT ![s] = Counted(s, streak)] /\ exhausted' = [exhausted EXCEPT ![s] = @ + 1]
        BY <3>5 DEF WriteExhausted
      <4>2. streak \in Nat /\ exhausted[s] + 1 <= streak
        BY <3>2, <1>0 DEF HookTypes
      <4> HIDE DEF s, streak
      <4>3. PICK t \in Subs : t = s
        BY <3>2
      <4>4. /\ subs'[t] = Counted(t, streak) /\ exhausted'[t] = exhausted[t] + 1
            /\ \A u \in Subs : u # t => subs'[u] = subs[u] /\ exhausted'[u] = exhausted[u]
        BY <4>1, <4>3, <1>0 DEF HookTypes
      <4>5. /\ subs'[t].status # "absent"
            /\ Exists(t)' => exhausted'[t] <= subs'[t].streak
            /\ subs'[t].status = "active" => exhausted'[t] < DisableAfter
        <5>1. CASE Exists(t)
          <6>1. subs'[t] = [status |-> IF Disables(streak) THEN "disabled" ELSE "active", streak |-> streak]
            BY <4>4, <5>1 DEF Counted
          <6>2. exhausted'[t] \in Nat /\ exhausted'[t] <= streak
            BY <4>2, <4>3, <4>4, <3>2, <1>0 DEF HookTypes
          <6> QED
            BY <6>1, <6>2, <4>2, <1>a DEF Disables
        <5>2. CASE ~Exists(t)
          BY <4>3, <4>4, <5>2, <3>2 DEF Counted, Exists
        <5> QED
          BY <5>1, <5>2
      <4> QED
        BY <3>3, <4>4, <4>5 DEF PauseInv, Exists
    <3> QED
      BY <2>3, <3>4, <3>5
  <2> QED
    BY <1>3, <2>1, <2>2, <2>3 DEF Attempt
<1>4. ASSUME NEW w \in Workers, Loop(w) PROVE PauseInv'
  <2>1. UNCHANGED hookVars /\ posts[w] = NoPost
    BY <1>4, <1>0 DEF Loop, Queue!Pick, Queue!Claim, Queue!LoseRace, Queue!CompleteJob, Queue!FailJob,
       Queue!At, HookTypes
  <2> QED
    BY <2>1, PauseElsewhere DEF hookVars
<1>5. ASSUME NEW w \in Workers, Fault(w) PROVE PauseInv'
  BY <1>5, <1>0, PauseElsewhere DEF Fault, HookTypes
<1>6. ASSUME NEW d \in Deliveries, Queue!RetryJob(d), UNCHANGED hookVars PROVE PauseInv'
  BY <1>6, PauseElsewhere DEF Queue!RetryJob, hookVars, SubOf
<1>7. CASE UNCHANGED vars
  BY <1>7, PauseElsewhere DEF vars, queueVars, hookVars, SubOf
<1> QED
  BY <1>1, <1>2, <1>3, <1>4, <1>5, <1>6, <1>7, RedeliverArrives, FanOutArrives DEF Next

\* "After 5 exhausted deliveries in a row the endpoint is auto-paused": with one process, as the API
\* is deployed, whatever the merchant edits while an attempt is on its way.
THEOREM AutoPauseCorrect ==
  ASSUME \A w, v \in Workers : w = v
  PROVE  Spec => []AutoPause
<1>1. Init => PauseInv
  BY WebhookConstants DEF WebhookConstants, Init, PauseInv, Exists
<1>2. TablesInv /\ PauseInv /\ [Next]_vars => PauseInv'
  BY PauseStep
<1>3. TablesInv /\ PauseInv => AutoPause
  BY WebhookConstants DEF WebhookConstants, TablesInv, HookTypes, PauseInv, AutoPause
<1> QED
  BY <1>1, <1>2, <1>3, TablesCorrect, PTL DEF Spec
============================================================================
