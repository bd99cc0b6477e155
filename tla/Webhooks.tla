------------------------------ MODULE Webhooks ------------------------------
(***************************************************************************)
(* Outbound webhooks (webhooks.ts) on top of the job queue: a domain event *)
(* becomes one delivery, and one job, for each active subscription; a      *)
(* worker reads the delivery and its subscription, posts, and writes what  *)
(* came back, while merchants pause, re-enable and delete subscriptions.   *)
(*                                                                         *)
(* The read and the write of one attempt are steps of their own: the HTTP  *)
(* call, up to ten seconds, lies between them, and under READ COMMITTED    *)
(* the write lands on rows that others may have changed meanwhile.  Every  *)
(* event matches every subscription's filter.                              *)
(***************************************************************************)
EXTENDS Naturals, FiniteSets, Functions

CONSTANTS
  Deliveries,    \* delivery rows; the job of a delivery has its id, as its key whk:<id> has
  Subs,          \* webhook subscriptions
  Workers, Null, MaxAttempts, MaxRetries, MaxSlips, MaxCrashes,
  DisableAfter,  \* DISABLE_AFTER_CONSECUTIVE_FAILURES
  MaxEdits       \* bound: pauses and re-enablings by the merchant

ASSUME WebhookConstants ==
  /\ DisableAfter \in Nat \ {0}
  /\ MaxAttempts \in Nat \ {0}
  /\ MaxEdits \in Nat
  /\ Null \notin Deliveries \cup Subs

VARIABLES
  jobs, workers, commits, retries, slips, crashes,  \* the queue, see JobQueue
  subs,        \* status and consecutiveFailures of each subscription
  deliveries,  \* status and subscription of each delivery
  posts,       \* what each worker's open transaction read and what the endpoint answered
  accepted,    \* history: posts of each delivery the endpoint accepted
  lost,        \* history: accepted posts of each delivery whose record was rolled back
  exhausted,   \* history: deliveries of a subscription exhausted in a row since its clean slate
  edits        \* history: pauses and re-enablings so far

Queue == INSTANCE JobQueue WITH JobIds <- Deliveries

queueVars == <<jobs, workers, commits, retries, slips, crashes>>
hookVars == <<subs, deliveries, posts, accepted, lost, exhausted, edits>>
vars == <<queueVars, hookVars>>

NoPost == [streak |-> 0, answer |-> "none"]

Init ==
  /\ Queue!Init
  /\ subs = [s \in Subs |-> [status |-> "absent", streak |-> 0]]
  /\ deliveries = [d \in Deliveries |-> [status |-> "absent", sub |-> Null]]
  /\ posts = [w \in Workers |-> NoPost]
  /\ accepted = [d \in Deliveries |-> 0]
  /\ lost = [d \in Deliveries |-> 0]
  /\ exhausted = [s \in Subs |-> 0]
  /\ edits = 0

Exists(s) == subs[s].status \in {"active", "paused", "disabled"}
Active == {s \in Subs : subs[s].status = "active"}
Fresh == {d \in Deliveries : deliveries[d].status = "absent"}

----------------------------------------------------------------------------
(* The merchant.                                                           *)

CreateSubscription(s) ==
  /\ subs[s].status = "absent"
  /\ subs' = [subs EXCEPT ![s] = [status |-> "active", streak |-> 0]]
  /\ UNCHANGED <<queueVars, deliveries, posts, accepted, lost, exhausted, edits>>

Edit == edits < MaxEdits /\ edits' = edits + 1

PauseSubscription(s) ==
  /\ Exists(s) /\ Edit
  /\ subs' = [subs EXCEPT ![s].status = "paused"]
  /\ UNCHANGED <<queueVars, deliveries, posts, accepted, lost, exhausted>>

\* Re-enabling gives the subscription a clean slate.
EnableSubscription(s) ==
  /\ Exists(s) /\ Edit
  /\ subs' = [subs EXCEPT ![s] = [status |-> "active", streak |-> 0]]
  /\ exhausted' = [exhausted EXCEPT ![s] = 0]
  /\ UNCHANGED <<queueVars, deliveries, posts, accepted, lost>>

\* The delivery log goes with the subscription; the jobs stay.
DeleteSubscription(s) ==
  /\ Exists(s)
  /\ subs' = [subs EXCEPT ![s] = [status |-> "deleted", streak |-> 0]]
  /\ deliveries' = [d \in Deliveries |->
       IF deliveries[d].sub = s THEN [deliveries[d] EXCEPT !.status = "deleted"]
       ELSE deliveries[d]]
  /\ UNCHANGED <<queueVars, posts, accepted, lost, exhausted, edits>>

\* A clone of a delivery, with a job of its own.
Redeliver(d, new) ==
  /\ deliveries[d].status \notin {"absent", "deleted"}
  /\ new \in Fresh
  /\ deliveries' = [deliveries EXCEPT ![new] = [status |-> "pending", sub |-> deliveries[d].sub]]
  /\ Queue!Enqueue({new})
  /\ UNCHANGED <<subs, posts, accepted, lost, exhausted, edits>>

\* A domain event: for each active subscription a delivery and its job, in one transaction.
FanOut ==
  /\ Active # {}
  /\ \E delivery \in [Active -> Fresh] :
       LET new == Range(delivery)
       IN  /\ IsInjective(delivery)
           /\ deliveries' = [d \in Deliveries |->
                IF d \in new
                THEN [status |-> "pending", sub |-> CHOOSE s \in Active : delivery[s] = d]
                ELSE deliveries[d]]
           /\ Queue!Enqueue(new)
  /\ UNCHANGED <<subs, posts, accepted, lost, exhausted, edits>>

----------------------------------------------------------------------------
(* One attempt: deliver() in a worker's transaction.                       *)

\* The worker is at the start of deliver() with delivery d in hand.
Starts(w, d) == workers[w].stage = "running" /\ workers[w].job = d /\ posts[w] = NoPost

\* Delivery and subscription are gone: notFound.
DeliverMissing(w) ==
  \E d \in Deliveries :
    /\ Starts(w, d)
    /\ deliveries[d].status = "deleted"
    /\ Queue!Throw(w)
    /\ UNCHANGED hookVars

\* Mutant: a delivered delivery is not recognised.
SettledUnchecked(d) == deliveries[d].status = "dead"

Settled(d) == deliveries[d].status \in {"delivered", "dead"}

DeliverSettled(w) ==
  \E d \in Deliveries :
    /\ Starts(w, d)
    /\ Settled(d)
    /\ Queue!Commit(w)
    /\ UNCHANGED hookVars

\* Mutant: the delivery is dropped and the log still shows it as pending.
DeliverInactiveSilently(w) ==
  \E d \in Deliveries :
    /\ Starts(w, d)
    /\ deliveries[d].status = "pending"
    /\ deliveries[d].sub \notin Active
    /\ Queue!Commit(w)
    /\ UNCHANGED hookVars

\* The subscription does not take deliveries any more.
DeliverInactive(w) ==
  \E d \in Deliveries :
    /\ Starts(w, d)
    /\ deliveries[d].status = "pending"
    /\ deliveries[d].sub \notin Active
    /\ deliveries' = [deliveries EXCEPT ![d].status = "dead"]
    /\ Queue!Commit(w)
    /\ UNCHANGED <<subs, posts, accepted, lost, exhausted, edits>>

\* The rows are read and the payload is posted; the endpoint accepts it, or refuses or times out.
Post(w, answer) ==
  \E d \in Deliveries :
    /\ Starts(w, d)
    /\ ~Settled(d) /\ deliveries[d].status # "deleted"
    /\ deliveries[d].sub \in Active
    /\ posts' = [posts EXCEPT ![w] =
         [streak |-> subs[deliveries[d].sub].streak, answer |-> answer]]
    /\ accepted' = [accepted EXCEPT ![d] = IF answer = "ok" THEN @ + 1 ELSE @]
    /\ UNCHANGED <<queueVars, subs, deliveries, lost, exhausted, edits>>

\* What the write finds of the delivery: nothing, if the subscription was deleted meanwhile.
Write(w, status) ==
  LET d == workers[w].job
  IN  deliveries' = [deliveries EXCEPT ![d].status = IF @ = "deleted" THEN @ ELSE status]

Posted(w, answer) == workers[w].stage = "running" /\ posts[w].answer = answer

SubOf(w) == deliveries[workers[w].job].sub

\* Mutant: the attempt is taken to count from zero.
FinalOffByOne(w) == workers[w].attempt > MaxAttempts

\* The attempt is the last that failJob would allow.
Final(w) == workers[w].attempt >= MaxAttempts

WriteDelivered(w) ==
  LET s == SubOf(w)
  IN  /\ Posted(w, "ok")
      /\ Write(w, "delivered")
      /\ subs' = [subs EXCEPT ![s].streak = 0]
      /\ exhausted' = [exhausted EXCEPT ![s] = 0]
      /\ posts' = [posts EXCEPT ![w] = NoPost]
      /\ Queue!Commit(w)
      /\ UNCHANGED <<accepted, lost, edits>>

\* Mutant: deliver() puts its job back in the queue itself.
RetryLaterByItself(w) ==
  /\ Posted(w, "failed") /\ ~Final(w)
  /\ posts' = [posts EXCEPT ![w] = NoPost]
  /\ jobs' = [jobs EXCEPT ![workers[w].job].status = "queued"]
  /\ workers' = [workers EXCEPT ![w] = Queue!Idle]
  /\ UNCHANGED <<commits, retries, slips, crashes, subs, deliveries, accepted, lost, exhausted, edits>>

\* Before the last attempt deliver() throws, which rolls back what it wrote.
RetryLater(w) ==
  /\ Posted(w, "failed") /\ ~Final(w)
  /\ posts' = [posts EXCEPT ![w] = NoPost]
  /\ Queue!Throw(w)
  /\ UNCHANGED <<subs, deliveries, accepted, lost, exhausted, edits>>

\* Mutant: the streak must exceed the limit.
DisablesLate(streak) == streak > DisableAfter

Disables(streak) == streak >= DisableAfter

\* The row a subscription is left with: status and streak are written from what was read.
Counted(s, streak) ==
  IF Exists(s)
  THEN [status |-> IF Disables(streak) THEN "disabled" ELSE "active", streak |-> streak]
  ELSE subs[s]

WriteExhausted(w) ==
  LET s == SubOf(w)
  IN  /\ Posted(w, "failed") /\ Final(w)
      /\ Write(w, "dead")
      /\ subs' = [subs EXCEPT ![s] = Counted(s, posts[w].streak + 1)]
      /\ exhausted' = [exhausted EXCEPT ![s] = @ + 1]
      /\ posts' = [posts EXCEPT ![w] = NoPost]
      /\ Queue!Commit(w)
      /\ UNCHANGED <<accepted, lost, edits>>

----------------------------------------------------------------------------

Attempt(w) ==
  \/ DeliverMissing(w) \/ DeliverSettled(w) \/ DeliverInactive(w)
  \/ \E answer \in {"ok", "failed"} : Post(w, answer)
  \/ WriteDelivered(w) \/ RetryLater(w) \/ WriteExhausted(w)

\* The rest of the worker's loop leaves the webhook tables alone.
Loop(w) ==
  /\ Queue!Pick(w) \/ Queue!Claim(w) \/ Queue!LoseRace(w)
       \/ Queue!CompleteJob(w) \/ Queue!FailJob(w)
  /\ UNCHANGED hookVars

\* An error or a crash rolls the attempt's transaction back, even if the endpoint has accepted.
Fault(w) ==
  /\ Queue!Fault(w)
  /\ posts' = [posts EXCEPT ![w] = NoPost]
  /\ lost' = [d \in Deliveries |->
       IF posts[w].answer = "ok" /\ workers[w].job = d THEN lost[d] + 1 ELSE lost[d]]
  /\ UNCHANGED <<subs, deliveries, accepted, exhausted, edits>>

Merchant(s) ==
  \/ CreateSubscription(s) \/ PauseSubscription(s)
  \/ EnableSubscription(s) \/ DeleteSubscription(s)

Next ==
  \/ \E s \in Subs : Merchant(s)
  \/ \E d, new \in Deliveries : Redeliver(d, new)
  \/ FanOut
  \/ \E w \in Workers : Attempt(w) \/ Loop(w) \/ Fault(w)
  \/ \E d \in Deliveries : Queue!RetryJob(d) /\ UNCHANGED hookVars

\* Each process polls and goes on while it lives; post() gives up after ten seconds.
Spec == Init /\ [][Next]_vars /\ \A w \in Workers : WF_vars(Attempt(w) \/ Loop(w))

----------------------------------------------------------------------------
(* Properties.                                                             *)

SubStatus == {"absent", "active", "paused", "disabled", "deleted"}
DeliveryStatus == {"absent", "pending", "delivered", "dead", "deleted"}

\* Every row has the shape of its table, and a worker has posted only inside an attempt.
TypeOK ==
  /\ Queue!TypeOK
  /\ subs \in [Subs -> [status : SubStatus, streak : Nat]]
  /\ deliveries \in [Deliveries -> [status : DeliveryStatus, sub : Subs \cup {Null}]]
  /\ posts \in [Workers -> [streak : Nat, answer : {"none", "ok", "failed"}]]
  /\ \A w \in Workers : posts[w] # NoPost => workers[w].stage = "running"
  /\ accepted \in [Deliveries -> Nat]
  /\ lost \in [Deliveries -> Nat]
  /\ exhausted \in [Subs -> Nat]

\* The endpoint hears an accepted delivery again only if the record of it was rolled back by an
\* error or a crash: a job that is repeated after its delivery was recorded does not post.
AcceptedOnce ==
  \A d \in Deliveries : retries[d] = 0 => accepted[d] <= 1 + lost[d]

\* A pending delivery always has a job that will settle it or that a crash has left stuck: no path
\* through deliver() lets the job end, done or dead, while the delivery waits.
PendingHasJob ==
  \A d \in Deliveries :
    deliveries[d].status = "pending" /\ slips[d] = 0 => jobs[d].status \in {"queued", "running"}

\* What the log shows as delivered or dead stays so, unless an admin put a second worker on it.
SettledIsFinal ==
  [][\A d \in Deliveries :
       deliveries[d].status \in {"delivered", "dead"} /\ retries[d] = 0 =>
         deliveries'[d].status \in {deliveries[d].status, "deleted"}]_vars

\* "After 5 exhausted deliveries in a row the endpoint is auto-paused."
AutoPause == \A s \in Subs : exhausted[s] >= DisableAfter => subs[s].status # "active"

\* Webhook jobs are jobs like any other: every step is a step of the queue or leaves it alone.
ImplementsQueue == Queue!Safety

\* Every pending delivery is eventually delivered, given up or deleted, unless its job is stuck
\* after a crash or died of database errors.
DeliverySettles ==
  \A d \in Deliveries :
    deliveries[d].status = "pending" ~>
      \/ deliveries[d].status # "pending"
      \/ Queue!Stuck(d)
      \/ jobs[d].status = "dead" /\ slips[d] > 0

============================================================================
