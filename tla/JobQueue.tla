------------------------------ MODULE JobQueue ------------------------------
(***************************************************************************)
(* The jobs table and the workers that drain it: jobs.ts and the poll loop *)
(* of worker.ts.  The table is the outbox of the whole system: domain      *)
(* events, webhook deliveries, provider payouts, exports, settlement and   *)
(* maintenance are rows of it.                                             *)
(*                                                                         *)
(* Each statement of the queue commits on its own, the handler's work is   *)
(* one transaction between the claim and the completion, and the process   *)
(* may stop between any two of them.  The time at which a queued job       *)
(* becomes due is abstracted: a queued job may be picked at any moment.    *)
(***************************************************************************)
EXTENDS Naturals, FiniteSets

CONSTANTS
  JobIds,       \* rows of the jobs table; rows with one idempotency key are one row
  Workers,      \* worker processes: one, or two while one deployment replaces another
  Null,         \* no job
  MaxAttempts,  \* jobs.maxAttempts
  MaxRetries,   \* bound: times a platform admin retries a job
  MaxSlips,     \* bound: database errors that hit a job while a worker holds it
  MaxCrashes    \* bound: processes stopped with a job in hand

ASSUME QueueConstants ==
  /\ Null \notin JobIds
  /\ IsFiniteSet(Workers)
  /\ MaxAttempts \in Nat \ {0}
  /\ MaxRetries \in Nat
  /\ MaxSlips \in Nat
  /\ MaxCrashes \in Nat

VARIABLES
  jobs,     \* status and attempts of each job
  workers,  \* where each worker is in its loop, with its copy of the claimed row
  commits,  \* history: committed handler transactions of each job
  retries,  \* history: admin retries of each job
  slips,    \* history: database errors that hit each job
  crashes   \* history: processes stopped so far

vars == <<jobs, workers, commits, retries, slips, crashes>>

JobStatus == {"absent", "queued", "running", "done", "dead"}

\* A worker is idle, has picked a candidate, runs the handler, has its work committed, or has
\* caught an error.
Stages == {"idle", "picked", "running", "ran", "failing"}

Idle == [stage |-> "idle", job |-> Null, attempt |-> 0]

Init ==
  /\ jobs = [j \in JobIds |-> [status |-> "absent", attempts |-> 0]]
  /\ workers = [w \in Workers |-> Idle]
  /\ commits = [j \in JobIds |-> 0]
  /\ retries = [j \in JobIds |-> 0]
  /\ slips = [j \in JobIds |-> 0]
  /\ crashes = 0

At(w, stage) == workers[w].stage = stage

\* The worker goes on to `stage` with the job it holds.
GoTo(w, stage) == workers' = [workers EXCEPT ![w].stage = stage]

Rest(w) == workers' = [workers EXCEPT ![w] = Idle]

SetStatus(j, to) == jobs' = [jobs EXCEPT ![j].status = to]

----------------------------------------------------------------------------

\* One transaction may enqueue several jobs; a key already in the table inserts nothing.
Enqueue(new) ==
  /\ new # {}
  /\ \A j \in new : jobs[j].status = "absent"
  /\ jobs' = [j \in JobIds |->
       IF j \in new THEN [status |-> "queued", attempts |-> 0] ELSE jobs[j]]
  /\ UNCHANGED <<workers, commits, retries, slips, crashes>>

\* claimNextJob, first statement: a candidate is read.
Pick(w) ==
  /\ At(w, "idle")
  /\ \E j \in JobIds :
       /\ jobs[j].status = "queued"
       /\ workers' = [workers EXCEPT ![w] = [stage |-> "picked", job |-> j, attempt |-> 0]]
  /\ UNCHANGED <<jobs, commits, retries, slips, crashes>>

\* Mutant: the claim does not ask whether the job is still queued.
ClaimableUnchecked(j) == jobs[j].status # "absent"

Claimable(j) == jobs[j].status = "queued"

\* claimNextJob, second statement: the row is taken if it is still queued.
Claim(w) ==
  LET j == workers[w].job
      attempt == jobs[j].attempts + 1
  IN  /\ At(w, "picked")
      /\ Claimable(j)
      /\ jobs' = [jobs EXCEPT ![j] = [status |-> "running", attempts |-> attempt]]
      /\ workers' = [workers EXCEPT ![w] = [stage |-> "running", job |-> j, attempt |-> attempt]]
      /\ UNCHANGED <<commits, retries, slips, crashes>>

\* Another worker was faster: the drain ends until the next poll.
LoseRace(w) ==
  /\ At(w, "picked")
  /\ ~Claimable(workers[w].job)
  /\ Rest(w)
  /\ UNCHANGED <<jobs, commits, retries, slips, crashes>>

\* The handler's transaction commits.
Commit(w) ==
  /\ At(w, "running")
  /\ GoTo(w, "ran")
  /\ commits' = [commits EXCEPT ![workers[w].job] = @ + 1]
  /\ UNCHANGED <<jobs, retries, slips, crashes>>

\* The handler throws; its transaction rolls back.
Throw(w) ==
  /\ At(w, "running")
  /\ GoTo(w, "failing")
  /\ UNCHANGED <<jobs, commits, retries, slips, crashes>>

\* A database error under the handler or under completeJob: both are caught alike.
Slip(w) ==
  /\ At(w, "running") \/ At(w, "ran")
  /\ slips[workers[w].job] < MaxSlips
  /\ GoTo(w, "failing")
  /\ slips' = [slips EXCEPT ![workers[w].job] = @ + 1]
  /\ UNCHANGED <<jobs, commits, retries, crashes>>

\* Mutant: a job is completed whether or not its handler threw.
CompleteJobAnyway(w) ==
  /\ At(w, "ran") \/ At(w, "failing")
  /\ SetStatus(workers[w].job, "done")
  /\ Rest(w)
  /\ UNCHANGED <<commits, retries, slips, crashes>>

CompleteJob(w) ==
  /\ At(w, "ran")
  /\ SetStatus(workers[w].job, "done")
  /\ Rest(w)
  /\ UNCHANGED <<commits, retries, slips, crashes>>

\* Mutant: one attempt too few.
AfterFailureEarly(n) == IF n + 1 >= MaxAttempts THEN "dead" ELSE "queued"

\* Mutant: a job to be retried keeps its status.
AfterFailureForgotten(n) == IF n >= MaxAttempts THEN "dead" ELSE "running"

\* Where failJob sends a job whose claim was its n-th attempt.
AfterFailure(n) == IF n >= MaxAttempts THEN "dead" ELSE "queued"

\* Mutant: the loop's running flag is not cleared after an error.
FailJobHanging(w) ==
  /\ At(w, "failing")
  /\ SetStatus(workers[w].job, AfterFailure(workers[w].attempt))
  /\ UNCHANGED <<workers, commits, retries, slips, crashes>>

\* failJob decides on the attempt number of the claim, not on the row.
FailJob(w) ==
  /\ At(w, "failing")
  /\ SetStatus(workers[w].job, AfterFailure(workers[w].attempt))
  /\ Rest(w)
  /\ UNCHANGED <<commits, retries, slips, crashes>>

\* The process stops (or failJob itself fails): nothing unlocks the row it had claimed.
Crash(w) ==
  /\ ~At(w, "idle")
  /\ crashes < MaxCrashes
  /\ Rest(w)
  /\ crashes' = crashes + 1
  /\ UNCHANGED <<jobs, commits, retries, slips>>

\* platform.retryJob: whatever the job's status is, even while a worker runs it.
RetryJob(j) ==
  /\ jobs[j].status # "absent"
  /\ retries[j] < MaxRetries
  /\ jobs' = [jobs EXCEPT ![j] = [status |-> "queued", attempts |-> 0]]
  /\ retries' = [retries EXCEPT ![j] = @ + 1]
  /\ UNCHANGED <<workers, commits, slips, crashes>>

WorkerStep(w) ==
  \/ Pick(w) \/ Claim(w) \/ LoseRace(w)
  \/ Commit(w) \/ Throw(w)
  \/ CompleteJob(w) \/ FailJob(w)

Fault(w) == Slip(w) \/ Crash(w)

Next ==
  \/ \E new \in SUBSET JobIds : Enqueue(new)
  \/ \E w \in Workers : WorkerStep(w) \/ Fault(w)
  \/ \E j \in JobIds : RetryJob(j)

Safety == Init /\ [][Next]_vars

\* Each process polls every two seconds and goes on while it lives.
Spec == Safety /\ \A w \in Workers : WF_vars(WorkerStep(w))

----------------------------------------------------------------------------
(* Properties.                                                             *)

\* Every row and every worker has the shape of its table or loop.
TypeOK ==
  /\ jobs \in [JobIds -> [status : JobStatus, attempts : Nat]]
  /\ workers \in [Workers -> [stage : Stages, job : JobIds \cup {Null}, attempt : Nat]]
  /\ \A w \in Workers : At(w, "idle") <=> workers[w].job = Null
  /\ commits \in [JobIds -> Nat]
  /\ retries \in [JobIds -> Nat]
  /\ slips \in [JobIds -> Nat]
  /\ crashes \in Nat

Holds(w, j) == workers[w].job = j /\ workers[w].stage \in {"running", "ran", "failing"}

\* "Concurrent workers never claim the same job": unless an admin retried it, a job is in at most
\* one worker's hands, and while it is, no other can take it.
ClaimedOnce ==
  \A j \in JobIds, w \in Workers :
    Holds(w, j) /\ retries[j] = 0 =>
      /\ jobs[j].status = "running"
      /\ \A v \in Workers : Holds(v, j) => v = w

\* A job's work is committed once, and once more for each admin retry or database error at worst:
\* neither the race of the workers nor a crash between the commit and completeJob repeats it.
CommitBudget == \A j \in JobIds : commits[j] <= 1 + retries[j] + slips[j]

\* A job the admin left alone gets exactly its attempts: never more claims than maxAttempts, and it
\* is given up no earlier.
AttemptsSpent ==
  \A j \in JobIds :
    retries[j] = 0 =>
      /\ jobs[j].attempts <= MaxAttempts
      /\ jobs[j].status = "dead" => jobs[j].attempts = MaxAttempts

\* A job marked done has had its work committed, whatever retries, errors and stale workers did.
DoneMeansDone == \A j \in JobIds : jobs[j].status = "done" => commits[j] > 0

Stuck(j) == jobs[j].status = "running" /\ \A w \in Workers : ~Holds(w, j)

\* Only a crash leaves a job stuck: nobody else may forget a claimed row.
StuckOnlyByCrash == \A j \in JobIds : Stuck(j) => crashes > 0

\* Every queued job is eventually done, dead or stuck (what opsSummary counts as stuck and an admin
\* must retry by hand): backoff, lost races and errors never keep it queued for ever.
Settles ==
  \A j \in JobIds :
    jobs[j].status = "queued" ~> jobs[j].status \in {"done", "dead"} \/ Stuck(j)

============================================================================
