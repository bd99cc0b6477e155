--------------------------- MODULE JobQueueProofs ---------------------------
(***************************************************************************)
(* Theorems about JobQueue: for any number of jobs, workers, attempts,     *)
(* retries, errors and crashes, its safety properties hold.                *)
(***************************************************************************)
EXTENDS JobQueue, FiniteSetTheorems, TLAPS

\* A step of one worker, with the worker named.
LEMMA NextCases ==
  ASSUME [Next]_vars
  PROVE  \/ \E new \in SUBSET JobIds : Enqueue(new)
         \/ \E w \in Workers :
              \/ Pick(w) \/ Claim(w) \/ LoseRace(w)
              \/ Commit(w) \/ Throw(w) \/ Slip(w)
              \/ CompleteJob(w) \/ FailJob(w) \/ Crash(w)
         \/ \E j \in JobIds : RetryJob(j)
         \/ UNCHANGED vars
  BY DEF Next, WorkerStep, Fault

\* A worker that rests holds nothing, and nobody else changes.
LEMMA RestKeeps ==
  ASSUME TypeOK, NEW w \in Workers, Rest(w)
  PROVE  /\ workers' \in [Workers -> [stage : Stages, job : JobIds \cup {Null}, attempt : Nat]]
         /\ workers'[w].stage = "idle" /\ workers'[w].job = Null
         /\ \A v \in Workers : v # w => workers'[v] = workers[v]
  BY DEF TypeOK, Rest, Idle, Stages

\* Types are kept by every step.
LEMMA TypeStep ==
  ASSUME TypeOK, [Next]_vars
  PROVE  TypeOK'
<1> USE QueueConstants DEF QueueConstants, TypeOK, JobStatus, Stages, At
<1>1. ASSUME NEW new \in SUBSET JobIds, Enqueue(new) PROVE TypeOK'
  BY <1>1 DEF Enqueue
<1>2. ASSUME NEW w \in Workers, Pick(w) PROVE TypeOK'
  BY <1>2 DEF Pick
<1>3. ASSUME NEW w \in Workers, Claim(w) PROVE TypeOK'
  BY <1>3 DEF Claim
<1>4. ASSUME NEW w \in Workers, LoseRace(w) \/ Crash(w) PROVE TypeOK'
  <2>1. Rest(w) /\ UNCHANGED <<jobs, commits, retries, slips>> /\ crashes' \in Nat
    BY <1>4 DEF LoseRace, Crash
  <2> QED
    BY <2>1, RestKeeps
<1>5. ASSUME NEW w \in Workers, Commit(w) PROVE TypeOK'
  BY <1>5 DEF Commit, GoTo
<1>6. ASSUME NEW w \in Workers, Throw(w) PROVE TypeOK'
  BY <1>6 DEF Throw, GoTo
<1>7. ASSUME NEW w \in Workers, Slip(w) PROVE TypeOK'
  BY <1>7 DEF Slip, GoTo
<1>8. ASSUME NEW w \in Workers, CompleteJob(w) PROVE TypeOK'
  BY <1>8 DEF CompleteJob, SetStatus, Rest, Idle
<1>9. ASSUME NEW w \in Workers, FailJob(w) PROVE TypeOK'
  BY <1>9 DEF FailJob, SetStatus, Rest, Idle, AfterFailure
<1>10. ASSUME NEW j \in JobIds, RetryJob(j) PROVE TypeOK'
  BY <1>10 DEF RetryJob
<1>11. CASE UNCHANGED vars
  BY <1>11 DEF vars
<1> QED
  BY <1>1, <1>2, <1>3, <1>4, <1>5, <1>6, <1>7, <1>8, <1>9, <1>10, <1>11, NextCases

\* Every reachable state is well typed, and a worker is idle exactly when it has no job.
THEOREM TypeCorrect == Safety => []TypeOK
<1>1. Init => TypeOK
  BY DEF Init, Idle, TypeOK, JobStatus, Stages, At
<1>2. TypeOK /\ [Next]_vars => TypeOK'
  BY TypeStep
<1> QED
  BY <1>1, <1>2, PTL DEF Safety

----------------------------------------------------------------------------
(* Claims.  ClaimedOnce and AttemptsSpent need each other and the link     *)
(* between a worker's copy of the row and the row.                         *)

\* What holds of a job that no admin has retried, and of the workers that have it in hand.
Claimed(j) ==
  /\ \A w \in Workers : Holds(w, j) =>
       /\ jobs[j].status = "running"
       /\ workers[w].attempt = jobs[j].attempts
       /\ \A v \in Workers : Holds(v, j) => v = w
  /\ jobs[j].attempts <= MaxAttempts
  /\ jobs[j].status = "queued" => jobs[j].attempts < MaxAttempts
  /\ jobs[j].status = "dead" => jobs[j].attempts = MaxAttempts

ClaimInv == TypeOK /\ \A j \in JobIds : retries[j] = 0 => Claimed(j)

\* A worker that lets go of its job disturbs nobody else's claim.
LEMMA RestClaimed ==
  ASSUME NEW w \in Workers, NEW j \in JobIds, Claimed(j),
         jobs'[j] = jobs[j], workers'[w].stage = "idle",
         \A v \in Workers : v # w => workers'[v] = workers[v]
  PROVE  Claimed(j)'
<1>1. \A v \in Workers : Holds(v, j)' => v # w /\ Holds(v, j)
  BY DEF Holds
<1>2. \A v \in Workers : Holds(v, j)' => workers'[v].attempt = workers[v].attempt
  BY <1>1
<1> QED
  BY <1>1, <1>2 DEF Claimed

\* ... and when it is the only one, nobody holds the job any more.
LEMMA RestReleases ==
  ASSUME NEW w \in Workers, NEW j \in JobIds, Claimed(j), Holds(w, j),
         workers'[w].stage = "idle",
         \A v \in Workers : v # w => workers'[v] = workers[v]
  PROVE  \A v \in Workers : ~Holds(v, j)'
<1>1. \A v \in Workers : Holds(v, j)' => v # w /\ Holds(v, j)
  BY DEF Holds
<1> QED
  BY <1>1 DEF Claimed

\* The inductive invariant of claims is kept by every step.
LEMMA ClaimStep ==
  ASSUME ClaimInv, [Next]_vars
  PROVE  ClaimInv'
<1>0. TypeOK /\ TypeOK'
  BY TypeStep DEF ClaimInv
<1> SUFFICES ASSUME NEW j \in JobIds, retries'[j] = 0 PROVE Claimed(j)'
  BY <1>0 DEF ClaimInv
<1>c. retries[j] = 0 => Claimed(j)
  BY DEF ClaimInv
<1>1. ASSUME NEW new \in SUBSET JobIds, Enqueue(new) PROVE Claimed(j)'
  BY <1>1, <1>0, <1>c, QueueConstants
     DEF Enqueue, QueueConstants, TypeOK, JobStatus, Stages, At, Claimed, Holds
<1>2. ASSUME NEW w \in Workers, Pick(w) PROVE Claimed(j)'
  BY <1>2, <1>0, <1>c, QueueConstants
     DEF Pick, QueueConstants, TypeOK, JobStatus, Stages, At, Claimed, Holds
<1>3. ASSUME NEW w \in Workers, Claim(w) PROVE Claimed(j)'
  BY <1>3, <1>0, <1>c, QueueConstants
     DEF Claim, Claimable, QueueConstants, TypeOK, JobStatus, Stages, At, Claimed, Holds
<1>4. ASSUME NEW w \in Workers, LoseRace(w) \/ Crash(w) PROVE Claimed(j)'
  <2>1. Rest(w) /\ UNCHANGED <<jobs, retries>>
    BY <1>4 DEF LoseRace, Crash
  <2> QED
    BY <2>1, <1>0, <1>c, RestKeeps, RestClaimed
<1>5. ASSUME NEW w \in Workers, Commit(w) PROVE Claimed(j)'
  BY <1>5, <1>0, <1>c, QueueConstants
     DEF Commit, GoTo, QueueConstants, TypeOK, JobStatus, Stages, At, Claimed, Holds
<1>6. ASSUME NEW w \in Workers, Throw(w) PROVE Claimed(j)'
  BY <1>6, <1>0, <1>c, QueueConstants
     DEF Throw, GoTo, QueueConstants, TypeOK, JobStatus, Stages, At, Claimed, Holds
<1>7. ASSUME NEW w \in Workers, Slip(w) PROVE Claimed(j)'
  BY <1>7, <1>0, <1>c, QueueConstants
     DEF Slip, GoTo, QueueConstants, TypeOK, JobStatus, Stages, At, Claimed, Holds
<1>8. ASSUME NEW w \in Workers, CompleteJob(w) \/ FailJob(w) PROVE Claimed(j)'
  <2>1. /\ Rest(w) /\ UNCHANGED retries
        /\ workers[w].stage \in {"ran", "failing"} /\ workers[w].job \in JobIds
    BY <1>8, <1>0 DEF CompleteJob, FailJob, TypeOK, At
  <2>2. /\ workers'[w].stage = "idle"
        /\ \A v \in Workers : v # w => workers'[v] = workers[v]
    BY <2>1, <1>0, RestKeeps
  <2>3. retries[j] = 0 /\ Claimed(j)
    BY <2>1, <1>c
  <2>4. CASE workers[w].job = j
    <3>1. Holds(w, j)
      BY <2>1, <2>4 DEF Holds
    <3>2. workers[w].attempt = jobs[j].attempts /\ jobs[j].attempts <= MaxAttempts
      BY <2>3, <3>1 DEF Claimed
    <3>3. /\ jobs'[j].attempts = jobs[j].attempts
          /\ jobs'[j].status = "done" \/ jobs'[j].status = AfterFailure(jobs[j].attempts)
      <4>1. CASE CompleteJob(w)
        BY <4>1, <1>0, <2>4 DEF CompleteJob, SetStatus, TypeOK
      <4>2. CASE FailJob(w)
        <5>1. jobs' = [jobs EXCEPT ![j].status = AfterFailure(jobs[j].attempts)]
          BY <4>2, <2>4, <3>2 DEF FailJob, SetStatus
        <5> QED
          BY <5>1, <1>0 DEF TypeOK
      <4> QED
        BY <1>8, <4>1, <4>2
    <3>4. \A v \in Workers : ~Holds(v, j)'
      BY <2>2, <2>3, <3>1, RestReleases
    <3>5. /\ jobs'[j].status = "queued" => jobs'[j].attempts < MaxAttempts
          /\ jobs'[j].status = "dead" => jobs'[j].attempts = MaxAttempts
      <4>1. jobs[j].attempts \in Nat /\ MaxAttempts \in Nat
        BY <1>0, QueueConstants DEF QueueConstants, TypeOK
      <4>3. CASE jobs[j].attempts >= MaxAttempts
        <5>1. jobs[j].attempts = MaxAttempts
          BY <3>2, <4>1, <4>3
        <5>2. jobs'[j].status # "queued"
          BY <3>3, <4>3 DEF AfterFailure
        <5> QED
          BY <3>3, <5>1, <5>2
      <4>4. CASE ~(jobs[j].attempts >= MaxAttempts)
        <5>1. jobs[j].attempts < MaxAttempts
          BY <4>1, <4>4
        <5>2. jobs'[j].status # "dead"
          BY <3>3, <4>4 DEF AfterFailure
        <5> QED
          BY <3>3, <5>1, <5>2
      <4> QED
        BY <4>3, <4>4
    <3> QED
      BY <3>2, <3>3, <3>4, <3>5 DEF Claimed
  <2>5. CASE workers[w].job # j
    <3>1. jobs'[j] = jobs[j]
      BY <1>0, <1>8, <2>1, <2>5 DEF CompleteJob, FailJob, SetStatus, TypeOK
    <3> QED
      BY <2>2, <2>3, <3>1, RestClaimed
  <2> QED
    BY <2>4, <2>5
<1>9. ASSUME NEW i \in JobIds, RetryJob(i) PROVE Claimed(j)'
  BY <1>9, <1>0, <1>c, QueueConstants
     DEF RetryJob, QueueConstants, TypeOK, JobStatus, Stages, At, Claimed, Holds
<1>10. CASE UNCHANGED vars
  BY <1>10, <1>c DEF vars, Claimed, Holds
<1> QED
  BY <1>1, <1>2, <1>3, <1>4, <1>5, <1>6, <1>7, <1>8, <1>9, <1>10, NextCases

\* The claim invariant holds in every reachable state.
LEMMA ClaimsCorrect == Safety => []ClaimInv
<1>1. Init => ClaimInv
  BY QueueConstants
     DEF QueueConstants, Init, Idle, ClaimInv, TypeOK, JobStatus, Stages, At, Claimed, Holds
<1>2. ClaimInv /\ [Next]_vars => ClaimInv'
  BY ClaimStep
<1> QED
  BY <1>1, <1>2, PTL DEF Safety

\* Unless an admin retried it, a job is never in the hands of two workers.
THEOREM ClaimedOnceCorrect == Safety => []ClaimedOnce
<1>1. ClaimInv => ClaimedOnce
  BY DEF ClaimInv, Claimed, ClaimedOnce
<1> QED
  BY <1>1, ClaimsCorrect, PTL

\* Unless an admin retried it, a job is claimed at most maxAttempts times and given up no earlier.
THEOREM AttemptsSpentCorrect == Safety => []AttemptsSpent
<1>1. ClaimInv => AttemptsSpent
  BY DEF ClaimInv, Claimed, AttemptsSpent
<1> QED
  BY <1>1, ClaimsCorrect, PTL

----------------------------------------------------------------------------
(* Completion.  A worker that has run its handler has committed its work.  *)

DoneInv ==
  /\ TypeOK
  /\ DoneMeansDone
  /\ \A w \in Workers : At(w, "ran") => commits[workers[w].job] > 0

\* Every step keeps what ties a completion to a commit.
LEMMA DoneStep ==
  ASSUME DoneInv, [Next]_vars
  PROVE  DoneInv'
<1>0. TypeOK /\ TypeOK'
  BY TypeStep DEF DoneInv
<1>1. ASSUME NEW new \in SUBSET JobIds, Enqueue(new) PROVE DoneInv'
  BY <1>1, <1>0 DEF Enqueue, DoneInv, DoneMeansDone, TypeOK, At
<1>2. ASSUME NEW w \in Workers, Pick(w) PROVE DoneInv'
  BY <1>2, <1>0 DEF Pick, DoneInv, DoneMeansDone, TypeOK, At
<1>3. ASSUME NEW w \in Workers, Claim(w) PROVE DoneInv'
  BY <1>3, <1>0, QueueConstants DEF QueueConstants, Claim, DoneInv, DoneMeansDone, TypeOK, At
<1>4. ASSUME NEW w \in Workers, LoseRace(w) \/ Crash(w) PROVE DoneInv'
  <2>1. Rest(w) /\ UNCHANGED <<jobs, commits>>
    BY <1>4 DEF LoseRace, Crash
  <2>2. /\ workers'[w].stage = "idle"
        /\ \A v \in Workers : v # w => workers'[v] = workers[v]
    BY <2>1, <1>0, RestKeeps
  <2> QED
    BY <2>1, <2>2, <1>0 DEF DoneInv, DoneMeansDone, At
<1>5. ASSUME NEW w \in Workers, Commit(w) PROVE DoneInv'
  BY <1>5, <1>0, QueueConstants
     DEF QueueConstants, Commit, GoTo, DoneInv, DoneMeansDone, TypeOK, At
<1>6. ASSUME NEW w \in Workers, Throw(w) \/ Slip(w) PROVE DoneInv'
  BY <1>6, <1>0 DEF Throw, Slip, GoTo, DoneInv, DoneMeansDone, TypeOK, At
<1>7. ASSUME NEW w \in Workers, CompleteJob(w) \/ FailJob(w) PROVE DoneInv'
  <2>1. Rest(w) /\ UNCHANGED commits
    BY <1>7 DEF CompleteJob, FailJob
  <2>2. /\ workers'[w].stage = "idle"
        /\ \A v \in Workers : v # w => workers'[v] = workers[v]
    BY <2>1, <1>0, RestKeeps
  <2>3. CASE CompleteJob(w)
    BY <2>1, <2>2, <2>3, <1>0 DEF CompleteJob, SetStatus, DoneInv, DoneMeansDone, TypeOK, At
  <2>4. CASE FailJob(w)
    <3>1. AfterFailure(workers[w].attempt) # "done"
      BY DEF AfterFailure
    <3> QED
      BY <2>1, <2>2, <2>4, <3>1, <1>0 DEF FailJob, SetStatus, DoneInv, DoneMeansDone, TypeOK, At
  <2> QED
    BY <1>7, <2>3, <2>4
<1>8. ASSUME NEW j \in JobIds, RetryJob(j) PROVE DoneInv'
  BY <1>8, <1>0 DEF RetryJob, DoneInv, DoneMeansDone, TypeOK, At
<1>9. CASE UNCHANGED vars
  BY <1>9, <1>0 DEF vars, DoneInv, DoneMeansDone, At
<1> QED
  BY <1>1, <1>2, <1>3, <1>4, <1>5, <1>6, <1>7, <1>8, <1>9, NextCases

\* A job is marked done only after its work was committed, whatever retries, errors and crashes did.
THEOREM DoneMeansDoneCorrect == Safety => []DoneMeansDone
<1>1. Init => DoneInv
  BY DEF Init, Idle, DoneInv, DoneMeansDone, TypeOK, JobStatus, Stages, At
<1>2. DoneInv /\ [Next]_vars => DoneInv'
  BY DoneStep
<1>3. DoneInv => DoneMeansDone
  BY DEF DoneInv
<1> QED
  BY <1>1, <1>2, <1>3, PTL DEF Safety

----------------------------------------------------------------------------
(* Stuck jobs.                                                             *)

\* As long as no process has stopped, a running job is in somebody's hands.
HeldInv == TypeOK /\ (crashes = 0 => \A j \in JobIds : ~Stuck(j))

\* Every step keeps a running job in somebody's hands until a crash.
LEMMA HeldStep ==
  ASSUME HeldInv, [Next]_vars
  PROVE  HeldInv'
<1>0. TypeOK /\ TypeOK'
  BY TypeStep DEF HeldInv
<1> SUFFICES ASSUME crashes' = 0, NEW j \in JobIds PROVE ~Stuck(j)'
  BY <1>0 DEF HeldInv
<1>a. crashes = 0 => ~Stuck(j)
  BY DEF HeldInv
<1>1. ASSUME NEW new \in SUBSET JobIds, Enqueue(new) PROVE ~Stuck(j)'
  BY <1>1, <1>0, <1>a DEF Enqueue, Stuck, Holds, TypeOK
<1>2. ASSUME NEW w \in Workers, Pick(w) PROVE ~Stuck(j)'
  BY <1>2, <1>0, <1>a DEF Pick, Stuck, Holds, TypeOK, At
<1>3. ASSUME NEW w \in Workers, Claim(w) PROVE ~Stuck(j)'
  BY <1>3, <1>0, <1>a, QueueConstants DEF QueueConstants, Claim, Stuck, Holds, TypeOK, At
<1>4. ASSUME NEW w \in Workers, LoseRace(w) PROVE ~Stuck(j)'
  <2>1. Rest(w) /\ UNCHANGED <<jobs, crashes>> /\ ~Holds(w, j)
    BY <1>4 DEF LoseRace, At, Holds
  <2>2. \A v \in Workers : v # w => workers'[v] = workers[v]
    BY <2>1, <1>0, RestKeeps
  <2> QED
    BY <2>1, <2>2, <1>a DEF Stuck, Holds
<1>5. ASSUME NEW w \in Workers, Crash(w) PROVE FALSE
  BY <1>5, <1>0 DEF Crash, TypeOK
<1>6. ASSUME NEW w \in Workers, Commit(w) \/ Throw(w) \/ Slip(w) PROVE ~Stuck(j)'
  <2>1. \E to \in {"ran", "failing"} : GoTo(w, to)
    BY <1>6 DEF Commit, Throw, Slip
  <2>2. UNCHANGED <<jobs, crashes>>
    BY <1>6 DEF Commit, Throw, Slip
  <2>3. \A v \in Workers : Holds(v, j) => Holds(v, j)'
    BY <2>1, <1>0 DEF GoTo, Holds, TypeOK
  <2> QED
    BY <2>2, <2>3, <1>a DEF Stuck
<1>7. ASSUME NEW w \in Workers, CompleteJob(w) \/ FailJob(w) PROVE ~Stuck(j)'
  <2>1. Rest(w) /\ UNCHANGED crashes
    BY <1>7 DEF CompleteJob, FailJob
  <2>2. \A v \in Workers : v # w => workers'[v] = workers[v]
    BY <2>1, <1>0, RestKeeps
  <2>3. CASE workers[w].job = j
    <3>1. AfterFailure(workers[w].attempt) # "running"
      BY DEF AfterFailure
    <3>2. jobs'[j].status # "running"
      BY <1>7, <2>3, <3>1, <1>0 DEF CompleteJob, FailJob, SetStatus, TypeOK
    <3> QED
      BY <3>2 DEF Stuck
  <2>4. CASE workers[w].job # j
    <3>1. jobs'[j] = jobs[j]
      BY <1>7, <2>4, <1>0 DEF CompleteJob, FailJob, SetStatus, TypeOK
    <3> QED
      BY <2>1, <2>2, <2>4, <3>1, <1>a DEF Stuck, Holds
  <2> QED
    BY <2>3, <2>4
<1>8. ASSUME NEW i \in JobIds, RetryJob(i) PROVE ~Stuck(j)'
  BY <1>8, <1>0, <1>a DEF RetryJob, Stuck, Holds, TypeOK
<1>9. CASE UNCHANGED vars
  BY <1>9, <1>a DEF vars, Stuck, Holds
<1> QED
  BY <1>1, <1>2, <1>3, <1>4, <1>5, <1>6, <1>7, <1>8, <1>9, NextCases

\* Nothing but a crash leaves a job running with nobody to end it.
THEOREM StuckOnlyByCrashCorrect == Safety => []StuckOnlyByCrash
<1>1. Init => HeldInv
  BY DEF Init, Idle, HeldInv, Stuck, TypeOK, JobStatus, Stages, At
<1>2. HeldInv /\ [Next]_vars => HeldInv'
  BY HeldStep
<1>3. HeldInv => StuckOnlyByCrash
  BY DEF HeldInv, StuckOnlyByCrash, TypeOK
<1> QED
  BY <1>1, <1>2, <1>3, PTL DEF Safety

----------------------------------------------------------------------------
(* The commit budget.  Beside the commits made, count those that may still *)
(* come: one for each worker that may yet commit or send the job back, and *)
(* one if the job is queued.                                               *)

Pending(j) == {w \in Workers : workers[w].job = j /\ workers[w].stage \in {"running", "failing"}}

Waiting(j) == IF jobs[j].status = "queued" THEN 1 ELSE 0

Owed(j) == commits[j] + Cardinality(Pending(j)) + Waiting(j)

\* A job that was never enqueued has no commits and no worker.
Untouched ==
  \A j \in JobIds : jobs[j].status = "absent" =>
    commits[j] = 0 /\ \A w \in Workers : workers[w].job # j

BudgetInv ==
  /\ TypeOK
  /\ Untouched
  /\ \A j \in JobIds : Owed(j) <= 1 + retries[j] + slips[j]

\* The workers counted for a job are finitely many.
LEMMA PendingFinite ==
  ASSUME NEW j
  PROVE  IsFiniteSet(Pending(j)) /\ Cardinality(Pending(j)) \in Nat
  BY QueueConstants, FS_Subset, FS_CardinalityType DEF QueueConstants, Pending

\* The share of one worker in the count.
Share(w, j) == IF w \in Pending(j) THEN 1 ELSE 0

\* When only w changes, the count changes by its share.
LEMMA PendingCounts ==
  ASSUME NEW j, NEW w \in Workers,
         \A v \in Workers : v # w => workers'[v] = workers[v]
  PROVE  Cardinality(Pending(j)') = Cardinality(Pending(j)) - Share(w, j) + Share(w, j)'
<1>0. Cardinality(Pending(j)) \in Nat
  BY PendingFinite
<1>1. CASE w \notin Pending(j) /\ w \in Pending(j)'
  <2>1. Pending(j)' = Pending(j) \cup {w}
    BY <1>1 DEF Pending
  <2>2. Cardinality(Pending(j)') = Cardinality(Pending(j)) + 1
    BY <2>1, <1>1, PendingFinite, FS_AddElement
  <2> QED
    BY <1>0, <1>1, <2>2 DEF Share
<1>2. CASE w \in Pending(j) /\ w \notin Pending(j)'
  <2>1. Pending(j)' = Pending(j) \ {w}
    BY <1>2 DEF Pending
  <2>2. Cardinality(Pending(j)') = Cardinality(Pending(j)) - 1
    BY <2>1, <1>2, PendingFinite, FS_RemoveElement
  <2> QED
    BY <1>0, <1>2, <2>2 DEF Share
<1>3. CASE w \in Pending(j) <=> w \in Pending(j)'
  <2>1. Pending(j)' = Pending(j)
    BY <1>3 DEF Pending
  <2> QED
    BY <1>0, <1>3, <2>1 DEF Share
<1> QED
  BY <1>1, <1>2, <1>3

\* What a step of w may add to what is owed for j is paid for by a retry or an error.
PaidFor(w, j) ==
  commits'[j] + Share(w, j)' + Waiting(j)' + retries[j] + slips[j]
    <= commits[j] + Share(w, j) + Waiting(j) + retries'[j] + slips'[j]

\* A step of one worker that is paid for keeps the budget.
LEMMA PaidKeepsBudget ==
  ASSUME TypeOK, TypeOK', NEW j \in JobIds, NEW w \in Workers,
         \A v \in Workers : v # w => workers'[v] = workers[v],
         PaidFor(w, j),
         Owed(j) <= 1 + retries[j] + slips[j]
  PROVE  Owed(j)' <= 1 + retries'[j] + slips'[j]
<1>1. Cardinality(Pending(j)') = Cardinality(Pending(j)) - Share(w, j) + Share(w, j)'
  BY PendingCounts
<1>2. Cardinality(Pending(j)) \in Nat
  BY PendingFinite
<1>3. /\ commits[j] \in Nat /\ retries[j] \in Nat /\ slips[j] \in Nat
      /\ commits'[j] \in Nat /\ retries'[j] \in Nat /\ slips'[j] \in Nat
  BY DEF TypeOK
<1>4. /\ Share(w, j) \in {0, 1} /\ Share(w, j)' \in {0, 1}
      /\ Waiting(j) \in {0, 1} /\ Waiting(j)' \in {0, 1}
  BY DEF Share, Waiting
<1> QED
  BY <1>1, <1>2, <1>3, <1>4 DEF PaidFor, Owed

\* Every step leaves jobs that were never enqueued untouched.
LEMMA UntouchedStep ==
  ASSUME TypeOK, Untouched, [Next]_vars
  PROVE  Untouched'
<1>0. TypeOK'
  BY TypeStep
<1>1. ASSUME NEW new \in SUBSET JobIds, Enqueue(new) PROVE Untouched'
  BY <1>1 DEF Enqueue, Untouched, TypeOK
<1>2. ASSUME NEW w \in Workers, Pick(w) PROVE Untouched'
  BY <1>2 DEF Pick, Untouched, TypeOK, At
<1>3. ASSUME NEW w \in Workers, Claim(w) PROVE Untouched'
  BY <1>3, QueueConstants DEF QueueConstants, Claim, Untouched, TypeOK, At
<1>4. ASSUME NEW w \in Workers, LoseRace(w) \/ Crash(w) PROVE Untouched'
  <2>1. Rest(w) /\ UNCHANGED <<jobs, commits>>
    BY <1>4 DEF LoseRace, Crash
  <2>2. /\ workers'[w].job = Null
        /\ \A v \in Workers : v # w => workers'[v] = workers[v]
    BY <2>1, RestKeeps
  <2> QED
    BY <2>1, <2>2, QueueConstants DEF QueueConstants, Untouched
<1>5. ASSUME NEW w \in Workers, Commit(w) PROVE Untouched'
  BY <1>5, QueueConstants DEF QueueConstants, Commit, GoTo, Untouched, TypeOK, At
<1>6. ASSUME NEW w \in Workers, Throw(w) \/ Slip(w) PROVE Untouched'
  <2>1. GoTo(w, "failing") /\ UNCHANGED <<jobs, commits>>
    BY <1>6 DEF Throw, Slip
  <2>2. \A v \in Workers : workers'[v].job = workers[v].job
    BY <2>1 DEF GoTo, TypeOK
  <2> QED
    BY <2>1, <2>2 DEF Untouched
<1>7. ASSUME NEW w \in Workers, CompleteJob(w) \/ FailJob(w) PROVE Untouched'
  <2>1. Rest(w) /\ UNCHANGED commits
    BY <1>7 DEF CompleteJob, FailJob
  <2>2. /\ workers'[w].job = Null
        /\ \A v \in Workers : v # w => workers'[v] = workers[v]
    BY <2>1, RestKeeps
  <2>3. \A j \in JobIds : jobs'[j].status = "absent" => jobs[j].status = "absent"
    <3>1. AfterFailure(workers[w].attempt) # "absent"
      BY DEF AfterFailure
    <3> QED
      BY <1>7, <3>1 DEF CompleteJob, FailJob, SetStatus, TypeOK
  <2> QED
    BY <2>1, <2>2, <2>3, QueueConstants DEF QueueConstants, Untouched
<1>8. ASSUME NEW j \in JobIds, RetryJob(j) PROVE Untouched'
  BY <1>8 DEF RetryJob, Untouched, TypeOK
<1>9. CASE UNCHANGED vars
  BY <1>9 DEF vars, Untouched
<1> QED
  BY <1>1, <1>2, <1>3, <1>4, <1>5, <1>6, <1>7, <1>8, <1>9, NextCases

\* A worker that rests owes nothing.
LEMMA RestBudget ==
  ASSUME TypeOK, TypeOK', NEW w \in Workers, NEW j \in JobIds, Rest(w)
  PROVE  Share(w, j)' = 0 /\ \A v \in Workers : v # w => workers'[v] = workers[v]
<1>1. /\ workers'[w].stage = "idle"
      /\ \A v \in Workers : v # w => workers'[v] = workers[v]
  BY RestKeeps
<1> QED
  BY <1>1 DEF Share, Pending

\* Every step keeps the budget: most move a unit of it, a retry or an error adds one to both sides.
LEMMA BudgetStep ==
  ASSUME BudgetInv, [Next]_vars
  PROVE  BudgetInv'
<1>0. TypeOK /\ Untouched /\ TypeOK' /\ Untouched'
  BY TypeStep, UntouchedStep DEF BudgetInv
<1> SUFFICES ASSUME NEW j \in JobIds
             PROVE  Owed(j)' <= 1 + retries'[j] + slips'[j]
  BY <1>0 DEF BudgetInv
<1>a. Owed(j) <= 1 + retries[j] + slips[j]
  BY DEF BudgetInv
<1>b. /\ commits[j] \in Nat /\ retries[j] \in Nat /\ slips[j] \in Nat
      /\ Waiting(j) \in {0, 1} /\ Waiting(j)' \in {0, 1}
  BY <1>0 DEF TypeOK, Waiting
<1> DEFINE Goal == Owed(j)' <= 1 + retries'[j] + slips'[j]
<1>p. ASSUME NEW w \in Workers, PaidFor(w, j),
             \A v \in Workers : v # w => workers'[v] = workers[v]
      PROVE  Goal
  BY <1>p, <1>0, <1>a, PaidKeepsBudget
<1> HIDE DEF Goal
<1>1. ASSUME NEW new \in SUBSET JobIds, Enqueue(new) PROVE Goal
  <2>1. UNCHANGED <<workers, commits, retries, slips>>
    BY <1>1 DEF Enqueue
  <2>2. Pending(j)' = Pending(j)
    BY <2>1 DEF Pending
  <2>3. CASE j \in new
    <3>1. commits[j] = 0 /\ \A w \in Workers : workers[w].job # j
      BY <1>0, <1>1, <2>3 DEF Enqueue, Untouched
    <3>2. Pending(j) = {}
      BY <3>1 DEF Pending
    <3>3. Cardinality(Pending(j)') = 0
      BY <2>2, <3>2, FS_EmptySet
    <3> QED
      BY <2>1, <3>1, <3>3, <1>b DEF Owed, Goal
  <2>4. CASE j \notin new
    <3>1. Waiting(j)' = Waiting(j)
      BY <1>1, <2>4 DEF Enqueue, Waiting
    <3> QED
      BY <2>1, <2>2, <3>1, <1>a DEF Owed, Goal
  <2> QED
    BY <2>3, <2>4
<1>2. ASSUME NEW w \in Workers, Pick(w) PROVE Goal
  <2>1. \A v \in Workers : v # w => workers'[v] = workers[v]
    BY <1>2, <1>0 DEF Pick, TypeOK
  <2>2. Share(w, j) = 0 /\ Share(w, j)' = 0
    BY <1>2, <1>0 DEF Pick, At, Share, Pending, TypeOK
  <2>3. UNCHANGED <<commits, retries, slips>> /\ Waiting(j)' = Waiting(j)
    BY <1>2 DEF Pick, Waiting
  <2>4. PaidFor(w, j)
    BY <2>2, <2>3, <1>b DEF PaidFor
  <2> QED
    BY <2>1, <2>4, <1>p
<1>3. ASSUME NEW w \in Workers, Claim(w) PROVE Goal
  <2>1. \A v \in Workers : v # w => workers'[v] = workers[v]
    BY <1>3, <1>0 DEF Claim, TypeOK
  <2>2. workers'[w].job = workers[w].job /\ workers[w].stage = "picked"
    BY <1>3, <1>0 DEF Claim, At, TypeOK
  <2>3. Share(w, j) = 0
    BY <2>2 DEF Share, Pending
  <2>4. UNCHANGED <<commits, retries, slips>>
    BY <1>3 DEF Claim
  <2>5. CASE workers[w].job = j
    <3>1. Waiting(j) = 1
      BY <1>3, <2>5 DEF Claim, Claimable, Waiting
    <3>2. Waiting(j)' = 0
      BY <1>3, <2>5, <1>0 DEF Claim, Waiting, TypeOK
    <3>3. Share(w, j)' \in {0, 1}
      BY DEF Share
    <3>4. PaidFor(w, j)
      BY <2>3, <2>4, <3>1, <3>2, <3>3, <1>b DEF PaidFor
    <3> QED
      BY <2>1, <3>4, <1>p
  <2>6. CASE workers[w].job # j
    <3>1. Waiting(j)' = Waiting(j)
      BY <1>3, <2>6, <1>0 DEF Claim, Waiting, TypeOK
    <3>2. Share(w, j)' = 0
      BY <2>2, <2>6 DEF Share, Pending
    <3>3. PaidFor(w, j)
      BY <2>3, <2>4, <3>1, <3>2, <1>b DEF PaidFor
    <3> QED
      BY <2>1, <3>3, <1>p
  <2> QED
    BY <2>5, <2>6
<1>4. ASSUME NEW w \in Workers, LoseRace(w) \/ Crash(w) PROVE Goal
  <2>1. Rest(w) /\ UNCHANGED <<jobs, commits, retries, slips>>
    BY <1>4 DEF LoseRace, Crash
  <2>2. Share(w, j)' = 0 /\ \A v \in Workers : v # w => workers'[v] = workers[v]
    BY <2>1, <1>0, RestBudget
  <2>3. Waiting(j)' = Waiting(j) /\ Share(w, j) \in {0, 1}
    BY <2>1 DEF Waiting, Share
  <2>4. PaidFor(w, j)
    BY <2>1, <2>2, <2>3, <1>b DEF PaidFor
  <2> QED
    BY <2>2, <2>4, <1>p
<1>5. ASSUME NEW w \in Workers, Commit(w) PROVE Goal
  <2>1. /\ \A v \in Workers : v # w => workers'[v] = workers[v]
        /\ workers'[w].stage = "ran" /\ workers[w].stage = "running"
    BY <1>5, <1>0 DEF Commit, GoTo, At, TypeOK
  <2>2. UNCHANGED <<jobs, retries, slips>>
    BY <1>5 DEF Commit
  <2>3. Waiting(j)' = Waiting(j)
    BY <2>2 DEF Waiting
  <2>4. Share(w, j)' = 0
    BY <2>1 DEF Share, Pending
  <2>5. CASE workers[w].job = j
    <3>1. Share(w, j) = 1
      BY <2>1, <2>5 DEF Share, Pending
    <3>2. commits'[j] = commits[j] + 1
      BY <1>5, <2>5, <1>0 DEF Commit, TypeOK
    <3>3. PaidFor(w, j)
      BY <2>2, <2>3, <2>4, <3>1, <3>2, <1>b DEF PaidFor
    <3> QED
      BY <2>1, <3>3, <1>p
  <2>6. CASE workers[w].job # j
    <3>1. Share(w, j) = 0
      BY <2>6 DEF Share, Pending
    <3>2. commits'[j] = commits[j]
      BY <1>5, <2>6, <1>0 DEF Commit, TypeOK
    <3>3. PaidFor(w, j)
      BY <2>2, <2>3, <2>4, <3>1, <3>2, <1>b DEF PaidFor
    <3> QED
      BY <2>1, <3>3, <1>p
  <2> QED
    BY <2>5, <2>6
<1>6. ASSUME NEW w \in Workers, Throw(w) PROVE Goal
  <2>1. /\ \A v \in Workers : v # w => workers'[v] = workers[v]
        /\ workers'[w].stage = "failing" /\ workers[w].stage = "running"
        /\ workers'[w].job = workers[w].job
    BY <1>6, <1>0 DEF Throw, GoTo, At, TypeOK
  <2>2. Share(w, j)' = Share(w, j) /\ Share(w, j) \in {0, 1}
    BY <2>1 DEF Share, Pending
  <2>3. UNCHANGED <<commits, retries, slips>> /\ Waiting(j)' = Waiting(j)
    BY <1>6 DEF Throw, Waiting
  <2>4. PaidFor(w, j)
    BY <2>2, <2>3, <1>b DEF PaidFor
  <2> QED
    BY <2>1, <2>4, <1>p
<1>7. ASSUME NEW w \in Workers, Slip(w) PROVE Goal
  <2>1. GoTo(w, "failing") /\ UNCHANGED <<jobs, commits, retries>>
    BY <1>7 DEF Slip
  <2>2. /\ \A v \in Workers : v # w => workers'[v] = workers[v]
        /\ workers'[w].job = workers[w].job
    BY <2>1, <1>0 DEF GoTo, TypeOK
  <2>3. Waiting(j)' = Waiting(j) /\ Share(w, j) \in {0, 1} /\ Share(w, j)' \in {0, 1}
    BY <2>1 DEF Waiting, Share
  <2>4. CASE workers[w].job = j
    <3>1. slips'[j] = slips[j] + 1
      BY <1>7, <2>4, <1>0 DEF Slip, TypeOK
    <3>2. PaidFor(w, j)
      BY <2>1, <2>3, <3>1, <1>b DEF PaidFor
    <3> QED
      BY <2>2, <3>2, <1>p
  <2>5. CASE workers[w].job # j
    <3>1. slips'[j] = slips[j]
      BY <1>7, <2>5, <1>0 DEF Slip, TypeOK
    <3>2. Share(w, j) = 0 /\ Share(w, j)' = 0
      BY <2>2, <2>5 DEF Share, Pending
    <3>3. PaidFor(w, j)
      BY <2>1, <2>3, <3>1, <3>2, <1>b DEF PaidFor
    <3> QED
      BY <2>2, <3>3, <1>p
  <2> QED
    BY <2>4, <2>5
<1>8. ASSUME NEW w \in Workers, CompleteJob(w) \/ FailJob(w) PROVE Goal
  <2>1. Rest(w) /\ UNCHANGED <<commits, retries, slips>>
    BY <1>8 DEF CompleteJob, FailJob
  <2>2. Share(w, j)' = 0 /\ \A v \in Workers : v # w => workers'[v] = workers[v]
    BY <2>1, <1>0, RestBudget
  <2>3. Share(w, j) \in {0, 1}
    BY DEF Share
  <2>4. Waiting(j)' <= Waiting(j) + Share(w, j)
    <3>1. CASE workers[w].job # j
      <4>1. jobs'[j] = jobs[j]
        BY <1>8, <3>1, <1>0 DEF CompleteJob, FailJob, SetStatus, TypeOK
      <4> QED
        BY <4>1, <2>3 DEF Waiting
    <3>2. CASE CompleteJob(w) /\ workers[w].job = j
      <4>1. jobs'[j].status = "done"
        BY <3>2, <1>0 DEF CompleteJob, SetStatus, TypeOK
      <4> QED
        BY <4>1, <2>3, <1>b DEF Waiting
    <3>3. CASE FailJob(w) /\ workers[w].job = j
      <4>1. Share(w, j) = 1
        BY <3>3 DEF FailJob, At, Share, Pending
      <4> QED
        BY <4>1, <1>b
    <3> QED
      BY <1>8, <3>1, <3>2, <3>3
  <2>5. PaidFor(w, j)
    BY <2>1, <2>2, <2>3, <2>4, <1>b DEF PaidFor
  <2> QED
    BY <2>2, <2>5, <1>p
<1>9. ASSUME NEW i \in JobIds, RetryJob(i) PROVE Goal
  <2>1. UNCHANGED <<workers, commits, slips>>
    BY <1>9 DEF RetryJob
  <2>2. Pending(j)' = Pending(j) /\ Cardinality(Pending(j)) \in Nat
    BY <2>1, PendingFinite DEF Pending
  <2>3. CASE i = j
    <3>1. retries'[j] = retries[j] + 1
      BY <1>9, <2>3, <1>0 DEF RetryJob, TypeOK
    <3> QED
      BY <2>1, <2>2, <3>1, <1>a, <1>b DEF Owed, Goal
  <2>4. CASE i # j
    <3>1. retries'[j] = retries[j] /\ Waiting(j)' = Waiting(j)
      BY <1>9, <2>4, <1>0 DEF RetryJob, Waiting, TypeOK
    <3> QED
      BY <2>1, <2>2, <3>1, <1>a DEF Owed, Goal
  <2> QED
    BY <2>3, <2>4
<1>10. CASE UNCHANGED vars
  <2>1. Pending(j)' = Pending(j) /\ Waiting(j)' = Waiting(j)
    BY <1>10 DEF vars, Pending, Waiting
  <2> QED
    BY <1>10, <2>1, <1>a DEF vars, Owed, Goal
<1> QED
  BY <1>1, <1>2, <1>3, <1>4, <1>5, <1>6, <1>7, <1>8, <1>9, <1>10, NextCases DEF Goal

\* A job's handler commits once, and once more for each admin retry or database error at worst.
THEOREM CommitBudgetCorrect == Safety => []CommitBudget
<1>1. Init => BudgetInv
  <2> SUFFICES ASSUME Init PROVE BudgetInv
    OBVIOUS
  <2>1. TypeOK
    BY DEF Init, Idle, TypeOK, JobStatus, Stages, At
  <2>2. Untouched
    BY QueueConstants DEF QueueConstants, Init, Idle, Untouched
  <2>3. ASSUME NEW j \in JobIds PROVE Owed(j) <= 1 + retries[j] + slips[j]
    <3>1. Pending(j) = {}
      BY DEF Init, Idle, Pending
    <3>2. Cardinality(Pending(j)) = 0
      BY <3>1, FS_EmptySet
    <3>3. commits[j] = 0 /\ retries[j] = 0 /\ slips[j] = 0 /\ Waiting(j) = 0
      BY DEF Init, Waiting
    <3> QED
      BY <3>2, <3>3 DEF Owed
  <2> QED
    BY <2>1, <2>2, <2>3 DEF BudgetInv
<1>2. BudgetInv /\ [Next]_vars => BudgetInv'
  BY BudgetStep
<1>3. BudgetInv => CommitBudget
  <2> SUFFICES ASSUME BudgetInv, NEW j \in JobIds
               PROVE  commits[j] <= 1 + retries[j] + slips[j]
    BY DEF CommitBudget
  <2>1. Cardinality(Pending(j)) \in Nat /\ Waiting(j) \in {0, 1}
    BY PendingFinite DEF Waiting
  <2>2. commits[j] \in Nat /\ retries[j] \in Nat /\ slips[j] \in Nat
    BY DEF BudgetInv, TypeOK
  <2>3. Owed(j) <= 1 + retries[j] + slips[j]
    BY DEF BudgetInv
  <2> QED
    BY <2>1, <2>2, <2>3 DEF Owed
<1> QED
  BY <1>1, <1>2, <1>3, PTL DEF Safety

============================================================================
