----------------------------- MODULE Affiliates -----------------------------
(***************************************************************************)
(* Who may earn: the affiliates of a workspace, their portal logins and    *)
(* their memberships of its programs.                                      *)
(*                                                                         *)
(* People apply, accept invitations and join from the portal; merchants    *)
(* add, approve, reject, suspend and reactivate.  Each request is one      *)
(* transaction at READ COMMITTED (apps/api src/lib/rls.ts) in three steps: *)
(* it reads the affiliate and counts against the plan, writes the row,     *)
(* which others then wait for, and writes the memberships and commits.     *)
(***************************************************************************)
EXTENDS Integers, FiniteSets

CONSTANTS
  Requests,   \* database connections
  Partners,   \* people, each with an email of their own
  Programs,
  Mode,       \* approvalMode of each program
  Limits,     \* values the plan's limit of active affiliates takes
  MaxCalls,   \* bound: calls in all
  Null

Statuses == {"none", "applied", "active", "suspended", "rejected"}

ASSUME AffiliatesConstants ==
  /\ Mode \in [Programs -> {"auto", "manual", "invite_only"}]
  /\ Limits \subseteq Nat
  /\ MaxCalls \in Nat
  /\ IsFiniteSet(Partners)
  /\ Null \notin Partners \cup Programs /\ Null \notin Statuses \cup {"disabled"}

\* AFFILIATE_TRANSITIONS
Transitions ==
  {<<"applied", "active">>, <<"applied", "rejected">>, <<"active", "suspended">>,
   <<"suspended", "active">>, <<"rejected", "active">>}

VARIABLES
  row,      \* each person's affiliate and the status of the login behind it
  place,    \* the status of each membership
  invited,  \* invitations sent and neither accepted nor expired
  limit,    \* the plan's limit
  tx,       \* each connection's open call
  calls,    \* history: calls begun
  highest,  \* history: the highest limit so far
  late,     \* history: admissions during which another one committed
  raced     \* history: partners two of whose calls overlapped

history == <<highest, late, raced>>

affiliateVars == <<row, place, invited, limit, tx, calls, highest, late, raced>>

----------------------------------------------------------------------------
(* A call keeps the copy it read and what it is going to write: the        *)
(* affiliate's status and login (Null: left alone), and the memberships it *)
(* asks for.  crossed and beaten are history: the partners whose calls     *)
(* committed while this one was open, and whether one of those admitted.   *)

Idle == [op |-> "none", who |-> Null, copy |-> Null, to |-> Null, login |-> Null,
         asks |-> {}, want |-> "none", read |-> Null, at |-> "idle",
         crossed |-> {}, beaten |-> FALSE]

Call(op, a, to, login, asks, want) ==
  [op |-> op, who |-> a, copy |-> row[a], to |-> to, login |-> login,
   asks |-> asks, want |-> want, read |-> Null, at |-> "begun",
   crossed |-> {}, beaten |-> FALSE]

Begin(r, call) ==
  /\ tx[r] = Idle
  /\ calls < MaxCalls
  /\ tx' = [tx EXCEPT ![r] = call]
  /\ calls' = calls + 1
  /\ UNCHANGED <<row, place, invited, limit, history>>

Active == {a \in Partners : row[a].status = "active"}

\* assertWithinLimit
WithinPlan == Cardinality(Active) + 1 <= limit

\* Only becoming active counts against the plan.
Admits(to) == to = "active" => WithinPlan

Asked(p) == IF Mode[p] = "auto" THEN "active" ELSE "pending"

----------------------------------------------------------------------------
(* People.                                                                 *)

\* An application for a known email needs that account's password, so an account to sign in to.
ApplyToProgram(r, a, p) ==
  /\ Mode[p] # "invite_only"
  /\ LET first == IF Mode[p] = "auto" THEN "active" ELSE "applied"
     IN  \/ /\ row[a].status = "none"
            /\ Admits(first)
            /\ Begin(r, Call("apply", a, first, "active", {p}, Asked(p)))
         \/ /\ row[a].status \notin {"none", "suspended"}
            /\ row[a].login # "none"
            /\ Begin(r, Call("apply", a, Null, Null, {p}, Asked(p)))

\* The invitation went to this email, so accepting it creates the login where there is none.
AcceptInvite(r, a, p) ==
  /\ <<a, p>> \in invited
  /\ row[a].status # "suspended"
  /\ LET to == IF row[a].status \in {"none", "applied"} THEN "active" ELSE Null
         login == IF to = "active" \/ row[a].login = "none" THEN "active" ELSE Null
     IN  /\ Admits(to)
         /\ Begin(r, Call("accept", a, to, login, {p}, "active"))

JoinProgram(r, a, p) ==
  /\ row[a] = [status |-> "active", login |-> "active"]
  /\ Mode[p] # "invite_only"
  /\ Begin(r, Call("join", a, Null, Null, {p}, Asked(p)))

----------------------------------------------------------------------------
(* Merchants.                                                              *)

\* Mutant: an affiliate added by hand is not counted.
CreateUncounted(r, a, asks) ==
  /\ row[a].status # "suspended"
  /\ LET to == IF row[a].status = "none" THEN "active" ELSE Null
     IN  Begin(r, Call("create", a, to, Null, asks, "active"))

\* Added by hand: active at once, and without a login.
CreateAffiliate(r, a, asks) ==
  /\ row[a].status # "suspended"
  /\ LET to == IF row[a].status = "none" THEN "active" ELSE Null
     IN  /\ Admits(to)
         /\ Begin(r, Call("create", a, to, Null, asks, "active"))

Transition(r, op, a, to) ==
  /\ <<row[a].status, to>> \in Transitions
  /\ Admits(to)
  /\ LET login == IF to \in {"suspended", "rejected"} THEN "disabled" ELSE "active"
     IN  Begin(r, Call(op, a, to, IF row[a].login = "none" THEN Null ELSE login, {}, "none"))

ApproveAffiliate(r, a) == Transition(r, "approve", a, "active")
RejectAffiliate(r, a) == Transition(r, "reject", a, "rejected")
SuspendAffiliate(r, a) == Transition(r, "suspend", a, "suspended")
ReactivateAffiliate(r, a) == Transition(r, "reactivate", a, "active")

InviteAffiliate(a, p) ==
  /\ calls < MaxCalls
  /\ invited' = invited \cup {<<a, p>>}
  /\ calls' = calls + 1
  /\ UNCHANGED <<row, place, limit, tx, history>>

LapseInvite(i) ==
  /\ invited' = invited \ {i}
  /\ UNCHANGED <<row, place, limit, tx, calls, history>>

\* The workspace changes its plan.
ChangePlan(n) ==
  /\ calls < MaxCalls
  /\ limit' = n
  /\ calls' = calls + 1
  /\ highest' = IF n > highest THEN n ELSE highest
  /\ UNCHANGED <<row, place, invited, tx, late, raced>>

----------------------------------------------------------------------------
(* The rest of a call.                                                     *)

Writes(call) == call.to # Null \/ call.login # Null

Locked(r, a) == \E o \in Requests \ {r} : tx[o].at = "written" /\ tx[o].who = a /\ Writes(tx[o])

\* Another call has created the affiliate, or its login, since this one looked: a unique index.
Clash(r) ==
  LET now == row[tx[r].who]
  IN  \/ tx[r].copy.status = "none" /\ tx[r].to # Null /\ now.status # "none"
      \/ tx[r].copy.login = "none" /\ tx[r].login # Null /\ now.login # "none"

\* The affiliate's row is written by its id, whatever it has become since it was read.
WriteRow(r) ==
  /\ tx[r].at = "begun"
  /\ Writes(tx[r]) => ~Locked(r, tx[r].who) /\ ~Clash(r)
  /\ tx' = [tx EXCEPT ![r] = [@ EXCEPT !.at = "written", !.read = place[tx[r].who]]]
  /\ UNCHANGED <<row, place, invited, limit, calls, history>>

\* The call is rolled back.
Refuse(r) ==
  /\ tx[r].at = "begun" /\ ~Locked(r, tx[r].who) /\ Clash(r)
  /\ tx' = [tx EXCEPT ![r] = Idle]
  /\ UNCHANGED <<row, place, invited, limit, calls, history>>

\* Mutant: a repeated application asks again.
UpsertAnew(call, p) == call.want

\* An active membership stays active, says the copy the call read.
Upsert(call, p) == IF call.read[p] = "active" THEN "active" ELSE call.want

\* What a call leaves of the memberships of its affiliate.
Memberships(call) ==
  [p \in Programs |->
     IF p \in call.asks THEN Upsert(call, p)
     ELSE IF call.op = "approve" /\ place[call.who][p] = "pending" THEN "active"
     ELSE place[call.who][p]]

\* Mutant: the login outlives the suspension.
LoginKept(call) ==
  [status |-> IF call.to = Null THEN row[call.who].status ELSE call.to,
   login |-> IF call.login \in {Null, "disabled"} THEN row[call.who].login ELSE call.login]

\* What a call leaves of its affiliate.
Written(call) ==
  [status |-> IF call.to = Null THEN row[call.who].status ELSE call.to,
   login |-> IF call.login = Null THEN row[call.who].login ELSE call.login]

Commit(r) ==
  /\ tx[r].at = "written"
  /\ LET call == tx[r]
     IN  /\ row' = [row EXCEPT ![call.who] = Written(call)]
         /\ place' = [place EXCEPT ![call.who] = Memberships(call)]
         /\ invited' = IF call.op = "accept" THEN invited \ ({call.who} \X call.asks) ELSE invited
         /\ tx' = [o \in Requests |->
                     IF o = r \/ tx[o] = Idle THEN Idle
                     ELSE [tx[o] EXCEPT !.crossed = @ \cup {call.who},
                                        !.beaten = @ \/ call.to = "active"]]
         /\ late' = IF call.to = "active" /\ call.beaten THEN late + 1 ELSE late
         /\ raced' = IF call.who \in call.crossed THEN raced \cup {call.who} ELSE raced
  /\ UNCHANGED <<limit, calls, highest>>

----------------------------------------------------------------------------

\* How one earlier call may have left a person: unknown, an application, or added by hand, to every
\* program or to none.
Standings ==
  {[row |-> [status |-> s, login |-> l], places |-> m] :
     s \in Statuses, l \in {"none", "active"}, m \in [Programs -> {"none", "pending", "active"}]}

Earlier ==
  {e \in Standings :
     LET held == {e.places[p] : p \in Programs}
     IN  \/ e.row = [status |-> "none", login |-> "none"] /\ held = {"none"}
         \/ /\ e.row = [status |-> "applied", login |-> "active"]
            /\ \E p \in Programs : /\ Mode[p] = "manual"
                                   /\ e.places = [q \in Programs |-> IF q = p THEN "pending" ELSE "none"]
         \/ e.row = [status |-> "active", login |-> "none"] /\ held \in {{"none"}, {"active"}}}

AffiliatesInit ==
  /\ \E start \in [Partners -> Earlier] :
       /\ row = [a \in Partners |-> start[a].row]
       /\ place = [a \in Partners |-> start[a].places]
  /\ limit \in {n \in Limits : Cardinality(Active) <= n}
  /\ invited = {}
  /\ tx = [r \in Requests |-> Idle]
  /\ calls = 0
  /\ highest = limit
  /\ late = 0
  /\ raced = {}

AffiliatesNext ==
  \/ \E r \in Requests, a \in Partners :
       \/ \E p \in Programs : ApplyToProgram(r, a, p) \/ AcceptInvite(r, a, p) \/ JoinProgram(r, a, p)
       \/ \E asks \in SUBSET Programs : CreateAffiliate(r, a, asks)
       \/ ApproveAffiliate(r, a)
       \/ RejectAffiliate(r, a)
       \/ SuspendAffiliate(r, a)
       \/ ReactivateAffiliate(r, a)
  \/ \E a \in Partners, p \in Programs : InviteAffiliate(a, p)
  \/ \E i \in invited : LapseInvite(i)
  \/ \E n \in Limits \ {limit} : ChangePlan(n)
  \/ \E r \in Requests : WriteRow(r) \/ Refuse(r) \/ Commit(r)

----------------------------------------------------------------------------
(* Properties.                                                             *)

\* Types, and what a call may hold at each of its steps.
AffiliatesTypeOK ==
  /\ row \in [Partners -> [status : Statuses, login : {"none", "active", "disabled"}]]
  /\ place \in [Partners -> [Programs -> {"none", "pending", "active"}]]
  /\ invited \subseteq Partners \X Programs
  /\ limit \in Limits /\ highest \in Limits /\ limit <= highest
  /\ late \in Nat /\ calls \in 0..MaxCalls /\ raced \subseteq Partners
  /\ \A r \in Requests : tx[r] # Idle => tx[r].who \in Partners

\* The plan's limit of active affiliates is passed only by admissions that overlap: each affiliate
\* over it was admitted while another admission committed (assertWithinLimit, plans.ts:127-141).
WithinLimit == Cardinality(Active) <= highest + late

Ends(r) == tx[r].at = "written" /\ tx'[r] = Idle

\* An active membership is never put back to pending (affiliates.ts:491), unless the call that
\* does it overlapped another call of the same person.
NeverDemoted ==
  [][\A r \in Requests, p \in Programs :
       /\ Ends(r) /\ tx[r].who \notin tx[r].crossed
       /\ place[tx[r].who][p] = "active"
       => place'[tx[r].who][p] = "active"]_affiliateVars

\* Whoever is suspended or rejected cannot sign in (affiliates.ts:179, 393), by whatever sequence
\* of applications, invitations and decisions they got there, unless two of them overlapped.
ShutOut ==
  \A a \in Partners \ raced :
    row[a].status \in {"suspended", "rejected"} => row[a].login # "active"
============================================================================
