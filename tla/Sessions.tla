------------------------------ MODULE Sessions ------------------------------
(***************************************************************************)
(* Who is signed in, at the server: the sign-in that asks the hub about    *)
(* somebody and then starts a session (discord_routes.rs), the sweep that  *)
(* asks about those with sessions again (hub/members.rs, db/sessions.rs),  *)
(* and the requests that look their session up (auth_middleware.rs), all   *)
(* with connections of one pool.                                           *)
(*                                                                         *)
(* The sessions are in the order they were last verified in, and the first *)
(* `due` of them longer ago than VERIFY_AFTER_MINUTES: no clock is needed. *)
(***************************************************************************)
EXTENDS Integers, Sequences, FiniteSets, SequencesExt

CONSTANTS Users,
          Requests,      \* requests that may be under way at a time
          Connections,   \* how many the pool has
          SweepMembers,  \* SWEEP_MEMBERS
          MaxSessions, MaxMoves  \* bounds: sessions at a time; what the hub and the users do

SessionConstants ==
  /\ IsFiniteSet(Users) /\ {Connections, SweepMembers} \subseteq Nat \ {0} /\ {MaxSessions, MaxMoves} \subseteq Nat

Roles == {"none", "member", "admin"}   \* "none": no member, as the hub has it
Rest == [at |-> "rest", todo |-> <<>>, told |-> "none"]

VARIABLES
  hub,       \* what the hub says of everybody
  sessions,  \* [of, role], in the order of verified_at
  due,
  sweep,     \* whom reverify_once has still to ask about, and what it was told
  logins,    \* what a sign-in under way was told, or "none"
  stage,     \* request -> where it is
  held,      \* request -> the connections it has
  moves,
  since,     \* for the properties: whom the sweep was done with since somebody
             \* has been due
  passed     \* for the properties: somebody was passed over for another twice

sessionVars == <<sessions, due>>
requestVars == <<stage, held>>
vars == <<hub, sessionVars, sweep, logins, requestVars, moves, since, passed>>

Stages == {"idle", "arrives", "checks", "passes", "handles"}

\* The connections taken: a request has one, or two at the most.
Taken == {c \in Requests \X (1..2) : c[2] <= held[c[1]]}
Free == Connections - Cardinality(Taken)

\* What is left of the first i sessions without those of somebody.
LeftOf(list, u) ==
  LET left[i \in 0..Len(list)] ==
        IF i = 0 THEN <<>> ELSE IF list[i].of = u THEN left[i - 1] ELSE Append(left[i - 1], list[i])
  IN left

NotOf(list, u) == LeftOf(list, u)[Len(list)]

DueUsers(list, n) == {list[i].of : i \in 1..n}

-----------------------------------------------------------------------------
\* The server starts, with a session of everybody from before.
Init ==
  /\ hub \in [Users -> Roles]
  /\ sessions \in {[i \in DOMAIN users |-> [of |-> users[i], role |-> "member"]] : users \in SetToSeqs(Users)}
  /\ due = 0 /\ sweep = Rest
  /\ logins = [u \in Users |-> "none"]
  /\ stage = [r \in Requests |-> "idle"] /\ held = [r \in Requests |-> 0]
  /\ moves = 0 /\ since = [u \in Users |-> {}] /\ passed = FALSE

Does == moves < MaxMoves /\ moves' = moves + 1

\* The hub has somebody in another role, or no more.
HubMoves(u, role) ==
  /\ Does /\ role # hub[u] /\ hub' = [hub EXCEPT ![u] = role]
  /\ UNCHANGED <<sessionVars, sweep, logins, requestVars>>

\* discord_login: lookup. Whom the hub does not call a member is turned away.
LoginAsks(u) ==
  /\ Does /\ logins[u] = "none" /\ hub[u] # "none"
  /\ logins' = [logins EXCEPT ![u] = hub[u]]
  /\ UNCHANGED <<hub, sessionVars, sweep, requestVars>>

\* start_session, with a connection; or the browser is gone by then.
LoginEnds(u, starts) ==
  /\ logins[u] # "none" /\ logins' = [logins EXCEPT ![u] = "none"]
  /\ IF starts
     THEN /\ Free > 0 /\ Len(sessions) < MaxSessions
          /\ sessions' = Append(sessions, [of |-> u, role |-> logins[u]])
     ELSE UNCHANGED sessions
  /\ UNCHANGED <<hub, due, sweep, requestVars, moves>>

\* logout, or a session that runs out.
SessionEnds(i) ==
  /\ Does /\ sessions' = RemoveAt(sessions, i)
  /\ due' = IF i <= due THEN due - 1 ELSE due
  /\ UNCHANGED <<hub, sweep, logins, requestVars>>

\* VERIFY_AFTER_MINUTES go by.
GrowsOld ==
  /\ due < Len(sessions) /\ due' = due + 1
  /\ UNCHANGED <<hub, sessions, sweep, logins, requestVars, moves>>

-----------------------------------------------------------------------------
(* The sweep: reverify_once.                                               *)

\* Mutant: MAX(verified_at), longest ago last.
VerifiedLast(u, v) ==
  \E i \in DOMAIN sessions : sessions[i].of = u /\ \A j \in DOMAIN sessions : sessions[j].of = v => i > j

\* MIN(verified_at): one's first session was verified before each of another's.
Before(u, v) ==
  \E i \in DOMAIN sessions : sessions[i].of = u /\ \A j \in DOMAIN sessions : sessions[j].of = v => i < j

\* sessions_to_verify: those due, in that order, up to a number.
ToVerify ==
  LET dueUsers == DueUsers(sessions, due) IN
  {todo \in UNION {TupleOf(dueUsers, n) : n \in 1..SweepMembers} :
     /\ \A i, j \in DOMAIN todo : i < j => Before(todo[i], todo[j])
     /\ \A v \in dueUsers \ ToSet(todo) :
          Len(todo) = SweepMembers /\ \A i \in DOMAIN todo : Before(todo[i], v)}

SweepStarts ==
  /\ sweep = Rest /\ Free > 0
  /\ \E todo \in ToVerify : sweep' = [at |-> "asks", todo |-> todo, told |-> "none"]
  /\ UNCHANGED <<hub, sessionVars, logins, requestVars, moves>>

\* The hub has answered.
HubSays ==
  /\ sweep.at = "asks" /\ sweep' = [sweep EXCEPT !.at = "told", !.told = hub[Head(sweep.todo)]]
  /\ UNCHANGED <<hub, sessionVars, logins, requestVars, moves>>

\* The hub gives no answer, or the database: the rest waits for the next sweep.
SweepFails ==
  /\ sweep.at # "rest" /\ sweep' = Rest
  /\ UNCHANGED <<hub, sessionVars, logins, requestVars, moves>>

\* refresh_sessions and delete_sessions_of, of all their sessions there are now.
NotesAnswer ==
  LET u == Head(sweep.todo)
      refreshed == [i \in 1..Len(sessions) - Len(NotOf(sessions, u)) |-> [of |-> u, role |-> sweep.told]]
  IN /\ sweep.at = "told" /\ Free > 0
     /\ sessions' = IF sweep.told = "none" THEN NotOf(sessions, u) ELSE NotOf(sessions, u) \o refreshed
     /\ due' = Len(LeftOf(sessions, u)[due])
     /\ sweep' = IF Len(sweep.todo) = 1 THEN Rest
                 ELSE [at |-> "asks", todo |-> Tail(sweep.todo), told |-> "none"]
     /\ UNCHANGED <<hub, logins, requestVars, moves>>

-----------------------------------------------------------------------------
(* A request: SessionMiddleware.call, and the handler behind it.           *)

Takes(r) == Free > 0 /\ held' = [held EXCEPT ![r] = @ + 1]
Returns(r, n) == held' = [held EXCEPT ![r] = @ - n]

Arrives(r) == Does /\ stage[r] = "idle" /\ stage' = [stage EXCEPT ![r] = "arrives"] /\ UNCHANGED held

LooksUp(r) == stage[r] = "arrives" /\ stage' = [stage EXCEPT ![r] = "checks"] /\ Takes(r)

\* Mutant: the connection is kept while the handler runs.
PassesOn(r) == stage[r] = "checks" /\ stage' = [stage EXCEPT ![r] = "passes"] /\ UNCHANGED held

\* There is a session: the connection goes back before the handler takes its own.
Passes(r) == stage[r] = "checks" /\ stage' = [stage EXCEPT ![r] = "passes"] /\ Returns(r, 1)

Handles(r) == stage[r] = "passes" /\ stage' = [stage EXCEPT ![r] = "handles"] /\ Takes(r)

\* The handler is done; or there was no session.
Ends(r) ==
  /\ stage[r] \in {"checks", "handles"}
  /\ stage' = [stage EXCEPT ![r] = "idle"] /\ Returns(r, held[r])

RequestSteps(r) ==
  /\ \/ Arrives(r)
     \/ (LooksUp(r) \/ Passes(r) \/ Handles(r) \/ Ends(r)) /\ UNCHANGED moves
  /\ UNCHANGED <<hub, sessionVars, sweep, logins>>

-----------------------------------------------------------------------------
\* What the sweep has done with whom, for those still due none of whose sessions ended.
Counts(done, ended) ==
  LET waiting == (DueUsers(sessions, due) \cap DueUsers(sessions', due')) \ (done \cup ended) IN
  /\ since' = [v \in Users |-> IF v \in waiting THEN since[v] \cup done ELSE {}]
  /\ passed' = (passed \/ \E v \in waiting : done \cap since[v] # {})

Next ==
  \/ NotesAnswer /\ Counts({Head(sweep.todo)}, {})
  \/ \E i \in DOMAIN sessions : SessionEnds(i) /\ Counts({}, {sessions[i].of})
  \/ /\ \/ \E u \in Users, role \in Roles : HubMoves(u, role)
        \/ \E u \in Users : LoginAsks(u) \/ \E starts \in BOOLEAN : LoginEnds(u, starts)
        \/ GrowsOld \/ SweepStarts \/ HubSays \/ SweepFails
        \/ \E r \in Requests : RequestSteps(r)
     /\ Counts({}, {})

Spec == Init /\ [][Next]_vars

-----------------------------------------------------------------------------
TypeOK ==
  /\ hub \in [Users -> Roles] /\ logins \in [Users -> Roles]
  /\ sessions \in Seq([of : Users, role : Roles \ {"none"}]) /\ due \in 0..Len(sessions)
  /\ sweep.at \in {"rest", "asks", "told"} /\ ToSet(sweep.todo) \subseteq Users
  /\ (sweep.at = "rest" <=> sweep.todo = <<>>) /\ Len(sweep.todo) <= SweepMembers
  /\ stage \in [Requests -> Stages] /\ held \in [Requests -> 0..1]

\* Nobody whose sessions are due is passed over for the same other twice: however
\* many sessions there are, whoever else signs in, out or in again meanwhile, and
\* wherever the hub leaves a sweep without an answer, the next one begins with
\* those asked about longest ago (hub/members.rs reverify_once).
AskedInTurn == ~passed

\* A request that waits for a connection has none (auth_middleware.rs:123-125,
\* "Holding both lets concurrent requests exhaust the pool and wait on each other
\* forever"): when there is none left, someone has one who needs no other.
SomebodyGoesOn ==
  Free = 0 => \E r \in Requests : held[r] > 0 /\ stage[r] \in {"checks", "handles"}

SessionsHold == TypeOK /\ AskedInTurn /\ SomebodyGoesOn
=============================================================================
