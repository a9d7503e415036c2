------------------------------ MODULE HubCache ------------------------------
(***************************************************************************)
(* How viewers' requests reach the hub: the cache of hub/cache.rs, which   *)
(* lets one request per key fetch while the others wait, and the client's  *)
(* budget (HubBudget) it draws on together with the background tasks.      *)
(*                                                                         *)
(* Requests run on several threads: every lock of the code ends a step. A  *)
(* lock of the in-flight table is an object of its own (an Arc), which may *)
(* outlive its place in the table.  What a request is answered with (the   *)
(* value, an entry younger than MAX_STALE, the error) changes nothing and  *)
(* is left out.                                                            *)
(***************************************************************************)
EXTENDS HubBudget, FiniteSets

CONSTANTS Requests, Keys,
          Locks,        \* lock objects, more than can be in use
          Never, NoKey, NoLock, Nobody,
          Ttl,          \* how long an entry is fresh
          MaxStale,     \* MAX_STALE
          MaxEntries,   \* MAX_ENTRIES
          Budget,       \* the budget configured or assumed at the start
          Discovered,   \* the budgets the hub's /me may lead to
          Pauses,       \* what the hub may send as Retry-After
          MaxClock, MaxCancels, MaxTasks   \* bounds on what happens

ASSUME FinitelyManyRequests == IsFiniteSet(Requests) /\ IsFiniteSet(Keys)
ASSUME AbsentValues ==
  NoKey \notin Keys /\ NoLock \notin Locks /\ Nobody \notin Requests /\ Never \notin Nat
ASSUME NumbersAreNatural ==
  /\ {Ttl, MaxStale, MaxClock, MaxCancels, MaxTasks} \subseteq Nat
  /\ {MaxEntries, Budget} \cup Discovered \cup Pauses \subseteq Nat \ {0}

VARIABLES
  clock,
  entries,    \* TtlCache.entries: key -> when it was stored, or Never
  table,      \* TtlCache.in_flight: key -> lock, or NoLock
  holder,     \* lock -> the request that has its guard, or Nobody
  pc, key, lock,   \* where a request is, its key, the lock it refers to
  outcome,    \* what its fetch returned
  client,     \* the HubClient's budget
  others,     \* calls under way for no request: the background tasks', and those
              \* whose request was cancelled
  changedAt,  \* when the budget changed
  cancels     \* how many requests were cancelled, against the bound

requestVars == <<pc, key, lock, outcome>>
clientVars  == <<client, others, changedAt>>
vars == <<clock, entries, table, holder, requestVars, clientVars, cancels>>

Steps == {"idle", "join", "wait", "ask", "call", "over", "store"}
Outcomes == {"none", "value", "refused"}

Stored == {k \in Keys : entries[k] # Never}

\* A request past its wait has the guard of the lock it refers to, nobody else has.
GuardsAreHeld ==
  /\ \A r \in Requests : pc[r] \in {"wait", "ask", "call", "over", "store"} => lock[r] # NoLock
  /\ \A r \in Requests : pc[r] \in {"ask", "call", "over", "store"} => holder[lock[r]] = r
  /\ \A l \in Locks : holder[l] # Nobody =>
       lock[holder[l]] = l /\ pc[holder[l]] \in {"ask", "call", "over", "store"}

TypeOK ==
  /\ clock \in 0..MaxClock
  /\ entries \in [Keys -> 0..MaxClock \cup {Never}]
  /\ table \in [Keys -> Locks \cup {NoLock}]
  /\ holder \in [Locks -> Requests \cup {Nobody}]
  /\ pc \in [Requests -> Steps]
  /\ key \in [Requests -> Keys \cup {NoKey}]
  /\ lock \in [Requests -> Locks \cup {NoLock}]
  /\ outcome \in [Requests -> Outcomes]
  /\ client.budget \in {Budget} \cup Discovered
  /\ client.blockedUntil \in Nat
  /\ \A i \in 1..Len(client.sent) : client.sent[i] \in [at : 0..clock, by : Priorities]
  /\ cancels \in 0..MaxCancels /\ others \in 0..MaxTasks + MaxCancels
  /\ changedAt \in 0..MaxClock
  /\ GuardsAreHeld

Init ==
  /\ clock = 0
  /\ entries = [k \in Keys |-> Never]
  /\ table = [k \in Keys |-> NoLock]
  /\ holder = [l \in Locks |-> Nobody]
  /\ pc = [r \in Requests |-> "idle"]
  /\ key = [r \in Requests |-> NoKey]
  /\ lock = [r \in Requests |-> NoLock]
  /\ outcome = [r \in Requests |-> "none"]
  /\ client = NewClient(Budget)
  /\ others = 0 /\ cancels = 0 /\ changedAt = 0

Tick ==
  /\ clock < MaxClock /\ clock' = clock + 1
  /\ client' = Aged(client, clock')
  /\ UNCHANGED <<entries, table, holder, requestVars, others, changedAt, cancels>>

-----------------------------------------------------------------------------
(* One request: get_or_fetch_dated.                                        *)

\* lookup with the key's time to live.
Fresh(k) == entries[k] # Never /\ clock - entries[k] < Ttl

\* A request found nothing fresh; one that does is answered and is no step.
Start(r, k) ==
  /\ pc[r] = "idle" /\ ~Fresh(k)
  /\ pc' = [pc EXCEPT ![r] = "join"]
  /\ key' = [key EXCEPT ![r] = k]
  /\ UNCHANGED <<clock, entries, table, holder, lock, outcome, clientVars, cancels>>

\* The strong count of a lock: the requests that refer to it, and the table.
StrongCount(l) ==
  Cardinality({r \in Requests : lock[r] = l}) + Cardinality({k \in Keys : table[k] = l})

Unused == {l \in Locks : StrongCount(l) = 0}

\* The key's lock, from the table or new in it.
Join(r) ==
  /\ pc[r] = "join" /\ pc' = [pc EXCEPT ![r] = "wait"]
  /\ \/ table[key[r]] # NoLock /\ UNCHANGED table
     \/ /\ table[key[r]] = NoLock /\ Unused # {}
        /\ table' = [table EXCEPT ![key[r]] = CHOOSE l \in Unused : TRUE]
  /\ lock' = [lock EXCEPT ![r] = table'[key[r]]]
  /\ UNCHANGED <<clock, entries, holder, key, outcome, clientVars, cancels>>

\* The request ends, or is dropped: its guard and its reference with it.
Leave(r) ==
  /\ pc' = [pc EXCEPT ![r] = "idle"]
  /\ key' = [key EXCEPT ![r] = NoKey]
  /\ lock' = [lock EXCEPT ![r] = NoLock]
  /\ outcome' = [outcome EXCEPT ![r] = "none"]
  /\ holder' = [l \in Locks |-> IF holder[l] = r THEN Nobody ELSE holder[l]]

\* lock().await returns the guard. Another request may have filled the entry
\* meanwhile; this one then ends here, and the lock stays in the table.
Lock(r) ==
  /\ pc[r] = "wait" /\ holder[lock[r]] = Nobody
  /\ \/ Fresh(key[r]) /\ Leave(r)
     \/ /\ ~Fresh(key[r]) /\ pc' = [pc EXCEPT ![r] = "ask"]
        /\ holder' = [holder EXCEPT ![lock[r]] = r]
        /\ UNCHANGED <<key, lock, outcome>>
  /\ UNCHANGED <<clock, entries, table, clientVars, cancels>>

\* The fetch begins with acquire: the request goes out, or is refused.
Ask(r) ==
  /\ pc[r] = "ask"
  /\ client' = Acquire(client, clock, "interactive")
  /\ IF Grants(client, "interactive")
     THEN pc' = [pc EXCEPT ![r] = "call"] /\ UNCHANGED outcome
     ELSE pc' = [pc EXCEPT ![r] = "over"] /\ outcome' = [outcome EXCEPT ![r] = "refused"]
  /\ UNCHANGED <<clock, entries, table, holder, key, lock, others, changedAt, cancels>>

\* 429 and 503: the hub asks for a pause.
HubPauses ==
  \E seconds \in Pauses : client' = BlockFor(client, clock + seconds)

\* The hub answers with the value, with another answer, or asks for a pause.
Answer(r) ==
  /\ pc[r] = "call" /\ pc' = [pc EXCEPT ![r] = "over"]
  /\ \/ \E o \in {"value", "refused"} : /\ outcome' = [outcome EXCEPT ![r] = o]
                                        /\ UNCHANGED client
     \/ outcome' = [outcome EXCEPT ![r] = "refused"] /\ HubPauses
  /\ UNCHANGED <<clock, entries, table, holder, key, lock, others, changedAt, cancels>>

\* Mutant: the lock leaves the table whoever waits for it.
UnlistAlways(r) ==
  /\ pc[r] = "over" /\ pc' = [pc EXCEPT ![r] = "store"]
  /\ table' = [table EXCEPT ![key[r]] = NoLock]
  /\ UNCHANGED <<clock, entries, holder, key, lock, outcome, clientVars, cancels>>

\* The lock leaves the table unless another request refers to it.
Unlist(r) ==
  /\ pc[r] = "over" /\ pc' = [pc EXCEPT ![r] = "store"]
  /\ table' = IF StrongCount(lock[r]) <= 2 THEN [table EXCEPT ![key[r]] = NoLock] ELSE table
  /\ UNCHANGED <<clock, entries, holder, key, lock, outcome, clientVars, cancels>>

\* store: a full cache first drops what is too old to be served, then everything.
Store(k) ==
  LET full == Cardinality(Stored) >= MaxEntries
      kept == IF full THEN {i \in Stored : clock - entries[i] < MaxStale} ELSE Stored
      left == IF Cardinality(kept) >= MaxEntries THEN {} ELSE kept
  IN  entries' = [i \in Keys |-> IF i = k THEN clock
                                 ELSE IF i \in left THEN entries[i] ELSE Never]

Finish(r) ==
  /\ pc[r] = "store"
  /\ IF outcome[r] = "value" THEN Store(key[r]) ELSE UNCHANGED entries
  /\ Leave(r)
  /\ UNCHANGED <<clock, table, clientVars, cancels>>

\* Mutant: a dropped request keeps its guard.
CancelKeepsGuard(r) ==
  /\ pc[r] \in {"wait", "call"} /\ cancels < MaxCancels /\ cancels' = cancels + 1
  /\ others' = IF pc[r] = "call" THEN others + 1 ELSE others
  /\ pc' = [pc EXCEPT ![r] = "idle"]
  /\ key' = [key EXCEPT ![r] = NoKey]
  /\ lock' = [lock EXCEPT ![r] = NoLock]
  /\ UNCHANGED <<clock, entries, table, holder, outcome, client, changedAt>>

\* The viewer is gone and the request's future is dropped where it awaits; a call
\* already made runs on on its blocking thread, for nobody.
Cancel(r) ==
  /\ pc[r] \in {"wait", "call"} /\ cancels < MaxCancels /\ cancels' = cancels + 1
  /\ others' = IF pc[r] = "call" THEN others + 1 ELSE others
  /\ Leave(r)
  /\ UNCHANGED <<clock, entries, table, client, changedAt>>

-----------------------------------------------------------------------------
(* The background tasks: the sync, the events follower, key discovery.      *)

TaskAsks ==
  /\ others < MaxTasks
  /\ client' = Acquire(client, clock, "sync")
  /\ others' = IF Grants(client, "sync") THEN others + 1 ELSE others
  /\ UNCHANGED <<clock, entries, table, holder, requestVars, changedAt, cancels>>

\* A call ends that no request waits for.
OtherAnswer ==
  /\ others > 0 /\ others' = others - 1
  /\ UNCHANGED client \/ HubPauses
  /\ UNCHANGED <<clock, entries, table, holder, requestVars, changedAt, cancels>>

\* start_key_discovery: once, the hub says what the key may use; not at time 0,
\* which changedAt has for never.
Discover(budget) ==
  /\ changedAt = 0 /\ clock > 0 /\ changedAt' = clock
  /\ client' = SetBudget(client, budget)
  /\ UNCHANGED <<clock, entries, table, holder, requestVars, others, cancels>>

Step(r) == Join(r) \/ Ask(r) \/ Answer(r) \/ Unlist(r) \/ Finish(r)

Next ==
  \/ Tick \/ TaskAsks \/ OtherAnswer
  \/ \E budget \in Discovered : Discover(budget)
  \/ \E r \in Requests : Step(r) \/ Lock(r) \/ Cancel(r) \/ \E k \in Keys : Start(r, k)

Spec == Init /\ [][Next]_vars

\* Threads run on, every call to the hub ends (timeout_global), and tokio's Mutex
\* gives its guard in the order it was asked for.
Fairness == \A r \in Requests : WF_vars(Step(r)) /\ SF_vars(Lock(r))
FairSpec == Spec /\ Fairness

-----------------------------------------------------------------------------
\* At most one request per key is calling the hub, whichever requests come, wait,
\* find the entry filled or are cancelled, and whichever lock objects they were
\* given (cache.rs:1-2, "Concurrent requests for the same key share one upstream
\* call"). The call a cancelled request left behind is nobody's and not counted.
OneCallPerKey ==
  \A r, q \in Requests : pc[r] = "call" /\ pc[q] = "call" /\ key[r] = key[q] => r = q

\* A request's step as the stage SharedCalls has it in.
StageOf(step) ==
  IF step = "idle" THEN "gone" ELSE IF step = "call" THEN "calls"
  ELSE IF step \in {"over", "store"} THEN "knows" ELSE "waits"

Shared == INSTANCE SharedCalls WITH asks <- key, stage <- [r \in Requests |-> StageOf(pc[r])]

\* The cache does what SharedCalls promises: every step of it is one of a request
\* that comes, calls while nobody else calls for its key, learns or goes, or none.
SharesCalls == Shared!Spec

\* While a pause the hub asked for is not over, no request goes out and the pause gets
\* no shorter, whatever calls already out are answered with and whoever asks.
PausesAreKept ==
  [][client.blockedUntil > clock' =>
       /\ client'.blockedUntil >= client.blockedUntil
       /\ Len(client'.sent) <= Len(client.sent)]_vars

\* Whatever viewers ask for, the background tasks have their reserve: unless the hub
\* asked for a pause, one of them is let through as long as they used less than the
\* reserve themselves. For a window after the budget changed this need not hold.
SyncHasItsReserve ==
  LET own == {i \in 1..Len(client.sent) : client.sent[i].by = "sync"}
  IN  /\ client.blockedUntil = 0
      /\ changedAt = 0 \/ clock >= changedAt + Window
      /\ Cardinality(own) < Reserve(client.budget)
      => Grants(client, "sync")

\* Every request ends: no lock is left behind by one that ended early, failed or
\* was cancelled.
RequestsEnd == \A r \in Requests : pc[r] # "idle" ~> pc[r] = "idle"
=============================================================================
