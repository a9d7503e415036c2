--------------------------- MODULE HubCacheProofs ---------------------------
(* That one request per key calls the hub at a time, and that the cache     *)
(* does what SharedCalls promises: for all sets of requests, keys and       *)
(* locks, and every time to live and bound.                                 *)
EXTENDS HubCache, FiniteSetTheorems, SequenceTheorems, WellFoundedInduction, TLAPS

(* The inductive invariant.                                                 *)

CacheTypes ==
  /\ table \in [Keys -> Locks \cup {NoLock}]
  /\ holder \in [Locks -> Requests \cup {Nobody}]
  /\ pc \in [Requests -> Steps]
  /\ key \in [Requests -> Keys \cup {NoKey}]
  /\ lock \in [Requests -> Locks \cup {NoLock}]
  /\ \A r \in Requests : pc[r] # "idle" => key[r] \in Keys

\* Until its fetch is over, a request refers to the lock the table has for its key: a
\* lock leaves the table only when nobody else refers to it.
LockIsListed ==
  \A r \in Requests :
    pc[r] \in {"wait", "ask", "call", "over"} => lock[r] = table[key[r]]

IInv == CacheTypes /\ GuardsAreHeld /\ LockIsListed

-----------------------------------------------------------------------------
\* The strong count of a listed lock is more than 2 if two requests refer to it.
LEMMA TwoReferAndTheTable ==
  ASSUME NEW r \in Requests, NEW q \in Requests, r # q,
         NEW k \in Keys, NEW l \in Locks,
         lock[r] = l, lock[q] = l, table[k] = l
  PROVE  ~(StrongCount(l) <= 2)
<1> DEFINE refs == {p \in Requests : lock[p] = l}
           listed == {i \in Keys : table[i] = l}
<1>1. IsFiniteSet(refs) /\ IsFiniteSet(listed)
  BY FinitelyManyRequests, FS_Subset
<1>2. Cardinality({r, q}) = 2
  <2>1. {r, q} = {r} \cup {q} /\ q \notin {r}
    OBVIOUS
  <2>2. IsFiniteSet({r}) /\ Cardinality({r}) = 1
    BY FS_Singleton
  <2>3. Cardinality({r} \cup {q}) = Cardinality({r}) + 1
    BY <2>1, <2>2, FS_AddElement
  <2> QED BY <2>1, <2>2, <2>3
<1>3. Cardinality(refs) >= 2 /\ Cardinality(refs) \in Nat
  <2>1. {r, q} \subseteq refs
    OBVIOUS
  <2> QED BY <1>1, <1>2, <2>1, FS_Subset, FS_CardinalityType
<1>4. Cardinality(listed) >= 1 /\ Cardinality(listed) \in Nat
  <2>1. {k} \subseteq listed
    OBVIOUS
  <2>2. Cardinality({k}) = 1
    BY FS_Singleton
  <2> QED BY <1>1, <2>1, <2>2, FS_Subset, FS_CardinalityType
<1> HIDE DEF refs, listed
<1>5. Cardinality(refs) + Cardinality(listed) >= 3
  BY <1>3, <1>4
<1> QED BY <1>3, <1>4, <1>5 DEF StrongCount, refs, listed

LEMMA InitIInv == Init => IInv
BY AbsentValues DEF Init, IInv, CacheTypes, GuardsAreHeld, LockIsListed, Steps

\* A request that ends or is dropped: the others keep what they have.
LEMMA LeaveStep ==
  ASSUME IInv, NEW r \in Requests, pc[r] # "idle", Leave(r), UNCHANGED table
  PROVE  IInv'
<1> USE AbsentValues
<1>1. CacheTypes'
  BY DEF IInv, CacheTypes, Leave, Steps
<1>2. GuardsAreHeld'
  BY DEF IInv, CacheTypes, Leave, GuardsAreHeld, Steps
<1>3. LockIsListed'
  BY DEF IInv, CacheTypes, Leave, LockIsListed, Steps
<1> QED BY <1>1, <1>2, <1>3 DEF IInv

LEMMA StartStep ==
  ASSUME IInv, NEW r \in Requests, NEW k \in Keys, Start(r, k)
  PROVE  IInv'
<1> USE AbsentValues
<1>1. CacheTypes'
  BY DEF IInv, CacheTypes, Start, Steps
<1>2. GuardsAreHeld'
  BY DEF IInv, CacheTypes, Start, GuardsAreHeld, Steps
<1>3. LockIsListed'
  BY DEF IInv, CacheTypes, Start, LockIsListed, Steps
<1> QED BY <1>1, <1>2, <1>3 DEF IInv

\* A new lock is put where the table has none: nobody of that key refers to one.
LEMMA JoinStep ==
  ASSUME IInv, NEW r \in Requests, Join(r)
  PROVE  IInv'
<1> USE AbsentValues
<1> DEFINE k == key[r]
<1>1. k \in Keys /\ table'[k] \in Locks
  <2>1. k \in Keys
    BY DEF IInv, CacheTypes, Join
  <2>2. CASE table[k] # NoLock /\ UNCHANGED table
    BY <2>1, <2>2 DEF IInv, CacheTypes
  <2>3. CASE /\ Unused # {}
             /\ table' = [table EXCEPT ![k] = CHOOSE l \in Unused : TRUE]
    BY <2>1, <2>3 DEF IInv, CacheTypes, Unused
  <2> QED BY <2>1, <2>2, <2>3 DEF Join
<1>2. /\ table' \in [Keys -> Locks \cup {NoLock}]
      /\ \A i \in Keys : table[i] # NoLock => table'[i] = table[i]
  BY <1>1 DEF IInv, CacheTypes, Join, Unused
<1>3. /\ lock' = [lock EXCEPT ![r] = table'[k]]
      /\ pc' = [pc EXCEPT ![r] = "wait"] /\ pc[r] = "join"
      /\ UNCHANGED <<holder, key>>
  BY DEF Join
<1>4. CacheTypes'
  BY <1>1, <1>2, <1>3 DEF IInv, CacheTypes, Steps
<1>5. GuardsAreHeld'
  BY <1>1, <1>3 DEF IInv, CacheTypes, GuardsAreHeld
<1>6. LockIsListed'
  BY <1>1, <1>2, <1>3 DEF IInv, CacheTypes, GuardsAreHeld, LockIsListed
<1> QED BY <1>4, <1>5, <1>6 DEF IInv

LEMMA LockStep ==
  ASSUME IInv, NEW r \in Requests, Lock(r)
  PROVE  IInv'
<1> USE AbsentValues
<1>1. CASE Fresh(key[r]) /\ Leave(r)
  BY <1>1, LeaveStep DEF Lock
<1>2. CASE /\ pc' = [pc EXCEPT ![r] = "ask"]
           /\ holder' = [holder EXCEPT ![lock[r]] = r]
           /\ UNCHANGED <<key, lock, outcome>>
  <2>1. pc[r] = "wait" /\ holder[lock[r]] = Nobody /\ UNCHANGED table
    BY DEF Lock
  <2>2. lock[r] \in Locks
    BY <2>1 DEF IInv, CacheTypes, GuardsAreHeld
  <2>3. CacheTypes'
    BY <1>2, <2>1, <2>2 DEF IInv, CacheTypes, Steps
  <2>4. GuardsAreHeld'
    BY <1>2, <2>1, <2>2 DEF IInv, CacheTypes, GuardsAreHeld
  <2>5. LockIsListed'
    BY <1>2, <2>1 DEF IInv, CacheTypes, LockIsListed
  <2> QED BY <2>3, <2>4, <2>5 DEF IInv
<1> QED BY <1>1, <1>2 DEF Lock

\* Steps that move a request that has its guard on, and nothing else of the cache.
LEMMA CallStep ==
  ASSUME IInv, NEW r \in Requests, Ask(r) \/ Answer(r)
  PROVE  IInv'
<1> USE AbsentValues
<1>1. /\ pc[r] \in {"ask", "call"}
      /\ pc' = [pc EXCEPT ![r] = "call"] \/ pc' = [pc EXCEPT ![r] = "over"]
      /\ UNCHANGED <<table, holder, key, lock>>
  BY DEF Ask, Answer
<1>2. CacheTypes'
  BY <1>1 DEF IInv, CacheTypes, Steps
<1>3. GuardsAreHeld'
  BY <1>1 DEF IInv, CacheTypes, GuardsAreHeld
<1>4. LockIsListed'
  BY <1>1 DEF IInv, CacheTypes, LockIsListed
<1> QED BY <1>2, <1>3, <1>4 DEF IInv

\* The lock leaves the table only if no other request refers to it.
LEMMA UnlistStep ==
  ASSUME IInv, NEW r \in Requests, Unlist(r)
  PROVE  IInv'
<1> USE AbsentValues
<1> DEFINE k == key[r]
           l == lock[r]
<1>1. /\ pc[r] = "over" /\ pc' = [pc EXCEPT ![r] = "store"]
      /\ UNCHANGED <<holder, key, lock>>
  BY DEF Unlist
<1>2. k \in Keys /\ l \in Locks /\ table[k] = l
  BY <1>1 DEF IInv, CacheTypes, GuardsAreHeld, LockIsListed
<1>3. \/ UNCHANGED table
      \/ StrongCount(l) <= 2 /\ table' = [table EXCEPT ![k] = NoLock]
  BY DEF Unlist
<1>4. CacheTypes'
  BY <1>1, <1>2, <1>3 DEF IInv, CacheTypes, Steps
<1>5. GuardsAreHeld'
  BY <1>1 DEF IInv, CacheTypes, GuardsAreHeld
<1>6. LockIsListed'
  <2> SUFFICES ASSUME NEW q \in Requests, pc'[q] \in {"wait", "ask", "call", "over"}
               PROVE  lock'[q] = table'[key'[q]]
    BY DEF LockIsListed
  <2>1. q # r /\ pc[q] \in {"wait", "ask", "call", "over"}
    BY <1>1 DEF IInv, CacheTypes
  <2>2. lock[q] = table[key[q]]
    BY <2>1 DEF IInv, LockIsListed
  <2>3. CASE UNCHANGED table
    BY <1>1, <2>2, <2>3
  <2>4. CASE StrongCount(l) <= 2 /\ table' = [table EXCEPT ![k] = NoLock]
    <3>1. key[q] # k
      BY <1>2, <2>1, <2>2, <2>4, TwoReferAndTheTable
    <3>2. key[q] \in Keys
      BY <2>1 DEF IInv, CacheTypes
    <3> QED BY <1>1, <2>2, <2>4, <3>1, <3>2 DEF IInv, CacheTypes
  <2> QED BY <1>3, <2>3, <2>4
<1> QED BY <1>4, <1>5, <1>6 DEF IInv

\* Time, the background tasks and the budget leave the cache alone.
LEMMA OtherStep ==
  ASSUME IInv, UNCHANGED <<table, holder, pc, key, lock>>
  PROVE  IInv'
BY DEF IInv, CacheTypes, GuardsAreHeld, LockIsListed

LEMMA NextKeepsIInv == IInv /\ [Next]_vars => IInv'
<1> SUFFICES ASSUME IInv, [Next]_vars PROVE IInv'
  OBVIOUS
<1>1. CASE Tick \/ TaskAsks \/ OtherAnswer \/ \E budget \in Discovered : Discover(budget)
  BY <1>1, OtherStep DEF Tick, TaskAsks, OtherAnswer, Discover, requestVars
<1>2. ASSUME NEW r \in Requests, Step(r) PROVE IInv'
  <2>1. CASE Finish(r)
    BY <2>1, LeaveStep DEF Finish
  <2> QED BY <1>2, <2>1, JoinStep, CallStep, UnlistStep DEF Step
<1>3. ASSUME NEW r \in Requests, Cancel(r) PROVE IInv'
  BY <1>3, LeaveStep DEF Cancel
<1>4. CASE UNCHANGED vars
  BY <1>4, OtherStep DEF vars, requestVars
<1> QED BY <1>1, <1>2, <1>3, <1>4, StartStep, LockStep DEF Next

\* At most one request per key is calling the hub: whichever requests come, wait, end
\* early or are dropped, the lock that is taken out of the table is nobody's but the
\* request's that takes it out, so two requests of a key never hold two locks.
THEOREM OneCall == Spec => []OneCallPerKey
<1>1. IInv => OneCallPerKey
  BY DEF IInv, CacheTypes, GuardsAreHeld, LockIsListed, OneCallPerKey
<1> QED BY <1>1, InitIInv, NextKeepsIInv, PTL DEF Spec

-----------------------------------------------------------------------------
(* The refinement: every step of the cache is one of SharedCalls, or none.  *)

\* A request goes on to another step: its stage is that of the step.
LEMMA StageMoves ==
  ASSUME IInv, NEW r \in Requests, NEW step, pc' = [pc EXCEPT ![r] = step]
  PROVE  [q \in Requests |-> StageOf(pc[q])]'
           = [[q \in Requests |-> StageOf(pc[q])] EXCEPT ![r] = StageOf(step)]
<1>1. pc' \in [Requests -> Steps \cup {step}] /\ pc \in [Requests -> Steps]
  BY DEF IInv, CacheTypes
<1>2. \A q \in Requests : StageOf(pc[q])' = IF q = r THEN StageOf(step) ELSE StageOf(pc[q])
  BY <1>1 DEF StageOf, IInv, CacheTypes
<1> QED BY <1>2

LEMMA InitIsShared == Init => Shared!Init
BY DEF Init, Shared!Init, StageOf

LEMMA ComeStep ==
  ASSUME IInv, NEW r \in Requests, NEW k \in Keys, Start(r, k)
  PROVE  Shared!Come(r, k)
<1>1. /\ pc[r] = "idle" /\ pc' = [pc EXCEPT ![r] = "join"]
      /\ key' = [key EXCEPT ![r] = k]
  BY DEF Start
<1>2. StageOf(pc[r]) = "gone" /\ StageOf("join") = "waits"
  BY <1>1 DEF StageOf
<1> QED BY <1>1, <1>2, StageMoves DEF Shared!Come

LEMMA GoStep ==
  ASSUME IInv, NEW r \in Requests, pc[r] # "idle", Leave(r)
  PROVE  Shared!Go(r)
<1>1. /\ pc' = [pc EXCEPT ![r] = "idle"]
      /\ key' = [key EXCEPT ![r] = NoKey]
  BY DEF Leave
<1>2. StageOf(pc[r]) # "gone" /\ StageOf("idle") = "gone"
  BY DEF StageOf
<1> QED BY <1>1, <1>2, StageMoves DEF Shared!Go

\* The request that calls has the guard of its key's lock: another one of the key that
\* calls would have the same guard.
LEMMA CallsAlone ==
  ASSUME IInv, NEW r \in Requests, pc[r] = "ask",
         NEW q \in Requests, pc[q] = "call"
  PROVE  key[q] # key[r]
BY DEF IInv, CacheTypes, GuardsAreHeld, LockIsListed

LEMMA AskStep ==
  ASSUME IInv, NEW r \in Requests, Ask(r)
  PROVE  Shared!Call(r) \/ Shared!Learn(r)
<1>1. pc[r] = "ask" /\ key' = key /\ StageOf(pc[r]) = "waits"
  BY DEF Ask, StageOf
<1>2. \A q \in Requests : StageOf(pc[q]) = "calls" => key[q] # key[r]
  BY <1>1, CallsAlone DEF StageOf
<1>3. CASE pc' = [pc EXCEPT ![r] = "call"]
  <2>1. StageOf("call") = "calls"
    BY DEF StageOf
  <2> QED BY <1>1, <1>2, <1>3, <2>1, StageMoves DEF Shared!Call
<1>4. CASE pc' = [pc EXCEPT ![r] = "over"]
  <2>1. StageOf("over") = "knows"
    BY DEF StageOf
  <2> QED BY <1>1, <1>4, <2>1, StageMoves DEF Shared!Learn
<1> QED BY <1>3, <1>4 DEF Ask

LEMMA AnswerStep ==
  ASSUME IInv, NEW r \in Requests, Answer(r)
  PROVE  Shared!Learn(r)
<1>1. pc[r] = "call" /\ pc' = [pc EXCEPT ![r] = "over"] /\ key' = key
  BY DEF Answer
<1>2. StageOf(pc[r]) = "calls" /\ StageOf("over") = "knows"
  BY <1>1 DEF StageOf
<1> QED BY <1>1, <1>2, StageMoves DEF Shared!Learn

\* Steps between two that SharedCalls knows of.
LEMMA SameStage ==
  ASSUME IInv, NEW r \in Requests, key' = key, NEW step,
         pc' = [pc EXCEPT ![r] = step], StageOf(pc[r]) = StageOf(step)
  PROVE  UNCHANGED Shared!vars
<1>1. [q \in Requests |-> StageOf(pc[q])]' = [q \in Requests |-> StageOf(pc[q])]
  BY StageMoves
<1> QED BY <1>1 DEF Shared!vars

LEMMA InnerStep ==
  ASSUME IInv, NEW r \in Requests,
         Join(r) \/ Unlist(r) \/ (Lock(r) /\ ~Leave(r))
  PROVE  UNCHANGED Shared!vars
<1>1. CASE Join(r)
  BY <1>1, SameStage DEF Join, StageOf
<1>2. CASE Unlist(r)
  BY <1>2, SameStage DEF Unlist, StageOf
<1>3. CASE Lock(r) /\ ~Leave(r)
  BY <1>3, SameStage DEF Lock, StageOf
<1> QED BY <1>1, <1>2, <1>3

LEMMA NextIsShared == IInv /\ [Next]_vars => [Shared!Next]_(Shared!vars)
<1> SUFFICES ASSUME IInv, [Next]_vars PROVE [Shared!Next]_(Shared!vars)
  OBVIOUS
<1>1. CASE UNCHANGED <<pc, key>>
  BY <1>1 DEF Shared!vars
<1>2. CASE Tick \/ TaskAsks \/ OtherAnswer \/ \E budget \in Discovered : Discover(budget)
  BY <1>1, <1>2 DEF Tick, TaskAsks, OtherAnswer, Discover, requestVars
<1>3. ASSUME NEW r \in Requests, Step(r) PROVE [Shared!Next]_(Shared!vars)
  <2>1. CASE Join(r) \/ Unlist(r)
    BY <2>1, InnerStep
  <2>2. CASE Ask(r) \/ Answer(r)
    BY <2>2, AskStep, AnswerStep DEF Shared!Next
  <2>3. CASE Finish(r)
    BY <2>3, GoStep DEF Finish, Shared!Next
  <2> QED BY <1>3, <2>1, <2>2, <2>3 DEF Step
<1>4. ASSUME NEW r \in Requests, Lock(r) PROVE [Shared!Next]_(Shared!vars)
  <2>1. CASE Leave(r)
    BY <1>4, <2>1, GoStep DEF Lock, Shared!Next
  <2> QED BY <1>4, <2>1, InnerStep
<1>5. ASSUME NEW r \in Requests, Cancel(r) PROVE [Shared!Next]_(Shared!vars)
  BY <1>5, GoStep DEF Cancel, Shared!Next
<1>6. ASSUME NEW r \in Requests, NEW k \in Keys, Start(r, k) PROVE [Shared!Next]_(Shared!vars)
  BY <1>6, ComeStep DEF Shared!Next
<1>7. CASE UNCHANGED vars
  BY <1>1, <1>7 DEF vars, requestVars
<1> QED BY <1>2, <1>3, <1>4, <1>5, <1>6, <1>7 DEF Next

\* The cache implements SharedCalls (cache.rs:1-2): a request calls the hub at most
\* once, and only while no other request calls for the same key.
THEOREM CallsAreShared == Spec => SharesCalls
<1> QED BY InitIInv, NextKeepsIInv, InitIsShared, NextIsShared, PTL DEF Spec, SharesCalls, Shared!Spec

-----------------------------------------------------------------------------
(* The budget: what the operators of HubBudget do to a client.              *)

Requested == [at : Nat, by : Priorities]
Clients == [sent : Seq(Requested), blockedUntil : Nat, budget : Nat \ {0}]

LEMMA LeastNatural ==
  ASSUME NEW S \in SUBSET Nat, S # {}
  PROVE  \E m \in S : \A n \in S : m <= n
<1>1. PICK m \in S : \A n \in S : ~ (<<n, m>> \in OpToRel(<, Nat))
  BY NatLessThanWellFounded, WFMin
<1>2. \A n \in S : ~ (n < m)
  BY <1>1 DEF OpToRel
<1> QED BY <1>2

\* The reserve is at most half of the budget, so neither priority is left without.
LEMMA ReserveIsAPart ==
  ASSUME NEW budget \in Nat
  PROVE  Reserve(budget) \in 0..budget
<1>1. budget \div 2 \in Nat /\ budget \div 2 <= budget /\ budget \div 4 \in Nat
  BY SMT
<1> QED BY <1>1 DEF Reserve

\* The requests that have left the window are the first ones, up to some position.
LEMMA SomeHaveExpired ==
  ASSUME NEW sent \in Seq(Requested), NEW now \in Nat
  PROVE  /\ Expired(sent, now) \in 0..Len(sent)
         /\ Expired(sent, now) < Len(sent)
              => now - sent[Expired(sent, now) + 1].at < Window
<1> DEFINE inside == {i \in 1..Len(sent) : now - sent[i].at < Window}
           Ends(n) == /\ \A i \in 1..n : now - sent[i].at >= Window
                      /\ n < Len(sent) => now - sent[n + 1].at < Window
<1>1. Len(sent) \in Nat /\ \A i \in 1..Len(sent) : sent[i].at \in Nat
  <2>1. \A r \in Requested : r.at \in Nat
    BY DEF Requested
  <2> QED BY <2>1
<1>2. \E n \in 0..Len(sent) : Ends(n)
  <2>1. CASE inside = {}
    <3>1. \A i \in 1..Len(sent) : now - sent[i].at >= Window
      BY <1>1, <2>1, WindowIsPositive
    <3> QED BY <1>1, <3>1
  <2>2. CASE inside # {}
    <3>1. PICK m \in inside : \A n \in inside : m <= n
      <4>1. inside \in SUBSET Nat
        BY <1>1
      <4> QED BY <4>1, <2>2, LeastNatural
    <3>2. m - 1 \in 0..Len(sent) /\ Ends(m - 1)
      BY <1>1, <3>1, WindowIsPositive
    <3> QED BY <3>2
  <2> QED BY <2>1, <2>2
<1>3. Expired(sent, now) = CHOOSE n \in 0..Len(sent) : Ends(n)
  BY DEF Expired
<1> HIDE DEF Ends
<1>4. Expired(sent, now) \in 0..Len(sent) /\ Ends(Expired(sent, now))
  BY <1>2, <1>3
<1> QED BY <1>4 DEF Ends

\* Time passes: the requests that stay are the last ones, in their order.
LEMMA AgedClient ==
  ASSUME NEW c \in Clients, NEW now \in Nat
  PROVE  /\ Aged(c, now) \in Clients
         /\ Aged(c, now).budget = c.budget
         /\ Aged(c, now).blockedUntil = IF c.blockedUntil <= now THEN 0 ELSE c.blockedUntil
         /\ Len(Aged(c, now).sent) = Len(c.sent) - Expired(c.sent, now)
         /\ \A i \in 1..Len(Aged(c, now).sent) :
              Aged(c, now).sent[i] = c.sent[i + Expired(c.sent, now)]
<1> DEFINE n == Expired(c.sent, now)
           kept == SubSeq(c.sent, n + 1, Len(c.sent))
           until == IF c.blockedUntil <= now THEN 0 ELSE c.blockedUntil
<1>1. c.sent \in Seq(Requested) /\ c.blockedUntil \in Nat /\ Len(c.sent) \in Nat
  BY DEF Clients
<1>2. n \in 0..Len(c.sent)
  BY <1>1, SomeHaveExpired
<1> HIDE DEF n
<1>3. /\ kept \in Seq(Requested) /\ Len(kept) = Len(c.sent) - n
      /\ \A i \in 1..Len(kept) : kept[i] = c.sent[i + n]
  <2>1. \A i \in n + 1..Len(c.sent) : c.sent[i] \in Requested
    BY <1>1, <1>2
  <2> HIDE DEF Requested
  <2>2. kept \in Seq(Requested)
    BY <1>1, <1>2, <2>1, SubSeqProperties
  <2>3. Len(kept) = Len(c.sent) - n
    BY <1>1, <1>2, <2>1, SubSeqProperties
  <2>4. \A i \in 1..Len(c.sent) - n : kept[i] = c.sent[n + 1 + i - 1]
    BY <1>1, <1>2, <2>1, SubSeqProperties
  <2> QED BY <1>1, <1>2, <2>2, <2>3, <2>4
<1> HIDE DEF kept, until
<1>4. until \in Nat
  BY <1>1 DEF until
<1>5. Aged(c, now) = [c EXCEPT !.sent = kept, !.blockedUntil = until]
  BY DEF Aged, n, kept, until
<1>6. /\ Aged(c, now) \in Clients /\ Aged(c, now).sent = kept
      /\ Aged(c, now).budget = c.budget /\ Aged(c, now).blockedUntil = until
  BY <1>3, <1>4, <1>5 DEF Clients
<1> QED BY <1>3, <1>6 DEF n, until

LEMMA AcquiredClient ==
  ASSUME NEW c \in Clients, NEW now \in Nat, NEW p \in Priorities
  PROVE  /\ Acquire(c, now, p) \in Clients
         /\ Acquire(c, now, p).budget = c.budget
         /\ Acquire(c, now, p).blockedUntil = c.blockedUntil
         /\ Acquire(c, now, p).sent = IF Grants(c, p) THEN Append(c.sent, [at |-> now, by |-> p])
                                      ELSE c.sent
<1> DEFINE more == Append(c.sent, [at |-> now, by |-> p])
<1>1. c.sent \in Seq(Requested) /\ [at |-> now, by |-> p] \in Requested
  BY DEF Clients, Requested
<1>2. more \in Seq(Requested)
  BY <1>1
<1> HIDE DEF more
<1>3. CASE Grants(c, p)
  <2>1. Acquire(c, now, p) = [c EXCEPT !.sent = more]
    BY <1>3 DEF Acquire, more
  <2> QED BY <1>2, <1>3, <2>1 DEF Clients, more
<1>4. CASE ~Grants(c, p)
  BY <1>4 DEF Acquire
<1> QED BY <1>3, <1>4

LEMMA BlockedClient ==
  ASSUME NEW c \in Clients, NEW until \in Nat
  PROVE  /\ BlockFor(c, until) \in Clients
         /\ BlockFor(c, until).budget = c.budget
         /\ BlockFor(c, until).sent = c.sent
         /\ BlockFor(c, until).blockedUntil >= c.blockedUntil
BY DEF BlockFor, Clients

LEMMA RebudgetedClient ==
  ASSUME NEW c \in Clients, NEW budget \in Nat \ {0}
  PROVE  /\ SetBudget(c, budget) \in Clients
         /\ SetBudget(c, budget).budget = budget
         /\ SetBudget(c, budget).sent = c.sent
         /\ SetBudget(c, budget).blockedUntil = c.blockedUntil
BY DEF SetBudget, Clients

-----------------------------------------------------------------------------
(* The inductive invariant of the budget, and of the rest of the type.      *)

\* The interactive requests in the window that were sent under today's budget.
Counted(sent, since) ==
  {i \in 1..Len(sent) : sent[i].by = "interactive" /\ (since = 0 \/ sent[i].at > since)}

\* The queue holds what went out in the window, the oldest first.
IsTheWindow(sent, now) ==
  /\ \A i \in 1..Len(sent) : sent[i].at \in 0..now /\ now - sent[i].at < Window
  /\ \A i, j \in 1..Len(sent) : i <= j => sent[i].at <= sent[j].at

\* A grant needs room under the limit; time and a new budget only take from the count.
InteractiveIsLimited ==
  Cardinality(Counted(client.sent, changedAt)) <= Limit(client, "interactive")

ClientInv ==
  /\ clock \in 0..MaxClock /\ changedAt \in 0..clock
  /\ client \in Clients /\ client.budget \in {Budget} \cup Discovered
  /\ IsTheWindow(client.sent, clock)
  /\ InteractiveIsLimited

\* A call is nobody's if a task made it, or its request was cancelled.
RestInv ==
  /\ entries \in [Keys -> 0..MaxClock \cup {Never}]
  /\ outcome \in [Requests -> Outcomes]
  /\ cancels \in 0..MaxCancels
  /\ others \in Nat /\ others <= MaxTasks + cancels

LEMMA PositionsAreFinite ==
  ASSUME NEW n \in Nat
  PROVE  IsFiniteSet(1..n) /\ Cardinality(1..n) = n
BY FS_Interval

LEMMA CountedIsFinite ==
  ASSUME NEW sent \in Seq(Requested), NEW since
  PROVE  /\ IsFiniteSet(Counted(sent, since))
         /\ Cardinality(Counted(sent, since)) \in Nat
         /\ Cardinality(Counted(sent, since)) <= Len(sent)
<1>1. Counted(sent, since) \subseteq 1..Len(sent) /\ Len(sent) \in Nat
  BY DEF Counted
<1>2. IsFiniteSet(1..Len(sent)) /\ Cardinality(1..Len(sent)) = Len(sent)
  BY <1>1, PositionsAreFinite
<1> QED BY <1>1, <1>2, FS_Subset, FS_CardinalityType

\* t is what is left of s when its first n requests are dropped.
Dropped(s, t, n) ==
  Len(t) = Len(s) - n /\ \A i \in 1..Len(t) : t[i] = s[i + n]

\* Dropping the first requests leaves no more to count.
LEMMA FewerAreCounted ==
  ASSUME NEW s \in Seq(Requested), NEW t \in Seq(Requested), NEW n \in Nat, NEW since,
         Dropped(s, t, n)
  PROVE  Cardinality(Counted(t, since)) <= Cardinality(Counted(s, since))
<1> DEFINE S == Counted(t, since)
           T == Counted(s, since)
           f == [i \in S |-> i + n]
<1>1. Len(s) \in Nat /\ Len(t) \in Nat
  OBVIOUS
<1>2. ASSUME NEW i \in S PROVE i \in Nat /\ i + n \in T
  BY <1>1 DEF Counted, Dropped
<1> HIDE DEF S, T
<1>3. f \in [S -> T] /\ \A a, b \in S : f[a] = f[b] => a = b
  BY <1>2
<1>4. f \in Injection(S, T)
  BY <1>3 DEF Injection, IsInjective
<1>5. IsFiniteSet(T)
  BY CountedIsFinite DEF T
<1> QED BY <1>4, <1>5, FS_Injection DEF S, T

\* Dropping those that left the window keeps the rest, in their order.
LEMMA WindowMoves ==
  ASSUME NEW s \in Seq(Requested), NEW t \in Seq(Requested), NEW n \in 0..Len(s),
         Dropped(s, t, n), NEW now \in Nat, IsTheWindow(s, now),
         n < Len(s) => (now + 1) - s[n + 1].at < Window
  PROVE  IsTheWindow(t, now + 1)
<1>1. Len(s) \in Nat /\ Len(t) \in Nat /\ n \in Nat /\ Len(t) = Len(s) - n
  BY DEF Dropped
<1>2. ASSUME NEW i \in 1..Len(t)
      PROVE  i + n \in 1..Len(s) /\ t[i].at = s[i + n].at
  BY <1>1, <1>2 DEF Dropped
<1>3. ASSUME NEW i \in 1..Len(t)
      PROVE  t[i].at \in 0..now + 1 /\ (now + 1) - t[i].at < Window
  <2>1. n + 1 \in 1..Len(s) /\ i + n \in 1..Len(s) /\ n + 1 <= i + n
    BY <1>1, <1>3
  <2>2. s[n + 1].at <= s[i + n].at /\ s[n + 1].at \in 0..now /\ s[i + n].at \in 0..now
    BY <2>1 DEF IsTheWindow
  <2>3. (now + 1) - s[n + 1].at < Window
    BY <1>1, <2>1
  <2>4. ASSUME NEW a \in 0..now, NEW b \in 0..now, a <= b, (now + 1) - a < Window
        PROVE  b \in 0..now + 1 /\ (now + 1) - b < Window
    BY <2>4, WindowIsPositive
  <2> QED BY <1>2, <2>2, <2>3, <2>4
<1>4. ASSUME NEW i \in 1..Len(t), NEW j \in 1..Len(t), i <= j
      PROVE  t[i].at <= t[j].at
  <2>1. i + n <= j + n
    BY <1>1, <1>4
  <2> QED BY <1>2, <2>1 DEF IsTheWindow
<1>5. \A i \in 1..Len(t) : t[i].at \in 0..now + 1 /\ (now + 1) - t[i].at < Window
  BY <1>3
<1>6. \A i, j \in 1..Len(t) : i <= j => t[i].at <= t[j].at
  BY <1>4
<1> QED BY <1>5, <1>6 DEF IsTheWindow

\* The newest request comes last.
LEMMA WindowGrows ==
  ASSUME NEW s \in Seq(Requested), NEW now \in Nat, IsTheWindow(s, now),
         NEW r \in Requested, r.at = now
  PROVE  IsTheWindow(Append(s, r), now)
<1> DEFINE t == Append(s, r)
<1>1. /\ Len(s) \in Nat /\ Len(t) = Len(s) + 1 /\ t[Len(s) + 1] = r
      /\ \A i \in 1..Len(s) : t[i] = s[i]
  OBVIOUS
<1> HIDE DEF t
<1>2. ASSUME NEW i \in 1..Len(t)
      PROVE  t[i].at \in 0..now /\ now - t[i].at < Window
  <2>1. CASE i \in 1..Len(s)
    BY <1>1, <2>1 DEF IsTheWindow
  <2>2. CASE i = Len(s) + 1
    BY <1>1, <2>2, WindowIsPositive
  <2> QED BY <1>1, <2>1, <2>2
<1>3. ASSUME NEW i \in 1..Len(t), NEW j \in 1..Len(t), i <= j
      PROVE  t[i].at <= t[j].at
  <2>1. CASE j \in 1..Len(s)
    <3>1. i \in 1..Len(s)
      BY <1>1, <1>3, <2>1
    <3> QED BY <1>1, <1>3, <2>1, <3>1 DEF IsTheWindow
  <2>2. CASE j = Len(s) + 1
    <3>1. t[j].at = now /\ t[i].at \in 0..now
      BY <1>1, <1>2, <2>2
    <3> QED BY <3>1
  <2> QED BY <1>1, <2>1, <2>2
<1> QED BY <1>2, <1>3 DEF IsTheWindow, t

LEMMA LimitIsNatural ==
  ASSUME NEW c \in Clients, NEW p \in Priorities
  PROVE  Limit(c, p) \in 0..c.budget
<1>1. c.budget \in Nat
  BY DEF Clients
<1> QED BY <1>1, ReserveIsAPart DEF Limit

LEMMA InitClientInv == Init => ClientInv /\ RestInv
<1> SUFFICES ASSUME Init PROVE ClientInv /\ RestInv
  OBVIOUS
<1> USE NumbersAreNatural
<1>1. client = [sent |-> <<>>, blockedUntil |-> 0, budget |-> Budget] /\ clock = 0 /\ changedAt = 0
  BY DEF Init, NewClient
<1>2. client \in Clients /\ client.budget = Budget /\ client.sent = <<>>
  BY <1>1 DEF Clients
<1>3. Len(client.sent) = 0 /\ client.sent \in Seq(Requested)
  BY <1>2
<1>4. IsTheWindow(client.sent, clock)
  BY <1>3 DEF IsTheWindow
<1>5. Cardinality(Counted(client.sent, changedAt)) = 0
  BY <1>3, CountedIsFinite
<1>6. InteractiveIsLimited
  BY <1>2, <1>5, LimitIsNatural DEF InteractiveIsLimited, Priorities
<1>7. RestInv
  BY DEF Init, RestInv, Outcomes
<1> QED BY <1>1, <1>2, <1>4, <1>6, <1>7 DEF ClientInv

\* Time passes.
LEMMA TickClient ==
  ASSUME ClientInv, Tick
  PROVE  ClientInv'
<1> USE NumbersAreNatural
<1>1. /\ clock \in Nat /\ clock' = clock + 1 /\ clock' \in 0..MaxClock
      /\ changedAt \in 0..clock /\ changedAt' = changedAt
      /\ client' = Aged(client, clock')
  BY DEF ClientInv, Tick
<1>2. client \in Clients /\ client.sent \in Seq(Requested) /\ clock' \in Nat
  BY <1>1 DEF ClientInv, Clients
<1>3. PICK n \in 0..Len(client.sent) :
        /\ n = Expired(client.sent, clock')
        /\ n < Len(client.sent) => clock' - client.sent[n + 1].at < Window
  BY <1>2, SomeHaveExpired
<1>4. /\ client' \in Clients /\ client'.budget = client.budget
      /\ Dropped(client.sent, client'.sent, n)
  BY <1>1, <1>2, <1>3, AgedClient DEF Dropped
<1>5. client'.sent \in Seq(Requested)
  BY <1>4 DEF Clients
<1>6. IsTheWindow(client'.sent, clock')
  <2>1. IsTheWindow(client.sent, clock)
    BY DEF ClientInv
  <2> QED BY <1>1, <1>2, <1>3, <1>4, <1>5, <2>1, WindowMoves
<1>7. InteractiveIsLimited'
  <2>1. n \in Nat
    BY <1>2
  <2>2. Cardinality(Counted(client'.sent, changedAt)) <= Cardinality(Counted(client.sent, changedAt))
    BY <1>2, <1>4, <1>5, <2>1, FewerAreCounted
  <2>3. Limit(client', "interactive") = Limit(client, "interactive")
    BY <1>4 DEF Limit
  <2>4. /\ Cardinality(Counted(client'.sent, changedAt)) \in Nat
        /\ Cardinality(Counted(client.sent, changedAt)) \in Nat
        /\ Limit(client, "interactive") \in Nat
    BY <1>2, <1>5, CountedIsFinite, LimitIsNatural DEF Priorities, Clients
  <2> QED BY <1>1, <2>2, <2>3, <2>4 DEF ClientInv, InteractiveIsLimited
<1> QED BY <1>1, <1>4, <1>6, <1>7 DEF ClientInv

\* A request is let through, or not: it comes last, at the time it is.
LEMMA AcquireClient ==
  ASSUME ClientInv, NEW p \in Priorities, client' = Acquire(client, clock, p),
         UNCHANGED <<clock, changedAt>>
  PROVE  ClientInv'
<1> DEFINE new == [at |-> clock, by |-> p]
<1> USE NumbersAreNatural, WindowIsPositive
<1>1. /\ clock \in Nat /\ client \in Clients /\ client.sent \in Seq(Requested)
      /\ Len(client.sent) \in Nat
  BY DEF ClientInv, Clients
<1>2. /\ client' \in Clients /\ client'.budget = client.budget
      /\ client'.sent = IF Grants(client, p) THEN Append(client.sent, new) ELSE client.sent
  BY <1>1, AcquiredClient
<1>3. client'.sent \in Seq(Requested)
  BY <1>2 DEF Clients
<1>4. Limit(client', "interactive") = Limit(client, "interactive")
  BY <1>2 DEF Limit
<1>5. CASE ~Grants(client, p)
  BY <1>2, <1>4, <1>5 DEF ClientInv, IsTheWindow, InteractiveIsLimited
<1>6. CASE Grants(client, p)
  <2>1. client'.sent = Append(client.sent, new) /\ new \in Requested
    BY <1>1, <1>2, <1>6 DEF Requested
  <2>2. /\ Len(client'.sent) = Len(client.sent) + 1
        /\ \A i \in 1..Len(client.sent) : client'.sent[i] = client.sent[i]
        /\ client'.sent[Len(client.sent) + 1] = new
    BY <1>1, <2>1
  <2>3. IsTheWindow(client'.sent, clock')
    <3>1. IsTheWindow(client.sent, clock) /\ new.at = clock
      BY DEF ClientInv
    <3>2. IsTheWindow(Append(client.sent, new), clock)
      BY <1>1, <2>1, <3>1, WindowGrows
    <3>3. clock' = clock
      OBVIOUS
    <3> QED BY <2>1, <3>2, <3>3
  <2>4. InteractiveIsLimited'
    <3> DEFINE before == Counted(client.sent, changedAt)
               after == Counted(client'.sent, changedAt)
    <3>1. Limit(client, "interactive") \in Nat /\ Limit(client, p) \in Nat
      BY <1>1, LimitIsNatural DEF Priorities, Clients
    <3>2. CASE p = "interactive"
      <4>1. Cardinality(after) \in Nat /\ Cardinality(after) <= Len(client'.sent)
        BY <1>3, CountedIsFinite
      <4>2. Len(client.sent) < Limit(client, "interactive")
        BY <1>6, <3>2 DEF Grants
      <4> HIDE DEF after
      <4>3. Cardinality(after) <= Limit(client, "interactive")
        BY <1>1, <2>2, <3>1, <4>1, <4>2
      <4> QED BY <1>4, <4>3 DEF InteractiveIsLimited, after
    <3>3. CASE p = "sync"
      <4>1. after = before
        <5>1. ASSUME NEW i \in 1..Len(client'.sent)
              PROVE  i \in after <=> i \in before
          <6>1. CASE i \in 1..Len(client.sent)
            BY <2>2, <6>1 DEF Counted
          <6>2. CASE i = Len(client.sent) + 1
            <7>1. i \notin 1..Len(client.sent) /\ client'.sent[i].by = "sync"
              BY <1>1, <2>2, <3>3, <6>2
            <7> QED BY <7>1 DEF Counted
          <6> QED BY <1>1, <2>2, <6>1, <6>2
        <5>2. after \subseteq 1..Len(client'.sent) /\ before \subseteq 1..Len(client'.sent)
          BY <1>1, <2>2 DEF Counted
        <5> QED BY <5>1, <5>2
      <4> QED BY <1>4, <4>1 DEF ClientInv, InteractiveIsLimited
    <3> QED BY <3>2, <3>3 DEF Priorities
  <2> QED BY <1>2, <2>3, <2>4 DEF ClientInv
<1> QED BY <1>5, <1>6

\* The hub asks for a pause, or nothing happens to the client.
LEMMA BlockClient ==
  ASSUME ClientInv, UNCHANGED client \/ HubPauses, UNCHANGED <<clock, changedAt>>
  PROVE  ClientInv'
<1>1. CASE UNCHANGED client
  BY <1>1 DEF ClientInv, IsTheWindow, InteractiveIsLimited
<1>2. CASE HubPauses
  <2>1. PICK seconds \in Pauses : client' = BlockFor(client, clock + seconds)
    BY <1>2 DEF HubPauses
  <2>2. client \in Clients /\ clock + seconds \in Nat
    BY NumbersAreNatural DEF ClientInv
  <2>3. client' \in Clients /\ client'.budget = client.budget /\ client'.sent = client.sent
    BY <2>1, <2>2, BlockedClient
  <2> QED BY <2>3 DEF ClientInv, IsTheWindow, InteractiveIsLimited, Limit
<1> QED BY <1>1, <1>2

\* The budget changes: nothing in the queue was sent under the new one.
LEMMA DiscoverClient ==
  ASSUME ClientInv, NEW budget \in Discovered, Discover(budget)
  PROVE  ClientInv'
<1>1. /\ client \in Clients /\ client.sent \in Seq(Requested) /\ clock \in Nat
      /\ budget \in Nat \ {0}
  BY NumbersAreNatural DEF ClientInv, Clients
<1>2. /\ client' \in Clients /\ client'.budget = budget /\ client'.sent = client.sent
      /\ clock' = clock /\ changedAt' = clock /\ clock > 0
  BY <1>1, RebudgetedClient DEF Discover
<1>3. IsTheWindow(client'.sent, clock')
  BY <1>2 DEF ClientInv, IsTheWindow
<1>4. InteractiveIsLimited'
  <2>1. Counted(client.sent, clock) = {}
    BY <1>1, <1>2 DEF Counted, ClientInv, IsTheWindow
  <2>2. Cardinality(Counted(client.sent, clock)) = 0
    BY <2>1, FS_EmptySet
  <2>3. Limit(client', "interactive") \in Nat
    BY <1>2, LimitIsNatural DEF Priorities, Clients
  <2> QED BY <1>2, <2>2, <2>3 DEF InteractiveIsLimited
<1> QED BY <1>1, <1>2, <1>3, <1>4 DEF ClientInv

LEMMA NextKeepsClientInv == ClientInv /\ [Next]_vars => ClientInv'
<1> SUFFICES ASSUME ClientInv, [Next]_vars PROVE ClientInv'
  OBVIOUS
<1>1. CASE UNCHANGED <<clock, client, changedAt>>
  BY <1>1, BlockClient
<1>2. CASE TaskAsks
  BY <1>2, AcquireClient DEF TaskAsks, Priorities
<1>3. CASE OtherAnswer
  BY <1>3, BlockClient DEF OtherAnswer
<1>4. ASSUME NEW r \in Requests, Step(r) \/ Lock(r) \/ Cancel(r) PROVE ClientInv'
  <2>1. CASE Ask(r)
    BY <2>1, AcquireClient DEF Ask, Priorities
  <2>2. CASE Answer(r)
    BY <2>2, BlockClient DEF Answer
  <2>3. CASE Join(r) \/ Unlist(r) \/ Finish(r) \/ Lock(r) \/ Cancel(r)
    BY <1>1, <2>3 DEF Join, Unlist, Finish, Lock, Cancel, clientVars
  <2> QED BY <1>4, <2>1, <2>2, <2>3 DEF Step
<1>5. ASSUME NEW r \in Requests, NEW k \in Keys, Start(r, k) PROVE ClientInv'
  BY <1>1, <1>5 DEF Start, clientVars
<1>6. CASE UNCHANGED vars
  BY <1>1, <1>6 DEF vars, clientVars
<1> QED BY <1>2, <1>3, <1>4, <1>5, <1>6, TickClient, DiscoverClient DEF Next

LEMMA NextKeepsRestInv == ClientInv /\ RestInv /\ [Next]_vars => RestInv'
<1> SUFFICES ASSUME ClientInv, RestInv, [Next]_vars PROVE RestInv'
  OBVIOUS
<1> USE NumbersAreNatural
<1>1. clock \in 0..MaxClock
  BY DEF ClientInv
<1>2. CASE UNCHANGED <<entries, outcome, cancels, others>>
  BY <1>2 DEF RestInv
<1>3. CASE TaskAsks \/ OtherAnswer
  BY <1>3 DEF TaskAsks, OtherAnswer, RestInv, requestVars
<1>4. ASSUME NEW r \in Requests, Step(r) \/ Lock(r) \/ Cancel(r) PROVE RestInv'
  <2>1. CASE Leave(r) /\ UNCHANGED <<entries, cancels, others>>
    BY <2>1 DEF Leave, RestInv, Outcomes
  <2>2. CASE Ask(r) \/ Answer(r)
    BY <2>2 DEF Ask, Answer, RestInv, Outcomes
  <2>3. CASE Join(r) \/ Unlist(r)
    BY <1>2, <2>3 DEF Join, Unlist, clientVars
  <2>4. CASE Finish(r)
    <3>1. entries' \in [Keys -> 0..MaxClock \cup {Never}]
      BY <1>1, <2>4 DEF Finish, Store, Stored, RestInv
    <3> QED BY <2>4, <3>1 DEF Finish, Leave, RestInv, Outcomes, clientVars
  <2>5. CASE Lock(r)
    BY <1>2, <2>1, <2>5 DEF Lock, clientVars
  <2>6. CASE Cancel(r)
    BY <2>6 DEF Cancel, Leave, RestInv, Outcomes
  <2> QED BY <1>4, <2>2, <2>3, <2>4, <2>5, <2>6 DEF Step
<1>5. ASSUME NEW r \in Requests, NEW k \in Keys, Start(r, k) PROVE RestInv'
  BY <1>2, <1>5 DEF Start, clientVars
<1>6. CASE UNCHANGED vars
  BY <1>2, <1>6 DEF vars, clientVars, requestVars
<1>7. CASE Tick \/ \E budget \in Discovered : Discover(budget)
  BY <1>2, <1>7 DEF Tick, Discover, requestVars
<1> QED BY <1>3, <1>4, <1>5, <1>6, <1>7 DEF Next

\* Every variable keeps its type, and a lock its holder: the calls nobody waits for stay
\* within those the tasks may make and those cancelled requests left.
THEOREM Typed == Spec => []TypeOK
<1>1. IInv /\ ClientInv /\ RestInv => TypeOK
  <2> SUFFICES ASSUME IInv, ClientInv, RestInv PROVE TypeOK
    OBVIOUS
  <2>1. client.blockedUntil \in Nat /\ client.sent \in Seq(Requested)
    BY DEF ClientInv, Clients
  <2>2. \A i \in 1..Len(client.sent) : client.sent[i] \in [at : 0..clock, by : Priorities]
    <3> SUFFICES ASSUME NEW i \in 1..Len(client.sent)
                 PROVE  client.sent[i] \in [at : 0..clock, by : Priorities]
      OBVIOUS
    <3>1. client.sent[i] \in Requested
      BY <2>1
    <3>2. client.sent[i].at \in 0..clock
      BY DEF ClientInv, IsTheWindow
    <3> QED BY <3>1, <3>2 DEF Requested
  <2>3. others \in 0..MaxTasks + MaxCancels /\ changedAt \in 0..MaxClock
    BY NumbersAreNatural DEF RestInv, ClientInv
  <2> QED BY <2>1, <2>2, <2>3 DEF TypeOK, IInv, CacheTypes, ClientInv, RestInv
<1> QED BY <1>1, InitIInv, NextKeepsIInv, InitClientInv, NextKeepsClientInv, NextKeepsRestInv,
           PTL DEF Spec

\* Whatever viewers ask for, a background task that used less than the reserve is let
\* through: the interactive requests in the window number at most what is left to them,
\* once those of an earlier budget are out of it.
THEOREM ReserveIsKept == Spec => []SyncHasItsReserve
<1>1. ClientInv => SyncHasItsReserve
  <2> SUFFICES ASSUME ClientInv, client.blockedUntil = 0,
                      changedAt = 0 \/ clock >= changedAt + Window,
                      Cardinality({i \in 1..Len(client.sent) : client.sent[i].by = "sync"})
                        < Reserve(client.budget)
               PROVE  Grants(client, "sync")
    BY DEF SyncHasItsReserve
  <2> DEFINE own == {i \in 1..Len(client.sent) : client.sent[i].by = "sync"}
             counted == Counted(client.sent, changedAt)
  <2>1. /\ client \in Clients /\ client.sent \in Seq(Requested) /\ Len(client.sent) \in Nat
        /\ client.budget \in Nat /\ clock \in Nat /\ changedAt \in Nat
    BY DEF ClientInv, Clients
  <2>2. counted = {i \in 1..Len(client.sent) : client.sent[i].by = "interactive"}
    <3>1. ASSUME NEW i \in 1..Len(client.sent) PROVE changedAt = 0 \/ client.sent[i].at > changedAt
      BY <2>1, WindowIsPositive DEF ClientInv, IsTheWindow
    <3> QED BY <3>1 DEF Counted
  <2>3. 1..Len(client.sent) = own \cup counted /\ own \cap counted = {}
    <3>1. \A i \in 1..Len(client.sent) : client.sent[i].by \in Priorities
      <4>1. \A i \in 1..Len(client.sent) : client.sent[i] \in Requested
        BY <2>1
      <4> QED BY <4>1 DEF Requested
    <3> QED BY <2>2, <3>1 DEF Priorities
  <2>4. Len(client.sent) = Cardinality(own) + Cardinality(counted)
    <3>1. IsFiniteSet(1..Len(client.sent)) /\ Cardinality(1..Len(client.sent)) = Len(client.sent)
      BY <2>1, PositionsAreFinite
    <3>2. IsFiniteSet(own) /\ IsFiniteSet(counted)
      BY <2>3, <3>1, FS_Subset
    <3>3. Cardinality(own \cup counted) = Cardinality(own) + Cardinality(counted) - Cardinality({})
      BY <2>3, <3>2, FS_Union
    <3> HIDE DEF own, counted
    <3>4. Cardinality({}) = 0 /\ Cardinality(own) \in Nat /\ Cardinality(counted) \in Nat
      BY <3>2, FS_EmptySet, FS_CardinalityType
    <3>5. Cardinality(own \cup counted) = Len(client.sent)
      BY <2>3, <3>1
    <3> QED BY <3>3, <3>4, <3>5
  <2>5. Cardinality(counted) <= client.budget - Reserve(client.budget)
    BY DEF ClientInv, InteractiveIsLimited, Limit
  <2>6. Cardinality(counted) \in Nat /\ Cardinality(own) \in Nat
    BY <2>1, <2>3, PositionsAreFinite, FS_Subset, FS_CardinalityType
  <2>7. Reserve(client.budget) \in Nat /\ Cardinality(own) < Reserve(client.budget)
    BY <2>1, ReserveIsAPart
  <2> HIDE DEF own, counted
  <2>8. Len(client.sent) < client.budget
    BY <2>1, <2>4, <2>5, <2>6, <2>7
  <2> QED BY <2>8 DEF Grants, Limit
<1> QED BY <1>1, InitClientInv, NextKeepsClientInv, PTL DEF Spec

\* A pause the hub asked for is not cut short, and until it is over no request goes out,
\* whoever asks and whatever the calls already out are answered with.
THEOREM PausesHold == Spec => PausesAreKept
<1> DEFINE Kept == client.blockedUntil > clock' =>
                     /\ client'.blockedUntil >= client.blockedUntil
                     /\ Len(client'.sent) <= Len(client.sent)
<1>1. ClientInv /\ [Next]_vars => [Kept]_vars
  <2> SUFFICES ASSUME ClientInv, Next, client.blockedUntil > clock'
               PROVE  /\ client'.blockedUntil >= client.blockedUntil
                      /\ Len(client'.sent) <= Len(client.sent)
    OBVIOUS
  <2>1. /\ client \in Clients /\ client.blockedUntil \in Nat /\ client.budget \in Nat
        /\ client.sent \in Seq(Requested) /\ Len(client.sent) \in Nat /\ clock \in Nat
    BY DEF ClientInv, Clients
  <2>2. CASE UNCHANGED client
    BY <2>1, <2>2
  <2>3. CASE Tick
    <3>1. clock' \in Nat /\ client' = Aged(client, clock')
      BY <2>1, <2>3 DEF Tick
    <3>2. Expired(client.sent, clock') \in 0..Len(client.sent)
      BY <2>1, <3>1, SomeHaveExpired
    <3>3. client'.blockedUntil = client.blockedUntil
          /\ Len(client'.sent) = Len(client.sent) - Expired(client.sent, clock')
      BY <2>1, <3>1, AgedClient
    <3> QED BY <2>1, <3>2, <3>3
  <2>4. ASSUME NEW p \in Priorities, client' = Acquire(client, clock, p), clock' = clock
        PROVE  UNCHANGED client
    <3>1. ~Grants(client, p)
      BY <2>1, <2>4 DEF Grants
    <3> QED BY <2>4, <3>1 DEF Acquire
  <2>5. CASE HubPauses
    <3>1. PICK seconds \in Pauses : client' = BlockFor(client, clock + seconds)
      BY <2>5 DEF HubPauses
    <3>2. clock + seconds \in Nat
      BY <2>1, NumbersAreNatural
    <3>3. client'.blockedUntil >= client.blockedUntil /\ client'.sent = client.sent
      BY <2>1, <3>1, <3>2, BlockedClient
    <3> QED BY <2>1, <3>3
  <2>6. ASSUME NEW budget \in Discovered, Discover(budget)
        PROVE  client'.sent = client.sent /\ client'.blockedUntil = client.blockedUntil
    BY <2>1, <2>6, NumbersAreNatural, RebudgetedClient DEF Discover
  <2>7. CASE TaskAsks
    BY <2>2, <2>4, <2>7 DEF TaskAsks, Priorities
  <2>8. CASE OtherAnswer
    BY <2>2, <2>5, <2>8 DEF OtherAnswer
  <2>9. ASSUME NEW r \in Requests, Step(r) \/ Lock(r) \/ Cancel(r) \/ \E k \in Keys : Start(r, k)
        PROVE  UNCHANGED client \/ HubPauses
    <3>1. CASE Ask(r)
      BY <2>4, <3>1 DEF Ask, Priorities
    <3>2. CASE Answer(r)
      BY <3>2 DEF Answer
    <3>3. CASE Join(r) \/ Unlist(r) \/ Finish(r) \/ Lock(r) \/ Cancel(r) \/ \E k \in Keys : Start(r, k)
      BY <3>3 DEF Join, Unlist, Finish, Lock, Cancel, Start, clientVars
    <3> QED BY <2>9, <3>1, <3>2, <3>3 DEF Step
  <2> QED BY <2>1, <2>2, <2>3, <2>5, <2>6, <2>7, <2>8, <2>9 DEF Next
<1> QED BY <1>1, InitClientInv, NextKeepsClientInv, PTL DEF Spec, PausesAreKept
=============================================================================
