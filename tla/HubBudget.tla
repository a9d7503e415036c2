------------------------------ MODULE HubBudget ------------------------------
(***************************************************************************)
(* The request budget of hub/client.rs: which requests to the hub may go   *)
(* out in a sliding window, for two priorities, and the pause the hub may  *)
(* ask for.  A client is a record; the operators are its critical sections.*)
(* The code keeps only the times of the requests; the model also keeps who *)
(* sent them, for the properties.                                          *)
(***************************************************************************)
EXTENDS Integers, Sequences

CONSTANTS Window     \* BUDGET_WINDOW

ASSUME WindowIsPositive == Window \in Nat \ {0}

Priorities == {"sync", "interactive"}

NewClient(budget) == [sent |-> <<>>, blockedUntil |-> 0, budget |-> budget]

\* interactive_reserve: a quarter of the budget, at least 10, at most half.
Reserve(budget) ==
  LET quarter == IF budget \div 4 < 10 THEN 10 ELSE budget \div 4
  IN  IF quarter < budget \div 2 THEN quarter ELSE budget \div 2

\* How many requests are taken from the front of the queue: those before the first
\* that is in the window.
Expired(sent, now) ==
  CHOOSE n \in 0..Len(sent) :
    /\ \A i \in 1..n : now - sent[i].at >= Window
    /\ n < Len(sent) => now - sent[n + 1].at < Window

\* What acquire does first, with the time it is: the requests older than the window
\* leave the queue, and a pause that is over is cleared. The only other reader,
\* block_for, compares a pause with a later one, so the model does both as time passes.
Aged(client, now) ==
  [client EXCEPT !.sent = SubSeq(@, Expired(@, now) + 1, Len(@)),
                 !.blockedUntil = IF @ <= now THEN 0 ELSE @]

\* Mutant: interactive requests may use all of the budget.
LimitWithoutReserve(client, priority) == client.budget

Limit(client, priority) ==
  IF priority = "sync" THEN client.budget ELSE client.budget - Reserve(client.budget)

\* acquire, for a client of the time it is.
Grants(client, priority) ==
  client.blockedUntil = 0 /\ Len(client.sent) < Limit(client, priority)

Acquire(client, now, priority) ==
  IF Grants(client, priority)
  THEN [client EXCEPT !.sent = Append(@, [at |-> now, by |-> priority])]
  ELSE client

\* Mutant: the hub's last word counts, not its longest.
BlockForLast(client, until) == [client EXCEPT !.blockedUntil = until]

\* block_for: a pause is never made shorter.
BlockFor(client, until) ==
  [client EXCEPT !.blockedUntil = IF @ < until THEN until ELSE @]

SetBudget(client, budget) == [client EXCEPT !.budget = IF budget < 1 THEN 1 ELSE budget]
=============================================================================
