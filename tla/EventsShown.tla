---------------------------- MODULE EventsShown ----------------------------
(***************************************************************************)
(* What the list of the site's page owes its viewer.  The page keeps a     *)
(* cursor, and what is numbered up to it is never asked for again, so an   *)
(* event that the page was not given by then is not shown any more.  This  *)
(* module adds to EventsFeed a record of the events that the code lets by  *)
(* in that way, each at the step where it happens; the property says that  *)
(* it lets no other event by.                                              *)
(***************************************************************************)
EXTENDS EventsFeed

VARIABLES
  letBy,   \* the events the code lets by, since the page's last first load was sent
  apart    \* a page is open, and no two polls were under way at once since then

shownVars == <<letBy, apart>>

ShownInit == Init /\ letBy = {} /\ apart = FALSE

-----------------------------------------------------------------------------
(* What is let by.                                                         *)

\* The events the follower puts into the buffer with this step.
Arriving == Range(buffer') \ Range(buffer)

\* An event that is buffered between the two reads of a first load: it is too late for
\* the events of the answer, but not for its newest number, from which the page goes on.
BetweenTheReads ==
  IF latest = Null /\ \E s \in 1..Slots : polls[s].at = "read"
  THEN {e.id : e \in Arriving} ELSE {}

\* The numbers the page goes on from: its own, or that of the answer it is about to get.
PageCounts == {latest} \cup {polls[s].latest : s \in {o \in 1..Slots : polls[o].at = "answered"}}

\* An event that gets a number which the page has passed: the backend started again, and
\* has counted up to the page's number before the page asked.
NumberedBelow == {e.id : e \in {b \in Arriving : \E n \in PageCounts : b.seq <= n}}

\* What a poll asks for and is not given, as it is more than the answer may hold.
BeyondTheLimit ==
  {e.id : e \in {b \in Range(buffer) :
     \E s \in 1..Slots :
       /\ polls[s].at = "sent" /\ polls'[s].at = "read"
       /\ b.seq > polls[s].after
       /\ b \notin Range(Query(polls[s].after, polls[s].limit))}}

FirstLoadSent ==
  \E s \in 1..Slots :
    polls'[s] # polls[s] /\ polls'[s].at = "sent" /\ polls'[s].after = Null

\* Nothing is recorded for a page whose polls overlap.
Watch ==
  /\ apart' = /\ running' /\ (apart \/ FirstLoadSent)
              /\ \A s, o \in 1..Slots : polls'[s] # Idle /\ polls'[o] # Idle => s = o
  /\ letBy' = IF FirstLoadSent \/ ~apart' THEN {}
              ELSE letBy \cup BetweenTheReads \cup NumberedBelow \cup BeyondTheLimit

ShownSpec == ShownInit /\ [][Next /\ Watch]_<<vars, shownVars>> /\ Fairness

-----------------------------------------------------------------------------
(* Properties.                                                             *)

\* "`events` are the newest KEEP events, newest first" (live-events.js:6): what is
\* buffered and not on the list is hidden, was let by, or is older than all of a full list.
ListHoldsTheNewest ==
  /\ \A i, j \in DOMAIN events : i < j => events[i].id > events[j].id
  /\ \A e \in Range(buffer) :
       \/ e.id \in Hidden \cup letBy \cup IdsOf(events)
       \/ Len(events) = Keep /\ \A shown \in IdsOf(events) : shown > e.id

\* An open page gets to the newest event: the follower has all the hub logged, the page
\* asks from no number the backend has not got to, and nothing a viewer may see is newer
\* than what it asks from -- after a restart whose count is below the page's, a first
\* load that failed, and polls answered in another order than they were made (events.rs
\* start and get_events, live-events.js poll and apply). A page whose polls did not
\* overlap then has the newest events on its list, in their order, save those let by:
\* what came between the two reads of its first load, what a restarted backend
\* numbered below the page's count, and what one answer had no room for.
PageCatchesUp ==
  []<>(running =>
         /\ buffer # <<>> => Last(buffer).id = happened
         /\ latest \in 0..nextSeq
         /\ \A e \in Range(buffer) : e.seq > latest => e.id \in Hidden
         /\ apart => ListHoldsTheNewest)
=============================================================================
