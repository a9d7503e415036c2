----------------------------- MODULE EventsFeed -----------------------------
(***************************************************************************)
(* How a hub event reaches the lists of the site: the hub's cursor feed,   *)
(* the backend's follower and its ring buffer (events.rs), the answer of   *)
(* /api/hub/events, the page's one poller (live-events.js), what it        *)
(* publishes (pubsub.js) and a list that subscribes to it                  *)
(* (event-feed.js).  Events are numbered as the hub counts them; the       *)
(* backend numbers what it buffers anew, from 1, every time it starts.     *)
(***************************************************************************)
EXTENDS Integers, Sequences, SequencesExt

CONSTANTS MaxEvents,      \* bound: what happens at the hub
          Earlier,        \* how much of it happened before the backend started
          Page,           \* PAGE_SIZE and INITIAL_EVENTS of the follower
          Capacity,       \* CAPACITY of the buffer
          Limit,          \* what a poll of a page that is up to date asks for
          Keep,           \* KEEP: what the page keeps, and its first poll asks for
          Hidden,         \* the events of accounts an admin hid
          Slots,          \* bound: polls under way at once
          Overlapping,    \* whether a poll may be sent while another is under way
          MaxRestarts, MaxStarts    \* bounds on what else happens

ASSUME FeedSizes ==
  /\ {MaxEvents, Earlier, MaxRestarts, MaxStarts} \subseteq Nat /\ Earlier <= MaxEvents
  /\ {Page, Capacity, Limit, Keep} \subseteq Nat \ {0} /\ Page <= Capacity
  /\ Slots \in Nat /\ Overlapping \in BOOLEAN

VARIABLES
  happened,   \* the hub's log is 1..happened
  cursor,     \* the follower's cursor: the last event it was given, or Null
  buffer,     \* EventBuffer.events, oldest first
  nextSeq,    \* EventBuffer.next_seq
  running,    \* LiveEvents.interval is set
  events,     \* LiveEvents.events, newest first
  latest,     \* LiveEvents.latest
  polls,      \* the calls of LiveEvents.poll under way
  published,  \* the last "live-events" message pubsub holds, or NoMessage
  feed,       \* the event-feed element on the page
  restarts, starts    \* what has happened so far, against the bounds

serverVars == <<cursor, buffer, nextSeq, restarts>>
pageVars == <<running, events, latest, polls, published, feed, starts>>
vars == <<happened, serverVars, pageVars>>

Null == -1
Ids == 1..MaxEvents
Buffered == [seq : Nat, id : Ids]

Idle == [at |-> "idle"]
Sent == [at : {"sent"}, by : {"first", "interval", "stopped"}, after : Nat \cup {Null}, limit : {Limit, Keep}]
Answer == [at : {"read", "answered"}, by : {"first", "interval", "stopped"},
           batch : Seq(Buffered), latest : Nat \cup {Null}]
NoMessage == [events |-> <<>>, added |-> <<>>, initial |-> TRUE, held |-> FALSE]
Message == [events : Seq(Buffered), added : Seq(Buffered), initial : BOOLEAN, held : {TRUE}]
Feeds == [mounted : BOOLEAN, heard : BOOLEAN, events : Seq(Buffered), newIds : SUBSET Ids]
EmptyFeed == [mounted |-> FALSE, heard |-> FALSE, events |-> <<>>, newIds |-> {}]

IdsOf(s) == {e.id : e \in Range(s)}
FirstOf(s, n) == SubSeq(s, 1, IF Len(s) < n THEN Len(s) ELSE n)
Larger(a, b) == IF a > b THEN a ELSE b

\* The events of a sequence that are none of those, in their order.
Without(s, ids) ==
  LET kept[i \in 0..Len(s)] ==
        IF i = 0 THEN <<>>
        ELSE IF s[i].id \in ids THEN kept[i - 1] ELSE Append(kept[i - 1], s[i])
  IN kept[Len(s)]

TypeOK ==
  /\ happened \in 0..MaxEvents /\ cursor \in 0..happened \cup {Null}
  /\ buffer \in Seq(Buffered) /\ nextSeq \in Nat
  /\ running \in BOOLEAN /\ events \in Seq(Buffered) /\ latest \in Nat \cup {Null}
  /\ polls \in [1..Slots -> {Idle} \cup Sent \cup Answer]
  /\ published \in Message \cup {NoMessage}
  /\ feed \in Feeds
  /\ restarts \in 0..MaxRestarts /\ starts \in 0..MaxStarts

Init ==
  /\ happened = Earlier /\ cursor = Null /\ buffer = <<>> /\ nextSeq = 0
  /\ running = FALSE /\ events = <<>> /\ latest = Null
  /\ polls = [s \in 1..Slots |-> Idle]
  /\ published = NoMessage /\ feed = EmptyFeed
  /\ restarts = 0 /\ starts = 0

-----------------------------------------------------------------------------
(* The hub and the backend.                                                *)

Happen ==
  /\ happened < MaxEvents /\ happened' = happened + 1
  /\ UNCHANGED <<serverVars, pageVars>>

\* The hub's page: what follows the cursor, or the newest; oldest first.
HubPage ==
  LET log == [i \in 1..happened |-> i]
      from == IF cursor # Null THEN cursor
              ELSE IF happened > Page THEN happened - Page ELSE 0
  IN FirstOf(SubSeq(log, from + 1, happened), Page)

\* Mutant: an event is buffered again when the hub repeats it.
PutTwice(acc, id) ==
  LET longer == Append(acc.buffer, [seq |-> acc.next + 1, id |-> id])
  IN [next |-> acc.next + 1,
      buffer |-> SubSeq(longer, Larger(1, Len(longer) - Capacity + 1), Len(longer))]

\* EventBuffer::extend: what the last PAGE_SIZE buffered events do not hold is
\* numbered and put at the end, and the oldest make room for it.
Put(acc, id) ==
  IF id \in IdsOf(SubSeq(acc.buffer, Larger(1, Len(acc.buffer) - Page + 1), Len(acc.buffer)))
  THEN acc
  ELSE LET longer == Append(acc.buffer, [seq |-> acc.next + 1, id |-> id])
       IN [next |-> acc.next + 1,
           buffer |-> SubSeq(longer, Larger(1, Len(longer) - Capacity + 1), Len(longer))]

Extend(page) ==
  LET put[i \in 0..Len(page)] ==
        IF i = 0 THEN [buffer |-> buffer, next |-> nextSeq] ELSE Put(put[i - 1], page[i])
  IN put[Len(page)]

\* Mutant: the cursor is the event that comes next.
NextCursorAhead(page) == IF page = <<>> THEN Larger(cursor, 0) ELSE Last(page) + 1

\* next_cursor: the last event served, also when there was none to serve.
NextCursor(page) == IF page = <<>> THEN Larger(cursor, 0) ELSE Last(page)

\* The follower's poll.  A page that names no next cursor leaves the follower
\* with the one it has, so the next page repeats it.
Follow(named) ==
  /\ named \/ cursor # Null
  /\ LET page == HubPage
         extended == Extend(page)
     IN /\ buffer' = extended.buffer /\ nextSeq' = extended.next
        /\ cursor' = IF named THEN NextCursor(page) ELSE cursor
  /\ UNCHANGED <<happened, restarts, pageVars>>

\* The backend starts again; what it was asked is not answered.
Restart ==
  /\ restarts < MaxRestarts /\ restarts' = restarts + 1
  /\ cursor' = Null /\ buffer' = <<>> /\ nextSeq' = 0
  /\ polls' = [s \in 1..Slots |-> IF polls[s].at \in {"sent", "read"} THEN Idle ELSE polls[s]]
  /\ UNCHANGED <<happened, running, events, latest, published, feed, starts>>

-----------------------------------------------------------------------------
(* A poll.                                                                 *)

\* A new poll takes the first place that is free.
FreeSlot(s) ==
  /\ polls[s] = Idle /\ \A o \in 1..s - 1 : polls[o] # Idle
  /\ Overlapping \/ \A o \in 1..Slots : polls[o] = Idle

Request(by, at) ==
  [at |-> "sent", by |-> by, after |-> at, limit |-> IF at = Null THEN Keep ELSE Limit]

\* How many of a list, newest first, take_while takes.
Newer(list, after) ==
  CHOOSE n \in 0..Len(list) :
    /\ \A i \in 1..n : list[i].seq > after
    /\ n < Len(list) => list[n + 1].seq <= after

\* EventBuffer::query: newest first, down to the one the page has.
Query(after, limit) ==
  LET list == Reverse(buffer)
  IN FirstOf(FirstOf(list, Newer(list, after)), limit)

\* get_events reads the buffer, and leaves out the hidden accounts' events ...
ReadEvents(s) ==
  /\ polls[s].at = "sent"
  /\ polls' = [polls EXCEPT ![s] =
       [at |-> "read", by |-> @.by, latest |-> Null,
        batch |-> Without(Query(@.after, @.limit), Hidden)]]
  /\ UNCHANGED <<happened, serverVars, running, events, latest, published, feed, starts>>

\* ... and then, under the lock once more, the newest number.
ReadLatest(s) ==
  /\ polls[s].at = "read"
  /\ polls' = [polls EXCEPT ![s].at = "answered", ![s].latest = nextSeq]
  /\ UNCHANGED <<happened, serverVars, running, events, latest, published, feed, starts>>

-----------------------------------------------------------------------------
(* The page.                                                               *)

\* Mutant: only a list that starts over is no news.
NewsFromTheStart(f, message) == ~message.initial

\* newsTracker: the first message a subscriber hears is no news, nor is a
\* list that starts over.
BringsNews(f, message) == f.heard /\ ~message.initial

\* EventFeed.handleLiveEvents
Hear(f, message) ==
  [f EXCEPT !.heard = TRUE, !.events = message.events,
            !.newIds = IF BringsNews(f, message) THEN IdsOf(message.added) ELSE {}]

\* pubsub.publish, to the element that is subscribed.
Publish(message) ==
  /\ published' = message
  /\ feed' = IF feed.mounted THEN Hear(feed, message) ELSE feed

\* LiveEvents.start: the list starts over, and the first poll is made.
Start(s) ==
  /\ ~running /\ running' = TRUE /\ starts < MaxStarts /\ starts' = starts + 1
  /\ FreeSlot(s) /\ polls' = [polls EXCEPT ![s] = Request("first", Null)]
  /\ events' = <<>> /\ latest' = Null
  /\ UNCHANGED <<happened, serverVars, published, feed>>

\* The app is taken down (a sign-out): LiveEvents.stop, pubsub.unpublishAll,
\* and the elements go. What was asked is still answered.
Stop ==
  /\ running /\ running' = FALSE /\ events' = <<>> /\ latest' = Null
  /\ polls' = [s \in 1..Slots |-> IF polls[s] = Idle THEN Idle ELSE [polls[s] EXCEPT !.by = "stopped"]]
  /\ published' = NoMessage /\ feed' = EmptyFeed
  /\ UNCHANGED <<happened, serverVars, starts>>

\* The interval's poll; it waits for its own last one.
IntervalPoll(s) ==
  /\ running /\ \A o \in 1..Slots : polls[o] # Idle => polls[o].by # "interval"
  /\ FreeSlot(s) /\ polls' = [polls EXCEPT ![s] = Request("interval", latest)]
  /\ UNCHANGED <<happened, serverVars, running, events, latest, published, feed, starts>>

\* No answer: the catch of poll.
Fail(s) ==
  /\ polls[s].at \in {"sent", "read"}
  /\ polls' = [polls EXCEPT ![s] = Idle]
  /\ UNCHANGED <<happened, serverVars, running, events, latest, published, feed, starts>>

\* Mutant: a restarted backend is not noticed.
NeverStartedOver(answer) == FALSE

\* The newest number in the answer is lower than the page's own: the count of a
\* backend that started again.
StartedOver(answer) == latest # Null /\ answer.latest < latest

\* The list starts over, and is asked for at once, in the same call.
ReceiveRestarted(s) ==
  /\ polls[s].at = "answered" /\ StartedOver(polls[s])
  /\ latest' = Null /\ events' = <<>>
  /\ polls' = [polls EXCEPT ![s] = Request(@.by, Null)]
  /\ UNCHANGED <<happened, serverVars, running, published, feed, starts>>

\* Mutant: the whole batch is new.
AllFresh(batch) == batch

\* What of an answer the list does not have yet.
Fresh(batch) == Without(batch, IdsOf(events))

\* The highest number in a batch.
Newest(batch) ==
  LET max[i \in 0..Len(batch)] == IF i = 0 THEN 0 ELSE Larger(max[i - 1], batch[i].seq)
  IN max[Len(batch)]

\* Mutant: the newest number is taken over from every answer.
UptoAlways(answer) == answer.latest

\* A first load takes over the newest number the server has, no other answer does.
Upto(answer) == IF latest = Null THEN answer.latest ELSE 0

\* LiveEvents.apply
Receive(s) ==
  /\ polls[s].at = "answered" /\ ~StartedOver(polls[s])
  /\ polls' = [polls EXCEPT ![s] = Idle]
  /\ LET batch == polls[s].batch
         initial == latest = Null
         fresh == Fresh(batch)
         list == FirstOf(fresh \o events, Keep)
     IN /\ latest' = Larger(Larger(latest, Newest(batch)), Upto(polls[s]))
        /\ IF ~initial /\ batch = <<>>
           THEN UNCHANGED <<events, published, feed>>
           ELSE /\ events' = list
                /\ Publish([events |-> list, added |-> IF initial THEN <<>> ELSE fresh,
                            initial |-> initial, held |-> TRUE])
  /\ UNCHANGED <<happened, serverVars, running, starts>>

\* A page with an event-feed is opened, in place of the last: the new element
\* hears the last message once more.
Mount ==
  /\ running
  /\ feed' = LET new == [EmptyFeed EXCEPT !.mounted = TRUE]
             IN IF published.held THEN Hear(new, published) ELSE new
  /\ UNCHANGED <<happened, serverVars, running, events, latest, polls, published, starts>>

Follower == \E named \in BOOLEAN : Follow(named)

Next ==
  \/ Happen \/ Follower \/ Restart
  \/ \E s \in 1..Slots : \/ ReadEvents(s) \/ ReadLatest(s) \/ Fail(s)
                         \/ Start(s) \/ IntervalPoll(s) \/ ReceiveRestarted(s) \/ Receive(s)
  \/ Stop \/ Mount

Spec == Init /\ [][Next]_vars

\* The follower and the interval go on, and a poll is answered now and then:
\* the loop of start and setInterval never end, a poll that fails is made again.
Fairness ==
  /\ WF_vars(Follow(TRUE)) /\ WF_vars(\E s \in 1..Slots : IntervalPoll(s))
  /\ \A s \in 1..Slots :
       /\ SF_vars(ReadEvents(s)) /\ SF_vars(ReadLatest(s))
       /\ WF_vars(Receive(s) \/ ReceiveRestarted(s))

-----------------------------------------------------------------------------
(* Properties.                                                             *)

\* The buffer is a window of the hub's log that ends where the follower has
\* got to: no event twice, none left out, numbered without a gap up to the
\* newest number -- whichever pages the hub repeats and whatever had to make
\* room (events.rs extend and start).
BufferIsAWindow ==
  /\ Len(buffer) <= Capacity
  /\ \A i \in 1..Len(buffer) :
       /\ buffer[i].seq = nextSeq - Len(buffer) + i
       /\ i > 1 => buffer[i].id = buffer[i - 1].id + 1

\* The page's list has no event twice and no more than it keeps, and the same
\* goes for a list on the page: also when the first poll is still under way as
\* the interval's is answered.
NoEventTwice ==
  \A s \in {events, feed.events} :
    Len(s) <= Keep /\ \A i, j \in DOMAIN s : s[i].id = s[j].id => i = j

\* What holds of the feed from the hub's log to the list on the page, at every
\* moment (events.rs, live-events.js, event-feed.js).
FeedHolds == TypeOK /\ BufferIsAWindow /\ NoEventTwice

\* What a list marks as new is an event it did not show before: not what a
\* first load, the last message played back to a new list, an answer that came
\* twice or a restarted backend brings (newsTracker, live-events.js:15).
NewsIsNew ==
  [][feed' # feed =>
       \A n \in feed'.newIds \ feed.newIds : feed.heard /\ n \notin IdsOf(feed.events)]_vars
=============================================================================
