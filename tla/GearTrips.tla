----------------------------- MODULE GearTrips -----------------------------
(***************************************************************************)
(* A player's gear changes as trips (data/gear-trips.js): the stretches of *)
(* play one kit is worn for.  The log grows while it is looked at.         *)
(***************************************************************************)
EXTENDS Naturals, Sequences, FiniteSets, FiniteSetsExt, SequencesExt

CONSTANTS Sets,       \* what may be worn: sets of <<slot, item>>
          TripGap,    \* TRIP_GAP_MS
          MinShared,  \* TRIP_MIN_SHARED
          MaxChanges, MaxTime   \* bounds

VARIABLES log,  \* the changes, oldest first: what is worn since when
          now

vars == <<log, now>>

-----------------------------------------------------------------------------
\* sharedCount, of a set and of items
SharedCount(set, items) == Cardinality({worn \in set : worn[2] \in items})

Items(set) == {worn[2] : worn \in set}

\* openTrip; worn: <<slot, item>> -> how long it was worn, and since when.
OpenTrip(at) == [startedAt |-> at, endedAt |-> at, swaps |-> 0, setups |-> {}, worn |-> <<>>]

\* wear, for the order-th time
Wear(trip, set, ms, order) ==
  LET worn == trip.worn IN
  IF set = {} THEN trip
  ELSE [trip EXCEPT !.setups = @ \cup {set},
          !.worn = [w \in DOMAIN worn \cup set |->
                      IF w \notin DOMAIN worn THEN [ms |-> ms, order |-> order]
                      ELSE IF w \in set THEN [worn[w] EXCEPT !.ms = @ + ms] ELSE worn[w]]]

\* close: a slot's items, the longest worn first.
Closed(trip) ==
  LET worn == trip.worn
      Before(v, w) == \/ worn[v].ms > worn[w].ms
                      \/ worn[v].ms = worn[w].ms /\ worn[v].order < worn[w].order
      Slot(s) == SetToSortSeq({w \in DOMAIN worn : w[1] = s}, Before)
  IN [startedAt |-> trip.startedAt, endedAt |-> trip.endedAt, swaps |-> trip.swaps,
      setups |-> Cardinality(trip.setups), kit |-> [s \in {w[1] : w \in DOMAIN worn} |-> Slot(s)]]

\* How long the i-th set counts as worn.
WornFor(i) == Min({TripGap, (IF i < Len(log) THEN log[i + 1].at ELSE now) - log[i].at})

AfterGap(i) == i > 1 /\ log[i].at - log[i - 1].at >= TripGap

\* A set with (almost) nothing in common with the trip so far.
NewOutfit(trip, set) ==
  /\ trip.worn # <<>> /\ Cardinality(set) > MinShared
  /\ SharedCount(set, Items(DOMAIN trip.worn)) < MinShared

\* Mutant: nothing is carried into a trip.
CarriesNothing(i) == {}

\* The set a trip's first was swapped from, if it came along.
Carried(i) ==
  LET before == IF i = 1 THEN {} ELSE log[i - 1].set IN
  IF SharedCount(log[i].set, Items(before)) >= MinShared THEN before ELSE {}

\* Row i of the log; trips: those closed, and last the one that is open.
Row(trips, i) ==
  LET set == log[i].set
      trip == Last(trips)
      carried == Carried(i)
      opened == [Wear(OpenTrip(log[i].at), carried, 0, 2 * i) EXCEPT !.swaps = IF carried = {} THEN 0 ELSE 1]
      on == [trip EXCEPT !.swaps = @ + 1, !.endedAt = log[i].at]
  IN IF AfterGap(i) /\ set = {} THEN trips
     ELSE IF trips = <<>> \/ AfterGap(i) \/ NewOutfit(trip, set)
       THEN Append(trips, Wear(opened, set, WornFor(i), 2 * i + 1))
       ELSE Append(Front(trips), Wear(on, set, WornFor(i), 2 * i + 1))

\* gearTrips, the oldest first.
Trips == LET trips == FoldLeftDomain(Row, <<>>, log) IN [t \in DOMAIN trips |-> Closed(trips[t])]

-----------------------------------------------------------------------------
Init == log = <<>> /\ now = 0

\* The hub logs a change.
Change(set) ==
  /\ Len(log) < MaxChanges
  /\ log # <<>> => Last(log).set # set /\ Last(log).at < now
  /\ log' = Append(log, [at |-> now, set |-> set]) /\ UNCHANGED now

Tick == now < MaxTime /\ now' = now + 1 /\ UNCHANGED log

Next == Tick \/ \E set \in Sets : Change(set)

Spec == Init /\ [][Next]_vars

-----------------------------------------------------------------------------
TypeOK == now \in 0..MaxTime /\ log \in Seq([at : 0..now, set : Sets]) /\ Len(log) <= MaxChanges

\* The rows of the log in a trip's time: all but those that take everything
\* off long after the last.
Rows(trip) == {i \in DOMAIN log : /\ trip.startedAt <= log[i].at /\ log[i].at <= trip.endedAt
                                 /\ ~(AfterGap(i) /\ log[i].set = {})}

\* A trip is what its rows say: so many swaps and setups, one more if its
\* first set was swapped from one it shares enough with, that came along; all
\* that was worn, in its slot, the longest worn first, no set for longer than
\* the gap.
TripAgrees(trip) ==
  LET rows == Rows(trip)
      first == log[Min(rows)].set
      before == IF Min(rows) = 1 THEN {} ELSE log[Min(rows) - 1].set
      along == {w \in before : Cardinality({v \in first : v[2] \in Items(before)}) >= MinShared}
      sets == ({log[i].set : i \in rows} \cup {along}) \ {{}}
      Worn(w) == MapThenSumSet(WornFor, {i \in rows : w \in log[i].set})
  IN /\ trip.swaps = Cardinality(rows) - (IF along = {} THEN 1 ELSE 0)
     /\ trip.setups = Cardinality(sets)
     /\ DOMAIN trip.kit = {w[1] : w \in UNION sets}
     /\ \A s \in DOMAIN trip.kit :
          LET items == trip.kit[s] IN
          /\ ToSet(items) = {w \in UNION sets : w[1] = s}
          /\ \A m \in 2..Len(items) : Worn(items[m - 1]) >= Worn(items[m])

\* Whatever is worn is in the one trip of its time, trips do not overlap, and
\* each is the trip its rows make (gear-trips.js gearTrips).
TripsAgree ==
  LET trips == Trips IN
  /\ TypeOK
  /\ \A t \in DOMAIN trips : TripAgrees(trips[t])
  /\ \A t \in 2..Len(trips) : trips[t - 1].endedAt < trips[t].startedAt
  /\ \A i \in DOMAIN log : log[i].set # {} => \E t \in DOMAIN trips : i \in Rows(trips[t])

\* What gear-trips.js:5-6 says: "A trip is a run of changes where each comes
\* less than TRIP_GAP_MS after the one before it".
TripsHaveNoGap ==
  LET trips == Trips IN
  \A t \in DOMAIN trips : \A i \in Rows(trips[t]) :
    LET before == {j \in Rows(trips[t]) : j < i} IN
    before # {} => log[i].at - log[Max(before)].at < TripGap
=============================================================================
