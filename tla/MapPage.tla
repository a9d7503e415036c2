------------------------------ MODULE MapPage ------------------------------
(***************************************************************************)
(* The map page's trails (map-page.js) with the shared selection           *)
(* (selection.js) and the time they are asked for (trail-sessions.js):     *)
(* three kinds of requests that overtake each other -- the trails, a       *)
(* player's play sessions for the menu, the events along a trail -- while  *)
(* the viewer switches trails, picks times and leaves, a session ends, a   *)
(* player stops sharing, and the hub fails.                                *)
(*                                                                         *)
(* A player has at most one session, which is "open", then "over", then    *)
(* "gone" (too long ago to ask for).  What a trail is asked for is a span: *)
(* a number of days, or a player's session.                                *)
(***************************************************************************)
EXTENDS Naturals, Sequences, SequencesExt, FiniteSets

CONSTANTS Names, NoOne,
          Days,          \* the lengths the menu offers
          Loots,         \* the smallest drops the filters offer (minLoot)
          MaxTrails,     \* MAX_TRAILS
          MaxMoves,      \* bound: what viewers, players and the server's features do
          MaxFails       \* bound: requests that fail

ASSUME MenuHasLengths ==
  /\ Days # {} /\ Days \subseteq Nat \ {0} /\ Loots # {} /\ Loots \subseteq Nat
  /\ IsFiniteSet(Loots) /\ MaxTrails \in Nat \ {0} /\ NoOne \notin Names

ASSUME Bounds == MaxMoves \in Nat /\ MaxFails \in Nat

VARIABLES
  trails,     \* selection.trails, in the order they were switched on
  selected,   \* selection.selected, or NoOne
  stored,     \* the length remembered in this browser
  minLoot,    \* filters.minLoot
  page,       \* the MapPage element and what it put on the map
  session,    \* the hub: player -> the state of their session
  shares,     \* the hub: who shares their trail
  moves, fails    \* what has happened so far, against the bounds

choiceVars == <<trails, selected, stored, minLoot>>
hubVars == <<session, shares>>
vars == <<choiceVars, page, hubVars, moves, fails>>

DaySpan(d) == [days |-> d, member |-> NoOne, to |-> "none"]
SessionSpan(n, to) == [days |-> 0, member |-> n, to |-> to]
NoTrail == SessionSpan(NoOne, "none")
NoSession == NoTrail
Spans == {DaySpan(d) : d \in Days} \cup {SessionSpan(n, to) : n \in Names, to \in {"open", "over"}}

NoCall == [live |-> FALSE]
Unasked == [live |-> FALSE]

\* Two requests of a kind may be under way: the newest, and one it overtook.
Slots == {"newest", "overtaken"}
Quiet == [s \in Slots |-> NoCall]
NotesOf(span, loot) == [live |-> TRUE, span |-> span, loot |-> loot, fresh |-> TRUE]

\* MapPage.constructor, and the menu as it is rendered.
\* `history` is "on" as well before the server has said so: all the difference
\* is that the controls are hidden until then.
NewPage(length, history) ==
  [connected |-> TRUE, history |-> history,
   shown |-> DaySpan(length), picked |-> NoSession,
   menuOf |-> NoOne, choices |-> {}, menuFresh |-> FALSE, wanted |-> NoOne,
   trailCalls |-> Quiet, sessionCalls |-> Quiet,
   drawn |-> [n \in Names |-> NoTrail], retry |-> "no",
   notes |-> [n \in Names |-> Unasked],     \* trailEvents: what they were asked for
   held |-> [n \in Names |-> Unasked],      \* ... and what the events there are were
   eventCalls |-> [n \in Names |-> Quiet]]

TypeOK ==
  /\ Range(trails) \subseteq Names /\ IsInjective(trails) /\ Len(trails) <= MaxTrails
  /\ selected \in Names \cup {NoOne} /\ stored \in Days /\ minLoot \in Loots
  /\ page.shown \in Spans /\ page.picked \in Spans \cup {NoSession} /\ page.picked.days = 0
  /\ page.menuOf \in Names \cup {NoOne} /\ page.choices \subseteq {"open", "over"}
  /\ page.drawn \in [Names -> Spans \cup {NoTrail}]
  /\ session \in [Names -> {"open", "over", "gone"}] /\ shares \subseteq Names
  /\ moves \in 0..MaxMoves /\ fails \in 0..MaxFails

-----------------------------------------------------------------------------
(* The page's methods, as functions of the page and the selected trails.   *)

\* A call that overtakes the one under way (trailRequestId, sessionsRequestId),
\* and is a request itself or not.
Overtaken(calls) ==
  [newest |-> NoCall, overtaken |-> IF calls.newest.live THEN calls.newest ELSE calls.overtaken]

Asks(calls, call) == [Overtaken(calls) EXCEPT !.newest = call]

\* MapPage.trailSpan
TrailSpan(p) == IF p.picked # NoSession THEN p.picked ELSE p.shown

DropSession(p) == [p EXCEPT !.picked = NoSession, !.shown = DaySpan(stored)]

\* MapPage.sessionOwner: whose sessions the menu offers.
SessionOwner(p, on, sel) ==
  LET drawn(i) == p.drawn[on[i]] # NoTrail
      none == ~\E i \in DOMAIN on : drawn(i)
      first == CHOOSE i \in DOMAIN on : drawn(i) /\ \A j \in 1..(i - 1) : ~drawn(j)
  IN IF p.picked # NoSession /\ p.picked.member \in Range(on) THEN p.picked.member
     ELSE IF \E i \in DOMAIN on : on[i] = sel /\ (none \/ drawn(i)) THEN sel
     ELSE IF on = <<>> THEN NoOne ELSE on[IF none THEN 1 ELSE first]

\* MapPage.showSessions
ShowSessions(p, owner, choices) ==
  LET listed == p.picked # NoSession /\ owner = p.picked.member /\ choices # {}
  IN [p EXCEPT !.menuOf = owner, !.choices = choices,
               !.shown = IF listed THEN p.picked
                         ELSE IF p.picked = NoSession THEN @ ELSE DaySpan(stored)]

\* MapPage.loadSessions, until its request is sent.
LoadSessions(p, on, sel) ==
  LET owner == IF p.history = "off" THEN NoOne ELSE SessionOwner(p, on, sel)
      asked == [p EXCEPT !.wanted = owner, !.sessionCalls = Overtaken(@)]
  IN IF owner = NoOne THEN ShowSessions(asked, NoOne, {})
     ELSE IF owner = p.menuOf /\ p.menuFresh THEN asked
     ELSE [asked EXCEPT !.sessionCalls =
             Asks(p.sessionCalls, [live |-> TRUE, owner |-> owner])]

\* MapPage.loadTrails, until its request is sent: what was switched off goes at
\* once, whatever the request does.
LoadTrails(p, on, sel) ==
  LET mine == IF p.picked # NoSession /\ p.picked.member \notin Range(on) THEN DropSession(p) ELSE p
      sent == LoadSessions([mine EXCEPT !.retry = "no"], on, sel)
      kept == [sent EXCEPT !.drawn = [n \in Names |-> IF n \in Range(on) THEN @[n] ELSE NoTrail],
                           !.notes = [n \in Names |-> IF n \in Range(on) THEN @[n] ELSE Unasked],
                           !.held = [n \in Names |-> IF n \in Range(on) THEN @[n] ELSE Unasked],
                           !.trailCalls = Overtaken(@)]
  IN IF on = <<>> \/ p.history = "off" THEN kept
     ELSE [kept EXCEPT !.trailCalls = Asks(p.trailCalls,
             [live |-> TRUE, names |-> Range(on), span |-> TrailSpan(kept)])]

\* loadTrailEvents: not asked for lately, or for another time, or for fewer drops.
Due(p, n, loot) ==
  \/ ~p.notes[n].live \/ ~p.notes[n].fresh
  \/ p.notes[n].span # TrailSpan(p) \/ p.notes[n].loot > loot

\* MapPage.loadTrailEvents, until its requests are sent.
LoadTrailEvents(p, loot) ==
  LET due == {n \in Names : p.drawn[n] # NoTrail /\ Due(p, n, loot)}
      note == NotesOf(TrailSpan(p), loot)
  IN [p EXCEPT !.notes = [n \in Names |-> IF n \in due THEN note ELSE @[n]],
               !.eventCalls = [n \in Names |->
                  IF n \in due THEN Asks(@[n], [live |-> TRUE, span |-> note.span, loot |-> loot]) ELSE @[n]]]

-----------------------------------------------------------------------------
(* Answers.                                                                *)

\* Mutant: an answer is taken although a later call was made.
AnyAnswer(s) == page.connected

\* The answer is to the last call, and the page is still there.
IsWanted(s) == page.connected /\ s = "newest"

DropCall(calls, s) == [calls EXCEPT ![s] = NoCall]

\* loadTrails has its answer: the trails of those who share theirs are drawn.
TrailsAnswered(s) ==
  LET call == page.trailCalls[s]
      p == [page EXCEPT !.trailCalls = DropCall(@, s)]
      put == [p EXCEPT !.drawn = [n \in Names |->
                IF n \notin call.names THEN @[n] ELSE IF n \in shares THEN call.span ELSE NoTrail]]
      menu == IF SessionOwner(put, trails, selected) # put.wanted
              THEN LoadSessions(put, trails, selected) ELSE put
  IN /\ call.live
     /\ page' = IF IsWanted(s)
                THEN [LoadTrailEvents(menu, minLoot) EXCEPT !.retry = "later"] ELSE p
     /\ UNCHANGED <<choiceVars, hubVars, moves, fails>>

Fails == fails < MaxFails /\ fails' = fails + 1

\* What is drawn stays, and the trails are asked for again in a while.
TrailsFailed(s) ==
  LET call == page.trailCalls[s]
      p == [page EXCEPT !.trailCalls = DropCall(@, s)]
  IN /\ call.live /\ Fails
     /\ page' = IF IsWanted(s) THEN [p EXCEPT !.retry = "soon"] ELSE p
     /\ UNCHANGED <<choiceVars, hubVars, moves>>

\* Mutant: a session that is too long ago is offered too.
OptionsTooOld(n) == {session[n]}

\* sessionOptions, of the hub's list of a player's sessions.
Options(n) == {session[n]} \ {"gone"}

\* Mutant: that the session has ended goes unnoticed.
EndUnseen(p, owner, choices) == FALSE

\* The session that was picked is over by now (now.to !== picked.to).
Ended(p, owner, choices) == p.picked # NoSession /\ p.picked.member = owner /\ p.picked.to \notin choices

\* loadSessions has its answer: the session that was picked may have ended, or
\* be too long ago by now.
TakeSessions(p, owner, choices) ==
  LET fresh == [p EXCEPT !.menuFresh = TRUE]
      mine == p.picked # NoSession /\ p.picked.member = owner
      ended == [fresh EXCEPT !.picked = SessionSpan(owner, CHOOSE to \in choices : TRUE)]
  IN IF mine /\ choices = {}
     THEN LoadTrails(DropSession(ShowSessions(fresh, owner, choices)), trails, selected)
     ELSE IF Ended(p, owner, choices)
     THEN LoadTrails(ShowSessions(ended, owner, choices), trails, selected)
     ELSE ShowSessions(fresh, owner, choices)

SessionsAnswered(s) ==
  LET call == page.sessionCalls[s]
      p == [page EXCEPT !.sessionCalls = DropCall(@, s)]
  IN /\ call.live
     /\ page' = IF IsWanted(s) THEN TakeSessions(p, call.owner, Options(call.owner)) ELSE p
     /\ UNCHANGED <<choiceVars, hubVars, moves, fails>>

\* A failure leaves the sessions that are there, when they are this player's.
KeepsSessions(p, owner) == owner = p.menuOf

SessionsFailed(s) ==
  LET call == page.sessionCalls[s]
      p == [page EXCEPT !.sessionCalls = DropCall(@, s)]
  IN /\ call.live /\ Fails
     /\ page' = IF KeepsSessions(p, call.owner) \/ ~IsWanted(s) THEN p
                ELSE TakeSessions(p, call.owner, {})
     /\ UNCHANGED <<choiceVars, hubVars, moves>>

\* Mutant: an answer is kept that was asked for before the time was changed.
KeepsAnswer(n, s) == page.notes[n].live

\* `wanted` in loadTrailEvents: nothing was asked for since, and the trails
\* show the time it was asked for.
EventsWanted(n, s) ==
  page.notes[n].live /\ s = "newest" /\ page.eventCalls[n][s].span = TrailSpan(page)

EventsAnswered(n, s) ==
  LET call == page.eventCalls[n][s]
      p == [page EXCEPT !.eventCalls[n] = DropCall(@, s)]
  IN /\ call.live
     /\ page' = IF EventsWanted(n, s)
                THEN [p EXCEPT !.held[n] = NotesOf(call.span, call.loot),
                               !.notes[n] = NotesOf(call.span, call.loot)]
                ELSE p
     /\ UNCHANGED <<choiceVars, hubVars, moves, fails>>

\* They are asked for again with the next refresh of the trails.
EventsFailed(n, s) ==
  LET call == page.eventCalls[n][s]
      p == [page EXCEPT !.eventCalls[n] = DropCall(@, s)]
  IN /\ call.live /\ Fails
     /\ page' = IF EventsWanted(n, s) THEN [p EXCEPT !.notes[n].fresh = FALSE] ELSE p
     /\ UNCHANGED <<choiceVars, hubVars, moves>>

-----------------------------------------------------------------------------
(* The viewer, and time.                                                   *)

Does == moves < MaxMoves /\ moves' = moves + 1 /\ UNCHANGED fails

\* selection.toggleTrail, retainTrails (for who left) and a trail's chip; the page hears of it at once.
ToggleTrail(n) ==
  /\ Does /\ (n \in Range(trails) \/ Len(trails) < MaxTrails)
  /\ trails' = IF n \in Range(trails)
               THEN RemoveAt(trails, CHOOSE i \in DOMAIN trails : trails[i] = n)
               ELSE Append(trails, n)
  /\ page' = IF page.connected THEN LoadTrails(page, trails', selected) ELSE page
  /\ UNCHANGED <<selected, stored, minLoot, hubVars>>

\* selection.select and clear
Select(n) ==
  /\ Does /\ n # selected /\ selected' = n
  /\ page' = IF page.connected THEN LoadSessions(page, trails, n) ELSE page
  /\ UNCHANGED <<trails, stored, minLoot, hubVars>>

\* renderTrailChips: the menu is there with a history, for the trails that are on.
ControlsShown == page.connected /\ page.history = "on" /\ trails # <<>>

\* handleTrailDaysChange: a length, which is remembered ...
PickDays(d) ==
  /\ Does /\ ControlsShown /\ page.shown # DaySpan(d) /\ stored' = d
  /\ page' = LoadTrails([page EXCEPT !.picked = NoSession, !.shown = DaySpan(d)], trails, selected)
  /\ UNCHANGED <<trails, selected, minLoot, hubVars>>

\* ... or one of the sessions in the menu.
PickSession(to) ==
  /\ Does /\ ControlsShown /\ to \in page.choices
  /\ LET span == SessionSpan(page.menuOf, to)
     IN /\ page.shown.member # page.menuOf
        /\ page' = LoadTrails([page EXCEPT !.picked = span, !.shown = span], trails, selected)
  /\ UNCHANGED <<choiceVars, hubVars>>

\* handleEventFilterChange
SetMinLoot(loot) ==
  /\ Does /\ page.connected /\ page.history = "on" /\ loot # minLoot /\ minLoot' = loot
  /\ page' = LoadTrailEvents(page, loot)
  /\ UNCHANGED <<trails, selected, stored, hubVars>>

\* handleFeatures: the server says whether it has a history of trails.
Features(has) ==
  /\ Does /\ page.connected /\ page.history # has
  /\ page' = IF page.history = "off" THEN LoadTrails([page EXCEPT !.history = has], trails, selected)
             ELSE [page EXCEPT !.history = has]
  /\ UNCHANGED <<choiceVars, hubVars>>

\* The map page is left: its trails go off the map; what it asked for comes in
\* to an element that is gone.
Leave ==
  /\ Does /\ page.connected
  /\ page' = [page EXCEPT !.connected = FALSE, !.retry = "no", !.drawn = [n \in Names |-> NoTrail]]
  /\ UNCHANGED <<choiceVars, hubVars>>

\* It is opened again: a new element, which hears the topics' last values.
Enter ==
  /\ ~page.connected
  /\ page' = LoadSessions(LoadTrails(NewPage(stored, page.history), trails, selected), trails, selected)
  /\ UNCHANGED <<choiceVars, hubVars, moves, fails>>

\* The timer of loadTrails.  After an answer it runs for TRAIL_REFRESH_MS, and
\* no request takes that long; after a failure for a few seconds.
RefreshDue ==
  /\ page.retry # "no" /\ (page.retry = "later" => ~\E s \in Slots : page.sessionCalls[s].live)
  /\ page' = LoadTrails(page, trails, selected)
  /\ UNCHANGED <<choiceVars, hubVars, moves, fails>>

\* SESSIONS_REFRESH_MS and TRAIL_EVENTS_REFRESH_MS go by.
MenuGrowsOld ==
  /\ page.menuFresh /\ page' = [page EXCEPT !.menuFresh = FALSE]
  /\ UNCHANGED <<choiceVars, hubVars, moves, fails>>

EventsGrowOld ==
  /\ \E n \in Names : page.notes[n].live /\ page.notes[n].fresh
  /\ ~\E n \in Names, s \in Slots : page.eventCalls[n][s].live
  /\ page' = [page EXCEPT !.notes = [n \in Names |-> IF @[n].live THEN [@[n] EXCEPT !.fresh = FALSE] ELSE @[n]]]
  /\ UNCHANGED <<choiceVars, hubVars, moves, fails>>

\* A session ends, and is too long ago in the end; a player changes what they share.
SessionMoves(n) ==
  /\ Does /\ session[n] # "gone"
  /\ session' = [session EXCEPT ![n] = IF @ = "open" THEN "over" ELSE "gone"]
  /\ UNCHANGED <<choiceVars, page, shares>>

SharingMoves(n) ==
  /\ Does /\ shares' = IF n \in shares THEN shares \ {n} ELSE shares \cup {n}
  /\ UNCHANGED <<choiceVars, page, session>>

Init ==
  /\ trails \in {<<>>} \cup {<<n>> : n \in Names} /\ selected = NoOne
  /\ stored \in Days /\ minLoot = Max(Loots)
  /\ page = LoadTrails(NewPage(stored, "on"), trails, selected)
  /\ session = [n \in Names |-> "open"] /\ shares = Names
  /\ moves = 0 /\ fails = 0

Next ==
  \/ \E s \in Slots : TrailsAnswered(s) \/ TrailsFailed(s) \/ SessionsAnswered(s) \/ SessionsFailed(s)
  \/ \E n \in Names, s \in Slots : EventsAnswered(n, s) \/ EventsFailed(n, s)
  \/ \E n \in Names : ToggleTrail(n) \/ SessionMoves(n) \/ SharingMoves(n)
  \/ \E n \in Names \cup {NoOne} : Select(n)
  \/ \E d \in Days : PickDays(d)
  \/ \E to \in {"open", "over"} : PickSession(to)
  \/ \E loot \in Loots : SetMinLoot(loot)
  \/ \E has \in {"on", "off"} : Features(has)
  \/ Leave \/ Enter \/ RefreshDue \/ MenuGrowsOld \/ EventsGrowOld

Spec == Init /\ [][Next]_vars

\* Answers come, timers run out, and whoever leaves the map comes back.
FairSpec ==
  /\ Spec /\ WF_vars(Enter \/ RefreshDue) /\ WF_vars(MenuGrowsOld)
  /\ WF_vars(\E s \in Slots : TrailsAnswered(s))
  /\ WF_vars(\E s \in Slots : SessionsAnswered(s))

-----------------------------------------------------------------------------
(* Properties.                                                             *)

\* A trail on the map is one that is switched on: none comes back with an
\* answer that was under way when it was switched off (loadTrails).
DrawnAreSwitchedOn == \A n \in Names : page.drawn[n] # NoTrail => n \in Range(trails)

\* The session that was picked is its player's, whose trail is on, and the menu
\* that lists that player's sessions has it picked: the trails are never of a
\* time the menu doesn't say (loadTrails, loadSessions, showSessions).
MenuShowsTheSpan ==
  page.connected /\ page.picked # NoSession =>
    /\ page.picked.member \in Range(trails)
    /\ page.menuOf = page.picked.member => page.shown = page.picked /\ page.picked.to \in page.choices

\* What holds of the map page at every moment, whatever answers come in
\* (map-page.js loadTrails, loadSessions).
PageHolds == TypeOK /\ DrawnAreSwitchedOn /\ MenuShowsTheSpan

\* The trails get to be those switched on, over the time that is chosen, and
\* the menu to list the sessions of the player they are about: whatever answers
\* were overtaken or lost, sessions that ended, and trails that were not shared
\* on the way (loadTrails, loadSessions, sessionOwner).
TrailsCatchUp ==
  []<>(page.connected /\ page.history # "off" =>
         /\ \A n \in Names : page.drawn[n] =
              IF n \in Range(trails) /\ n \in shares THEN TrailSpan(page) ELSE NoTrail
         /\ page.menuOf = SessionOwner(page, trails, selected))

\* The events a trail is marked with, of the time it shows and with the drops
\* the filters let through.
Marked(p, n, loot) ==
  p.held[n].live /\ p.held[n].span = TrailSpan(p) /\ p.held[n].loot <= loot

\* Marks that are there are not taken away by an answer to what was asked
\* before, for another time or for fewer drops: only the trail, its time or the
\* filters take them (loadTrailEvents).
MarksStay ==
  [][\A n \in Names :
       Marked(page, n, minLoot) /\ TrailSpan(page') = TrailSpan(page) /\ minLoot' = minLoot
         /\ page'.drawn[n] # NoTrail /\ page'.connected
       => Marked(page', n, minLoot)]_vars

\* loadTrailEvents, of an answer that is dropped: "the player is still due".
\* What was asked for lately, and so is not asked for again, is there or coming.
DroppedIsDue ==
  \A n \in Names :
    page.connected /\ page.drawn[n] # NoTrail /\ ~Due(page, n, minLoot) =>
      \/ page.held[n].live /\ page.held[n].span = TrailSpan(page)
      \/ page.eventCalls[n].newest.live
=============================================================================
