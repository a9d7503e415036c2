------------------------------- MODULE Replay -------------------------------
(***************************************************************************)
(* The replay of the trails: the clock that plays through them             *)
(* (replay-clock.js), its controls (trail-scrubber.js), and what the       *)
(* trails tell it -- their span, when something next happens and where the *)
(* watched player hops (trail-layer.js, trail-model.js) -- while trails    *)
(* are refreshed, switched on and off under a replay that is playing.      *)
(*                                                                         *)
(* A trail is a record of its points (the stays [t0, t1], in order), the   *)
(* kind of the step after each, and the times of the events marked on it.  *)
(***************************************************************************)
EXTENDS Integers, Sequences, FiniteSets, SequencesExt

CONSTANTS Names, NoOne,
          Trails,             \* the trails a player may have
          IdleSkip, IdleLead, \* IDLE_SKIP_S, IDLE_LEAD_S
          Steps,              \* how far a frame moves the clock, by its length and the speed
          HoldFrames,         \* LANDING_HOLD_MS, in frames
          HopFrames,          \* HOP_MS, in frames
          MaxMoves            \* bound: what the viewer and the trails do

NoTrail == [points |-> <<>>, kinds |-> <<>>, marks |-> {}]
NoHop == [leave |-> 0, land |-> 0, animated |-> FALSE]

\* A trail that is drawn has points, in the order they were walked.
IsTrail(tr) ==
  /\ tr.points \in Seq([t0 : Nat, t1 : Nat]) /\ tr.points # <<>> /\ tr.marks \subseteq Nat
  /\ tr.kinds \in Seq(STRING) /\ Len(tr.kinds) = Len(tr.points) - 1
  /\ \A i \in DOMAIN tr.points : tr.points[i].t0 <= tr.points[i].t1
  /\ \A i, j \in DOMAIN tr.points : i < j => tr.points[i].t1 <= tr.points[j].t0

ReplayConstants ==
  /\ NoOne \notin Names /\ IsFiniteSet(Names) /\ \A tr \in Trails : IsTrail(tr)
  /\ IsFiniteSet(Steps) /\ Steps \subseteq Nat \ {0}
  /\ IdleLead \in Nat /\ IdleSkip \in Nat /\ IdleLead < IdleSkip
  /\ HoldFrames \in Nat /\ HopFrames \in Nat \ {0}

VARIABLES
  trail,      \* player -> trail, or NoTrail
  order,      \* the players with a trail, in the order they got it
  selected,
  clock,      \* tMin, tMax, time, playing, skipIdle, hold, hop, hopAt (frames into the hop), hopping
  controls,   \* open, follow, wants (what was chosen by hand), frames (a frame is asked for)
  map,        \* what the map was last told to show: time (-1: live) and hop
  moves

vars == <<trail, order, selected, clock, controls, map, moves>>

Live == [time |-> -1, hopping |-> FALSE, hop |-> NoHop, at |-> 0]

-----------------------------------------------------------------------------
(* What the trails say (trail-model.js, trail-layer.js).                   *)

Least(S) == CHOOSE x \in S : \A y \in S : x <= y
Greatest(S) == CHOOSE x \in S : \A y \in S : x >= y

Connected == {"walk", "stairs", "sail"}
NextRoom == {"house", "instance"}

\* The time by which a quiet stretch of a walk is a gap in the data.
GapS == IdleSkip

\* indexAt: the last point reached by time t, or 0.
IndexAt(points, t) == Greatest({0} \cup {i \in DOMAIN points : points[i].t0 <= t})

Never == {}

\* nextChangeAfter: t itself while the player is under way, the end of the
\* stay or of the absence, nothing after the last point.
ChangeAfter(tr, t) ==
  LET i == IndexAt(tr.points, t) IN
  IF tr.points = <<>> THEN Never
  ELSE IF i = 0 THEN {tr.points[1].t0}
  ELSE IF i = Len(tr.points) THEN Never
  ELSE IF t <= tr.points[i].t1 THEN {tr.points[i].t1}
  ELSE IF tr.kinds[i] \notin Connected \/ tr.points[i + 1].t0 - tr.points[i].t1 > GapS
       THEN {tr.points[i + 1].t0}
  ELSE {t}

MarkAfter(tr, t) == LET next == {m \in tr.marks : m >= t} IN IF next = {} THEN Never ELSE {Least(next)}

\* Mutant: only what the players do counts, not what is marked on their trails.
NextMove(trs, t) == UNION {ChangeAfter(trs[n], t) : n \in Names}

\* TrailLayer.nextChangeAfter
NextChange(trs, t) == UNION {ChangeAfter(trs[n], t) \cup MarkAfter(trs[n], t) : n \in Names}

\* replayPlayer: the selected player, or the first with a trail.
ReplayPlayer ==
  IF selected \in Names /\ trail[selected] # NoTrail THEN selected ELSE IF order = <<>> THEN NoOne ELSE order[1]

Hops(tr) ==
  {[leave |-> tr.points[i].t1, land |-> tr.points[i + 1].t0, animated |-> tr.kinds[i] = "teleport"] :
     i \in {j \in DOMAIN tr.kinds : tr.kinds[j] \notin Connected \cup NextRoom}}

\* Mutant: a hop is looked for from where the player left, not where they landed.
HopsLeft(tr, from, to) == {h \in Hops(tr) : from < h.leave /\ h.land <= to}

\* nextHop and trailNextHop: the first hop that lands in the span.
HopsIn(tr, from, to) == {h \in Hops(tr) : from < h.land /\ h.land <= to}

NextHop(from, to) ==
  IF ReplayPlayer = NoOne THEN {}
  ELSE LET in == HopsIn(trail[ReplayPlayer], from, to) IN
       IF in = {} THEN {} ELSE {CHOOSE h \in in : \A g \in in : h.land <= g.land}

\* timeline: the span of the trails.
Span(trs) ==
  LET on == {n \in Names : trs[n] # NoTrail} IN
  [tMin |-> Least({trs[n].points[1].t0 : n \in on}),
   tMax |-> Greatest({trs[n].points[Len(trs[n].points)].t1 : n \in on})]

-----------------------------------------------------------------------------
(* ReplayClock                                                             *)

AtEnd(c) == c.time >= c.tMax

Clamp(t, lo, hi) == IF t < lo THEN lo ELSE IF t > hi THEN hi ELSE t

SetRange(c, span) ==
  [c EXCEPT !.tMin = span.tMin, !.tMax = span.tMax,
            !.time = IF AtEnd(c) THEN span.tMax ELSE Clamp(c.time, span.tMin, span.tMax)]

NoHopping(c) == [c EXCEPT !.hopping = FALSE, !.hop = NoHop, !.hopAt = 0]

SeekTo(c, t) == [NoHopping(c) EXCEPT !.time = Clamp(t, c.tMin, c.tMax), !.hold = 0]

Play(c) == [c EXCEPT !.playing = TRUE, !.time = IF AtEnd(c) /\ ~c.hopping THEN c.tMin ELSE @]

\* Mutant: a pause doesn't end what the clock was waiting for.
PauseHolding(c) == [c EXCEPT !.playing = FALSE, !.hopAt = 0]

Pause(c) == [c EXCEPT !.playing = FALSE, !.hold = 0, !.hopAt = 0]

EndsAtEnd(c) == IF AtEnd(c) /\ ~c.hopping THEN [c EXCEPT !.playing = FALSE] ELSE c

\* Where a frame takes the clock, waits skipped.
Ahead(c, d) ==
  IF ~c.skipIdle THEN {Clamp(c.time + d, c.time, c.tMax)}
  ELSE IF NextChange(trail, c.time) = {} THEN {c.tMax}
  ELSE {IF at - c.time > IdleSkip THEN Clamp(at - IdleLead, c.time, c.tMax) ELSE Clamp(c.time + d, c.time, c.tMax) :
          at \in {Least(NextChange(trail, c.time))}}

\* Where the clock stops on its way there: at a hop, which is played out, or held.
Stops(c, to) ==
  IF NextHop(c.time, to) = {} THEN {[c EXCEPT !.time = to]}
  ELSE {IF hop.animated THEN [c EXCEPT !.time = hop.leave, !.hopping = TRUE, !.hop = hop, !.hopAt = 0]
        ELSE [c EXCEPT !.time = hop.land, !.hold = HoldFrames] : hop \in NextHop(c.time, to)}

\* Mutant: the hop that was played is left for the next frame to find again.
LandAtLeave(c) == NoHopping(c)

\* A hop that is over: the clock goes on from where the player landed.
LandHop(c) == [NoHopping(c) EXCEPT !.time = c.hop.land]

\* tick: the clock after a frame, and whether there is something new to show.
Tick(c, d) ==
  IF ~c.playing THEN {[news |-> FALSE, clock |-> c]}
  ELSE IF c.hopping
  THEN {[news |-> TRUE,
         clock |-> IF c.hopAt + 1 < HopFrames THEN [c EXCEPT !.hopAt = @ + 1] ELSE EndsAtEnd(LandHop(c))]}
  ELSE IF c.hold > 0 THEN {[news |-> FALSE, clock |-> [c EXCEPT !.hold = @ - 1]]}
  ELSE {[news |-> on.time # c.time \/ on.hopping, clock |-> EndsAtEnd(on)] :
          on \in UNION {Stops(c, to) : to \in Ahead(c, d)}}

-----------------------------------------------------------------------------
(* TrailScrubber, and what the map page does with its "replay-change".     *)

Shows(c) == [time |-> c.time, hopping |-> c.hopping, hop |-> c.hop, at |-> c.hopAt]

Emit(c) == map' = Shows(c)

Does == moves < MaxMoves /\ moves' = moves + 1

Open ==
  /\ Does /\ ~controls.open /\ order # <<>>
  /\ clock' = SeekTo(Pause(clock), clock.tMax)
  /\ controls' = [controls EXCEPT !.open = TRUE, !.follow = controls.wants]
  /\ Emit(clock') /\ UNCHANGED <<trail, order, selected>>

\* close
Closed ==
  /\ clock' = Pause(clock) /\ controls' = [controls EXCEPT !.open = FALSE, !.frames = FALSE] /\ map' = Live

Close == Does /\ controls.open /\ Closed /\ UNCHANGED <<trail, order, selected>>

Seek(t) ==
  /\ Does /\ controls.open /\ t \in clock.tMin..clock.tMax
  /\ clock' = SeekTo(clock, t) /\ Emit(clock') /\ UNCHANGED <<trail, order, selected, controls>>

\* togglePlaying
StartPlaying ==
  /\ Does /\ controls.open /\ ~clock.playing
  /\ clock' = Play(clock) /\ controls' = [controls EXCEPT !.frames = TRUE] /\ Emit(clock')
  /\ UNCHANGED <<trail, order, selected>>

\* Mutant: a teleport that was being played out stays halfway on the map.
PausesUntold == UNCHANGED map

\* The map was in the middle of a teleport, which is back at its start.
PausesTold == IF clock.hopping THEN Emit(clock') ELSE UNCHANGED map

StopPlaying ==
  /\ Does /\ controls.open /\ clock.playing
  /\ clock' = Pause(clock) /\ controls' = [controls EXCEPT !.frames = FALSE] /\ PausesTold
  /\ UNCHANGED <<trail, order, selected>>

Frame ==
  /\ controls.frames
  /\ \E d \in Steps : \E tick \in Tick(clock, d) :
       /\ clock' = tick.clock /\ controls' = [controls EXCEPT !.frames = tick.clock.playing]
       /\ IF tick.news THEN Emit(tick.clock) ELSE UNCHANGED map
  /\ UNCHANGED <<trail, order, selected, moves>>

\* handleChange: skipping the waits, and following the player.
SkipIdle ==
  /\ Does /\ clock' = [clock EXCEPT !.skipIdle = ~@] /\ UNCHANGED <<trail, order, selected, controls, map>>

\* What is chosen by hand holds for the next replay too.
Follow ==
  /\ Does /\ controls' = [controls EXCEPT !.follow = ~@, !.wants = ~controls.follow]
  /\ IF controls'.follow /\ controls.open THEN Emit(clock) ELSE UNCHANGED map
  /\ UNCHANGED <<trail, order, selected, clock>>

\* The map was dragged.
Dragged ==
  /\ Does /\ controls.follow /\ controls' = [controls EXCEPT !.follow = FALSE]
  /\ UNCHANGED <<trail, order, selected, clock, map>>

\* Mutant: the map is told of the new time with the next frame only.
ShowsLater == UNCHANGED map

\* setTimeline: the map shows the time the clock has now.
ShowsNow == IF controls.open /\ clock'.time # clock.time THEN Emit(clock') ELSE UNCHANGED map

\* A trail comes, is refreshed, shows another time, or goes.
TrailChanges(n, tr) ==
  /\ Does /\ tr # trail[n] /\ trail' = [trail EXCEPT ![n] = tr]
  /\ IF tr = NoTrail THEN \E i \in DOMAIN order : order[i] = n /\ order' = RemoveAt(order, i)
     ELSE order' = IF trail[n] = NoTrail THEN Append(order, n) ELSE order
  /\ IF order' = <<>> THEN Closed
     ELSE /\ clock' = SetRange(clock, Span(trail')) /\ ShowsNow /\ UNCHANGED controls
  /\ UNCHANGED selected

Select(n) ==
  /\ Does /\ n # selected /\ selected' = n /\ UNCHANGED <<trail, order, clock, controls, map>>

Init ==
  /\ trail \in [Names -> Trails \cup {NoTrail}] /\ \E n \in Names : trail[n] # NoTrail
  /\ order \in SetToSeqs({n \in Names : trail[n] # NoTrail})
  /\ selected = NoOne
  /\ clock = [tMin |-> Span(trail).tMin, tMax |-> Span(trail).tMax, time |-> Span(trail).tMax, playing |-> FALSE,
              skipIdle |-> TRUE, hold |-> 0, hopping |-> FALSE, hop |-> NoHop, hopAt |-> 0]
  /\ controls = [open |-> FALSE, follow |-> TRUE, wants |-> TRUE, frames |-> FALSE]
  /\ map = Live /\ moves = 0

Viewer ==
  \/ Open \/ Close \/ StartPlaying \/ StopPlaying \/ SkipIdle \/ Follow \/ Dragged
  \/ \E t \in clock.tMin..clock.tMax : Seek(t)
  \/ \E n \in Names \cup {NoOne} : Select(n)

Next ==
  \/ Frame \/ Viewer
  \/ \E n \in Names, tr \in Trails \cup {NoTrail} : TrailChanges(n, tr)

Spec == Init /\ [][Next]_vars

-----------------------------------------------------------------------------
(* Properties.                                                             *)

TypeOK ==
  /\ trail \in [Names -> Trails \cup {NoTrail}] /\ selected \in Names \cup {NoOne}
  /\ clock.time \in Int /\ clock.hold \in 0..HoldFrames /\ clock.hopAt \in 0..(HopFrames - 1)
  /\ clock.hold > 0 => ~clock.hopping /\ (clock.playing \/ AtEnd(clock))
  /\ clock.hopping <=> clock.hop # NoHop
  /\ controls \in [open : BOOLEAN, follow : BOOLEAN, wants : BOOLEAN, frames : BOOLEAN]
  /\ controls.frames <=> clock.playing
  /\ clock.playing => controls.open

\* The map shows what the clock says, teleports halfway included, for as long
\* as the replay is open, and is live when it is not: whatever moved the clock
\* told the map (emit, in trail-scrubber.js).
MapShowsClock == map = IF controls.open THEN Shows(clock) ELSE Live

\* Playing passes no hop of the watched player without stopping for it, waits
\* skipped or not: it is played out, or the clock holds where they landed
\* (tick's nextHop).
StopsAtEveryHop ==
  Frame /\ ~clock.hopping /\ ReplayPlayer # NoOne =>
    \A h \in Hops(trail[ReplayPlayer]) : ~(clock.time < h.land /\ h.land < clock'.time)

\* What is skipped is idle: nobody moves in it and nothing is marked in it
\* (nextChangeAfter, IDLE_SKIP_S), except where a hop sends the clock.
OnlyIdleIsSkipped ==
  Frame /\ ~clock.hopping /\ ~clock'.hopping /\ clock'.time > clock.time + Greatest(Steps) =>
    \A n \in Names : /\ \A m \in trail[n].marks : ~(clock.time <= m /\ m < clock'.time)
                     /\ \A i \in DOMAIN trail[n].points :
                          ~(clock.time < trail[n].points[i].t0 /\ trail[n].points[i].t0 < clock'.time)

\* A replay that plays gets on with every frame, and so to its end: into a hop
\* that lands later (though it may begin earlier), through it and out at its
\* end, out of a hold, or just on. No hop is played again and again (tick).
FramesGetOn ==
  Frame /\ clock.playing /\ clock'.playing =>
    IF clock.hopping
    THEN IF clock'.hopping THEN clock'.hopAt > clock.hopAt ELSE clock'.time = clock.hop.land
    ELSE IF clock'.hopping THEN clock'.hop.land > clock.time
         ELSE clock'.time > clock.time \/ clock'.hold < clock.hold

ReplayHolds == TypeOK /\ MapShowsClock

PlayingGoesOn == StopsAtEveryHop /\ OnlyIdleIsSkipped /\ FramesGetOn

\* replay-clock.js: "The time shown while trails are replayed: a point between
\* the start and the end of the trails".
TimeIsOnTheTrails == clock.tMin <= clock.time /\ clock.time <= clock.tMax
=============================================================================
