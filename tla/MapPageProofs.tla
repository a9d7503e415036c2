---------------------------- MODULE MapPageProofs ----------------------------
(* That the map shows no trail that is off, that the menu says the time the *)
(* trails are of, and that marks stay: for all players, lengths, filters    *)
(* and bounds.                                                              *)
EXTENDS MapPage, FiniteSetTheorems, SequenceTheorems, WellFoundedInduction, TLAPS

(* What the page is made of.                                                *)

Sessions == {SessionSpan(n, to) : n \in Names, to \in {"open", "over"}}
Maybe(calls) == calls \cup {NoCall}

TrailCalls == [live : {TRUE}, names : SUBSET Names, span : Spans]
SessionCalls == [live : {TRUE}, owner : Names]
EventCalls == [live : {TRUE}, span : Spans, loot : Loots]
Notes == [live : {TRUE}, span : Spans, loot : Loots, fresh : BOOLEAN]

Pages ==
  [connected : BOOLEAN, history : {"on", "off"},
   shown : Spans, picked : Sessions \cup {NoSession},
   menuOf : Names \cup {NoOne}, choices : SUBSET {"open", "over"}, menuFresh : BOOLEAN,
   wanted : Names \cup {NoOne},
   trailCalls : [Slots -> Maybe(TrailCalls)], sessionCalls : [Slots -> Maybe(SessionCalls)],
   drawn : [Names -> Spans \cup {NoTrail}], retry : {"no", "soon", "later"},
   notes : [Names -> Maybe(Notes)], held : [Names -> Maybe(Notes)],
   eventCalls : [Names -> [Slots -> Maybe(EventCalls)]]]

(* The inductive invariant.                                                 *)

\* What is drawn, and what the answer to the newest call will draw, is switched on;
\* a page that is left draws nothing.
DrawnIsOn(p, on) ==
  /\ \A n \in Names : p.drawn[n] # NoTrail => n \in Range(on) /\ p.connected
  /\ p.connected /\ p.trailCalls["newest"].live => p.trailCalls["newest"].names \subseteq Range(on)

PickedIsOn(p, on) == p.connected /\ p.picked # NoSession => p.picked.member \in Range(on)

\* The menu of the player whose session was picked has it picked.
MenuSays(p) ==
  /\ p.picked # NoSession /\ p.menuOf = p.picked.member => p.shown = p.picked /\ p.picked.to \in p.choices
  /\ p.menuOf = NoOne => p.choices = {}

\* What is noted of a trail's events is what was asked for last ...
NotesAreAsked(p) ==
  \A n \in Names : p.notes[n].live /\ p.eventCalls[n]["newest"].live =>
    p.eventCalls[n]["newest"].loot = p.notes[n].loot

\* ... and of a trail that is drawn, no less than the filters let through.
NotesLetThrough(p, loot) ==
  \A n \in Names : p.notes[n].live /\ p.drawn[n] # NoTrail => p.notes[n].loot <= loot

RestTypes ==
  /\ trails \in Seq(Names) /\ IsInjective(trails) /\ Len(trails) <= MaxTrails
  /\ selected \in Names \cup {NoOne} /\ stored \in Days /\ minLoot \in Loots
  /\ session \in [Names -> {"open", "over", "gone"}] /\ shares \subseteq Names
  /\ moves \in 0..MaxMoves /\ fails \in 0..MaxFails

PageInv(p, on, loot) ==
  /\ p \in Pages
  /\ DrawnIsOn(p, on) /\ PickedIsOn(p, on) /\ MenuSays(p)
  /\ NotesAreAsked(p) /\ NotesLetThrough(p, loot)

IInv == RestTypes /\ PageInv(page, trails, minLoot)

-----------------------------------------------------------------------------
(* Spans and calls.                                                         *)

LEMMA SpanFacts ==
  /\ Sessions \subseteq Spans /\ NoTrail = NoSession
  /\ \A d \in Days : DaySpan(d) \in Spans /\ DaySpan(d) # NoTrail
  /\ \A s \in Sessions : s.member \in Names /\ s.member # NoOne /\ s.days = 0 /\ s # NoTrail
                         /\ s.to \in {"open", "over"} /\ s = SessionSpan(s.member, s.to)
  /\ \A n \in Names, to \in {"open", "over"} : SessionSpan(n, to) \in Sessions
  /\ \A n, to : SessionSpan(n, to).member = n /\ SessionSpan(n, to).to = to
  /\ NoTrail \notin Spans
<1>1. /\ Sessions \subseteq Spans /\ NoTrail = NoSession
      /\ \A n \in Names, to \in {"open", "over"} : SessionSpan(n, to) \in Sessions
      /\ \A n, to : SessionSpan(n, to).member = n /\ SessionSpan(n, to).to = to
  <2>1. Sessions \subseteq Spans
    BY DEF Sessions, Spans
  <2>2. \A n \in Names, to \in {"open", "over"} : SessionSpan(n, to) \in Sessions
    BY DEF Sessions
  <2>3. \A n, to : SessionSpan(n, to).member = n /\ SessionSpan(n, to).to = to
    BY DEF SessionSpan
  <2> QED BY <2>1, <2>2, <2>3 DEF NoSession
<1>2. \A d \in Days : DaySpan(d) \in Spans /\ DaySpan(d) # NoTrail
  <2>1. \A d \in Days : DaySpan(d).days # 0
    BY MenuHasLengths DEF DaySpan
  <2>2. NoTrail.days = 0
    BY DEF NoTrail, SessionSpan
  <2> QED BY <2>1, <2>2 DEF Spans
<1>3. \A s \in Sessions : s.member \in Names /\ s.member # NoOne /\ s.days = 0
                          /\ s.to \in {"open", "over"} /\ s = SessionSpan(s.member, s.to)
  BY MenuHasLengths DEF Sessions, SessionSpan
<1>4. NoTrail.member = NoOne
  BY DEF NoTrail, SessionSpan
<1>5. \A s \in Sessions : s # NoTrail
  BY <1>3, <1>4
<1>6. NoTrail \notin Spans
  <2>1. \A s \in Spans : s \in Sessions \/ \E d \in Days : s = DaySpan(d)
    BY DEF Spans, Sessions
  <2> QED BY <1>2, <1>5, <2>1
<1> QED BY <1>1, <1>2, <1>3, <1>5, <1>6

\* Calls of a kind: a new one takes the place of the newest.
LEMMA CallFacts ==
  ASSUME NEW C, NEW calls \in [Slots -> Maybe(C)]
  PROVE  /\ Overtaken(calls) \in [Slots -> Maybe(C)] /\ Overtaken(calls)["newest"] = NoCall
         /\ \A c \in C : /\ Asks(calls, c) \in [Slots -> Maybe(C)]
                         /\ Asks(calls, c)["newest"] = c
         /\ \A s \in Slots : /\ DropCall(calls, s) \in [Slots -> Maybe(C)]
                            /\ DropCall(calls, s)[s] = NoCall
                            /\ \A r \in Slots \ {s} : DropCall(calls, s)[r] = calls[r]
<1>1. Overtaken(calls) = [s \in Slots |-> IF s = "newest" THEN NoCall
                                          ELSE IF calls["newest"].live THEN calls["newest"]
                                          ELSE calls["overtaken"]]
  BY DEF Overtaken, Slots
<1>2. Overtaken(calls) \in [Slots -> Maybe(C)] /\ Overtaken(calls)["newest"] = NoCall
  BY <1>1 DEF Maybe, Slots
<1>3. \A c \in C : /\ Asks(calls, c) \in [Slots -> Maybe(C)]
                   /\ Asks(calls, c)["newest"] = c
  BY <1>2 DEF Asks, Maybe, Slots
<1>4. \A s \in Slots : /\ DropCall(calls, s) \in [Slots -> Maybe(C)]
                      /\ DropCall(calls, s)[s] = NoCall
                      /\ \A r \in Slots \ {s} : DropCall(calls, s)[r] = calls[r]
  BY DEF DropCall, Maybe
<1> QED BY <1>2, <1>3, <1>4

LEMMA AskedTrails ==
  ASSUME NEW calls \in [Slots -> Maybe(TrailCalls)], NEW c \in TrailCalls
  PROVE  Asks(calls, c) \in [Slots -> Maybe(TrailCalls)] /\ Asks(calls, c)["newest"] = c
BY CallFacts

LEMMA AskedEvents ==
  ASSUME NEW calls \in [Slots -> Maybe(EventCalls)], NEW c \in EventCalls
  PROVE  Asks(calls, c) \in [Slots -> Maybe(EventCalls)] /\ Asks(calls, c)["newest"] = c
BY CallFacts

\* A call that is under way is one.
LEMMA LiveCalls ==
  /\ ~NoCall.live
  /\ \A c \in Maybe(TrailCalls) : c.live => c \in TrailCalls
  /\ \A c \in Maybe(SessionCalls) : c.live => c \in SessionCalls
  /\ \A c \in Maybe(EventCalls) : c.live => c \in EventCalls
  /\ \A c \in Maybe(Notes) : c.live => c \in Notes
BY DEF Maybe, NoCall

-----------------------------------------------------------------------------
(* The page's methods.                                                      *)

LEMMA OwnerIsAPlayer ==
  ASSUME NEW p \in Pages, NEW on \in Seq(Names), NEW sel
  PROVE  SessionOwner(p, on, sel) \in Names \cup {NoOne}
<1> DEFINE drawn(i) == p.drawn[on[i]] # NoTrail
           none == ~\E i \in DOMAIN on : drawn(i)
           first == CHOOSE i \in DOMAIN on : drawn(i) /\ \A j \in 1..(i - 1) : ~drawn(j)
<1>1. DOMAIN on = 1..Len(on) /\ Len(on) \in Nat /\ \A i \in DOMAIN on : on[i] \in Names
  OBVIOUS
<1>2. p.picked.member \in Range(on) => p.picked.member \in Names
  BY <1>1 DEF Range
<1>3. (\E i \in DOMAIN on : on[i] = sel) => sel \in Names
  BY <1>1
<1>4. on # <<>> => on[1] \in Names
  BY <1>1
<1>5. ~none => on[first] \in Names
  <2> SUFFICES ASSUME ~none PROVE first \in DOMAIN on
    BY <1>1
  <2> DEFINE D == {i \in DOMAIN on : drawn(i)}
  <2>1. D \in SUBSET Nat /\ D # {}
    BY <1>1
  <2> HIDE DEF D
  <2>2. PICK m \in D : \A i \in D : ~ (i < m)
    <3>1. \E m \in D : \A i \in D : ~ (<<i, m>> \in OpToRel(<, Nat))
      BY <2>1, NatLessThanWellFounded, WFMin
    <3> QED BY <2>1, <3>1 DEF OpToRel
  <2> USE DEF D
  <2>3. m \in DOMAIN on /\ drawn(m)
    OBVIOUS
  <2>4. \A j \in 1..(m - 1) : ~drawn(j)
    <3> SUFFICES ASSUME NEW j \in 1..(m - 1), drawn(j) PROVE FALSE
      OBVIOUS
    <3>1. j \in DOMAIN on /\ j < m
      BY <1>1, <2>3
    <3> QED BY <2>2, <3>1
  <2> HIDE DEF drawn
  <2> QED BY <2>3, <2>4
<1>6. SessionOwner(p, on, sel) =
        IF p.picked # NoSession /\ p.picked.member \in Range(on) THEN p.picked.member
        ELSE IF \E i \in DOMAIN on : on[i] = sel /\ (none \/ drawn(i)) THEN sel
        ELSE IF on = <<>> THEN NoOne ELSE on[IF none THEN 1 ELSE first]
  BY DEF SessionOwner
<1> HIDE DEF none, first, drawn
<1> QED BY <1>2, <1>3, <1>4, <1>5, <1>6

LEMMA DroppedSession ==
  ASSUME stored \in Days, NEW p \in Pages
  PROVE  /\ DropSession(p) \in Pages /\ DropSession(p).picked = NoSession
         /\ DropSession(p) = [p EXCEPT !.picked = NoSession, !.shown = DaySpan(stored)]
<1>1. DaySpan(stored) \in Spans
  BY SpanFacts
<1>2. DropSession(p) = [p EXCEPT !.picked = NoSession, !.shown = DaySpan(stored)]
  BY DEF DropSession
<1>3. [p EXCEPT !.picked = NoSession, !.shown = DaySpan(stored)] \in Pages
  BY <1>1 DEF Pages
<1>4. [p EXCEPT !.picked = NoSession, !.shown = DaySpan(stored)].picked = NoSession
  BY DEF Pages
<1> QED BY <1>2, <1>3, <1>4

\* What of the page concerns the trails: the menu's methods leave it alone.
SameTrails(p, q) ==
  /\ q.connected = p.connected /\ q.history = p.history /\ q.picked = p.picked
  /\ q.trailCalls = p.trailCalls /\ q.drawn = p.drawn
  /\ q.notes = p.notes /\ q.held = p.held /\ q.eventCalls = p.eventCalls

LEMMA ShownSessions ==
  ASSUME stored \in Days, NEW p \in Pages, NEW owner \in Names \cup {NoOne},
         NEW choices \in SUBSET {"open", "over"}, owner = NoOne => choices = {}
  PROVE  LET q == ShowSessions(p, owner, choices)
         IN  /\ q \in Pages /\ SameTrails(p, q) /\ q.menuOf = owner /\ q.choices = choices
             /\ (p.picked # NoSession /\ owner = p.picked.member => p.picked.to \in choices)
                  => MenuSays(q)
<1> DEFINE shown == IF p.picked # NoSession /\ owner = p.picked.member /\ choices # {} THEN p.picked
                    ELSE IF p.picked = NoSession THEN p.shown ELSE DaySpan(stored)
           q == [p EXCEPT !.menuOf = owner, !.choices = choices, !.shown = shown]
<1>1. p.picked \in Sessions \cup {NoSession} /\ p.shown \in Spans
  BY DEF Pages
<1>2. shown \in Spans
  BY <1>1, SpanFacts
<1>3. ShowSessions(p, owner, choices) = q
  BY DEF ShowSessions
<1>4. p.picked # NoSession /\ owner = p.picked.member /\ p.picked.to \in choices => shown = p.picked
  OBVIOUS
<1> HIDE DEF shown
<1>5. q \in Pages
  BY <1>2 DEF Pages
<1>6. /\ q.menuOf = owner /\ q.choices = choices /\ q.shown = shown /\ q.picked = p.picked
      /\ SameTrails(p, q)
  BY DEF Pages, SameTrails
<1> HIDE DEF q
<1>7. (p.picked # NoSession /\ owner = p.picked.member => p.picked.to \in choices) => MenuSays(q)
  BY <1>4, <1>6 DEF MenuSays
<1> QED BY <1>3, <1>5, <1>6, <1>7

LEMMA LoadedSessions ==
  ASSUME stored \in Days, NEW p \in Pages, MenuSays(p), NEW on \in Seq(Names), NEW sel
  PROVE  LET q == LoadSessions(p, on, sel)
         IN  q \in Pages /\ SameTrails(p, q) /\ MenuSays(q)
<1> DEFINE owner == IF p.history = "off" THEN NoOne ELSE SessionOwner(p, on, sel)
           asked == [p EXCEPT !.wanted = owner, !.sessionCalls = Overtaken(p.sessionCalls)]
           sent == [asked EXCEPT !.sessionCalls =
                      Asks(p.sessionCalls, [live |-> TRUE, owner |-> owner])]
<1>1. owner \in Names \cup {NoOne}
  BY OwnerIsAPlayer
<1>2. p.sessionCalls \in [Slots -> Maybe(SessionCalls)]
  BY DEF Pages
<1>3. LoadSessions(p, on, sel) = IF owner = NoOne THEN ShowSessions(asked, NoOne, {})
                                 ELSE IF owner = p.menuOf /\ p.menuFresh THEN asked ELSE sent
  BY DEF LoadSessions
<1> HIDE DEF owner
<1>4. Overtaken(p.sessionCalls) \in [Slots -> Maybe(SessionCalls)]
  BY <1>2, CallFacts
<1>5. /\ asked \in Pages /\ SameTrails(p, asked) /\ asked.menuOf = p.menuOf
      /\ asked.choices = p.choices /\ asked.shown = p.shown
  BY <1>1, <1>4 DEF Pages, SameTrails
<1>6. MenuSays(asked)
  BY <1>5 DEF MenuSays, SameTrails
<1> HIDE DEF asked
<1>7. CASE owner = NoOne
  <2>1. asked.picked # NoSession => asked.picked.member # NoOne
    BY <1>5, SpanFacts DEF Pages
  <2>2. LET q == ShowSessions(asked, NoOne, {})
        IN  q \in Pages /\ SameTrails(asked, q) /\ MenuSays(q)
    BY <1>5, <2>1, ShownSessions
  <2> QED BY <1>3, <1>5, <1>7, <2>2 DEF SameTrails
<1>8. CASE owner # NoOne /\ owner = p.menuOf /\ p.menuFresh
  BY <1>3, <1>5, <1>6, <1>8
<1>9. CASE owner # NoOne /\ ~(owner = p.menuOf /\ p.menuFresh)
  <2> DEFINE calls == Asks(p.sessionCalls, [live |-> TRUE, owner |-> owner])
  <2>1. [live |-> TRUE, owner |-> owner] \in SessionCalls
    BY <1>1, <1>9 DEF SessionCalls
  <2>2. calls \in [Slots -> Maybe(SessionCalls)]
    BY <1>2, <2>1, CallFacts
  <2>3. sent = [asked EXCEPT !.sessionCalls = calls]
    OBVIOUS
  <2> HIDE DEF sent, calls
  <2>4. /\ sent \in Pages /\ SameTrails(asked, sent) /\ sent.menuOf = asked.menuOf
        /\ sent.choices = asked.choices /\ sent.shown = asked.shown
    BY <1>5, <2>2, <2>3 DEF Pages, SameTrails
  <2>5. MenuSays(sent) /\ SameTrails(p, sent)
    BY <1>5, <1>6, <2>4 DEF MenuSays, SameTrails
  <2> QED BY <1>3, <1>9, <2>4, <2>5
<1> QED BY <1>7, <1>8, <1>9

LEMMA SpanOfTrails == \A p \in Pages : TrailSpan(p) \in Spans
BY SpanFacts DEF TrailSpan, Pages

LEMMA NamesOn == \A on \in Seq(Names) : Range(on) \subseteq Names
BY DEF Range

\* The marks that are there stay, as far as their trails do.
KeepsHeld(p, q) == \A n \in Names : q.drawn[n] # NoTrail => q.held[n] = p.held[n]

DrawsNoMore(p, q) == \A n \in Names : p.drawn[n] = NoTrail => q.drawn[n] = NoTrail

\* A page the trails may be asked for on, which leaves the invariant as it should be.
Loadable(p, loot) ==
  /\ p \in Pages /\ MenuSays(p) /\ NotesAreAsked(p) /\ NotesLetThrough(p, loot)
  /\ \A n \in Names : p.drawn[n] # NoTrail => p.connected

\* The trails are asked for: nothing is drawn but what is on, the session that was picked
\* is of one that is on, and what is drawn keeps its events.
LEMMA LoadedTrails ==
  ASSUME stored \in Days, NEW p, NEW loot, Loadable(p, loot), NEW on \in Seq(Names), NEW sel
  PROVE  /\ PageInv(LoadTrails(p, on, sel), on, loot)
         /\ LoadTrails(p, on, sel).connected = p.connected
         /\ KeepsHeld(p, LoadTrails(p, on, sel)) /\ DrawsNoMore(p, LoadTrails(p, on, sel))
<1>0. /\ p \in Pages /\ MenuSays(p) /\ NotesAreAsked(p) /\ NotesLetThrough(p, loot)
      /\ \A n \in Names : p.drawn[n] # NoTrail => p.connected
  BY DEF Loadable
<1> USE <1>0
<1> DEFINE mine == IF p.picked # NoSession /\ p.picked.member \notin Range(on) THEN DropSession(p) ELSE p
           calm == [mine EXCEPT !.retry = "no"]
           sent == LoadSessions(calm, on, sel)
           drawn == [n \in Names |-> IF n \in Range(on) THEN sent.drawn[n] ELSE NoTrail]
           notes == [n \in Names |-> IF n \in Range(on) THEN sent.notes[n] ELSE Unasked]
           held == [n \in Names |-> IF n \in Range(on) THEN sent.held[n] ELSE Unasked]
           over == Overtaken(sent.trailCalls)
           kept == [sent EXCEPT !.drawn = drawn, !.notes = notes, !.held = held, !.trailCalls = over]
           call == [live |-> TRUE, names |-> Range(on), span |-> TrailSpan(kept)]
           calls == Asks(p.trailCalls, call)
           asked == [kept EXCEPT !.trailCalls = calls]
<1>1. LoadTrails(p, on, sel) = IF on = <<>> \/ p.history = "off" THEN kept ELSE asked
  BY DEF LoadTrails
<1>2. /\ mine \in Pages /\ MenuSays(mine)
      /\ mine.picked # NoSession => mine.picked.member \in Range(on)
      /\ mine.connected = p.connected /\ mine.drawn = p.drawn /\ mine.notes = p.notes
      /\ mine.held = p.held /\ mine.eventCalls = p.eventCalls /\ mine.trailCalls = p.trailCalls
  <2>1. CASE mine = p /\ (p.picked # NoSession => p.picked.member \in Range(on))
    BY <2>1
  <2>2. CASE mine = DropSession(p)
    <3>1. DropSession(p) \in Pages
          /\ DropSession(p) = [p EXCEPT !.picked = NoSession, !.shown = DaySpan(stored)]
      BY DroppedSession
    <3>2. LET q == [p EXCEPT !.picked = NoSession, !.shown = DaySpan(stored)]
          IN  /\ q.picked = NoSession /\ q.menuOf = p.menuOf /\ q.choices = p.choices
              /\ q.connected = p.connected /\ q.drawn = p.drawn /\ q.notes = p.notes
              /\ q.held = p.held /\ q.eventCalls = p.eventCalls /\ q.trailCalls = p.trailCalls
      BY DEF Pages
    <3> HIDE DEF mine
    <3> QED BY <2>2, <3>1, <3>2 DEF MenuSays
  <2> QED BY <2>1, <2>2
<1> HIDE DEF mine
<1>3. calm \in Pages /\ SameTrails(mine, calm) /\ MenuSays(calm)
  <2>1. calm \in Pages /\ SameTrails(mine, calm)
    BY <1>2 DEF Pages, SameTrails
  <2>2. calm.menuOf = mine.menuOf /\ calm.choices = mine.choices /\ calm.shown = mine.shown
        /\ calm.picked = mine.picked
    BY <1>2 DEF Pages
  <2> QED BY <1>2, <2>1, <2>2 DEF MenuSays
<1> HIDE DEF calm
<1>4. sent \in Pages /\ SameTrails(calm, sent) /\ MenuSays(sent)
  BY <1>3, LoadedSessions
<1> HIDE DEF sent
<1>5. /\ sent.connected = p.connected /\ sent.drawn = p.drawn /\ sent.notes = p.notes
      /\ sent.held = p.held /\ sent.eventCalls = p.eventCalls /\ sent.trailCalls = p.trailCalls
      /\ sent.picked # NoSession => sent.picked.member \in Range(on)
  BY <1>2, <1>3, <1>4 DEF SameTrails
<1>6. /\ drawn \in [Names -> Spans \cup {NoTrail}]
      /\ notes \in [Names -> Maybe(Notes)] /\ held \in [Names -> Maybe(Notes)]
  BY <1>4 DEF Pages, Maybe, Unasked, NoCall
<1>7. over \in [Slots -> Maybe(TrailCalls)] /\ over["newest"] = NoCall
  <2>1. sent.trailCalls \in [Slots -> Maybe(TrailCalls)]
    BY <1>4 DEF Pages
  <2> QED BY <2>1, CallFacts
<1>8. /\ \A n \in Names : drawn[n] # NoTrail => n \in Range(on) /\ drawn[n] = p.drawn[n] /\ held[n] = p.held[n]
      /\ \A n \in Names : notes[n].live => notes[n] = p.notes[n]
  BY <1>5, LiveCalls DEF Unasked, NoCall
<1> HIDE DEF drawn, notes, held, over
<1>9. /\ kept \in Pages /\ kept.drawn = drawn /\ kept.notes = notes /\ kept.held = held
      /\ kept.trailCalls = over /\ kept.connected = p.connected /\ kept.eventCalls = p.eventCalls
      /\ kept.picked = sent.picked /\ kept.menuOf = sent.menuOf /\ kept.choices = sent.choices
      /\ kept.shown = sent.shown
  BY <1>4, <1>5, <1>6, <1>7 DEF Pages
<1> HIDE DEF kept
<1>10. calls \in [Slots -> Maybe(TrailCalls)] /\ calls["newest"] = call
  <2>1. call \in TrailCalls
    BY <1>9, SpanOfTrails, NamesOn DEF TrailCalls
  <2>2. p.trailCalls \in [Slots -> Maybe(TrailCalls)]
    BY DEF Pages
  <2> HIDE DEF call
  <2> HIDE DEF calls, asked
  <2>3. /\ Asks(p.trailCalls, call) \in [Slots -> Maybe(TrailCalls)]
        /\ Asks(p.trailCalls, call)["newest"] = call
    BY <2>1, <2>2, AskedTrails
  <2> QED BY <2>3 DEF calls
<1>11. call.names = Range(on)
  OBVIOUS
<1> HIDE DEF call, calls
<1>12. /\ asked \in Pages /\ asked.drawn = drawn /\ asked.notes = notes /\ asked.held = held
       /\ asked.trailCalls = calls /\ asked.connected = p.connected /\ asked.eventCalls = p.eventCalls
       /\ asked.picked = sent.picked /\ asked.menuOf = sent.menuOf /\ asked.choices = sent.choices
       /\ asked.shown = sent.shown
  BY <1>9, <1>10 DEF Pages
<1> HIDE DEF asked
<1>13. ASSUME NEW q, q = kept \/ q = asked
       PROVE  PageInv(q, on, loot) /\ q.connected = p.connected /\ KeepsHeld(p, q) /\ DrawsNoMore(p, q)
  <2>1. /\ q \in Pages /\ q.drawn = drawn /\ q.notes = notes /\ q.held = held
        /\ q.connected = p.connected /\ q.eventCalls = p.eventCalls
        /\ q.picked = sent.picked /\ q.menuOf = sent.menuOf /\ q.choices = sent.choices
        /\ q.shown = sent.shown
    BY <1>9, <1>12, <1>13
  <2>2. q.trailCalls["newest"].live => q.trailCalls["newest"].names = Range(on)
    BY <1>7, <1>9, <1>10, <1>11, <1>12, <1>13, LiveCalls
  <2>3. DrawnIsOn(q, on)
    BY <1>8, <2>1, <2>2 DEF DrawnIsOn
  <2>4. PickedIsOn(q, on) /\ MenuSays(q)
    BY <1>4, <1>5, <2>1 DEF PickedIsOn, MenuSays
  <2>5. NotesAreAsked(q) /\ NotesLetThrough(q, loot)
    BY <1>8, <2>1 DEF NotesAreAsked, NotesLetThrough
  <2>6. KeepsHeld(p, q) /\ DrawsNoMore(p, q)
    BY <1>8, <2>1 DEF KeepsHeld, DrawsNoMore
  <2> QED BY <2>1, <2>3, <2>4, <2>5, <2>6 DEF PageInv
<1>14. LoadTrails(p, on, sel) = kept \/ LoadTrails(p, on, sel) = asked
  BY <1>1
<1> QED BY <1>13, <1>14

\* The events along the trails are asked for: whatever is drawn is noted with no more
\* than the filters let through.
LEMMA LoadedTrailEvents ==
  ASSUME NEW p \in Pages, NEW loot \in Loots, NotesAreAsked(p)
  PROVE  LET q == LoadTrailEvents(p, loot)
         IN  /\ q \in Pages /\ NotesAreAsked(q) /\ NotesLetThrough(q, loot)
             /\ q.connected = p.connected /\ q.drawn = p.drawn /\ q.held = p.held
             /\ q.trailCalls = p.trailCalls /\ q.picked = p.picked /\ q.menuOf = p.menuOf
             /\ q.choices = p.choices /\ q.shown = p.shown
<1> DEFINE due == {n \in Names : p.drawn[n] # NoTrail /\ Due(p, n, loot)}
           note == NotesOf(TrailSpan(p), loot)
           call == [live |-> TRUE, span |-> note.span, loot |-> loot]
           notes == [n \in Names |-> IF n \in due THEN note ELSE p.notes[n]]
           calls == [n \in Names |-> IF n \in due THEN Asks(p.eventCalls[n], call) ELSE p.eventCalls[n]]
           q == [p EXCEPT !.notes = notes, !.eventCalls = calls]
<1>1. LoadTrailEvents(p, loot) = q
  BY DEF LoadTrailEvents
<1>2. note \in Notes /\ note.loot = loot /\ note.span \in Spans
  BY SpanOfTrails DEF NotesOf, Notes
<1>3. call \in EventCalls /\ call.loot = loot
  BY <1>2 DEF EventCalls
<1>4. p.notes \in [Names -> Maybe(Notes)] /\ p.eventCalls \in [Names -> [Slots -> Maybe(EventCalls)]]
  BY DEF Pages
<1> HIDE DEF note, call
<1>5. notes \in [Names -> Maybe(Notes)]
  BY <1>2, <1>4 DEF Maybe
<1>6. \A n \in Names : /\ Asks(p.eventCalls[n], call) \in [Slots -> Maybe(EventCalls)]
                      /\ Asks(p.eventCalls[n], call)["newest"] = call
  <2> SUFFICES ASSUME NEW n \in Names
               PROVE  /\ Asks(p.eventCalls[n], call) \in [Slots -> Maybe(EventCalls)]
                      /\ Asks(p.eventCalls[n], call)["newest"] = call
    OBVIOUS
  <2>1. p.eventCalls[n] \in [Slots -> Maybe(EventCalls)]
    BY <1>4
  <2> QED BY <1>3, <2>1, AskedEvents
<1>7. calls \in [Names -> [Slots -> Maybe(EventCalls)]]
  BY <1>4, <1>6
<1>8. /\ \A n \in due : notes[n] = note /\ calls[n]["newest"] = call
      /\ \A n \in Names \ due : notes[n] = p.notes[n] /\ calls[n] = p.eventCalls[n]
  BY <1>6
<1>9. \A n \in Names \ due : p.drawn[n] # NoTrail /\ p.notes[n].live => ~(p.notes[n].loot > loot)
  BY DEF Due
<1>10. \A n \in Names : p.notes[n].live => p.notes[n].loot \in Nat
  <2>1. \A x \in Notes : x.loot \in Nat
    BY MenuHasLengths DEF Notes
  <2>2. \A n \in Names : p.notes[n] \in Maybe(Notes)
    BY <1>4
  <2> QED BY <2>1, <2>2, LiveCalls
<1> HIDE DEF due, notes, calls
<1>11. /\ q \in Pages /\ q.notes = notes /\ q.eventCalls = calls
       /\ q.connected = p.connected /\ q.drawn = p.drawn /\ q.held = p.held
       /\ q.trailCalls = p.trailCalls /\ q.picked = p.picked /\ q.menuOf = p.menuOf
       /\ q.choices = p.choices /\ q.shown = p.shown
  BY <1>5, <1>7 DEF Pages
<1> HIDE DEF q
<1>12. NotesAreAsked(q) /\ NotesLetThrough(q, loot)
  <2> SUFFICES ASSUME NEW n \in Names, notes[n].live
               PROVE  /\ calls[n]["newest"].live => calls[n]["newest"].loot = notes[n].loot
                      /\ p.drawn[n] # NoTrail => notes[n].loot <= loot
    BY <1>11 DEF NotesAreAsked, NotesLetThrough
  <2>1. loot \in Nat
    BY MenuHasLengths
  <2>2. CASE n \in due
    BY <1>2, <1>3, <1>8, <2>1, <2>2
  <2>3. CASE n \notin due
    <3>1. notes[n] = p.notes[n] /\ calls[n] = p.eventCalls[n] /\ p.notes[n].loot \in Nat
      BY <1>8, <1>10, <2>3
    <3>2. p.drawn[n] # NoTrail => p.notes[n].loot <= loot
      BY <1>9, <2>1, <2>3, <3>1
    <3> QED BY <3>1, <3>2 DEF NotesAreAsked
  <2> QED BY <2>2, <2>3
<1> QED BY <1>1, <1>11, <1>12

\* What the menu's methods do keeps the rest of the invariant.
LEMMA MenuOnly ==
  ASSUME NEW p, NEW on, NEW loot, PageInv(p, on, loot),
         NEW q \in Pages, SameTrails(p, q), MenuSays(q)
  PROVE  PageInv(q, on, loot)
BY DEF PageInv, SameTrails, DrawnIsOn, PickedIsOn, NotesAreAsked, NotesLetThrough

\* The hub's list of a player's sessions, or none.
LEMMA TakenSessions ==
  ASSUME RestTypes, NEW p \in Pages, p.connected, PageInv(p, trails, minLoot),
         NEW owner \in Names, NEW choices \in SUBSET {"open", "over"}
  PROVE  /\ PageInv(TakeSessions(p, owner, choices), trails, minLoot)
         /\ KeepsHeld(p, TakeSessions(p, owner, choices))
<1> DEFINE fresh == [p EXCEPT !.menuFresh = TRUE]
           mine == p.picked # NoSession /\ p.picked.member = owner
           to0 == CHOOSE to \in choices : TRUE
           span == SessionSpan(owner, to0)
           ended == [fresh EXCEPT !.picked = span]
           none == ShowSessions(fresh, owner, choices)
           over == ShowSessions(ended, owner, choices)
<1>1. TakeSessions(p, owner, choices) =
        IF mine /\ choices = {} THEN LoadTrails(DropSession(none), trails, selected)
        ELSE IF Ended(p, owner, choices) THEN LoadTrails(over, trails, selected)
        ELSE none
  BY DEF TakeSessions
<1>2. stored \in Days /\ trails \in Seq(Names) /\ owner # NoOne /\ p \in Pages /\ MenuSays(p)
  BY MenuHasLengths DEF RestTypes, PageInv
<1>3. fresh \in Pages /\ SameTrails(p, fresh)
  BY <1>2 DEF Pages, SameTrails
<1>4. fresh.picked = p.picked /\ fresh.connected /\ NotesAreAsked(fresh) /\ NotesLetThrough(fresh, minLoot)
      /\ fresh.held = p.held
  BY <1>3 DEF SameTrails, PageInv, NotesAreAsked, NotesLetThrough
<1> HIDE DEF fresh
<1>5. /\ none \in Pages /\ SameTrails(fresh, none) /\ none.menuOf = owner
      /\ (fresh.picked # NoSession /\ owner = fresh.picked.member => fresh.picked.to \in choices)
            => MenuSays(none)
  BY <1>2, <1>3, ShownSessions
<1> HIDE DEF none
<1>6. CASE mine /\ choices = {}
  <2> DEFINE q == DropSession(none)
  <2>1. q \in Pages /\ q = [none EXCEPT !.picked = NoSession, !.shown = DaySpan(stored)]
    BY <1>2, <1>5, DroppedSession
  <2>2. /\ q.picked = NoSession /\ q.menuOf = owner /\ q.connected = none.connected
        /\ q.notes = none.notes /\ q.eventCalls = none.eventCalls /\ q.drawn = none.drawn
        /\ q.held = none.held
    BY <1>5, <2>1 DEF Pages
  <2> HIDE DEF q
  <2>3. MenuSays(q) /\ q.connected /\ NotesAreAsked(q) /\ NotesLetThrough(q, minLoot) /\ q.held = p.held
    BY <1>2, <1>4, <1>5, <2>2 DEF MenuSays, SameTrails, NotesAreAsked, NotesLetThrough
  <2> Loadable(q, minLoot)
    BY <2>1, <2>3 DEF Loadable
  <2>4. PageInv(LoadTrails(q, trails, selected), trails, minLoot)
        /\ KeepsHeld(q, LoadTrails(q, trails, selected))
    BY <1>2, LoadedTrails
  <2>5. KeepsHeld(p, LoadTrails(q, trails, selected))
    BY <2>3, <2>4 DEF KeepsHeld
  <2> QED BY <1>1, <1>6, <2>4, <2>5 DEF q
<1>7. CASE ~(mine /\ choices = {}) /\ Ended(p, owner, choices)
  <2>1. choices # {} /\ to0 \in choices
    BY <1>7 DEF Ended
  <2> HIDE DEF to0
  <2>2. span \in Sessions /\ span.member = owner /\ span.to = to0 /\ span # NoSession
    BY <2>1, SpanFacts
  <2> HIDE DEF span
  <2>3. /\ ended \in Pages /\ ended.picked = span /\ ended.connected = fresh.connected
        /\ ended.notes = fresh.notes /\ ended.eventCalls = fresh.eventCalls
        /\ ended.drawn = fresh.drawn /\ ended.held = fresh.held
    BY <1>3, <2>2 DEF Pages
  <2> HIDE DEF ended
  <2>4. over \in Pages /\ SameTrails(ended, over) /\ MenuSays(over)
    BY <1>2, <2>1, <2>2, <2>3, ShownSessions
  <2> HIDE DEF over
  <2>5. over.connected /\ NotesAreAsked(over) /\ NotesLetThrough(over, minLoot) /\ over.held = p.held
    BY <1>4, <2>3, <2>4 DEF SameTrails, NotesAreAsked, NotesLetThrough
  <2> Loadable(over, minLoot)
    BY <2>4, <2>5 DEF Loadable
  <2>6. PageInv(LoadTrails(over, trails, selected), trails, minLoot)
        /\ KeepsHeld(over, LoadTrails(over, trails, selected))
    BY <1>2, LoadedTrails
  <2>7. KeepsHeld(p, LoadTrails(over, trails, selected))
    BY <2>5, <2>6 DEF KeepsHeld
  <2> QED BY <1>1, <1>7, <2>6, <2>7
<1>8. CASE ~(mine /\ choices = {}) /\ ~Ended(p, owner, choices)
  <2>1. MenuSays(none)
    BY <1>4, <1>5, <1>8 DEF Ended
  <2>2. SameTrails(p, none)
    BY <1>3, <1>5 DEF SameTrails
  <2>3. PageInv(none, trails, minLoot) /\ KeepsHeld(p, none)
    BY <1>5, <2>1, <2>2, MenuOnly DEF KeepsHeld, SameTrails
  <2> QED BY <1>1, <1>8, <2>3
<1> QED BY <1>6, <1>7, <1>8

-----------------------------------------------------------------------------
(* The selection's sequence of trails.                                      *)

\* A player's trail is switched on, behind the others ...
LEMMA TrailOn ==
  ASSUME NEW on \in Seq(Names), IsInjective(on), Len(on) < MaxTrails,
         NEW n \in Names \ Range(on)
  PROVE  /\ Append(on, n) \in Seq(Names) /\ IsInjective(Append(on, n))
         /\ Len(Append(on, n)) <= MaxTrails
<1>1. /\ Append(on, n) \in Seq(Names) /\ Len(on) \in Nat /\ Len(Append(on, n)) = Len(on) + 1
      /\ DOMAIN on = 1..Len(on) /\ DOMAIN Append(on, n) = 1..(Len(on) + 1)
      /\ \A i \in 1..Len(on) : Append(on, n)[i] = on[i]
      /\ Append(on, n)[Len(on) + 1] = n
  OBVIOUS
<1>2. \A i \in 1..Len(on) : on[i] # n
  BY <1>1 DEF Range
<1>3. \A i \in 1..(Len(on) + 1) : i \in 1..Len(on) \/ i = Len(on) + 1
  BY <1>1
<1>4. IsInjective(Append(on, n))
  BY <1>1, <1>2, <1>3 DEF IsInjective
<1> QED BY <1>1, <1>4, MenuHasLengths

\* ... and off: the others keep their order.
LEMMA TrailOff ==
  ASSUME NEW on \in Seq(Names), IsInjective(on), Len(on) <= MaxTrails, NEW i \in DOMAIN on
  PROVE  /\ RemoveAt(on, i) \in Seq(Names) /\ IsInjective(RemoveAt(on, i))
         /\ Len(RemoveAt(on, i)) <= MaxTrails
<1> DEFINE before == SubSeq(on, 1, i - 1)
           after == SubSeq(on, i + 1, Len(on))
           off == before \o after
<1>1. DOMAIN on = 1..Len(on) /\ Len(on) \in Nat /\ i \in 1..Len(on)
  OBVIOUS
<1>2. /\ before \in Seq(Names) /\ Len(before) = i - 1
      /\ \A j \in 1..(i - 1) : before[j] = on[j]
  BY <1>1
<1>3. /\ after \in Seq(Names) /\ Len(after) = Len(on) - i
      /\ \A j \in 1..(Len(on) - i) : after[j] = on[i + j]
  BY <1>1
<1> HIDE DEF before, after
<1>4. /\ off \in Seq(Names) /\ Len(off) = Len(on) - 1 /\ DOMAIN off = 1..(Len(on) - 1)
      /\ \A j \in 1..(Len(on) - 1) : off[j] = IF j < i THEN before[j] ELSE after[j - (i - 1)]
  <2>1. before \in Seq(Names) /\ after \in Seq(Names)
    BY <1>2, <1>3
  <2>2. /\ off \in Seq(Names) /\ Len(off) = Len(before) + Len(after)
        /\ \A j \in 1..(Len(before) + Len(after)) :
             off[j] = IF j <= Len(before) THEN before[j] ELSE after[j - Len(before)]
    BY <2>1, ConcatProperties
  <2>3. Len(before) + Len(after) = Len(on) - 1 /\ \A j \in 1..(Len(on) - 1) : j <= i - 1 <=> j < i
    BY <1>1, <1>2, <1>3
  <2>4. DOMAIN off = 1..Len(off)
    BY <2>2
  <2> HIDE DEF off
  <2> QED BY <1>2, <2>2, <2>3, <2>4
<1> HIDE DEF off
<1>5. \A j \in 1..(Len(on) - 1) : off[j] = on[IF j < i THEN j ELSE j + 1]
  <2> SUFFICES ASSUME NEW j \in 1..(Len(on) - 1)
               PROVE  off[j] = on[IF j < i THEN j ELSE j + 1]
    OBVIOUS
  <2>1. CASE j < i
    BY <1>1, <1>2, <1>4, <2>1
  <2>2. CASE ~(j < i)
    <3>1. j - (i - 1) \in 1..(Len(on) - i) /\ i + (j - (i - 1)) = j + 1
      BY <1>1, <2>2
    <3>2. after[j - (i - 1)] = on[j + 1]
      BY <1>3, <3>1
    <3> QED BY <1>4, <2>2, <3>2
  <2> QED BY <2>1, <2>2
<1>6. ASSUME NEW j \in 1..(Len(on) - 1), NEW k \in 1..(Len(on) - 1), off[j] = off[k]
      PROVE  j = k
  <2> DEFINE at(m) == IF m < i THEN m ELSE m + 1
  <2>1. at(j) \in DOMAIN on /\ at(k) \in DOMAIN on
    BY <1>1
  <2>2. on[at(j)] = on[at(k)]
    BY <1>5, <1>6
  <2>3. at(j) = at(k)
    BY <2>1, <2>2 DEF IsInjective
  <2> QED BY <1>1, <2>3
<1>7. IsInjective(off)
  BY <1>4, <1>6 DEF IsInjective
<1>8. RemoveAt(on, i) = off
  BY DEF RemoveAt, off, before, after
<1> QED BY <1>1, <1>4, <1>7, <1>8, MenuHasLengths

-----------------------------------------------------------------------------
(* The steps.  Each leaves the invariant, and the marks of what stays drawn *)
(* unless it is the answer that brings them.                                *)

\* What every step takes from the invariant.
LEMMA PageIs ==
  ASSUME IInv
  PROVE  /\ RestTypes /\ PageInv(page, trails, minLoot) /\ page \in Pages
         /\ Loadable(page, minLoot) /\ trails \in Seq(Names)
         /\ stored \in Days /\ minLoot \in Loots
BY DEF IInv, RestTypes, PageInv, Loadable, DrawnIsOn

\* A call is dropped: nothing else is.
LEMMA WithoutTrailCall ==
  ASSUME NEW p, NEW on, NEW loot, PageInv(p, on, loot), NEW s \in Slots
  PROVE  LET q == [p EXCEPT !.trailCalls = DropCall(@, s)]
         IN  PageInv(q, on, loot) /\ q.held = p.held /\ q.drawn = p.drawn
<1> DEFINE calls == DropCall(p.trailCalls, s)
           q == [p EXCEPT !.trailCalls = calls]
<1>1. p \in Pages /\ p.trailCalls \in [Slots -> Maybe(TrailCalls)]
  BY DEF PageInv, Pages
<1>2. /\ calls \in [Slots -> Maybe(TrailCalls)] /\ calls[s] = NoCall
      /\ \A r \in Slots \ {s} : calls[r] = p.trailCalls[r]
  BY <1>1, CallFacts
<1> HIDE DEF calls
<1>3. /\ q \in Pages /\ q.trailCalls = calls
      /\ q.connected = p.connected /\ q.picked = p.picked /\ q.drawn = p.drawn
      /\ q.menuOf = p.menuOf /\ q.choices = p.choices /\ q.shown = p.shown
      /\ q.notes = p.notes /\ q.held = p.held /\ q.eventCalls = p.eventCalls
  BY <1>1, <1>2 DEF Pages
<1> HIDE DEF q
<1>4. calls["newest"].live => calls["newest"] = p.trailCalls["newest"]
  BY <1>2, LiveCalls DEF Slots
<1>5. PageInv(q, on, loot)
  BY <1>3, <1>4 DEF PageInv, DrawnIsOn, PickedIsOn, MenuSays, NotesAreAsked, NotesLetThrough
<1> QED BY <1>3, <1>5 DEF q, calls

LEMMA WithoutSessionCall ==
  ASSUME NEW p, NEW on, NEW loot, PageInv(p, on, loot), NEW s \in Slots
  PROVE  LET q == [p EXCEPT !.sessionCalls = DropCall(@, s)]
         IN  PageInv(q, on, loot) /\ SameTrails(p, q) /\ q \in Pages
<1> DEFINE calls == DropCall(p.sessionCalls, s)
           q == [p EXCEPT !.sessionCalls = calls]
<1>1. p \in Pages /\ p.sessionCalls \in [Slots -> Maybe(SessionCalls)]
  BY DEF PageInv, Pages
<1>2. calls \in [Slots -> Maybe(SessionCalls)]
  BY <1>1, CallFacts
<1> HIDE DEF calls
<1>3. /\ q \in Pages /\ SameTrails(p, q)
      /\ q.menuOf = p.menuOf /\ q.choices = p.choices /\ q.shown = p.shown
  BY <1>1, <1>2 DEF Pages, SameTrails
<1> HIDE DEF q
<1>4. MenuSays(q)
  BY <1>3 DEF PageInv, MenuSays, SameTrails
<1>5. PageInv(q, on, loot)
  BY <1>3, <1>4, MenuOnly
<1> QED BY <1>3, <1>5 DEF q, calls

\* What MarksStay says of one step.
MarksKept ==
  \A n \in Names :
    Marked(page, n, minLoot) /\ TrailSpan(page') = TrailSpan(page) /\ minLoot' = minLoot
      /\ page'.drawn[n] # NoTrail /\ page'.connected
    => Marked(page', n, minLoot)

LEMMA HeldKeepsMarks ==
  ASSUME KeepsHeld(page, page')
  PROVE  MarksKept
BY DEF KeepsHeld, MarksKept, Marked

\* loadTrails has its answer.
LEMMA TrailsAnsweredKeeps ==
  ASSUME IInv, NEW s \in Slots, TrailsAnswered(s)
  PROVE  IInv' /\ MarksKept
<1> DEFINE call == page.trailCalls[s]
           p == [page EXCEPT !.trailCalls = DropCall(@, s)]
           drawn == [n \in Names |->
                      IF n \notin call.names THEN p.drawn[n]
                      ELSE IF n \in shares THEN call.span ELSE NoTrail]
           put == [p EXCEPT !.drawn = drawn]
           menu == IF SessionOwner(put, trails, selected) # put.wanted
                   THEN LoadSessions(put, trails, selected) ELSE put
           sent == LoadTrailEvents(menu, minLoot)
           r == [sent EXCEPT !.retry = "later"]
<1>1. PageInv(p, trails, minLoot) /\ p.held = page.held /\ p.drawn = page.drawn
  BY PageIs, WithoutTrailCall
<1>2. p.connected = page.connected
  BY PageIs DEF Pages
<1>3. CASE ~IsWanted(s)
  <2>1. page' = p /\ UNCHANGED <<choiceVars, hubVars, moves, fails>>
    BY <1>3 DEF TrailsAnswered
  <2> HIDE DEF p
  <2>2. RestTypes' /\ PageInv(page', trails', minLoot')
    BY <1>1, <2>1, PageIs DEF RestTypes, choiceVars, hubVars
  <2>3. KeepsHeld(page, page')
    BY <1>1, <2>1 DEF KeepsHeld
  <2> QED BY <2>2, <2>3, HeldKeepsMarks DEF IInv
<1>4. CASE IsWanted(s)
  <2>1. page' = r /\ UNCHANGED <<choiceVars, hubVars, moves, fails>> /\ call.live
    <3> HIDE DEF menu
    <3> QED BY <1>4 DEF TrailsAnswered, menu
  <2>2. s = "newest" /\ page.connected /\ p.connected
    BY <1>2, <1>4 DEF IsWanted
  <2>3. call \in TrailCalls
    <3>1. call \in Maybe(TrailCalls)
      BY PageIs DEF Pages
    <3> QED BY <2>1, <3>1, LiveCalls
  <2>4. call.names \subseteq Range(trails) /\ call.span \in Spans
    BY <2>1, <2>2, <2>3, PageIs DEF PageInv, DrawnIsOn, TrailCalls
  <2> HIDE DEF call, p
  <2>5. drawn \in [Names -> Spans \cup {NoTrail}]
    BY <1>1, <2>4 DEF PageInv, Pages
  <2>6. \A n \in Names : drawn[n] # NoTrail => n \in Range(trails)
    BY <1>1, <2>4 DEF PageInv, DrawnIsOn
  <2> HIDE DEF drawn
  <2>7. /\ put \in Pages /\ put.drawn = drawn
        /\ put.connected = p.connected /\ put.picked = p.picked /\ put.held = p.held
        /\ put.trailCalls = p.trailCalls /\ put.notes = p.notes /\ put.eventCalls = p.eventCalls
        /\ put.menuOf = p.menuOf /\ put.choices = p.choices /\ put.shown = p.shown
    BY <1>1, <2>5 DEF PageInv, Pages
  <2> HIDE DEF put
  <2>8. MenuSays(put)
    BY <1>1, <2>7 DEF PageInv, MenuSays
  <2>9. menu \in Pages /\ SameTrails(put, menu) /\ MenuSays(menu)
    <3>1. LoadSessions(put, trails, selected) \in Pages
          /\ SameTrails(put, LoadSessions(put, trails, selected))
          /\ MenuSays(LoadSessions(put, trails, selected))
      BY <2>7, <2>8, PageIs, LoadedSessions
    <3> QED BY <2>7, <2>8, <3>1 DEF SameTrails
  <2> HIDE DEF menu
  <2>10. NotesAreAsked(menu)
    BY <1>1, <2>7, <2>9 DEF PageInv, NotesAreAsked, SameTrails
  <2>11. /\ sent \in Pages /\ NotesAreAsked(sent) /\ NotesLetThrough(sent, minLoot)
         /\ sent.connected = menu.connected /\ sent.drawn = menu.drawn /\ sent.held = menu.held
         /\ sent.trailCalls = menu.trailCalls /\ sent.picked = menu.picked
         /\ sent.menuOf = menu.menuOf /\ sent.choices = menu.choices /\ sent.shown = menu.shown
    BY <2>9, <2>10, PageIs, LoadedTrailEvents
  <2> HIDE DEF sent
  <2>12. /\ r \in Pages /\ r.connected = p.connected /\ r.drawn = drawn /\ r.held = page.held
         /\ r.trailCalls = p.trailCalls /\ r.picked = p.picked /\ r.menuOf = menu.menuOf
         /\ r.choices = menu.choices /\ r.shown = menu.shown
         /\ r.notes = sent.notes /\ r.eventCalls = sent.eventCalls
    <3>1. /\ r \in Pages /\ r.connected = sent.connected /\ r.drawn = sent.drawn /\ r.held = sent.held
          /\ r.trailCalls = sent.trailCalls /\ r.picked = sent.picked /\ r.menuOf = sent.menuOf
          /\ r.choices = sent.choices /\ r.shown = sent.shown
          /\ r.notes = sent.notes /\ r.eventCalls = sent.eventCalls
      BY <2>11 DEF Pages
    <3> HIDE DEF r
    <3> QED BY <1>1, <2>7, <2>9, <2>11, <3>1 DEF SameTrails
  <2> HIDE DEF r
  <2>13. DrawnIsOn(r, trails) /\ PickedIsOn(r, trails)
    BY <1>1, <2>2, <2>6, <2>12 DEF PageInv, DrawnIsOn, PickedIsOn
  <2>14. MenuSays(r) /\ NotesAreAsked(r) /\ NotesLetThrough(r, minLoot)
    BY <2>7, <2>9, <2>11, <2>12 DEF MenuSays, NotesAreAsked, NotesLetThrough, SameTrails
  <2>15. RestTypes' /\ PageInv(page', trails', minLoot')
    BY <2>1, <2>12, <2>13, <2>14, PageIs DEF RestTypes, PageInv, choiceVars, hubVars
  <2>16. KeepsHeld(page, page')
    BY <2>1, <2>12 DEF KeepsHeld
  <2> QED BY <2>15, <2>16, HeldKeepsMarks DEF IInv
<1> QED BY <1>3, <1>4

LEMMA TrailsFailedKeeps ==
  ASSUME IInv, NEW s \in Slots, TrailsFailed(s)
  PROVE  IInv' /\ MarksKept
<1> DEFINE p == [page EXCEPT !.trailCalls = DropCall(@, s)]
           r == [p EXCEPT !.retry = "soon"]
<1>1. PageInv(p, trails, minLoot) /\ p.held = page.held
  BY PageIs, WithoutTrailCall
<1>2. (page' = p \/ page' = r) /\ UNCHANGED <<choiceVars, hubVars, moves>> /\ Fails
  BY DEF TrailsFailed
<1> HIDE DEF p
<1>3. PageInv(r, trails, minLoot) /\ r.held = page.held
  <2>1. /\ r \in Pages /\ SameTrails(p, r) /\ r.menuOf = p.menuOf
        /\ r.choices = p.choices /\ r.shown = p.shown
    BY <1>1 DEF PageInv, Pages, SameTrails
  <2> HIDE DEF r
  <2>2. MenuSays(r)
    BY <1>1, <2>1 DEF PageInv, MenuSays, SameTrails
  <2> QED BY <1>1, <2>1, <2>2, MenuOnly DEF SameTrails
<1> HIDE DEF r
<1>4. RestTypes'
  <2>1. fails' \in 0..MaxFails
    BY <1>2, PageIs, Bounds DEF Fails, RestTypes
  <2> QED BY <1>2, <2>1, PageIs DEF RestTypes, choiceVars, hubVars
<1>5. PageInv(page', trails', minLoot') /\ KeepsHeld(page, page')
  BY <1>1, <1>2, <1>3 DEF KeepsHeld, choiceVars
<1> QED BY <1>4, <1>5, HeldKeepsMarks DEF IInv

\* loadSessions has its answer, or none.
LEMMA SessionsTakenKeeps ==
  ASSUME IInv, NEW s \in Slots, page.sessionCalls[s].live,
         NEW choices \in SUBSET {"open", "over"}, IsWanted(s)
  PROVE  LET p == [page EXCEPT !.sessionCalls = DropCall(@, s)]
             r == TakeSessions(p, page.sessionCalls[s].owner, choices)
         IN  PageInv(r, trails, minLoot) /\ KeepsHeld(page, r)
<1> DEFINE p == [page EXCEPT !.sessionCalls = DropCall(@, s)]
           owner == page.sessionCalls[s].owner
           r == TakeSessions(p, owner, choices)
<1>1. PageInv(p, trails, minLoot) /\ SameTrails(page, p) /\ p \in Pages
  BY PageIs, WithoutSessionCall
<1>2. owner \in Names
  <2>1. page.sessionCalls[s] \in Maybe(SessionCalls)
    BY PageIs DEF Pages
  <2> QED BY <2>1, LiveCalls DEF SessionCalls
<1> HIDE DEF p, owner
<1>3. p.connected
  BY <1>1 DEF SameTrails, IsWanted
<1>4. PageInv(r, trails, minLoot) /\ KeepsHeld(p, r)
  BY <1>1, <1>2, <1>3, PageIs, TakenSessions
<1> HIDE DEF r
<1>5. KeepsHeld(page, r)
  BY <1>1, <1>4 DEF KeepsHeld, SameTrails
<1> QED BY <1>4, <1>5 DEF r, p, owner

LEMMA SessionsAnsweredKeeps ==
  ASSUME IInv, NEW s \in Slots, SessionsAnswered(s)
  PROVE  IInv' /\ MarksKept
<1> DEFINE p == [page EXCEPT !.sessionCalls = DropCall(@, s)]
           owner == page.sessionCalls[s].owner
           r == TakeSessions(p, owner, Options(owner))
<1>1. PageInv(p, trails, minLoot) /\ SameTrails(page, p)
  BY PageIs, WithoutSessionCall
<1>2. /\ page.sessionCalls[s].live /\ page' = (IF IsWanted(s) THEN r ELSE p)
      /\ UNCHANGED <<choiceVars, hubVars, moves, fails>>
  BY DEF SessionsAnswered
<1>3. Options(owner) \in SUBSET {"open", "over"}
  <2>1. page.sessionCalls[s] \in Maybe(SessionCalls)
    BY PageIs DEF Pages
  <2>2. owner \in Names
    BY <1>2, <2>1, LiveCalls DEF SessionCalls
  <2> QED BY <2>2, PageIs DEF Options, RestTypes
<1>4. IsWanted(s) => PageInv(r, trails, minLoot) /\ KeepsHeld(page, r)
  BY <1>2, <1>3, SessionsTakenKeeps
<1> HIDE DEF p, r
<1>5. PageInv(page', trails', minLoot') /\ KeepsHeld(page, page')
  BY <1>1, <1>2, <1>4 DEF SameTrails, KeepsHeld, choiceVars
<1>6. RestTypes'
  BY <1>2, PageIs DEF RestTypes, choiceVars, hubVars
<1> QED BY <1>5, <1>6, HeldKeepsMarks DEF IInv

LEMMA SessionsFailedKeeps ==
  ASSUME IInv, NEW s \in Slots, SessionsFailed(s)
  PROVE  IInv' /\ MarksKept
<1> DEFINE p == [page EXCEPT !.sessionCalls = DropCall(@, s)]
           owner == page.sessionCalls[s].owner
           r == TakeSessions(p, owner, {})
<1>1. PageInv(p, trails, minLoot) /\ SameTrails(page, p)
  BY PageIs, WithoutSessionCall
<1>2. /\ page.sessionCalls[s].live /\ (page' = p \/ (IsWanted(s) /\ page' = r))
      /\ UNCHANGED <<choiceVars, hubVars, moves>> /\ Fails
  BY DEF SessionsFailed
<1>3. IsWanted(s) => PageInv(r, trails, minLoot) /\ KeepsHeld(page, r)
  BY <1>2, SessionsTakenKeeps
<1> HIDE DEF p, r
<1>4. PageInv(page', trails', minLoot') /\ KeepsHeld(page, page')
  BY <1>1, <1>2, <1>3 DEF SameTrails, KeepsHeld, choiceVars
<1>5. RestTypes'
  <2>1. fails' \in 0..MaxFails
    BY <1>2, PageIs, Bounds DEF Fails, RestTypes
  <2> QED BY <1>2, <2>1, PageIs DEF RestTypes, choiceVars, hubVars
<1> QED BY <1>4, <1>5, HeldKeepsMarks DEF IInv

\* The events along a trail, or none.
LEMMA WithoutEventCall ==
  ASSUME IInv, NEW n \in Names, NEW s \in Slots
  PROVE  LET q == [page EXCEPT !.eventCalls[n] = DropCall(@, s)]
         IN  /\ PageInv(q, trails, minLoot) /\ q.held = page.held /\ q.notes = page.notes
             /\ q.eventCalls[n][s] = NoCall
<1> DEFINE calls == [page.eventCalls EXCEPT ![n] = DropCall(@, s)]
           q == [page EXCEPT !.eventCalls = calls]
<1>1. page \in Pages /\ page.eventCalls \in [Names -> [Slots -> Maybe(EventCalls)]]
  BY PageIs DEF Pages
<1>2. /\ DropCall(page.eventCalls[n], s) \in [Slots -> Maybe(EventCalls)]
      /\ DropCall(page.eventCalls[n], s)[s] = NoCall
      /\ \A r \in Slots \ {s} : DropCall(page.eventCalls[n], s)[r] = page.eventCalls[n][r]
  <2>1. page.eventCalls[n] \in [Slots -> Maybe(EventCalls)]
    BY <1>1
  <2> QED BY <2>1, CallFacts
<1>3. /\ calls \in [Names -> [Slots -> Maybe(EventCalls)]] /\ calls[n][s] = NoCall
      /\ \A m \in Names : calls[m]["newest"].live => calls[m]["newest"] = page.eventCalls[m]["newest"]
  <2>1. calls[n] = DropCall(page.eventCalls[n], s) /\ \A m \in Names \ {n} : calls[m] = page.eventCalls[m]
    BY <1>1
  <2>2. calls \in [Names -> [Slots -> Maybe(EventCalls)]]
    BY <1>1, <1>2
  <2>3. "newest" \in Slots
    BY DEF Slots
  <2> HIDE DEF calls
  <2> QED BY <1>2, <2>1, <2>2, <2>3, LiveCalls
<1> HIDE DEF calls
<1>4. /\ q \in Pages /\ q.eventCalls = calls
      /\ q.connected = page.connected /\ q.picked = page.picked /\ q.drawn = page.drawn
      /\ q.menuOf = page.menuOf /\ q.choices = page.choices /\ q.shown = page.shown
      /\ q.notes = page.notes /\ q.held = page.held /\ q.trailCalls = page.trailCalls
  BY <1>1, <1>3 DEF Pages
<1> HIDE DEF q
<1>5. PageInv(q, trails, minLoot)
  BY <1>3, <1>4, PageIs DEF PageInv, DrawnIsOn, PickedIsOn, MenuSays, NotesAreAsked, NotesLetThrough
<1> QED BY <1>3, <1>4, <1>5 DEF q, calls

LEMMA EventsAnsweredKeeps ==
  ASSUME IInv, NEW n \in Names, NEW s \in Slots, EventsAnswered(n, s)
  PROVE  IInv' /\ MarksKept
<1> DEFINE call == page.eventCalls[n][s]
           p == [page EXCEPT !.eventCalls[n] = DropCall(@, s)]
           note == NotesOf(call.span, call.loot)
           held == [p.held EXCEPT ![n] = note]
           notes == [p.notes EXCEPT ![n] = note]
           r == [p EXCEPT !.held = held, !.notes = notes]
<1>1. /\ PageInv(p, trails, minLoot) /\ p.held = page.held /\ p.notes = page.notes
      /\ p.eventCalls[n][s] = NoCall
  BY WithoutEventCall
<1>2. call.live /\ page' = (IF EventsWanted(n, s) THEN r ELSE p) /\ UNCHANGED <<choiceVars, hubVars, moves, fails>>
  BY DEF EventsAnswered
<1>3. p.connected = page.connected /\ p.picked = page.picked /\ p.shown = page.shown /\ p.drawn = page.drawn
  BY PageIs DEF Pages
<1> HIDE DEF p
<1>4. RestTypes'
  BY <1>2, PageIs DEF RestTypes, choiceVars, hubVars
<1>5. CASE ~EventsWanted(n, s)
  <2>1. PageInv(page', trails', minLoot') /\ KeepsHeld(page, page')
    BY <1>1, <1>2, <1>5 DEF KeepsHeld, choiceVars
  <2> QED BY <1>4, <2>1, HeldKeepsMarks DEF IInv
<1>6. CASE EventsWanted(n, s)
  <2>1. page.notes[n].live /\ s = "newest" /\ call.span = TrailSpan(page)
    BY <1>6 DEF EventsWanted
  <2>2. call \in EventCalls
    <3>1. call \in Maybe(EventCalls)
      BY PageIs DEF Pages
    <3> QED BY <1>2, <3>1, LiveCalls
  <2>3. call.loot = page.notes[n].loot
    BY <1>2, <2>1, PageIs DEF PageInv, NotesAreAsked
  <2> HIDE DEF call
  <2>4. note \in Notes /\ note.live /\ note.loot = call.loot /\ note.span = call.span
    BY <2>2 DEF NotesOf, Notes, EventCalls
  <2> HIDE DEF note
  <2>5. /\ held \in [Names -> Maybe(Notes)] /\ held[n] = note
        /\ \A m \in Names \ {n} : held[m] = page.held[m]
    BY <1>1, <2>4 DEF PageInv, Pages, Maybe
  <2>6. /\ notes \in [Names -> Maybe(Notes)] /\ notes[n] = note
        /\ \A m \in Names \ {n} : notes[m] = page.notes[m]
    BY <1>1, <2>4 DEF PageInv, Pages, Maybe
  <2> HIDE DEF held, notes
  <2>7. /\ r \in Pages /\ r.held = held /\ r.notes = notes
        /\ r.connected = p.connected /\ r.picked = p.picked /\ r.drawn = p.drawn
        /\ r.menuOf = p.menuOf /\ r.choices = p.choices /\ r.shown = p.shown
        /\ r.trailCalls = p.trailCalls /\ r.eventCalls = p.eventCalls
    BY <1>1, <2>5, <2>6 DEF PageInv, Pages
  <2> HIDE DEF r
  <2>8. DrawnIsOn(r, trails) /\ PickedIsOn(r, trails) /\ MenuSays(r)
    BY <1>1, <2>7 DEF PageInv, DrawnIsOn, PickedIsOn, MenuSays
  <2>9. NotesAreAsked(r)
    BY <1>1, <2>1, <2>6, <2>7, LiveCalls DEF PageInv, NotesAreAsked
  <2>10. NotesLetThrough(r, minLoot)
    BY <1>1, <2>1, <2>3, <2>4, <2>6, <2>7 DEF PageInv, NotesLetThrough
  <2>11. PageInv(page', trails', minLoot')
    BY <1>2, <1>6, <2>7, <2>8, <2>9, <2>10 DEF PageInv, choiceVars
  <2>12. MarksKept
    <3> SUFFICES ASSUME NEW m \in Names, Marked(page, m, minLoot), TrailSpan(page') = TrailSpan(page),
                        page'.drawn[m] # NoTrail
                 PROVE  Marked(page', m, minLoot)
      BY DEF MarksKept
    <3>1. page' = r
      BY <1>2, <1>6
    <3>2. CASE m # n
      BY <2>5, <2>7, <3>1, <3>2 DEF Marked
    <3>3. CASE m = n
      <4>1. page.notes[n].loot <= minLoot
        BY <1>3, <2>1, <2>7, <3>1, <3>3, PageIs DEF PageInv, NotesLetThrough
      <4> QED BY <2>1, <2>3, <2>4, <2>5, <2>7, <3>1, <3>3, <4>1 DEF Marked
    <3> QED BY <3>2, <3>3
  <2> QED BY <1>4, <2>11, <2>12 DEF IInv
<1> QED BY <1>5, <1>6

LEMMA EventsFailedKeeps ==
  ASSUME IInv, NEW n \in Names, NEW s \in Slots, EventsFailed(n, s)
  PROVE  IInv' /\ MarksKept
<1> DEFINE p == [page EXCEPT !.eventCalls[n] = DropCall(@, s)]
           notes == [p.notes EXCEPT ![n].fresh = FALSE]
           r == [p EXCEPT !.notes = notes]
<1>1. PageInv(p, trails, minLoot) /\ p.held = page.held /\ p.notes = page.notes
  BY WithoutEventCall
<1>2. page' = (IF EventsWanted(n, s) THEN r ELSE p) /\ UNCHANGED <<choiceVars, hubVars, moves>> /\ Fails
  BY DEF EventsFailed
<1> HIDE DEF p
<1>3. EventsWanted(n, s) => PageInv(r, trails, minLoot) /\ r.held = p.held
  <2> SUFFICES ASSUME EventsWanted(n, s)
               PROVE  PageInv(r, trails, minLoot) /\ r.held = p.held
    OBVIOUS
  <2>1. p.notes[n] \in Notes /\ p.notes \in [Names -> Maybe(Notes)]
    BY <1>1, LiveCalls DEF EventsWanted, PageInv, Pages
  <2>2. /\ [p.notes[n] EXCEPT !.fresh = FALSE] \in Notes
        /\ [p.notes[n] EXCEPT !.fresh = FALSE].loot = p.notes[n].loot
    BY <2>1 DEF Notes
  <2>3. /\ notes \in [Names -> Maybe(Notes)]
        /\ \A m \in Names : notes[m].loot = p.notes[m].loot /\ (notes[m].live => p.notes[m].live)
    <3>1. notes[n] = [p.notes[n] EXCEPT !.fresh = FALSE] /\ \A m \in Names \ {n} : notes[m] = p.notes[m]
      BY <2>1
    <3>2. notes \in [Names -> Maybe(Notes)]
      BY <2>1, <2>2 DEF Maybe
    <3>3. p.notes[n].live
      BY <1>1 DEF EventsWanted
    <3> HIDE DEF notes
    <3> QED BY <2>2, <3>1, <3>2, <3>3
  <2> HIDE DEF notes
  <2>4. /\ r \in Pages /\ r.held = p.held /\ r.notes = notes
        /\ r.connected = p.connected /\ r.picked = p.picked /\ r.drawn = p.drawn
        /\ r.menuOf = p.menuOf /\ r.choices = p.choices /\ r.shown = p.shown
        /\ r.trailCalls = p.trailCalls /\ r.eventCalls = p.eventCalls
    BY <1>1, <2>3 DEF PageInv, Pages
  <2> HIDE DEF r
  <2>5. PageInv(r, trails, minLoot)
    BY <1>1, <2>3, <2>4 DEF PageInv, DrawnIsOn, PickedIsOn, MenuSays, NotesAreAsked, NotesLetThrough
  <2> QED BY <2>4, <2>5
<1> HIDE DEF r
<1>4. PageInv(page', trails', minLoot') /\ KeepsHeld(page, page')
  BY <1>1, <1>2, <1>3 DEF KeepsHeld, choiceVars
<1>5. RestTypes'
  <2>1. fails' \in 0..MaxFails
    BY <1>2, PageIs, Bounds DEF Fails, RestTypes
  <2> QED BY <1>2, <2>1, PageIs DEF RestTypes, choiceVars, hubVars
<1> QED BY <1>4, <1>5, HeldKeepsMarks DEF IInv

\* The rest of the state, when the step counts against the bound on moves.
LEMMA Moved ==
  ASSUME IInv, Does
  PROVE  moves' \in 0..MaxMoves /\ fails' = fails
BY PageIs, Bounds DEF Does, RestTypes

LEMMA ToggleTrailKeeps ==
  ASSUME IInv, NEW n \in Names, ToggleTrail(n)
  PROVE  IInv' /\ MarksKept
<1>1. /\ trails' \in Seq(Names) /\ IsInjective(trails') /\ Len(trails') <= MaxTrails
  <2>1. CASE n \in Range(trails)
    <3> DEFINE i == CHOOSE i \in DOMAIN trails : trails[i] = n
    <3>1. i \in DOMAIN trails
      BY <2>1 DEF Range
    <3>2. trails' = RemoveAt(trails, i)
      BY <2>1 DEF ToggleTrail
    <3> HIDE DEF i
    <3> QED BY <3>1, <3>2, PageIs, TrailOff DEF RestTypes
  <2>2. CASE n \notin Range(trails)
    <3>1. trails' = Append(trails, n) /\ Len(trails) < MaxTrails
      BY <2>2 DEF ToggleTrail
    <3> QED BY <2>2, <3>1, PageIs, TrailOn DEF RestTypes
  <2> QED BY <2>1, <2>2
<1>2. RestTypes'
  <2>1. UNCHANGED <<selected, stored, minLoot, session, shares>> /\ Does
    BY DEF ToggleTrail, hubVars
  <2> QED BY <1>1, <2>1, Moved, PageIs DEF RestTypes
<1>3. minLoot' = minLoot
  BY DEF ToggleTrail
<1>4. CASE page.connected
  <2>1. page' = LoadTrails(page, trails', selected)
    BY <1>4 DEF ToggleTrail
  <2>2. PageInv(page', trails', minLoot') /\ KeepsHeld(page, page')
    BY <1>1, <1>3, <2>1, PageIs, LoadedTrails
  <2> QED BY <1>2, <2>2, HeldKeepsMarks DEF IInv
<1>5. CASE ~page.connected
  <2>1. page' = page
    BY <1>5 DEF ToggleTrail
  <2>2. PageInv(page', trails', minLoot') /\ KeepsHeld(page, page')
    BY <1>3, <1>5, <2>1, PageIs DEF PageInv, DrawnIsOn, PickedIsOn, KeepsHeld
  <2> QED BY <1>2, <2>2, HeldKeepsMarks DEF IInv
<1> QED BY <1>4, <1>5

LEMMA SelectKeeps ==
  ASSUME IInv, NEW n \in Names \cup {NoOne}, Select(n)
  PROVE  IInv' /\ MarksKept
<1> DEFINE r == LoadSessions(page, trails, n)
<1>1. r \in Pages /\ SameTrails(page, r) /\ MenuSays(r)
  BY PageIs, LoadedSessions DEF PageInv
<1>2. selected' = n /\ (page' = r \/ page' = page) /\ UNCHANGED <<trails, stored, minLoot, session, shares>> /\ Does
  BY DEF Select, hubVars
<1> HIDE DEF r
<1>3. PageInv(r, trails, minLoot)
  BY <1>1, PageIs, MenuOnly
<1>4. RestTypes'
  BY <1>2, Moved, PageIs DEF RestTypes
<1>5. PageInv(page', trails', minLoot') /\ KeepsHeld(page, page')
  BY <1>1, <1>2, <1>3, PageIs DEF SameTrails, KeepsHeld
<1> QED BY <1>4, <1>5, HeldKeepsMarks DEF IInv

\* A step that asks for the trails on a page that is as it was but for the time picked.
LEMMA TimePickedKeeps ==
  ASSUME IInv,
         NEW picked \in Sessions \cup {NoSession}, NEW shown \in Spans,
         picked # NoSession /\ page.menuOf = picked.member => shown = picked /\ picked.to \in page.choices
  PROVE  LET p == [page EXCEPT !.picked = picked, !.shown = shown]
         IN  Loadable(p, minLoot) /\ p.held = page.held /\ p.drawn = page.drawn
<1> DEFINE p == [page EXCEPT !.picked = picked, !.shown = shown]
<1>1. /\ p \in Pages /\ p.picked = picked /\ p.shown = shown /\ p.connected = page.connected
      /\ p.menuOf = page.menuOf /\ p.choices = page.choices /\ p.drawn = page.drawn
      /\ p.notes = page.notes /\ p.held = page.held /\ p.eventCalls = page.eventCalls
  BY PageIs DEF Pages
<1> HIDE DEF p
<1>2. MenuSays(p)
  BY <1>1, PageIs DEF PageInv, MenuSays
<1>3. Loadable(p, minLoot)
  BY <1>1, <1>2, PageIs DEF Loadable, NotesAreAsked, NotesLetThrough
<1> QED BY <1>1, <1>3 DEF p

\* The trails are asked for with the length that is stored then.
LEMMA LoadedAnew ==
  ASSUME stored \in Days, NEW p, NEW loot, Loadable(p, loot), NEW on \in Seq(Names), NEW sel,
         NEW r, p.held = r.held
  PROVE  /\ PageInv(LoadTrails(p, on, sel), on, loot)
         /\ KeepsHeld(r, LoadTrails(p, on, sel))
<1>1. /\ PageInv(LoadTrails(p, on, sel), on, loot)
      /\ KeepsHeld(p, LoadTrails(p, on, sel))
  BY LoadedTrails
<1> QED BY <1>1 DEF KeepsHeld

LEMMA PickDaysKeeps ==
  ASSUME IInv, NEW d \in Days, PickDays(d)
  PROVE  IInv' /\ MarksKept
<1> DEFINE p == [page EXCEPT !.picked = NoSession, !.shown = DaySpan(d)]
<1>1. /\ stored' = d /\ page' = LoadTrails(p, trails, selected)
      /\ UNCHANGED <<trails, selected, minLoot, session, shares>> /\ Does
  BY DEF PickDays, hubVars
<1>2. Loadable(p, minLoot) /\ p.held = page.held
  BY <1>1, SpanFacts, TimePickedKeeps
<1> HIDE DEF p
<1>3. RestTypes'
  BY <1>1, Moved, PageIs DEF RestTypes
<1>4. PageInv(page', trails', minLoot') /\ KeepsHeld(page, page')
  <2>1. PageInv(LoadTrails(p, trails, selected), trails, minLoot)
        /\ KeepsHeld(page, LoadTrails(p, trails, selected))
    BY <1>2, PageIs, LoadedAnew
  <2> QED BY <1>1, <2>1
<1> QED BY <1>3, <1>4, HeldKeepsMarks DEF IInv

LEMMA PickSessionKeeps ==
  ASSUME IInv, NEW to \in {"open", "over"}, PickSession(to)
  PROVE  IInv' /\ MarksKept
<1> DEFINE span == SessionSpan(page.menuOf, to)
           p == [page EXCEPT !.picked = span, !.shown = span]
<1>1. /\ page' = LoadTrails(p, trails, selected) /\ to \in page.choices
      /\ UNCHANGED <<trails, selected, stored, minLoot, session, shares>> /\ Does
  BY DEF PickSession, hubVars, choiceVars
<1>2. page.menuOf \in Names
  <2>1. page.menuOf \in Names \cup {NoOne}
    BY PageIs DEF Pages
  <2>2. page.menuOf # NoOne
    BY <1>1, PageIs DEF PageInv, MenuSays
  <2> QED BY <2>1, <2>2
<1>3. span \in Sessions /\ span \in Spans /\ span.member = page.menuOf /\ span.to = to
  BY <1>2, SpanFacts
<1> HIDE DEF span
<1>4. Loadable(p, minLoot) /\ p.held = page.held
  BY <1>1, <1>3, PageIs, TimePickedKeeps
<1> HIDE DEF p
<1>5. RestTypes'
  BY <1>1, Moved, PageIs DEF RestTypes
<1>6. PageInv(page', trails', minLoot') /\ KeepsHeld(page, page')
  <2>1. PageInv(LoadTrails(p, trails, selected), trails, minLoot)
        /\ KeepsHeld(page, LoadTrails(p, trails, selected))
    BY <1>4, PageIs, LoadedAnew
  <2> QED BY <1>1, <2>1
<1> QED BY <1>5, <1>6, HeldKeepsMarks DEF IInv

LEMMA SetMinLootKeeps ==
  ASSUME IInv, NEW loot \in Loots, SetMinLoot(loot)
  PROVE  IInv' /\ MarksKept
<1> DEFINE r == LoadTrailEvents(page, loot)
<1>1. /\ minLoot' = loot /\ page' = r /\ UNCHANGED <<trails, selected, stored, session, shares>> /\ Does
  BY DEF SetMinLoot, hubVars
<1>2. /\ r \in Pages /\ NotesAreAsked(r) /\ NotesLetThrough(r, loot)
      /\ r.connected = page.connected /\ r.drawn = page.drawn /\ r.held = page.held
      /\ r.trailCalls = page.trailCalls /\ r.picked = page.picked /\ r.menuOf = page.menuOf
      /\ r.choices = page.choices /\ r.shown = page.shown
  BY PageIs, LoadedTrailEvents DEF PageInv
<1> HIDE DEF r
<1>3. RestTypes'
  BY <1>1, Moved, PageIs DEF RestTypes
<1>4. PageInv(page', trails', minLoot') /\ KeepsHeld(page, page')
  <2>1. PageInv(r, trails, loot)
    BY <1>2, PageIs DEF PageInv, DrawnIsOn, PickedIsOn, MenuSays
  <2> QED BY <1>1, <1>2, <2>1 DEF KeepsHeld
<1> QED BY <1>3, <1>4, HeldKeepsMarks DEF IInv

LEMMA FeaturesKeeps ==
  ASSUME IInv, NEW has \in {"on", "off"}, Features(has)
  PROVE  IInv' /\ MarksKept
<1> DEFINE p == [page EXCEPT !.history = has]
<1>1. /\ page' = LoadTrails(p, trails, selected) \/ page' = p
      /\ UNCHANGED <<trails, selected, stored, minLoot, session, shares>> /\ Does
  BY DEF Features, hubVars, choiceVars
<1>2. /\ p \in Pages /\ p.connected = page.connected /\ p.picked = page.picked /\ p.shown = page.shown
      /\ p.menuOf = page.menuOf /\ p.choices = page.choices /\ p.drawn = page.drawn
      /\ p.notes = page.notes /\ p.held = page.held /\ p.eventCalls = page.eventCalls
      /\ p.trailCalls = page.trailCalls
  BY PageIs DEF Pages
<1> HIDE DEF p
<1>3. PageInv(p, trails, minLoot)
  BY <1>2, PageIs DEF PageInv, DrawnIsOn, PickedIsOn, MenuSays, NotesAreAsked, NotesLetThrough
<1>4. Loadable(p, minLoot)
  BY <1>2, <1>3, PageIs DEF PageInv, Loadable
<1>5. RestTypes'
  BY <1>1, Moved, PageIs DEF RestTypes
<1>6. PageInv(page', trails', minLoot') /\ KeepsHeld(page, page')
  <2>1. PageInv(LoadTrails(p, trails, selected), trails, minLoot)
        /\ KeepsHeld(page, LoadTrails(p, trails, selected))
    BY <1>2, <1>4, PageIs, LoadedAnew
  <2>2. KeepsHeld(page, p)
    BY <1>2 DEF KeepsHeld
  <2> QED BY <1>1, <1>3, <2>1, <2>2
<1> QED BY <1>5, <1>6, HeldKeepsMarks DEF IInv

LEMMA LeaveKeeps ==
  ASSUME IInv, Leave
  PROVE  IInv' /\ MarksKept
<1> DEFINE none == [n \in Names |-> NoTrail]
           r == [page EXCEPT !.connected = FALSE, !.retry = "no", !.drawn = none]
<1>1. page' = r /\ UNCHANGED <<trails, selected, stored, minLoot, session, shares>> /\ Does
  BY DEF Leave, hubVars, choiceVars
<1>2. none \in [Names -> Spans \cup {NoTrail}] /\ \A n \in Names : none[n] = NoTrail
  OBVIOUS
<1> HIDE DEF none
<1>3. /\ r \in Pages /\ ~r.connected /\ r.picked = page.picked /\ r.shown = page.shown
      /\ r.menuOf = page.menuOf /\ r.choices = page.choices /\ r.drawn = none
      /\ r.notes = page.notes /\ r.held = page.held /\ r.eventCalls = page.eventCalls
  BY <1>2, PageIs DEF Pages
<1> HIDE DEF r
<1>4. PageInv(r, trails, minLoot)
  BY <1>2, <1>3, PageIs DEF PageInv, DrawnIsOn, PickedIsOn, MenuSays, NotesAreAsked, NotesLetThrough
<1>5. RestTypes'
  BY <1>1, Moved, PageIs DEF RestTypes
<1>6. MarksKept
  BY <1>1, <1>3 DEF MarksKept
<1> QED BY <1>1, <1>4, <1>5, <1>6 DEF IInv

\* A page that was just opened.
LEMMA OpenedPage ==
  ASSUME stored \in Days, NEW history \in {"on", "off"}, NEW loot
  PROVE  /\ Loadable(NewPage(stored, history), loot)
         /\ \A n \in Names : NewPage(stored, history).drawn[n] = NoTrail
<1> DEFINE p == NewPage(stored, history)
<1>1. /\ p.shown \in Spans /\ p.picked = NoSession /\ p.menuOf = NoOne /\ p.choices = {}
      /\ p.drawn = [n \in Names |-> NoTrail] /\ p.notes = [n \in Names |-> Unasked]
      /\ p.eventCalls = [n \in Names |-> Quiet]
  BY SpanFacts DEF NewPage
<1>2. p \in Pages
  <2>1. /\ Unasked = NoCall /\ NoCall \in Maybe(Notes)
        /\ NoCall \in Maybe(TrailCalls) /\ NoCall \in Maybe(SessionCalls) /\ NoCall \in Maybe(EventCalls)
    BY DEF Maybe, Unasked, NoCall
  <2>2. /\ Quiet \in [Slots -> Maybe(TrailCalls)] /\ Quiet \in [Slots -> Maybe(SessionCalls)]
        /\ Quiet \in [Slots -> Maybe(EventCalls)]
    BY <2>1 DEF Quiet
  <2>3. DaySpan(stored) \in Spans
    BY SpanFacts
  <2> QED BY <2>1, <2>2, <2>3 DEF NewPage, Pages
<1> HIDE DEF p
<1>3. MenuSays(p) /\ NotesAreAsked(p) /\ NotesLetThrough(p, loot)
  <2>1. \A n \in Names : ~p.notes[n].live
    BY <1>1 DEF Unasked
  <2> QED BY <1>1, <2>1 DEF MenuSays, NotesAreAsked, NotesLetThrough
<1>4. \A n \in Names : p.drawn[n] = NoTrail
  BY <1>1
<1> QED BY <1>2, <1>3, <1>4 DEF Loadable, p

LEMMA EnterKeeps ==
  ASSUME IInv, Enter
  PROVE  IInv' /\ MarksKept
<1> DEFINE p == NewPage(stored, page.history)
           q == LoadTrails(p, trails, selected)
           r == LoadSessions(q, trails, selected)
<1>1. page' = r /\ UNCHANGED <<choiceVars, hubVars, moves, fails>>
  BY DEF Enter
<1>2. Loadable(p, minLoot) /\ \A n \in Names : p.drawn[n] = NoTrail
  <2>1. page.history \in {"on", "off"}
    BY PageIs DEF Pages
  <2> QED BY <2>1, PageIs, OpenedPage
<1> HIDE DEF p
<1>3. PageInv(q, trails, minLoot) /\ DrawsNoMore(p, q)
  BY <1>2, PageIs, LoadedTrails
<1> HIDE DEF q
<1>4. r \in Pages /\ SameTrails(q, r) /\ MenuSays(r)
  BY <1>3, PageIs, LoadedSessions DEF PageInv
<1> HIDE DEF r
<1>5. PageInv(r, trails, minLoot)
  BY <1>3, <1>4, MenuOnly
<1>6. MarksKept
  BY <1>1, <1>2, <1>3, <1>4 DEF MarksKept, DrawsNoMore, SameTrails
<1>7. RestTypes'
  BY <1>1, PageIs DEF RestTypes, choiceVars, hubVars
<1> QED BY <1>1, <1>5, <1>6, <1>7 DEF IInv, choiceVars

LEMMA RefreshDueKeeps ==
  ASSUME IInv, RefreshDue
  PROVE  IInv' /\ MarksKept
<1>1. page' = LoadTrails(page, trails, selected) /\ UNCHANGED <<choiceVars, hubVars, moves, fails>>
  BY DEF RefreshDue
<1>2. PageInv(LoadTrails(page, trails, selected), trails, minLoot)
      /\ KeepsHeld(page, LoadTrails(page, trails, selected))
  BY PageIs, LoadedTrails
<1>3. PageInv(page', trails', minLoot') /\ KeepsHeld(page, page')
  BY <1>1, <1>2 DEF choiceVars
<1>4. RestTypes'
  BY <1>1, PageIs DEF RestTypes, choiceVars, hubVars
<1> QED BY <1>3, <1>4, HeldKeepsMarks DEF IInv

LEMMA MenuGrowsOldKeeps ==
  ASSUME IInv, MenuGrowsOld
  PROVE  IInv' /\ MarksKept
<1> DEFINE r == [page EXCEPT !.menuFresh = FALSE]
<1>1. page' = r /\ UNCHANGED <<choiceVars, hubVars, moves, fails>>
  BY DEF MenuGrowsOld
<1>2. /\ r \in Pages /\ SameTrails(page, r) /\ r.menuOf = page.menuOf
      /\ r.choices = page.choices /\ r.shown = page.shown
  BY PageIs DEF Pages, SameTrails
<1> HIDE DEF r
<1>3. MenuSays(r)
  BY <1>2, PageIs DEF PageInv, MenuSays, SameTrails
<1>4. PageInv(r, trails, minLoot)
  BY <1>2, <1>3, PageIs, MenuOnly
<1>5. PageInv(page', trails', minLoot') /\ KeepsHeld(page, page')
  BY <1>1, <1>2, <1>4 DEF KeepsHeld, SameTrails, choiceVars
<1>6. RestTypes'
  BY <1>1, PageIs DEF RestTypes, choiceVars, hubVars
<1> QED BY <1>5, <1>6, HeldKeepsMarks DEF IInv

LEMMA EventsGrowOldKeeps ==
  ASSUME IInv, EventsGrowOld
  PROVE  IInv' /\ MarksKept
<1> DEFINE old(n) == [page.notes[n] EXCEPT !.fresh = FALSE]
           notes == [n \in Names |-> IF page.notes[n].live THEN old(n) ELSE page.notes[n]]
           r == [page EXCEPT !.notes = notes]
<1>1. page' = r /\ UNCHANGED <<choiceVars, hubVars, moves, fails>>
  BY DEF EventsGrowOld
<1>2. \A n \in Names : page.notes[n] \in Maybe(Notes)
  BY PageIs DEF Pages
<1>3. \A n \in Names : page.notes[n].live =>
        old(n) \in Notes /\ old(n).loot = page.notes[n].loot
  <2> SUFFICES ASSUME NEW n \in Names, page.notes[n].live
               PROVE  old(n) \in Notes /\ old(n).loot = page.notes[n].loot
    OBVIOUS
  <2>1. page.notes[n] \in Notes
    BY <1>2, LiveCalls
  <2> QED BY <2>1 DEF Notes
<1> HIDE DEF old
<1>4. /\ notes \in [Names -> Maybe(Notes)]
      /\ \A n \in Names : notes[n].live => page.notes[n].live /\ notes[n].loot = page.notes[n].loot
  BY <1>2, <1>3 DEF Maybe
<1> HIDE DEF notes
<1>5. /\ r \in Pages /\ r.held = page.held /\ r.notes = notes
      /\ r.connected = page.connected /\ r.picked = page.picked /\ r.drawn = page.drawn
      /\ r.menuOf = page.menuOf /\ r.choices = page.choices /\ r.shown = page.shown
      /\ r.trailCalls = page.trailCalls /\ r.eventCalls = page.eventCalls
  BY <1>4, PageIs DEF Pages
<1> HIDE DEF r
<1>6. PageInv(r, trails, minLoot)
  <2>1. DrawnIsOn(r, trails) /\ PickedIsOn(r, trails) /\ MenuSays(r)
    BY <1>5, PageIs DEF PageInv, DrawnIsOn, PickedIsOn, MenuSays
  <2>2. NotesAreAsked(r) /\ NotesLetThrough(r, minLoot)
    BY <1>4, <1>5, PageIs DEF PageInv, NotesAreAsked, NotesLetThrough
  <2> QED BY <1>5, <2>1, <2>2 DEF PageInv
<1>7. PageInv(page', trails', minLoot') /\ KeepsHeld(page, page')
  BY <1>1, <1>5, <1>6 DEF KeepsHeld, choiceVars
<1>8. RestTypes'
  BY <1>1, PageIs DEF RestTypes, choiceVars, hubVars
<1> QED BY <1>7, <1>8, HeldKeepsMarks DEF IInv

\* The hub's side of it: nothing on the page moves.
LEMMA HubMovesKeep ==
  ASSUME IInv, NEW n \in Names, SessionMoves(n) \/ SharingMoves(n)
  PROVE  IInv' /\ MarksKept
<1>1. UNCHANGED <<page, trails, selected, stored, minLoot>> /\ Does
  BY DEF SessionMoves, SharingMoves, choiceVars
<1>2. session' \in [Names -> {"open", "over", "gone"}] /\ shares' \subseteq Names
  <2>1. CASE SessionMoves(n)
    BY <2>1, PageIs DEF SessionMoves, RestTypes
  <2>2. CASE SharingMoves(n)
    BY <2>2, PageIs DEF SharingMoves, RestTypes
  <2> QED BY <2>1, <2>2
<1>3. RestTypes'
  BY <1>1, <1>2, Moved, PageIs DEF RestTypes
<1>4. PageInv(page', trails', minLoot') /\ KeepsHeld(page, page')
  BY <1>1, PageIs DEF KeepsHeld
<1> QED BY <1>3, <1>4, HeldKeepsMarks DEF IInv

-----------------------------------------------------------------------------
(* The theorems.                                                            *)

\* The filters have a largest drop to start with.
LEMMA LargestLoot == Max(Loots) \in Loots
<1> DEFINE HasMax(S) == \E m \in S : \A x \in S : m >= x
           Without == {S \in SUBSET Loots : S # {} /\ ~HasMax(S)}
           sizes == {Cardinality(S) : S \in Without}
<1>1. \A S \in Without : S \subseteq Nat /\ IsFiniteSet(S) /\ Cardinality(S) \in Nat
  BY MenuHasLengths, FS_Subset, FS_CardinalityType
<1>2. Without = {}
  <2> SUFFICES ASSUME Without # {} PROVE FALSE
    OBVIOUS
  <2>1. sizes \in SUBSET Nat /\ sizes # {}
    BY <1>1
  <2> HIDE DEF sizes
  <2>2. PICK c \in sizes : \A d \in sizes : ~ (d < c)
    <3>1. \E c \in sizes : \A d \in sizes : ~ (<<d, c>> \in OpToRel(<, Nat))
      BY <2>1, NatLessThanWellFounded, WFMin
    <3> QED BY <2>1, <3>1 DEF OpToRel
  <2>3. PICK S \in Without : c = Cardinality(S)
    BY <2>2 DEF sizes
  <2>4. PICK y \in S : TRUE
    OBVIOUS
  <2> DEFINE T == S \ {y}
  <2>5. IsFiniteSet(T) /\ Cardinality(T) = Cardinality(S) - 1
    BY <1>1, FS_RemoveElement
  <2>6. T \notin Without
    <3> SUFFICES ASSUME T \in Without PROVE FALSE
      OBVIOUS
    <3>1. Cardinality(T) \in sizes
      BY DEF sizes
    <3>2. Cardinality(S) \in Nat /\ Cardinality(T) \in Nat
      BY <1>1
    <3>3. Cardinality(T) < c
      BY <2>3, <2>5, <3>2
    <3> QED BY <2>2, <3>1, <3>3
  <2>7. y \in Nat /\ S \subseteq Nat
    BY <1>1
  <2>8. CASE T = {}
    <3>1. S = {y}
      BY <2>8
    <3> QED BY <2>7, <3>1
  <2>9. CASE T # {}
    <3>1. PICK m \in T : \A x \in T : m >= x
      BY <2>6, <2>9
    <3>2. \A x \in S : x \in T \/ x = y
      OBVIOUS
    <3>3. HasMax(S)
      <4>1. CASE m >= y
        BY <3>1, <3>2, <4>1
      <4>2. CASE y > m
        <5>1. \A x \in S : y >= x
          BY <2>7, <3>1, <3>2, <4>2
        <5> QED BY <5>1
      <4> QED BY <2>7, <3>1, <4>1, <4>2
    <3> QED BY <3>3
  <2> QED BY <2>8, <2>9
<1>3. HasMax(Loots)
  BY <1>2, MenuHasLengths
<1> QED BY <1>3 DEF Max

LEMMA InitIsSafe == Init => IInv
<1> SUFFICES ASSUME Init PROVE IInv
  OBVIOUS
<1>1. stored \in Days /\ minLoot \in Loots /\ page = LoadTrails(NewPage(stored, "on"), trails, selected)
  BY LargestLoot DEF Init
<1>2. trails \in Seq(Names) /\ IsInjective(trails) /\ Len(trails) <= MaxTrails
  <2>1. CASE trails = <<>>
    BY <2>1, MenuHasLengths DEF IsInjective
  <2>2. CASE \E n \in Names : trails = <<n>>
    <3>1. PICK n \in Names : trails = <<n>>
      BY <2>2
    <3>2. trails \in Seq(Names) /\ Len(trails) = 1 /\ DOMAIN trails = {1}
      BY <3>1
    <3>3. IsInjective(trails)
      BY <3>2 DEF IsInjective
    <3> QED BY <3>2, <3>3, MenuHasLengths
  <2> QED BY <2>1, <2>2 DEF Init
<1>3. RestTypes
  BY <1>1, <1>2, Bounds DEF Init, RestTypes
<1>4. PageInv(page, trails, minLoot)
  BY <1>1, <1>2, OpenedPage, LoadedTrails
<1> QED BY <1>3, <1>4 DEF IInv

LEMMA StepIsSafe == IInv /\ [Next]_vars => IInv' /\ [MarksKept]_vars
<1> SUFFICES ASSUME IInv, [Next]_vars
             PROVE  IInv' /\ [MarksKept]_vars
  OBVIOUS
<1>1. CASE UNCHANGED vars
  <2>1. UNCHANGED <<trails, selected, stored, minLoot, page, session, shares, moves, fails>>
    BY <1>1 DEF vars, choiceVars, hubVars
  <2>2. IInv'
    BY <2>1, PageIs DEF IInv, RestTypes
  <2> QED BY <1>1, <2>2
<1>2. CASE Next
  <2>1. CASE \E s \in Slots : TrailsAnswered(s) \/ TrailsFailed(s) \/ SessionsAnswered(s) \/ SessionsFailed(s)
    BY <2>1, TrailsAnsweredKeeps, TrailsFailedKeeps, SessionsAnsweredKeeps, SessionsFailedKeeps
  <2>2. CASE \E n \in Names, s \in Slots : EventsAnswered(n, s) \/ EventsFailed(n, s)
    BY <2>2, EventsAnsweredKeeps, EventsFailedKeeps
  <2>3. CASE \E n \in Names : ToggleTrail(n) \/ SessionMoves(n) \/ SharingMoves(n)
    BY <2>3, ToggleTrailKeeps, HubMovesKeep
  <2>4. CASE \E n \in Names \cup {NoOne} : Select(n)
    BY <2>4, SelectKeeps
  <2>5. CASE \E d \in Days : PickDays(d)
    BY <2>5, PickDaysKeeps
  <2>6. CASE \E to \in {"open", "over"} : PickSession(to)
    BY <2>6, PickSessionKeeps
  <2>7. CASE \E loot \in Loots : SetMinLoot(loot)
    BY <2>7, SetMinLootKeeps
  <2>8. CASE \E has \in {"on", "off"} : Features(has)
    BY <2>8, FeaturesKeeps
  <2>9. CASE Leave \/ Enter \/ RefreshDue \/ MenuGrowsOld \/ EventsGrowOld
    BY <2>9, LeaveKeeps, EnterKeeps, RefreshDueKeeps, MenuGrowsOldKeeps, EventsGrowOldKeeps
  <2> QED BY <1>2, <2>1, <2>2, <2>3, <2>4, <2>5, <2>6, <2>7, <2>8, <2>9 DEF Next
<1> QED BY <1>1, <1>2

LEMMA InvImpliesPageHolds == IInv => PageHolds
<1> SUFFICES ASSUME IInv PROVE PageHolds
  OBVIOUS
<1>1. TypeOK
  <2>1. Range(trails) \subseteq Names
    BY PageIs, NamesOn
  <2>2. page.picked \in Sessions \cup {NoSession} /\ page.shown \in Spans
        /\ page.menuOf \in Names \cup {NoOne} /\ page.choices \subseteq {"open", "over"}
        /\ page.drawn \in [Names -> Spans \cup {NoTrail}]
    BY PageIs DEF Pages
  <2>3. NoSession.days = 0
    BY DEF NoSession, NoTrail, SessionSpan
  <2>4. page.picked \in Spans \cup {NoSession} /\ page.picked.days = 0
    BY <2>2, <2>3, SpanFacts
  <2> QED BY <2>1, <2>2, <2>4, PageIs DEF TypeOK, RestTypes
<1>2. DrawnAreSwitchedOn
  BY PageIs DEF PageInv, DrawnIsOn, DrawnAreSwitchedOn
<1>3. MenuShowsTheSpan
  BY PageIs DEF PageInv, PickedIsOn, MenuSays, MenuShowsTheSpan
<1> QED BY <1>1, <1>2, <1>3 DEF PageHolds

\* The invariant holds of every state the page gets to.
LEMMA Invariant == Spec => []IInv
<1>1. IInv /\ [Next]_vars => IInv'
  BY StepIsSafe
<1> QED BY <1>1, InitIsSafe, PTL DEF Spec

\* The map shows the trails that are on and no other, and the menu the time they
\* are of, whatever answers were overtaken and whoever left (loadTrails,
\* loadSessions, showSessions).
THEOREM OnlyWhatIsOn == Spec => []PageHolds
BY Invariant, InvImpliesPageHolds, PTL

\* No answer to an earlier question takes the marks of a trail away
\* (loadTrailEvents).
THEOREM MarksAreKept == Spec => MarksStay
<1>1. IInv /\ [Next]_vars => [\A n \in Names :
       Marked(page, n, minLoot) /\ TrailSpan(page') = TrailSpan(page) /\ minLoot' = minLoot
         /\ page'.drawn[n] # NoTrail /\ page'.connected
       => Marked(page', n, minLoot)]_vars
  BY StepIsSafe DEF MarksKept
<1> QED BY <1>1, Invariant, PTL DEF MarksStay, Spec
=============================================================================
