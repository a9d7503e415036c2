------------------------------ MODULE SiteProofs ------------------------------
(* Theorems about a page of the site: its life, the map a person moves, the *)
(* markers of events on it, the charts and gains, and the lists of players  *)
(* and the profile, for any number of users, moves, players, places and     *)
(* events.                                                                  *)
EXTENDS MCSite, FiniteSetTheorems, TLAPS

-----------------------------------------------------------------------------
(* SiteLife: what a page is made of.                                        *)

Somebody == LifeUsers \cup {"nobody"}
Loads == {"who", "data"}

Initializers ==
  [n : Nat, at : {"loading", "polling", "failed"}, waits : SUBSET Loads, who : Somebody]
SitePolls == [n : Nat, by : {"first", "interval"}, as : Somebody]
SiteCalls == [what : {"logout", "callback"}, as : Somebody]

SitePages ==
  [path : Life!Paths \cup {"none"}, section : Nat, count : Nat,
   topic : Somebody \cup {Life!Untold}, items : BOOLEAN, current : Somebody, shown : BOOLEAN,
   loops : SUBSET Nat, members : BOOLEAN, loader : BOOLEAN, live : BOOLEAN,
   inits : SUBSET Initializers, polls : SUBSET SitePolls, features : SUBSET Nat,
   calls : SUBSET SiteCalls]

\* The initializers that go on: one to a section, each waits for something or for the
\* first poll, and what the one of this section has waited for is there.
InitsInv(s) ==
  /\ \A i \in s.inits :
       /\ i.n \in 1..s.count
       /\ i.at = "loading" => i.waits # {}
       /\ i.at = "polling" => i.waits = {}
       /\ i.at = "failed" => "data" \in i.waits
       /\ i.n = s.section /\ "data" \notin i.waits => s.items
  /\ \A i, j \in s.inits : i.n = j.n => i = j

\* What holds of a page whatever became of its section: also in the middle of a handler.
QuietInv(s) ==
  /\ s \in SitePages /\ InitsInv(s)
  /\ s.section \in 0..s.count /\ s.features \subseteq 1..s.count
  /\ s.section # 0 <=> s.path \in Life!Section
  /\ s.live => s.section # 0
  /\ s.topic # Life!Untold => s.topic = s.current
  /\ s.shown => s.path = "admin" /\ s.current \in LifeAdmins \cup {"nobody"}

\* The section of the page loads, failed to, or polls.
PollsInv(s) ==
  /\ s.loops = IF s.section = 0 \/ (\E i \in s.inits : i.n = s.section /\ i.at # "polling")
               THEN {} ELSE {s.section}
  /\ s.loops # {} => s.items
  /\ s.loader => \E i \in s.inits : i.n = s.section

WholeInv(s) == QuietInv(s) /\ PollsInv(s)

-----------------------------------------------------------------------------
(* What the handlers are made of.                                           *)

LEMMA FreshIsAPage == Life!Fresh \in SitePages /\ InitsInv(Life!Fresh) /\ PollsInv(Life!Fresh)
BY DEF Life!Fresh, SitePages, InitsInv, PollsInv, Life!Untold, Somebody, Life!Paths, Life!Section

LEMMA CleanUpIsQuiet ==
  ASSUME NEW s, QuietInv(s)
  PROVE  LET t == Life!CleanUp(s)
         IN  /\ t \in SitePages
             /\ t.loops = {} /\ ~t.loader /\ ~t.live /\ t.topic = Life!Untold
             /\ t.path = s.path /\ t.section = s.section /\ t.count = s.count
             /\ t.inits = s.inits /\ t.features = s.features /\ t.shown = s.shown
             /\ t.current = s.current /\ t.calls = s.calls
BY DEF Life!CleanUp, Life!Disable, QuietInv, SitePages

LEMMA EntersAsWhole ==
  ASSUME NEW s, QuietInv(s), s.section = 0, account \in Somebody
  PROVE  LET t == Life!EnterSection(s)
         IN  /\ t \in SitePages /\ InitsInv(t) /\ PollsInv(t)
             /\ t.section = s.count + 1 /\ t.count = t.section /\ ~t.live /\ t.topic = Life!Untold
             /\ t.path = s.path /\ t.features = s.features /\ t.shown = s.shown
             /\ t.current = s.current /\ t.calls = s.calls
<1> DEFINE c == Life!CleanUp(s)
           n == c.count + 1
           i == [n |-> n, at |-> "loading", waits |-> {"who", "data"}, who |-> account]
           t == Life!EnterSection(s)
<1>1. /\ c \in SitePages /\ c.loops = {} /\ ~c.loader /\ ~c.live /\ c.topic = Life!Untold
      /\ c.path = s.path /\ c.count = s.count /\ c.inits = s.inits /\ c.features = s.features
      /\ c.shown = s.shown /\ c.current = s.current /\ c.calls = s.calls /\ s.count \in Nat
  BY CleanUpIsQuiet DEF QuietInv, SitePages
<1>2. t = [c EXCEPT !.section = n, !.count = n, !.loader = TRUE, !.inits = c.inits \cup {i}]
  BY <1>1 DEF Life!EnterSection
<1> HIDE DEF c, t
<1>3. i \in Initializers
  BY <1>1 DEF Initializers, Loads
<1> HIDE DEF i
<1>5. n = s.count + 1 /\ n \in Nat
  BY <1>1
<1>4. /\ t \in SitePages /\ t.section = n /\ t.count = n /\ t.inits = s.inits \cup {i}
      /\ t.loader /\ t.loops = {} /\ ~t.live /\ t.topic = Life!Untold /\ t.path = s.path
      /\ t.features = s.features /\ t.shown = s.shown /\ t.current = s.current /\ t.calls = s.calls
  <2> HIDE DEF n
  <2>1. t \in SitePages
    BY <1>1, <1>2, <1>3, <1>5 DEF SitePages
  <2>2. /\ t.section = n /\ t.count = n /\ t.inits = c.inits \cup {i} /\ t.loader
        /\ t.loops = c.loops /\ t.live = c.live /\ t.topic = c.topic /\ t.path = c.path
        /\ t.features = c.features /\ t.shown = c.shown /\ t.current = c.current
        /\ t.calls = c.calls
    BY <1>1, <1>2 DEF SitePages
  <2> QED BY <1>1, <2>1, <2>2
<1>6. i.n = n /\ i.at = "loading" /\ i.waits = {"who", "data"}
  BY DEF i
<1> HIDE DEF n
<1>7. \A j \in s.inits : j.n \in 1..s.count
  BY DEF QuietInv, InitsInv
<1>8. InitsInv(t)
  <2>1. ASSUME NEW j \in t.inits
        PROVE  /\ j.n \in 1..t.count
               /\ j.at = "loading" => j.waits # {}
               /\ j.at = "polling" => j.waits = {}
               /\ j.at = "failed" => "data" \in j.waits
               /\ j.n = t.section /\ "data" \notin j.waits => t.items
    <3>1. CASE j = i
      BY <1>1, <1>4, <1>5, <1>6, <3>1
    <3>2. CASE j \in s.inits
      BY <1>1, <1>4, <1>5, <1>7, <3>2 DEF QuietInv, InitsInv
    <3> QED BY <1>4, <3>1, <3>2
  <2>2. ASSUME NEW j \in t.inits, NEW k \in t.inits, j.n = k.n PROVE j = k
    BY <1>1, <1>4, <1>5, <1>6, <1>7, <2>2 DEF QuietInv, InitsInv
  <2> QED BY <2>1, <2>2 DEF InitsInv
<1>9. PollsInv(t)
  BY <1>4, <1>5, <1>6 DEF PollsInv
<1> QED BY <1>4, <1>5, <1>8, <1>9 DEF t

LEMMA LeavesAsWhole ==
  ASSUME NEW s, QuietInv(s)
  PROVE  LET t == Life!LeaveSection(s)
         IN  /\ t \in SitePages /\ InitsInv(t) /\ PollsInv(t)
             /\ t.section = 0 /\ t.count = s.count /\ ~t.live /\ t.topic = Life!Untold
             /\ t.path = s.path /\ t.features = s.features /\ t.shown = s.shown
             /\ t.current = s.current /\ t.calls = s.calls
<1> DEFINE c == Life!CleanUp(s)
           t == Life!LeaveSection(s)
<1>1. /\ c \in SitePages /\ c.loops = {} /\ ~c.loader /\ ~c.live /\ c.topic = Life!Untold
      /\ c.path = s.path /\ c.count = s.count /\ c.inits = s.inits /\ c.features = s.features
      /\ c.shown = s.shown /\ c.current = s.current /\ c.calls = s.calls
  BY CleanUpIsQuiet
<1>2. t = [c EXCEPT !.section = 0]
  BY DEF Life!LeaveSection
<1> HIDE DEF c, t
<1>3. /\ t \in SitePages /\ t.section = 0 /\ t.count = s.count /\ t.inits = s.inits
      /\ ~t.loader /\ t.loops = {} /\ ~t.live /\ t.topic = Life!Untold /\ t.path = s.path
      /\ t.features = s.features /\ t.shown = s.shown /\ t.current = s.current /\ t.calls = s.calls
  BY <1>1, <1>2 DEF SitePages
<1>4. InitsInv(t)
  BY <1>3 DEF QuietInv, InitsInv
<1>5. PollsInv(t)
  BY <1>3 DEF PollsInv
<1> QED BY <1>3, <1>4, <1>5 DEF t

\* The admin page shows itself to an admin, or sends the viewer to the map.
LEMMA HearsAsQuiet ==
  ASSUME NEW s, QuietInv(s)
  PROVE  LET t == Life!HearSession(s)
         IN  /\ QuietInv(t) /\ (PollsInv(s) => PollsInv(t))
             /\ t.path \in {s.path, "map"} /\ t.section = s.section
<1> DEFINE t == Life!HearSession(s)
<1>1. \/ t = s
      \/ s.path = "admin" /\ s.topic \in LifeAdmins /\ s.topic # Life!Untold
           /\ t = [s EXCEPT !.shown = TRUE]
      \/ s.path = "admin" /\ t = [s EXCEPT !.path = "map", !.shown = FALSE]
  BY DEF Life!HearSession
<1> HIDE DEF t
<1>2. CASE t = s
  BY <1>2 DEF t
<1>3. CASE s.path = "admin" /\ s.topic \in LifeAdmins /\ s.topic # Life!Untold
             /\ t = [s EXCEPT !.shown = TRUE]
  <2>1. s \in SitePages
    BY DEF QuietInv
  <2>2. /\ t \in SitePages /\ t.path = s.path /\ t.shown /\ t.section = s.section
        /\ t.count = s.count /\ t.inits = s.inits /\ t.items = s.items /\ t.features = s.features
        /\ t.live = s.live /\ t.topic = s.topic /\ t.current = s.current /\ t.loops = s.loops
        /\ t.loader = s.loader
    BY <1>3, <2>1 DEF SitePages
  <2> QED BY <1>3, <2>2 DEF t, QuietInv, InitsInv, PollsInv
<1>4. CASE s.path = "admin" /\ t = [s EXCEPT !.path = "map", !.shown = FALSE]
  <2>1. /\ t \in SitePages /\ t.path = "map" /\ ~t.shown /\ t.section = s.section
        /\ t.count = s.count /\ t.inits = s.inits /\ t.items = s.items /\ t.features = s.features
        /\ t.live = s.live /\ t.topic = s.topic /\ t.current = s.current /\ t.loops = s.loops
        /\ t.loader = s.loader
    BY <1>4 DEF QuietInv, SitePages, Life!Paths, Life!Section
  <2> QED BY <1>4, <2>1 DEF t, QuietInv, InitsInv, PollsInv, Life!Section
<1> QED BY <1>1, <1>2, <1>3, <1>4

\* Whoever hears who is signed in takes it for so.
LEMMA SetsAsQuiet ==
  ASSUME NEW s, QuietInv(s), NEW who \in Somebody
  PROVE  LET t == Life!SetSession(s, who)
         IN  /\ QuietInv(t) /\ (PollsInv(s) => PollsInv(t))
             /\ t.path \in {s.path, "map"} /\ t.section = s.section
<1> DEFINE r == [s EXCEPT !.current = who, !.topic = who]
           t == Life!SetSession(s, who)
<1>1. t = Life!HearSession(r)
  BY DEF Life!SetSession
<1>2. /\ r \in SitePages /\ r.current = who /\ r.topic = who
      /\ r.path = s.path /\ r.shown = s.shown /\ r.section = s.section
      /\ r.count = s.count /\ r.inits = s.inits /\ r.items = s.items /\ r.features = s.features
      /\ r.live = s.live /\ r.loops = s.loops /\ r.loader = s.loader
  BY DEF QuietInv, SitePages
<1> HIDE DEF r, t
<1>3. CASE ~s.shown \/ who \in LifeAdmins \cup {"nobody"}
  <2>1. QuietInv(r) /\ (PollsInv(s) => PollsInv(r))
    BY <1>2, <1>3 DEF QuietInv, InitsInv, PollsInv
  <2> QED BY <1>1, <1>2, <2>1, HearsAsQuiet DEF t
<1>4. CASE s.shown /\ who \notin LifeAdmins \cup {"nobody"}
  <2>1. s.path = "admin"
    BY <1>4 DEF QuietInv
  <2>2. who # Life!Untold
    BY UsersAreSomebody DEF Somebody, Life!Untold
  <2>3. t = [r EXCEPT !.path = "map", !.shown = FALSE]
    BY <1>1, <1>2, <1>4, <2>1, <2>2 DEF Life!HearSession
  <2>4. /\ t \in SitePages /\ t.path = "map" /\ ~t.shown /\ t.section = s.section
        /\ t.count = s.count /\ t.inits = s.inits /\ t.items = s.items /\ t.features = s.features
        /\ t.live = s.live /\ t.topic = who /\ t.current = who /\ t.loops = s.loops
        /\ t.loader = s.loader
    BY <1>2, <2>3 DEF SitePages, Life!Paths, Life!Section
  <2> QED BY <2>1, <2>4 DEF t, QuietInv, InitsInv, PollsInv, Life!Section
<1> QED BY <1>3, <1>4

\* pushState and the router: a page that is whole, or leaves the section it is in, is whole
\* where it goes.
LEMMA GoesAsWhole ==
  ASSUME NEW s, QuietInv(s), NEW path \in Life!Paths, account \in Somebody,
         PollsInv(s) \/ (s.section # 0 /\ path \notin Life!Section)
  PROVE  LET t == Life!GoTo(s, path)
         IN  WholeInv(t) /\ t.path \in Life!Paths
<1> DEFINE left == IF s.section # 0 /\ path \notin Life!Section THEN Life!LeaveSection(s) ELSE s
           entered == IF s.section = 0 /\ path \in Life!Section THEN Life!EnterSection(left) ELSE left
           there == [entered EXCEPT !.path = path, !.shown = FALSE,
                       !.calls = IF path = "logout"
                                 THEN entered.calls \cup {[what |-> "logout", as |-> "nobody"]}
                                 ELSE entered.calls]
           t == Life!GoTo(s, path)
<1>1. t = IF path = s.path THEN s ELSE Life!HearSession(there)
  BY DEF Life!GoTo
<1>2. CASE path = s.path
  <2>1. PollsInv(s)
    BY <1>2 DEF QuietInv
  <2> QED BY <1>1, <1>2, <2>1 DEF WholeInv
<1>3. CASE path # s.path
  <2>1. /\ entered \in SitePages /\ InitsInv(entered) /\ PollsInv(entered)
        /\ entered.section \in 0..entered.count /\ entered.features \subseteq 1..entered.count
        /\ entered.section # 0 <=> path \in Life!Section
        /\ entered.live => entered.section # 0
        /\ entered.topic # Life!Untold => entered.topic = entered.current
    <3>1. CASE s.section # 0 /\ path \notin Life!Section
      <4>1. entered = Life!LeaveSection(s)
        BY <3>1
      <4> HIDE DEF entered
      <4> QED BY <3>1, <4>1, LeavesAsWhole DEF QuietInv, SitePages
    <3>2. CASE s.section = 0 /\ path \in Life!Section
      <4>1. entered = Life!EnterSection(s)
        BY <3>2
      <4> HIDE DEF entered
      <4>2. s.count \in Nat /\ s.features \subseteq 1..s.count
        BY DEF QuietInv, SitePages
      <4> QED BY <3>2, <4>1, <4>2, EntersAsWhole
    <3>3. CASE s.section = 0 <=> path \notin Life!Section
      <4>1. entered = s
        BY <3>3
      <4> HIDE DEF entered
      <4> QED BY <3>3, <4>1 DEF QuietInv
    <3> QED BY <3>1, <3>2, <3>3
  <2> HIDE DEF entered
  <2>2. /\ there \in SitePages /\ there.path = path /\ there.shown = FALSE
        /\ there.section = entered.section /\ there.count = entered.count
        /\ there.inits = entered.inits /\ there.items = entered.items
        /\ there.features = entered.features /\ there.live = entered.live
        /\ there.topic = entered.topic /\ there.current = entered.current
        /\ there.loops = entered.loops /\ there.loader = entered.loader
    <3> DEFINE made == IF path = "logout"
                       THEN entered.calls \cup {[what |-> "logout", as |-> "nobody"]}
                       ELSE entered.calls
    <3>1. there = [entered EXCEPT !.path = path, !.shown = FALSE, !.calls = made]
      OBVIOUS
    <3> HIDE DEF there
    <3>2. made \subseteq SiteCalls
      BY <2>1 DEF SitePages, SiteCalls, Somebody
    <3> HIDE DEF made
    <3>3. there \in SitePages
      BY <2>1, <3>1, <3>2 DEF SitePages
    <3> QED BY <2>1, <3>1, <3>3 DEF SitePages
  <2> HIDE DEF there
  <2>3. QuietInv(there) /\ PollsInv(there)
    BY <2>1, <2>2 DEF QuietInv, InitsInv, PollsInv
  <2>4. "map" \in Life!Paths
    BY DEF Life!Paths, Life!Section
  <2> HIDE DEF t
  <2>5. t = Life!HearSession(there)
    BY <1>1, <1>3 DEF t
  <2>6. QuietInv(t) /\ PollsInv(t) /\ t.path \in {there.path, "map"}
    BY <2>3, <2>5, HearsAsQuiet
  <2> QED BY <2>2, <2>4, <2>6 DEF WholeInv, t
<1> QED BY <1>2, <1>3
-----------------------------------------------------------------------------
(* The initializers, and the requests of a page.                            *)

\* One initializer for another of the same section, with what it waits for.
LEMMA SwapsAsWhole ==
  ASSUME NEW s, WholeInv(s), NEW i \in s.inits, NEW j \in Initializers,
         j.n = i.n, j.at = "polling" <=> i.at = "polling",
         j.at = "loading" => j.waits # {}, j.at = "polling" => j.waits = {},
         j.at = "failed" => "data" \in j.waits,
         "data" \notin j.waits => "data" \notin i.waits \/ s.items
  PROVE  LET t == [s EXCEPT !.inits = (@ \ {i}) \cup {j}]
         IN  /\ WholeInv(t) /\ t.path = s.path /\ t.inits = (s.inits \ {i}) \cup {j}
             /\ t.items = s.items /\ t.section = s.section
<1> DEFINE t == [s EXCEPT !.inits = (@ \ {i}) \cup {j}]
<1>1. s \in SitePages
  BY DEF WholeInv, QuietInv
<1>2. /\ t \in SitePages /\ t.inits = (s.inits \ {i}) \cup {j} /\ t.path = s.path
      /\ t.section = s.section /\ t.count = s.count /\ t.items = s.items
      /\ t.features = s.features /\ t.live = s.live /\ t.topic = s.topic /\ t.shown = s.shown
      /\ t.current = s.current /\ t.loops = s.loops /\ t.loader = s.loader
  BY <1>1 DEF SitePages
<1> HIDE DEF t
<1>3. InitsInv(s)
  BY DEF WholeInv, QuietInv
<1>4. InitsInv(t)
  <2>1. \A k \in t.inits :
          /\ k.n \in 1..t.count
          /\ k.at = "loading" => k.waits # {}
          /\ k.at = "polling" => k.waits = {}
          /\ k.at = "failed" => "data" \in k.waits
          /\ k.n = t.section /\ "data" \notin k.waits => t.items
    BY <1>2, <1>3 DEF InitsInv
  <2>2. \A k, l \in t.inits : k.n = l.n => k = l
    BY <1>2, <1>3 DEF InitsInv
  <2> QED BY <2>1, <2>2 DEF InitsInv
<1>5. QuietInv(t)
  BY <1>2, <1>4 DEF WholeInv, QuietInv
<1>6. PollsInv(t)
  <2>1. (\E k \in t.inits : k.n = t.section /\ k.at # "polling")
          <=> (\E k \in s.inits : k.n = s.section /\ k.at # "polling")
    BY <1>2
  <2>2. (\E k \in s.inits : k.n = s.section) => \E k \in t.inits : k.n = t.section
    BY <1>2
  <2> QED BY <1>2, <2>1, <2>2 DEF WholeInv, PollsInv
<1> QED BY <1>2, <1>5, <1>6 DEF WholeInv, t

\* members-polled
LEMMA PolledIsWhole ==
  ASSUME NEW s, WholeInv(s)
  PROVE  WholeInv(Life!Polled(s)) /\ Life!Polled(s).path = s.path
<1> DEFINE waiting == {i \in s.inits : i.at = "polling"}
           cover == IF waiting = {} THEN s.loader ELSE FALSE
           t == Life!Polled(s)
<1>1. s \in SitePages /\ InitsInv(s)
  BY DEF WholeInv, QuietInv
<1>2. t = [s EXCEPT !.inits = s.inits \ waiting, !.loader = cover]
  BY <1>1 DEF Life!Polled, SitePages
<1>3. cover \in BOOLEAN /\ (cover => s.loader /\ waiting = {})
  BY <1>1 DEF SitePages
<1> HIDE DEF t, cover
<1>4. /\ t \in SitePages /\ t.inits = s.inits \ waiting /\ t.path = s.path
      /\ t.section = s.section /\ t.count = s.count /\ t.items = s.items
      /\ t.features = s.features /\ t.live = s.live /\ t.topic = s.topic /\ t.shown = s.shown
      /\ t.current = s.current /\ t.loops = s.loops /\ t.loader = cover
  BY <1>1, <1>2, <1>3 DEF SitePages
<1>5. InitsInv(t)
  BY <1>1, <1>4 DEF InitsInv
<1>6. QuietInv(t)
  BY <1>4, <1>5 DEF WholeInv, QuietInv
<1>7. PollsInv(t)
  <2>1. (\E k \in t.inits : k.n = t.section /\ k.at # "polling")
          <=> (\E k \in s.inits : k.n = s.section /\ k.at # "polling")
    BY <1>4
  <2>2. t.loader => \E k \in t.inits : k.n = t.section
    BY <1>3, <1>4 DEF WholeInv, PollsInv
  <2> QED BY <1>4, <2>1, <2>2 DEF WholeInv, PollsInv
<1> QED BY <1>4, <1>6, <1>7 DEF WholeInv, t

\* enable and disable leave a page what it is but for its polls.
LEMMA DisablesAsQuiet ==
  ASSUME NEW s, QuietInv(s)
  PROVE  LET t == Life!Disable(s)
         IN  /\ QuietInv(t) /\ t.path = s.path /\ t.section = s.section /\ t.calls = s.calls
             /\ t.section = 0 => t.loops = {} /\ t.loader = s.loader
             /\ t.inits = s.inits
<1> DEFINE t == Life!Disable(s)
<1>1. s \in SitePages
  BY DEF QuietInv
<1>2. /\ t \in SitePages /\ t.inits = s.inits /\ t.path = s.path
      /\ t.section = s.section /\ t.count = s.count /\ t.items = s.items
      /\ t.features = s.features /\ t.live = s.live /\ t.topic = s.topic /\ t.shown = s.shown
      /\ t.current = s.current /\ t.loops = {} /\ t.loader = s.loader /\ t.calls = s.calls
  BY <1>1 DEF Life!Disable, SitePages
<1> HIDE DEF t
<1>3. QuietInv(t)
  BY <1>2 DEF QuietInv, InitsInv
<1> QED BY <1>2, <1>3 DEF t

\* What is under way is no part of what makes a page whole.
LEMMA AsksAsWhole ==
  ASSUME NEW s, WholeInv(s)
  PROVE  /\ \A made \in SUBSET SitePolls :
              WholeInv([s EXCEPT !.polls = made]) /\ [s EXCEPT !.polls = made].path = s.path
         /\ \A made \in SUBSET SiteCalls :
              WholeInv([s EXCEPT !.calls = made]) /\ [s EXCEPT !.calls = made].path = s.path
         /\ WholeInv([s EXCEPT !.members = TRUE]) /\ [s EXCEPT !.members = TRUE].path = s.path
<1>1. s \in SitePages /\ QuietInv(s) /\ PollsInv(s)
  BY DEF WholeInv, QuietInv
<1>2. ASSUME NEW t \in SitePages, t.inits = s.inits, t.path = s.path,
             t.section = s.section, t.count = s.count, t.items = s.items,
             t.features = s.features, t.live = s.live, t.topic = s.topic, t.shown = s.shown,
             t.current = s.current, t.loops = s.loops, t.loader = s.loader
      PROVE  WholeInv(t)
  <2>1. InitsInv(t)
    BY <1>1, <1>2 DEF QuietInv, InitsInv
  <2>2. QuietInv(t)
    BY <1>1, <1>2, <2>1 DEF QuietInv
  <2>3. PollsInv(t)
    BY <1>1, <1>2 DEF PollsInv
  <2> QED BY <2>2, <2>3 DEF WholeInv
<1>3. ASSUME NEW made \in SUBSET SitePolls
      PROVE  WholeInv([s EXCEPT !.polls = made]) /\ [s EXCEPT !.polls = made].path = s.path
  <2> DEFINE t == [s EXCEPT !.polls = made]
  <2>1. /\ t \in SitePages /\ t.inits = s.inits /\ t.path = s.path
      /\ t.section = s.section /\ t.count = s.count /\ t.items = s.items
      /\ t.features = s.features /\ t.live = s.live /\ t.topic = s.topic /\ t.shown = s.shown
      /\ t.current = s.current /\ t.loops = s.loops /\ t.loader = s.loader
    BY <1>1 DEF SitePages
  <2> HIDE DEF t
  <2>2. WholeInv(t)
    BY <1>2, <2>1
  <2> QED BY <2>1, <2>2 DEF t
<1>4. ASSUME NEW made \in SUBSET SiteCalls
      PROVE  WholeInv([s EXCEPT !.calls = made]) /\ [s EXCEPT !.calls = made].path = s.path
  <2> DEFINE t == [s EXCEPT !.calls = made]
  <2>1. /\ t \in SitePages /\ t.inits = s.inits /\ t.path = s.path
      /\ t.section = s.section /\ t.count = s.count /\ t.items = s.items
      /\ t.features = s.features /\ t.live = s.live /\ t.topic = s.topic /\ t.shown = s.shown
      /\ t.current = s.current /\ t.loops = s.loops /\ t.loader = s.loader
    BY <1>1 DEF SitePages
  <2> HIDE DEF t
  <2>2. WholeInv(t)
    BY <1>2, <2>1
  <2> QED BY <2>1, <2>2 DEF t
<1>5. WholeInv([s EXCEPT !.members = TRUE]) /\ [s EXCEPT !.members = TRUE].path = s.path
  <2> DEFINE t == [s EXCEPT !.members = TRUE]
  <2>1. /\ t \in SitePages /\ t.inits = s.inits /\ t.path = s.path
      /\ t.section = s.section /\ t.count = s.count /\ t.items = s.items
      /\ t.features = s.features /\ t.live = s.live /\ t.topic = s.topic /\ t.shown = s.shown
      /\ t.current = s.current /\ t.loops = s.loops /\ t.loader = s.loader
    BY <1>1 DEF SitePages
  <2> HIDE DEF t
  <2>2. WholeInv(t)
    BY <1>2, <2>1
  <2> QED BY <2>1, <2>2 DEF t
<1> QED BY <1>3, <1>4, <1>5

\* initializeApp goes on when one of its loads is there, and enables the polls after both.
LEMMA AfterIsWhole ==
  ASSUME NEW s, WholeInv(s), s.path \in Life!Paths, account \in Somebody,
         NEW i \in s.inits, NEW what \in Loads, what \in i.waits,
         i.at = "loading" \/ "data" \in i.waits \ {what}, what = "data" => s.items
  PROVE  LET t == Life!After(s, i, what) IN WholeInv(t) /\ t.path \in Life!Paths
<1> DEFINE j == [i EXCEPT !.waits = @ \ {what}]
           u == [s EXCEPT !.inits = (@ \ {i}) \cup {j}]
           t == Life!After(s, i, what)
<1>1. s \in SitePages /\ QuietInv(s) /\ InitsInv(s) /\ PollsInv(s) /\ i \in Initializers
  BY DEF WholeInv, QuietInv, SitePages
<1>2. /\ j \in Initializers /\ j.n = i.n /\ j.at = i.at /\ j.waits = i.waits \ {what}
      /\ j.who = i.who
  BY <1>1 DEF Initializers
<1>3. t = IF j.waits = {} THEN Life!Loaded(u, j) ELSE u
  BY DEF Life!After
<1>4. i.at # "polling"
  BY <1>1 DEF InitsInv
<1> HIDE DEF j, t
<1>5. CASE j.waits # {}
  <2>1. j.at = "failed" => "data" \in j.waits
    BY <1>2
  <2>2. "data" \notin j.waits => "data" \notin i.waits \/ s.items
    BY <1>2
  <2>3. WholeInv(u) /\ u.path = s.path
    BY <1>2, <1>4, <1>5, <2>1, <2>2, SwapsAsWhole
  <2> QED BY <1>3, <1>5, <2>3 DEF t
<1>6. CASE j.waits = {}
  <2> DEFINE v == [u EXCEPT !.inits = @ \ {j}]
  <2>1. t = IF j.n # u.section THEN v
            ELSE IF j.who = "nobody" THEN Life!GoTo(v, "login")
            ELSE [Life!Disable(v) EXCEPT !.inits = @ \cup {[j EXCEPT !.at = "polling"]},
                    !.features = @ \cup {j.n}, !.loops = {j.n},
                    !.polls = @ \cup {[n |-> j.n, by |-> "first", as |-> account]}]
    BY <1>3, <1>6 DEF Life!Loaded
  <2>2. j \notin s.inits \ {i}
    BY <1>1, <1>2 DEF InitsInv
  <2>3. /\ u \in SitePages /\ u.section = s.section /\ u.inits = (s.inits \ {i}) \cup {j}
        /\ u.path = s.path /\ u.count = s.count /\ u.items = s.items
        /\ u.features = s.features /\ u.live = s.live /\ u.topic = s.topic /\ u.shown = s.shown
        /\ u.current = s.current /\ u.loops = s.loops /\ u.loader = s.loader
    BY <1>1, <1>2 DEF SitePages
  <2> HIDE DEF u
  <2>4. /\ v \in SitePages /\ v.inits = s.inits \ {i} /\ v.path = s.path
        /\ v.section = s.section /\ v.count = s.count /\ v.items = s.items
        /\ v.features = s.features /\ v.live = s.live /\ v.topic = s.topic /\ v.shown = s.shown
        /\ v.current = s.current /\ v.loops = s.loops /\ v.loader = s.loader
    <3>1. v.inits = u.inits \ {j} /\ v \in SitePages
      BY <2>3 DEF SitePages
    <3>2. v.inits = s.inits \ {i}
      BY <2>2, <2>3, <3>1
    <3> QED BY <2>3, <3>1, <3>2 DEF SitePages
  <2> HIDE DEF v
  <2>5. QuietInv(v)
    <3>1. InitsInv(v)
      BY <1>1, <2>4 DEF InitsInv
    <3> QED BY <1>1, <2>4, <3>1 DEF QuietInv
  <2>6. i.at = "loading" /\ i.n \in 1..s.count /\ s.count \in Nat
    BY <1>1, <1>2, <1>6 DEF InitsInv, SitePages
  <2>7. CASE j.n # u.section
    <3>1. PollsInv(v)
      BY <1>1, <1>2, <2>3, <2>4, <2>7 DEF PollsInv
    <3> QED BY <2>1, <2>4, <2>5, <2>7, <3>1 DEF t, WholeInv
  <2>8. CASE j.n = u.section /\ j.who = "nobody"
    <3>1. t = Life!GoTo(v, "login")
      BY <2>1, <2>8
    <3>2. v.section # 0 /\ "login" \in Life!Paths /\ "login" \notin Life!Section
      BY <1>2, <2>3, <2>4, <2>6, <2>8 DEF Life!Paths, Life!Section
    <3> QED BY <2>5, <3>1, <3>2, GoesAsWhole DEF t
  <2>9. CASE j.n = u.section /\ j.who # "nobody"
    <3> DEFINE d == Life!Disable(v)
               k == [j EXCEPT !.at = "polling"]
               q == [n |-> j.n, by |-> "first", as |-> account]
    <3>1. t = [d EXCEPT !.inits = @ \cup {k}, !.features = @ \cup {j.n}, !.loops = {j.n},
                 !.polls = @ \cup {q}]
      BY <2>1, <2>9
    <3>2. /\ d \in SitePages /\ d.inits = s.inits \ {i} /\ d.path = s.path
          /\ d.section = s.section /\ d.count = s.count /\ d.items = s.items
          /\ d.features = s.features /\ d.live = s.live /\ d.topic = s.topic /\ d.shown = s.shown
          /\ d.current = s.current /\ d.loader = s.loader
      BY <2>4 DEF Life!Disable, SitePages
    <3>3. /\ k \in Initializers /\ k.n = i.n /\ k.at = "polling" /\ k.waits = {}
      BY <1>2, <1>6 DEF Initializers
    <3>4. j.n \in Nat /\ j.n = i.n /\ j.n = s.section /\ q \in SitePolls
      BY <1>2, <2>3, <2>9 DEF Initializers, SitePolls
    <3> HIDE DEF d, k, q
    <3>5. t \in SitePages
      BY <3>1, <3>2, <3>3, <3>4 DEF SitePages
    <3>6. /\ t.inits = (s.inits \ {i}) \cup {k} /\ t.features = s.features \cup {j.n}
          /\ t.loops = {j.n} /\ t.path = s.path
          /\ t.section = s.section /\ t.count = s.count /\ t.items = s.items
          /\ t.live = s.live /\ t.topic = s.topic /\ t.shown = s.shown
          /\ t.current = s.current /\ t.loader = s.loader
      BY <3>1, <3>2 DEF SitePages
    <3>7. s.items
      BY <1>1, <1>2, <1>6, <3>4 DEF InitsInv
    <3>8. InitsInv(t)
      <4>1. ASSUME NEW l \in t.inits
            PROVE  /\ l.n \in 1..t.count
                   /\ l.at = "loading" => l.waits # {}
                   /\ l.at = "polling" => l.waits = {}
                   /\ l.at = "failed" => "data" \in l.waits
                   /\ l.n = t.section /\ "data" \notin l.waits => t.items
        <5>1. CASE l = k
          BY <3>3, <3>6, <3>7, <2>6, <5>1
        <5>2. CASE l \in s.inits
          BY <1>1, <3>6, <3>7, <5>2 DEF InitsInv
        <5> QED BY <3>6, <5>1, <5>2
      <4>2. \A l, m \in t.inits : l.n = m.n => l = m
        BY <1>1, <3>3, <3>6 DEF InitsInv
      <4> QED BY <4>1, <4>2 DEF InitsInv
    <3>9. QuietInv(t)
      BY <1>1, <2>6, <3>4, <3>5, <3>6, <3>8 DEF QuietInv
    <3>10. \A l \in t.inits : l.n = t.section => l = k
      <4>1. \A l \in s.inits : l.n = i.n => l = i
        BY <1>1 DEF InitsInv
      <4>2. t.section = i.n
        BY <3>4, <3>6
      <4> QED BY <3>6, <4>1, <4>2
    <3>11. PollsInv(t)
      <4>1. k \in t.inits /\ k.n = t.section /\ t.section # 0 /\ t.loops = {t.section} /\ t.items
        BY <2>6, <3>3, <3>4, <3>6, <3>7
      <4>2. ~ \E l \in t.inits : l.n = t.section /\ l.at # "polling"
        BY <3>3, <3>10
      <4> QED BY <4>1, <4>2 DEF PollsInv
    <3> QED BY <3>6, <3>9, <3>11 DEF t, WholeInv
  <2> QED BY <2>7, <2>8, <2>9
<1> QED BY <1>5, <1>6

-----------------------------------------------------------------------------
(* The steps of a page.                                                     *)

LifeInv == account \in Somebody /\ WholeInv(site) /\ site.path \in Life!Paths

LEMMA FreshIsQuiet == QuietInv(Life!Fresh) /\ PollsInv(Life!Fresh) /\ Life!Fresh.calls = {}
BY FreshIsAPage DEF QuietInv, SitePages, Life!Fresh, Life!Section, Life!Untold, Somebody

LEMMA LifeInit == Life!Init => LifeInv
<1> SUFFICES ASSUME Life!Init PROVE LifeInv
  OBVIOUS
<1>1. account \in Somebody
  BY DEF Life!Init, Somebody
<1>2. PICK path \in Life!Paths : site = Life!GoTo(Life!Fresh, path)
  BY DEF Life!Init
<1> QED BY <1>1, <1>2, FreshIsQuiet, GoesAsWhole DEF LifeInv

LEMMA VisitKeeps ==
  ASSUME LifeInv, NEW path \in Life!Paths, Life!Visit(path) PROVE LifeInv'
<1>1. QuietInv(site) /\ PollsInv(site) /\ account \in Somebody
  BY DEF LifeInv, WholeInv
<1>2. site' = Life!GoTo(site, path) /\ account' \in Somebody
  BY <1>1 DEF Life!Visit, Somebody
<1>3. WholeInv(Life!GoTo(site, path)) /\ Life!GoTo(site, path).path \in Life!Paths
  BY <1>1, GoesAsWhole
<1> QED BY <1>2, <1>3 DEF LifeInv

LEMMA PageReloadKeeps == ASSUME LifeInv, Life!Reload PROVE LifeInv'
<1>1. site' = Life!GoTo(Life!Fresh, site.path) /\ account' = account
  BY DEF Life!Reload
<1>2. WholeInv(site') /\ site'.path \in Life!Paths
  BY <1>1, FreshIsQuiet, GoesAsWhole DEF LifeInv
<1> QED BY <1>1, <1>2 DEF LifeInv

LEMMA ReturnKeeps ==
  ASSUME LifeInv, NEW who \in Somebody, Life!ReturnFromDiscord(who) PROVE LifeInv'
<1> DEFINE made == {[what |-> "callback", as |-> who]}
           s == Life!GoTo(Life!Fresh, "callback")
<1>1. site' = [s EXCEPT !.calls = made] /\ account' \in Somebody
  BY DEF Life!ReturnFromDiscord, LifeInv
<1>2. "callback" \in Life!Paths
  BY DEF Life!Paths
<1>3. WholeInv(s) /\ s.path \in Life!Paths
  BY <1>2, FreshIsQuiet, GoesAsWhole DEF LifeInv
<1>4. made \in SUBSET SiteCalls
  BY DEF SiteCalls
<1> HIDE DEF s, made
<1> QED BY <1>1, <1>3, <1>4, AsksAsWhole DEF LifeInv

LEMMA WhoKeeps ==
  ASSUME LifeInv, NEW i \in site.inits, NEW ok \in BOOLEAN, Life!WhoAnswers(i, ok)
  PROVE  LifeInv'
<1> DEFINE who == IF ok THEN i.who ELSE "nobody"
           j == [i EXCEPT !.who = who]
           u == [site EXCEPT !.inits = (@ \ {i}) \cup {j}]
           v == Life!SetSession(u, who)
<1>1. WholeInv(site) /\ QuietInv(site) /\ PollsInv(site) /\ InitsInv(site)
      /\ site \in SitePages /\ i \in Initializers /\ account \in Somebody
  BY DEF LifeInv, WholeInv, QuietInv, SitePages
<1>2. "who" \in i.waits /\ site' = Life!After(v, j, "who") /\ account' = account
  BY DEF Life!WhoAnswers, Life!Stay
<1>3. who \in Somebody
  BY <1>1 DEF Somebody, Initializers
<1> HIDE DEF who
<1>4. j \in Initializers /\ j.n = i.n /\ j.at = i.at /\ j.waits = i.waits
  BY <1>1, <1>3 DEF Initializers
<1> HIDE DEF j
<1>5. /\ i.at = "polling" => i.waits = {}
      /\ i.at = "failed" => "data" \in i.waits
      /\ i.at \in {"loading", "polling", "failed"}
  BY <1>1 DEF InitsInv, Initializers
<1>6. WholeInv(u) /\ u.path = site.path /\ u.inits = (site.inits \ {i}) \cup {j}
  BY <1>1, <1>2, <1>4, <1>5, SwapsAsWhole
<1> HIDE DEF u
<1>7. WholeInv(v) /\ v.path \in Life!Paths
  <2>1. "map" \in Life!Paths
    BY DEF Life!Paths, Life!Section
  <2> QED BY <1>3, <1>6, <2>1, SetsAsQuiet DEF WholeInv, LifeInv
<1>8. v.inits = u.inits
  BY DEF Life!SetSession, Life!HearSession
<1> HIDE DEF v
<1>9. j \in v.inits /\ "who" \in j.waits
      /\ (j.at = "loading" \/ "data" \in j.waits \ {"who"})
  BY <1>2, <1>4, <1>5, <1>6, <1>8
<1>10. "who" \in Loads
  BY DEF Loads
<1>11. WholeInv(site') /\ site'.path \in Life!Paths
  BY <1>1, <1>2, <1>7, <1>9, <1>10, AfterIsWhole
<1> QED BY <1>1, <1>2, <1>11 DEF LifeInv

LEMMA DataKeeps ==
  ASSUME LifeInv, NEW i \in site.inits, NEW ok \in BOOLEAN, Life!DataAnswers(i, ok)
  PROVE  LifeInv'
<1>1. WholeInv(site) /\ QuietInv(site) /\ PollsInv(site) /\ InitsInv(site)
      /\ site \in SitePages /\ i \in Initializers /\ account \in Somebody
  BY DEF LifeInv, WholeInv, QuietInv, SitePages
<1>2. "data" \in i.waits /\ i.at = "loading" /\ account' = account
  BY DEF Life!DataAnswers, Life!Stay
<1>3. CASE ok
  <2> DEFINE u == [site EXCEPT !.items = TRUE]
  <2>1. site' = Life!After(u, i, "data")
    BY <1>3 DEF Life!DataAnswers
  <2>2. /\ u \in SitePages /\ u.inits = site.inits /\ u.path = site.path
        /\ u.section = site.section /\ u.count = site.count /\ u.items
        /\ u.features = site.features /\ u.live = site.live /\ u.topic = site.topic
        /\ u.shown = site.shown /\ u.current = site.current /\ u.loops = site.loops
        /\ u.loader = site.loader
    BY <1>1 DEF SitePages
  <2> HIDE DEF u
  <2>3. InitsInv(u)
    BY <1>1, <2>2 DEF InitsInv
  <2>4. QuietInv(u)
    BY <1>1, <2>2, <2>3 DEF QuietInv
  <2>5. PollsInv(u)
    BY <1>1, <2>2 DEF PollsInv
  <2>6. "data" \in Loads /\ u.path \in Life!Paths
    BY <2>2 DEF Loads, LifeInv
  <2>7. WholeInv(site') /\ site'.path \in Life!Paths
    BY <1>1, <1>2, <2>1, <2>2, <2>4, <2>5, <2>6, AfterIsWhole DEF WholeInv
  <2> QED BY <1>1, <1>2, <2>7 DEF LifeInv
<1>4. CASE ~ok
  <2> DEFINE j == [i EXCEPT !.at = "failed"]
  <2>1. site' = [site EXCEPT !.inits = (@ \ {i}) \cup {j}]
    BY <1>4 DEF Life!DataAnswers
  <2>2. j \in Initializers /\ j.n = i.n /\ j.at = "failed" /\ j.waits = i.waits
    BY <1>1 DEF Initializers
  <2> HIDE DEF j
  <2>3. WholeInv(site') /\ site'.path = site.path
    BY <1>1, <1>2, <2>1, <2>2, SwapsAsWhole
  <2> QED BY <1>1, <1>2, <2>3 DEF LifeInv
<1> QED BY <1>3, <1>4

LEMMA FeaturesKeep ==
  ASSUME LifeInv, NEW n \in site.features, NEW history \in BOOLEAN,
         Life!FeaturesAnswer(n, history)
  PROVE  LifeInv'
<1> DEFINE on == site.live \/ (history /\ n = site.section)
<1>1. WholeInv(site) /\ QuietInv(site) /\ PollsInv(site) /\ InitsInv(site)
      /\ site \in SitePages /\ account \in Somebody
  BY DEF LifeInv, WholeInv, QuietInv
<1>2. n \in 1..site.count /\ site.count \in Nat
  BY <1>1 DEF QuietInv, SitePages
<1>3. on \in BOOLEAN /\ (on => site.section # 0)
  BY <1>1, <1>2 DEF QuietInv, SitePages
<1>4. site' = [site EXCEPT !.features = site.features \ {n}, !.live = on] /\ account' = account
  BY DEF Life!FeaturesAnswer, Life!Stay
<1> HIDE DEF on
<1>5. /\ site' \in SitePages /\ site'.inits = site.inits /\ site'.path = site.path
      /\ site'.section = site.section /\ site'.count = site.count /\ site'.items = site.items
      /\ site'.features = site.features \ {n} /\ site'.live = on /\ site'.topic = site.topic
      /\ site'.shown = site.shown /\ site'.current = site.current /\ site'.loops = site.loops
      /\ site'.loader = site.loader
  BY <1>1, <1>3, <1>4 DEF SitePages
<1>6. InitsInv(site')
  BY <1>1, <1>5 DEF InitsInv
<1>7. QuietInv(site')
  BY <1>1, <1>3, <1>5, <1>6 DEF QuietInv
<1>8. PollsInv(site')
  BY <1>1, <1>5 DEF PollsInv
<1> QED BY <1>4, <1>5, <1>7, <1>8 DEF LifeInv, WholeInv

LEMMA PollKeeps ==
  ASSUME LifeInv, NEW n \in site.loops, Life!Poll(n)
  PROVE  LifeInv'
<1> DEFINE q == [n |-> n, by |-> "interval", as |-> account]
           made == site.polls \cup {q}
<1>1. WholeInv(site) /\ site \in SitePages /\ account \in Somebody
  BY DEF LifeInv, WholeInv, QuietInv
<1>2. q \in SitePolls
  BY <1>1 DEF SitePolls, SitePages
<1>3. made \in SUBSET SitePolls
  BY <1>1, <1>2 DEF SitePages
<1>4. site' = [site EXCEPT !.polls = made] /\ account' = account
  BY DEF Life!Poll, Life!Stay
<1> HIDE DEF made
<1> QED BY <1>1, <1>3, <1>4, AsksAsWhole DEF LifeInv

LEMMA FailKeeps ==
  ASSUME LifeInv, NEW q \in site.polls, Life!PollFails(q)
  PROVE  LifeInv'
<1> DEFINE made == site.polls \ {q}
<1>1. WholeInv(site) /\ site \in SitePages /\ account \in Somebody
  BY DEF LifeInv, WholeInv, QuietInv
<1>2. made \in SUBSET SitePolls
  BY <1>1 DEF SitePages
<1>3. site' = [site EXCEPT !.polls = made] /\ account' = account
  BY DEF Life!PollFails, Life!Stay
<1> HIDE DEF made
<1> QED BY <1>1, <1>2, <1>3, AsksAsWhole DEF LifeInv

\* The page that stops polling and leaves for one outside the section.
LEMMA StopsAsWhole ==
  ASSUME NEW s, QuietInv(s), PollsInv(s), account \in Somebody,
         NEW path \in Life!Paths \ Life!Section
  PROVE  LET t == Life!GoTo(Life!Disable(s), path)
         IN  WholeInv(t) /\ t.path \in Life!Paths
<1> DEFINE d == Life!Disable(s)
<1>1. /\ QuietInv(d) /\ d.section = s.section
      /\ s.section = 0 => d.loops = {} /\ d.loader = s.loader /\ d.inits = s.inits
  BY DisablesAsQuiet
<1> HIDE DEF d
<1>2. CASE s.section = 0
  <2>1. PollsInv(d)
    BY <1>1, <1>2 DEF PollsInv
  <2> QED BY <1>1, <2>1, GoesAsWhole DEF d
<1>3. CASE s.section # 0
  BY <1>1, <1>3, GoesAsWhole DEF d
<1> QED BY <1>2, <1>3

LEMMA AnswersKeep ==
  ASSUME LifeInv, NEW q \in site.polls, Life!PollAnswers(q)
  PROVE  LifeInv'
<1> DEFINE made == site.polls \ {q}
           s == [site EXCEPT !.polls = made]
<1>1. WholeInv(site) /\ site \in SitePages /\ account \in Somebody
  BY DEF LifeInv, WholeInv, QuietInv
<1>2. made \in SUBSET SitePolls
  BY <1>1 DEF SitePages
<1>3. /\ site' = IF q.as # "nobody" THEN Life!Polled([s EXCEPT !.members = TRUE])
                 ELSE Life!Polled(Life!GoTo(Life!Disable(s), "login"))
      /\ account' = account
  BY DEF Life!PollAnswers, Life!Stay
<1> HIDE DEF made
<1>4. WholeInv(s) /\ s.path = site.path
  BY <1>1, <1>2, AsksAsWhole
<1> HIDE DEF s
<1>5. CASE q.as # "nobody"
  <2> DEFINE u == [s EXCEPT !.members = TRUE]
  <2>1. WholeInv(u) /\ u.path = s.path
    BY <1>4, AsksAsWhole
  <2>2. site' = Life!Polled(u)
    BY <1>3, <1>5
  <2> HIDE DEF u
  <2> QED BY <1>1, <1>3, <1>4, <2>1, <2>2, PolledIsWhole DEF LifeInv
<1>6. CASE q.as = "nobody"
  <2> DEFINE u == Life!GoTo(Life!Disable(s), "login")
  <2>1. "login" \in Life!Paths \ Life!Section
    BY DEF Life!Paths, Life!Section
  <2>2. WholeInv(u) /\ u.path \in Life!Paths
    BY <1>1, <1>4, <2>1, StopsAsWhole DEF WholeInv
  <2>3. site' = Life!Polled(u)
    BY <1>3, <1>6
  <2> HIDE DEF u
  <2> QED BY <1>1, <1>3, <2>2, <2>3, PolledIsWhole DEF LifeInv
<1> QED BY <1>5, <1>6

LEMMA LogoutKeeps ==
  ASSUME LifeInv, NEW call \in site.calls, Life!LogoutAnswers(call)
  PROVE  LifeInv'
<1> DEFINE d == Life!Disable(site)
           made == d.calls \ {call}
           u == [d EXCEPT !.calls = made]
           v == Life!SetSession(u, "nobody")
<1>1. WholeInv(site) /\ QuietInv(site) /\ PollsInv(site) /\ account \in Somebody
  BY DEF LifeInv, WholeInv
<1>2. site' = Life!GoTo(v, "home") /\ account' = account
  BY DEF Life!LogoutAnswers, Life!Stay
<1>3. /\ QuietInv(d) /\ d.section = site.section
      /\ site.section = 0 => d.loops = {} /\ d.loader = site.loader
      /\ d.inits = site.inits
  BY <1>1, DisablesAsQuiet
<1> HIDE DEF d
<1>4. /\ u \in SitePages /\ u.inits = d.inits /\ u.path = d.path
      /\ u.section = d.section /\ u.count = d.count /\ u.items = d.items
      /\ u.features = d.features /\ u.live = d.live /\ u.topic = d.topic
      /\ u.shown = d.shown /\ u.current = d.current /\ u.loops = d.loops
      /\ u.loader = d.loader
  BY <1>3 DEF QuietInv, SitePages
<1> HIDE DEF u
<1>5. QuietInv(u) /\ (site.section = 0 => PollsInv(u))
  <2>1. QuietInv(u)
    BY <1>3, <1>4 DEF QuietInv, InitsInv
  <2>2. site.section = 0 => PollsInv(u)
    BY <1>1, <1>3, <1>4 DEF PollsInv
  <2> QED BY <2>1, <2>2
<1>6. QuietInv(v) /\ (site.section = 0 => PollsInv(v)) /\ v.section = site.section
  BY <1>3, <1>4, <1>5, SetsAsQuiet DEF Somebody
<1> HIDE DEF v
<1>7. "home" \in Life!Paths /\ "home" \notin Life!Section
  BY DEF Life!Paths, Life!Section
<1>8. WholeInv(site') /\ site'.path \in Life!Paths
  BY <1>1, <1>2, <1>6, <1>7, GoesAsWhole
<1> QED BY <1>1, <1>2, <1>8 DEF LifeInv

LEMMA CallbackKeeps ==
  ASSUME LifeInv, NEW call \in site.calls, Life!CallbackAnswers(call)
  PROVE  LifeInv'
<1> DEFINE made == site.calls \ {call}
           s == [site EXCEPT !.calls = made]
           v == Life!SetSession(s, call.as)
<1>1. WholeInv(site) /\ site \in SitePages /\ account \in Somebody /\ call \in SiteCalls
  BY DEF LifeInv, WholeInv, QuietInv, SitePages
<1>2. made \in SUBSET SiteCalls
  BY <1>1 DEF SitePages
<1>3. /\ site' = IF call.as = "nobody" THEN s ELSE Life!GoTo(v, "map")
      /\ account' = account
  BY DEF Life!CallbackAnswers, Life!Stay
<1> HIDE DEF made
<1>4. WholeInv(s) /\ s.path = site.path
  BY <1>1, <1>2, AsksAsWhole
<1> HIDE DEF s
<1>5. CASE call.as = "nobody"
  BY <1>1, <1>3, <1>4, <1>5 DEF LifeInv
<1>6. CASE call.as # "nobody"
  <2>1. QuietInv(v) /\ PollsInv(v)
    BY <1>1, <1>4, SetsAsQuiet DEF WholeInv, SiteCalls
  <2> HIDE DEF v
  <2>2. "map" \in Life!Paths
    BY DEF Life!Paths, Life!Section
  <2>3. WholeInv(site') /\ site'.path \in Life!Paths
    BY <1>1, <1>3, <1>6, <2>1, <2>2, GoesAsWhole
  <2> QED BY <1>1, <1>3, <2>3 DEF LifeInv
<1> QED BY <1>5, <1>6

LEMMA LifeNext == ASSUME LifeInv, Life!Next PROVE LifeInv'
<1>1. ASSUME NEW path \in Life!Paths \ {"callback"}, Life!Visit(path) PROVE LifeInv'
  BY <1>1, VisitKeeps
<1>2. CASE Life!Reload
  BY <1>2, PageReloadKeeps
<1>3. CASE Life!SessionEnds
  BY <1>3 DEF Life!SessionEnds, LifeInv, Somebody
<1>4. ASSUME NEW who \in LifeUsers \cup {"nobody"}, Life!ReturnFromDiscord(who) PROVE LifeInv'
  BY <1>4, ReturnKeeps DEF Somebody
<1>5. ASSUME NEW i \in site.inits, NEW ok \in BOOLEAN,
             Life!WhoAnswers(i, ok) \/ Life!DataAnswers(i, ok)
      PROVE  LifeInv'
  BY <1>5, WhoKeeps, DataKeeps
<1>6. ASSUME NEW n \in site.features, NEW history \in BOOLEAN, Life!FeaturesAnswer(n, history)
      PROVE  LifeInv'
  BY <1>6, FeaturesKeep
<1>7. ASSUME NEW n \in site.loops, Life!Poll(n) PROVE LifeInv'
  BY <1>7, PollKeeps
<1>8. ASSUME NEW q \in site.polls, Life!PollAnswers(q) \/ Life!PollFails(q) PROVE LifeInv'
  BY <1>8, AnswersKeep, FailKeeps
<1>9. ASSUME NEW call \in site.calls, Life!LogoutAnswers(call) \/ Life!CallbackAnswers(call)
      PROVE  LifeInv'
  BY <1>9, LogoutKeeps, CallbackKeeps
<1> QED BY <1>1, <1>2, <1>3, <1>4, <1>5, <1>6, <1>7, <1>8, <1>9 DEF Life!Next

LEMMA LifeInvHolds == LifeInv => Life!LifeHolds
<1> SUFFICES ASSUME LifeInv PROVE Life!LifeHolds
  OBVIOUS
<1>1. /\ site \in SitePages /\ InitsInv(site) /\ QuietInv(site) /\ PollsInv(site)
      /\ account \in Somebody /\ site.path \in Life!Paths
  BY DEF LifeInv, WholeInv, QuietInv
<1>2. /\ site.count \in Nat /\ site.section \in 0..site.count
      /\ site.current \in Somebody /\ site.topic \in Somebody \cup {Life!Untold}
  BY <1>1 DEF QuietInv, SitePages
<1>3. site.loops \subseteq 1..site.count
  BY <1>1, <1>2 DEF PollsInv
<1>4. Life!TypeOK
  BY <1>1, <1>2, <1>3 DEF Life!TypeOK, Somebody
<1>5. Life!SectionPolls
  <2> DEFINE busy == {i.n : i \in {j \in site.inits : j.at # "polling"}}
  <2>1. site.section \in busy <=> \E i \in site.inits : i.n = site.section /\ i.at # "polling"
    OBVIOUS
  <2>2. site.loops = IF site.section = 0 \/ site.section \in busy THEN {} ELSE {site.section}
    BY <1>1, <2>1 DEF PollsInv
  <2> HIDE DEF busy
  <2>3. /\ site.section # 0 <=> site.path \in Life!Section
        /\ site.live => site.section # 0
        /\ site.loops # {} => site.items
    BY <1>1 DEF QuietInv, PollsInv
  <2> QED BY <2>2, <2>3 DEF Life!SectionPolls, busy
<1>6. Life!LoaderGoes
  BY <1>1 DEF Life!LoaderGoes, PollsInv
<1>7. Life!AdminsOnly
  BY <1>1 DEF Life!AdminsOnly, QuietInv
<1> QED BY <1>4, <1>5, <1>6, <1>7 DEF Life!LifeHolds

-----------------------------------------------------------------------------
\* However late answers arrive, and to whatever page: a page polls exactly while a section
\* that has loaded is on it, once, for that section; its loading screen goes with the section
\* or with what it waits for; and what the admin page shows is shown to whom the page takes
\* for an admin, or took until the session ended (app-initializer.js, api.js, session.js,
\* admin-portal.js).
THEOREM PagesAreWhole == MCSpec => []LifeHolds
<1> DEFINE IInv == part = "life" => LifeInv
<1>1. MCInit => IInv
  <2> SUFFICES ASSUME MCInit, part = "life" PROVE LifeInv
    OBVIOUS
  <2>1. Life!Init
    BY DEF MCInit
  <2> QED BY <2>1, LifeInit
<1>2. IInv /\ [MCNext]_allVars => IInv'
  <2> SUFFICES ASSUME IInv, [MCNext]_allVars PROVE IInv'
    OBVIOUS
  <2>1. CASE OfLife
    BY <2>1, LifeNext DEF OfLife
  <2>2. CASE UNCHANGED allVars
    BY <2>2 DEF allVars, lifeVars, LifeInv
  <2>3. CASE OfView \/ OfMarkers \/ OfReplay \/ OfTrails
    BY <2>3 DEF OfView, OfMarkers, OfReplay, OfTrails
  <2>4. CASE OfPlayers \/ OfBoards \/ OfHistory
    BY <2>4 DEF OfPlayers, OfBoards, OfHistory
  <2>5. CASE OfGear \/ OfToasts \/ OfSessions
    BY <2>5 DEF OfGear, OfToasts, OfSessions
  <2> QED BY <2>1, <2>2, <2>3, <2>4, <2>5 DEF MCNext
<1>3. IInv => LifeHolds
  BY LifeInvHolds DEF LifeHolds
<1> QED BY <1>1, <1>2, <1>3, PTL DEF MCSpec

-----------------------------------------------------------------------------
(* MapView: the map, the pointer on it, and what it has drawn at rest.      *)

Lefts == 0..Frames
Cameras == [at : Areas, target : Areas, left : Lefts, zoom : Lefts,
            over : BOOLEAN, overTo : BOOLEAN, glide : Lefts]
Followed == [name : Names \cup {NoOne}, spot : Spots \cup {NoSpot}]
Fingers == 0..2
Pointers == [down : Fingers, press : Hits, dragging : BOOLEAN]
Hovers == [hit : Hits, tooltip : BOOLEAN, player : Names \cup {NoOne}, trail : Names \cup {NoOne}]

WorldTypes == where \in [Names -> Spots \cup {NoSpot}] /\ online \subseteq Names /\ event \in BOOLEAN
MapTypes ==
  /\ camera \in Cameras /\ floor \in Floors /\ updateRequested \in BOOLEAN /\ replay \in BOOLEAN
  /\ follow \in Followed /\ (follow.name # NoOne => follow.spot # NoSpot)
  /\ selected \in Names \cup {NoOne}
DrawTypes ==
  /\ markers \in [Names -> Spots \cup {NoSpot}] /\ drawn \subseteq Names /\ data \in BOOLEAN
  /\ tile \in [Tiles -> {"none", "asked", "fading", "shown"}]
  /\ inView \subseteq Tiles /\ (\A t \in inView : tile[t] # "none")
PointerTypes ==
  /\ pointer \in Pointers
  /\ hover \in Hovers

\* Nothing has to be added to what holds of the map: it is inductive.
ViewInv ==
  /\ WorldTypes /\ MapTypes /\ DrawTypes /\ PointerTypes
  /\ HoverAgrees /\ PressOrDrag /\ DragIsTheViewers /\ RestHolds

LEMMA LeftsAre ==
  /\ 0 \in Lefts /\ Frames \in Lefts /\ Frames > 0 /\ Lefts \subseteq Nat
  /\ \A l \in Lefts : l # 0 <=> l > 0
  /\ \A l \in Lefts : l > 0 => l - 1 \in Lefts
BY MapIsWhole DEF Lefts

LEMMA FingersAre ==
  /\ 0 \in Fingers /\ 1 \in Fingers /\ 2 \in Fingers
  /\ \A d \in Fingers : d \in Nat /\ (d > 0 => d - 1 \in Fingers)
BY DEF Fingers

LEMMA CameraMoves ==
  ASSUME NEW cam \in Cameras, NEW area \in Areas, NEW over \in BOOLEAN, NEW time \in Nat
  PROVE  /\ Pan(cam, area) \in Cameras /\ Jump(cam, area) \in Cameras
         /\ Still(cam) \in Cameras /\ NoGlide(cam) \in Cameras
         /\ ZoomOnto(cam, over, time) \in Cameras
<1>1. 0 \in Lefts /\ Frames \in Lefts
  BY LeftsAre
<1>2. /\ Pan(cam, area) \in Cameras /\ Jump(cam, area) \in Cameras
      /\ Still(cam) \in Cameras /\ NoGlide(cam) \in Cameras
  BY <1>1 DEF Cameras, Pan, Jump, Still, NoGlide
<1>3. Jump(cam, cam.target) \in Cameras
  BY <1>1 DEF Cameras, Jump
<1>4. [Jump(cam, cam.target) EXCEPT !.zoom = 0, !.over = over, !.overTo = over, !.glide = 0] \in Cameras
  BY <1>1, <1>3 DEF Cameras
<1>5. [cam EXCEPT !.left = Frames, !.zoom = Frames, !.overTo = over, !.glide = 0] \in Cameras
  BY <1>1 DEF Cameras
<1> QED BY <1>2, <1>4, <1>5 DEF ZoomOnto

LEMMA SpotsAreSome == NoSpot \notin Spots /\ \A s \in Spots : s.area \in Areas /\ s.floor \in Floors
BY MapIsWhole DEF NoSpot, Spots, Floors

LEMMA HitsAre ==
  /\ NoHit \in Hits
  /\ \A h \in Hits : h.on \in {"players", "trails"} => h.name \in Names
  /\ NoHit.on = "nothing"
BY DEF Hits, NoHit

LEMMA UnderAreHits == ASSUME DrawTypes PROVE Under \subseteq Hits
<1>1. drawn \subseteq Names
  BY DEF DrawTypes
<1>2. PlayersUnder \subseteq Hits
  BY <1>1 DEF PlayersUnder, Hits
<1>3. LinksUnder \subseteq Hits
  BY DEF LinksUnder, Hits
<1> QED BY <1>2, <1>3 DEF Under, Hits

LEMMA HoverFields ==
  ASSUME NEW hit, NEW tooltip \in BOOLEAN, NEW name, NEW trailOf,
         hover' = [hit |-> hit, tooltip |-> tooltip, player |-> name, trail |-> trailOf]
  PROVE  hover'.hit = hit /\ hover'.tooltip = tooltip /\ hover'.player = name /\ hover'.trail = trailOf
OBVIOUS

LEMMA HoverOnAgrees ==
  ASSUME NEW hit \in Hits
  PROVE  HoverOn(hit) \in Hovers /\ (hover' = HoverOn(hit) => HoverAgrees')
<1>1. HoverOn(hit) \in Hovers
  BY HitsAre DEF HoverOn, Hovers
<1>2. hover' = HoverOn(hit) => HoverAgrees'
  <2> SUFFICES ASSUME hover' = HoverOn(hit) PROVE HoverAgrees'
    OBVIOUS
  <2> DEFINE tip == hit # NoHit
  <2>1. hover' = [hit |-> hit, tooltip |-> tip, player |-> IF hit.on = "players" THEN hit.name ELSE NoOne,
                  trail |-> IF hit.on = "trails" THEN hit.name ELSE NoOne]
    BY DEF HoverOn
  <2>2. tip \in BOOLEAN
    OBVIOUS
  <2> HIDE DEF tip
  <2>3. /\ hover'.hit = hit /\ hover'.tooltip = tip
        /\ hover'.player = IF hit.on = "players" THEN hit.name ELSE NoOne
        /\ hover'.trail = IF hit.on = "trails" THEN hit.name ELSE NoOne
    BY <2>1, <2>2, HoverFields
  <2>4. hover'.tooltip <=> hover'.hit # NoHit
    BY <2>3, Zenon DEF tip
  <2> QED BY <2>3, <2>4 DEF HoverAgrees
<1> QED BY <1>1, <1>2

LEMMA NoHoverAgrees == NoHover \in Hovers /\ (hover' = NoHover => HoverAgrees')
BY HitsAre DEF NoHover, Hovers, HoverAgrees

LEMMA ViewIsBegun == Init => ViewInv
<1> SUFFICES ASSUME Init PROVE ViewInv
  OBVIOUS
<1>1. [area |-> FirstArea, floor |-> 0] \in Spots
  BY MapIsWhole DEF Spots, Floors
<1>2. WorldTypes
  BY <1>1 DEF Init, WorldTypes
<1>3. MapTypes
  BY LeftsAre, MapIsWhole DEF Init, MapTypes, Cameras, Followed, Floors
<1>4. DrawTypes
  BY <1>1 DEF Init, DrawTypes
<1>5. PointerTypes /\ PressOrDrag
  BY HitsAre, FingersAre, NoHoverAgrees DEF Init, PointerTypes, Pointers, PressOrDrag
<1>6. HoverAgrees
  BY HitsAre DEF Init, HoverAgrees, NoHover
<1>7. DragIsTheViewers /\ RestHolds
  BY DEF Init, DragIsTheViewers, RestHolds, RestShowsAll, RestFollows, AtRest
<1> QED BY <1>2, <1>3, <1>4, <1>5, <1>6, <1>7 DEF ViewInv

\* What is being asked for a frame has to show nothing yet.
LEMMA AskedIsNotAtRest == updateRequested' = TRUE => RestHolds'
BY DEF RestHolds, RestShowsAll, RestFollows, AtRest

\* The map at rest stays as it is: nothing of it changes.
LEMMA StillAtRest ==
  ASSUME RestHolds, UNCHANGED <<camera, floor, updateRequested, follow, drawVars>>
  PROVE  RestHolds'
BY DEF RestHolds, RestShowsAll, RestFollows, AtRest, InView, LevelOf, HasTile, drawVars

LEMMA KeptTypes ==
  ASSUME ViewInv
  PROVE  /\ UNCHANGED world => WorldTypes'
         /\ UNCHANGED drawVars => DrawTypes'
         /\ UNCHANGED <<pointer, hover>> => PointerTypes'
         /\ UNCHANGED mapVars => MapTypes'
         /\ UNCHANGED hover => HoverAgrees'
         /\ UNCHANGED pointer => PressOrDrag'
BY DEF ViewInv, world, drawVars, mapVars, WorldTypes, DrawTypes, PointerTypes, MapTypes, HoverAgrees,
   PressOrDrag

\* What is done while the map is not being dragged.
LEMMA NotDragged ==
  ASSUME ViewInv, UNCHANGED pointer, pointer.down = 0
  PROVE  DragIsTheViewers'
BY DEF ViewInv, PressOrDrag, DragIsTheViewers

LEMMA FocusKeeps ==
  ASSUME ViewInv, NEW spot \in Spots, Focus(spot), UNCHANGED replay, selected' \in Names \cup {NoOne}
  PROVE  MapTypes' /\ RestHolds'
<1>1. spot.area \in Areas /\ spot.floor \in Floors
  BY SpotsAreSome
<1>2. camera \in Cameras
  BY DEF ViewInv, MapTypes
<1>3. camera' \in Cameras
  <2>1. Pan(camera, spot.area) \in Cameras
    BY <1>1, <1>2, CameraMoves
  <2> QED BY <1>1, <2>1, CameraMoves DEF Focus
<1>4. follow' \in Followed /\ follow'.name = NoOne
  BY DEF ViewInv, MapTypes, Followed, Focus, Unfollowed
<1> QED BY <1>1, <1>3, <1>4, AskedIsNotAtRest DEF ViewInv, MapTypes, Focus

LEMMA FollowsKeeps ==
  ASSUME ViewInv, NEW n \in Names \cup {NoOne}, follow' = Follows(n)
  PROVE  follow' \in Followed /\ (follow'.name # NoOne => follow'.spot # NoSpot)
BY DEF ViewInv, MapTypes, DrawTypes, Followed, Follows

-----------------------------------------------------------------------------
LEMMA TileLoadsKeeps == ASSUME ViewInv, NEW t \in Tiles, TileLoads(t) PROVE ViewInv'
<1>1. DrawTypes'
  BY DEF ViewInv, DrawTypes, TileLoads
<1>2. MapTypes' /\ DragIsTheViewers'
  BY DEF ViewInv, MapTypes, DragIsTheViewers, TileLoads
<1>3. WorldTypes' /\ PointerTypes' /\ HoverAgrees' /\ PressOrDrag'
  BY KeptTypes DEF TileLoads
<1> QED BY <1>1, <1>2, <1>3, AskedIsNotAtRest DEF ViewInv, TileLoads

LEMMA DataArrivesKeeps == ASSUME ViewInv, DataArrives PROVE ViewInv'
<1>1. DrawTypes'
  BY DEF ViewInv, DrawTypes, DataArrives
<1>2. MapTypes' /\ DragIsTheViewers'
  BY DEF ViewInv, MapTypes, DragIsTheViewers, DataArrives
<1>3. WorldTypes' /\ PointerTypes' /\ HoverAgrees' /\ PressOrDrag'
  BY KeptTypes DEF DataArrives
<1> QED BY <1>1, <1>2, <1>3, AskedIsNotAtRest DEF ViewInv, DataArrives

LEMMA MovesKeeps ==
  ASSUME ViewInv, NEW n \in Names, NEW spot \in Spots \cup {NoSpot}, Moves(n, spot)
  PROVE  ViewInv'
<1>1. WorldTypes' /\ DrawTypes'
  BY DEF ViewInv, WorldTypes, DrawTypes, Moves
<1>2. follow' \in Followed /\ (follow'.name # NoOne => follow'.spot # NoSpot) /\ follow'.name \in {follow.name, NoOne}
  BY DEF ViewInv, MapTypes, Followed, Moves, Unfollowed
<1>3. updateRequested' \in BOOLEAN
  BY DEF ViewInv, MapTypes, Moves
<1>4. MapTypes' /\ DragIsTheViewers'
  BY <1>2, <1>3 DEF ViewInv, MapTypes, DragIsTheViewers, Moves
<1>5. PointerTypes' /\ HoverAgrees' /\ PressOrDrag'
  BY KeptTypes DEF Moves
<1>6. ASSUME ~updateRequested' PROVE RestShowsAll' /\ RestFollows'
  <2>1. n \in online /\ ~updateRequested /\ ~InView(spot) /\ markers' = [markers EXCEPT ![n] = spot]
    BY <1>6 DEF Moves, NeedsFrame
  <2>2. UNCHANGED <<camera, floor, drawn, data, tile>>
    BY DEF Moves
  <2>3. \A m \in Names : InView(markers'[m]) => m # n /\ InView(markers[m])
    BY <2>1, <2>2 DEF InView, ViewInv, DrawTypes
  <2>4. RestShowsAll'
    BY <2>1, <2>2, <2>3 DEF ViewInv, RestHolds, RestShowsAll, AtRest, LevelOf, HasTile, InView
  <2>5. follow'.name # NoOne /\ InView(follow'.spot) => follow' = follow
    BY <1>6, <2>1, <2>2 DEF Moves, InView, ViewInv, MapTypes, Followed, Unfollowed
  <2>6. RestFollows'
    BY <2>1, <2>2, <2>5 DEF ViewInv, RestHolds, RestFollows, AtRest, InView
  <2> QED BY <2>4, <2>6
<1>7. RestHolds'
  BY <1>6, AskedIsNotAtRest DEF RestHolds, RestShowsAll, RestFollows, AtRest
<1> QED BY <1>1, <1>4, <1>5, <1>7 DEF ViewInv

LEMMA PresenceKeeps == ASSUME ViewInv, NEW n \in Names, Presence(n) PROVE ViewInv'
<1>1. markers' \in [Names -> Spots \cup {NoSpot}]
  BY DEF ViewInv, WorldTypes, Presence
<1>2. WorldTypes' /\ DrawTypes'
  BY <1>1 DEF ViewInv, WorldTypes, DrawTypes, Presence
<1>3. follow' \in Followed /\ (follow'.name # NoOne => follow'.spot # NoSpot) /\ follow'.name = follow.name
  BY <1>1 DEF ViewInv, MapTypes, Followed, Presence
<1>4. updateRequested' \in BOOLEAN
  BY DEF ViewInv, MapTypes, Presence
<1>5. MapTypes' /\ DragIsTheViewers'
  BY <1>3, <1>4 DEF ViewInv, MapTypes, DragIsTheViewers, Presence
<1>6. PointerTypes' /\ HoverAgrees' /\ PressOrDrag'
  BY KeptTypes DEF Presence
<1>7. ASSUME ~updateRequested' PROVE RestShowsAll' /\ RestFollows'
  <2>1. ~updateRequested /\ \A m \in Names : ~InView(markers'[m])
    BY <1>7 DEF Presence, NeedsFrame
  <2>2. UNCHANGED <<camera, floor, drawn, data, tile>>
    BY DEF Presence
  <2>3. RestShowsAll'
    BY <2>1, <2>2 DEF ViewInv, RestHolds, RestShowsAll, AtRest, LevelOf, HasTile, InView
  <2>4. follow'.name # NoOne /\ InView(follow'.spot) => follow' = follow
    BY <2>1 DEF Presence, ViewInv, MapTypes, Followed
  <2>5. RestFollows'
    BY <2>1, <2>2, <2>4 DEF ViewInv, RestHolds, RestFollows, AtRest, InView
  <2> QED BY <2>3, <2>5
<1>8. RestHolds'
  BY <1>7, AskedIsNotAtRest DEF RestHolds, RestShowsAll, RestFollows, AtRest
<1> QED BY <1>2, <1>5, <1>6, <1>8 DEF ViewInv

LEMMA EventChangesKeeps == ASSUME ViewInv, EventChanges PROVE ViewInv'
<1>1. WorldTypes'
  BY DEF ViewInv, WorldTypes, EventChanges
<1>2. MapTypes' /\ DragIsTheViewers'
  BY DEF ViewInv, MapTypes, DragIsTheViewers, EventChanges
<1>3. DrawTypes' /\ PointerTypes' /\ HoverAgrees' /\ PressOrDrag'
  BY KeptTypes DEF EventChanges
<1> QED BY <1>1, <1>2, <1>3, AskedIsNotAtRest DEF ViewInv, EventChanges

LEMMA TrailChangesKeeps == ASSUME ViewInv, NEW n \in Names, TrailChanges(n) PROVE ViewInv'
<1>1. hover' \in Hovers /\ HoverAgrees'
  BY NoHoverAgrees, KeptTypes DEF ViewInv, PointerTypes, TrailChanges, HoverWithout
<1>2. MapTypes' /\ DragIsTheViewers'
  BY DEF ViewInv, MapTypes, DragIsTheViewers, TrailChanges
<1>3. PointerTypes'
  BY <1>1 DEF ViewInv, PointerTypes, TrailChanges
<1>4. WorldTypes' /\ DrawTypes' /\ PressOrDrag'
  BY KeptTypes DEF TrailChanges
<1> QED BY <1>1, <1>2, <1>3, <1>4, AskedIsNotAtRest DEF ViewInv, TrailChanges

-----------------------------------------------------------------------------
LEMMA DownKeeps ==
  ASSUME ViewInv, NEW hit \in Clickable \cup {NoHit}, NEW finger \in BOOLEAN, Down(hit, finger)
  PROVE  ViewInv'
<1>1. WorldTypes' /\ DrawTypes'
  BY KeptTypes DEF Down
<1>2. hit \in Hits /\ NoHit \in Hits
  BY HitsAre, UnderAreHits DEF ViewInv, Clickable
<1>3. pointer \in Pointers /\ pointer.down = 0 /\ ~pointer.dragging
  BY DEF ViewInv, PointerTypes, PressOrDrag, Down
<1>4. CASE hit # NoHit \/ finger
  <2>1. UNCHANGED <<mapVars, hover>>
    BY <1>4 DEF Down
  <2>2. pointer' \in Pointers /\ pointer'.down = 1 /\ ~pointer'.dragging
    <3>1. CASE hit # NoHit
      <4>1. pointer.dragging = FALSE
        BY <1>3 DEF Pointers
      <4>2. pointer' = [down |-> 1, press |-> hit, dragging |-> FALSE]
        BY <3>1, <4>1 DEF Down
      <4> QED BY <1>2, <4>2, FingersAre DEF Pointers
    <3>2. CASE hit = NoHit
      <4>1. pointer' = [pointer EXCEPT !.down = 1, !.press = NoHit]
        BY <1>4, <3>2 DEF Down
      <4> QED BY <1>2, <1>3, <4>1, FingersAre DEF Pointers
    <3> QED BY <3>1, <3>2
  <2>3. MapTypes' /\ HoverAgrees'
    BY <2>1, KeptTypes
  <2>4. PointerTypes' /\ PressOrDrag' /\ DragIsTheViewers'
    BY <2>1, <2>2 DEF ViewInv, PointerTypes, PressOrDrag, DragIsTheViewers
  <2>5. RestHolds'
    BY <2>1, StillAtRest DEF ViewInv, Down, mapVars
  <2> QED BY <1>1, <2>3, <2>4, <2>5 DEF ViewInv
<1>5. CASE hit = NoHit /\ ~finger
  <2>1. /\ pointer' = [down |-> 1, press |-> NoHit, dragging |-> TRUE]
        /\ camera' = Still(camera) /\ follow' = Unfollowed(follow) /\ replay' = FALSE
        /\ hover' = NoHover /\ updateRequested' = TRUE /\ UNCHANGED <<floor, selected>>
    BY <1>5 DEF Down, DragLetsGo
  <2>2. camera' \in Cameras
    BY <2>1, CameraMoves, MapIsWhole DEF ViewInv, MapTypes
  <2>3. follow' \in Followed /\ follow'.name = NoOne
    BY <2>1 DEF ViewInv, MapTypes, Followed, Unfollowed
  <2>4. camera'.left = 0 /\ camera'.zoom = 0
    BY <2>1 DEF ViewInv, MapTypes, Cameras, Still
  <2>5. MapTypes'
    BY <2>1, <2>2, <2>3 DEF ViewInv, MapTypes
  <2>6. PointerTypes' /\ HoverAgrees'
    BY <1>2, <2>1, FingersAre, NoHoverAgrees DEF PointerTypes, Pointers
  <2>7. PressOrDrag' /\ DragIsTheViewers'
    BY <2>1, <2>3, <2>4 DEF PressOrDrag, DragIsTheViewers
  <2> QED BY <1>1, <2>1, <2>5, <2>6, <2>7, AskedIsNotAtRest DEF ViewInv
<1> QED BY <1>4, <1>5

LEMMA SecondFingerKeeps == ASSUME ViewInv, SecondFinger PROVE ViewInv'
<1>1. WorldTypes' /\ DrawTypes' /\ MapTypes' /\ HoverAgrees'
  BY KeptTypes DEF SecondFinger
<1>2. PointerTypes' /\ PressOrDrag' /\ DragIsTheViewers'
  <2>1. /\ pointer' \in Pointers /\ pointer'.down = 2 /\ pointer'.press = NoHit
        /\ pointer'.dragging <=> pointer.dragging
    <3>1. pointer \in Pointers /\ pointer' = [pointer EXCEPT !.down = 2, !.press = NoHit]
      BY DEF SecondFinger, ViewInv, PointerTypes
    <3> QED BY <3>1, HitsAre, FingersAre DEF Pointers
  <2> QED BY <2>1 DEF SecondFinger, ViewInv, PointerTypes, PressOrDrag, DragIsTheViewers, mapVars
<1>3. RestHolds'
  BY StillAtRest DEF SecondFinger, ViewInv, mapVars
<1> QED BY <1>1, <1>2, <1>3 DEF ViewInv

LEMMA DragKeeps == ASSUME ViewInv, NEW to \in Areas, Drag(to) PROVE ViewInv'
<1> DEFINE cam == IF pointer.dragging THEN camera ELSE Still(camera)
<1>1. WorldTypes' /\ DrawTypes' /\ UNCHANGED <<selected, floor>> /\ updateRequested' = TRUE
  BY KeptTypes DEF Drag, Untouched, drawVars, world
<1>2. cam \in Cameras /\ cam.zoom = 0
  <2>1. CASE pointer.dragging
    BY <2>1 DEF ViewInv, MapTypes, DragIsTheViewers
  <2>2. CASE ~pointer.dragging
    <3>1. Still(camera) \in Cameras
      BY CameraMoves, MapIsWhole DEF ViewInv, MapTypes
    <3>2. Still(camera).zoom = 0
      BY DEF ViewInv, MapTypes, Cameras, Still
    <3> QED BY <2>2, <3>1, <3>2
  <2> QED BY <2>1, <2>2
<1>3. camera' = [Jump(cam, to) EXCEPT !.glide = Frames]
  BY DEF Drag
<1> HIDE DEF cam
<1>4. camera' \in Cameras /\ camera'.left = 0 /\ camera'.zoom = 0
  <2>1. Jump(cam, to) \in Cameras /\ Jump(cam, to).left = 0 /\ Jump(cam, to).zoom = 0
    BY <1>2, LeftsAre DEF Jump, Cameras
  <2> QED BY <1>3, <2>1, LeftsAre DEF Cameras
<1>5. follow' \in Followed /\ follow'.name = NoOne /\ replay' = FALSE
  BY DEF Drag, DragLetsGo, Unfollowed, ViewInv, MapTypes, Followed, DragIsTheViewers
<1>6. hover' \in Hovers /\ HoverAgrees'
  BY NoHoverAgrees, KeptTypes DEF Drag, ViewInv, PointerTypes
<1>7. pointer' = [down |-> 1, press |-> NoHit, dragging |-> TRUE]
  BY DEF Drag
<1>8. PointerTypes' /\ PressOrDrag' /\ DragIsTheViewers'
  BY <1>4, <1>5, <1>6, <1>7, HitsAre, FingersAre DEF PointerTypes, Pointers, PressOrDrag, DragIsTheViewers
<1>9. MapTypes'
  BY <1>1, <1>4, <1>5 DEF ViewInv, MapTypes
<1> QED BY <1>1, <1>6, <1>8, <1>9, AskedIsNotAtRest DEF ViewInv

LEMMA PinchKeeps == ASSUME ViewInv, NEW over \in BOOLEAN, Pinch(over) PROVE ViewInv'
<1>1. WorldTypes' /\ DrawTypes' /\ HoverAgrees'
  BY KeptTypes DEF Pinch
<1>2. camera' \in Cameras
  BY CameraMoves, MapIsWhole DEF Pinch, ViewInv, MapTypes
<1>3. MapTypes'
  BY <1>2 DEF Pinch, ViewInv, MapTypes
<1>4. PointerTypes' /\ PressOrDrag' /\ DragIsTheViewers'
  BY DEF Pinch, ViewInv, PointerTypes, Pointers, PressOrDrag, DragIsTheViewers
<1> QED BY <1>1, <1>3, <1>4, AskedIsNotAtRest DEF ViewInv, Pinch

LEMMA HoverKeeps == ASSUME ViewInv, NEW hit \in Under, Hover(hit) PROVE ViewInv'
<1>1. WorldTypes' /\ DrawTypes' /\ PressOrDrag'
  BY KeptTypes DEF Hover
<1>2. hover' \in Hovers /\ HoverAgrees'
  BY UnderAreHits, HoverOnAgrees DEF ViewInv, Hover
<1>3. MapTypes' /\ PointerTypes'
  BY <1>2 DEF Hover, ViewInv, MapTypes, PointerTypes
<1>4. DragIsTheViewers'
  BY NotDragged DEF Hover
<1> QED BY <1>1, <1>2, <1>3, <1>4, AskedIsNotAtRest DEF ViewInv, Hover

LEMMA LeaveKeeps == ASSUME ViewInv, Leave PROVE ViewInv'
<1>1. WorldTypes' /\ DrawTypes'
  BY KeptTypes DEF Leave
<1>2. MapTypes'
  BY DEF Leave, ViewInv, MapTypes
<1>3. PointerTypes' /\ HoverAgrees' /\ PressOrDrag' /\ DragIsTheViewers'
  BY NoHoverAgrees, HitsAre, FingersAre DEF Leave, LeavesNothing, PointerTypes, Pointers, PressOrDrag, DragIsTheViewers
<1> QED BY <1>1, <1>2, <1>3, AskedIsNotAtRest DEF ViewInv, Leave

LEMMA ScrollKeeps == ASSUME ViewInv, NEW over \in BOOLEAN, Scroll(over) PROVE ViewInv'
<1>1. WorldTypes' /\ DrawTypes' /\ HoverAgrees' /\ PressOrDrag' /\ PointerTypes'
  BY KeptTypes DEF Scroll
<1>2. camera' \in Cameras
  BY CameraMoves, MapIsWhole DEF Scroll, ViewInv, MapTypes
<1>3. MapTypes' /\ DragIsTheViewers'
  BY <1>2, NotDragged DEF Scroll, ViewInv, MapTypes
<1> QED BY <1>1, <1>3, AskedIsNotAtRest DEF ViewInv, Scroll

LEMMA SelectKeeps == ASSUME ViewInv, NEW n \in Names \cup {NoOne}, Select(n) PROVE ViewInv'
<1>1. WorldTypes' /\ DrawTypes' /\ HoverAgrees' /\ PressOrDrag' /\ PointerTypes'
  BY KeptTypes DEF Select
<1>2. MapTypes' /\ DragIsTheViewers'
  BY FollowsKeeps, NotDragged DEF Select, ViewInv, MapTypes
<1> QED BY <1>1, <1>2, AskedIsNotAtRest DEF ViewInv, Select

LEMMA FocusMapKeeps == ASSUME ViewInv, NEW spot \in Spots, FocusMap(spot) PROVE ViewInv'
<1>1. WorldTypes' /\ DrawTypes' /\ HoverAgrees' /\ PressOrDrag' /\ PointerTypes'
  BY KeptTypes DEF FocusMap
<1>2. selected \in Names \cup {NoOne}
  BY DEF ViewInv, MapTypes
<1>3. MapTypes' /\ RestHolds' /\ DragIsTheViewers'
  BY <1>2, FocusKeeps, NotDragged DEF FocusMap
<1> QED BY <1>1, <1>3 DEF ViewInv

LEMMA ReplayMovesKeeps == ASSUME ViewInv, NEW spot \in Spots, ReplayMoves(spot) PROVE ViewInv'
<1>1. WorldTypes' /\ DrawTypes' /\ HoverAgrees' /\ PressOrDrag' /\ PointerTypes'
  BY KeptTypes DEF ReplayMoves
<1>2. selected \in Names \cup {NoOne}
  BY DEF ViewInv, MapTypes
<1>3. MapTypes' /\ RestHolds'
  BY <1>2, FocusKeeps DEF ReplayMoves
<1>4. DragIsTheViewers'
  BY DEF ReplayMoves, ViewInv, DragIsTheViewers
<1> QED BY <1>1, <1>3, <1>4 DEF ViewInv

LEMMA PickFloorKeeps == ASSUME ViewInv, NEW f \in Floors, PickFloor(f) PROVE ViewInv'
<1>1. WorldTypes' /\ DrawTypes' /\ HoverAgrees' /\ PressOrDrag' /\ PointerTypes'
  BY KeptTypes DEF PickFloor
<1>2. MapTypes' /\ DragIsTheViewers'
  BY NotDragged DEF PickFloor, Unfollowed, ViewInv, MapTypes, Followed
<1> QED BY <1>1, <1>2, AskedIsNotAtRest DEF ViewInv, PickFloor

LEMMA ReplayStartsKeeps == ASSUME ViewInv, ReplayStarts PROVE ViewInv'
<1>1. WorldTypes' /\ DrawTypes' /\ HoverAgrees' /\ PressOrDrag' /\ PointerTypes'
  BY KeptTypes DEF ReplayStarts
<1>2. MapTypes' /\ DragIsTheViewers'
  BY NotDragged DEF ReplayStarts, ViewInv, MapTypes
<1>3. RestHolds'
  BY StillAtRest DEF ReplayStarts, ViewInv
<1> QED BY <1>1, <1>2, <1>3 DEF ViewInv

LEMMA ReleaseKeeps == ASSUME ViewInv, NEW stopped \in BOOLEAN, Release(stopped) PROVE ViewInv'
<1>1. WorldTypes' /\ DrawTypes'
  BY KeptTypes DEF Release
<1>2. pointer \in Pointers /\ pointer.down \in Fingers /\ pointer.press \in Hits
  BY DEF ViewInv, PointerTypes, Pointers
<1>3. CASE pointer.press # NoHit
  <2> DEFINE hit == pointer.press
  <2>1. pointer' = [pointer EXCEPT !.down = @ - 1, !.press = NoHit] /\ hover' = NoHover /\ Activate(hit)
    BY <1>3 DEF Release
  <2>2. pointer.down = 1 /\ ~pointer.dragging
    BY <1>2, <1>3 DEF ViewInv, PressOrDrag, Fingers
  <2>3. PointerTypes' /\ PressOrDrag' /\ DragIsTheViewers' /\ HoverAgrees'
    <3>1. pointer'.down = 0 /\ pointer' \in Pointers /\ pointer'.press = NoHit /\ ~pointer'.dragging
      <4>1. pointer' = [pointer EXCEPT !.down = 0, !.press = NoHit]
        BY <2>1, <2>2
      <4> QED BY <1>2, <2>2, <4>1, HitsAre, FingersAre DEF Pointers
    <3> QED BY <2>1, <3>1, NoHoverAgrees DEF PointerTypes, PressOrDrag, DragIsTheViewers
  <2>4. RestHolds'
    BY <2>1, AskedIsNotAtRest DEF Activate
  <2>5. MapTypes'
    <3>1. CASE hit.on = "links" /\ GoThrough
      <4>1. camera' \in Cameras
        <5>1. LinkTo.area \in Areas /\ LinkTo.floor \in Floors
          BY MapIsWhole, SpotsAreSome
        <5>2. Jump(camera, LinkTo.area) \in Cameras
          BY <5>1, CameraMoves DEF ViewInv, MapTypes
        <5> QED BY <3>1, <5>1, <5>2, CameraMoves DEF GoThrough
      <4> QED BY <2>1, <3>1, <4>1, MapIsWhole, SpotsAreSome DEF Activate, GoThrough, Unfollowed, ViewInv,
              MapTypes, Followed
    <3>2. ASSUME NEW n \in Names, GoToPlayer(n) PROVE MapTypes'
      BY <2>1, <3>2, FollowsKeeps DEF Activate, GoToPlayer, ViewInv, MapTypes
    <3>3. CASE hit.on = "cluster" /\ GoToGroup
      <4>1. camera' \in Cameras
        <5>1. camera \in Cameras
          BY DEF ViewInv, MapTypes
        <5>2. \A over \in BOOLEAN : ZoomOnto(camera, over, 300) \in Cameras
          BY <5>1, CameraMoves, MapIsWhole
        <5> QED BY <3>3, <5>2, Zenon DEF GoToGroup
      <4> QED BY <2>1, <3>3, <4>1 DEF Activate, GoToGroup, Unfollowed, ViewInv, MapTypes, Followed
    <3>4. CASE hit.on = "events" /\ GoToEvent
      <4>1. CASE event
        BY <3>4, <4>1, FocusKeeps, MapIsWhole DEF GoToEvent
      <4>2. CASE ~event
        BY <3>2, <3>4, <4>2, MapIsWhole DEF GoToEvent
      <4> QED BY <4>1, <4>2
    <3>5. hit.on = "players" => hit.name \in Names
      BY <1>2, HitsAre
    <3> QED BY <2>1, <3>1, <3>2, <3>3, <3>4, <3>5 DEF Activate
  <2> QED BY <1>1, <2>3, <2>4, <2>5 DEF ViewInv
<1>4. CASE pointer.press = NoHit
  <2>1. /\ pointer' = [pointer EXCEPT !.down = @ - 1, !.dragging = FALSE]
        /\ camera' = IF stopped THEN NoGlide(camera) ELSE camera
        /\ updateRequested' = TRUE /\ UNCHANGED <<hover, floor, follow, replay, selected>>
    BY <1>4 DEF Release
  <2>2. camera' \in Cameras
    BY <2>1, CameraMoves, MapIsWhole DEF ViewInv, MapTypes
  <2>3. MapTypes' /\ HoverAgrees'
    BY <2>1, <2>2, KeptTypes DEF ViewInv, MapTypes
  <2>4. pointer.down > 0
    BY DEF Release
  <2>5. PointerTypes' /\ PressOrDrag' /\ DragIsTheViewers'
    <3>1. pointer.down - 1 \in Fingers
      BY <1>2, <2>4, FingersAre
    <3>2. pointer' \in Pointers /\ pointer'.press = NoHit /\ ~pointer'.dragging
      BY <1>2, <1>4, <2>1, <3>1 DEF Pointers
    <3> QED BY <2>1, <3>2 DEF ViewInv, PointerTypes, PressOrDrag, DragIsTheViewers
  <2> QED BY <1>1, <2>1, <2>3, <2>5, AskedIsNotAtRest DEF ViewInv
<1> QED BY <1>3, <1>4

-----------------------------------------------------------------------------
(* A frame.                                                                 *)

LEMMA GlidedIs ==
  ASSUME ViewInv, NEW to \in Areas, NEW slow \in BOOLEAN
  PROVE  /\ Glided(to, slow) \in Cameras
         /\ pointer.dragging => Glided(to, slow).left = 0 /\ Glided(to, slow).zoom = 0
         /\ ~(camera.glide > 0) => Glided(to, slow) = camera
<1> DEFINE from == IF pointer.dragging THEN camera ELSE Jump(camera, to)
<1>1. camera \in Cameras /\ camera.glide \in Lefts
  BY DEF ViewInv, MapTypes, Cameras
<1>2. from \in Cameras /\ from.glide = camera.glide
  <2>1. Jump(camera, to) \in Cameras
    BY <1>1, CameraMoves
  <2>2. Jump(camera, to).glide = camera.glide
    BY <1>1 DEF Jump, Cameras
  <2> QED BY <1>1, <2>1, <2>2
<1>3. pointer.dragging => from.left = 0 /\ from.zoom = 0
  BY DEF ViewInv, DragIsTheViewers
<1>4. Glided(to, slow) = IF camera.glide > 0 THEN [from EXCEPT !.glide = IF slow THEN @ - 1 ELSE 0] ELSE camera
  BY DEF Glided
<1>5. pointer.dragging => camera.left = 0 /\ camera.zoom = 0
  BY DEF ViewInv, DragIsTheViewers
<1> HIDE DEF from
<1>6. CASE camera.glide > 0
  <2> DEFINE left == IF slow THEN from.glide - 1 ELSE 0
  <2>1. left \in Lefts
    BY <1>1, <1>2, <1>6, LeftsAre
  <2>2. Glided(to, slow) = [from EXCEPT !.glide = left]
    BY <1>4, <1>6
  <2> HIDE DEF left
  <2> QED BY <1>2, <1>3, <1>6, <2>1, <2>2 DEF Cameras
<1>7. CASE ~(camera.glide > 0)
  BY <1>1, <1>4, <1>5, <1>7
<1> QED BY <1>6, <1>7

LEMMA ZoomedIs ==
  ASSUME ViewInv, NEW to \in Areas, NEW slow \in BOOLEAN
  PROVE  /\ Zoomed(Glided(to, slow)) \in Cameras
         /\ pointer.dragging => Zoomed(Glided(to, slow)).left = 0 /\ Zoomed(Glided(to, slow)).zoom = 0
         /\ ~(camera.glide > 0) /\ ~Zooming(Glided(to, slow)) => Zoomed(Glided(to, slow)) = camera
<1> DEFINE from == Glided(to, slow)
<1>1. /\ from \in Cameras /\ (pointer.dragging => from.left = 0 /\ from.zoom = 0)
      /\ ~(camera.glide > 0) => from = camera
  BY GlidedIs
<1>2. /\ Zooming(Glided(to, slow)) <=> from.zoom > 0
      /\ Zoomed(Glided(to, slow)) = IF from.zoom > 0
                            THEN [from EXCEPT !.zoom = @ - 1, !.over = IF from.zoom = 1 THEN from.overTo ELSE @]
                            ELSE from
  BY DEF Zooming, Zoomed
<1> HIDE DEF from
<1>3. CASE from.zoom > 0
  <2> DEFINE zoom == from.zoom - 1
  <2> DEFINE over == IF from.zoom = 1 THEN from.overTo ELSE from.over
  <2>1. zoom \in Lefts /\ over \in BOOLEAN /\ from.zoom # 0
    BY <1>1, <1>3, LeftsAre DEF Cameras
  <2>2. Zoomed(Glided(to, slow)) = [from EXCEPT !.zoom = zoom, !.over = over]
    BY <1>2, <1>3
  <2> HIDE DEF zoom, over
  <2>3. [from EXCEPT !.zoom = zoom, !.over = over] \in Cameras
    BY <1>1, <2>1 DEF Cameras
  <2> QED BY <1>1, <1>2, <1>3, <2>1, <2>2, <2>3
<1>4. CASE ~(from.zoom > 0)
  BY <1>1, <1>2, <1>4
<1> QED BY <1>3, <1>4

LEMMA SentIs ==
  ASSUME ViewInv, NEW to \in Areas, NEW slow \in BOOLEAN
  PROVE  /\ SentOn(Glided(to, slow)) \in Cameras
         /\ pointer.dragging => SentOn(Glided(to, slow)).left = 0 /\ SentOn(Glided(to, slow)).zoom = 0
         /\ SentOn(Glided(to, slow)).left = 0 => SentOn(Glided(to, slow)) = Zoomed(Glided(to, slow))
         /\ SentOn(Glided(to, slow)).left = 0 /\ FollowsOn(Glided(to, slow)) => SentOn(Glided(to, slow)).target = follow.spot.area
         /\ FollowsOn(Glided(to, slow)) => follow.spot \in Spots
<1> DEFINE from == Zoomed(Glided(to, slow))
<1>1. from \in Cameras /\ (pointer.dragging => from.left = 0 /\ from.zoom = 0)
  BY ZoomedIs
<1>2. SentOn(Glided(to, slow)) = IF FollowsOn(Glided(to, slow)) /\ GoesAfter(from) THEN Pan(from, follow.spot.area) ELSE from
  BY DEF SentOn
<1>3. FollowsOn(Glided(to, slow)) => follow.spot \in Spots /\ follow.spot.area \in Areas /\ ~pointer.dragging
  BY SpotsAreSome DEF FollowsOn, ViewInv, MapTypes, Followed, DragIsTheViewers
<1>4. FollowsOn(Glided(to, slow)) => (GoesAfter(from) <=> from.target # follow.spot.area)
  BY DEF FollowsOn, GoesAfter
<1> HIDE DEF from
<1>5. CASE FollowsOn(Glided(to, slow)) /\ GoesAfter(from)
  <2>1. Pan(from, follow.spot.area) \in Cameras
    BY <1>1, <1>3, <1>5, CameraMoves
  <2>2. Pan(from, follow.spot.area).left # 0
    BY <1>1, LeftsAre DEF Pan, Cameras
  <2> QED BY <1>2, <1>3, <1>5, <2>1, <2>2
<1>6. CASE ~(FollowsOn(Glided(to, slow)) /\ GoesAfter(from))
  BY <1>1, <1>2, <1>3, <1>4, <1>6 DEF from
<1> QED BY <1>5, <1>6

LEMMA PannedIs ==
  ASSUME NEW cam \in Cameras
  PROVE  /\ Panned(cam) \in Cameras
         /\ cam.left = 0 => Panned(cam) = cam
<1>1. CASE cam.left > 0
  <2> DEFINE left == cam.left - 1
  <2> DEFINE at == IF cam.left = 1 THEN cam.target ELSE cam.at
  <2>1. left \in Lefts /\ at \in Areas /\ cam.left # 0
    BY <1>1, LeftsAre DEF Cameras
  <2>2. Panned(cam) = [cam EXCEPT !.left = left, !.at = at]
    BY <1>1 DEF Panned
  <2> HIDE DEF left, at
  <2> QED BY <2>1, <2>2 DEF Cameras
<1>2. CASE ~(cam.left > 0)
  BY <1>2 DEF Panned
<1> QED BY <1>1, <1>2

LEMMA FrameKeeps == ASSUME ViewInv, Frame PROVE ViewInv'
<1> PICK to \in Areas, slow \in BOOLEAN, far \in BOOLEAN, cached \in BOOLEAN : FrameGoes(Glided(to, slow), far, cached)
  BY DEF Frame
<1> DEFINE camSent == SentOn(Glided(to, slow))
<1> DEFINE cam == Panned(camSent)
<1> DEFINE newFloor == NewFloor(Glided(to, slow))
<1> DEFINE at == <<newFloor, LevelOf(cam.over, newFloor), cam.at>>
<1> DEFINE load == ~(far /\ ~Zooming(Glided(to, slow)) /\ cam.left > 0)
<1> DEFINE goesOn == camera.glide > 0 \/ Zooming(Glided(to, slow)) \/ Animating(camSent) \/ FadingTiles # {} \/ newFloor # floor
<1>1. UNCHANGED <<world, follow, replay, selected, markers, data, pointer, hover>>
  BY DEF Frame
<1>2. /\ camera' = cam /\ floor' = newFloor /\ DrawTerrain(at, FadedTiles, load, cached)
      /\ drawn' = DrawnAt(cam.at) /\ updateRequested' = goesOn
  BY DEF FrameGoes
<1>3. /\ camSent \in Cameras /\ (pointer.dragging => camSent.left = 0 /\ camSent.zoom = 0)
      /\ camSent.left = 0 => camSent = Zoomed(Glided(to, slow))
      /\ camSent.left = 0 /\ FollowsOn(Glided(to, slow)) => camSent.target = follow.spot.area
      /\ FollowsOn(Glided(to, slow)) => follow.spot \in Spots
  BY SentIs
<1>4. cam \in Cameras /\ (camSent.left = 0 => cam = camSent)
  BY <1>3, PannedIs
<1>5. newFloor \in Floors /\ (FollowsOn(Glided(to, slow)) => newFloor = follow.spot.floor)
  BY <1>3, SpotsAreSome DEF NewFloor, ViewInv, MapTypes
<1>6. at \in Tiles
  BY <1>4, <1>5 DEF Tiles, LevelOf, Levels, Cameras
<1>7. FadedTiles \in [Tiles -> {"none", "asked", "fading", "shown"}] /\ \A t \in Tiles : FadedTiles[t] = "none" => tile[t] = "none"
  BY DEF FadedTiles, ViewInv, DrawTypes
<1>8. goesOn \in BOOLEAN /\ load \in BOOLEAN
  OBVIOUS
<1>9. ~goesOn => /\ FadingTiles = {} /\ newFloor = floor /\ ~Zooming(Glided(to, slow))
                 /\ camSent.left = 0 /\ cam = camera
  <2>1. camSent.left \in Lefts
    BY <1>3 DEF Cameras
  <2> QED BY <1>3, <1>4, <2>1, LeftsAre, ZoomedIs DEF Animating
<1>10. ~goesOn => load
  <2>1. 0 \in Nat /\ ~(0 > 0)
    OBVIOUS
  <2> QED BY <1>4, <1>9, <2>1
<1> HIDE DEF camSent, cam, newFloor, at, load, goesOn
<1>11. WorldTypes' /\ PointerTypes' /\ HoverAgrees' /\ PressOrDrag'
  BY <1>1, KeptTypes
<1>12. MapTypes'
  BY <1>1, <1>2, <1>4, <1>5, <1>8 DEF ViewInv, MapTypes
<1>13. DragIsTheViewers'
  BY <1>1, <1>2, <1>3, <1>4 DEF ViewInv, DragIsTheViewers
<1>14. /\ tile' \in [Tiles -> {"none", "asked", "fading", "shown"}]
       /\ inView' \subseteq Tiles /\ (\A t \in inView' : tile'[t] # "none")
       /\ load /\ HasTile(at) => tile'[at] # "none"
  BY <1>2, <1>6, <1>7 DEF DrawTerrain
<1>15. DrawTypes'
  BY <1>1, <1>2, <1>14 DEF ViewInv, DrawTypes, DrawnAt
<1>16. ASSUME ~goesOn PROVE RestShowsAll' /\ RestFollows'
  <2>1. camera' = camera /\ floor' = floor /\ drawn' = DrawnAt(camera.at) /\ cam = camera /\ newFloor = floor /\ load
    BY <1>2, <1>9, <1>10, <1>16
  <2>2. at = <<floor, LevelOf(camera.over, floor), camera.at>>
    BY <2>1 DEF at
  <2>3. \A n \in Names : InView(markers[n]) => n \in drawn'
    BY <2>1 DEF DrawnAt, InView
  <2>4. HasTile(at) => tile'[at] # "none"
    BY <1>14, <2>1
  <2>5. RestShowsAll'
    BY <1>1, <2>1, <2>2, <2>3, <2>4 DEF RestShowsAll, InView, LevelOf, HasTile
  <2>6. follow.name # NoOne => camera.target = follow.spot.area /\ floor = follow.spot.floor
    BY <1>3, <1>4, <1>5, <1>9, <1>16, <2>1 DEF FollowsOn
  <2>7. RestFollows'
    BY <1>1, <2>1, <2>6 DEF RestFollows, InView
  <2> QED BY <2>5, <2>7
<1>17. RestHolds'
  BY <1>2, <1>8, <1>16 DEF RestHolds, RestShowsAll, RestFollows, AtRest
<1> QED BY <1>11, <1>12, <1>13, <1>15, <1>17 DEF ViewInv

LEMMA ViewNext == ASSUME ViewInv, Next PROVE ViewInv'
<1>1. CASE Frame
  BY <1>1, FrameKeeps
<1>2. CASE ViewerActs
  <2>1. ASSUME NEW hit \in Clickable \cup {NoHit}, NEW finger \in BOOLEAN, Down(hit, finger) PROVE ViewInv'
    BY <2>1, DownKeeps
  <2>2. CASE SecondFinger \/ Leave \/ ReplayStarts
    BY <2>2, SecondFingerKeeps, LeaveKeeps, ReplayStartsKeeps
  <2>3. ASSUME NEW a \in Areas, Drag(a) PROVE ViewInv'
    BY <2>3, DragKeeps
  <2>4. ASSUME NEW over \in BOOLEAN, Pinch(over) \/ Scroll(over) PROVE ViewInv'
    BY <2>4, PinchKeeps, ScrollKeeps
  <2>5. ASSUME NEW hit \in Under, Hover(hit) PROVE ViewInv'
    BY <2>5, HoverKeeps
  <2>6. ASSUME NEW n \in Names \cup {NoOne}, Select(n) PROVE ViewInv'
    BY <2>6, SelectKeeps
  <2>7. ASSUME NEW s \in Spots, FocusMap(s) \/ ReplayMoves(s) PROVE ViewInv'
    BY <2>7, FocusMapKeeps, ReplayMovesKeeps
  <2>8. ASSUME NEW f \in Floors, PickFloor(f) PROVE ViewInv'
    BY <2>8, PickFloorKeeps
  <2> QED BY <1>2, <2>1, <2>2, <2>3, <2>4, <2>5, <2>6, <2>7, <2>8 DEF ViewerActs
<1>3. CASE WorldMoves
  <2>1. ASSUME NEW n \in Names, NEW s \in Spots \cup {NoSpot}, Moves(n, s) PROVE ViewInv'
    BY <2>1, MovesKeeps
  <2>2. ASSUME NEW n \in Names, Presence(n) \/ TrailChanges(n) PROVE ViewInv'
    BY <2>2, PresenceKeeps, TrailChangesKeeps
  <2>3. CASE EventChanges \/ DataArrives
    BY <2>3, EventChangesKeeps, DataArrivesKeeps
  <2>4. ASSUME NEW t \in Tiles, TileLoads(t) PROVE ViewInv'
    BY <2>4, TileLoadsKeeps
  <2> QED BY <1>3, <2>1, <2>2, <2>3, <2>4 DEF WorldMoves
<1>4. ASSUME NEW stopped \in BOOLEAN, Release(stopped) PROVE ViewInv'
  BY <1>4, ReleaseKeeps
<1> QED BY <1>1, <1>2, <1>3, <1>4 DEF Next

LEMMA ViewInvHolds == ViewInv => ViewHolds /\ RestHolds
<1> SUFFICES ASSUME ViewInv PROVE TypeOK
  BY DEF ViewInv, ViewHolds
<1> QED BY DEF ViewInv, WorldTypes, MapTypes, DrawTypes, PointerTypes, Cameras, Lefts, Followed, Pointers, Fingers,
        Hovers, TypeOK

\* Whoever moves, and whatever the viewer does: what the pointer is on is what the layers were
\* told, a press and a drag exclude each other and neither outlasts the pointer, nothing but the
\* viewer moves a map that is dragged; and a map that asks for no frame has drawn the players in
\* view, asked for its terrain, and is where the player it follows is, if it looks there
\* (canvas-map.js _update, requestUpdate).
THEOREM MapAtRestIsDrawn == MCSpec => []ViewIsWhole
<1> DEFINE IInv == part = "view" => ViewInv
<1>1. MCInit => IInv
  BY ViewIsBegun DEF MCInit
<1>2. IInv /\ [MCNext]_allVars => IInv'
  <2> SUFFICES ASSUME IInv, [MCNext]_allVars, part' = "view" PROVE ViewInv'
    OBVIOUS
  <2>1. CASE OfView
    BY <2>1, ViewNext DEF OfView
  <2>2. CASE UNCHANGED allVars
    <3>1. part = "view" /\ UNCHANGED vars
      BY <2>2 DEF allVars
    <3>2. UNCHANGED <<world, mapVars, drawVars, pointer, hover, moves>>
      BY <3>1 DEF vars
    <3>3. WorldTypes' /\ MapTypes' /\ DrawTypes' /\ PointerTypes' /\ HoverAgrees' /\ PressOrDrag'
      BY <3>1, <3>2, KeptTypes
    <3>4. RestHolds' /\ DragIsTheViewers'
      BY <3>1, <3>2, StillAtRest DEF ViewInv, mapVars, DragIsTheViewers
    <3> QED BY <3>3, <3>4 DEF ViewInv
  <2>3. CASE OfMarkers \/ OfReplay \/ OfTrails \/ OfPlayers \/ OfBoards
    BY <2>3 DEF OfMarkers, OfReplay, OfTrails, OfPlayers, OfBoards
  <2>4. CASE OfLife \/ OfHistory \/ OfGear \/ OfToasts \/ OfSessions
    BY <2>4 DEF OfLife, OfHistory, OfGear, OfToasts, OfSessions
  <2> QED BY <2>1, <2>2, <2>3, <2>4 DEF MCNext
<1>3. IInv => ViewIsWhole
  BY ViewInvHolds DEF ViewIsWhole
<1> QED BY <1>1, <1>2, <1>3, PTL DEF MCSpec

-----------------------------------------------------------------------------
(* EventMarkers: where events are put, and that they stay there.           *)

MarkOrNone == Markers!Marker \cup {Markers!NoMarker}
MarkPlaces == PlayerSpots \cup {OwnSpot}
Arrivals == 0..MaxClock \cup {-1}

\* Only what happened is given to the layer, on the map, remembered or was ever put there.
HappenedInv ==
  /\ given \subseteq Markers!Happened
  /\ \A e \in MarkerEvents : Markers!OnMap(e) \/ places[e] # 0 \/ put[e] # 0 => e \in Markers!Happened

\* Where the player is, an event that is fresh has been seen; so has every place remembered.
SeenInv ==
  \A e \in MarkerEvents :
    /\ e \in Markers!Happened /\ Markers!Fresh(e) /\ player # 0 => player \in markersSeen[e]
    /\ places[e] # 0 => places[e] \in markersSeen[e]

\* What was put on the map as certain is remembered for as long as the event may be there.
PutInv ==
  \A e \in MarkerEvents : put[e] # 0 =>
    IF e \in MarkersOwn THEN put[e] = OwnSpot ELSE places[e] = put[e] \/ Markers!Age(e) >= MarkerMs

MarkersInv ==
  /\ Markers!TypeOK /\ HappenedInv /\ SeenInv /\ PutInv
  /\ Markers!PlaceStays /\ Markers!CertainIsWhereItHappened /\ Markers!NoneLeftOut /\ Markers!DrawnAgain

LEMMA TimesAre ==
  /\ MarkerMs \in Nat /\ FreshMs \in Nat /\ RingMs \in Nat /\ RingMs > 0 /\ RingMs <= FreshMs /\ FreshMs <= MarkerMs
  /\ PlayerSpots \subseteq Nat \ {0} /\ OwnSpot \in Nat /\ OwnSpot # 0 /\ OwnSpot \notin PlayerSpots
  /\ MarkersMax \in Nat /\ MaxClock \in Nat /\ MaxMarkerMoves \in Nat
BY MarkerConstants DEF Markers!TimesAreOrdered, Markers!PlacesAreNumbers

LEMMA MarksAre ==
  /\ Markers!Marker = [place : MarkPlaces, approximate : BOOLEAN, arrived : Arrivals]
  /\ Markers!NoMarker \notin Markers!Marker
<1>1. Markers!Marker = [place : MarkPlaces, approximate : BOOLEAN, arrived : Arrivals]
  BY Zenon DEF Markers!Marker, MarkPlaces, Arrivals, Markers!Never
<1>2. 0 \notin MarkPlaces
  BY TimesAre DEF MarkPlaces
<1>3. Markers!NoMarker.place = 0
  BY DEF Markers!NoMarker
<1> QED BY <1>1, <1>2, <1>3

LEMMA PlaceOfIs ==
  ASSUME NEW e, NEW at
  PROVE  /\ e \in MarkersOwn => Markers!PlaceOf(e, at).place = OwnSpot /\ Markers!PlaceOf(e, at).known
         /\ e \notin MarkersOwn /\ places[e] # 0 =>
              Markers!PlaceOf(e, at).place = places[e] /\ Markers!PlaceOf(e, at).known
         /\ e \notin MarkersOwn /\ places[e] = 0 => Markers!PlaceOf(e, at).place = at /\ ~Markers!PlaceOf(e, at).known
BY DEF Markers!PlaceOf

\* A marker that is put on the map: a guess unless its place is known or it is fresh.
LEMMA NewMarkerIs ==
  ASSUME Markers!TypeOK, NEW e \in MarkerEvents, NEW at \in PlayerSpots \cup {0}, NEW news \in BOOLEAN,
         Markers!Placeable(e, at)
  PROVE  LET mark == Markers!NewMarker(e, at, news) IN
         /\ mark \in Markers!Marker /\ mark.place = Markers!PlaceOf(e, at).place
         /\ mark.approximate <=> ~Markers!PlaceOf(e, at).known /\ ~Markers!IsFresh(e, news)
<1> DEFINE guess == ~Markers!PlaceOf(e, at).known /\ ~Markers!IsFresh(e, news)
           came == IF Markers!IsFresh(e, news) THEN markersNow ELSE -1
           mark == [place |-> Markers!PlaceOf(e, at).place, approximate |-> guess, arrived |-> came]
<1>1. Markers!NewMarker(e, at, news) = mark
  BY Zenon DEF Markers!NewMarker, Markers!Never
<1>2. came \in Arrivals
  BY TimesAre DEF Markers!TypeOK, Arrivals
<1>3. Markers!PlaceOf(e, at).place \in MarkPlaces
  BY PlaceOfIs DEF Markers!Placeable, Markers!TypeOK, MarkPlaces
<1>4. guess \in BOOLEAN
  OBVIOUS
<1> HIDE DEF guess, came
<1>5. mark \in Markers!Marker /\ mark.place = Markers!PlaceOf(e, at).place /\ mark.approximate = guess
  BY <1>2, <1>3, <1>4, MarksAre
<1>6. mark.approximate <=> ~Markers!PlaceOf(e, at).known /\ ~Markers!IsFresh(e, news)
  BY <1>5, Zenon DEF guess
<1> QED BY <1>1, <1>5, <1>6, Zenon

LEMMA SameCardinality == \A S : Markers!Cardinality(S) = Cardinality(S)
BY Zenon DEF Markers!Cardinality, Cardinality

\* What is let onto the map, and what has to go.
Added(events, old, at) == {e \in events : old[e] = Markers!NoMarker /\ Markers!Placeable(e, at)}
WithAdded(events, old, at, news) ==
  [e \in MarkerEvents |-> IF e \in Added(events, old, at) THEN Markers!NewMarker(e, at, news) ELSE old[e]]
OnAfter(events, old, at, news) ==
  {e \in MarkerEvents : WithAdded(events, old, at, news)[e] # Markers!NoMarker}
TooMany(on) == IF Cardinality(on) > MarkersMax THEN Cardinality(on) - MarkersMax ELSE 0


\* A certain marker at the place of its player.
ByPlayer(events, old, at, news) ==
  {e \in Added(events, old, at) : ~WithAdded(events, old, at, news)[e].approximate /\ e \notin MarkersOwn}

\* What there is when some have gone.
PlacedAfter(events, old, at, news, dropped) ==
  /\ live' = [e \in MarkerEvents |->
               IF e \in dropped THEN Markers!NoMarker ELSE WithAdded(events, old, at, news)[e]]
  /\ places' = IF ByPlayer(events, old, at, news) = {} THEN places
               ELSE [e \in MarkerEvents |->
                       IF e \in ByPlayer(events, old, at, news) THEN WithAdded(events, old, at, news)[e].place
                       ELSE IF Markers!Age(e) >= MarkerMs THEN 0 ELSE places[e]]
  /\ put' = [e \in MarkerEvents |->
               IF put[e] = 0 /\ e \in Added(events, old, at) /\ ~WithAdded(events, old, at, news)[e].approximate
               THEN WithAdded(events, old, at, news)[e].place ELSE put[e]]
  /\ dirty' = (dirty \/ Added(events, old, at) # {})

LEMMA PlaceLiveDoes ==
  ASSUME NEW events, NEW old, NEW at, NEW news, Markers!PlaceLive(events, old, at, news)
  PROVE  \E dropped \in SUBSET OnAfter(events, old, at, news) :
           /\ Cardinality(dropped) = TooMany(OnAfter(events, old, at, news))
           /\ Markers!DropsOldest(OnAfter(events, old, at, news), dropped)
           /\ PlacedAfter(events, old, at, news, dropped)
<1>1. PICK dropped \in Markers!kSubset(TooMany(OnAfter(events, old, at, news)), OnAfter(events, old, at, news)) :
        /\ Markers!DropsOldest(OnAfter(events, old, at, news), dropped)
        /\ PlacedAfter(events, old, at, news, dropped)
  BY SameCardinality, ZenonT(60) DEF Markers!PlaceLive, Added, WithAdded, OnAfter, TooMany, ByPlayer, PlacedAfter
<1>2. dropped \in SUBSET OnAfter(events, old, at, news)
      /\ Cardinality(dropped) = TooMany(OnAfter(events, old, at, news))
  BY SameCardinality, Zenon DEF Markers!kSubset
<1> QED BY <1>1, <1>2, Zenon

NoneOnMap == [e \in MarkerEvents |-> Markers!NoMarker]

\* Feeding and turning up: what was on the map, or nothing, and the events that are given now,
\* with the player at a place they are then seen at.
Places(events, old, at, news) ==
  /\ MarkersInv /\ events \subseteq Markers!Happened /\ old \in {live, NoneOnMap}
  /\ at \in PlayerSpots \cup {0} /\ news \in BOOLEAN
  /\ Markers!PlaceLive(events, old, at, news)
  /\ UNCHANGED <<markersNow, when>> /\ given' = events /\ player' = at
  /\ markersSeen' \in [MarkerEvents -> SUBSET PlayerSpots]
  /\ \A e \in MarkerEvents :
       /\ markersSeen[e] \subseteq markersSeen'[e]
       /\ e \in Markers!Happened /\ Markers!Fresh(e) /\ at # 0 => at \in markersSeen'[e]

\* What may become of one event in it.
LEMMA EventPlaced ==
  ASSUME NEW events, NEW old, NEW at, NEW news, Places(events, old, at, news), NEW e \in MarkerEvents
  PROVE  /\ live'[e] \in MarkOrNone /\ places'[e] \in PlayerSpots \cup {0} /\ put'[e] \in MarkPlaces \cup {0}
         /\ live'[e] # Markers!NoMarker \/ places'[e] # 0 \/ put'[e] # 0 => e \in Markers!Happened
         /\ places'[e] # 0 => places'[e] \in markersSeen'[e]
         /\ put'[e] # 0 => IF e \in MarkersOwn THEN put'[e] = OwnSpot
                           ELSE places'[e] = put'[e] \/ Markers!Age(e) >= MarkerMs
         /\ live'[e] # Markers!NoMarker /\ put'[e] # 0 => live'[e].place = put'[e] /\ ~live'[e].approximate
         /\ e \notin MarkersOwn /\ live'[e] # Markers!NoMarker /\ ~live'[e].approximate =>
              live'[e].place \in markersSeen'[e]
<1> DEFINE added == Added(events, old, at)
           with == WithAdded(events, old, at, news)
           on == OnAfter(events, old, at, news)
           byPlayer == ByPlayer(events, old, at, news)
           spot == Markers!PlaceOf(e, at)
<1>1. PICK dropped \in SUBSET on : PlacedAfter(events, old, at, news, dropped)
  BY PlaceLiveDoes, Zenon DEF Places
<1>2. /\ live'[e] = IF e \in dropped THEN Markers!NoMarker ELSE with[e]
      /\ e \in byPlayer => places'[e] = with[e].place
      /\ e \notin byPlayer => places'[e] = places[e] \/ (places'[e] = 0 /\ Markers!Age(e) >= MarkerMs)
      /\ put'[e] = IF put[e] = 0 /\ e \in added /\ ~with[e].approximate THEN with[e].place ELSE put[e]
  BY <1>1, Zenon DEF PlacedAfter, ByPlayer
<1>3. /\ Markers!TypeOK /\ HappenedInv /\ SeenInv /\ PutInv /\ Markers!PlaceStays /\ Markers!CertainIsWhereItHappened
      /\ live[e] \in MarkOrNone /\ places[e] \in PlayerSpots \cup {0} /\ put[e] \in MarkPlaces \cup {0}
  BY DEF Places, MarkersInv, Markers!TypeOK, MarkOrNone, MarkPlaces
<1>4. old[e] = live[e] \/ old[e] = Markers!NoMarker
  BY DEF Places, NoneOnMap
<1>5. ASSUME e \in added
      PROVE  /\ e \in Markers!Happened /\ ~(Markers!Age(e) >= MarkerMs) /\ spot.place # 0
             /\ with[e] \in Markers!Marker /\ with[e].place = spot.place
             /\ with[e].approximate <=> ~spot.known /\ ~(news /\ Markers!Fresh(e))
  <2>1. Markers!Placeable(e, at) /\ e \in events
    BY <1>5 DEF Added
  <2>2. with[e] = Markers!NewMarker(e, at, news)
    BY <1>5 DEF WithAdded
  <2>3. e \in Markers!Happened
    BY <2>1 DEF Places
  <2>4. Markers!Age(e) \in Int /\ MarkerMs \in Int
    BY <1>3, TimesAre DEF Markers!Age, Markers!TypeOK, Markers!Never
  <2>5. spot.place # 0 /\ ~(Markers!Age(e) >= MarkerMs)
    BY <2>1, <2>4 DEF Markers!Placeable
  <2> HIDE DEF added, with, spot
  <2>6. /\ with[e] \in Markers!Marker /\ with[e].place = spot.place
        /\ with[e].approximate <=> ~spot.known /\ ~Markers!IsFresh(e, news)
    BY <1>3, <2>1, <2>2, NewMarkerIs DEF Places, spot
  <2> QED BY <2>3, <2>5, <2>6, Zenon DEF Markers!IsFresh
<1>6. e \notin added => with[e] = old[e]
  BY DEF WithAdded
<1>7. /\ e \in MarkersOwn => spot.place = OwnSpot /\ spot.known
      /\ e \notin MarkersOwn /\ places[e] # 0 => spot.place = places[e] /\ spot.known
      /\ e \notin MarkersOwn /\ places[e] = 0 => spot.place = at /\ ~spot.known
  BY PlaceOfIs
<1>8. e \in byPlayer <=> e \in added /\ ~with[e].approximate /\ e \notin MarkersOwn
  BY DEF ByPlayer
<1>9. /\ at \in PlayerSpots \cup {0} /\ markersSeen[e] \subseteq markersSeen'[e]
      /\ e \in Markers!Happened /\ Markers!Fresh(e) /\ at # 0 => at \in markersSeen'[e]
  BY DEF Places
<1>10. /\ live[e] # Markers!NoMarker \/ places[e] # 0 \/ put[e] # 0 => e \in Markers!Happened
       /\ places[e] # 0 => places[e] \in markersSeen[e]
       /\ put[e] # 0 => IF e \in MarkersOwn THEN put[e] = OwnSpot ELSE places[e] = put[e] \/ Markers!Age(e) >= MarkerMs
       /\ live[e] # Markers!NoMarker /\ put[e] # 0 => live[e].place = put[e] /\ ~live[e].approximate
       /\ e \notin MarkersOwn /\ live[e] # Markers!NoMarker /\ ~live[e].approximate => live[e].place \in markersSeen[e]
  BY <1>3 DEF HappenedInv, SeenInv, PutInv, Markers!PlaceStays, Markers!CertainIsWhereItHappened, Markers!OnMap
<1>11. e \in added /\ e \notin MarkersOwn /\ ~with[e].approximate => with[e].place \in markersSeen'[e]
  BY <1>5, <1>7, <1>9, <1>10
<1> HIDE DEF added, with, on, byPlayer, spot
<1>12. CASE e \in added
  <2>1. with[e] # Markers!NoMarker
    BY <1>5, <1>12, MarksAre
  <2>2. live'[e] \in MarkOrNone /\ places'[e] \in PlayerSpots \cup {0} /\ put'[e] \in MarkPlaces \cup {0}
    <3>1. with[e].place \in MarkPlaces
      BY <1>5, <1>12, MarksAre
    <3>2. e \in byPlayer => with[e].place \in PlayerSpots \cup {0}
      BY <1>3, <1>5, <1>7, <1>8, <1>9, <1>12
    <3> QED BY <1>2, <1>3, <1>5, <1>12, <3>1, <3>2 DEF MarkOrNone
  <2>3. places'[e] # 0 => places'[e] \in markersSeen'[e]
    BY <1>2, <1>8, <1>9, <1>10, <1>11, <1>12
  <2>4. put'[e] # 0 => IF e \in MarkersOwn THEN put'[e] = OwnSpot ELSE places'[e] = put'[e] \/ Markers!Age(e) >= MarkerMs
    BY <1>2, <1>5, <1>7, <1>8, <1>10, <1>12
  <2>5. live'[e] # Markers!NoMarker /\ put'[e] # 0 => live'[e].place = put'[e] /\ ~live'[e].approximate
    BY <1>2, <1>5, <1>7, <1>10, <1>12
  <2>6. e \notin MarkersOwn /\ live'[e] # Markers!NoMarker /\ ~live'[e].approximate => live'[e].place \in markersSeen'[e]
    BY <1>2, <1>11, <1>12
  <2> QED BY <1>5, <1>12, <2>2, <2>3, <2>4, <2>5, <2>6
<1>13. CASE e \notin added
  BY <1>2, <1>3, <1>4, <1>6, <1>8, <1>9, <1>10, <1>13 DEF MarkOrNone
<1> QED BY <1>12, <1>13

\* Those on the map then are those let on and not dropped; who is left off was dropped, for
\* what is not older.
LEMMA NoneIsLeftOut ==
  ASSUME NEW events, NEW old, NEW at, NEW news, Places(events, old, at, news)
  PROVE  Markers!NoneLeftOut'
<1> DEFINE added == Added(events, old, at)
           with == WithAdded(events, old, at, news)
           on == OnAfter(events, old, at, news)
<1>1. PICK dropped \in SUBSET on :
        /\ Cardinality(dropped) = TooMany(on) /\ Markers!DropsOldest(on, dropped)
        /\ PlacedAfter(events, old, at, news, dropped)
  BY PlaceLiveDoes, Zenon DEF Places
<1>2. /\ IsFiniteSet(on) /\ IsFiniteSet(dropped) /\ Cardinality(on) \in Nat /\ Cardinality(dropped) \in Nat
      /\ Cardinality(on \ dropped) = Cardinality(on) - Cardinality(dropped)
  <2>1. on \subseteq MarkerEvents
    BY DEF OnAfter
  <2>2. IsFiniteSet(on) /\ IsFiniteSet(dropped)
    BY <2>1, MarkerConstants, FS_Subset
  <2>3. on \cap dropped = dropped
    OBVIOUS
  <2> QED BY <2>2, <2>3, FS_Difference, FS_CardinalityType
<1>3. Cardinality(on \ dropped) <= MarkersMax
  BY <1>1, <1>2, TimesAre DEF TooMany
<1>4. dropped # {} => Cardinality(on \ dropped) = MarkersMax
  <2>1. dropped # {} => Cardinality(dropped) # 0
    BY <1>2, FS_EmptySet
  <2> QED BY <1>1, <1>2, <2>1, TimesAre DEF TooMany
<1>5. \A e \in MarkerEvents : live'[e] = IF e \in dropped THEN Markers!NoMarker ELSE with[e]
  BY <1>1, Zenon DEF PlacedAfter
<1>6. {e \in MarkerEvents : live'[e] # Markers!NoMarker} = on \ dropped
  BY <1>5 DEF OnAfter
<1>7. ASSUME NEW e \in events, live'[e] = Markers!NoMarker, Markers!Age(e) < MarkerMs, e \notin MarkersUnshown,
             Markers!PlaceOf(e, at)'.place # 0
      PROVE  e \in dropped
  <2>1. e \in MarkerEvents
    BY DEF Places, Markers!Happened
  <2>2. /\ e \in MarkersOwn => Markers!PlaceOf(e, at)'.place = OwnSpot
        /\ e \notin MarkersOwn /\ places'[e] # 0 => Markers!PlaceOf(e, at)'.place = places'[e]
        /\ e \notin MarkersOwn /\ places'[e] = 0 => Markers!PlaceOf(e, at)'.place = at
    BY DEF Markers!PlaceOf
  <2>3. e \notin added => places'[e] = places[e] \/ places'[e] = 0
    <3>1. e \notin added => e \notin ByPlayer(events, old, at, news)
      BY DEF ByPlayer
    <3> QED BY <1>1, <2>1, <3>1, Zenon DEF PlacedAfter
  <2>4. e \in added \/ Markers!Placeable(e, at)
    BY <1>7, <2>2, <2>3, PlaceOfIs, TimesAre DEF Markers!Placeable
  <2>5. e \in added \/ old[e] # Markers!NoMarker
    BY <2>4 DEF Added
  <2>6. with[e] # Markers!NoMarker
    <3>1. CASE e \in added
      <4>1. with[e] = Markers!NewMarker(e, at, news) /\ Markers!Placeable(e, at)
        BY <2>1, <3>1 DEF WithAdded, Added
      <4>2. Markers!TypeOK /\ at \in PlayerSpots \cup {0} /\ news \in BOOLEAN
        BY DEF Places, MarkersInv
      <4>3. Markers!NewMarker(e, at, news) \in Markers!Marker
        BY <2>1, <4>1, <4>2, NewMarkerIs
      <4> QED BY <4>1, <4>3, MarksAre
    <3>2. CASE e \notin added
      BY <2>1, <2>5, <3>2 DEF WithAdded
    <3> QED BY <3>1, <3>2
  <2> QED BY <1>5, <1>7, <2>1, <2>6
<1>8. ASSUME NEW e \in dropped
      PROVE  {o \in MarkerEvents : live'[o] # Markers!NoMarker /\ when[o] >= when[e]} = on \ dropped
  <2>1. \A k \in on \ dropped : when[e] <= when[k]
    BY <1>1 DEF Markers!DropsOldest
  <2>2. \A k \in on : when[k] \in Int
    BY DEF OnAfter, Places, MarkersInv, Markers!TypeOK, Markers!Never
  <2>3. \A k \in on \ dropped : when[k] >= when[e]
    BY <2>1, <2>2
  <2> QED BY <1>6, <2>3
<1>9. Cardinality({e \in MarkerEvents : live'[e] # Markers!NoMarker}) <= MarkersMax
  BY <1>3, <1>6
<1>10. ASSUME NEW e \in events, live'[e] = Markers!NoMarker, Markers!Age(e) < MarkerMs, e \notin MarkersUnshown,
              Markers!PlaceOf(e, at)'.place # 0
       PROVE  Cardinality({o \in MarkerEvents : live'[o] # Markers!NoMarker /\ when[o] >= when[e]}) = MarkersMax
  BY <1>4, <1>7, <1>8, <1>10
<1>11. given' = events /\ player' = at /\ when' = when /\ markersNow' = markersNow
  BY DEF Places
<1> HIDE DEF added, with, on
<1> QED BY <1>9, <1>10, <1>11, SameCardinality DEF Markers!NoneLeftOut, Markers!OnMap, Markers!Age

LEMMA PlacesKeep ==
  ASSUME NEW events, NEW old, NEW at, NEW news, Places(events, old, at, news),
         UNCHANGED <<marks, pops, markersReplay, filter, rendered, timer>>,
         heard' \in BOOLEAN, isNews' \in BOOLEAN, markersMoves' \in 0..MaxMarkerMoves
  PROVE  MarkersInv'
<1>1. /\ MarkersInv /\ UNCHANGED <<markersNow, when>> /\ given' = events /\ player' = at
      /\ events \subseteq Markers!Happened /\ at \in PlayerSpots \cup {0}
      /\ markersSeen' \in [MarkerEvents -> SUBSET PlayerSpots]
      /\ \A e \in MarkerEvents : e \in Markers!Happened /\ Markers!Fresh(e) /\ at # 0 => at \in markersSeen'[e]
  BY DEF Places
<1>2. PICK dropped : PlacedAfter(events, old, at, news, dropped)
  BY PlaceLiveDoes, Zenon DEF Places
<1>3. \A e \in MarkerEvents :
        /\ live'[e] \in MarkOrNone /\ places'[e] \in PlayerSpots \cup {0} /\ put'[e] \in MarkPlaces \cup {0}
        /\ live'[e] # Markers!NoMarker \/ places'[e] # 0 \/ put'[e] # 0 => e \in Markers!Happened
        /\ places'[e] # 0 => places'[e] \in markersSeen'[e]
        /\ put'[e] # 0 => IF e \in MarkersOwn THEN put'[e] = OwnSpot
                          ELSE places'[e] = put'[e] \/ Markers!Age(e) >= MarkerMs
        /\ live'[e] # Markers!NoMarker /\ put'[e] # 0 => live'[e].place = put'[e] /\ ~live'[e].approximate
        /\ e \notin MarkersOwn /\ live'[e] # Markers!NoMarker /\ ~live'[e].approximate =>
             live'[e].place \in markersSeen'[e]
  BY EventPlaced
<1>4. /\ live' \in [MarkerEvents -> MarkOrNone] /\ places' \in [MarkerEvents -> PlayerSpots \cup {0}]
      /\ put' \in [MarkerEvents -> MarkPlaces \cup {0}] /\ dirty' \in BOOLEAN /\ (dirty => dirty')
  <2>1. live' = [e \in MarkerEvents |-> live'[e]] /\ put' = [e \in MarkerEvents |-> put'[e]]
    BY <1>2 DEF PlacedAfter
  <2>2. places' = [e \in MarkerEvents |-> places'[e]]
    BY <1>1, <1>2 DEF PlacedAfter, MarkersInv, Markers!TypeOK
  <2>3. dirty' = (dirty \/ Added(events, old, at) # {})
    BY <1>2 DEF PlacedAfter
  <2>4. dirty \in BOOLEAN
    BY <1>1 DEF MarkersInv, Markers!TypeOK
  <2>5. dirty' \in BOOLEAN /\ (dirty => dirty')
    BY <2>3, <2>4
  <2> QED BY <1>3, <2>1, <2>2, <2>5
<1>5. Markers!TypeOK'
  <2>1. MarkOrNone = Markers!Marker \cup {Markers!NoMarker} /\ MarkPlaces \cup {0} = PlayerSpots \cup {OwnSpot, 0}
    BY DEF MarkOrNone, MarkPlaces
  <2>2. given' \subseteq MarkerEvents
    BY <1>1 DEF Markers!Happened
  <2> QED BY <1>1, <1>4, <2>1, <2>2 DEF MarkersInv, Markers!TypeOK
<1>6. HappenedInv' /\ SeenInv' /\ PutInv'
  BY <1>1, <1>3 DEF HappenedInv, SeenInv, PutInv, Markers!Happened, Markers!OnMap, Markers!Fresh, Markers!Age
<1>7. Markers!PlaceStays' /\ Markers!CertainIsWhereItHappened'
  BY <1>3 DEF Markers!PlaceStays, Markers!CertainIsWhereItHappened, Markers!OnMap
<1>8. Markers!DrawnAgain'
  BY <1>1, <1>4 DEF MarkersInv, Markers!DrawnAgain
<1> QED BY <1>5, <1>6, <1>7, <1>8, NoneIsLeftOut DEF MarkersInv

-----------------------------------------------------------------------------
LEMMA FeedKeeps == ASSUME MarkersInv, NEW initial \in BOOLEAN, Markers!Feed(initial) PROVE MarkersInv'
<1> DEFINE old == IF initial THEN NoneOnMap ELSE live
<1>1. /\ given' = Markers!Happened /\ heard' = TRUE /\ isNews' = (heard /\ ~initial)
      /\ UNCHANGED <<markersNow, when, player, marks, pops, markersReplay, filter, rendered, timer, markersSeen>>
  BY DEF Markers!Feed, Markers!trailVars
<1>2. heard' \in BOOLEAN /\ isNews' \in BOOLEAN
  BY <1>1 DEF MarkersInv, Markers!TypeOK
<1>3. markersMoves' \in 0..MaxMarkerMoves
  BY TimesAre DEF Markers!Feed, Markers!Does, MarkersInv, Markers!TypeOK
<1>4. Markers!PlaceLive(Markers!Happened, old, player, isNews')
  BY DEF Markers!Feed, NoneOnMap
<1>5. player \in PlayerSpots \cup {0} /\ markersSeen \in [MarkerEvents -> SUBSET PlayerSpots]
  BY DEF MarkersInv, Markers!TypeOK
<1>6. Places(Markers!Happened, old, player, isNews')
  BY <1>1, <1>2, <1>4, <1>5 DEF Places, MarkersInv, SeenInv
<1> QED BY <1>1, <1>2, <1>3, <1>6, PlacesKeep

LEMMA CoordinatesKeep ==
  ASSUME MarkersInv, NEW to \in PlayerSpots \cup {0}, Markers!Coordinates(to) PROVE MarkersInv'
<1>1. /\ player' = to /\ to # player
      /\ markersSeen' = [e \in MarkerEvents |-> IF e \in Markers!Happened /\ Markers!Fresh(e)
                                              THEN markersSeen[e] \cup ({to} \ {0}) ELSE markersSeen[e]]
      /\ UNCHANGED <<markersNow, when, given, heard, isNews, marks, pops, markersReplay, filter, rendered, timer>>
  BY DEF Markers!Coordinates, Markers!Moved, Markers!trailVars
<1>2. markersMoves' \in 0..MaxMarkerMoves
  BY TimesAre DEF Markers!Coordinates, Markers!Moved, Markers!Does, MarkersInv, Markers!TypeOK
<1>3. markersSeen \in [MarkerEvents -> SUBSET PlayerSpots]
  BY DEF MarkersInv, Markers!TypeOK
<1>4. markersSeen' \in [MarkerEvents -> SUBSET PlayerSpots]
  BY <1>1, <1>3
<1>5. \A e \in MarkerEvents :
        /\ markersSeen[e] \subseteq markersSeen'[e]
        /\ e \in Markers!Happened /\ Markers!Fresh(e) /\ to # 0 => to \in markersSeen'[e]
  BY <1>1, <1>3
<1>6. heard' \in BOOLEAN /\ isNews' \in BOOLEAN
  BY <1>1 DEF MarkersInv, Markers!TypeOK
<1>7. CASE player = 0
  <2>1. Markers!PlaceLive(given, live, to, isNews)
    BY <1>7 DEF Markers!Coordinates, Markers!TurnedUp
  <2>2. Places(given, live, to, isNews)
    BY <1>1, <1>4, <1>5, <1>6, <2>1 DEF Places, MarkersInv, HappenedInv
  <2> QED BY <1>1, <1>2, <1>6, <2>2, PlacesKeep
<1>8. CASE player # 0
  <2>1. UNCHANGED <<live, places, put>> /\ dirty' = TRUE
    BY <1>8 DEF Markers!Coordinates
  <2>2. Markers!TypeOK'
    BY <1>1, <1>2, <1>4, <2>1 DEF MarkersInv, Markers!TypeOK
  <2>3. HappenedInv' /\ SeenInv' /\ PutInv'
    BY <1>1, <1>5, <2>1 DEF MarkersInv, HappenedInv, SeenInv, PutInv, Markers!Happened, Markers!OnMap, Markers!Fresh,
       Markers!Age
  <2>4. Markers!PlaceStays' /\ Markers!CertainIsWhereItHappened' /\ Markers!DrawnAgain'
    BY <1>5, <2>1 DEF MarkersInv, Markers!PlaceStays, Markers!CertainIsWhereItHappened, Markers!OnMap,
       Markers!DrawnAgain
  <2>5. \A e \in given : Markers!PlaceOf(e, player)'.place # 0 => Markers!PlaceOf(e, player).place # 0
    BY <1>1, <1>8, <2>1, PlaceOfIs, TimesAre DEF Markers!PlaceOf
  <2>6. Markers!NoneLeftOut'
    BY <1>1, <2>1, <2>5 DEF MarkersInv, Markers!NoneLeftOut, Markers!OnMap, Markers!Age
  <2> QED BY <2>2, <2>3, <2>4, <2>6 DEF MarkersInv
<1> QED BY <1>7, <1>8

\* Nothing about places in it.
LEMMA PlacesAsTheyWere ==
  ASSUME MarkersInv, UNCHANGED <<markersNow, when, player, given, live, places, put, markersSeen>>
  PROVE  /\ HappenedInv' /\ SeenInv' /\ PutInv' /\ Markers!PlaceStays' /\ Markers!CertainIsWhereItHappened'
         /\ Markers!NoneLeftOut'
<1>1. HappenedInv' /\ SeenInv' /\ PutInv'
  BY DEF MarkersInv, HappenedInv, SeenInv, PutInv, Markers!Happened, Markers!OnMap, Markers!Fresh, Markers!Age
<1>2. Markers!PlaceStays' /\ Markers!CertainIsWhereItHappened'
  BY DEF MarkersInv, Markers!PlaceStays, Markers!CertainIsWhereItHappened, Markers!OnMap
<1>3. Markers!NoneLeftOut'
  BY DEF MarkersInv, Markers!NoneLeftOut, Markers!OnMap, Markers!Age, Markers!PlaceOf
<1> QED BY <1>1, <1>2, <1>3

LEMMA TrailsAndFiltersKeep ==
  ASSUME MarkersInv,
         \/ \E on \in SUBSET Markers!Happened : Markers!SyncTrail(on)
         \/ \E to \in 0..markersNow \cup {-1} : Markers!SetReplay(to)
         \/ \E f \in MarkerFilters : Markers!SetFilters(f)
         \/ Markers!FrameDue
  PROVE  MarkersInv'
<1>1. /\ UNCHANGED <<markersNow, when, player, given, heard, isNews, live, places, put, markersSeen, rendered>>
      /\ dirty' = TRUE /\ timer' \in {timer, FALSE}
  BY DEF Markers!SyncTrail, Markers!SetReplay, Markers!SetFilters, Markers!FrameDue, Markers!layerVars, Markers!trailVars
<1>2. markersMoves' \in 0..MaxMarkerMoves
  BY TimesAre DEF Markers!SyncTrail, Markers!SetReplay, Markers!SetFilters, Markers!FrameDue, Markers!Does, MarkersInv,
     Markers!TypeOK
<1>3. marks' \subseteq MarkerEvents /\ filter' \in MarkerFilters /\ markersReplay' \in 0..markersNow \cup {-1}
  BY DEF Markers!SyncTrail, Markers!SetReplay, Markers!SetFilters, Markers!FrameDue, Markers!trailVars, MarkersInv,
     Markers!TypeOK, Markers!Happened, Markers!Never
<1>4. pops' \in [MarkerEvents -> 0..markersNow \cup {-1}]
  <2>1. markersNow \in 0..markersNow /\ pops \in [MarkerEvents -> 0..markersNow \cup {-1}]
    BY DEF MarkersInv, Markers!TypeOK, Markers!Never
  <2> QED BY <2>1 DEF Markers!SyncTrail, Markers!SetReplay, Markers!SetFilters, Markers!FrameDue, Markers!trailVars
<1>5. Markers!TypeOK'
  BY <1>1, <1>2, <1>3, <1>4 DEF MarkersInv, Markers!TypeOK, Markers!Never
<1> QED BY <1>1, <1>5, PlacesAsTheyWere DEF MarkersInv, Markers!DrawnAgain

LEMMA TickKeeps == ASSUME MarkersInv, Markers!Tick PROVE MarkersInv'
<1>1. /\ markersNow' = markersNow + 1 /\ markersNow < MaxClock
      /\ UNCHANGED <<when, player, given, heard, isNews, live, places, marks, pops, markersReplay, filter, rendered,
                    dirty, timer, put, markersSeen, markersMoves>>
  BY DEF Markers!Tick, Markers!layerVars, Markers!trailVars, Markers!drawVars
<1>2. markersNow \in 0..MaxClock /\ markersNow' \in 0..MaxClock
  BY <1>1, TimesAre DEF MarkersInv, Markers!TypeOK
<1>3. \A x : x \in 0..markersNow \cup {Markers!Never} => x \in 0..markersNow' \cup {Markers!Never}
  BY <1>1, <1>2
<1>4. when' \in [MarkerEvents -> 0..markersNow' \cup {Markers!Never}] /\ pops' \in [MarkerEvents -> 0..markersNow' \cup {Markers!Never}]
  BY <1>1, <1>3 DEF MarkersInv, Markers!TypeOK
<1>5. Markers!TypeOK'
  BY <1>1, <1>2, <1>3, <1>4 DEF MarkersInv, Markers!TypeOK
<1>6. \A e \in MarkerEvents : when[e] \in Int /\ markersNow \in Int
  BY <1>2 DEF MarkersInv, Markers!TypeOK, Markers!Never
<1>7. \A e \in MarkerEvents :
        /\ markersNow' - when[e] < FreshMs => markersNow - when[e] < FreshMs
        /\ markersNow' - when[e] < MarkerMs => markersNow - when[e] < MarkerMs
        /\ markersNow - when[e] >= MarkerMs => markersNow' - when[e] >= MarkerMs
  BY <1>1, <1>6, TimesAre
<1>8. HappenedInv' /\ Markers!PlaceStays' /\ Markers!CertainIsWhereItHappened' /\ Markers!DrawnAgain'
  BY <1>1 DEF MarkersInv, HappenedInv, Markers!Happened, Markers!OnMap, Markers!PlaceStays,
     Markers!CertainIsWhereItHappened, Markers!DrawnAgain
<1>9. SeenInv' /\ PutInv'
  <2>1. ASSUME NEW e \in MarkerEvents, e \in Markers!Happened, markersNow' - when[e] < FreshMs, player # 0
        PROVE  player \in markersSeen[e]
    <3>1. markersNow - when[e] < FreshMs => player \in markersSeen[e]
      BY <2>1 DEF MarkersInv, SeenInv, Markers!Fresh, Markers!Age
    <3> QED BY <1>7, <2>1, <3>1
  <2>2. \A e \in MarkerEvents : places[e] # 0 => places[e] \in markersSeen[e]
    BY DEF MarkersInv, SeenInv
  <2>3. ASSUME NEW e \in MarkerEvents, put[e] # 0
        PROVE  IF e \in MarkersOwn THEN put[e] = OwnSpot ELSE places[e] = put[e] \/ markersNow' - when[e] >= MarkerMs
    <3>1. IF e \in MarkersOwn THEN put[e] = OwnSpot ELSE places[e] = put[e] \/ markersNow - when[e] >= MarkerMs
      BY <2>3 DEF MarkersInv, PutInv, Markers!Age
    <3>2. markersNow - when[e] >= MarkerMs => markersNow' - when[e] >= MarkerMs
      BY <1>7
    <3> QED BY <3>1, <3>2
  <2>4. SeenInv'
    BY <1>1, <2>1, <2>2 DEF SeenInv, Markers!Happened, Markers!Fresh, Markers!Age
  <2>5. PutInv'
    BY <1>1, <2>3 DEF PutInv, Markers!Age
  <2> QED BY <2>4, <2>5
<1>10. Markers!NoneLeftOut'
  <2>1. given \subseteq MarkerEvents
    BY DEF MarkersInv, Markers!TypeOK
  <2>2. ASSUME NEW e \in given, ~Markers!OnMap(e), markersNow' - when[e] < MarkerMs, e \notin MarkersUnshown,
               Markers!PlaceOf(e, player).place # 0
        PROVE  Markers!Cardinality({o \in MarkerEvents : Markers!OnMap(o) /\ when[o] >= when[e]}) = MarkersMax
    <3>1. markersNow - when[e] < MarkerMs
      BY <1>7, <2>1, <2>2
    <3> QED BY <2>2, <3>1 DEF MarkersInv, Markers!NoneLeftOut, Markers!Age
  <2> QED BY <1>1, <2>2 DEF MarkersInv, Markers!NoneLeftOut, Markers!OnMap, Markers!PlaceOf, Markers!Age
<1> QED BY <1>5, <1>8, <1>9, <1>10 DEF MarkersInv

LEMMA HappenKeeps == ASSUME MarkersInv, NEW e \in MarkerEvents, Markers!Happen(e) PROVE MarkersInv'
<1>1. /\ when[e] = Markers!Never /\ when' = [when EXCEPT ![e] = markersNow]
      /\ markersSeen' = [markersSeen EXCEPT ![e] = {player} \ {0}]
      /\ UNCHANGED <<markersNow, player, given, heard, isNews, live, places, marks, pops, markersReplay, filter, rendered,
                    dirty, timer, put, markersMoves>>
  BY DEF Markers!Happen, Markers!layerVars, Markers!trailVars, Markers!drawVars
<1>2. e \notin given /\ ~Markers!OnMap(e) /\ places[e] = 0 /\ put[e] = 0
  BY <1>1 DEF MarkersInv, HappenedInv, Markers!Happened
<1>3. Markers!TypeOK'
  BY <1>1 DEF MarkersInv, Markers!TypeOK
<1>4. /\ \A f \in MarkerEvents \ {e} : when'[f] = when[f] /\ markersSeen'[f] = markersSeen[f]
      /\ when'[e] = markersNow /\ markersSeen'[e] = {player} \ {0} /\ markersNow # Markers!Never
  BY <1>1 DEF MarkersInv, Markers!TypeOK, Markers!Never
<1>5. Markers!Happened' = Markers!Happened \cup {e}
  BY <1>4 DEF Markers!Happened
<1>6. HappenedInv' /\ Markers!PlaceStays' /\ Markers!DrawnAgain'
  BY <1>1, <1>5 DEF MarkersInv, HappenedInv, Markers!OnMap, Markers!PlaceStays, Markers!DrawnAgain
<1>7. SeenInv' /\ PutInv' /\ Markers!CertainIsWhereItHappened'
  BY <1>1, <1>2, <1>4, <1>5 DEF MarkersInv, SeenInv, PutInv, Markers!CertainIsWhereItHappened, Markers!OnMap,
     Markers!Fresh, Markers!Age
<1>8. Markers!NoneLeftOut'
  <2>1. \A f \in given :
          {o \in MarkerEvents : Markers!OnMap(o) /\ when'[o] >= when'[f]}
            = {o \in MarkerEvents : Markers!OnMap(o) /\ when[o] >= when[f]}
    BY <1>2, <1>4 DEF MarkersInv, Markers!TypeOK
  <2>2. \A f \in given : when'[f] = when[f]
    BY <1>2, <1>4 DEF MarkersInv, Markers!TypeOK
  <2> QED BY <1>1, <2>1, <2>2 DEF MarkersInv, Markers!NoneLeftOut, Markers!OnMap, Markers!Age, Markers!PlaceOf
<1> QED BY <1>3, <1>6, <1>7, <1>8 DEF MarkersInv

LEMMA ReloadKeeps == ASSUME MarkersInv, Markers!Reload PROVE MarkersInv'
<1>1. /\ player' = 0 /\ given' = {} /\ live' = NoneOnMap /\ dirty' = TRUE
      /\ UNCHANGED <<markersNow, when, places, filter, put, markersSeen>>
  BY DEF Markers!Reload, NoneOnMap
<1>2. markersMoves' \in 0..MaxMarkerMoves
  BY TimesAre DEF Markers!Reload, Markers!Does, MarkersInv, Markers!TypeOK
<1>3. \A e \in MarkerEvents : live'[e] = Markers!NoMarker
  BY <1>1 DEF NoneOnMap
<1>4. Markers!TypeOK'
  BY <1>1, <1>2 DEF NoneOnMap, Markers!Reload, MarkersInv, Markers!TypeOK, Markers!Never
<1>5. HappenedInv' /\ SeenInv' /\ PutInv'
  BY <1>1, <1>3 DEF MarkersInv, HappenedInv, SeenInv, PutInv, Markers!Happened, Markers!OnMap, Markers!Age
<1>6. Markers!PlaceStays' /\ Markers!CertainIsWhereItHappened' /\ Markers!DrawnAgain'
  BY <1>1, <1>3 DEF Markers!PlaceStays, Markers!CertainIsWhereItHappened, Markers!OnMap, Markers!DrawnAgain
<1>7. Markers!NoneLeftOut'
  <2>1. {e \in MarkerEvents : live'[e] # Markers!NoMarker} = {}
    BY <1>3
  <2>2. Cardinality({e \in MarkerEvents : live'[e] # Markers!NoMarker}) <= MarkersMax
    BY <2>1, FS_EmptySet, TimesAre
  <2> QED BY <1>1, <2>2, SameCardinality DEF Markers!NoneLeftOut, Markers!OnMap
<1> QED BY <1>4, <1>5, <1>6, <1>7 DEF MarkersInv

LEMMA DrawKeeps == ASSUME MarkersInv, Markers!Draw PROVE MarkersInv'
<1>1. /\ live' = [e \in MarkerEvents |-> IF Markers!OnMap(e) /\ Markers!Age(e) >= MarkerMs THEN Markers!NoMarker
                                        ELSE live[e]]
      /\ pops' = [e \in MarkerEvents |-> IF pops[e] # Markers!Never /\ markersNow - pops[e] >= RingMs THEN Markers!Never
                                        ELSE pops[e]]
      /\ rendered' = Markers!Shown /\ timer' = (timer \/ Markers!Wakes(Markers!Shown)) /\ dirty' = FALSE
      /\ UNCHANGED <<markersNow, when, player, given, heard, isNews, places, marks, markersReplay, filter, put,
                    markersSeen, markersMoves>>
  BY DEF Markers!Draw
<1>2. \A e \in MarkerEvents : live'[e] = live[e] \/ live'[e] = Markers!NoMarker
  BY <1>1
<1>3. Markers!Shown \subseteq Markers!Item
  BY DEF Markers!Shown, Markers!Item, MarkersInv, Markers!TypeOK
<1>4. timer' \in BOOLEAN
  BY <1>1 DEF MarkersInv, Markers!TypeOK
<1>5. Markers!TypeOK'
  <2>1. live' \in [MarkerEvents -> Markers!Marker \cup {Markers!NoMarker}]
    BY <1>1 DEF MarkersInv, Markers!TypeOK
  <2>2. pops' \in [MarkerEvents -> 0..markersNow \cup {Markers!Never}]
    BY <1>1 DEF MarkersInv, Markers!TypeOK
  <2> QED BY <1>1, <1>3, <1>4, <2>1, <2>2 DEF MarkersInv, Markers!TypeOK
<1>6. HappenedInv' /\ SeenInv' /\ PutInv'
  BY <1>1, <1>2 DEF MarkersInv, HappenedInv, SeenInv, PutInv, Markers!Happened, Markers!OnMap, Markers!Fresh, Markers!Age
<1>7. Markers!PlaceStays' /\ Markers!CertainIsWhereItHappened'
  BY <1>1, <1>2 DEF MarkersInv, Markers!PlaceStays, Markers!CertainIsWhereItHappened, Markers!OnMap
<1>8. Markers!NoneLeftOut'
  <2> DEFINE onMap == {e \in MarkerEvents : live[e] # Markers!NoMarker}
             onMapNow == {e \in MarkerEvents : live'[e] # Markers!NoMarker}
  <2>1. IsFiniteSet(onMap) /\ onMapNow \subseteq onMap
    BY <1>2, MarkerConstants, FS_Subset
  <2>2. Cardinality(onMap) <= MarkersMax
    BY SameCardinality DEF MarkersInv, Markers!NoneLeftOut, Markers!OnMap
  <2>3. Cardinality(onMapNow) <= MarkersMax
    BY <2>1, <2>2, FS_Subset, FS_CardinalityType, TimesAre
  <2>4. \A e \in MarkerEvents : when[e] \in Int /\ markersNow \in Int /\ MarkerMs \in Int
    BY TimesAre DEF MarkersInv, Markers!TypeOK, Markers!Never
  <2>5. ASSUME NEW e \in given, live'[e] = Markers!NoMarker, Markers!Age(e) < MarkerMs
        PROVE  /\ live[e] = Markers!NoMarker
               /\ {o \in MarkerEvents : live'[o] # Markers!NoMarker /\ when[o] >= when[e]}
                    = {o \in MarkerEvents : live[o] # Markers!NoMarker /\ when[o] >= when[e]}
    <3>1. e \in MarkerEvents
      BY DEF MarkersInv, Markers!TypeOK
    <3>2. live[e] = Markers!NoMarker
      BY <1>1, <2>4, <2>5, <3>1 DEF Markers!Age
    <3>3. \A o \in MarkerEvents : when[o] >= when[e] => live'[o] = live[o]
      BY <1>1, <2>4, <2>5, <3>1 DEF Markers!Age
    <3> QED BY <3>2, <3>3
  <2>6. ASSUME NEW e \in given, live[e] = Markers!NoMarker, Markers!Age(e) < MarkerMs, e \notin MarkersUnshown,
               Markers!PlaceOf(e, player).place # 0
        PROVE  Cardinality({o \in MarkerEvents : live[o] # Markers!NoMarker /\ when[o] >= when[e]}) = MarkersMax
    BY <2>6, SameCardinality DEF MarkersInv, Markers!NoneLeftOut, Markers!OnMap
  <2>7. \A e : Markers!PlaceOf(e, player)' = Markers!PlaceOf(e, player) /\ Markers!Age(e)' = Markers!Age(e)
    BY <1>1 DEF Markers!PlaceOf, Markers!Age
  <2> QED BY <1>1, <2>3, <2>5, <2>6, <2>7, SameCardinality DEF Markers!NoneLeftOut, Markers!OnMap
<1>9. Markers!DrawnAgain'
  <2> SUFFICES ASSUME NEW i \in Markers!Shown, i.on = "live" \/ pops'[i.id] # Markers!Never PROVE timer'
    BY <1>1 DEF Markers!DrawnAgain
  <2>1. i.id \in MarkerEvents /\ i.on \in {"trail", "live"}
    BY <1>3 DEF Markers!Item
  <2>2. CASE i.on = "live"
    BY <1>1, <2>2 DEF Markers!Wakes, Markers!Compact
  <2>3. CASE pops'[i.id] # Markers!Never
    <3>1. pops[i.id] # Markers!Never /\ ~(markersNow - pops[i.id] >= RingMs)
      BY <1>1, <2>1, <2>3
    <3>2. pops[i.id] \in Int /\ markersNow \in Int /\ RingMs \in Int
      BY <2>1, TimesAre DEF MarkersInv, Markers!TypeOK, Markers!Never
    <3>3. Markers!ItemRings(i)
      BY <3>1, <3>2 DEF Markers!ItemRings, Markers!Rings
    <3> QED BY <1>1, <3>3 DEF Markers!Wakes
  <2> QED BY <2>2, <2>3
<1> QED BY <1>5, <1>6, <1>7, <1>8, <1>9 DEF MarkersInv

LEMMA MarkersBegin == Markers!Init => MarkersInv
<1> SUFFICES ASSUME Markers!Init PROVE MarkersInv
  OBVIOUS
<1>1. Markers!TypeOK
  <2>1. 0 \in 0..MaxClock /\ 0 \in 0..MaxMarkerMoves
    BY TimesAre
  <2>2. /\ live \in [MarkerEvents -> Markers!Marker \cup {Markers!NoMarker}] /\ rendered \subseteq Markers!Item
        /\ put \in [MarkerEvents -> PlayerSpots \cup {OwnSpot, 0}] /\ markersSeen \in [MarkerEvents -> SUBSET PlayerSpots]
        /\ places \in [MarkerEvents -> PlayerSpots \cup {0}]
    BY DEF Markers!Init
  <2>3. /\ when \in [MarkerEvents -> 0..markersNow \cup {Markers!Never}]
        /\ pops \in [MarkerEvents -> 0..markersNow \cup {Markers!Never}]
        /\ markersReplay \in 0..markersNow \cup {Markers!Never}
    BY DEF Markers!Init
  <2> QED BY <2>1, <2>2, <2>3 DEF Markers!Init, Markers!TypeOK
<1>2. \A e \in MarkerEvents : live[e] = Markers!NoMarker /\ places[e] = 0 /\ put[e] = 0 /\ when[e] = Markers!Never
  BY DEF Markers!Init
<1>3. given = {} /\ rendered = {}
  BY DEF Markers!Init
<1>4. HappenedInv /\ SeenInv /\ PutInv /\ Markers!PlaceStays /\ Markers!CertainIsWhereItHappened /\ Markers!DrawnAgain
  BY <1>2, <1>3 DEF HappenedInv, SeenInv, PutInv, Markers!PlaceStays, Markers!CertainIsWhereItHappened,
     Markers!DrawnAgain, Markers!OnMap, Markers!Happened
<1>5. Markers!NoneLeftOut
  <2>1. {e \in MarkerEvents : live[e] # Markers!NoMarker} = {}
    BY <1>2
  <2>2. Cardinality({e \in MarkerEvents : live[e] # Markers!NoMarker}) <= MarkersMax
    BY <2>1, FS_EmptySet, TimesAre
  <2> QED BY <1>3, <2>2, SameCardinality DEF Markers!NoneLeftOut, Markers!OnMap
<1> QED BY <1>1, <1>4, <1>5 DEF MarkersInv

LEMMA MarkersNext == ASSUME MarkersInv, Markers!Next PROVE MarkersInv'
<1>1. CASE Markers!Tick \/ Markers!Reload \/ Markers!Draw
  BY <1>1, TickKeeps, ReloadKeeps, DrawKeeps
<1>2. ASSUME NEW e \in MarkerEvents, Markers!Happen(e) PROVE MarkersInv'
  BY <1>2, HappenKeeps
<1>3. ASSUME NEW initial \in BOOLEAN, Markers!Feed(initial) PROVE MarkersInv'
  BY <1>3, FeedKeeps
<1>4. ASSUME NEW to \in PlayerSpots \cup {0}, Markers!Coordinates(to) PROVE MarkersInv'
  BY <1>4, CoordinatesKeep
<1>5. CASE \/ \E on \in SUBSET Markers!Happened : Markers!SyncTrail(on)
           \/ \E to \in 0..markersNow \cup {-1} : Markers!SetReplay(to)
           \/ \E f \in MarkerFilters : Markers!SetFilters(f)
           \/ Markers!FrameDue
  BY <1>5, TrailsAndFiltersKeep
<1> QED BY <1>1, <1>2, <1>3, <1>4, <1>5 DEF Markers!Next, Markers!Never

LEMMA MarkersInvKeeps ==
  ASSUME part = "markers" => MarkersInv, [MCNext]_allVars, part' = "markers"
  PROVE  MarkersInv'
<1>1. CASE OfMarkers
  BY <1>1, MarkersNext DEF OfMarkers
<1>2. CASE UNCHANGED allVars
  <2>1. part = "markers" /\ UNCHANGED markersVars
    BY <1>2 DEF allVars
  <2>2. Markers!TypeOK' /\ Markers!DrawnAgain'
    BY <2>1 DEF markersVars, MarkersInv, Markers!TypeOK, Markers!DrawnAgain
  <2> QED BY <2>1, <2>2, PlacesAsTheyWere DEF markersVars, MarkersInv
<1>3. CASE OfView \/ OfReplay \/ OfTrails \/ OfPlayers \/ OfBoards
  BY <1>3 DEF OfView, OfReplay, OfTrails, OfPlayers, OfBoards
<1>4. CASE OfLife \/ OfHistory \/ OfGear \/ OfToasts \/ OfSessions
  BY <1>4 DEF OfLife, OfHistory, OfGear, OfToasts, OfSessions
<1> QED BY <1>1, <1>2, <1>3, <1>4 DEF MCNext

\* Whatever feeds come, start over or meet a reload: an event's marker is never called certain
\* where the player was not seen while it was fresh; no event that has a place is left off the
\* map unless it is full of newer ones; and as long as one is drawn a frame or a timer is under
\* way (event-layer.js placeLive, event-markers.js add, canvas-map.js requestFrameIn).
THEOREM MarkersAreCertain == MCSpec => []MarkersAreWhole
<1> DEFINE IInv == part = "markers" => MarkersInv
<1>1. MCInit => IInv
  BY MarkersBegin DEF MCInit
<1>2. IInv /\ [MCNext]_allVars => IInv'
  BY MarkersInvKeeps
<1>3. IInv => MarkersAreWhole
  BY DEF MarkersInv, MarkersAreWhole, Markers!MarkersHold
<1> QED BY <1>1, <1>2, <1>3, PTL DEF MCSpec

\* An event put on the map as certain stays at that place for as long as it is on it: through a
\* feed that starts over, through reloads, wherever its player has gone since
\* (event-places.js remember).
THEOREM CertainStays == MCSpec => []MarkersStay
<1> DEFINE IInv == part = "markers" => MarkersInv
<1>1. MCInit => IInv
  BY MarkersBegin DEF MCInit
<1>2. IInv /\ [MCNext]_allVars => IInv'
  BY MarkersInvKeeps
<1>3. IInv => MarkersStay
  BY DEF MarkersInv, MarkersStay
<1> QED BY <1>1, <1>2, <1>3, PTL DEF MCSpec

-----------------------------------------------------------------------------
(* Boards: the charts and the gains.                                        *)

GraphPages ==
  [open : BOOLEAN, visit : Nat, period : BoardPeriods,
   names : (SUBSET BoardNames) \cup {Charts!Unknown}, gen : Nat, queued : BOOLEAN]
ChartCalls ==
  [visit : Nat \ {0}, gen : Nat, period : BoardPeriods, names : (SUBSET BoardNames) \cup {Charts!Unknown}]

\* The page's newest call, if it is under way.
IsNewest(c, g) == c.visit = g.visit /\ c.gen = g.gen

\* No call is from after the page as it is, and all wait for a selection as long as it has
\* none.
CallsAreOf(g) ==
  \A c \in charts :
    /\ c.visit <= g.visit
    /\ c.visit = g.visit => c.gen <= g.gen
    /\ c.names = Charts!Unknown <=> g.names = Charts!Unknown

GraphTypes ==
  /\ polled \in BOOLEAN /\ boardsGraph \in GraphPages /\ charts \subseteq ChartCalls
  /\ chart.kind \in {"blank", "prompt", "failed", "graph"}

\* Calls have numbers of their own; the newest is for what is chosen now, and covers the page.
NumbersInv ==
  /\ CallsAreOf(boardsGraph)
  /\ \A c, d \in charts : c.visit = d.visit /\ c.gen = d.gen => c = d
  /\ \A c \in charts : IsNewest(c, boardsGraph) /\ c.names # Charts!Unknown =>
                         c.period = boardsGraph.period /\ c.names = boardsGraph.names
  /\ boardsGraph.open =>
       /\ boardsGraph.visit # 0
       /\ overlay = IF \E c \in charts : IsNewest(c, boardsGraph)
                    THEN <<boardsGraph.visit, boardsGraph.gen>> ELSE <<0, 0>>

\* Nothing was asked for before the first poll, and what is drawn was selected.
DrawnInv ==
  /\ ~polled => charts = {} /\ overlay = <<0, 0>> /\ chart.kind # "graph"
  /\ boardsGraph.queued => boardsGraph.open /\ ~polled
  /\ chart.kind = "graph" => boardsGraph.names # Charts!Unknown
  /\ Charts!ChartIsTheChoice

GraphInv == GraphTypes /\ NumbersInv /\ DrawnInv

ClanPages ==
  [open : BOOLEAN, loaded : BOOLEAN, period : BoardPeriods, skill : BoardSkills \cup {"none"},
   boards : Charts!Leaderboards, list : BOOLEAN, status : {"", "loading", "empty", "error"}]

\* A load or a failure is said of a page without boards, and only while it is so.
ClanInv ==
  /\ clan \in ClanPages /\ asks \subseteq BoardPeriods
  /\ clan.open =>
       /\ clan.status \in {"loading", "error"} => clan.boards.skills = {}
       /\ clan.status = "error" => ~clan.list
       /\ clan.loaded =>
            /\ asks = {} => clan.list \/ clan.status \in {"empty", "error"}
            /\ clan.status = "loading" => asks # {}

LEMMA SelectionsAreKnown == \A names \in SUBSET BoardNames : names # Charts!Unknown
BY BoardsStart DEF Charts!Unknown

\* createChart begins: a call of its own number, or nothing to draw.
LEMMA StartsWhole ==
  ASSUME GraphTypes, NumbersInv, NEW g \in GraphPages, g.open, g.visit # 0, CallsAreOf(g),
         NEW picture, picture.kind \in {"blank", "prompt", "failed", "graph"},
         picture.kind = "graph" => g.names # Charts!Unknown,
         Charts!Start(g, picture), polled' = TRUE
  PROVE  GraphInv'
<1> DEFINE call == [visit |-> g.visit, gen |-> g.gen + 1, period |-> g.period, names |-> g.names]
           h == [g EXCEPT !.gen = g.gen + 1, !.queued = FALSE]
<1>1. /\ call \in ChartCalls /\ call.visit = g.visit /\ call.gen = g.gen + 1
      /\ call.period = g.period /\ call.names = g.names
  BY DEF GraphPages, ChartCalls
<1>2. /\ h \in GraphPages /\ h.open /\ h.visit = g.visit /\ h.gen = g.gen + 1
      /\ h.period = g.period /\ h.names = g.names /\ ~h.queued
  <2>1. g.gen + 1 \in Nat
    BY DEF GraphPages
  <2>2. h \in GraphPages
    BY <2>1 DEF GraphPages
  <2> QED BY <2>1, <2>2 DEF GraphPages
<1>3. /\ boardsGraph' = h
      /\ IF g.names = {}
         THEN overlay' = <<0, 0>> /\ chart' = [kind |-> "prompt"] /\ charts' = charts
         ELSE /\ overlay' = <<call.visit, call.gen>> /\ charts' = charts \cup {call}
              /\ chart' = picture
  BY DEF Charts!Start, Charts!Call, Charts!Number, Charts!NoLoader
<1> HIDE DEF call, h
<1>4. g.visit \in Nat /\ g.gen \in Nat /\ \A c \in charts : c.visit \in Nat /\ c.gen \in Nat
  BY DEF GraphPages, GraphTypes, ChartCalls
<1>5. {} # Charts!Unknown
  BY SelectionsAreKnown
<1>6. \A c \in charts : ~IsNewest(c, h)
  BY <1>2, <1>4 DEF CallsAreOf, IsNewest
<1>7. CASE g.names = {}
  <2>1. GraphTypes'
    BY <1>2, <1>3, <1>7 DEF GraphTypes
  <2>2. NumbersInv'
    <3>1. charts' = charts /\ boardsGraph' = h /\ overlay' = <<0, 0>>
      BY <1>3, <1>7
    <3>2. CallsAreOf(boardsGraph)'
      BY <1>2, <1>4, <3>1 DEF CallsAreOf
    <3> QED BY <1>2, <1>6, <3>1, <3>2 DEF NumbersInv
  <2>3. DrawnInv'
    BY <1>2, <1>3, <1>7 DEF DrawnInv, Charts!ChartIsTheChoice
  <2> QED BY <2>1, <2>2, <2>3 DEF GraphInv
<1>8. CASE g.names # {}
  <2>1. GraphTypes'
    BY <1>1, <1>2, <1>3, <1>8 DEF GraphTypes
  <2>2. charts' = charts \cup {call} /\ boardsGraph' = h /\ overlay' = <<h.visit, h.gen>>
        /\ chart' = picture
    BY <1>1, <1>2, <1>3, <1>8
  <2>3. IsNewest(call, h)
    BY <1>1, <1>2 DEF IsNewest
  <2>4. NumbersInv'
    <3>1. \A c \in charts : c.visit = h.visit => c.gen < h.gen
      BY <1>2, <1>4 DEF CallsAreOf
    <3>2. CallsAreOf(boardsGraph)'
      BY <1>1, <1>2, <1>4, <2>2 DEF CallsAreOf
    <3>3. \A c, d \in charts' : c.visit = d.visit /\ c.gen = d.gen => c = d
      BY <1>1, <1>2, <1>4, <2>2, <3>1 DEF NumbersInv
    <3>4. \A c \in charts' : IsNewest(c, h) => c = call
      BY <1>6, <2>2
    <3> QED BY <1>1, <1>2, <2>2, <2>3, <3>2, <3>3, <3>4 DEF NumbersInv
  <2>5. DrawnInv'
    <3>1. Charts!ChartIsTheChoice'
      BY <2>2, <2>3 DEF Charts!ChartIsTheChoice, Charts!Calling, IsNewest
    <3> QED BY <1>2, <2>2, <3>1 DEF DrawnInv
  <2> QED BY <2>1, <2>4, <2>5 DEF GraphInv
<1> QED BY <1>7, <1>8

\* It begins at once, or after the first poll.
LEMMA DrawsWhole ==
  ASSUME GraphInv, NEW g \in GraphPages, g.open, g.visit # 0, CallsAreOf(g),
         NEW picture, picture.kind \in {"blank", "prompt", "failed", "graph"},
         picture.kind = "graph" => g.names # Charts!Unknown /\ polled,
         Charts!Draw(g, picture), polled' = polled
  PROVE  GraphInv'
<1>1. CASE polled
  BY <1>1, StartsWhole DEF Charts!Draw, GraphInv
<1>2. CASE ~polled
  <2> DEFINE h == [g EXCEPT !.queued = TRUE]
  <2>1. h \in GraphPages /\ h.open /\ h.visit = g.visit /\ h.queued /\ h.names = g.names
    BY DEF GraphPages
  <2>2. boardsGraph' = h /\ chart' = picture /\ overlay' = <<0, 0>> /\ charts' = charts
    BY <1>2 DEF Charts!Draw, Charts!NoLoader
  <2> HIDE DEF h
  <2>3. charts' = {}
    BY <1>2, <2>2 DEF GraphInv, DrawnInv
  <2>4. GraphTypes'
    BY <2>1, <2>2, <2>3 DEF GraphInv, GraphTypes
  <2>5. NumbersInv'
    BY <2>1, <2>2, <2>3 DEF NumbersInv, CallsAreOf
  <2>6. DrawnInv'
    BY <1>2, <2>1, <2>2, <2>3 DEF DrawnInv, Charts!ChartIsTheChoice
  <2> QED BY <2>4, <2>5, <2>6 DEF GraphInv
<1> QED BY <1>1, <1>2 DEF GraphInv, GraphTypes
LEMMA ChoicesKeep ==
  ASSUME GraphInv,
         \/ Charts!FirstPoll \/ Charts!Visit \/ Charts!Leave
         \/ \E period \in BoardPeriods : Charts!ChoosePeriod(period)
         \/ \E names \in SUBSET BoardNames : Charts!SelectNames(names)
  PROVE  GraphInv'
<1>1. /\ GraphTypes /\ NumbersInv /\ DrawnInv /\ boardsGraph \in GraphPages
      /\ CallsAreOf(boardsGraph) /\ polled \in BOOLEAN
      /\ chart.kind \in {"blank", "prompt", "failed", "graph"}
      /\ chart.kind = "graph" => boardsGraph.names # Charts!Unknown /\ polled
      /\ boardsGraph.open => boardsGraph.visit # 0
  BY DEF GraphInv, GraphTypes, NumbersInv, DrawnInv
<1>2. CASE Charts!FirstPoll
  <2>1. CASE boardsGraph.open /\ boardsGraph.queued
    <3>1. Charts!Start(boardsGraph, chart) /\ polled' = TRUE
      BY <1>2, <2>1 DEF Charts!FirstPoll
    <3> QED BY <1>1, <2>1, <3>1, StartsWhole
  <2>2. CASE ~(boardsGraph.open /\ boardsGraph.queued)
    <3>1. /\ boardsGraph' = boardsGraph /\ charts' = charts /\ chart' = chart
          /\ overlay' = overlay /\ polled' = TRUE /\ ~polled
      BY <1>2, <2>2 DEF Charts!FirstPoll
    <3>2. GraphTypes'
      BY <1>1, <3>1 DEF GraphTypes
    <3>3. NumbersInv'
      BY <1>1, <3>1 DEF NumbersInv, CallsAreOf, IsNewest
    <3>4. chart.kind # "graph"
      BY <1>1, <3>1
    <3>5. Charts!ChartIsTheChoice'
      BY <3>1, <3>4 DEF Charts!ChartIsTheChoice
    <3> QED BY <1>1, <2>2, <3>1, <3>2, <3>3, <3>4, <3>5 DEF GraphInv, DrawnInv
  <2> QED BY <2>1, <2>2
<1>3. CASE Charts!Visit
  <2> DEFINE g == [boardsGraph EXCEPT !.open = TRUE, !.visit = @ + 1, !.period = "Day", !.gen = 0]
  <2>1. Charts!Draw(g, Charts!Blank) /\ polled' = polled
    BY <1>3 DEF Charts!Visit
  <2>2. /\ g \in GraphPages /\ g.open /\ g.visit = boardsGraph.visit + 1
        /\ g.names = boardsGraph.names /\ boardsGraph.visit \in Nat
    <3>1. boardsGraph.visit + 1 \in Nat /\ "Day" \in BoardPeriods
      BY <1>1, BoardsStart DEF GraphPages
    <3>2. g \in GraphPages
      BY <1>1, <3>1 DEF GraphPages
    <3> QED BY <1>1, <3>1, <3>2 DEF GraphPages
  <2> HIDE DEF g
  <2>3. \A c \in charts : c.visit \in Nat
    BY <1>1 DEF GraphTypes, ChartCalls
  <2>4. CallsAreOf(g) /\ g.visit # 0
    BY <1>1, <2>2, <2>3 DEF CallsAreOf
  <2>5. Charts!Blank.kind = "blank"
    BY DEF Charts!Blank
  <2> QED BY <2>1, <2>2, <2>4, <2>5, DrawsWhole
<1>4. CASE Charts!Leave
  <2> DEFINE h == [boardsGraph EXCEPT !.open = FALSE, !.queued = FALSE]
  <2>1. /\ boardsGraph' = h /\ chart'.kind = "blank" /\ overlay' = <<0, 0>>
        /\ polled' = polled /\ charts' = charts
    BY <1>4 DEF Charts!Leave, Charts!Blank, Charts!NoLoader
  <2>2. /\ h \in GraphPages /\ ~h.open /\ ~h.queued /\ h.visit = boardsGraph.visit
        /\ h.gen = boardsGraph.gen /\ h.names = boardsGraph.names /\ h.period = boardsGraph.period
    BY <1>1 DEF GraphPages
  <2> HIDE DEF h
  <2>3. GraphTypes'
    BY <1>1, <2>1, <2>2 DEF GraphTypes
  <2>4. NumbersInv'
    BY <1>1, <2>1, <2>2 DEF NumbersInv, CallsAreOf, IsNewest
  <2>5. DrawnInv'
    BY <1>1, <2>1, <2>2 DEF DrawnInv, Charts!ChartIsTheChoice
  <2> QED BY <2>3, <2>4, <2>5 DEF GraphInv
<1>5. ASSUME NEW period \in BoardPeriods, Charts!ChoosePeriod(period) PROVE GraphInv'
  <2> DEFINE g == [boardsGraph EXCEPT !.period = period]
  <2>1. Charts!Draw(g, chart) /\ polled' = polled /\ boardsGraph.open
    BY <1>5 DEF Charts!ChoosePeriod
  <2>2. /\ g \in GraphPages /\ g.open /\ g.visit = boardsGraph.visit /\ g.gen = boardsGraph.gen
        /\ g.names = boardsGraph.names
    BY <1>1, <2>1 DEF GraphPages
  <2> HIDE DEF g
  <2>3. CallsAreOf(g) /\ g.visit # 0
    BY <1>1, <2>1, <2>2 DEF CallsAreOf
  <2> QED BY <1>1, <2>1, <2>2, <2>3, DrawsWhole
<1>6. ASSUME NEW names \in SUBSET BoardNames, Charts!SelectNames(names) PROVE GraphInv'
  <2> DEFINE g == [boardsGraph EXCEPT !.names = names]
  <2>1. Charts!Draw(g, chart) /\ polled' = polled /\ boardsGraph.open
        /\ boardsGraph.names # Charts!Unknown
    BY <1>6 DEF Charts!SelectNames
  <2>2. /\ g \in GraphPages /\ g.open /\ g.visit = boardsGraph.visit /\ g.gen = boardsGraph.gen
        /\ g.names = names
    BY <1>1, <2>1 DEF GraphPages
  <2> HIDE DEF g
  <2>3. CallsAreOf(g) /\ g.visit # 0 /\ g.names # Charts!Unknown
    BY <1>1, <2>1, <2>2, SelectionsAreKnown DEF CallsAreOf
  <2> QED BY <1>1, <2>1, <2>2, <2>3, DrawsWhole
<1> QED BY <1>2, <1>3, <1>4, <1>5, <1>6

\* An answer, or a failure, of a call: the newest one's is the page's.
LEMMA DataKeepsCharts ==
  ASSUME GraphInv, NEW c \in charts, Charts!DataArrives(c) \/ Charts!DataFails(c)
  PROVE  GraphInv'
<1>1. /\ GraphTypes /\ NumbersInv /\ DrawnInv /\ boardsGraph \in GraphPages
      /\ charts \subseteq ChartCalls /\ CallsAreOf(boardsGraph) /\ polled
      /\ boardsGraph' = boardsGraph /\ polled' = polled /\ charts' = charts \ {c}
      /\ c.names # Charts!Unknown /\ boardsGraph.names # Charts!Unknown /\ ~boardsGraph.queued
  BY DEF GraphInv, GraphTypes, NumbersInv, DrawnInv, CallsAreOf, Charts!DataArrives, Charts!DataFails
<1>2. /\ c.visit \in Nat \ {0} /\ c.gen \in Nat /\ boardsGraph.visit \in Nat /\ boardsGraph.gen \in Nat
  BY <1>1 DEF GraphPages, ChartCalls
<1>3. chart'.kind \in {"blank", "prompt", "failed", "graph"}
  BY <1>1 DEF GraphTypes, Charts!DataArrives, Charts!DataFails
<1>4. CASE IsNewest(c, boardsGraph)
  <2>1. \A d \in charts' : ~IsNewest(d, boardsGraph)
    BY <1>1, <1>4 DEF NumbersInv, IsNewest
  <2>2. boardsGraph.open => overlay' = <<0, 0>>
    <3>1. boardsGraph.open => overlay = <<c.visit, c.gen>>
      BY <1>1, <1>4 DEF NumbersInv, IsNewest
    <3> QED BY <1>4, <3>1 DEF Charts!DataArrives, Charts!DataFails, Charts!Number, Charts!IsCurrent,
                 Charts!NoLoader, IsNewest
  <2>3. NumbersInv'
    BY <1>1, <2>1, <2>2 DEF NumbersInv, CallsAreOf
  <2>4. Charts!ChartIsTheChoice'
    <3>1. CASE Charts!DataArrives(c)
      BY <1>1, <1>4, <3>1 DEF Charts!DataArrives, Charts!IsCurrent, Charts!ChartIsTheChoice, NumbersInv,
           IsNewest
    <3>2. CASE Charts!DataFails(c)
      BY <1>1, <3>2 DEF Charts!DataFails, Charts!ChartIsTheChoice
    <3> QED BY <3>1, <3>2
  <2> QED BY <1>1, <1>3, <2>3, <2>4 DEF GraphInv, GraphTypes, DrawnInv
<1>5. CASE ~IsNewest(c, boardsGraph)
  <2>1. \A d \in charts : IsNewest(d, boardsGraph) <=> d \in charts' /\ IsNewest(d, boardsGraph)
    BY <1>1, <1>5
  <2>2. boardsGraph.open => overlay' = overlay
    <3>1. overlay = <<c.visit, c.gen>> => ~boardsGraph.open
      BY <1>1, <1>2, <1>5 DEF NumbersInv, IsNewest
    <3> QED BY <3>1 DEF Charts!DataArrives, Charts!DataFails, Charts!Number
  <2>3. NumbersInv'
    BY <1>1, <2>1, <2>2 DEF NumbersInv, CallsAreOf, IsNewest
  <2>4. Charts!ChartIsTheChoice'
    <3>1. Charts!Calling' = Charts!Calling
      BY <1>1, <2>1 DEF Charts!Calling, IsNewest
    <3>2. CASE Charts!DataArrives(c)
      <4>1. CASE c.gen = boardsGraph.gen
        BY <1>1, <1>5, <3>2, <4>1, <3>1 DEF Charts!DataArrives, Charts!IsCurrent, Charts!ChartIsTheChoice,
             IsNewest, DrawnInv
      <4>2. CASE c.gen # boardsGraph.gen
        BY <1>1, <3>2, <4>2, <3>1 DEF Charts!DataArrives, Charts!IsCurrent, Charts!ChartIsTheChoice, DrawnInv
      <4> QED BY <4>1, <4>2
    <3>3. CASE Charts!DataFails(c)
      BY <1>1, <3>1, <3>3 DEF Charts!DataFails, Charts!ChartIsTheChoice, DrawnInv
    <3> QED BY <3>2, <3>3
  <2> QED BY <1>1, <1>3, <2>3, <2>4 DEF GraphInv, GraphTypes, DrawnInv
<1> QED BY <1>4, <1>5

\* The default selection answers all that wait for it; the newest call goes on with it.
LEMMA DefaultsKeepCharts ==
  ASSUME GraphInv, NEW names \in SUBSET BoardNames, Charts!DefaultsArrive(names)
  PROVE  GraphInv'
<1> DEFINE waiting == {c \in charts : c.names = Charts!Unknown}
           current == {w \in waiting : w.gen = boardsGraph.gen}
           Goes(c) == [c EXCEPT !.names = names, !.period = boardsGraph.period]
           goOn == IF names = {} THEN {} ELSE {Goes(c) : c \in current}
           h == [boardsGraph EXCEPT !.names = names]
<1>1. /\ GraphTypes /\ NumbersInv /\ DrawnInv /\ boardsGraph \in GraphPages
      /\ charts \subseteq ChartCalls /\ CallsAreOf(boardsGraph) /\ names # Charts!Unknown
      /\ polled' = polled
  BY SelectionsAreKnown DEF GraphInv, GraphTypes, NumbersInv, Charts!DefaultsArrive
<1>2. waiting # {} /\ boardsGraph.names = Charts!Unknown /\ polled /\ ~boardsGraph.queued
  BY <1>1 DEF CallsAreOf, DrawnInv, Charts!DefaultsArrive
<1>3. waiting = charts
  BY <1>1, <1>2 DEF CallsAreOf
<1>4. /\ boardsGraph' = h /\ charts' = (charts \ waiting) \cup goOn
      /\ overlay' = IF names = {} /\ overlay \in {Charts!Number(c) : c \in current}
                    THEN <<0, 0>> ELSE overlay
      /\ chart' = IF names = {} /\ boardsGraph.open /\ (\E c \in waiting : c.gen = boardsGraph.gen)
                  THEN [kind |-> "prompt"] ELSE chart
  BY <1>2 DEF Charts!DefaultsArrive, Charts!NoLoader
<1>5. /\ h \in GraphPages /\ h.open = boardsGraph.open /\ h.visit = boardsGraph.visit
      /\ h.gen = boardsGraph.gen /\ h.period = boardsGraph.period /\ h.names = names
      /\ h.queued = boardsGraph.queued
  BY <1>1 DEF GraphPages
<1>6. \A c \in charts : /\ Goes(c) \in ChartCalls /\ Goes(c).visit = c.visit /\ Goes(c).gen = c.gen
                        /\ Goes(c).names = names /\ Goes(c).period = boardsGraph.period
  <2>1. boardsGraph.period \in BoardPeriods
    BY <1>1 DEF GraphPages
  <2> QED BY <1>1, <2>1 DEF ChartCalls
<1> HIDE DEF h, Goes
<1>7. charts' = goOn
  BY <1>3, <1>4
<1>8. charts' \subseteq {Goes(c) : c \in current}
  BY <1>7
<1>9. chart'.kind \in {"blank", "prompt", "failed", "graph"} /\ chart'.kind # "graph"
  BY <1>1, <1>2, <1>4 DEF GraphTypes, DrawnInv
<1>10. GraphTypes'
  BY <1>1, <1>4, <1>5, <1>6, <1>8, <1>9 DEF GraphTypes
<1>11. NumbersInv'
  <2>1. CallsAreOf(boardsGraph)'
    BY <1>1, <1>4, <1>5, <1>6, <1>8 DEF CallsAreOf
  <2>2. \A c, d \in charts' : c.visit = d.visit /\ c.gen = d.gen => c = d
    BY <1>1, <1>6, <1>8 DEF NumbersInv
  <2>3. \A c \in charts' : c.period = boardsGraph'.period /\ c.names = boardsGraph'.names
    BY <1>4, <1>5, <1>6, <1>8
  <2>4. ASSUME boardsGraph.open
        PROVE  overlay' = IF \E c \in charts' : IsNewest(c, boardsGraph')
                          THEN <<boardsGraph'.visit, boardsGraph'.gen>> ELSE <<0, 0>>
    <3>1. overlay = IF \E c \in charts : IsNewest(c, boardsGraph)
                    THEN <<boardsGraph.visit, boardsGraph.gen>> ELSE <<0, 0>>
      BY <1>1, <2>4 DEF NumbersInv
    <3>2. CASE names # {}
      <4>1. (\E c \in charts : IsNewest(c, boardsGraph))
              <=> (\E c \in charts' : IsNewest(c, boardsGraph'))
        BY <1>3, <1>4, <1>5, <1>6, <1>7, <3>2 DEF IsNewest
      <4> QED BY <1>4, <1>5, <3>1, <3>2, <4>1
    <3>3. CASE names = {}
      <4>1. charts' = {}
        BY <1>7, <3>3
      <4>2. ASSUME NEW c \in charts, IsNewest(c, boardsGraph) PROVE overlay \in {Charts!Number(d) : d \in current}
        BY <1>3, <3>1, <4>2 DEF IsNewest, Charts!Number
      <4>3. overlay' = <<0, 0>>
        BY <1>4, <3>1, <3>3, <4>2
      <4> QED BY <4>1, <4>3
    <3> QED BY <3>2, <3>3
  <2> QED BY <1>1, <1>4, <1>5, <2>1, <2>2, <2>3, <2>4 DEF NumbersInv
<1>12. DrawnInv'
  BY <1>1, <1>2, <1>4, <1>5, <1>9 DEF DrawnInv, Charts!ChartIsTheChoice
<1> QED BY <1>10, <1>11, <1>12 DEF GraphInv

-----------------------------------------------------------------------------
\* renderGains says that there is nothing, if nothing else is said.
LEMMA GainsAreRendered ==
  ASSUME NEW c \in ClanPages
  PROVE  LET r == Charts!Rendered(c)
         IN  /\ r \in ClanPages /\ r.open = c.open /\ r.loaded = c.loaded /\ r.boards = c.boards
             /\ r.status = (IF ~r.list /\ c.status = "" THEN "empty" ELSE c.status)
<1> DEFINE shown1 == IF c.skill \in c.boards.skills THEN {c.skill} ELSE c.boards.skills
           list == \E s \in shown1 : s \in c.boards.filled
           said == IF ~list /\ c.status = "" THEN "empty" ELSE c.status
           r == Charts!Rendered(c)
<1>1. r = [c EXCEPT !.list = list, !.status = said]
  BY DEF Charts!Rendered
<1>2. list \in BOOLEAN /\ said \in {"", "loading", "empty", "error"}
  BY DEF ClanPages
<1>3. said = IF ~list /\ c.status = "" THEN "empty" ELSE c.status
  OBVIOUS
<1> HIDE DEF list, said, r
<1>4. r \in ClanPages
  BY <1>1, <1>2 DEF ClanPages
<1> QED BY <1>1, <1>3, <1>4 DEF ClanPages, r

LEMMA GainsAreAsked ==
  ASSUME NEW c \in ClanPages
  PROVE  LET r == Charts!Asked(c)
         IN  /\ r \in ClanPages /\ r.open = c.open /\ r.loaded = c.loaded /\ r.boards = c.boards
             /\ r.list = c.list
             /\ r.status = (IF c.boards.skills = {} THEN "loading" ELSE "")
BY DEF Charts!Asked, ClanPages

LEMMA ClanKeeps ==
  ASSUME ClanInv,
         \/ Charts!LeaveClan \/ Charts!RefreshGains
         \/ \E history \in BOOLEAN : Charts!VisitClan(history)
         \/ \E period \in BoardPeriods : Charts!ChooseGains(period)
         \/ \E skill \in BoardSkills : Charts!ChooseSkill(skill)
         \/ \E period \in asks : \/ Charts!GainsFail(period)
                                 \/ \E boards \in Charts!Leaderboards : Charts!GainsArrive(period, boards)
  PROVE  ClanInv'
<1>1. clan \in ClanPages /\ asks \subseteq BoardPeriods
  BY DEF ClanInv
<1>2. "Day" \in BoardPeriods /\ Charts!NoBoards \in Charts!Leaderboards /\ Charts!NoBoards.skills = {}
  BY BoardsStart DEF Charts!NoBoards, Charts!Leaderboards
<1>3. CASE Charts!LeaveClan
  <2> DEFINE c == [clan EXCEPT !.open = FALSE]
  <2>1. c \in ClanPages /\ ~c.open
    BY <1>1 DEF ClanPages
  <2> QED BY <1>1, <1>3, <2>1 DEF Charts!LeaveClan, ClanInv
<1>4. CASE Charts!RefreshGains
  <2>1. clan' = Charts!Asked(clan) /\ asks' = asks \cup {clan.period} /\ clan.open
    BY <1>4 DEF Charts!RefreshGains
  <2>2. asks' # {} /\ asks' \subseteq BoardPeriods
    BY <1>1, <2>1 DEF ClanPages
  <2> QED BY <1>1, <2>1, <2>2, GainsAreAsked DEF ClanInv
<1>5. ASSUME NEW history \in BOOLEAN, Charts!VisitClan(history) PROVE ClanInv'
  <2> DEFINE f == Charts!FreshClan(clan)
             g == [f EXCEPT !.loaded = TRUE]
  <2>1. /\ f \in ClanPages /\ f.open /\ ~f.loaded /\ f.boards.skills = {} /\ f.status = ""
    BY <1>1, <1>2 DEF Charts!FreshClan, ClanPages
  <2> HIDE DEF f
  <2>2. CASE history
    <3>1. clan' = Charts!Asked(g) /\ asks' = asks \cup {"Day"}
      BY <1>5, <2>2 DEF Charts!VisitClan, f
    <3>2. g \in ClanPages /\ g.open /\ g.boards.skills = {}
      BY <2>1 DEF ClanPages
    <3> HIDE DEF g
    <3> QED BY <1>1, <1>2, <3>1, <3>2, GainsAreAsked DEF ClanInv
  <2>3. CASE ~history
    <3>1. clan' = f /\ asks' = asks
      BY <1>5, <2>3 DEF Charts!VisitClan, f
    <3> QED BY <1>1, <2>1, <3>1 DEF ClanInv
  <2> QED BY <2>2, <2>3
<1>6. ASSUME NEW period \in BoardPeriods, Charts!ChooseGains(period) PROVE ClanInv'
  <2> DEFINE g == [clan EXCEPT !.period = period]
  <2>1. clan' = Charts!Asked(g) /\ asks' = asks \cup {period}
    BY <1>6 DEF Charts!ChooseGains
  <2>2. g \in ClanPages /\ g.open = clan.open
    BY <1>1 DEF ClanPages
  <2> HIDE DEF g
  <2> QED BY <1>1, <2>1, <2>2, GainsAreAsked DEF ClanInv
<1>7. ASSUME NEW skill \in BoardSkills, Charts!ChooseSkill(skill) PROVE ClanInv'
  <2> DEFINE g == [clan EXCEPT !.skill = skill]
  <2>1. clan' = Charts!Rendered(g) /\ asks' = asks /\ clan.open /\ clan.boards.skills # {}
    BY <1>7 DEF Charts!ChooseSkill
  <2>2. /\ g \in ClanPages /\ g.open = clan.open /\ g.loaded = clan.loaded
        /\ g.boards = clan.boards /\ g.status = clan.status
    BY <1>1 DEF ClanPages
  <2> HIDE DEF g
  <2>3. g.status \in {"", "empty"}
    BY <1>1, <2>1, <2>2 DEF ClanInv, ClanPages
  <2> QED BY <1>1, <2>1, <2>2, <2>3, GainsAreRendered DEF ClanInv
<1>8. ASSUME NEW period \in asks, Charts!GainsFail(period) PROVE ClanInv'
  <2> DEFINE g == [clan EXCEPT !.boards = Charts!NoBoards, !.list = FALSE, !.status = "error"]
  <2>1. g \in ClanPages /\ g.boards.skills = {} /\ ~g.list /\ g.status = "error"
    BY <1>1, <1>2 DEF ClanPages
  <2>2. clan' = (IF clan.open THEN g ELSE clan) /\ asks' = asks \ {period}
    BY <1>8 DEF Charts!GainsFail
  <2> HIDE DEF g
  <2> QED BY <1>1, <2>1, <2>2 DEF ClanInv
<1>9. ASSUME NEW period \in asks, NEW boards \in Charts!Leaderboards,
             Charts!GainsArrive(period, boards)
      PROVE  ClanInv'
  <2>1. asks' = asks \ {period}
    BY <1>9 DEF Charts!GainsArrive
  <2>2. CASE ~clan.open
    BY <1>1, <1>9, <2>1, <2>2 DEF Charts!GainsArrive, ClanInv
  <2>3. CASE clan.open
    <3>1. PICK first \in IF boards.skills = {} THEN {"none"} ELSE boards.skills :
            clan' = Charts!Rendered([clan EXCEPT !.boards = boards,
                      !.skill = IF clan.skill \in boards.skills THEN clan.skill ELSE first,
                      !.status = ""])
      BY <1>9, <2>3 DEF Charts!GainsArrive
    <3> DEFINE skill == IF clan.skill \in boards.skills THEN clan.skill ELSE first
               g == [clan EXCEPT !.boards = boards, !.skill = skill, !.status = ""]
    <3>2. skill \in BoardSkills \cup {"none"}
      BY <1>1 DEF Charts!Leaderboards, ClanPages
    <3>3. clan' = Charts!Rendered(g)
      BY <3>1
    <3> HIDE DEF skill
    <3>4. g \in ClanPages /\ g.status = ""
      BY <1>1, <3>2 DEF ClanPages
    <3> HIDE DEF g
    <3> QED BY <1>1, <2>1, <3>3, <3>4, GainsAreRendered DEF ClanInv
  <2> QED BY <2>2, <2>3
<1> QED BY <1>3, <1>4, <1>5, <1>6, <1>7, <1>8, <1>9

-----------------------------------------------------------------------------
BoardsInv == GraphInv /\ ClanInv

LEMMA BoardsInit == Charts!Init => BoardsInv
<1> SUFFICES ASSUME Charts!Init PROVE BoardsInv
  OBVIOUS
<1>1. GraphInv
  BY BoardsStart DEF Charts!Init, Charts!Blank, Charts!NoLoader, GraphInv, GraphTypes, NumbersInv,
     DrawnInv, CallsAreOf, GraphPages, Charts!ChartIsTheChoice
<1>2. ClanInv
  BY BoardsStart DEF Charts!Init, ClanInv, ClanPages, Charts!NoBoards, Charts!Leaderboards
<1> QED BY <1>1, <1>2 DEF BoardsInv

LEMMA BoardsNext == ASSUME BoardsInv, Charts!Next PROVE BoardsInv'
<1>1. ASSUME UNCHANGED <<clan, asks>>, GraphInv' PROVE BoardsInv'
  BY <1>1 DEF BoardsInv, ClanInv
<1>2. ASSUME UNCHANGED <<polled, boardsGraph, charts, chart, overlay>>, ClanInv' PROVE BoardsInv'
  <2>1. GraphTypes'
    BY <1>2 DEF BoardsInv, GraphInv, GraphTypes
  <2>2. NumbersInv'
    BY <1>2 DEF BoardsInv, GraphInv, NumbersInv, CallsAreOf, IsNewest
  <2>3. DrawnInv'
    BY <1>2 DEF BoardsInv, GraphInv, DrawnInv, Charts!ChartIsTheChoice, Charts!Calling
  <2> QED BY <1>2, <2>1, <2>2, <2>3 DEF BoardsInv, GraphInv
<1>3. CASE \/ Charts!FirstPoll \/ Charts!Visit \/ Charts!Leave
           \/ \E period \in BoardPeriods : Charts!ChoosePeriod(period)
           \/ \E names \in SUBSET BoardNames : Charts!SelectNames(names)
  <2>1. GraphInv'
    BY <1>3, ChoicesKeep DEF BoardsInv
  <2>2. UNCHANGED <<clan, asks>>
    BY <1>3 DEF Charts!FirstPoll, Charts!Visit, Charts!Leave, Charts!ChoosePeriod, Charts!SelectNames,
       Charts!clanVars
  <2> QED BY <1>1, <2>1, <2>2
<1>4. ASSUME NEW names \in SUBSET BoardNames, Charts!DefaultsArrive(names) PROVE BoardsInv'
  BY <1>1, <1>4, DefaultsKeepCharts DEF BoardsInv, Charts!DefaultsArrive, Charts!clanVars
<1>5. ASSUME NEW c \in charts, Charts!DataArrives(c) \/ Charts!DataFails(c) PROVE BoardsInv'
  BY <1>1, <1>5, DataKeepsCharts DEF BoardsInv, Charts!DataArrives, Charts!DataFails, Charts!clanVars
<1>6. CASE \/ Charts!LeaveClan \/ Charts!RefreshGains
           \/ \E history \in BOOLEAN : Charts!VisitClan(history)
           \/ \E period \in BoardPeriods : Charts!ChooseGains(period)
           \/ \E skill \in BoardSkills : Charts!ChooseSkill(skill)
           \/ \E period \in asks : \/ Charts!GainsFail(period)
                                   \/ \E boards \in Charts!Leaderboards : Charts!GainsArrive(period, boards)
  <2>1. ClanInv'
    BY <1>6, ClanKeeps DEF BoardsInv
  <2>2. UNCHANGED <<polled, boardsGraph, charts, chart, overlay>>
    BY <1>6 DEF Charts!LeaveClan, Charts!RefreshGains, Charts!VisitClan, Charts!ChooseGains,
       Charts!ChooseSkill, Charts!GainsFail, Charts!GainsArrive, Charts!graphVars
  <2> QED BY <1>2, <2>1, <2>2
<1> QED BY <1>3, <1>4, <1>5, <1>6 DEF Charts!Next

LEMMA BoardsInvHolds == BoardsInv => Charts!BoardsHold
<1> SUFFICES ASSUME BoardsInv PROVE Charts!BoardsHold
  OBVIOUS
<1>1. Charts!TypeOK
  BY DEF BoardsInv, GraphInv, GraphTypes, GraphPages, ClanInv, Charts!TypeOK
<1>2. Charts!ChartIsTheChoice
  BY DEF BoardsInv, GraphInv, DrawnInv
<1>3. Charts!LoaderWhileCalling
  BY DEF BoardsInv, GraphInv, GraphTypes, GraphPages, NumbersInv, IsNewest, Charts!LoaderWhileCalling,
     Charts!Calling, Charts!NoLoader
<1>4. Charts!GainsSayWhy
  BY DEF BoardsInv, ClanInv, Charts!GainsSayWhy
<1> QED BY <1>1, <1>2, <1>3, <1>4 DEF Charts!BoardsHold

\* Whatever is chosen while answers are under way: once the newest call is answered, a chart is
\* of the players and the period chosen, however old calls ended and whenever the page was
\* visited; the loader covers the page exactly while that call is under way; and the gains never
\* are blank without a word (skills-graphs.js createChart; clan-page.js loadGains).
THEOREM ChartsAreTheChoice == MCSpec => []BoardsHold
<1> DEFINE IInv == part = "boards" => BoardsInv
<1>1. MCInit => IInv
  BY BoardsInit DEF MCInit
<1>2. IInv /\ [MCNext]_allVars => IInv'
  <2> SUFFICES ASSUME IInv, [MCNext]_allVars, part' = "boards" PROVE BoardsInv'
    OBVIOUS
  <2>1. CASE OfBoards
    BY <2>1, BoardsNext DEF OfBoards
  <2>2. CASE UNCHANGED <<part, boardsVars>>
    BY <2>2 DEF boardsVars, BoardsInv, GraphInv, GraphTypes, NumbersInv, DrawnInv, ClanInv, CallsAreOf,
       IsNewest, Charts!ChartIsTheChoice, Charts!Calling
  <2>3. CASE UNCHANGED allVars
    BY <2>2, <2>3 DEF allVars
  <2>4. CASE OfView \/ OfMarkers \/ OfReplay \/ OfTrails \/ OfPlayers
    BY <2>4 DEF OfView, OfMarkers, OfReplay, OfTrails, OfPlayers
  <2>5. CASE OfLife \/ OfHistory \/ OfGear \/ OfToasts \/ OfSessions
    BY <2>5 DEF OfLife, OfHistory, OfGear, OfToasts, OfSessions
  <2> QED BY <2>1, <2>3, <2>4, <2>5 DEF MCNext
<1>3. IInv => BoardsHold
  BY BoardsInvHolds DEF BoardsHold
<1> QED BY <1>1, <1>2, <1>3, PTL DEF MCSpec

-----------------------------------------------------------------------------
(* PlayerViews: the lists of players and the profile.                       *)

\* What is known of a member came with what they share, and is no more than that.
SharedOnly(m) ==
  IF m.meta = Players!NoMeta THEN m.world = 0 /\ m.at = Players!Nowhere
  ELSE /\ "activity" \notin m.meta.cats => m.world = 0 /\ m.meta.told = Players!Untold
       /\ "location" \notin m.meta.cats => m.at = Players!Nowhere

TabRequests == [what : {"gains", "sessions", "feed"} \cup DOMAIN Players!Needs, period : GainPeriods \cup {"-"}]
TabLoads == [name : ViewedPlayers, tab : Players!Tabs, ask : TabRequests, here : BOOLEAN]

\* Requests that still have a section to land in are the open tab's.
LoadsInv(ls, v, tab) ==
  /\ ls \subseteq TabLoads
  /\ \A l \in ls : l.here => v # Players!Closed /\ l.name = v.name /\ l.tab = tab

ListsInv ==
  /\ Players!ListsAgree /\ table.open \in BOOLEAN
  /\ roster = [rows |-> roster.rows, order |-> roster.order, status |-> roster.status]
  /\ table = [open |-> table.open, rows |-> table.rows, order |-> table.order,
              status |-> table.status, descending |-> table.descending]

HeaderType == [online : BOOLEAN, world : 0..1, region : NamedPlaces \cup {Players!NoName}, told : 0..1, follow : BOOLEAN]

LEMMA MemberFields ==
  ASSUME NEW m \in Players!Members
  PROVE  /\ m.online \in BOOLEAN /\ m.world \in 0..1 /\ m.at \in NamedPlaces \cup UnnamedPlaces \cup {Players!Nowhere}
         /\ m.region \in NamedPlaces \cup {Players!Unset, Players!NoName}
         /\ m.meta = Players!NoMeta \/ m.meta \in [cats : SharedCategories, told : 0..1]
         /\ m.meta # Players!NoMeta => m.meta.cats \in SharedCategories /\ m.meta.told \in 0..1
         /\ m = [online |-> m.online, world |-> m.world, at |-> m.at, region |-> m.region, meta |-> m.meta]
         /\ m # Players!Gone
BY DEF Players!Members, Players!Gone, Players!NoMeta

LEMMA RowsAreThere == \A m : Players!RosterRow(m) # Players!Gone /\ Players!TableRow(m) # Players!Gone
<1> SUFFICES ASSUME NEW m PROVE Players!RosterRow(m) # Players!Gone /\ Players!TableRow(m) # Players!Gone
  OBVIOUS
<1>1. "told" \in DOMAIN Players!RosterRow(m) /\ "told" \in DOMAIN Players!TableRow(m) /\ "told" \notin DOMAIN Players!Gone
  BY DEF Players!RosterRow, Players!TableRow, Players!Gone
<1> QED BY <1>1

LEMMA DrawnTypes ==
  ASSUME NEW m \in Players!Members, Players!ViewConstants
  PROVE  /\ Players!Header(m) \in HeaderType /\ Players!Told(m) \in 0..1 /\ Players!Prayers(m) \in -1..1 /\ Players!World(m) \in 0..1
         /\ Players!SharedNow(m) \in SharedCategories \cup {Players!NoCategories}
<1>1. Players!Told(m) \in 0..1 /\ Players!World(m) \in 0..1
  BY MemberFields DEF Players!Told, Players!World, Players!Untold
<1>2. Players!Prayers(m) \in -1..1
  BY <1>1 DEF Players!Prayers
<1>3. Players!SharedNow(m) \in SharedCategories \cup {Players!NoCategories}
  BY MemberFields DEF Players!SharedNow
<1>4. Players!Header(m) \in HeaderType
  BY <1>1, MemberFields DEF Players!Header, HeaderType
<1> QED BY <1>1, <1>2, <1>3, <1>4

LEMMA ViewFields ==
  ASSUME NEW v \in Players!View
  PROVE  /\ v.name \in ViewedPlayers /\ v.shared \in SharedCategories \cup {Players!NoCategories} /\ v.header \in HeaderType
         /\ v.vitals \in BOOLEAN /\ v.denied \in BOOLEAN /\ v.prayers \in -1..1 /\ v.status \in 0..1
         /\ v.rows \subseteq Players!Part /\ v.errors \subseteq Players!Part
         /\ v = [name |-> v.name, shared |-> v.shared, header |-> v.header, vitals |-> v.vitals, denied |-> v.denied,
                 prayers |-> v.prayers, status |-> v.status, rows |-> v.rows, errors |-> v.errors]
BY DEF Players!View, HeaderType

\* What a step draws of an open profile, and what it leaves.
LEMMA RedrawnIs ==
  ASSUME NEW v \in Players!View, NEW m \in Players!Members, NEW topics, Players!ViewConstants
  PROVE  /\ Players!Redrawn(v, m, topics) \in Players!View
         /\ Players!Redrawn(v, m, topics).name = v.name /\ Players!Redrawn(v, m, topics).shared = v.shared
         /\ Players!Redrawn(v, m, topics).vitals = v.vitals /\ Players!Redrawn(v, m, topics).denied = v.denied
         /\ Players!Redrawn(v, m, topics).rows = v.rows /\ Players!Redrawn(v, m, topics).errors = v.errors
         /\ Players!Redrawn(v, m, topics).header = IF topics # {} THEN Players!Header(m) ELSE v.header
         /\ Players!Redrawn(v, m, topics).prayers = IF v.vitals /\ topics \cap {"presence", "meta"} # {} THEN Players!Prayers(m) ELSE v.prayers
         /\ Players!Redrawn(v, m, topics).status = IF v.vitals /\ "meta" \in topics THEN Players!Told(m) ELSE v.status
<1> DEFINE h == IF topics # {} THEN Players!Header(m) ELSE v.header
           pr == IF v.vitals /\ topics \cap {"presence", "meta"} # {} THEN Players!Prayers(m) ELSE v.prayers
           st == IF v.vitals /\ "meta" \in topics THEN Players!Told(m) ELSE v.status
           w == [name |-> v.name, shared |-> v.shared, header |-> h, vitals |-> v.vitals, denied |-> v.denied,
                 prayers |-> pr, status |-> st, rows |-> v.rows, errors |-> v.errors]
<1>5. Players!Redrawn(v, m, topics) = [v EXCEPT !.header = h, !.prayers = pr, !.status = st]
  BY DEF Players!Redrawn
<1>2. h \in HeaderType /\ pr \in -1..1 /\ st \in 0..1
  BY DrawnTypes, ViewFields
<1> HIDE DEF h, pr, st
<1>1. Players!Redrawn(v, m, topics) = w
  BY <1>5, ViewFields
<1>3. w \in Players!View
  BY <1>2, ViewFields DEF Players!View, HeaderType
<1>4. /\ w.name = v.name /\ w.shared = v.shared /\ w.vitals = v.vitals /\ w.denied = v.denied
      /\ w.rows = v.rows /\ w.errors = v.errors /\ w.header = h /\ w.prayers = pr /\ w.status = st
  OBVIOUS
<1> QED BY <1>1, <1>3, <1>4 DEF h, pr, st

\* A body made anew.
LEMMA BodyIs ==
  ASSUME NEW v \in Players!View, NEW m \in Players!Members, NEW tab, Players!ViewConstants
  PROVE  /\ Players!Body(v, tab, m) \in Players!View
         /\ Players!Body(v, tab, m).name = v.name /\ Players!Body(v, tab, m).shared = v.shared /\ Players!Body(v, tab, m).header = v.header
         /\ Players!Body(v, tab, m).vitals <=> tab = "overview" /\ Players!MayShow(m, "activity")
         /\ Players!Body(v, tab, m).denied <=> Players!Denied(tab, m)
         /\ Players!Body(v, tab, m).rows = {} /\ Players!Body(v, tab, m).errors = {}
         /\ Players!Body(v, tab, m).vitals => Players!Body(v, tab, m).prayers = Players!Prayers(m) /\ Players!Body(v, tab, m).status = Players!Told(m)
<1> DEFINE vt == tab = "overview" /\ Players!MayShow(m, "activity")
           pr == IF vt THEN Players!Prayers(m) ELSE Players!Untold
           st == IF vt THEN Players!Told(m) ELSE Players!Untold
<1> DEFINE dn == Players!Denied(tab, m)
<1>7. Players!Body(v, tab, m) = [v EXCEPT !.vitals = vt, !.prayers = pr, !.status = st, !.denied = dn, !.rows = {}, !.errors = {}]
  BY DEF Players!Body
<1>2. vt \in BOOLEAN /\ dn \in BOOLEAN
  BY DEF Players!Denied
<1>3. pr \in -1..1 /\ st \in 0..1 /\ (vt => pr = Players!Prayers(m) /\ st = Players!Told(m))
  BY DrawnTypes DEF Players!Untold
<1>6. vt <=> tab = "overview" /\ Players!MayShow(m, "activity")
  BY DEF vt
<1> HIDE DEF vt, pr, st
<1> DEFINE w == [v EXCEPT !.vitals = vt, !.prayers = pr, !.status = st, !.denied = dn, !.rows = {}, !.errors = {}]
<1> HIDE DEF dn
<1>4. w \in Players!View
  BY <1>2, <1>3 DEF Players!View
<1>5. /\ w.name = v.name /\ w.shared = v.shared /\ w.header = v.header /\ w.vitals = vt /\ w.denied = dn
      /\ w.rows = {} /\ w.errors = {} /\ w.prayers = pr /\ w.status = st
  BY ViewFields
<1> HIDE DEF w
<1>8. Players!Body(v, tab, m) = w
  BY <1>7 DEF w
<1> QED BY <1>2, <1>3, <1>4, <1>5, <1>6, <1>8 DEF dn

LEMMA ListsStay == ListsInv /\ UNCHANGED <<store, roster, table>> => ListsInv'
BY DEF ListsInv, Players!ListsAgree

\* The lists after members changed: whoever did is drawn again, whoever didn't is as they were.
LEMMA PublishKeeps ==
  ASSUME ListsInv, NEW st, NEW touched \in SUBSET ViewedPlayers, NEW listed \in BOOLEAN,
         store \in [ViewedPlayers -> Players!Members \cup {Players!Gone}], st \in [ViewedPlayers -> Players!Members \cup {Players!Gone}],
         store' = st, Players!Publish(st, touched, listed),
         \A p \in ViewedPlayers : p \notin touched => st[p] = store[p],
         ~listed => \A p \in ViewedPlayers : st[p] = Players!Gone <=> store[p] = Players!Gone
  PROVE  ListsInv'
<1>1. CASE touched = {} /\ ~listed
  <2>1. st = store
    BY <1>1
  <2>2. UNCHANGED <<store, roster, table>>
    BY <1>1, <2>1 DEF Players!Publish, Players!listVars
  <2> QED BY <2>2, ListsStay
<1>2. CASE ~(touched = {} /\ ~listed)
  <2> DEFINE rosterRow(p) == IF st[p] = Players!Gone THEN Players!Gone ELSE Players!RosterRow(st[p])
             redrawn == [p \in ViewedPlayers |->
                         IF listed THEN rosterRow(p)
                         ELSE IF p \in touched /\ roster.rows[p] # Players!Gone /\ st[p] # Players!Gone THEN rosterRow(p)
                         ELSE roster.rows[p]]
             fresh(p) == (p \in touched \/ (listed /\ table.rows[p] = Players!Gone)) /\ st[p] # Players!Gone
             filled == [p \in ViewedPlayers |->
                          IF fresh(p) THEN Players!TableRow(st[p])
                          ELSE IF (listed \/ p \in touched) /\ st[p] = Players!Gone THEN Players!Gone
                          ELSE table.rows[p]]
  <2>1. /\ roster' = [roster EXCEPT !.rows = redrawn, !.order = Players!Sorted(st, roster.status, FALSE)]
        /\ table' = IF table.open
                    THEN [table EXCEPT !.rows = filled, !.order = Players!Sorted(st, table.status, table.descending)]
                    ELSE table
    BY <1>2 DEF Players!Publish, Players!RosterAfter, Players!TableAfter
  <2>2. redrawn = [p \in ViewedPlayers |-> IF st[p] = Players!Gone THEN Players!Gone ELSE Players!RosterRow(st[p])]
    <3>1. ASSUME NEW p \in ViewedPlayers PROVE redrawn[p] = IF st[p] = Players!Gone THEN Players!Gone ELSE Players!RosterRow(st[p])
      <4>1. roster.rows[p] = IF store[p] = Players!Gone THEN Players!Gone ELSE Players!RosterRow(store[p])
        BY DEF ListsInv, Players!ListsAgree
      <4>2. (roster.rows[p] = Players!Gone) <=> (store[p] = Players!Gone)
        BY <4>1, RowsAreThere
      <4> QED BY <4>1, <4>2
    <3> QED BY <3>1
  <2>3. table.open => filled = [p \in ViewedPlayers |-> IF st[p] = Players!Gone THEN Players!Gone ELSE Players!TableRow(st[p])]
    <3>1. ASSUME table.open, NEW p \in ViewedPlayers PROVE filled[p] = IF st[p] = Players!Gone THEN Players!Gone ELSE Players!TableRow(st[p])
      <4>1. table.rows[p] = IF store[p] = Players!Gone THEN Players!Gone ELSE Players!TableRow(store[p])
        BY <3>1 DEF ListsInv, Players!ListsAgree
      <4>2. (table.rows[p] = Players!Gone) <=> (store[p] = Players!Gone)
        BY <4>1, RowsAreThere
      <4> QED BY <4>1, <4>2
    <3> QED BY <3>1
  <2> HIDE DEF redrawn, filled
  <2>4. roster' = [rows |-> redrawn, order |-> Players!Sorted(st, roster.status, FALSE), status |-> roster.status]
    BY <2>1 DEF ListsInv
  <2>5. CASE table.open
    <3>1. table' = [open |-> table.open, rows |-> filled, order |-> Players!Sorted(st, table.status, table.descending),
                    status |-> table.status, descending |-> table.descending]
      BY <2>1, <2>5 DEF ListsInv
    <3> QED BY <2>2, <2>3, <2>4, <2>5, <3>1 DEF ListsInv, Players!ListsAgree
  <2>6. CASE ~table.open
    <3>1. table' = table
      BY <2>1, <2>6
    <3> QED BY <2>2, <2>4, <2>6, <3>1 DEF ListsInv, Players!ListsAgree
  <2> QED BY <2>5, <2>6
<1> QED BY <1>1, <1>2

LEMMA FilterKeeps == ASSUME ListsInv, NEW status \in Players!Statuses, Players!FilterRoster(status) PROVE ListsInv'
<1>1. /\ roster' = [rows |-> roster.rows, order |-> Players!Sorted(store, status, FALSE), status |-> status]
      /\ store' = store /\ table' = table
  BY DEF Players!FilterRoster, ListsInv, Players!dataVars
<1> QED BY <1>1 DEF ListsInv, Players!ListsAgree

LEMMA ArrangeKeeps == ASSUME ListsInv, NEW status \in Players!Statuses, NEW d \in BOOLEAN, Players!ArrangeTable(status, d) PROVE ListsInv'
<1>1. /\ table' = [open |-> table.open, rows |-> table.rows, order |-> Players!Sorted(store, status, d),
                   status |-> status, descending |-> d]
      /\ store' = store /\ roster' = roster
  BY DEF Players!ArrangeTable, ListsInv, Players!dataVars
<1> QED BY <1>1 DEF ListsInv, Players!ListsAgree

LEMMA VisitTableKeeps == ASSUME ListsInv, Players!VisitTable PROVE ListsInv'
<1>1. store' = store /\ roster' = roster
  BY DEF Players!VisitTable, Players!dataVars
<1>2. CASE table.open
  <2>1. table' = [open |-> FALSE, rows |-> table.rows, order |-> table.order,
                  status |-> table.status, descending |-> table.descending]
    BY <1>2 DEF Players!VisitTable, ListsInv
  <2> QED BY <1>1, <2>1 DEF ListsInv, Players!ListsAgree
<1>3. CASE ~table.open
  <2>1. table' = [open |-> TRUE, rows |-> [p \in ViewedPlayers |-> IF store[p] = Players!Gone THEN Players!Gone ELSE Players!TableRow(store[p])],
                  order |-> Players!Sorted(store, table.status, table.descending),
                  status |-> table.status, descending |-> table.descending]
    BY <1>3 DEF Players!VisitTable, ListsInv
  <2> QED BY <1>1, <2>1 DEF ListsInv, Players!ListsAgree
<1> QED BY <1>2, <1>3

LEMMA OnlineSet ==
  ASSUME NEW m \in Players!Members, NEW x \in BOOLEAN
  PROVE  LET n == [m EXCEPT !.online = x] IN
           n \in Players!Members /\ n.online = x /\ n.world = m.world /\ n.at = m.at /\ n.region = m.region /\ n.meta = m.meta
BY DEF Players!Members

LEMMA WorldSet ==
  ASSUME NEW m \in Players!Members, NEW x \in 0..1
  PROVE  LET n == [m EXCEPT !.world = x] IN
           n \in Players!Members /\ n.online = m.online /\ n.world = x /\ n.at = m.at /\ n.region = m.region /\ n.meta = m.meta
BY DEF Players!Members

LEMMA MetaSet ==
  ASSUME NEW m \in Players!Members, NEW x \in [cats : SharedCategories, told : 0..1]
  PROVE  LET n == [m EXCEPT !.meta = x] IN
           n \in Players!Members /\ n.online = m.online /\ n.world = m.world /\ n.at = m.at /\ n.region = m.region /\ n.meta = x
BY DEF Players!Members

LEMMA MovedIs ==
  ASSUME NEW m \in Players!Members, NEW x \in NamedPlaces \cup UnnamedPlaces \cup {Players!Nowhere}, NEW known
  PROVE  LET n == Players!Moved(known, m, x) IN
           n \in Players!Members /\ n.online = m.online /\ n.world = m.world /\ n.at = x /\ n.region = Players!RegionOf(known, x) /\ n.meta = m.meta
<1> DEFINE reg == Players!RegionOf(known, x)
<1>1. reg \in NamedPlaces \cup {Players!Unset, Players!NoName}
  BY DEF Players!RegionOf
<1> HIDE DEF reg
<1>2. LET n == [m EXCEPT !.at = x, !.region = reg] IN
        n \in Players!Members /\ n.online = m.online /\ n.world = m.world /\ n.at = x /\ n.region = reg /\ n.meta = m.meta
  BY <1>1 DEF Players!Members
<1> QED BY <1>2 DEF Players!Moved, reg

LEMMA SameMember ==
  ASSUME NEW m \in Players!Members, NEW n \in Players!Members,
         m.online = n.online, m.world = n.world, m.at = n.at, m.region = n.region, m.meta = n.meta
  PROVE  m = n
BY MemberFields

LEMMA ServedFields ==
  ASSUME NEW r \in Players!Served
  PROVE  /\ r.online \in BOOLEAN /\ r.cats \in SharedCategories /\ r.world \in 0..1 /\ r.told \in 0..1
         /\ r.at \in NamedPlaces \cup UnnamedPlaces \cup {Players!Nowhere}
         /\ "activity" \notin r.cats => r.world = 0 /\ r.told = Players!Untold
         /\ "location" \notin r.cats => r.at = Players!Nowhere
BY DEF Players!Served, Players!Untold

\* The member after each step of a poll that brings r, and what is published.
StepsTo(m0, r, brought, m1, m2, m3, m4, m5, m6) ==
  /\ Players!Steps(m0, r, brought) =
       <<[m |-> m1, topics |-> IF m0.online # m1.online THEN {"presence"} ELSE {}],
         [m |-> m3, topics |-> Players!RegionTopic(m2, m3)],
         [m |-> m4, topics |-> IF "stats" \in brought /\ r.world # 0 THEN {"stats"} ELSE {}],
         [m |-> m6, topics |-> Players!RegionTopic(m5, m6)],
         [m |-> m6, topics |-> IF "meta" \in brought THEN {"meta"} ELSE {}]>>
  /\ m1.online = r.online /\ m1.world = m0.world /\ m1.at = m0.at /\ m1.region = m0.region /\ m1.meta = m0.meta
  /\ m2.online = r.online /\ m2.at = m0.at /\ m2.region = m0.region /\ m2.meta = m0.meta
  /\ m2.world = IF "stats" \in brought /\ "activity" \notin r.cats THEN 0 ELSE m0.world
  /\ m3.online = r.online /\ m3.world = m2.world /\ m3.meta = m0.meta
  /\ IF "coordinates" \in brought /\ "location" \notin r.cats THEN m3.at = Players!Nowhere ELSE m3 = m2
  /\ m4.online = r.online /\ m4.at = m3.at /\ m4.region = m3.region /\ m4.meta = m0.meta
  /\ m4.world = IF "stats" \in brought /\ r.world # 0 THEN r.world ELSE m3.world
  /\ m5.online = r.online /\ m5.world = m4.world /\ m5.at = m4.at /\ m5.region = m4.region
  /\ m5.meta = IF "meta" \in brought THEN [cats |-> r.cats, told |-> r.told] ELSE m0.meta
  /\ m6.online = r.online /\ m6.world = m5.world /\ m6.meta = m5.meta
  /\ IF "coordinates" \in brought /\ r.at # Players!Nowhere THEN m6.at = r.at ELSE m6 = m5

LEMMA StepsAre ==
  ASSUME NEW m0 \in Players!Members, NEW r \in Players!Served, NEW brought
  PROVE  \E m1, m2, m3, m4, m5, m6 \in Players!Members : StepsTo(m0, r, brought, m1, m2, m3, m4, m5, m6)
<1> DEFINE m1 == [m0 EXCEPT !.online = r.online]
           m2 == IF "stats" \in brought /\ "activity" \notin r.cats THEN [m1 EXCEPT !.world = 0] ELSE m1
           m3 == IF "coordinates" \in brought /\ "location" \notin r.cats THEN Players!Moved(named, m2, Players!Nowhere) ELSE m2
           m4 == IF "stats" \in brought /\ r.world # 0 THEN [m3 EXCEPT !.world = r.world] ELSE m3
           m5 == IF "meta" \in brought THEN [m4 EXCEPT !.meta = [cats |-> r.cats, told |-> r.told]] ELSE m4
           m6 == IF "coordinates" \in brought /\ r.at # Players!Nowhere THEN Players!Moved(named, m5, r.at) ELSE m5
<1>1. Players!Steps(m0, r, brought) =
        <<[m |-> m1, topics |-> IF m0.online # m1.online THEN {"presence"} ELSE {}],
          [m |-> m3, topics |-> Players!RegionTopic(m2, m3)],
          [m |-> m4, topics |-> IF "stats" \in brought /\ r.world # 0 THEN {"stats"} ELSE {}],
          [m |-> m6, topics |-> Players!RegionTopic(m5, m6)],
          [m |-> m6, topics |-> IF "meta" \in brought THEN {"meta"} ELSE {}]>>
  BY DEF Players!Steps
<1>2. m1 \in Players!Members /\ m1.online = r.online /\ m1.world = m0.world /\ m1.at = m0.at /\ m1.region = m0.region /\ m1.meta = m0.meta
  BY ServedFields, OnlineSet
<1> HIDE DEF m1
<1>3. /\ m2 \in Players!Members /\ m2.online = r.online /\ m2.at = m0.at /\ m2.region = m0.region /\ m2.meta = m0.meta
      /\ m2.world = IF "stats" \in brought /\ "activity" \notin r.cats THEN 0 ELSE m0.world
  <2> DEFINE n == [m1 EXCEPT !.world = 0]
  <2>1. n \in Players!Members /\ n.online = m1.online /\ n.world = 0 /\ n.at = m1.at /\ n.region = m1.region /\ n.meta = m1.meta
    BY <1>2, WorldSet, 0 \in 0..1
  <2> HIDE DEF n
  <2>2. m2 = IF "stats" \in brought /\ "activity" \notin r.cats THEN n ELSE m1
    BY DEF n
  <2> HIDE DEF m2
  <2> QED BY <1>2, <2>1, <2>2
<1> HIDE DEF m2
<1>4. /\ m3 \in Players!Members /\ m3.online = r.online /\ m3.world = m2.world /\ m3.meta = m0.meta
      /\ IF "coordinates" \in brought /\ "location" \notin r.cats THEN m3.at = Players!Nowhere ELSE m3 = m2
  BY <1>3, MovedIs
<1> HIDE DEF m3
<1>5. /\ m4 \in Players!Members /\ m4.online = r.online /\ m4.at = m3.at /\ m4.region = m3.region /\ m4.meta = m0.meta
      /\ m4.world = IF "stats" \in brought /\ r.world # 0 THEN r.world ELSE m3.world
  <2> DEFINE n == [m3 EXCEPT !.world = r.world]
  <2>1. n \in Players!Members /\ n.online = m3.online /\ n.world = r.world /\ n.at = m3.at /\ n.region = m3.region /\ n.meta = m3.meta
    BY <1>4, WorldSet, ServedFields
  <2> HIDE DEF n
  <2>2. m4 = IF "stats" \in brought /\ r.world # 0 THEN n ELSE m3
    BY DEF n
  <2> HIDE DEF m4
  <2> QED BY <1>3, <1>4, <2>1, <2>2
<1> HIDE DEF m4
<1>6. /\ m5 \in Players!Members /\ m5.online = r.online /\ m5.world = m4.world /\ m5.at = m4.at /\ m5.region = m4.region
      /\ m5.meta = IF "meta" \in brought THEN [cats |-> r.cats, told |-> r.told] ELSE m0.meta
  <2>1. [cats |-> r.cats, told |-> r.told] \in [cats : SharedCategories, told : 0..1]
    BY ServedFields
  <2> QED BY <1>5, <2>1, MetaSet
<1> HIDE DEF m5
<1>7. /\ m6 \in Players!Members /\ m6.online = r.online /\ m6.world = m5.world /\ m6.meta = m5.meta
      /\ IF "coordinates" \in brought /\ r.at # Players!Nowhere THEN m6.at = r.at ELSE m6 = m5
  BY <1>6, MovedIs, ServedFields
<1> HIDE DEF m6
<1>8. m1 \in Players!Members /\ m2 \in Players!Members /\ m3 \in Players!Members /\ m4 \in Players!Members /\ m5 \in Players!Members /\ m6 \in Players!Members
  BY <1>2, <1>3, <1>4, <1>5, <1>6, <1>7
<1>9. StepsTo(m0, r, brought, m1, m2, m3, m4, m5, m6)
  BY <1>1, <1>2, <1>3, <1>4, <1>5, <1>6, <1>7 DEF StepsTo
<1> QED BY <1>8, <1>9

\* ShownAfter, for as many steps as a poll takes.
LEMMA FiveSteps ==
  ASSUME NEW s1, NEW s2, NEW s3, NEW s4, NEW s5
  PROVE  Players!ShownAfter(<<s1, s2, s3, s4, s5>>) =
           Players!Shown(Players!Shown(Players!Shown(Players!Shown(Players!Shown([profile |-> profile, loads |-> loads], s1), s2), s3), s4), s5)
<1> DEFINE steps == <<s1, s2, s3, s4, s5>>
           a0 == [profile |-> profile, loads |-> loads]
           a1 == Players!Shown(a0, s1)
           a2 == Players!Shown(a1, s2)
           a3 == Players!Shown(a2, s3)
           a4 == Players!Shown(a3, s4)
           a5 == Players!Shown(a4, s5)
           step(f) == [i \in 0..Len(steps) |-> IF i = 0 THEN a0 ELSE Players!Shown(f[i - 1], steps[i])]
           G == [i \in 0..5 |-> IF i = 0 THEN a0 ELSE IF i = 1 THEN a1 ELSE IF i = 2 THEN a2
                                ELSE IF i = 3 THEN a3 ELSE IF i = 4 THEN a4 ELSE a5]
           F == CHOOSE f : f = step(f)
<1>1. Len(steps) = 5 /\ steps[1] = s1 /\ steps[2] = s2 /\ steps[3] = s3 /\ steps[4] = s4 /\ steps[5] = s5
  OBVIOUS
<1>2. Players!ShownAfter(steps) = F[Len(steps)]
  BY DEF Players!ShownAfter
<1> HIDE DEF steps
<1>3. G = step(G)
  <2>1. ASSUME NEW i \in 0..5 PROVE G[i] = IF i = 0 THEN a0 ELSE Players!Shown(G[i - 1], steps[i])
    <3>1. i = 0 \/ i = 1 \/ i = 2 \/ i = 3 \/ i = 4 \/ i = 5
      BY <2>1
    <3>2. G[0] = a0 /\ G[1] = a1 /\ G[2] = a2 /\ G[3] = a3 /\ G[4] = a4 /\ G[5] = a5
      <4> HIDE DEF a0, a1, a2, a3, a4, a5
      <4> QED OBVIOUS
    <3> QED BY <1>1, <3>1, <3>2
  <2> HIDE DEF G
  <2>2. DOMAIN G = 0..5 /\ G = [i \in 0..5 |-> G[i]]
    BY DEF G
  <2> QED BY <1>1, <2>1, <2>2
<1> HIDE DEF step, G, F
<1>4. F = step(F)
  BY <1>3 DEF F
<1>5. /\ F[0] = a0 /\ F[1] = Players!Shown(F[0], s1) /\ F[2] = Players!Shown(F[1], s2) /\ F[3] = Players!Shown(F[2], s3)
      /\ F[4] = Players!Shown(F[3], s4) /\ F[5] = Players!Shown(F[4], s5)
  <2>1. \A i \in 0..5 : F[i] = IF i = 0 THEN a0 ELSE Players!Shown(F[i - 1], steps[i])
    <3>1. \A i \in 0..5 : step(F)[i] = IF i = 0 THEN a0 ELSE Players!Shown(F[i - 1], steps[i])
      BY <1>1 DEF step
    <3> QED BY <1>4, <3>1
  <2> HIDE DEF a0
  <2> QED BY <1>1, <2>1
<1> QED BY <1>1, <1>2, <1>5 DEF steps

-----------------------------------------------------------------------------
(* The open profile.                                                       *)

HeaderIs(h, m) == h = [Players!Header(m) EXCEPT !.follow = h.follow] /\ (h.follow => Players!Header(m).follow)

\* A profile shows a member as they are, but for being told late that they can be followed.
ShowsMember(v, m, tab) ==
  /\ HeaderIs(v.header, m)
  /\ v.shared = Players!SharedNow(m)
  /\ v.vitals <=> tab = "overview" /\ Players!MayShow(m, "activity")
  /\ v.denied <=> Players!Denied(tab, m)
  /\ v.vitals => v.prayers = Players!Prayers(m) /\ v.status = Players!Told(m)

\* Its tab has, awaits or misses every part it asks for, and no other's.
TabServed(v, m, tab, period, ls) ==
  /\ \A x \in v.rows : x.name = v.name /\ x.tab = tab
  /\ \A a \in Players!Asks(tab, m, period) :
       [name |-> v.name, tab |-> tab, what |-> a.what, period |-> a.period]
         \in v.rows \cup v.errors \cup {Players!Row(l) : l \in {k \in ls : k.here}}

LEMMA HeaderFields ==
  ASSUME NEW h \in HeaderType, NEW m \in Players!Members
  PROVE  HeaderIs(h, m) <=>
           /\ h.online = m.online /\ h.world = Players!World(m) /\ h.told = Players!Told(m)
           /\ h.region = IF m.online /\ m.region # Players!Unset THEN m.region ELSE Players!NoName
           /\ h.follow => m.online /\ m.at # Players!Nowhere
<1> DEFINE reg == IF m.online /\ m.region # Players!Unset THEN m.region ELSE Players!NoName
           fo == m.online /\ m.at # Players!Nowhere
<1>1. Players!Header(m) = [online |-> m.online, world |-> Players!World(m), region |-> reg, told |-> Players!Told(m), follow |-> fo]
  BY DEF Players!Header
<1>2. h = [online |-> h.online, world |-> h.world, region |-> h.region, told |-> h.told, follow |-> h.follow]
  BY DEF HeaderType
<1>3. fo <=> m.online /\ m.at # Players!Nowhere
  OBVIOUS
<1> HIDE DEF reg, fo
<1>4. [Players!Header(m) EXCEPT !.follow = h.follow] =
        [online |-> m.online, world |-> Players!World(m), region |-> reg, told |-> Players!Told(m), follow |-> h.follow]
  BY <1>1
<1>5. Players!Header(m).follow = fo
  BY <1>1
<1>6. h = [Players!Header(m) EXCEPT !.follow = h.follow] <=>
        h.online = m.online /\ h.world = Players!World(m) /\ h.told = Players!Told(m) /\ h.region = reg
  BY <1>2, <1>4
<1> QED BY <1>3, <1>5, <1>6 DEF HeaderIs, reg

LEMMA HeaderIsNow == ASSUME NEW m \in Players!Members, Players!ViewConstants PROVE HeaderIs(Players!Header(m), m)
<1> DEFINE h == Players!Header(m)
<1>1. h \in HeaderType
  BY DrawnTypes
<1> HIDE DEF h
<1>2. h = [online |-> h.online, world |-> h.world, region |-> h.region, told |-> h.told, follow |-> h.follow]
  BY <1>1 DEF HeaderType
<1>3. h = [h EXCEPT !.follow = h.follow]
  BY <1>2
<1> QED BY <1>3 DEF HeaderIs, h

\* What a tab may show and asks for follows from what is shared.
LEMMA SharedDecides ==
  ASSUME NEW m \in Players!Members, NEW n \in Players!Members, Players!ViewConstants, Players!SharedNow(m) = Players!SharedNow(n)
  PROVE  /\ \A c : Players!MayShow(m, c) <=> Players!MayShow(n, c)
         /\ \A tab : Players!Denied(tab, m) <=> Players!Denied(tab, n)
         /\ \A tab, period : Players!Asks(tab, m, period) = Players!Asks(tab, n, period)
<1>1. ASSUME NEW c PROVE Players!MayShow(m, c) <=> Players!MayShow(n, c)
  <2>1. CASE m.meta = Players!NoMeta
    <3>1. n.meta = Players!NoMeta
      BY <2>1, MemberFields DEF Players!SharedNow, Players!ViewConstants
    <3> QED BY <2>1, <3>1 DEF Players!MayShow
  <2>2. CASE m.meta # Players!NoMeta
    <3>1. n.meta # Players!NoMeta /\ m.meta.cats = n.meta.cats
      BY <2>2, MemberFields DEF Players!SharedNow, Players!ViewConstants
    <3> QED BY <2>2, <3>1 DEF Players!MayShow
  <2> QED BY <2>1, <2>2
<1>2. ASSUME NEW tab PROVE Players!Denied(tab, m) <=> Players!Denied(tab, n)
  BY <1>1 DEF Players!Denied
<1>3. ASSUME NEW tab, NEW period PROVE Players!Asks(tab, m, period) = Players!Asks(tab, n, period)
  BY <1>2 DEF Players!Asks
<1> QED BY <1>1, <1>2, <1>3

LEMMA QuietStep ==
  ASSUME NEW v, NEW ls, NEW m, NEW topics, "meta" \notin topics
  PROVE  Players!Shown([profile |-> v, loads |-> ls], [m |-> m, topics |-> topics])
           = [profile |-> Players!Redrawn(v, m, topics), loads |-> ls]
BY DEF Players!Shown

\* A step that tells what is shared, or nothing.
LEMMA LastStep ==
  ASSUME NEW v \in Players!View, NEW ls, NEW m \in Players!Members, NEW topics \in {{"meta"}, {}}, Players!ViewConstants
  PROVE  Players!Shown([profile |-> v, loads |-> ls], [m |-> m, topics |-> topics]) =
           IF "meta" \in topics /\ Players!SharedNow(m) # v.shared
           THEN [profile |-> [Players!Body(Players!Redrawn(v, m, topics), lastTab, m) EXCEPT !.shared = Players!SharedNow(m)],
                 loads |-> Players!Detached(ls) \cup Players!Ask(v.name, lastTab, Players!Asks(lastTab, m, lastPeriod))]
           ELSE [profile |-> Players!Redrawn(v, m, topics), loads |-> ls]
<1>1. Players!Redrawn(v, m, topics).shared = v.shared /\ Players!Redrawn(v, m, topics).name = v.name
  BY RedrawnIs
<1> QED BY <1>1 DEF Players!Shown

\* A tab drawn anew shows the member, and asks for its parts.
LEMMA TabAnew ==
  ASSUME NEW w \in Players!View, NEW m \in Players!Members, NEW tab \in Players!Tabs, NEW period \in GainPeriods, NEW ls, Players!ViewConstants,
         ls \subseteq TabLoads, HeaderIs(w.header, m), w.shared = Players!SharedNow(m),
         w.vitals <=> tab = "overview" /\ Players!MayShow(m, "activity"),
         w.denied <=> Players!Denied(tab, m),
         w.rows = {}, w.errors = {},
         w.vitals => w.prayers = Players!Prayers(m) /\ w.status = Players!Told(m)
  PROVE  LET ks == Players!Detached(ls) \cup Players!Ask(w.name, tab, Players!Asks(tab, m, period))
         IN ShowsMember(w, m, tab) /\ TabServed(w, m, tab, period, ks) /\ LoadsInv(ks, w, tab)
<1> DEFINE askedFor == Players!Ask(w.name, tab, Players!Asks(tab, m, period))
           ks == Players!Detached(ls) \cup askedFor
<1>2. ShowsMember(w, m, tab)
  BY DEF ShowsMember
<1>3. Players!Asks(tab, m, period) \subseteq TabRequests
  BY DEF Players!Asks, TabRequests, Players!Needs
<1>4. askedFor \subseteq TabLoads /\ \A l \in askedFor : l.here /\ l.name = w.name /\ l.tab = tab
  <2> SUFFICES ASSUME NEW l \in askedFor PROVE l \in TabLoads /\ l.here /\ l.name = w.name /\ l.tab = tab
    OBVIOUS
  <2>1. PICK a \in Players!Asks(tab, m, period) : l = [name |-> w.name, tab |-> tab, ask |-> a, here |-> TRUE]
    BY DEF Players!Ask
  <2>2. a \in TabRequests /\ w.name \in ViewedPlayers
    BY <1>3, ViewFields
  <2> QED BY <2>1, <2>2 DEF TabLoads
<1>5. Players!Detached(ls) \subseteq TabLoads /\ \A l \in Players!Detached(ls) : ~l.here
  BY DEF Players!Detached, TabLoads
<1>6. LoadsInv(ks, w, tab)
  <2>1. w # Players!Closed
    BY ViewFields DEF Players!ViewConstants, Players!Closed
  <2> QED BY <1>4, <1>5, <2>1 DEF LoadsInv
<1>7. TabServed(w, m, tab, period, ks)
  <2>1. ASSUME NEW a \in Players!Asks(tab, m, period)
        PROVE  [name |-> w.name, tab |-> tab, what |-> a.what, period |-> a.period] \in {Players!Row(l) : l \in {k \in ks : k.here}}
    <3> DEFINE l == [name |-> w.name, tab |-> tab, ask |-> a, here |-> TRUE]
    <3>1. l \in askedFor
      BY DEF Players!Ask
    <3>2. l \in {k \in ks : k.here} /\ Players!Row(l) = [name |-> w.name, tab |-> tab, what |-> a.what, period |-> a.period]
      BY <3>1 DEF Players!Row
    <3> QED BY <3>2
  <2> QED BY <2>1 DEF TabServed
<1> QED BY <1>2, <1>6, <1>7

\* What each of the topics of a poll draws again.
DrawnAs(w, v, m, topics) ==
  /\ w \in Players!View /\ w.name = v.name /\ w.shared = v.shared /\ w.vitals = v.vitals
  /\ w.denied = v.denied /\ w.rows = v.rows /\ w.errors = v.errors
  /\ w.header = IF topics # {} THEN Players!Header(m) ELSE v.header
  /\ topics = {"presence"} => w.status = v.status /\ w.prayers = IF v.vitals THEN Players!Prayers(m) ELSE v.prayers
  /\ topics \in {{"region"}, {"stats"}, {}} => w.status = v.status /\ w.prayers = v.prayers
  /\ topics = {"meta"} => /\ w.status = IF v.vitals THEN Players!Told(m) ELSE v.status
                         /\ w.prayers = IF v.vitals THEN Players!Prayers(m) ELSE v.prayers

LEMMA DrawnOn ==
  ASSUME NEW v \in Players!View, NEW m \in Players!Members, Players!ViewConstants, NEW topics,
         topics \in {{"presence"}, {"region"}, {"stats"}, {"meta"}, {}}
  PROVE  DrawnAs(Players!Redrawn(v, m, topics), v, m, topics)
<1> DEFINE w == Players!Redrawn(v, m, topics)
<1>1. /\ w \in Players!View /\ w.name = v.name /\ w.shared = v.shared /\ w.vitals = v.vitals
      /\ w.denied = v.denied /\ w.rows = v.rows /\ w.errors = v.errors
      /\ w.header = IF topics # {} THEN Players!Header(m) ELSE v.header
      /\ w.prayers = IF v.vitals /\ topics \cap {"presence", "meta"} # {} THEN Players!Prayers(m) ELSE v.prayers
      /\ w.status = IF v.vitals /\ "meta" \in topics THEN Players!Told(m) ELSE v.status
  BY RedrawnIs
<1> HIDE DEF w
<1>2. topics = {"presence"} => w.status = v.status /\ w.prayers = IF v.vitals THEN Players!Prayers(m) ELSE v.prayers
  <2>1. topics = {"presence"} => topics \cap {"presence", "meta"} # {} /\ "meta" \notin topics
    OBVIOUS
  <2> QED BY <1>1, <2>1
<1>3. topics \in {{"region"}, {"stats"}, {}} => w.status = v.status /\ w.prayers = v.prayers
  <2>1. topics \in {{"region"}, {"stats"}, {}} => topics \cap {"presence", "meta"} = {} /\ "meta" \notin topics
    OBVIOUS
  <2> QED BY <1>1, <2>1
<1>4. topics = {"meta"} => w.status = (IF v.vitals THEN Players!Told(m) ELSE v.status) /\ w.prayers = IF v.vitals THEN Players!Prayers(m) ELSE v.prayers
  <2>1. topics = {"meta"} => topics \cap {"presence", "meta"} # {} /\ "meta" \in topics
    OBVIOUS
  <2> QED BY <1>1, <2>1
<1> QED BY <1>1, <1>2, <1>3, <1>4 DEF w, DrawnAs

OpenAfter(after, m) ==
  /\ after.profile \in Players!View /\ after.profile.name = profile.name
  /\ ShowsMember(after.profile, m, lastTab)
  /\ TabServed(after.profile, m, lastTab, lastPeriod, after.loads)
  /\ LoadsInv(after.loads, after.profile, lastTab)

\* A poll's steps leave the open profile showing the member as they are after them.
LEMMA PollShows ==
  ASSUME Players!ViewConstants, NEW m0 \in Players!Members, NEW r \in Players!Served, NEW brought,
         brought \in {Players!Differ(m0, r), {"stats", "coordinates", "meta"}}, SharedOnly(m0),
         NEW m1 \in Players!Members, NEW m2 \in Players!Members, NEW m3 \in Players!Members, NEW m4 \in Players!Members, NEW m5 \in Players!Members,
         NEW m6 \in Players!Members, StepsTo(m0, r, brought, m1, m2, m3, m4, m5, m6),
         profile \in Players!View, lastTab \in Players!Tabs, lastPeriod \in GainPeriods, LoadsInv(loads, profile, lastTab),
         ShowsMember(profile, m0, lastTab), TabServed(profile, m0, lastTab, lastPeriod, loads)
  PROVE  OpenAfter(Players!ShownAfter(Players!Steps(m0, r, brought)), m6)
<1> DEFINE t1 == IF m0.online # m1.online THEN {"presence"} ELSE {}
           t2 == Players!RegionTopic(m2, m3)
           t3 == IF "stats" \in brought /\ r.world # 0 THEN {"stats"} ELSE {}
           t4 == Players!RegionTopic(m5, m6)
           t5 == IF "meta" \in brought THEN {"meta"} ELSE {}
           v1 == Players!Redrawn(profile, m1, t1)
           v2 == Players!Redrawn(v1, m3, t2)
           v3 == Players!Redrawn(v2, m4, t3)
           v4 == Players!Redrawn(v3, m6, t4)
           v5 == Players!Redrawn(v4, m6, t5)
           after == Players!ShownAfter(Players!Steps(m0, r, brought))
<1>1. /\ t1 \in {{"presence"}, {}} /\ t2 \in {{"region"}, {}} /\ t3 \in {{"stats"}, {}} /\ t4 \in {{"region"}, {}}
      /\ t5 \in {{"meta"}, {}} /\ ("meta" \in t5 <=> "meta" \in brought)
  BY DEF Players!RegionTopic
<1>2. /\ v1 \in Players!View /\ v1.name = profile.name /\ v1.shared = profile.shared /\ v1.vitals = profile.vitals
      /\ v1.denied = profile.denied /\ v1.rows = profile.rows /\ v1.errors = profile.errors
      /\ v1.header = (IF t1 # {} THEN Players!Header(m1) ELSE profile.header) /\ v1.status = profile.status
      /\ v1.prayers = IF profile.vitals /\ t1 # {} THEN Players!Prayers(m1) ELSE profile.prayers
  <2>1. t1 \in {{"presence"}, {"region"}, {"stats"}, {"meta"}, {}} /\ profile \in Players!View
    BY <1>1
  <2> HIDE DEF t1
  <2>2. DrawnAs(v1, profile, m1, t1)
    BY <2>1, DrawnOn
  <2> HIDE DEF v1
  <2> QED BY <1>1, <2>2 DEF DrawnAs
<1>3. /\ v2 \in Players!View /\ v2.name = profile.name /\ v2.shared = profile.shared /\ v2.vitals = profile.vitals
      /\ v2.denied = profile.denied /\ v2.rows = profile.rows /\ v2.errors = profile.errors
      /\ v2.header = (IF t2 # {} THEN Players!Header(m3) ELSE v1.header) /\ v2.status = v1.status /\ v2.prayers = v1.prayers
  <2>1. t2 \in {{"presence"}, {"region"}, {"stats"}, {"meta"}, {}} /\ v1 \in Players!View
    BY <1>1, <1>2
  <2> HIDE DEF t2, v1
  <2>2. DrawnAs(v2, v1, m3, t2)
    BY <2>1, DrawnOn
  <2> HIDE DEF v2
  <2> QED BY <1>1, <1>2, <2>2 DEF DrawnAs
<1>4. /\ v3 \in Players!View /\ v3.name = profile.name /\ v3.shared = profile.shared /\ v3.vitals = profile.vitals
      /\ v3.denied = profile.denied /\ v3.rows = profile.rows /\ v3.errors = profile.errors
      /\ v3.header = (IF t3 # {} THEN Players!Header(m4) ELSE v2.header) /\ v3.status = v2.status /\ v3.prayers = v2.prayers
  <2>1. t3 \in {{"presence"}, {"region"}, {"stats"}, {"meta"}, {}} /\ v2 \in Players!View
    BY <1>1, <1>3
  <2> HIDE DEF t3, v2
  <2>2. DrawnAs(v3, v2, m4, t3)
    BY <2>1, DrawnOn
  <2> HIDE DEF v3
  <2> QED BY <1>1, <1>3, <2>2 DEF DrawnAs
<1>5. /\ v4 \in Players!View /\ v4.name = profile.name /\ v4.shared = profile.shared /\ v4.vitals = profile.vitals
      /\ v4.denied = profile.denied /\ v4.rows = profile.rows /\ v4.errors = profile.errors
      /\ v4.header = (IF t4 # {} THEN Players!Header(m6) ELSE v3.header) /\ v4.status = v3.status /\ v4.prayers = v3.prayers
  <2>1. t4 \in {{"presence"}, {"region"}, {"stats"}, {"meta"}, {}} /\ v3 \in Players!View
    BY <1>1, <1>4
  <2> HIDE DEF t4, v3
  <2>2. DrawnAs(v4, v3, m6, t4)
    BY <2>1, DrawnOn
  <2> HIDE DEF v4
  <2> QED BY <1>1, <1>4, <2>2 DEF DrawnAs
<1>6. after = Players!Shown([profile |-> v4, loads |-> loads], [m |-> m6, topics |-> t5])
  <2> HIDE DEF t1, t2, t3, t4, t5, v1, v2, v3, v4
  <2>1. Players!Steps(m0, r, brought) =
          <<[m |-> m1, topics |-> t1], [m |-> m3, topics |-> t2], [m |-> m4, topics |-> t3],
            [m |-> m6, topics |-> t4], [m |-> m6, topics |-> t5]>>
    BY DEF StepsTo, t1, t2, t3, t4, t5
  <2>2. /\ Players!Shown([profile |-> profile, loads |-> loads], [m |-> m1, topics |-> t1]) = [profile |-> v1, loads |-> loads]
        /\ Players!Shown([profile |-> v1, loads |-> loads], [m |-> m3, topics |-> t2]) = [profile |-> v2, loads |-> loads]
        /\ Players!Shown([profile |-> v2, loads |-> loads], [m |-> m4, topics |-> t3]) = [profile |-> v3, loads |-> loads]
        /\ Players!Shown([profile |-> v3, loads |-> loads], [m |-> m6, topics |-> t4]) = [profile |-> v4, loads |-> loads]
    BY <1>1, QuietStep DEF v1, v2, v3, v4
  <2> QED BY <2>1, <2>2, FiveSteps
<1>7. /\ v5 \in Players!View /\ v5.name = profile.name /\ v5.shared = profile.shared /\ v5.vitals = profile.vitals
      /\ v5.denied = profile.denied /\ v5.rows = profile.rows /\ v5.errors = profile.errors
      /\ v5.header = (IF t5 # {} THEN Players!Header(m6) ELSE v4.header)
      /\ v5.prayers = (IF v4.vitals /\ t5 # {} THEN Players!Prayers(m6) ELSE v4.prayers)
      /\ v5.status = (IF v4.vitals /\ t5 # {} THEN Players!Told(m6) ELSE v4.status)
  <2>1. t5 \in {{"presence"}, {"region"}, {"stats"}, {"meta"}, {}} /\ v4 \in Players!View
    BY <1>1, <1>5
  <2> HIDE DEF t5, v4
  <2>2. DrawnAs(v5, v4, m6, t5)
    BY <2>1, DrawnOn
  <2> HIDE DEF v5
  <2> QED BY <1>1, <1>5, <2>2 DEF DrawnAs
<1>8. after = IF "meta" \in t5 /\ Players!SharedNow(m6) # v4.shared
              THEN [profile |-> [Players!Body(v5, lastTab, m6) EXCEPT !.shared = Players!SharedNow(m6)],
                    loads |-> Players!Detached(loads) \cup Players!Ask(profile.name, lastTab, Players!Asks(lastTab, m6, lastPeriod))]
              ELSE [profile |-> v5, loads |-> loads]
  <2>1. t5 \in {{"meta"}, {}} /\ v4 \in Players!View
    BY <1>1, <1>5
  <2> HIDE DEF t1, t2, t3, t4, t5, v1, v2, v3, v4, after
  <2>2. Players!Shown([profile |-> v4, loads |-> loads], [m |-> m6, topics |-> t5]) =
          IF "meta" \in t5 /\ Players!SharedNow(m6) # v4.shared
          THEN [profile |-> [Players!Body(v5, lastTab, m6) EXCEPT !.shared = Players!SharedNow(m6)],
                loads |-> Players!Detached(loads) \cup Players!Ask(v4.name, lastTab, Players!Asks(lastTab, m6, lastPeriod))]
          ELSE [profile |-> v5, loads |-> loads]
    BY <2>1, LastStep
  <2> HIDE DEF v5
  <2> QED BY <1>5, <1>6, <2>2
<1> SUFFICES OpenAfter(after, m6)
  OBVIOUS
<1> HIDE DEF t1, t2, t3, t4, t5, v1, v2, v3, v4, v5, after
\* What is shared is as it was: the profile is as it was but for what was redrawn.
<1>9. ASSUME Players!SharedNow(m6) = profile.shared, HeaderIs(v5.header, m6),
             v5.vitals => v5.prayers = Players!Prayers(m6) /\ v5.status = Players!Told(m6)
      PROVE  OpenAfter(after, m6)
  <2>1. after.profile = v5 /\ after.loads = loads
    BY <1>5, <1>8, <1>9
  <2>2. Players!SharedNow(m0) = Players!SharedNow(m6)
    BY <1>9 DEF ShowsMember
  <2>3. ShowsMember(v5, m6, lastTab)
    BY <1>7, <1>9, <2>2, SharedDecides DEF ShowsMember
  <2>4. TabServed(v5, m6, lastTab, lastPeriod, loads)
    BY <1>7, <2>2, SharedDecides DEF TabServed
  <2>5. v5 # Players!Closed /\ profile # Players!Closed
    BY <1>7, ViewFields DEF Players!ViewConstants, Players!Closed
  <2> QED BY <1>7, <2>1, <2>3, <2>4, <2>5 DEF LoadsInv, OpenAfter
<1>10. CASE "meta" \in brought
  <2>1. v5.header = Players!Header(m6) /\ (v5.vitals => v5.prayers = Players!Prayers(m6) /\ v5.status = Players!Told(m6))
    BY <1>1, <1>5, <1>7, <1>10
  <2>2. HeaderIs(v5.header, m6)
    BY <2>1, HeaderIsNow
  <2>3. CASE Players!SharedNow(m6) = profile.shared
    BY <1>9, <2>1, <2>2, <2>3
  <2>4. CASE Players!SharedNow(m6) # profile.shared
    <3> DEFINE b == Players!Body(v5, lastTab, m6)
               w == [b EXCEPT !.shared = Players!SharedNow(m6)]
    <3>1. /\ b \in Players!View /\ b.name = v5.name /\ b.header = v5.header
          /\ b.vitals <=> lastTab = "overview" /\ Players!MayShow(m6, "activity")
          /\ b.denied <=> Players!Denied(lastTab, m6)
          /\ b.rows = {} /\ b.errors = {}
          /\ b.vitals => b.prayers = Players!Prayers(m6) /\ b.status = Players!Told(m6)
      BY <1>7, BodyIs
    <3> HIDE DEF b
    <3>2. Players!SharedNow(m6) \in SharedCategories \cup {Players!NoCategories}
      BY DrawnTypes
    <3>3. w \in Players!View
      BY <3>1, <3>2 DEF Players!View
    <3>4. /\ w.name = b.name /\ w.header = b.header /\ w.vitals = b.vitals /\ w.denied = b.denied /\ w.rows = b.rows
          /\ w.errors = b.errors /\ w.prayers = b.prayers /\ w.status = b.status /\ w.shared = Players!SharedNow(m6)
      BY <3>1, ViewFields
    <3>5. after = [profile |-> w, loads |-> Players!Detached(loads) \cup Players!Ask(profile.name, lastTab, Players!Asks(lastTab, m6, lastPeriod))]
      BY <1>1, <1>5, <1>8, <1>10, <2>4 DEF b
    <3> HIDE DEF w
    <3>6. /\ w.vitals <=> lastTab = "overview" /\ Players!MayShow(m6, "activity")
          /\ w.denied <=> Players!Denied(lastTab, m6)
          /\ w.rows = {} /\ w.errors = {}
          /\ w.vitals => w.prayers = Players!Prayers(m6) /\ w.status = Players!Told(m6)
          /\ HeaderIs(w.header, m6) /\ w.name = profile.name /\ loads \subseteq TabLoads
      BY <1>7, <2>2, <3>1, <3>4 DEF LoadsInv
    <3> QED BY <3>3, <3>4, <3>5, <3>6, TabAnew DEF OpenAfter
  <2> QED BY <2>3, <2>4
<1>11. CASE "meta" \notin brought
  <2>1. /\ brought = Players!Differ(m0, r) /\ m0.meta = [cats |-> r.cats, told |-> r.told] /\ m6.meta = m0.meta
        /\ m1.meta = m0.meta
    BY <1>11 DEF Players!Differ, StepsTo
  <2>2. Players!SharedNow(m6) = Players!SharedNow(m0) /\ Players!Told(m6) = Players!Told(m0) /\ Players!Told(m1) = Players!Told(m0) /\ Players!Told(m4) = Players!Told(m0)
    BY <2>1 DEF Players!SharedNow, Players!Told, StepsTo
  <2>3. m0.meta # Players!NoMeta /\ m0.meta.cats = r.cats /\ m0.meta.told = r.told
    BY <2>1 DEF Players!NoMeta
  \* Nothing is dropped of what is shared as before.
  <2>4. m2 = m1 /\ m3 = m1
    <3>1. ~("stats" \in brought /\ "activity" \notin r.cats)
      BY <2>1, <2>3, ServedFields DEF SharedOnly, Players!Differ
    <3>2. ~("coordinates" \in brought /\ "location" \notin r.cats)
      BY <2>1, <2>3, ServedFields DEF SharedOnly, Players!Differ
    <3>3. m3 = m2
      BY <3>2 DEF StepsTo
    <3>4. m2 = m1
      BY <3>1, SameMember DEF StepsTo
    <3> QED BY <3>3, <3>4
  <2>5. t1 = {} => m1 = m0
    <3>1. t1 = {} => m0.online = m1.online
      BY DEF t1
    <3> QED BY <3>1, SameMember DEF StepsTo
  <2>6. HeaderIs(v1.header, m1)
    BY <1>2, <2>5, HeaderIsNow DEF ShowsMember
  <2>7. v2.header = v1.header
    <3>1. t2 = {}
      BY <2>4 DEF t2, Players!RegionTopic
    <3> QED BY <1>3, <3>1
  <2>8. HeaderIs(v3.header, m4)
    <3>1. CASE t3 = {}
      <4>1. ~("stats" \in brought /\ r.world # 0)
        BY <3>1 DEF t3
      <4>2. m4 = m3
        BY <4>1, SameMember DEF StepsTo
      <4> QED BY <1>4, <2>4, <2>6, <2>7, <3>1, <4>2
    <3>2. CASE t3 # {}
      BY <1>4, <3>2, HeaderIsNow
    <3> QED BY <3>1, <3>2
  <2>9. m5 = m4
    BY <1>11, SameMember DEF StepsTo
  <2>10. HeaderIs(v4.header, m6)
    <3>1. CASE t4 = {}
      <4>1. m6.region = m5.region
        BY <3>1 DEF t4, Players!RegionTopic
      <4>2. m6.online = m4.online /\ m6.world = m4.world /\ m6.region = m4.region /\ Players!World(m6) = Players!World(m4)
        BY <2>9, <4>1 DEF StepsTo, Players!World
      <4>3. m4.at # Players!Nowhere => m6.at # Players!Nowhere
        BY <2>9 DEF StepsTo
      <4>4. v4.header = v3.header /\ v3.header \in HeaderType
        BY <1>4, <1>5, <3>1, ViewFields
      <4>5. /\ v3.header.online = m4.online /\ v3.header.world = Players!World(m4) /\ v3.header.told = Players!Told(m4)
            /\ v3.header.region = IF m4.online /\ m4.region # Players!Unset THEN m4.region ELSE Players!NoName
            /\ v3.header.follow => m4.online /\ m4.at # Players!Nowhere
        BY <2>8, <4>4, HeaderFields
      <4>6. /\ v3.header.online = m6.online /\ v3.header.world = Players!World(m6) /\ v3.header.told = Players!Told(m6)
            /\ v3.header.region = IF m6.online /\ m6.region # Players!Unset THEN m6.region ELSE Players!NoName
            /\ v3.header.follow => m6.online /\ m6.at # Players!Nowhere
        BY <2>2, <4>2, <4>3, <4>5
      <4> QED BY <4>4, <4>6, HeaderFields
    <3>2. CASE t4 # {}
      BY <1>5, <3>2, HeaderIsNow
    <3> QED BY <3>1, <3>2
  <2>11. v5.header = v4.header /\ v5.prayers = v1.prayers /\ v5.status = profile.status /\ v5.vitals = profile.vitals
    BY <1>1, <1>2, <1>3, <1>4, <1>5, <1>7, <1>11
  <2>12. v5.vitals => v5.prayers = Players!Prayers(m6) /\ v5.status = Players!Told(m6)
    <3>1. Players!Prayers(m6) = Players!Prayers(m1)
      BY <2>2 DEF Players!Prayers, StepsTo
    <3>2. profile.vitals => profile.prayers = Players!Prayers(m0) /\ profile.status = Players!Told(m0)
      BY DEF ShowsMember
    <3> QED BY <1>2, <2>2, <2>5, <2>11, <3>1, <3>2
  <2>13. Players!SharedNow(m6) = profile.shared
    BY <2>2 DEF ShowsMember
  <2> QED BY <1>9, <2>10, <2>11, <2>12, <2>13
<1> QED BY <1>10, <1>11

ProfileInv ==
  profile # Players!Closed =>
    /\ profile.name \in Players!Known
    /\ ShowsMember(profile, store[profile.name], lastTab)
    /\ TabServed(profile, store[profile.name], lastTab, lastPeriod, loads)

PlayersInv ==
  /\ Players!TypeOK /\ ListsInv /\ ProfileInv
  /\ \A p \in Players!Known : SharedOnly(store[p])
  /\ LoadsInv(loads, profile, lastTab)

LEMMA PlayersInvHolds == PlayersInv => Players!PlayersAgree
<1> SUFFICES ASSUME PlayersInv PROVE Players!ProfileAgrees /\ Players!TabsGetTheirAnswers
  BY DEF PlayersInv, Players!PlayersAgree, ListsInv
<1>1. Players!ProfileAgrees
  BY DEF PlayersInv, ProfileInv, Players!ProfileAgrees, ShowsMember, HeaderIs
<1>2. Players!TabsGetTheirAnswers
  BY DEF PlayersInv, ProfileInv, Players!TabsGetTheirAnswers, TabServed
<1> QED BY <1>1, <1>2

\* The player of an open profile.
LEMMA OpenProfile ==
  ASSUME PlayersInv, Players!ViewConstants, profile # Players!Closed
  PROVE  /\ profile \in Players!View /\ profile.name \in ViewedPlayers /\ store[profile.name] # Players!Gone /\ store[profile.name] \in Players!Members
         /\ ShowsMember(profile, store[profile.name], lastTab)
         /\ TabServed(profile, store[profile.name], lastTab, lastPeriod, loads)
<1>1. profile \in Players!View /\ profile.name \in Players!Known
  BY DEF PlayersInv, Players!TypeOK, ProfileInv
<1>2. profile.name \in ViewedPlayers /\ store[profile.name] # Players!Gone
  BY <1>1 DEF Players!Known
<1> QED BY <1>1, <1>2 DEF PlayersInv, Players!TypeOK, ProfileInv

LEMMA PlayersBegin == ASSUME Players!Init, Players!ViewConstants PROVE PlayersInv
<1>1. Players!TypeOK
  BY DEF Players!Init, Players!TypeOK, Players!Tabs, Players!ViewConstants
<1>2. ListsInv
  BY DEF Players!Init, ListsInv, Players!ListsAgree
<1> QED BY <1>1, <1>2 DEF Players!Init, PlayersInv, ProfileInv, Players!Known, LoadsInv

\* A profile that isn't drawn on, of a player who didn't change.
LEMMA ProfileStays ==
  ASSUME PlayersInv, Players!ViewConstants, UNCHANGED <<profile, lastTab, lastPeriod, loads>>,
         profile # Players!Closed => store'[profile.name] = store[profile.name]
  PROVE  ProfileInv' /\ LoadsInv(loads, profile, lastTab)'
<1>1. LoadsInv(loads, profile, lastTab)'
  BY DEF PlayersInv, LoadsInv
<1>2. CASE profile = Players!Closed
  BY <1>1, <1>2 DEF ProfileInv
<1>3. CASE profile # Players!Closed
  <2>1. /\ profile.name \in ViewedPlayers /\ store'[profile.name] # Players!Gone
        /\ ShowsMember(profile, store'[profile.name], lastTab)
        /\ TabServed(profile, store'[profile.name], lastTab, lastPeriod, loads)
    BY <1>3, OpenProfile
  <2>2. profile'.name \in Players!Known'
    BY <2>1 DEF Players!Known
  <2>3. ShowsMember(profile', store'[profile'.name], lastTab') /\ TabServed(profile', store'[profile'.name], lastTab', lastPeriod', loads')
    BY <2>1
  <2> QED BY <1>1, <2>2, <2>3 DEF ProfileInv
<1> QED BY <1>2, <1>3

\* One that is drawn.
LEMMA ProfileDrawn ==
  ASSUME Players!ViewConstants, profile' \in Players!View, store'[profile'.name] # Players!Gone,
         ShowsMember(profile', store'[profile'.name], lastTab'),
         TabServed(profile', store'[profile'.name], lastTab', lastPeriod', loads')
  PROVE  ProfileInv'
<1>1. profile'.name \in Players!Known'
  BY ViewFields DEF Players!Known
<1> QED BY <1>1 DEF ProfileInv

\* Nothing of a player who didn't share it is left after a poll, or is with their first.
LEMMA PollShared ==
  ASSUME NEW m0 \in Players!Members, NEW r \in Players!Served, NEW brought, SharedOnly(m0),
         brought \in {Players!Differ(m0, r), {"stats", "coordinates", "meta"}} \/ (brought = {} /\ m0.meta = Players!NoMeta),
         NEW m1 \in Players!Members, NEW m2 \in Players!Members, NEW m3 \in Players!Members, NEW m4 \in Players!Members, NEW m5 \in Players!Members,
         NEW m6 \in Players!Members, StepsTo(m0, r, brought, m1, m2, m3, m4, m5, m6)
  PROVE  SharedOnly(m6)
<1>1. CASE brought = {} /\ m0.meta = Players!NoMeta
  <2>1. m6 = m5 /\ m5.meta = m0.meta /\ m5.world = m0.world /\ m5.at = m0.at
    BY <1>1 DEF StepsTo
  <2> QED BY <1>1, <2>1 DEF SharedOnly
<1>2. CASE brought \in {Players!Differ(m0, r), {"stats", "coordinates", "meta"}}
  <2>1. m6.meta # Players!NoMeta /\ m6.meta.cats = r.cats /\ m6.meta.told = r.told
    <3>1. m6.meta = [cats |-> r.cats, told |-> r.told]
      <4>1. CASE "meta" \in brought
        BY <4>1 DEF StepsTo
      <4>2. CASE "meta" \notin brought
        <5>1. m0.meta = [cats |-> r.cats, told |-> r.told]
          BY <1>2, <4>2 DEF Players!Differ
        <5> QED BY <4>2, <5>1 DEF StepsTo
      <4> QED BY <4>1, <4>2
    <3> QED BY <3>1 DEF Players!NoMeta
  <2>2. "stats" \notin brought => m0.world = r.world
    BY <1>2 DEF Players!Differ
  <2>3. "coordinates" \notin brought => m0.at = r.at
    BY <1>2 DEF Players!Differ
  <2>4. "activity" \notin r.cats => m6.world = 0
    <3> SUFFICES ASSUME "activity" \notin r.cats PROVE m6.world = 0
      OBVIOUS
    <3>1. r.world = 0
      BY ServedFields
    <3>2. m3.world = 0
      BY <2>2, <3>1 DEF StepsTo
    <3> QED BY <3>1, <3>2 DEF StepsTo
  <2>5. "location" \notin r.cats => m6.at = Players!Nowhere
    <3> SUFFICES ASSUME "location" \notin r.cats PROVE m6.at = Players!Nowhere
      OBVIOUS
    <3>1. r.at = Players!Nowhere
      BY ServedFields
    <3>2. m3.at = Players!Nowhere
      BY <2>3, <3>1 DEF StepsTo
    <3>3. m6 = m5 /\ m5.at = m4.at /\ m4.at = m3.at
      BY <3>1 DEF StepsTo
    <3> QED BY <3>2, <3>3
  <2>6. "activity" \notin r.cats => r.told = Players!Untold
    BY ServedFields
  <2> QED BY <2>1, <2>4, <2>5, <2>6 DEF SharedOnly
<1> QED BY <1>1, <1>2

LEMMA NewMembers == Players!NewMember \in Players!Members /\ SharedOnly(Players!NewMember) /\ Players!NewMember.meta = Players!NoMeta
BY DEF Players!NewMember, Players!Members, SharedOnly

LEMMA PollBringsKeeps ==
  ASSUME PlayersInv, Players!ViewConstants, NEW p \in ViewedPlayers, NEW r \in Players!Served, NEW brought, Players!PollBrings(p, r, brought)
  PROVE  PlayersInv'
<1> DEFINE m0 == IF store[p] = Players!Gone THEN Players!NewMember ELSE store[p]
           isNew == store[p] = Players!Gone
           steps == Players!Steps(m0, r, brought)
           after == [store EXCEPT ![p] = steps[Len(steps)].m]
           touched == IF isNew \/ Players!Changed(m0, r, brought) THEN {p} ELSE {}
           listed == isNew \/ m0.online # r.online
<1>1. /\ brought \in {Players!Differ(m0, r), {"stats", "coordinates", "meta"}} \cup (IF isNew THEN {{}} ELSE {})
      /\ store' = after /\ Players!Publish(after, touched, listed)
      /\ IF profile.name = p THEN profile' = Players!ShownAfter(steps).profile /\ loads' = Players!ShownAfter(steps).loads
                             ELSE UNCHANGED <<profile, loads>>
      /\ UNCHANGED <<lastTab, lastPeriod>>
  BY DEF Players!PollBrings
<1>2. store \in [ViewedPlayers -> Players!Members \cup {Players!Gone}] /\ profile \in Players!View \cup {Players!Closed} /\ lastTab \in Players!Tabs /\ lastPeriod \in GainPeriods
  BY DEF PlayersInv, Players!TypeOK
<1>3. m0 \in Players!Members /\ SharedOnly(m0) /\ (isNew => m0.meta = Players!NoMeta) /\ (~isNew => m0 = store[p])
  BY <1>2, NewMembers DEF PlayersInv, Players!Known
<1> HIDE DEF m0
<1>4. PICK m1, m2, m3, m4, m5, m6 \in Players!Members : StepsTo(m0, r, brought, m1, m2, m3, m4, m5, m6)
  BY <1>3, StepsAre
<1>5. steps[Len(steps)].m = m6
  BY <1>4 DEF StepsTo
<1>6. /\ store' = [store EXCEPT ![p] = m6] /\ Players!Publish(store', touched, listed) /\ store'[p] = m6
      /\ store' \in [ViewedPlayers -> Players!Members \cup {Players!Gone}] /\ m6 # Players!Gone
      /\ \A q \in ViewedPlayers \ {p} : store'[q] = store[q]
  <2>1. store' = [store EXCEPT ![p] = m6] /\ Players!Publish(store', touched, listed)
    BY <1>1, <1>5
  <2>2. m6 \in Players!Members /\ m6 # Players!Gone
    BY <1>4, MemberFields
  <2> QED BY <1>2, <2>1, <2>2
<1>7. ~isNew /\ ~Players!Changed(m0, r, brought) => m6 = m0
  <2> SUFFICES ASSUME ~isNew, ~Players!Changed(m0, r, brought) PROVE m6 = m0
    OBVIOUS
  <2>1. brought = {} /\ m0.online = r.online
    BY DEF Players!Changed
  <2>2. m6 = m5 /\ m3 = m2
    BY <1>4, <2>1 DEF StepsTo
  <2>3. m5.online = m0.online /\ m5.world = m0.world /\ m5.at = m0.at /\ m5.region = m0.region /\ m5.meta = m0.meta
    BY <1>4, <2>1, <2>2 DEF StepsTo
  <2> QED BY <1>3, <1>4, <2>2, <2>3, SameMember
<1>8. ListsInv'
  <2>1. touched \in SUBSET ViewedPlayers /\ listed \in BOOLEAN
    OBVIOUS
  <2>2. \A q \in ViewedPlayers : q \notin touched => store'[q] = store[q]
    BY <1>3, <1>6, <1>7
  <2>3. ~listed => \A q \in ViewedPlayers : store'[q] = Players!Gone <=> store[q] = Players!Gone
    BY <1>6
  <2> DEFINE st == store'
  <2>4. st \in [ViewedPlayers -> Players!Members \cup {Players!Gone}] /\ Players!Publish(st, touched, listed) /\ store' = st
        /\ (\A q \in ViewedPlayers : q \notin touched => st[q] = store[q])
        /\ (~listed => \A q \in ViewedPlayers : st[q] = Players!Gone <=> store[q] = Players!Gone)
    BY <1>6, <2>2, <2>3
  <2>5. ListsInv
    BY DEF PlayersInv
  <2> HIDE DEF st, touched, listed
  <2> QED BY <1>2, <2>1, <2>4, <2>5, PublishKeeps
<1>9. SharedOnly(m6)
  <2>1. brought \in {Players!Differ(m0, r), {"stats", "coordinates", "meta"}} \/ (brought = {} /\ m0.meta = Players!NoMeta)
    BY <1>1, <1>3
  <2> QED BY <1>3, <1>4, <2>1, PollShared
<1>10. \A q \in Players!Known' : SharedOnly(store'[q])
  BY <1>6, <1>9 DEF PlayersInv, Players!Known
<1>11. ProfileInv' /\ LoadsInv(loads, profile, lastTab)' /\ profile' \in Players!View \cup {Players!Closed}
  <2>1. CASE profile.name = p
    <3>1. profile # Players!Closed
      BY <2>1 DEF Players!Closed, Players!ViewConstants
    <3>2. /\ profile \in Players!View /\ store[p] # Players!Gone /\ ShowsMember(profile, store[p], lastTab)
          /\ TabServed(profile, store[p], lastTab, lastPeriod, loads)
      BY <2>1, <3>1, OpenProfile
    <3>3. m0 = store[p] /\ brought \in {Players!Differ(m0, r), {"stats", "coordinates", "meta"}}
      BY <1>1, <1>3, <3>2
    <3>4. LoadsInv(loads, profile, lastTab)
      BY DEF PlayersInv
    <3> DEFINE out == Players!ShownAfter(steps)
    <3>5. /\ out.profile \in Players!View /\ out.profile.name = profile.name
          /\ ShowsMember(out.profile, m6, lastTab)
          /\ TabServed(out.profile, m6, lastTab, lastPeriod, out.loads)
          /\ LoadsInv(out.loads, out.profile, lastTab)
      <4>1. OpenAfter(out, m6)
        BY <1>2, <1>3, <1>4, <3>2, <3>3, <3>4, PollShows
      <4> QED BY <4>1 DEF OpenAfter
    <3>6. profile' = out.profile /\ loads' = out.loads /\ lastTab' = lastTab /\ lastPeriod' = lastPeriod
      BY <1>1, <2>1
    <3> HIDE DEF out
    <3>7. profile' \in Players!View /\ store'[profile'.name] = m6 /\ m6 # Players!Gone
      BY <1>6, <2>1, <3>5, <3>6
    <3>8. ShowsMember(profile', m6, lastTab') /\ TabServed(profile', m6, lastTab', lastPeriod', loads') /\ LoadsInv(loads', profile', lastTab')
      BY <3>5, <3>6
    <3>9. ProfileInv'
      BY <3>7, <3>8, ProfileDrawn
    <3> QED BY <3>7, <3>8, <3>9
  <2>2. CASE profile.name # p
    <3>1. UNCHANGED <<profile, lastTab, lastPeriod, loads>>
      BY <1>1, <2>2
    <3>2. profile # Players!Closed => store'[profile.name] = store[profile.name]
      BY <1>6, <2>2, OpenProfile
    <3> QED BY <1>2, <3>1, <3>2, ProfileStays
  <2> QED BY <2>1, <2>2
<1>12. Players!TypeOK'
  BY <1>1, <1>2, <1>6, <1>11 DEF Players!TypeOK
<1> QED BY <1>8, <1>10, <1>11, <1>12 DEF PlayersInv

LEMMA DetachedLoads ==
  ASSUME NEW ls, ls \subseteq TabLoads
  PROVE  Players!Detached(ls) \subseteq TabLoads /\ \A l \in Players!Detached(ls) : ~l.here
BY DEF Players!Detached, TabLoads

LEMMA PollLeavesKeeps == ASSUME PlayersInv, Players!ViewConstants, NEW p \in ViewedPlayers, Players!PollLeaves(p) PROVE PlayersInv'
<1>1. /\ store' = [store EXCEPT ![p] = Players!Gone] /\ Players!Publish(store', {p}, TRUE)
      /\ IF profile.name = p THEN profile' = Players!Closed /\ loads' = Players!Detached(loads) ELSE UNCHANGED <<profile, loads>>
      /\ UNCHANGED <<lastTab, lastPeriod>>
  BY DEF Players!PollLeaves
<1>2. store \in [ViewedPlayers -> Players!Members \cup {Players!Gone}] /\ profile \in Players!View \cup {Players!Closed} /\ lastTab \in Players!Tabs /\ lastPeriod \in GainPeriods
  BY DEF PlayersInv, Players!TypeOK
<1>3. store' \in [ViewedPlayers -> Players!Members \cup {Players!Gone}] /\ store'[p] = Players!Gone /\ \A q \in ViewedPlayers \ {p} : store'[q] = store[q]
  BY <1>1, <1>2
<1>4. ListsInv'
  <2> DEFINE st == store'
  <2>1. st \in [ViewedPlayers -> Players!Members \cup {Players!Gone}] /\ Players!Publish(st, {p}, TRUE) /\ store' = st
        /\ (\A q \in ViewedPlayers : q \notin {p} => st[q] = store[q]) /\ {p} \in SUBSET ViewedPlayers /\ ListsInv
    BY <1>1, <1>3 DEF PlayersInv
  <2> HIDE DEF st
  <2> QED BY <1>2, <2>1, PublishKeeps
<1>5. \A q \in Players!Known' : SharedOnly(store'[q])
  BY <1>3 DEF PlayersInv, Players!Known
<1>6. ProfileInv' /\ LoadsInv(loads, profile, lastTab)' /\ profile' \in Players!View \cup {Players!Closed}
  <2>1. CASE profile.name = p
    <3>1. loads' \subseteq TabLoads /\ \A l \in loads' : ~l.here
      BY <1>1, <2>1, DetachedLoads DEF PlayersInv, LoadsInv
    <3> QED BY <1>1, <2>1, <3>1 DEF ProfileInv, LoadsInv
  <2>2. CASE profile.name # p
    <3>1. UNCHANGED <<profile, lastTab, lastPeriod, loads>>
      BY <1>1, <2>2
    <3>2. profile # Players!Closed => store'[profile.name] = store[profile.name]
      BY <1>3, <2>2, OpenProfile
    <3> QED BY <1>2, <3>1, <3>2, ProfileStays
  <2> QED BY <2>1, <2>2
<1>7. Players!TypeOK'
  BY <1>1, <1>2, <1>3, <1>6 DEF Players!TypeOK
<1> QED BY <1>4, <1>5, <1>6, <1>7 DEF PlayersInv

LEMMA RenamedIs ==
  ASSUME NEW m \in Players!Members, NEW n, n = Players!Moved(TRUE, m, m.at)
  PROVE  n \in Players!Members /\ n.online = m.online /\ n.world = m.world /\ n.at = m.at /\ n.meta = m.meta
<1> DEFINE reg == Players!RegionOf(TRUE, m.at)
<1>1. reg \in NamedPlaces \cup {Players!Unset, Players!NoName}
  BY DEF Players!RegionOf
<1>2. n = [m EXCEPT !.at = m.at, !.region = reg]
  BY DEF Players!Moved
<1> HIDE DEF reg
<1> QED BY <1>1, <1>2 DEF Players!Members

LEMMA NamesLoadKeeps == ASSUME PlayersInv, Players!ViewConstants, Players!NamesLoad PROVE PlayersInv'
<1> DEFINE renamed == {p \in Players!Known : store[p].region # Players!RegionOf(TRUE, store[p].at)}
           after == [p \in ViewedPlayers |-> IF p \in renamed THEN Players!Moved(TRUE, store[p], store[p].at) ELSE store[p]]
<1>1. /\ store' = after /\ Players!Publish(after, renamed, FALSE)
      /\ profile' = (IF profile.name \in renamed THEN Players!Redrawn(profile, after[profile.name], {"region"}) ELSE profile)
      /\ UNCHANGED <<lastTab, lastPeriod, loads>>
  BY DEF Players!NamesLoad
<1>2. store \in [ViewedPlayers -> Players!Members \cup {Players!Gone}] /\ profile \in Players!View \cup {Players!Closed} /\ lastTab \in Players!Tabs /\ lastPeriod \in GainPeriods
  BY DEF PlayersInv, Players!TypeOK
<1>3. ASSUME NEW p \in renamed
      PROVE  /\ p \in ViewedPlayers /\ store[p] \in Players!Members /\ after[p] \in Players!Members /\ after[p] # Players!Gone /\ store[p] # Players!Gone
             /\ after[p].online = store[p].online /\ after[p].world = store[p].world /\ after[p].at = store[p].at
             /\ after[p].meta = store[p].meta
  <2>1. p \in ViewedPlayers /\ store[p] \in Players!Members /\ store[p] # Players!Gone /\ after[p] = Players!Moved(TRUE, store[p], store[p].at)
    BY <1>2 DEF Players!Known
  <2>2. store[p].at \in NamedPlaces \cup UnnamedPlaces \cup {Players!Nowhere}
    BY <2>1, MemberFields
  <2>3. /\ after[p] \in Players!Members /\ after[p].online = store[p].online /\ after[p].world = store[p].world
        /\ after[p].at = store[p].at /\ after[p].meta = store[p].meta
    BY <2>1, <2>2, RenamedIs
  <2>4. after[p] # Players!Gone
    BY <2>3, MemberFields
  <2> QED BY <2>1, <2>3, <2>4
<1>4. after \in [ViewedPlayers -> Players!Members \cup {Players!Gone}] /\ renamed \in SUBSET ViewedPlayers
      /\ \A p \in ViewedPlayers : p \notin renamed => after[p] = store[p]
  <2>1. \A p \in ViewedPlayers : after[p] \in Players!Members \cup {Players!Gone}
    BY <1>2, <1>3
  <2> QED BY <2>1 DEF Players!Known
<1> HIDE DEF after, renamed
<1>5. \A p \in ViewedPlayers : after[p] = Players!Gone <=> store[p] = Players!Gone
  BY <1>3, <1>4
<1>6. ListsInv'
  <2>1. ListsInv
    BY DEF PlayersInv
  <2> QED BY <1>1, <1>2, <1>4, <1>5, <2>1, PublishKeeps
<1>7. \A p \in Players!Known' : SharedOnly(store'[p])
  <2> SUFFICES ASSUME NEW p \in ViewedPlayers, after[p] # Players!Gone PROVE SharedOnly(after[p])
    BY <1>1 DEF Players!Known
  <2>1. SharedOnly(store[p])
    BY <1>5 DEF PlayersInv, Players!Known
  <2> QED BY <1>3, <1>4, <2>1 DEF SharedOnly
<1>8. ProfileInv' /\ LoadsInv(loads, profile, lastTab)' /\ profile' \in Players!View \cup {Players!Closed}
  <2>1. CASE profile.name \in renamed
    <3> DEFINE n == profile.name
               m == store[n]
               a == after[n]
               w == Players!Redrawn(profile, a, {"region"})
    <3>1. profile # Players!Closed /\ profile \in Players!View
      BY <1>2, <1>4, <2>1 DEF Players!Closed, Players!ViewConstants
    <3>2. ShowsMember(profile, m, lastTab) /\ TabServed(profile, m, lastTab, lastPeriod, loads) /\ m \in Players!Members /\ a \in Players!Members
      BY <1>3, <2>1, <3>1, OpenProfile
    <3>3. DrawnAs(w, profile, a, {"region"})
      BY <3>1, <3>2, DrawnOn
    <3>4. a.online = m.online /\ a.meta = m.meta /\ a # Players!Gone
      BY <1>3, <2>1
    <3>5. profile' = w /\ store' = after
      BY <1>1, <2>1
    <3> HIDE DEF w, a, m
    <3>6. /\ w \in Players!View /\ w.name = n /\ w.shared = profile.shared /\ w.vitals = profile.vitals
          /\ w.denied = profile.denied /\ w.rows = profile.rows /\ w.errors = profile.errors /\ w.header = Players!Header(a)
          /\ w.status = profile.status /\ w.prayers = profile.prayers
      BY <3>3 DEF DrawnAs
    <3>7. Players!SharedNow(a) = Players!SharedNow(m) /\ Players!Told(a) = Players!Told(m) /\ Players!Prayers(a) = Players!Prayers(m)
      BY <3>4 DEF Players!SharedNow, Players!Told, Players!Prayers
    <3>8. HeaderIs(w.header, a)
      BY <3>2, <3>6, HeaderIsNow
    <3>9. ShowsMember(w, a, lastTab)
      BY <3>2, <3>6, <3>7, <3>8, SharedDecides DEF ShowsMember
    <3>10. TabServed(w, a, lastTab, lastPeriod, loads)
      BY <3>2, <3>6, <3>7, SharedDecides DEF TabServed
    <3>11. profile' \in Players!View /\ store'[profile'.name] = a /\ ShowsMember(profile', a, lastTab')
           /\ TabServed(profile', a, lastTab', lastPeriod', loads')
      BY <1>1, <3>5, <3>6, <3>9, <3>10 DEF a
    <3>12. ProfileInv'
      BY <3>4, <3>11, ProfileDrawn
    <3>13. w # Players!Closed
      BY <3>6, ViewFields DEF Players!Closed, Players!ViewConstants
    <3>14. LoadsInv(loads, profile, lastTab)'
      BY <1>1, <3>1, <3>5, <3>6, <3>13 DEF PlayersInv, LoadsInv
    <3> QED BY <3>11, <3>12, <3>14
  <2>2. CASE profile.name \notin renamed
    <3>1. UNCHANGED <<profile, lastTab, lastPeriod, loads>>
      BY <1>1, <2>2
    <3>2. profile # Players!Closed => store'[profile.name] = store[profile.name]
      BY <1>1, <1>4, <2>2, OpenProfile
    <3> QED BY <1>2, <3>1, <3>2, ProfileStays
  <2> QED BY <2>1, <2>2
<1>9. Players!TypeOK'
  BY <1>1, <1>2, <1>4, <1>8 DEF Players!TypeOK
<1> QED BY <1>6, <1>7, <1>8, <1>9 DEF PlayersInv

\* What a viewer does in the profile leaves the members and the lists alone.
LEMMA OnlyTheProfile ==
  ASSUME PlayersInv, UNCHANGED <<store, roster, table>>, ProfileInv', LoadsInv(loads, profile, lastTab)',
         profile' \in Players!View \cup {Players!Closed}, lastTab' \in Players!Tabs, lastPeriod' \in GainPeriods
  PROVE  PlayersInv'
<1>1. ListsInv'
  BY ListsStay DEF PlayersInv
<1>2. Players!TypeOK'
  BY DEF PlayersInv, Players!TypeOK
<1>3. (\A p \in Players!Known : SharedOnly(store[p]))'
  BY DEF PlayersInv, Players!Known
<1> QED BY <1>1, <1>2, <1>3 DEF PlayersInv

LEMMA RowSelectKeeps == ASSUME PlayersInv, Players!ViewConstants, NEW p \in ViewedPlayers, Players!Select(p) PROVE PlayersInv'
<1>1. /\ store[p] # Players!Gone /\ UNCHANGED <<store, roster, table, lastTab, lastPeriod>>
      /\ IF profile.name = p
         THEN profile' = Players!Closed /\ loads' = Players!Detached(loads)
         ELSE /\ profile' = Players!Opened(p)
              /\ loads' = Players!Detached(loads) \cup Players!Ask(p, lastTab, Players!Asks(lastTab, store[p], lastPeriod))
  BY DEF Players!Select, Players!dataVars, Players!listVars
<1>2. store[p] \in Players!Members /\ lastTab \in Players!Tabs /\ lastPeriod \in GainPeriods /\ loads \subseteq TabLoads
  BY <1>1 DEF PlayersInv, Players!TypeOK, LoadsInv
<1>3. CASE profile.name = p
  <2>1. ProfileInv' /\ LoadsInv(loads, profile, lastTab)' /\ profile' \in Players!View \cup {Players!Closed}
    <3>1. loads' \subseteq TabLoads /\ \A l \in loads' : ~l.here
      BY <1>1, <1>2, <1>3, DetachedLoads
    <3> QED BY <1>1, <1>3, <3>1 DEF ProfileInv, LoadsInv
  <2> QED BY <1>1, <1>2, <2>1, OnlyTheProfile
<1>4. CASE profile.name # p
  <2> DEFINE m == store[p]
             v == [name |-> p, shared |-> Players!SharedNow(m), header |-> Players!Header(m), vitals |-> FALSE, denied |-> FALSE,
                   prayers |-> Players!Untold, status |-> Players!Untold, rows |-> {}, errors |-> {}]
             w == Players!Body(v, lastTab, m)
  <2>1. v \in Players!View
    <3>1. Players!Header(m) \in HeaderType /\ Players!SharedNow(m) \in SharedCategories \cup {Players!NoCategories}
      BY <1>2, DrawnTypes
    <3> HIDE DEF m
    <3> QED BY <3>1 DEF Players!View, HeaderType, Players!Untold
  <2>2. profile' = w
    BY <1>1, <1>4 DEF Players!Opened
  <2>3. v.name = p /\ v.shared = Players!SharedNow(m) /\ v.header = Players!Header(m)
    OBVIOUS
  <2> HIDE DEF v, m
  <2>4. /\ w \in Players!View /\ w.name = v.name /\ w.shared = v.shared /\ w.header = v.header
        /\ w.vitals <=> lastTab = "overview" /\ Players!MayShow(m, "activity")
        /\ w.denied <=> Players!Denied(lastTab, m)
        /\ w.rows = {} /\ w.errors = {}
        /\ w.vitals => w.prayers = Players!Prayers(m) /\ w.status = Players!Told(m)
    BY <1>2, <2>1, BodyIs DEF m
  <2> HIDE DEF w
  <2>5. HeaderIs(w.header, m)
    BY <1>2, <2>3, <2>4, HeaderIsNow DEF m
  <2>6. loads' = Players!Detached(loads) \cup Players!Ask(w.name, lastTab, Players!Asks(lastTab, m, lastPeriod))
    BY <1>1, <1>4, <2>3, <2>4 DEF m
  <2>7. ShowsMember(w, m, lastTab) /\ TabServed(w, m, lastTab, lastPeriod, loads') /\ LoadsInv(loads', w, lastTab)
    BY <1>2, <2>3, <2>4, <2>5, <2>6, TabAnew DEF m
  <2>8. profile' \in Players!View /\ store'[profile'.name] = m /\ m # Players!Gone /\ ShowsMember(profile', m, lastTab')
        /\ TabServed(profile', m, lastTab', lastPeriod', loads') /\ LoadsInv(loads', profile', lastTab')
    BY <1>1, <2>2, <2>3, <2>4, <2>7 DEF m
  <2>9. ProfileInv'
    BY <2>8, ProfileDrawn
  <2> QED BY <1>1, <1>2, <2>8, <2>9, OnlyTheProfile
<1> QED BY <1>3, <1>4

LEMMA ShowTabKeeps == ASSUME PlayersInv, Players!ViewConstants, NEW tab \in Players!Tabs, Players!ShowTab(tab) PROVE PlayersInv'
<1> DEFINE m == store[profile.name]
           w == Players!Body(profile, tab, m)
<1>1. /\ profile # Players!Closed /\ UNCHANGED <<store, roster, table, lastPeriod>> /\ lastTab' = tab
      /\ profile' = w
      /\ loads' = Players!Detached(loads) \cup Players!Ask(profile.name, tab, Players!Asks(tab, m, lastPeriod))
  BY DEF Players!ShowTab, Players!dataVars, Players!listVars
<1>2. /\ profile \in Players!View /\ m # Players!Gone /\ m \in Players!Members /\ ShowsMember(profile, m, lastTab)
      /\ lastPeriod \in GainPeriods /\ loads \subseteq TabLoads
  BY <1>1, OpenProfile DEF PlayersInv, Players!TypeOK, LoadsInv
<1> HIDE DEF m
<1>3. /\ w \in Players!View /\ w.name = profile.name /\ w.shared = profile.shared /\ w.header = profile.header
      /\ w.vitals <=> tab = "overview" /\ Players!MayShow(m, "activity")
      /\ w.denied <=> Players!Denied(tab, m)
      /\ w.rows = {} /\ w.errors = {}
      /\ w.vitals => w.prayers = Players!Prayers(m) /\ w.status = Players!Told(m)
  BY <1>2, BodyIs
<1> HIDE DEF w
<1>4. ShowsMember(w, m, tab) /\ TabServed(w, m, tab, lastPeriod, loads') /\ LoadsInv(loads', w, tab)
  <2>1. HeaderIs(w.header, m) /\ w.shared = Players!SharedNow(m)
    BY <1>2, <1>3 DEF ShowsMember
  <2>2. loads' = Players!Detached(loads) \cup Players!Ask(w.name, tab, Players!Asks(tab, m, lastPeriod))
    BY <1>1, <1>3
  <2> QED BY <1>2, <1>3, <2>1, <2>2, TabAnew
<1>5. profile' \in Players!View /\ store'[profile'.name] = m /\ m # Players!Gone /\ ShowsMember(profile', m, lastTab')
      /\ TabServed(profile', m, lastTab', lastPeriod', loads') /\ LoadsInv(loads', profile', lastTab')
  BY <1>1, <1>2, <1>3, <1>4 DEF m
<1>6. ProfileInv'
  BY <1>5, ProfileDrawn
<1> QED BY <1>1, <1>2, <1>5, <1>6, OnlyTheProfile

\* A profile whose player and whose tab stay, with other parts or another header.
LEMMA OnTheTab ==
  ASSUME PlayersInv, Players!ViewConstants, profile # Players!Closed, NEW w \in Players!View, NEW ls, NEW period \in GainPeriods,
         UNCHANGED <<store, roster, table, lastTab>>, profile' = w, loads' = ls, lastPeriod' = period,
         w.name = profile.name, w.shared = profile.shared, w.vitals = profile.vitals, w.denied = profile.denied,
         w.prayers = profile.prayers, w.status = profile.status,
         HeaderIs(w.header, store[profile.name]), ls \subseteq TabLoads,
         \A l \in ls : l.here => l.name = profile.name /\ l.tab = lastTab,
         TabServed(w, store[profile.name], lastTab, period, ls)
  PROVE  PlayersInv'
<1> DEFINE m == store[profile.name]
<1>1. m # Players!Gone /\ m \in Players!Members /\ ShowsMember(profile, m, lastTab) /\ lastTab \in Players!Tabs
  BY OpenProfile DEF PlayersInv, Players!TypeOK
<1>2. store'[profile'.name] = m /\ w # Players!Closed
  BY ViewFields DEF Players!Closed, Players!ViewConstants
<1>3. ShowsMember(w, m, lastTab)
  BY <1>1 DEF ShowsMember
<1>4. ProfileInv'
  <2> HIDE DEF m
  <2>1. profile' \in Players!View /\ store'[profile'.name] # Players!Gone /\ ShowsMember(profile', store'[profile'.name], lastTab')
    BY <1>1, <1>2, <1>3
  <2>2. TabServed(profile', store'[profile'.name], lastTab', lastPeriod', loads')
    BY <1>2 DEF m
  <2> QED BY <2>1, <2>2, ProfileDrawn
<1>5. LoadsInv(loads, profile, lastTab)'
  BY <1>2 DEF LoadsInv
<1> QED BY <1>1, <1>4, <1>5, OnlyTheProfile

\* Requests of the open tab, added to those under way.
LEMMA AskedMore ==
  ASSUME NEW name \in ViewedPlayers, NEW tab \in Players!Tabs, NEW a \in TabRequests
  PROVE  /\ Players!Ask(name, tab, {a}) = {[name |-> name, tab |-> tab, ask |-> a, here |-> TRUE]}
         /\ Players!Ask(name, tab, {a}) \subseteq TabLoads
         /\ \A l \in Players!Ask(name, tab, {a}) : l.name = name /\ l.tab = tab
<1> DEFINE l == [name |-> name, tab |-> tab, ask |-> a, here |-> TRUE]
<1>1. Players!Ask(name, tab, {a}) = {l}
  <2>1. ASSUME NEW x PROVE x \in Players!Ask(name, tab, {a}) <=> x = l
    BY Zenon DEF Players!Ask
  <2> HIDE DEF l
  <2> QED BY <2>1
<1>2. l \in TabLoads /\ l.name = name /\ l.tab = tab
  BY DEF TabLoads
<1> HIDE DEF l
<1>3. Players!Ask(name, tab, {a}) \subseteq TabLoads /\ \A k \in Players!Ask(name, tab, {a}) : k.name = name /\ k.tab = tab
  BY <1>1, <1>2
<1> QED BY <1>1, <1>3 DEF l

LEMMA ChoosePeriodKeeps ==
  ASSUME PlayersInv, Players!ViewConstants, NEW period \in GainPeriods, Players!ChoosePeriod(period) PROVE PlayersInv'
<1> DEFINE m == store[profile.name]
           w == [profile EXCEPT !.rows = {}]
           a == [what |-> "gains", period |-> period]
           more == Players!Ask(profile.name, "gains", {a})
           ls == loads \cup more
<1>1. /\ profile # Players!Closed /\ lastTab = "gains" /\ UNCHANGED <<store, roster, table, lastTab>>
      /\ lastPeriod' = period /\ profile' = w /\ loads' = ls
  BY DEF Players!ChoosePeriod, Players!dataVars, Players!listVars
<1>2. /\ profile \in Players!View /\ profile.name \in ViewedPlayers /\ ShowsMember(profile, m, lastTab)
      /\ loads \subseteq TabLoads /\ \A l \in loads : l.here => l.name = profile.name /\ l.tab = lastTab
  BY <1>1, OpenProfile DEF PlayersInv, LoadsInv
<1>3. /\ w \in Players!View /\ w.name = profile.name /\ w.shared = profile.shared /\ w.vitals = profile.vitals
      /\ w.denied = profile.denied /\ w.prayers = profile.prayers /\ w.status = profile.status
      /\ w.header = profile.header /\ w.rows = {}
  BY <1>2 DEF Players!View
<1>4. a \in TabRequests /\ "gains" \in Players!Tabs
  BY DEF TabRequests, Players!Tabs
<1> HIDE DEF a
<1>5. /\ more = {[name |-> profile.name, tab |-> "gains", ask |-> a, here |-> TRUE]}
      /\ more \subseteq TabLoads /\ \A l \in more : l.name = profile.name /\ l.tab = lastTab
  BY <1>1, <1>2, <1>4, AskedMore
<1> HIDE DEF more, w
<1>6. TabServed(w, m, lastTab, period, ls)
  <2>1. Players!Asks(lastTab, m, period) = {a}
    BY <1>1 DEF Players!Asks, Players!Needs, a
  <2> DEFINE l == [name |-> profile.name, tab |-> "gains", ask |-> a, here |-> TRUE]
  <2>2. l \in {k \in ls : k.here} /\ Players!Row(l) = [name |-> w.name, tab |-> lastTab, what |-> a.what, period |-> a.period]
    BY <1>1, <1>3, <1>5 DEF Players!Row
  <2>3. Players!Row(l) \in {Players!Row(k) : k \in {k \in ls : k.here}}
    BY <2>2
  <2> QED BY <1>3, <2>1, <2>2, <2>3 DEF TabServed
<1>7. ls \subseteq TabLoads /\ \A l \in ls : l.here => l.name = profile.name /\ l.tab = lastTab
  BY <1>2, <1>5
<1>8. HeaderIs(w.header, m)
  BY <1>2, <1>3 DEF ShowsMember
<1> HIDE DEF ls
<1> QED BY <1>1, <1>3, <1>6, <1>7, <1>8, OnTheTab

LEMMA RefreshFeedKeeps == ASSUME PlayersInv, Players!ViewConstants, Players!RefreshFeed PROVE PlayersInv'
<1> DEFINE m == store[profile.name]
           a == [what |-> "feed", period |-> "-"]
           more == Players!Ask(profile.name, "activity", {a})
           ls == loads \cup more
<1>1. /\ profile # Players!Closed /\ lastTab = "activity" /\ UNCHANGED <<store, roster, table, lastTab, lastPeriod, profile>>
      /\ loads' = ls
  BY DEF Players!RefreshFeed, Players!dataVars, Players!listVars
<1>2. /\ profile \in Players!View /\ profile.name \in ViewedPlayers /\ ShowsMember(profile, m, lastTab) /\ lastPeriod \in GainPeriods
      /\ loads \subseteq TabLoads /\ (\A l \in loads : l.here => l.name = profile.name /\ l.tab = lastTab)
      /\ TabServed(profile, m, lastTab, lastPeriod, loads)
  BY <1>1, OpenProfile DEF PlayersInv, LoadsInv, Players!TypeOK
<1>3. a \in TabRequests /\ "activity" \in Players!Tabs
  BY DEF TabRequests, Players!Tabs
<1> HIDE DEF a
<1>4. more \subseteq TabLoads /\ \A l \in more : l.name = profile.name /\ l.tab = lastTab
  BY <1>1, <1>2, <1>3, AskedMore
<1> HIDE DEF more
<1>5. TabServed(profile, m, lastTab, lastPeriod, ls)
  BY <1>2 DEF TabServed
<1>6. ls \subseteq TabLoads /\ \A l \in ls : l.here => l.name = profile.name /\ l.tab = lastTab
  BY <1>2, <1>4
<1>7. HeaderIs(profile.header, m)
  BY <1>2 DEF ShowsMember
<1> HIDE DEF ls
<1> QED BY <1>1, <1>2, <1>5, <1>6, <1>7, OnTheTab

LEMMA RefreshHeaderKeeps == ASSUME PlayersInv, Players!ViewConstants, Players!RefreshHeader PROVE PlayersInv'
<1> DEFINE m == store[profile.name]
           h == Players!Header(m)
           w == [profile EXCEPT !.header = h]
<1>1. profile # Players!Closed /\ UNCHANGED <<store, roster, table, lastTab, lastPeriod, loads>> /\ profile' = w
  BY DEF Players!RefreshHeader, Players!dataVars, Players!listVars
<1>2. /\ profile \in Players!View /\ m \in Players!Members /\ lastPeriod \in GainPeriods
      /\ loads \subseteq TabLoads /\ (\A l \in loads : l.here => l.name = profile.name /\ l.tab = lastTab)
      /\ TabServed(profile, m, lastTab, lastPeriod, loads)
  BY <1>1, OpenProfile DEF PlayersInv, LoadsInv, Players!TypeOK
<1>3. h \in HeaderType /\ HeaderIs(h, m)
  BY <1>2, DrawnTypes, HeaderIsNow
<1> HIDE DEF h
<1>4. /\ w \in Players!View /\ w.name = profile.name /\ w.shared = profile.shared /\ w.vitals = profile.vitals
      /\ w.denied = profile.denied /\ w.prayers = profile.prayers /\ w.status = profile.status
      /\ w.header = h /\ w.rows = profile.rows /\ w.errors = profile.errors
  BY <1>2, <1>3 DEF Players!View, HeaderType
<1> HIDE DEF w
<1>5. TabServed(w, m, lastTab, lastPeriod, loads)
  BY <1>2, <1>4 DEF TabServed
<1> QED BY <1>1, <1>2, <1>3, <1>4, <1>5, OnTheTab

\* An answer lands in the tab that asked for it, or nowhere.
LEMMA AnswerKeeps ==
  ASSUME PlayersInv, Players!ViewConstants, NEW l \in loads, NEW ok \in BOOLEAN, Players!Answer(l, ok) PROVE PlayersInv'
<1> DEFINE m == store[profile.name]
           ls == loads \ {l}
           w == IF ok THEN [profile EXCEPT !.rows = @ \cup {Players!Row(l)}, !.errors = @ \ {Players!Row(l)}]
                ELSE [profile EXCEPT !.errors = @ \cup {Players!Row(l)},
                                     !.rows = IF l.ask.what = "feed" THEN @ \ {Players!Row(l)} ELSE @]
<1>1. /\ UNCHANGED <<store, roster, table, lastTab, lastPeriod>> /\ loads' = ls
      /\ profile' = IF ~l.here THEN profile ELSE w
  BY DEF Players!Answer, Players!dataVars, Players!listVars
<1>2. /\ lastTab \in Players!Tabs /\ lastPeriod \in GainPeriods /\ l \in TabLoads /\ ls \subseteq TabLoads
      /\ profile \in Players!View \cup {Players!Closed}
      /\ \A k \in loads : k.here => profile # Players!Closed /\ k.name = profile.name /\ k.tab = lastTab
  BY DEF PlayersInv, Players!TypeOK, LoadsInv
<1>3. CASE ~l.here
  <2>1. profile' = profile
    BY <1>1, <1>3
  <2>2. CASE profile = Players!Closed
    <3>1. ProfileInv' /\ LoadsInv(loads, profile, lastTab)'
      BY <1>1, <1>2, <2>1, <2>2 DEF ProfileInv, LoadsInv
    <3> QED BY <1>1, <1>2, <2>1, <3>1, OnlyTheProfile
  <2>3. CASE profile # Players!Closed
    <3>1. profile \in Players!View /\ ShowsMember(profile, m, lastTab) /\ TabServed(profile, m, lastTab, lastPeriod, loads)
      BY <2>3, OpenProfile
    <3>2. {k \in ls : k.here} = {k \in loads : k.here}
      BY <1>3
    <3>3. TabServed(profile, m, lastTab, lastPeriod, ls) /\ HeaderIs(profile.header, m)
      BY <3>1, <3>2 DEF TabServed, ShowsMember
    <3> HIDE DEF ls
    <3>4. \A k \in ls : k.here => k.name = profile.name /\ k.tab = lastTab
      BY <1>2 DEF ls
    <3> QED BY <1>1, <1>2, <2>1, <2>3, <3>1, <3>3, <3>4, OnTheTab
  <2> QED BY <2>2, <2>3
<1>4. CASE l.here
  <2>1. profile # Players!Closed /\ l.name = profile.name /\ l.tab = lastTab /\ profile' = w
    BY <1>1, <1>2, <1>4
  <2>2. profile \in Players!View /\ ShowsMember(profile, m, lastTab) /\ TabServed(profile, m, lastTab, lastPeriod, loads)
    BY <2>1, OpenProfile
  <2> DEFINE x == Players!Row(l)
  <2>3. x \in Players!Part /\ x.name = profile.name /\ x.tab = lastTab
    BY <1>2, <2>1 DEF Players!Row, Players!Part, TabLoads, TabRequests
  <2> DEFINE rs == IF ok THEN profile.rows \cup {x} ELSE IF l.ask.what = "feed" THEN profile.rows \ {x} ELSE profile.rows
             es == IF ok THEN profile.errors \ {x} ELSE profile.errors \cup {x}
  <2>4. w = [profile EXCEPT !.rows = rs, !.errors = es]
    BY <2>2, ViewFields
  <2> HIDE DEF x
  <2>5. /\ rs \subseteq Players!Part /\ es \subseteq Players!Part /\ rs \subseteq profile.rows \cup {x}
        /\ rs \cup es = profile.rows \cup profile.errors \cup {x}
    BY <2>2, <2>3, ViewFields
  <2> HIDE DEF rs, es, w
  <2>6. /\ w \in Players!View /\ w.name = profile.name /\ w.shared = profile.shared /\ w.vitals = profile.vitals
        /\ w.denied = profile.denied /\ w.prayers = profile.prayers /\ w.status = profile.status
        /\ w.header = profile.header /\ w.rows = rs /\ w.errors = es
    BY <2>2, <2>4, <2>5 DEF Players!View
  <2>7. TabServed(w, m, lastTab, lastPeriod, ls)
    <3>1. \A y \in rs : y.name = w.name /\ y.tab = lastTab
      BY <2>2, <2>3, <2>5, <2>6 DEF TabServed
    <3>2. ASSUME NEW a \in Players!Asks(lastTab, m, lastPeriod)
          PROVE  [name |-> w.name, tab |-> lastTab, what |-> a.what, period |-> a.period]
                   \in rs \cup es \cup {Players!Row(k) : k \in {k \in ls : k.here}}
      <4> DEFINE y == [name |-> w.name, tab |-> lastTab, what |-> a.what, period |-> a.period]
      <4>1. y \in profile.rows \cup profile.errors \cup {Players!Row(k) : k \in {k \in loads : k.here}}
        BY <2>2, <2>6 DEF TabServed
      <4> SUFFICES y \in rs \cup es \cup {Players!Row(k) : k \in {k \in ls : k.here}}
        OBVIOUS
      <4> HIDE DEF y
      <4>2. CASE y \in profile.rows \cup profile.errors
        BY <2>5, <4>2
      <4>3. CASE y \in {Players!Row(k) : k \in {k \in loads : k.here}}
        <5>1. PICK k \in loads : k.here /\ y = Players!Row(k)
          BY <4>3
        <5>2. k = l \/ k \in ls
          OBVIOUS
        <5> QED BY <2>5, <5>1, <5>2 DEF x
      <4> QED BY <4>1, <4>2, <4>3
    <3> QED BY <2>6, <3>1, <3>2 DEF TabServed
  <2>8. HeaderIs(w.header, m)
    BY <2>2, <2>6 DEF ShowsMember
  <2> HIDE DEF ls
  <2>9. \A k \in ls : k.here => k.name = profile.name /\ k.tab = lastTab
    BY <1>2 DEF ls
  <2> QED BY <1>1, <1>2, <2>1, <2>6, <2>7, <2>8, <2>9, OnTheTab
<1> QED BY <1>3, <1>4

\* The lists are arranged: nothing else changes.
LEMMA OnlyTheLists ==
  ASSUME PlayersInv, Players!ViewConstants, ListsInv', UNCHANGED <<store, profile, lastTab, lastPeriod, loads>> PROVE PlayersInv'
<1>1. ProfileInv' /\ LoadsInv(loads, profile, lastTab)'
  BY ProfileStays
<1>2. Players!TypeOK'
  BY DEF PlayersInv, Players!TypeOK
<1>3. (\A p \in Players!Known : SharedOnly(store[p]))'
  BY DEF PlayersInv, Players!Known
<1> QED BY <1>1, <1>2, <1>3 DEF PlayersInv

LEMMA PlayersStep == ASSUME PlayersInv, Players!ViewConstants, Players!Next PROVE PlayersInv'
<1>1. CASE \E p \in ViewedPlayers, r \in Players!Served :
             \E brought \in SUBSET {"stats", "coordinates", "meta"} : Players!PollBrings(p, r, brought)
  BY <1>1, PollBringsKeeps
<1>2. CASE \E p \in ViewedPlayers : Players!PollLeaves(p) \/ Players!Select(p)
  BY <1>2, PollLeavesKeeps, RowSelectKeeps
<1>3. CASE Players!NamesLoad \/ Players!RefreshHeader \/ Players!RefreshFeed
  BY <1>3, NamesLoadKeeps, RefreshHeaderKeeps, RefreshFeedKeeps
<1>4. CASE Players!VisitTable
  <2>1. ListsInv'
    BY <1>4, VisitTableKeeps DEF PlayersInv
  <2>2. UNCHANGED <<store, profile, lastTab, lastPeriod, loads>>
    BY <1>4 DEF Players!VisitTable, Players!dataVars, Players!viewVars
  <2> QED BY <2>1, <2>2, OnlyTheLists
<1>5. CASE \E tab \in Players!Tabs : Players!ShowTab(tab)
  BY <1>5, ShowTabKeeps
<1>6. CASE \E period \in GainPeriods : Players!ChoosePeriod(period)
  BY <1>6, ChoosePeriodKeeps
<1>7. CASE \E l \in loads, ok \in BOOLEAN : Players!Answer(l, ok)
  BY <1>7, AnswerKeeps
<1>8. ASSUME NEW status \in Players!Statuses, Players!FilterRoster(status) PROVE PlayersInv'
  <2>1. ListsInv'
    BY <1>8, FilterKeeps DEF PlayersInv
  <2>2. UNCHANGED <<store, profile, lastTab, lastPeriod, loads>>
    BY <1>8 DEF Players!FilterRoster, Players!dataVars, Players!viewVars
  <2> QED BY <2>1, <2>2, OnlyTheLists
<1>9. ASSUME NEW status \in Players!Statuses, NEW d \in BOOLEAN, Players!ArrangeTable(status, d) PROVE PlayersInv'
  <2>1. ListsInv'
    BY <1>9, ArrangeKeeps DEF PlayersInv
  <2>2. UNCHANGED <<store, profile, lastTab, lastPeriod, loads>>
    BY <1>9 DEF Players!ArrangeTable, Players!dataVars, Players!viewVars
  <2> QED BY <2>1, <2>2, OnlyTheLists
<1> QED BY <1>1, <1>2, <1>3, <1>4, <1>5, <1>6, <1>7, <1>8, <1>9 DEF Players!Next

\* For any players, places, shared categories and periods, whatever polls bring and viewers do: both lists
\* show exactly the players on the map, each as last polled; the open profile shows its player as last polled
\* and no part they don't share, and each part its tab is to show is there, on its way or said to have failed
\* (player-roster.js, players-page.js, player-profile.js).
THEOREM PlayersAreShown == MCSpec => []PlayersAgree
<1> DEFINE IInv == part = "players" => PlayersInv
<1>1. MCInit => IInv
  BY PlayersBegin, PlayersCanBe DEF MCInit
<1>2. IInv /\ [MCNext]_allVars => IInv'
  <2> SUFFICES ASSUME IInv, [MCNext]_allVars, part' = "players" PROVE PlayersInv'
    OBVIOUS
  <2>1. CASE OfPlayers
    BY <2>1, PlayersStep, PlayersCanBe DEF OfPlayers
  <2>2. CASE UNCHANGED playersVars /\ part' = part
    <3>1. PlayersInv /\ UNCHANGED <<store, roster, table>> /\ UNCHANGED <<store, profile, lastTab, lastPeriod, loads>>
      BY <2>2 DEF playersVars
    <3>2. ListsInv'
      BY <3>1, ListsStay DEF PlayersInv
    <3> QED BY <3>1, <3>2, OnlyTheLists, PlayersCanBe
  <2> QED BY <2>1, <2>2 DEF MCNext, OfView, OfMarkers, OfReplay, OfTrails, OfBoards, OfLife, OfHistory,
          OfGear, OfToasts, OfSessions, allVars
<1>3. IInv => PlayersAgree
  BY PlayersInvHolds DEF PlayersAgree
<1> QED BY <1>1, <1>2, <1>3, PTL DEF MCSpec
=============================================================================
