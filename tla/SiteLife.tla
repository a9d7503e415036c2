------------------------------ MODULE SiteLife ------------------------------
(***************************************************************************)
(* The life of a page of the site: where it is (router.js, app-route.js,   *)
(* wrap-routes.js), who is signed in (session.js, login, discord-callback  *)
(* and logout pages), and what starts and ends with the signed-in section  *)
(* (app-initializer.js): the polls (api.js), the live events, the loading  *)
(* screen.  The server handles a request when it is made; its answer may   *)
(* come late, in any order, or to a page that has gone elsewhere.          *)
(***************************************************************************)
EXTENDS Naturals, FiniteSets

CONSTANTS Users, Admins,
          Nobody,
          MaxMoves     \* bound: what the viewer does, and sessions that end

VARIABLES
  account,   \* whom the session cookie names at the server
  site,      \* the page, below
  moves

vars == <<account, site, moves>>

Section == {"map", "admin"}                      \* under /guild
Paths == Section \cup {"home", "login", "callback", "logout"}
Untold == "untold"                               \* a topic nothing is published on

\* path; section: the number of the initializer on the page, or 0, of `count`
\* there have been; topic, items: what pubsub holds of "session" and
\* "item-data-loaded"; current: session.current; shown: the admin page's;
\* loops: the poll intervals that run; members: there are some; loader: the
\* loading screen; live: liveEvents runs; inits: initializeApp calls that
\* go on; polls, features, calls: the requests under way.
Fresh == [path |-> "none", section |-> 0, count |-> 0, topic |-> Untold, items |-> FALSE,
          current |-> Nobody, shown |-> FALSE, loops |-> {}, members |-> FALSE, loader |-> FALSE,
          live |-> FALSE, inits |-> {}, polls |-> {}, features |-> {}, calls |-> {}]

-----------------------------------------------------------------------------
(* What the handlers are made of.                                          *)

\* disable: no interval, no members; what was asked is still answered.
Disable(s) == [s EXCEPT !.loops = {}, !.members = FALSE]

\* Mutant: leaving the section leaves the polls running.
CleanUpButPolls(s) == [s EXCEPT !.live = FALSE, !.topic = Untold, !.items = FALSE, !.loader = FALSE]

\* cleanup
CleanUp(s) == [Disable(s) EXCEPT !.live = FALSE, !.topic = Untold, !.items = FALSE, !.loader = FALSE]

\* The section's elements are made: initializeApp asks who is signed in, and
\* for the items and their prices.
EnterSection(s) ==
  LET n == s.count + 1 IN
  [CleanUp(s) EXCEPT !.section = n, !.count = n, !.loader = TRUE,
     !.inits = @ \cup {[n |-> n, at |-> "loading", waits |-> {"who", "data"}, who |-> account]}]

LeaveSection(s) == [CleanUp(s) EXCEPT !.section = 0]

\* AdminPortal.handleSession, on the admin page.
HearSession(s) ==
  IF s.path # "admin" \/ s.topic \in {Untold, Nobody} THEN s
  ELSE IF s.topic \in Admins THEN [s EXCEPT !.shown = TRUE]
  ELSE [s EXCEPT !.path = "map", !.shown = FALSE]

\* session.set
SetSession(s, who) == HearSession([s EXCEPT !.current = who, !.topic = who])

\* pushState, and what the router makes of it: the page that is left goes,
\* then its wrapper if the next has another; the next is made, its wrapper first.
GoTo(s, path) ==
  IF path = s.path THEN s
  ELSE LET left == IF s.section # 0 /\ path \notin Section THEN LeaveSection(s) ELSE s
           entered == IF s.section = 0 /\ path \in Section THEN EnterSection(left) ELSE left
           there == [entered EXCEPT !.path = path, !.shown = FALSE,
                       !.calls = IF path = "logout" THEN @ \cup {[what |-> "logout", as |-> Nobody]} ELSE @]
       IN HearSession(there)

\* members-polled: whoever waits for the first poll hides the loading screen,
\* on the page still or not.
Polled(s) ==
  LET waiting == {i \in s.inits : i.at = "polling"} IN
  [s EXCEPT !.inits = @ \ waiting, !.loader = IF waiting = {} THEN @ ELSE FALSE]

\* initializeApp after its loads: enable, with the first poll at once; or the
\* login page. An initializer off the page stops here.
Loaded(s, i) ==
  LET rest == [s EXCEPT !.inits = @ \ {i}] IN
  IF i.n # s.section THEN rest
  ELSE IF i.who = Nobody THEN GoTo(rest, "login")
  ELSE [Disable(rest) EXCEPT !.inits = @ \cup {[i EXCEPT !.at = "polling"]},
          !.features = @ \cup {i.n}, !.loops = {i.n},
          !.polls = @ \cup {[n |-> i.n, by |-> "first", as |-> account]}]

\* One of the loads is there.
After(s, i, what) ==
  LET j == [i EXCEPT !.waits = @ \ {what}]
      t == [s EXCEPT !.inits = (@ \ {i}) \cup {j}]
  IN IF j.waits = {} THEN Loaded(t, j) ELSE t

-----------------------------------------------------------------------------
Init ==
  /\ account \in Users \cup {Nobody} /\ moves = 0
  /\ \E path \in Paths \ {"callback", "logout"} : site = GoTo(Fresh, path)

Move == moves < MaxMoves /\ moves' = moves + 1
Stay == UNCHANGED <<account, moves>>

\* A link, or the way back.
Visit(path) ==
  /\ Move /\ path # site.path /\ site' = GoTo(site, path)
  /\ account' = IF path = "logout" THEN Nobody ELSE account

\* The page is loaded anew.
Reload == Move /\ site' = GoTo(Fresh, site.path) /\ UNCHANGED account

\* Back from Discord, which takes a load; the server has asked the hub.
ReturnFromDiscord(who) ==
  /\ Move /\ site.path = "login"
  /\ site' = [GoTo(Fresh, "callback") EXCEPT !.calls = {[what |-> "callback", as |-> who]}]
  /\ account' = IF who = Nobody THEN account ELSE who

\* A session runs out, or ends in another window.
SessionEnds == Move /\ account # Nobody /\ account' = Nobody /\ UNCHANGED site

\* session.load is answered, or fails: nobody then.
WhoAnswers(i, ok) ==
  LET who == IF ok THEN i.who ELSE Nobody IN
  /\ "who" \in i.waits
  /\ site' = LET j == [i EXCEPT !.who = who]
                 t == [site EXCEPT !.inits = (@ \ {i}) \cup {j}]
             IN After(SetSession(t, who), j, "who")
  /\ Stay

\* The items and the prices are there; without one of them the call is over.
DataAnswers(i, ok) ==
  /\ "data" \in i.waits /\ i.at = "loading"
  /\ site' = IF ok THEN After([site EXCEPT !.items = TRUE], i, "data")
             ELSE [site EXCEPT !.inits = (@ \ {i}) \cup {[i EXCEPT !.at = "failed"]}]
  /\ Stay

FeaturesAnswer(n, history) ==
  /\ site' = [site EXCEPT !.features = @ \ {n}, !.live = @ \/ (history /\ n = site.section)]
  /\ Stay

\* callOnInterval: not while the interval's own last poll is under way.
Poll(n) ==
  /\ \A q \in site.polls : ~(q.n = n /\ q.by = "interval")
  /\ site' = [site EXCEPT !.polls = @ \cup {[n |-> n, by |-> "interval", as |-> account]}]
  /\ Stay

\* pollMembers: the answer goes to the store, or ends the section.
PollAnswers(q) ==
  LET s == [site EXCEPT !.polls = @ \ {q}] IN
  /\ site' = IF q.as # Nobody THEN Polled([s EXCEPT !.members = TRUE])
             ELSE Polled(GoTo(Disable(s), "login"))
  /\ Stay

PollFails(q) == site' = [site EXCEPT !.polls = @ \ {q}] /\ Stay

\* LogoutPage, answered or not: wherever the viewer went meanwhile.
LogoutAnswers(call) ==
  /\ call.what = "logout"
  /\ site' = GoTo(SetSession([Disable(site) EXCEPT !.calls = @ \ {call}], Nobody), "home")
  /\ Stay

\* DiscordCallback: likewise.
CallbackAnswers(call) ==
  /\ call.what = "callback"
  /\ site' = LET s == [site EXCEPT !.calls = @ \ {call}]
             IN IF call.as = Nobody THEN s ELSE GoTo(SetSession(s, call.as), "map")
  /\ Stay

Next ==
  \/ \E path \in Paths \ {"callback"} : Visit(path)
  \/ Reload \/ SessionEnds
  \/ \E who \in Users \cup {Nobody} : ReturnFromDiscord(who)
  \/ \E i \in site.inits, ok \in BOOLEAN : WhoAnswers(i, ok) \/ DataAnswers(i, ok)
  \/ \E n \in site.features, history \in BOOLEAN : FeaturesAnswer(n, history)
  \/ \E n \in site.loops : Poll(n)
  \/ \E q \in site.polls : PollAnswers(q) \/ PollFails(q)
  \/ \E call \in site.calls : LogoutAnswers(call) \/ CallbackAnswers(call)

Spec == Init /\ [][Next]_vars

-----------------------------------------------------------------------------
TypeOK ==
  /\ account \in Users \cup {Nobody}
  /\ site.path \in Paths /\ site.section \in 0..site.count
  /\ site.current \in Users \cup {Nobody} /\ site.topic \in Users \cup {Nobody, Untold}
  /\ site.loops \subseteq 1..site.count

\* Wherever late answers take the page, it polls exactly while a section is on
\* it that has loaded, once, for that section; so does it ask for live events
\* nowhere else. A section thus never stands there signed in and still: what
\* ends its polls takes it off the page too.
SectionPolls ==
  LET busy == {i.n : i \in {j \in site.inits : j.at # "polling"}} IN
  /\ site.section # 0 <=> site.path \in Section
  /\ site.loops = IF site.section = 0 \/ site.section \in busy THEN {} ELSE {site.section}
  /\ site.live => site.section # 0
  /\ site.loops # {} => site.items

\* The loading screen covers only a section, and only one that loads still or
\* failed to, or has not had an answer to a poll.
LoaderGoes ==
  site.loader => \E i \in site.inits : i.n = site.section

\* What the admin page shows is shown to an admin, or to one the page took for
\* an admin until the last answer.
AdminsOnly == site.shown => site.path = "admin" /\ site.current \in Admins \cup {Nobody}

LifeHolds == TypeOK /\ SectionPolls /\ LoaderGoes /\ AdminsOnly
=============================================================================
