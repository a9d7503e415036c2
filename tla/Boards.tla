------------------------------- MODULE Boards -------------------------------
(***************************************************************************)
(* Two pages that ask the backend anew for everything that is chosen on    *)
(* them, with answers that come late and in any order: the graphs          *)
(* (skills-graphs.js), which number their requests, and the clan page's    *)
(* boards (clan-page.js), which don't.  Both elements outlive a visit.     *)
(***************************************************************************)
EXTENDS Naturals, FiniteSets

CONSTANTS Names, Periods, Skills, NoSkill,
          MaxPlayers,    \* MAX_GRAPH_PLAYERS
          MaxChoices     \* bound: what the viewer does

VARIABLES
  polled,    \* the topic members-polled was published
  graph,     \* the page: visit (0: never), open, period, names (Unknown at first), gen, queued
  charts,    \* createChart calls under way
  chart,     \* what the container shows
  overlay,   \* the number of the call whose loader covers the page
  clan,      \* the page: open, loaded, and its gains: period, skill, boards, list, status
  asks,      \* loadGains calls under way
  choices

graphVars == <<polled, graph, charts, chart, overlay>>
clanVars == <<clan, asks>>
vars == <<graphVars, clanVars, choices>>

Unknown == {"unknown"}
Blank == [kind |-> "blank"]
NoLoader == <<0, 0>>

Number(c) == <<c.visit, c.gen>>

Choose == choices < MaxChoices /\ choices' = choices + 1

-----------------------------------------------------------------------------
(* The graphs.                                                             *)

\* createChart, called: a number, the loader, and the request -- for the
\* default selection first (one for all calls), while none is known.
Call(g) == [visit |-> g.visit, gen |-> g.gen + 1, period |-> g.period, names |-> g.names]

Start(g, shown) ==
  /\ graph' = [g EXCEPT !.gen = @ + 1, !.queued = FALSE]
  /\ IF g.names = {}
     THEN overlay' = NoLoader /\ chart' = [kind |-> "prompt"] /\ UNCHANGED charts
     ELSE overlay' = Number(Call(g)) /\ charts' = charts \cup {Call(g)} /\ chart' = shown

\* subscribeOnce("members-polled", createChart): at once, but before the first poll.
Draw(g, shown) ==
  IF polled THEN Start(g, shown)
  ELSE /\ graph' = [g EXCEPT !.queued = TRUE] /\ chart' = shown /\ overlay' = NoLoader
       /\ UNCHANGED charts

FirstPoll ==
  /\ ~polled /\ polled' = TRUE
  /\ IF graph.open /\ graph.queued THEN Start(graph, chart) ELSE UNCHANGED <<graph, charts, chart, overlay>>
  /\ UNCHANGED <<clanVars, choices>>

\* connectedCallback: everything made anew but the selection; the numbers
\* start from 0 again.
Visit ==
  /\ ~graph.open /\ Choose
  /\ Draw([graph EXCEPT !.open = TRUE, !.visit = @ + 1, !.period = "Day", !.gen = 0], Blank)
  /\ UNCHANGED <<polled, clanVars>>

Leave ==
  /\ graph.open /\ Choose
  /\ graph' = [graph EXCEPT !.open = FALSE, !.queued = FALSE]
  /\ chart' = Blank /\ overlay' = NoLoader
  /\ UNCHANGED <<polled, charts, clanVars>>

\* handlePeriodChange
ChoosePeriod(period) ==
  /\ graph.open /\ Choose /\ Draw([graph EXCEPT !.period = period], chart)
  /\ UNCHANGED <<polled, clanVars>>

\* handleChipClick, addPlayer
SelectNames(names) ==
  /\ graph.open /\ Choose /\ graph.names # Unknown /\ names # graph.names
  /\ Cardinality(names) <= MaxPlayers
  /\ Draw([graph EXCEPT !.names = names], chart)
  /\ UNCHANGED <<polled, clanVars>>

\* defaultSelection answers all calls that wait for it; those that are not
\* the newest stop here.
DefaultsArrive(names) ==
  LET waiting == {c \in charts : c.names = Unknown}
      now == IF graph.names = Unknown THEN names ELSE graph.names
      goOn == IF now = {} THEN {} ELSE {[c EXCEPT !.names = now, !.period = graph.period] :
                                          c \in {w \in waiting : w.gen = graph.gen}}
  IN /\ waiting # {} /\ Cardinality(names) <= MaxPlayers
     /\ graph' = [graph EXCEPT !.names = now]
     /\ charts' = (charts \ waiting) \cup goOn
     /\ overlay' = IF now = {} /\ overlay \in {Number(c) : c \in {w \in waiting : w.gen = graph.gen}}
                   THEN NoLoader ELSE overlay
     /\ chart' = IF now = {} /\ graph.open /\ (\E c \in waiting : c.gen = graph.gen) THEN [kind |-> "prompt"] ELSE chart
     /\ UNCHANGED <<polled, clanVars, choices>>

\* Mutant: an answer is drawn whatever was chosen since.
AnyCall(c) == TRUE

\* generation === this.chartGeneration
IsCurrent(c) == c.gen = graph.gen

\* The skill data arrives: for the newest call it replaces the chart.
DataArrives(c) ==
  /\ c.names # Unknown
  /\ charts' = charts \ {c}
  /\ IF IsCurrent(c)
     THEN /\ overlay' = IF overlay = Number(c) THEN NoLoader ELSE overlay
          /\ chart' = IF graph.open
                      THEN [kind |-> "graph", visit |-> c.visit, period |-> c.period, names |-> c.names]
                      ELSE chart
     ELSE UNCHANGED <<overlay, chart>>
  /\ UNCHANGED <<polled, graph, clanVars, choices>>

\* It fails, or the chart library does: said in any case.
DataFails(c) ==
  /\ c.names # Unknown
  /\ charts' = charts \ {c}
  /\ overlay' = IF overlay = Number(c) THEN NoLoader ELSE overlay
  /\ chart' = IF graph.open THEN [kind |-> "failed"] ELSE chart
  /\ UNCHANGED <<polled, graph, clanVars, choices>>

-----------------------------------------------------------------------------
(* The clan page's gains; its drops and its hiscores load the same way.    *)

\* What an answer brings: which skills have a board, and which of them entries.
NoBoards == [skills |-> {}, filled |-> {}]
Leaderboards == {b \in [skills : SUBSET Skills, filled : SUBSET Skills] : b.filled \subseteq b.skills}

\* renderGains, for the board chosen or else the first.
Rendered(c) ==
  LET shown == IF c.skill \in c.boards.skills THEN {c.skill} ELSE c.boards.skills
      list == \E s \in shown : s \in c.boards.filled
  IN [c EXCEPT !.list = list, !.status = IF ~list /\ @ = "" THEN "empty" ELSE @]

\* loadGains up to its request.
Asked(c) == [c EXCEPT !.status = IF c.boards.skills = {} THEN "loading" ELSE ""]

FreshClan(c) == [c EXCEPT !.open = TRUE, !.loaded = FALSE, !.period = "Day", !.skill = NoSkill,
                          !.boards = NoBoards, !.list = FALSE, !.status = ""]

\* connectedCallback, and the features it is handed; `history` is whether the
\* server has any.
VisitClan(history) ==
  /\ ~clan.open /\ Choose
  /\ IF history
     THEN /\ clan' = Asked([FreshClan(clan) EXCEPT !.loaded = TRUE])
          /\ asks' = asks \cup {"Day"}
     ELSE clan' = FreshClan(clan) /\ UNCHANGED asks
  /\ UNCHANGED graphVars

LeaveClan ==
  /\ clan.open /\ Choose /\ clan' = [clan EXCEPT !.open = FALSE]
  /\ UNCHANGED <<asks, graphVars>>

ChooseGains(period) ==
  /\ clan.open /\ clan.loaded /\ Choose
  /\ clan' = Asked([clan EXCEPT !.period = period]) /\ asks' = asks \cup {period}
  /\ UNCHANGED graphVars

\* every(REFRESH_MS)
RefreshGains ==
  /\ clan.open /\ clan.loaded /\ Choose
  /\ clan' = Asked(clan) /\ asks' = asks \cup {clan.period}
  /\ UNCHANGED graphVars

ChooseSkill(skill) ==
  /\ clan.open /\ skill \in clan.boards.skills /\ Choose
  /\ clan' = Rendered([clan EXCEPT !.skill = skill])
  /\ UNCHANGED <<asks, graphVars>>

\* An answer to an element off the page is dropped; to one on it, drawn,
\* whenever it was asked for. The board chosen stays, if there still is one.
GainsArrive(period, boards) ==
  /\ asks' = asks \ {period}
  /\ IF ~clan.open THEN UNCHANGED clan
     ELSE \E first \in IF boards.skills = {} THEN {NoSkill} ELSE boards.skills :
            LET skill == IF clan.skill \in boards.skills THEN clan.skill ELSE first IN
            clan' = Rendered([clan EXCEPT !.boards = boards, !.skill = skill, !.status = ""])
  /\ UNCHANGED <<graphVars, choices>>

GainsFail(period) ==
  /\ asks' = asks \ {period}
  /\ clan' = IF clan.open THEN [clan EXCEPT !.boards = NoBoards, !.list = FALSE, !.status = "error"] ELSE clan
  /\ UNCHANGED <<graphVars, choices>>

-----------------------------------------------------------------------------
Init ==
  /\ polled = FALSE
  /\ graph = [open |-> FALSE, visit |-> 0, period |-> "Day", names |-> Unknown, gen |-> 0, queued |-> FALSE]
  /\ charts = {} /\ chart = Blank /\ overlay = NoLoader
  /\ clan = [open |-> FALSE, loaded |-> FALSE, period |-> "Day", skill |-> NoSkill,
             boards |-> NoBoards, list |-> FALSE, status |-> ""]
  /\ asks = {} /\ choices = 0

Next ==
  \/ FirstPoll \/ Visit \/ Leave
  \/ \E period \in Periods : ChoosePeriod(period) \/ ChooseGains(period)
  \/ \E names \in SUBSET Names : SelectNames(names) \/ DefaultsArrive(names)
  \/ \E c \in charts : DataArrives(c) \/ DataFails(c)
  \/ LeaveClan \/ RefreshGains
  \/ \E history \in BOOLEAN : VisitClan(history)
  \/ \E skill \in Skills : ChooseSkill(skill)
  \/ \E period \in asks : GainsFail(period) \/ \E boards \in Leaderboards : GainsArrive(period, boards)

Spec == Init /\ [][Next]_vars

-----------------------------------------------------------------------------
TypeOK ==
  /\ graph \in [open : BOOLEAN, visit : Nat, period : Periods, names : (SUBSET Names) \cup {Unknown},
                gen : Nat, queued : BOOLEAN]
  /\ chart.kind \in {"blank", "prompt", "failed", "graph"}
  /\ asks \subseteq Periods

Calling == {c \in charts : c.visit = graph.visit /\ c.gen = graph.gen}

\* Once the newest call of a visit is answered, a chart that visit asked for
\* is of the players and the period chosen. (A call of an earlier visit that
\* had the same number passes for the newest: see the README.)
ChartIsTheChoice ==
  graph.open /\ ~graph.queued /\ Calling = {} /\ chart.kind = "graph" /\ chart.visit = graph.visit
    => chart.period = graph.period /\ chart.names = graph.names

\* The loader covers the page exactly while the newest call is under way.
LoaderWhileCalling ==
  graph.open => (overlay # NoLoader <=> Calling # {})

\* The gains are never blank without a word once all is answered, and the word
\* is never about a load or a failure that is over.
GainsSayWhy ==
  clan.open /\ clan.loaded =>
    /\ asks = {} => clan.list \/ clan.status \in {"empty", "error"}
    /\ clan.status = "loading" => asks # {}
    /\ clan.status = "error" => ~clan.list

BoardsHold == TypeOK /\ ChartIsTheChoice /\ LoaderWhileCalling /\ GainsSayWhy
=============================================================================
