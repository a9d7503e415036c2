---------------------------- MODULE EventToasts ----------------------------
(***************************************************************************)
(* The toasts in the corner of the map page (event-toasts.js): the newest  *)
(* few of what happened, each for its time, while none is pointed at.      *)
(***************************************************************************)
EXTENDS Naturals, Sequences, FiniteSets, SequencesExt

CONSTANTS Events, Notable,   \* the events, and the big drops among them
          ToastMs, NotableMs, LeaveMs, ToastMax,
          MaxTime            \* bound

None == 0

ToastConstants ==
  {ToastMs, NotableMs, LeaveMs, ToastMax} \subseteq Nat /\ ToastMs <= NotableMs /\ MaxTime \in Nat \ {0}

VARIABLES
  now,
  toasts,    \* oldest first; until: when the timer fires, or None
  held,
  fading,    \* what fades out: event -> when it is gone
  shown,     \* for the properties: how long each was shown with time running
  gone       \* for the properties: which went by itself

vars == <<now, toasts, held, fading, shown, gone>>

OnShow == {toasts[i].event : i \in DOMAIN toasts}
Lasts(e) == IF e \in Notable THEN NotableMs ELSE ToastMs

\* Mutant: a toast that goes on starts over.
RunsAnew(toast) == [toast EXCEPT !.since = now, !.until = now + Lasts(toast.event)]

\* run
Runs(toast) == [toast EXCEPT !.since = now, !.until = now + toast.remaining]

\* hold: the timer stops; what is left of it is kept, if any is.
Holds(toast) ==
  LET past == now - toast.since IN
  [toast EXCEPT !.until = None, !.remaining = IF past > @ THEN 0 ELSE @ - past]

-----------------------------------------------------------------------------
Init == now = 1 /\ toasts = <<>> /\ held = FALSE /\ fading = <<>> /\ shown = [e \in Events |-> 0] /\ gone = {}

\* show; the oldest makes room.
Show(e) ==
  /\ e \notin OnShow
  /\ LET toast == [event |-> e, remaining |-> Lasts(e), until |-> None, since |-> 0]
         more == Append(toasts, IF held THEN toast ELSE Runs(toast))
     IN toasts' = IF Len(more) > ToastMax THEN Tail(more) ELSE more
  /\ shown' = [shown EXCEPT ![e] = 0] /\ gone' = gone \ {e}
  /\ UNCHANGED <<now, held, fading>>

\* The pointer comes, or goes.
Hold(over) ==
  /\ over # held /\ held' = over
  /\ toasts' = [i \in DOMAIN toasts |-> IF over THEN Holds(toasts[i]) ELSE Runs(toasts[i])]
  /\ UNCHANGED <<now, fading, shown, gone>>

\* A toast's timer: it fades out.
Dismiss(e) ==
  /\ \E i \in DOMAIN toasts :
       toasts[i].event = e /\ toasts[i].until \in 1..now /\ toasts' = RemoveAt(toasts, i)
  /\ gone' = gone \cup {e}
  /\ fading' = [f \in DOMAIN fading \cup {e} |-> IF f = e THEN now + LeaveMs ELSE fading[f]]
  /\ UNCHANGED <<now, held, shown>>

FadedOut(e) ==
  /\ e \in DOMAIN fading /\ fading[e] <= now
  /\ fading' = [f \in DOMAIN fading \ {e} |-> fading[f]]
  /\ UNCHANGED <<now, toasts, held, shown, gone>>

\* handleClick, which needs the pointer: the toast goes at once.
Click(e) ==
  /\ held /\ \E i \in DOMAIN toasts : toasts[i].event = e /\ toasts' = RemoveAt(toasts, i)
  /\ UNCHANGED <<now, held, fading, shown, gone>>

\* disconnectedCallback, and the page again.
Leave ==
  /\ toasts' = <<>> /\ held' = FALSE /\ fading' = <<>>
  /\ UNCHANGED <<now, shown, gone>>

Tick ==
  /\ now < MaxTime /\ now' = now + 1
  /\ shown' = [e \in Events |-> shown[e] + (IF e \in OnShow /\ ~held THEN 1 ELSE 0)]
  /\ UNCHANGED <<toasts, held, fading, gone>>

Next ==
  \/ \E e \in Events : Show(e) \/ Dismiss(e) \/ FadedOut(e) \/ Click(e)
  \/ \E over \in BOOLEAN : Hold(over)
  \/ Leave \/ Tick

Spec == Init /\ [][Next]_vars

-----------------------------------------------------------------------------
TypeOK ==
  /\ now \in 1..MaxTime /\ held \in BOOLEAN
  /\ toasts \in Seq([event : Events, remaining : 0..NotableMs, until : Nat, since : 0..now])
  /\ DOMAIN fading \subseteq Events /\ gone \subseteq Events

\* A few toasts at most, of different events; none has a timer while they are
\* held, and all have one otherwise: what has been shown of each, and what is
\* left to its timer, make its time. None goes by itself before that.
ToastsStay ==
  /\ TypeOK
  /\ Len(toasts) <= ToastMax /\ Cardinality(OnShow) = Len(toasts)
  /\ \A e \in gone : shown[e] >= Lasts(e)
  /\ \A i \in DOMAIN toasts :
       LET toast == toasts[i] IN
       /\ held <=> toast.until = None
       /\ held => toast.remaining + shown[toast.event] = Lasts(toast.event) \/ toast.remaining = 0
       /\ ~held => toast.until + shown[toast.event] = now + Lasts(toast.event) \/ toast.until <= now
=============================================================================
