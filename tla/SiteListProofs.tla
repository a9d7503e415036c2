------------------------------ MODULE SiteListProofs ------------------------------
(* Theorems about what is kept in lists and tables that grow and shrink: the *)
(* toasts on a page, the trails a replay is of, the server's sessions and    *)
(* the samples a graph is made of, for any events, trails, times, users,     *)
(* connections and buckets.                                                  *)
EXTENDS MCSite, FiniteSetTheorems, SequenceTheorems, WellFoundedInduction, TLAPS

-----------------------------------------------------------------------------
(* Lists with an item removed.                                               *)

\* What is left of a sequence without one of its items, in two parts.
LEMMA PartsJoined ==
  ASSUME NEW S, NEW n \in Nat, NEW i \in 1..n, NEW s \in [1..n -> S],
         NEW t \in Seq(S), NEW u \in Seq(S), Len(t) = i - 1, Len(u) = n - i,
         \A k \in 1..i - 1 : t[k] = s[k], \A k \in 1..n - i : u[k] = s[i + k]
  PROVE  /\ t \o u \in Seq(S) /\ Len(t \o u) = n - 1
         /\ \A k \in 1..n - 1 : (t \o u)[k] = s[IF k < i THEN k ELSE k + 1]
<1>1. t \o u \in Seq(S) /\ Len(t \o u) = n - 1
      /\ \A k \in 1..n - 1 : (t \o u)[k] = IF k <= i - 1 THEN t[k] ELSE u[k - (i - 1)]
  <2>1. /\ t \o u \in Seq(S) /\ Len(t \o u) = Len(t) + Len(u)
        /\ \A k \in 1..Len(t) + Len(u) : (t \o u)[k] = IF k <= Len(t) THEN t[k] ELSE u[k - Len(t)]
    BY ConcatProperties
  <2>2. Len(t) + Len(u) = n - 1 /\ Len(t) = i - 1
    OBVIOUS
  <2> QED BY <2>1, <2>2
<1>2. ASSUME NEW k \in 1..n - 1, k < i PROVE (t \o u)[k] = s[k]
  BY <1>1, <1>2
<1>3. ASSUME NEW k \in 1..n - 1, k >= i PROVE (t \o u)[k] = s[k + 1]
  <2>1. k - (i - 1) \in 1..n - i /\ i + (k - (i - 1)) = k + 1
    BY <1>3
  <2>2. (t \o u)[k] = u[k - (i - 1)]
    BY <1>1, <1>3
  <2> QED BY <2>1, <2>2
<1>4. ASSUME NEW k \in 1..n - 1 PROVE (t \o u)[k] = s[IF k < i THEN k ELSE k + 1]
  <2>1. CASE k < i
    <3>1. (IF k < i THEN k ELSE k + 1) = k
      BY <2>1
    <3> QED BY <1>2, <2>1, <3>1
  <2>2. CASE k >= i
    <3>1. (IF k < i THEN k ELSE k + 1) = k + 1
      BY <2>2
    <3> QED BY <1>3, <2>2, <3>1
  <2>3. k < i \/ k >= i
    OBVIOUS
  <2> QED BY <2>1, <2>2, <2>3
<1> QED BY <1>1, <1>4

Without(s, i, n) == SubSeq(s, 1, i - 1) \o SubSeq(s, i + 1, n)

LEMMA Removed ==
  ASSUME NEW S, NEW n \in Nat, NEW i \in 1..n, NEW s \in [1..n -> S]
  PROVE  /\ Without(s, i, n) \in Seq(S) /\ Len(Without(s, i, n)) = n - 1
         /\ \A k \in 1..n - 1 : Without(s, i, n)[k] = s[IF k < i THEN k ELSE k + 1]
<1>1. /\ SubSeq(s, 1, i - 1) \in Seq(S) /\ Len(SubSeq(s, 1, i - 1)) = i - 1
      /\ \A k \in 1..i - 1 : SubSeq(s, 1, i - 1)[k] = s[k]
  <2>1. 1 \in Int /\ i - 1 \in Int /\ \A k \in 1..i - 1 : s[k] \in S
    OBVIOUS
  <2>2. /\ SubSeq(s, 1, i - 1) \in Seq(S)
        /\ Len(SubSeq(s, 1, i - 1)) = IF 1 <= i - 1 THEN i - 1 - 1 + 1 ELSE 0
        /\ \A k \in 1..i - 1 - 1 + 1 : SubSeq(s, 1, i - 1)[k] = s[1 + k - 1]
    BY <2>1, SubSeqProperties
  <2> QED BY <2>2
<1>2. /\ SubSeq(s, i + 1, n) \in Seq(S) /\ Len(SubSeq(s, i + 1, n)) = n - i
      /\ \A k \in 1..n - i : SubSeq(s, i + 1, n)[k] = s[i + k]
  <2>1. i + 1 \in Int /\ n \in Int /\ \A k \in i + 1..n : s[k] \in S
    OBVIOUS
  <2>2. /\ SubSeq(s, i + 1, n) \in Seq(S)
        /\ Len(SubSeq(s, i + 1, n)) = IF i + 1 <= n THEN n - (i + 1) + 1 ELSE 0
        /\ \A k \in 1..n - (i + 1) + 1 : SubSeq(s, i + 1, n)[k] = s[i + 1 + k - 1]
    BY <2>1, SubSeqProperties
  <2> QED BY <2>2
<1> QED BY <1>1, <1>2, PartsJoined DEF Without

\* t is s without its i-th item of n.
IsWithout(t, s, S, i, n) ==
  /\ t \in Seq(S) /\ Len(t) = n - 1
  /\ \A k \in 1..n - 1 : t[k] = s[IF k < i THEN k ELSE k + 1]

LEMMA RemovedIs ==
  ASSUME NEW S, NEW n \in Nat, NEW i \in 1..n, NEW s \in [1..n -> S]
  PROVE  IsWithout(Without(s, i, n), s, S, i, n)
BY Removed DEF IsWithout

LEMMA RemovedAt ==
  ASSUME NEW S, NEW s \in Seq(S), NEW n \in Nat, n = Len(s), NEW i \in 1..n
  PROVE  IsWithout(Replays!RemoveAt(s, i), s, S, i, n)
<1>1. s \in [1..n -> S]
  BY LenProperties
<1>2. Replays!RemoveAt(s, i) = Without(s, i, n)
  BY DEF Replays!RemoveAt, Without
<1> QED BY <1>1, <1>2, RemovedIs

-----------------------------------------------------------------------------
(* EventToasts: the toasts and their timers.                                *)

ToastRecords == [event : ToastEvents, remaining : Nat, until : Nat, since : Nat]

\* One toast, at a time: held or not, and shown for so long with time running.
Timed(toast, at, over, ran) ==
  LET lasts == Toasts!Lasts(toast.event) IN
  /\ toast.remaining <= lasts /\ toast.since <= at
  /\ over <=> toast.until = 0
  /\ over => /\ toast.remaining + ran >= lasts
             /\ toast.remaining + ran = lasts \/ toast.remaining = 0
  /\ ~over => /\ toast.until = toast.since + toast.remaining
              /\ toast.until + ran >= at + lasts
              /\ toast.until + ran = at + lasts \/ toast.until <= at

AllApart(list) == \A i, j \in DOMAIN list : list[i].event = list[j].event => i = j

AllTimed(list, at, over, ran) ==
  \A i \in DOMAIN list : Timed(list[i], at, over, ran[list[i].event])

ToastsInv ==
  /\ toastsNow \in 1..MaxToastTime /\ held \in BOOLEAN
  /\ DOMAIN fading \subseteq ToastEvents /\ gone \subseteq ToastEvents
  /\ shown \in [ToastEvents -> Nat]
  /\ toasts \in Seq(ToastRecords) /\ Len(toasts) <= ToastMax
  /\ AllApart(toasts) /\ AllTimed(toasts, toastsNow, held, shown)
  /\ \A e \in gone : shown[e] >= Toasts!Lasts(e)

LEMMA ToastTimes ==
  /\ MaxToastTime \in Nat \ {0} /\ ToastMax \in Nat
  /\ \A e : Toasts!Lasts(e) \in Nat /\ Toasts!Lasts(e) <= NotableMs
BY ToastsHaveTime DEF Toasts!ToastConstants, Toasts!Lasts

LEMMA ToastFields ==
  ASSUME NEW t \in ToastRecords
  PROVE  t.event \in ToastEvents /\ t.remaining \in Nat /\ t.until \in Nat /\ t.since \in Nat
BY DEF ToastRecords

LEMMA SomeRemoved ==
  ASSUME ToastsInv, NEW i \in DOMAIN toasts
  PROVE  LET left == Toasts!RemoveAt(toasts, i) IN
         /\ left \in Seq(ToastRecords) /\ Len(left) <= ToastMax /\ AllApart(left)
         /\ AllTimed(left, toastsNow, held, shown)
<1> DEFINE left == Toasts!RemoveAt(toasts, i)
<1>1. /\ left \in Seq(ToastRecords) /\ Len(left) = Len(toasts) - 1
      /\ \A k \in 1..Len(toasts) - 1 : left[k] = toasts[IF k < i THEN k ELSE k + 1]
  <2>1. PICK n \in Nat : n = Len(toasts) /\ DOMAIN toasts = 1..n
    BY LenProperties DEF ToastsInv
  <2>2. i \in 1..n /\ toasts \in Seq(ToastRecords)
    BY <2>1 DEF ToastsInv
  <2>3. IsWithout(left, toasts, ToastRecords, i, n)
    <3>1. Replays!RemoveAt(toasts, i) = left
      BY DEF Toasts!RemoveAt, Replays!RemoveAt
    <3> HIDE DEF left
    <3> QED BY <2>1, <2>2, <3>1, RemovedAt
  <2> QED BY <2>1, <2>3 DEF IsWithout
<1>2. Len(toasts) \in Nat /\ DOMAIN toasts = 1..Len(toasts) /\ i \in 1..Len(toasts)
  BY LenProperties DEF ToastsInv
<1>3. DOMAIN left = 1..Len(toasts) - 1
  BY <1>1, LenProperties
<1> HIDE DEF left
<1>4. \A k \in DOMAIN left : (IF k < i THEN k ELSE k + 1) \in DOMAIN toasts
  BY <1>2, <1>3
<1>5. AllTimed(left, toastsNow, held, shown)
  BY <1>1, <1>3, <1>4 DEF AllTimed, ToastsInv
<1>6. AllApart(left)
  <2> SUFFICES ASSUME NEW k \in DOMAIN left, NEW l \in DOMAIN left, left[k].event = left[l].event PROVE k = l
    BY DEF AllApart
  <2>1. (IF k < i THEN k ELSE k + 1) = (IF l < i THEN l ELSE l + 1)
    BY <1>1, <1>3, <1>4 DEF AllApart, ToastsInv
  <2> QED BY <1>2, <1>3, <2>1
<1>7. Len(left) <= ToastMax
  BY <1>1, <1>2, ToastTimes DEF ToastsInv
<1> QED BY <1>1, <1>5, <1>6, <1>7 DEF left

Started(toast, at, end) == [toast EXCEPT !.since = at, !.until = end]
Stopped(toast, left) == [toast EXCEPT !.until = 0, !.remaining = left]

LEMMA ToastChanges ==
  ASSUME NEW t \in ToastRecords, NEW a \in Nat, NEW b \in Nat
  PROVE  /\ Started(t, a, b) \in ToastRecords
         /\ Started(t, a, b).event = t.event /\ Started(t, a, b).remaining = t.remaining
         /\ Started(t, a, b).since = a /\ Started(t, a, b).until = b
         /\ Stopped(t, b) \in ToastRecords
         /\ Stopped(t, b).event = t.event /\ Stopped(t, b).since = t.since
         /\ Stopped(t, b).until = 0 /\ Stopped(t, b).remaining = b
BY DEF ToastRecords, Started, Stopped

\* Letting a toast go on, and holding it.
LEMMA RunsOn ==
  ASSUME NEW t \in ToastRecords, toastsNow \in Nat, toastsNow > 0, NEW ran \in Nat, Timed(t, toastsNow, TRUE, ran)
  PROVE  /\ Toasts!Runs(t) \in ToastRecords /\ Toasts!Runs(t).event = t.event
         /\ Timed(Toasts!Runs(t), toastsNow, FALSE, ran)
<1>1. /\ Toasts!Runs(t) \in ToastRecords
      /\ Toasts!Runs(t).event = t.event /\ Toasts!Runs(t).remaining = t.remaining
      /\ Toasts!Runs(t).since = toastsNow /\ Toasts!Runs(t).until = toastsNow + t.remaining
  <2>1. PICK b \in Nat : b = toastsNow + t.remaining
    BY ToastFields
  <2>2. Toasts!Runs(t) = Started(t, toastsNow, b)
    BY <2>1 DEF Toasts!Runs, Started
  <2>3. /\ Started(t, toastsNow, b) \in ToastRecords
        /\ Started(t, toastsNow, b).event = t.event /\ Started(t, toastsNow, b).remaining = t.remaining
        /\ Started(t, toastsNow, b).since = toastsNow /\ Started(t, toastsNow, b).until = b
    BY ToastChanges
  <2> QED BY <2>1, <2>2, <2>3
<1> QED BY <1>1, ToastFields, ToastTimes DEF Timed

LEMMA HoldsStill ==
  ASSUME NEW t \in ToastRecords, toastsNow \in Nat, toastsNow > 0, NEW ran \in Nat, Timed(t, toastsNow, FALSE, ran)
  PROVE  /\ Toasts!Holds(t) \in ToastRecords /\ Toasts!Holds(t).event = t.event
         /\ Timed(Toasts!Holds(t), toastsNow, TRUE, ran)
<1>1. t.since <= toastsNow
  BY DEF Timed
<1>2. /\ Toasts!Holds(t) \in ToastRecords
      /\ Toasts!Holds(t).event = t.event /\ Toasts!Holds(t).until = 0 /\ Toasts!Holds(t).since = t.since
      /\ Toasts!Holds(t).remaining = IF toastsNow - t.since > t.remaining THEN 0 ELSE t.remaining - (toastsNow - t.since)
  <2>1. PICK b \in Nat : b = IF toastsNow - t.since > t.remaining THEN 0 ELSE t.remaining - (toastsNow - t.since)
    BY <1>1, ToastFields
  <2>2. Toasts!Holds(t) = Stopped(t, b)
    BY <2>1 DEF Toasts!Holds, Toasts!None, Stopped
  <2>3. /\ Stopped(t, b) \in ToastRecords
        /\ Stopped(t, b).event = t.event /\ Stopped(t, b).since = t.since
        /\ Stopped(t, b).until = 0 /\ Stopped(t, b).remaining = b
    BY ToastChanges
  <2> QED BY <2>1, <2>2, <2>3
<1> QED BY <1>2, ToastFields, ToastTimes DEF Timed

LEMMA ShowKeeps == ASSUME ToastsInv, NEW e \in ToastEvents, Toasts!Show(e) PROVE ToastsInv'
<1> DEFINE new == [event |-> e, remaining |-> Toasts!Lasts(e), until |-> Toasts!None, since |-> 0]
           toast == IF held THEN new ELSE Toasts!Runs(new)
           more == Append(toasts, toast)
           left == IF Len(more) > ToastMax THEN Tail(more) ELSE more
<1>1. /\ \A i \in DOMAIN toasts : toasts[i].event # e
      /\ toasts' = left /\ shown' = [shown EXCEPT ![e] = 0] /\ gone' = gone \ {e}
      /\ UNCHANGED <<toastsNow, held, fading>>
  BY DEF Toasts!Show, Toasts!OnShow
<1>2. toastsNow \in Nat \ {0} /\ shown' \in [ToastEvents -> Nat] /\ shown'[e] = 0
      /\ \A f \in ToastEvents \ {e} : shown'[f] = shown[f]
  BY <1>1, ToastTimes DEF ToastsInv
<1>3. /\ new \in ToastRecords /\ new.event = e /\ Timed(new, toastsNow, TRUE, 0)
  BY ToastTimes, <1>2 DEF ToastRecords, Timed, Toasts!None
<1>4. toast \in ToastRecords /\ toast.event = e /\ Timed(toast, toastsNow, held, 0)
  <2>1. CASE held
    <3>1. held = TRUE /\ toast = new
      BY <2>1 DEF ToastsInv
    <3> QED BY <1>3, <3>1
  <2>2. CASE ~held
    <3>1. held = FALSE /\ toast = Toasts!Runs(new)
      BY <2>2 DEF ToastsInv
    <3>2. toastsNow \in Nat /\ toastsNow > 0 /\ 0 \in Nat
      BY <1>2
    <3> HIDE DEF new, toast
    <3> QED BY <1>3, <3>1, <3>2, RunsOn
  <2> QED BY <2>1, <2>2
<1> HIDE DEF new, toast
<1>5. Len(toasts) \in Nat /\ DOMAIN toasts = 1..Len(toasts) /\ toasts \in Seq(ToastRecords)
  BY LenProperties DEF ToastsInv
<1>6. /\ more \in Seq(ToastRecords) /\ more # <<>> /\ Len(more) = Len(toasts) + 1
      /\ \A i \in 1..Len(toasts) : more[i] = toasts[i]
      /\ more[Len(toasts) + 1] = toast
  BY <1>4, <1>5, AppendProperties
<1> HIDE DEF more
<1>7. \A i \in 1..Len(toasts) + 1 : Timed(more[i], toastsNow, held, shown'[more[i].event])
  <2>1. ASSUME NEW i \in 1..Len(toasts) PROVE Timed(more[i], toastsNow, held, shown'[more[i].event])
    <3>1. toasts[i] \in ToastRecords /\ toasts[i].event \in ToastEvents \ {e}
      BY <1>1, <1>5, <2>1, ToastFields
    <3>2. Timed(toasts[i], toastsNow, held, shown[toasts[i].event])
      BY <1>5, <2>1 DEF ToastsInv, AllTimed
    <3> QED BY <1>2, <1>6, <2>1, <3>1, <3>2
  <2>2. Timed(more[Len(toasts) + 1], toastsNow, held, shown'[more[Len(toasts) + 1].event])
    BY <1>2, <1>4, <1>6
  <2> QED BY <1>5, <2>1, <2>2
<1>8. \A i, j \in 1..Len(toasts) + 1 : more[i].event = more[j].event => i = j
  <2>1. \A i, j \in 1..Len(toasts) : toasts[i].event = toasts[j].event => i = j
    BY <1>5 DEF ToastsInv, AllApart
  <2> QED BY <1>1, <1>4, <1>5, <1>6, <2>1
<1>9. /\ left \in Seq(ToastRecords) /\ Len(left) <= ToastMax /\ AllApart(left)
      /\ AllTimed(left, toastsNow, held, shown')
  <2>1. CASE Len(more) > ToastMax
    <3>1. /\ left = Tail(more) /\ Tail(more) \in Seq(ToastRecords) /\ Len(Tail(more)) = Len(toasts)
          /\ \A i \in 1..Len(toasts) : Tail(more)[i] = more[i + 1]
      BY <1>5, <1>6, <2>1, HeadTailProperties
    <3>2. DOMAIN left = 1..Len(toasts)
      BY <3>1, LenProperties
    <3>3. AllApart(left)
      <4> SUFFICES ASSUME NEW i \in 1..Len(toasts), NEW j \in 1..Len(toasts), left[i].event = left[j].event
                   PROVE  i = j
        BY <3>2 DEF AllApart
      <4>1. i + 1 \in 1..Len(toasts) + 1 /\ j + 1 \in 1..Len(toasts) + 1
        BY <1>5
      <4>2. i + 1 = j + 1
        BY <1>8, <3>1, <4>1
      <4> QED BY <1>5, <4>2
    <3>4. AllTimed(left, toastsNow, held, shown')
      <4> SUFFICES ASSUME NEW i \in 1..Len(toasts) PROVE Timed(left[i], toastsNow, held, shown'[left[i].event])
        BY <3>2 DEF AllTimed
      <4>1. i + 1 \in 1..Len(toasts) + 1
        BY <1>5
      <4> QED BY <1>7, <3>1, <4>1
    <3>5. Len(left) <= ToastMax
      BY <3>1 DEF ToastsInv
    <3> QED BY <3>1, <3>3, <3>4, <3>5
  <2>2. CASE ~(Len(more) > ToastMax)
    <3>1. left = more /\ DOMAIN more = 1..Len(toasts) + 1
      BY <1>6, <2>2, LenProperties
    <3>2. AllApart(more) /\ AllTimed(more, toastsNow, held, shown')
      BY <1>7, <1>8, <3>1 DEF AllApart, AllTimed
    <3>3. Len(more) <= ToastMax
      BY <1>5, <1>6, <2>2, ToastTimes
    <3> QED BY <1>6, <3>1, <3>2, <3>3
  <2> QED BY <2>1, <2>2
<1> HIDE DEF left
<1>10. \A f \in gone' : shown'[f] >= Toasts!Lasts(f)
  BY <1>1, <1>2 DEF ToastsInv
<1> QED BY <1>1, <1>2, <1>9, <1>10 DEF ToastsInv

LEMMA HoldKeeps == ASSUME ToastsInv, NEW over \in BOOLEAN, Toasts!Hold(over) PROVE ToastsInv'
<1>1. /\ over # held /\ held' = over /\ UNCHANGED <<toastsNow, fading, shown, gone>>
      /\ toasts' = [i \in DOMAIN toasts |-> IF over THEN Toasts!Holds(toasts[i]) ELSE Toasts!Runs(toasts[i])]
  BY DEF Toasts!Hold
<1>2. Len(toasts) \in Nat /\ DOMAIN toasts = 1..Len(toasts) /\ \A i \in DOMAIN toasts : toasts[i] \in ToastRecords
  BY LenProperties DEF ToastsInv
<1>3. \A i \in DOMAIN toasts :
        /\ toasts'[i] \in ToastRecords /\ toasts'[i].event = toasts[i].event
        /\ Timed(toasts'[i], toastsNow, over, shown[toasts[i].event])
  <2> SUFFICES ASSUME NEW i \in DOMAIN toasts
               PROVE  /\ toasts'[i] \in ToastRecords /\ toasts'[i].event = toasts[i].event
                      /\ Timed(toasts'[i], toastsNow, over, shown[toasts[i].event])
    OBVIOUS
  <2>1. /\ toasts[i] \in ToastRecords /\ toastsNow \in Nat /\ toastsNow > 0 /\ shown[toasts[i].event] \in Nat
        /\ Timed(toasts[i], toastsNow, held, shown[toasts[i].event])
    BY <1>2, ToastFields, ToastTimes DEF ToastsInv, AllTimed
  <2>2. CASE over
    <3>1. over = TRUE /\ held = FALSE /\ toasts'[i] = Toasts!Holds(toasts[i])
      BY <1>1, <2>2 DEF ToastsInv
    <3> QED BY <2>1, <3>1, HoldsStill
  <2>3. CASE ~over
    <3>1. over = FALSE /\ held = TRUE /\ toasts'[i] = Toasts!Runs(toasts[i])
      BY <1>1, <2>3 DEF ToastsInv
    <3> QED BY <2>1, <3>1, RunsOn
  <2> QED BY <2>2, <2>3
<1>4. /\ toasts' \in Seq(ToastRecords) /\ Len(toasts') = Len(toasts) /\ DOMAIN toasts' = DOMAIN toasts
  BY <1>1, <1>2, <1>3
<1>5. AllApart(toasts')
  BY <1>3, <1>4 DEF ToastsInv, AllApart
<1>6. AllTimed(toasts', toastsNow', held', shown')
  BY <1>1, <1>3, <1>4 DEF AllTimed
<1> QED BY <1>1, <1>4, <1>5, <1>6 DEF ToastsInv

LEMMA GoingKeeps ==
  ASSUME ToastsInv, NEW e \in ToastEvents, Toasts!Dismiss(e) \/ Toasts!Click(e) PROVE ToastsInv'
<1>1. PICK i \in DOMAIN toasts : toasts[i].event = e /\ toasts' = Toasts!RemoveAt(toasts, i)
                                /\ (toasts[i].until \in 1..toastsNow \/ gone' = gone)
  BY DEF Toasts!Dismiss, Toasts!Click
<1>2. UNCHANGED <<toastsNow, held, shown>> /\ gone' \in {gone, gone \cup {e}}
      /\ DOMAIN fading' \subseteq DOMAIN fading \cup {e}
  BY DEF Toasts!Dismiss, Toasts!Click
<1>3. /\ toasts' \in Seq(ToastRecords) /\ Len(toasts') <= ToastMax /\ AllApart(toasts')
      /\ AllTimed(toasts', toastsNow, held, shown)
  BY <1>1, SomeRemoved
<1>4. toasts[i].until \in 1..toastsNow => shown[e] >= Toasts!Lasts(e)
  <2>1. Timed(toasts[i], toastsNow, held, shown[e]) /\ toasts[i] \in ToastRecords /\ shown[e] \in Nat
    BY <1>1 DEF ToastsInv, AllTimed
  <2> QED BY <1>1, <2>1, ToastFields, ToastTimes DEF Timed, ToastsInv
<1>5. \A f \in gone' : shown'[f] >= Toasts!Lasts(f)
  BY <1>1, <1>2, <1>4 DEF ToastsInv
<1> QED BY <1>2, <1>3, <1>5 DEF ToastsInv

LEMMA ToastTickKeeps == ASSUME ToastsInv, Toasts!Tick PROVE ToastsInv'
<1>1. /\ toastsNow < MaxToastTime /\ toastsNow' = toastsNow + 1 /\ UNCHANGED <<toasts, held, fading, gone>>
      /\ shown' = [e \in ToastEvents |-> shown[e] + (IF e \in Toasts!OnShow /\ ~held THEN 1 ELSE 0)]
  BY DEF Toasts!Tick
<1>2. toastsNow \in Nat \ {0} /\ toastsNow' \in 1..MaxToastTime
  BY <1>1, ToastTimes DEF ToastsInv
<1>3. /\ shown' \in [ToastEvents -> Nat]
      /\ \A e \in ToastEvents : shown'[e] >= shown[e] /\ (e \in Toasts!OnShow => shown'[e] = shown[e] + (IF held THEN 0 ELSE 1))
  BY <1>1 DEF ToastsInv
<1>4. AllTimed(toasts', toastsNow', held', shown')
  <2> SUFFICES ASSUME NEW i \in DOMAIN toasts PROVE Timed(toasts[i], toastsNow', held, shown'[toasts[i].event])
    BY <1>1 DEF AllTimed
  <2>1. /\ toasts[i] \in ToastRecords /\ toasts[i].event \in Toasts!OnShow /\ held \in BOOLEAN
        /\ Timed(toasts[i], toastsNow, held, shown[toasts[i].event])
    BY DEF ToastsInv, AllTimed, Toasts!OnShow
  <2>2. /\ shown[toasts[i].event] \in Nat
        /\ shown'[toasts[i].event] = shown[toasts[i].event] + (IF held THEN 0 ELSE 1)
    BY <1>3, <2>1, ToastFields DEF ToastsInv
  <2> QED BY <1>1, <1>2, <2>1, <2>2, ToastFields, ToastTimes DEF Timed
<1>5. \A f \in gone' : shown'[f] >= Toasts!Lasts(f)
  BY <1>1, <1>3, ToastTimes DEF ToastsInv
<1> QED BY <1>1, <1>2, <1>3, <1>4, <1>5 DEF ToastsInv

LEMMA ToastsBegin == Toasts!Init => ToastsInv
<1> SUFFICES ASSUME Toasts!Init PROVE ToastsInv
  OBVIOUS
<1>1. toasts = <<>> /\ toasts \in Seq(ToastRecords) /\ Len(toasts) = 0 /\ DOMAIN toasts = {}
  BY EmptySeq, LenProperties DEF Toasts!Init
<1>2. fading = <<>> /\ toastsNow = 1 /\ held = FALSE /\ gone = {} /\ shown \in [ToastEvents -> Nat]
  BY DEF Toasts!Init
<1>3. toastsNow \in 1..MaxToastTime /\ Len(toasts) <= ToastMax
  BY <1>1, <1>2, ToastTimes
<1>4. DOMAIN fading \subseteq ToastEvents
  BY <1>2
<1>5. AllApart(toasts) /\ AllTimed(toasts, toastsNow, held, shown)
  BY <1>1 DEF AllApart, AllTimed
<1> QED BY <1>1, <1>2, <1>3, <1>4, <1>5 DEF ToastsInv

LEMMA ToastsStep == ToastsInv /\ Toasts!Next => ToastsInv'
<1> SUFFICES ASSUME ToastsInv, Toasts!Next PROVE ToastsInv'
  OBVIOUS
<1>1. CASE \E e \in ToastEvents : Toasts!Show(e)
  BY <1>1, ShowKeeps
<1>2. CASE \E e \in ToastEvents : Toasts!Dismiss(e) \/ Toasts!Click(e)
  BY <1>2, GoingKeeps
<1>3. CASE \E e \in ToastEvents : Toasts!FadedOut(e)
  BY <1>3 DEF Toasts!FadedOut, ToastsInv
<1>4. CASE \E over \in BOOLEAN : Toasts!Hold(over)
  BY <1>4, HoldKeeps
<1>5. CASE Toasts!Leave
  <2>1. toasts' = <<>> /\ held' = FALSE /\ fading' = <<>> /\ UNCHANGED <<toastsNow, shown, gone>>
    BY <1>5 DEF Toasts!Leave
  <2>2. toasts' \in Seq(ToastRecords) /\ Len(toasts') = 0 /\ DOMAIN toasts' = {} /\ DOMAIN fading' = {}
    BY <2>1, EmptySeq, LenProperties
  <2>3. AllApart(toasts') /\ AllTimed(toasts', toastsNow', held', shown')
    BY <2>2 DEF AllApart, AllTimed
  <2>4. Len(toasts') <= ToastMax
    BY <2>2, ToastTimes
  <2> QED BY <2>1, <2>2, <2>3, <2>4 DEF ToastsInv
<1>6. CASE Toasts!Tick
  BY <1>6, ToastTickKeeps
<1> QED BY <1>1, <1>2, <1>3, <1>4, <1>5, <1>6 DEF Toasts!Next

\* What is inductive says what the run checks.
LEMMA AsManyAsShown == ASSUME ToastsInv PROVE Toasts!Cardinality(Toasts!OnShow) = Len(toasts)
<1>1. Len(toasts) \in Nat /\ DOMAIN toasts = 1..Len(toasts)
  BY LenProperties DEF ToastsInv
<1> DEFINE f == [i \in 1..Len(toasts) |-> toasts[i].event]
<1>2. f \in Bijection(1..Len(toasts), Toasts!OnShow)
  BY <1>1 DEF Bijection, Injection, Surjection, IsInjective, Toasts!OnShow, ToastsInv, AllApart
<1>3. IsFiniteSet(1..Len(toasts)) /\ Cardinality(1..Len(toasts)) = Len(toasts)
  <2>1. PICK n \in Nat : n = Len(toasts)
    BY <1>1
  <2>2. IsFiniteSet(1..n) /\ Cardinality(1..n) = IF 1 > n THEN 0 ELSE n - 1 + 1
    BY FS_Interval
  <2> QED BY <2>1, <2>2
<1>4. ExistsBijection(1..Len(toasts), Toasts!OnShow)
  BY <1>2 DEF ExistsBijection
<1>5. Cardinality(Toasts!OnShow) = Len(toasts)
  BY <1>3, <1>4, FS_Bijection
<1>6. \A S : Toasts!Cardinality(S) = Cardinality(S)
  BY Zenon DEF Toasts!Cardinality, Cardinality
<1> QED BY <1>5, <1>6

LEMMA ToastsAreTyped == ASSUME ToastsInv PROVE Toasts!TypeOK
<1> DEFINE Remaining == 0..NotableMs  Since == 0..toastsNow
           Typed == [event : ToastEvents, remaining : Remaining, until : Nat, since : Since]
<1>1. \A n : (n \in Nat /\ n <= NotableMs => n \in Remaining) /\ (n \in Nat /\ n <= toastsNow => n \in Since)
  BY ToastTimes DEF ToastsInv, Toasts!ToastConstants, ToastsHaveTime
<1> HIDE DEF Remaining, Since
<1>2. \A i \in DOMAIN toasts : toasts[i] \in Typed
  <2> SUFFICES ASSUME NEW i \in DOMAIN toasts PROVE toasts[i] \in Typed
    OBVIOUS
  <2>1. toasts[i] \in ToastRecords /\ Timed(toasts[i], toastsNow, held, shown[toasts[i].event])
    BY DEF ToastsInv, AllTimed
  <2>2. toasts[i].remaining \in Remaining /\ toasts[i].since \in Since
    <3>1. toasts[i].remaining \in Nat /\ toasts[i].since \in Nat /\ Toasts!Lasts(toasts[i].event) \in Nat
          /\ NotableMs \in Nat
      BY <2>1, ToastFields, ToastTimes, ToastsHaveTime DEF Toasts!ToastConstants
    <3>2. toasts[i].remaining <= Toasts!Lasts(toasts[i].event) /\ toasts[i].since <= toastsNow
      BY <2>1 DEF Timed
    <3>3. toasts[i].remaining <= NotableMs
      BY <3>1, <3>2, ToastTimes
    <3> QED BY <1>1, <3>1, <3>2, <3>3
  <2> QED BY <2>1, <2>2 DEF ToastRecords
<1> HIDE DEF Typed
<1>3. toasts \in Seq(Typed)
  <2>1. Len(toasts) \in Nat /\ toasts \in [1..Len(toasts) -> ToastRecords]
    BY LenProperties DEF ToastsInv
  <2>2. toasts \in [1..Len(toasts) -> Typed]
    BY <1>2, <2>1
  <2> QED BY <2>1, <2>2
<1> QED BY <1>3 DEF ToastsInv, Toasts!TypeOK, Typed, Remaining, Since

LEMMA ToastsInvHolds == ToastsInv => Toasts!ToastsStay
<1> SUFFICES ASSUME ToastsInv PROVE Toasts!ToastsStay
  OBVIOUS
<1>1. \A i \in DOMAIN toasts : Timed(toasts[i], toastsNow, held, shown[toasts[i].event])
  BY DEF ToastsInv, AllTimed
<1> QED BY <1>1, AsManyAsShown, ToastsAreTyped DEF Toasts!ToastsStay, ToastsInv, Timed, Toasts!None

\* However toasts come, are held, let go, pushed out, clicked and left: few are on show, of different
\* events; one has a timer exactly while it is not held, which with the time it was shown makes
\* its time; and none goes by itself before (event-toasts.js show, hold, dismiss).
THEOREM NoneGoesEarly == MCSpec => []ToastsStay
<1> DEFINE IInv == part = "toasts" => ToastsInv
<1>1. MCInit => IInv
  BY ToastsBegin DEF MCInit
<1>2. IInv /\ [MCNext]_allVars => IInv'
  <2> SUFFICES ASSUME IInv, [MCNext]_allVars, part' = "toasts" PROVE ToastsInv'
    OBVIOUS
  <2>1. CASE OfToasts
    BY <2>1, ToastsStep DEF OfToasts
  <2>2. CASE UNCHANGED toastsVars /\ part' = part
    BY <2>2 DEF toastsVars, ToastsInv
  <2> QED BY <2>1, <2>2 DEF MCNext, OfView, OfMarkers, OfReplay, OfTrails, OfPlayers, OfBoards, OfLife, OfHistory, OfGear,
          OfSessions, allVars
<1>3. IInv => ToastsStay
  BY ToastsInvHolds DEF ToastsStay
<1> QED BY <1>1, <1>2, <1>3, PTL DEF MCSpec

-----------------------------------------------------------------------------
(* Replay: the clock, and what the trails tell it.                          *)

HoldTimes == 0..HoldFrames
HopTimes == 0..(HopFrames - 1)
HopRecords == [leave : Nat, land : Nat, animated : BOOLEAN]
Clocks ==
  [tMin : Nat, tMax : Nat, time : Nat, playing : BOOLEAN, skipIdle : BOOLEAN, hold : HoldTimes,
   hopping : BOOLEAN, hop : HopRecords, hopAt : HopTimes]
TrailsOrNone == ReplayTrails \cup {Replays!NoTrail}

LEMMA ReplayTimes ==
  /\ IdleLead \in Nat /\ IdleSkip \in Nat /\ IdleLead < IdleSkip
  /\ ReplaySteps \subseteq Nat /\ \A d \in ReplaySteps : d > 0
  /\ NoOne \notin Names
BY TrailsCanBeReplayed DEF Replays!ReplayConstants

LEMMA HoldsAre == 0 \in HoldTimes /\ HoldFrames \in HoldTimes /\ \A h \in HoldTimes : h \in Nat /\ (h > 0 => h - 1 \in HoldTimes)
BY TrailsCanBeReplayed DEF Replays!ReplayConstants, HoldTimes

LEMMA HopsAre == 0 \in HopTimes /\ \A h \in HopTimes : h \in Nat /\ (h + 1 < HopFrames => h + 1 \in HopTimes)
BY TrailsCanBeReplayed DEF Replays!ReplayConstants, HopTimes

LEMMA FinitelyMany == IsFiniteSet(Names) /\ IsFiniteSet(ReplaySteps)
<1>1. \A S : Replays!IsFiniteSet(S) = IsFiniteSet(S)
  BY Zenon DEF Replays!IsFiniteSet, IsFiniteSet
<1> QED BY <1>1, TrailsCanBeReplayed DEF Replays!ReplayConstants

\* A set of numbers has a least; if it has a bound, a greatest.
LEMMA LeastNatural ==
  ASSUME NEW S \in SUBSET Nat, S # {}
  PROVE  \E m \in S : \A n \in S : m <= n
<1>1. PICK m \in S : \A n \in S : ~ (<<n, m>> \in OpToRel(<, Nat))
  BY NatLessThanWellFounded, WFMin
<1>2. \A n \in S : ~ (n < m)
  BY <1>1 DEF OpToRel
<1> QED BY <1>2

LEMMA GreatestNatural ==
  ASSUME NEW S \in SUBSET Nat, S # {}, NEW b \in Nat, \A x \in S : x <= b
  PROVE  \E m \in S : \A n \in S : m >= n
<1> DEFINE over == {k \in Nat : \A x \in S : x <= k}
<1>1. PICK m \in over : \A k \in over : m <= k
  <2>1. over \in SUBSET Nat /\ over # {}
    OBVIOUS
  <2> HIDE DEF over
  <2> QED BY <2>1, LeastNatural
<1>2. m \in S
  <2> SUFFICES ASSUME m \notin S PROVE FALSE
    OBVIOUS
  <2>1. \A x \in S : x < m
    BY <1>1
  <2>2. PICK x \in S : TRUE
    OBVIOUS
  <2>3. m \in Nat /\ x \in Nat /\ x < m
    BY <1>1, <2>1
  <2>4. m - 1 \in Nat /\ \A y \in S : y <= m - 1
    BY <2>1, <2>3
  <2>5. m <= m - 1
    BY <1>1, <2>4
  <2> QED BY <2>3, <2>5
<1> QED BY <1>1, <1>2

\* Induction, over a set of positions instead of a predicate.
LEMMA UpTo ==
  ASSUME NEW n \in Nat, NEW P, 0 \in P, \A i \in 1..n : i - 1 \in P => i \in P
  PROVE  n \in P
<1> SUFFICES ASSUME n \notin P PROVE FALSE
  OBVIOUS
<1> DEFINE bad == {i \in 0..n : i \notin P}
<1>1. PICK m \in bad : \A i \in bad : m <= i
  <2>1. bad \in SUBSET Nat /\ bad # {}
    OBVIOUS
  <2> HIDE DEF bad
  <2> QED BY <2>1, LeastNatural
<1>2. m \in 1..n /\ m - 1 \in 0..n /\ m - 1 \notin bad
  BY <1>1
<1> QED BY <1>1, <1>2

LEMMA FiniteHasBound ==
  ASSUME NEW S \in SUBSET Nat, IsFiniteSet(S)
  PROVE  \E b \in Nat : \A x \in S : x <= b
<1>1. PICK n \in Nat : ExistsBijection(1..n, S)
  BY FS_NatBijection
<1>2. PICK f \in [1..n -> S] : \A x \in S : \E i \in 1..n : f[i] = x
  BY <1>1 DEF ExistsBijection, Bijection, Surjection
<1> DEFINE P == {k \in 0..n : \E b \in Nat : \A i \in 1..k : f[i] <= b}
<1>3. 0 \in P
  <2>1. 0 \in Nat /\ \A i \in 1..0 : f[i] <= 0
    OBVIOUS
  <2> QED BY <2>1
<1>4. ASSUME NEW k \in 1..n, k - 1 \in P PROVE k \in P
  <2>1. PICK b \in Nat : \A i \in 1..k - 1 : f[i] <= b
    BY <1>4
  <2>2. f[k] \in Nat
    OBVIOUS
  <2>3. PICK c \in Nat : b <= c /\ f[k] <= c
    <3>1. CASE b <= f[k]
      BY <2>2, <3>1
    <3>2. CASE f[k] <= b
      BY <2>1, <2>2, <3>2
    <3> QED BY <2>1, <2>2, <3>1, <3>2
  <2>4. \A i \in 1..k : f[i] <= c
    <3> SUFFICES ASSUME NEW i \in 1..k PROVE f[i] <= c
      OBVIOUS
    <3>1. f[i] \in Nat
      <4>1. i \in 1..n
        OBVIOUS
      <4> QED BY <4>1
    <3>2. i = k \/ i \in 1..k - 1
      OBVIOUS
    <3> QED BY <2>1, <2>3, <3>1, <3>2
  <2>5. k \in 0..n
    OBVIOUS
  <2> QED BY <2>3, <2>4, <2>5
<1> HIDE DEF P
<1>5. n \in P
  BY <1>3, <1>4, UpTo
<1>6. PICK b \in Nat : \A i \in 1..n : f[i] <= b
  BY <1>5 DEF P
<1> QED BY <1>2, <1>6

LEMMA LeastIs ==
  ASSUME NEW S \in SUBSET Nat, S # {}
  PROVE  Replays!Least(S) \in S /\ \A x \in S : Replays!Least(S) <= x
BY LeastNatural DEF Replays!Least

LEMMA GreatestIs ==
  ASSUME NEW S \in SUBSET Nat, S # {}, NEW b \in Nat, \A x \in S : x <= b
  PROVE  Replays!Greatest(S) \in S /\ \A x \in S : Replays!Greatest(S) >= x
BY GreatestNatural DEF Replays!Greatest

LEMMA LongestStep == \A d \in ReplaySteps : Replays!Greatest(ReplaySteps) \in Nat /\ d <= Replays!Greatest(ReplaySteps)
<1> SUFFICES ASSUME NEW d \in ReplaySteps
             PROVE  Replays!Greatest(ReplaySteps) \in Nat /\ d <= Replays!Greatest(ReplaySteps)
  OBVIOUS
<1>1. PICK b \in Nat : \A x \in ReplaySteps : x <= b
  BY ReplayTimes, FinitelyMany, FiniteHasBound
<1>2. Replays!Greatest(ReplaySteps) \in ReplaySteps /\ \A x \in ReplaySteps : Replays!Greatest(ReplaySteps) >= x
  BY <1>1, ReplayTimes, GreatestIs
<1> QED BY <1>2, ReplayTimes

-----------------------------------------------------------------------------
(* What trails are.                                                        *)

LEMMA PointsAre ==
  ASSUME NEW tr \in ReplayTrails
  PROVE  /\ Len(tr.points) \in Nat /\ Len(tr.points) > 0 /\ DOMAIN tr.points = 1..Len(tr.points)
         /\ \A i \in 1..Len(tr.points) :
              tr.points[i].t0 \in Nat /\ tr.points[i].t1 \in Nat /\ tr.points[i].t0 <= tr.points[i].t1
         /\ \A i, j \in 1..Len(tr.points) : i < j => tr.points[i].t1 <= tr.points[j].t0
         /\ DOMAIN tr.kinds = 1..Len(tr.points) - 1
         /\ tr.marks \subseteq Nat
<1> DEFINE Stays == [t0 : Nat, t1 : Nat]
<1>1. /\ tr.points \in Seq(Stays) /\ tr.points # <<>> /\ tr.marks \subseteq Nat
      /\ tr.kinds \in Seq(STRING) /\ Len(tr.kinds) = Len(tr.points) - 1
      /\ \A i \in DOMAIN tr.points : tr.points[i].t0 <= tr.points[i].t1
      /\ \A i, j \in DOMAIN tr.points : i < j => tr.points[i].t1 <= tr.points[j].t0
  BY TrailsCanBeReplayed DEF Replays!ReplayConstants, Replays!IsTrail
<1>2. \A s \in Stays : s.t0 \in Nat /\ s.t1 \in Nat
  OBVIOUS
<1> HIDE DEF Stays
<1>3. Len(tr.points) \in Nat /\ DOMAIN tr.points = 1..Len(tr.points) /\ \A i \in DOMAIN tr.points : tr.points[i] \in Stays
  BY <1>1, LenProperties
<1>4. Len(tr.points) > 0
  BY <1>1, <1>3, EmptySeq
<1>5. DOMAIN tr.kinds = 1..Len(tr.points) - 1
  BY <1>1, LenProperties
<1> QED BY <1>1, <1>2, <1>3, <1>4, <1>5

LEMMA IndexIs ==
  ASSUME NEW tr \in ReplayTrails, NEW t \in Nat
  PROVE  LET i == Replays!IndexAt(tr.points, t)
         IN  /\ i \in 0..Len(tr.points)
             /\ i # 0 => tr.points[i].t0 <= t
             /\ \A j \in 1..Len(tr.points) : tr.points[j].t0 <= t => j <= i
<1> DEFINE S == {0} \cup {i \in DOMAIN tr.points : tr.points[i].t0 <= t}
<1>1. S \in SUBSET Nat /\ S # {} /\ Len(tr.points) \in Nat /\ \A x \in S : x <= Len(tr.points)
  BY PointsAre
<1>2. \A x \in S : x # 0 => x \in 1..Len(tr.points) /\ tr.points[x].t0 <= t
  BY PointsAre
<1>3. \A j \in 1..Len(tr.points) : tr.points[j].t0 <= t => j \in S
  BY PointsAre
<1>4. Replays!IndexAt(tr.points, t) = Replays!Greatest(S)
  BY DEF Replays!IndexAt
<1> HIDE DEF S
<1>5. Replays!Greatest(S) \in S /\ \A x \in S : Replays!Greatest(S) >= x
  BY <1>1, GreatestIs
<1> QED BY <1>1, <1>2, <1>3, <1>4, <1>5

\* Nobody sets out later than at the next change.
LEMMA ChangeIs ==
  ASSUME NEW tr \in TrailsOrNone, NEW t \in Nat
  PROVE  /\ Replays!ChangeAfter(tr, t) \in SUBSET Nat
         /\ \A i \in DOMAIN tr.points : tr.points[i].t0 > t =>
              \E c \in Replays!ChangeAfter(tr, t) : c <= tr.points[i].t0
<1>1. CASE tr = Replays!NoTrail
  <2>1. tr.points = <<>>
    BY <1>1 DEF Replays!NoTrail
  <2> QED BY <2>1 DEF Replays!ChangeAfter, Replays!Never
<1>2. CASE tr \in ReplayTrails
  <2> DEFINE i == Replays!IndexAt(tr.points, t)
             N == Len(tr.points)
  <2>1. /\ i \in 0..N /\ (i # 0 => tr.points[i].t0 <= t)
        /\ \A j \in 1..N : tr.points[j].t0 <= t => j <= i
    BY <1>2, IndexIs
  <2>2. /\ N \in Nat /\ N > 0 /\ DOMAIN tr.points = 1..N /\ tr.points # <<>>
        /\ \A j \in 1..N : tr.points[j].t0 \in Nat /\ tr.points[j].t1 \in Nat /\ tr.points[j].t0 <= tr.points[j].t1
        /\ \A j, k \in 1..N : j < k => tr.points[j].t1 <= tr.points[k].t0
    BY <1>2, PointsAre
  <2>3. Replays!ChangeAfter(tr, t) =
          IF i = 0 THEN {tr.points[1].t0}
          ELSE IF i = N THEN {}
          ELSE IF t <= tr.points[i].t1 THEN {tr.points[i].t1}
          ELSE IF tr.kinds[i] \notin Replays!Connected \/ tr.points[i + 1].t0 - tr.points[i].t1 > Replays!GapS
               THEN {tr.points[i + 1].t0} ELSE {t}
    BY <2>2 DEF Replays!ChangeAfter, Replays!Never
  <2> HIDE DEF i, N
  <2>4. \A j \in 1..N : tr.points[j].t0 > t => j > i
    <3> SUFFICES ASSUME NEW j \in 1..N, tr.points[j].t0 > t, j <= i PROVE FALSE
      BY <2>1
    <3>1. i # 0 /\ i \in 1..N
      BY <2>1, <2>2
    <3>2. tr.points[j].t0 <= tr.points[i].t0
      <4>1. CASE j = i
        BY <2>2, <3>1, <4>1
      <4>2. CASE j < i
        BY <2>2, <3>1, <4>2
      <4> QED BY <2>1, <2>2, <4>1, <4>2
    <3> QED BY <2>1, <2>2, <3>1, <3>2
  <2>5. \A j \in 1..N : j = 1 \/ 1 < j
    BY <2>2
  <2>6. CASE i = 0
    <3>1. 1 \in 1..N
      BY <2>2
    <3>2. \A j \in 1..N : tr.points[1].t0 <= tr.points[j].t0
      BY <2>2, <2>5, <3>1
    <3> QED BY <2>2, <2>3, <2>6, <3>1, <3>2
  <2>7. CASE i = N
    BY <2>2, <2>3, <2>4, <2>7
  <2>8. CASE i \in 1..N - 1
    <3>1. i \in 1..N /\ i + 1 \in 1..N /\ i # 0 /\ i # N
      BY <2>2, <2>8
    <3>2. \A j \in 1..N : j > i => j = i + 1 \/ i + 1 < j
      BY <2>2, <3>1
    <3>3. \A j \in 1..N : j > i => tr.points[i].t1 <= tr.points[j].t0 /\ tr.points[i + 1].t0 <= tr.points[j].t0
      BY <2>2, <3>1, <3>2
    <3>4. CASE t <= tr.points[i].t1
      <4>1. Replays!ChangeAfter(tr, t) = {tr.points[i].t1}
        BY <2>3, <3>1, <3>4
      <4> QED BY <2>2, <2>4, <3>1, <3>3, <4>1
    <3>5. CASE ~(t <= tr.points[i].t1)
      <4>1. Replays!ChangeAfter(tr, t) \in {{tr.points[i + 1].t0}, {t}}
        BY <2>3, <3>1, <3>5
      <4>2. CASE Replays!ChangeAfter(tr, t) = {tr.points[i + 1].t0}
        BY <2>2, <2>4, <3>1, <3>3, <4>2
      <4>3. CASE Replays!ChangeAfter(tr, t) = {t}
        BY <2>2, <4>3
      <4> QED BY <4>1, <4>2, <4>3
    <3> QED BY <3>4, <3>5
  <2> QED BY <2>1, <2>2, <2>6, <2>7, <2>8
<1> QED BY <1>1, <1>2 DEF TrailsOrNone

LEMMA NextChangeIs ==
  ASSUME NEW trs \in [Names -> TrailsOrNone], NEW t \in Nat
  PROVE  LET next == Replays!NextChange(trs, t)
         IN  /\ next \in SUBSET Nat
             /\ \A n \in Names : \A i \in DOMAIN trs[n].points :
                  trs[n].points[i].t0 > t => \E c \in next : c <= trs[n].points[i].t0
             /\ \A n \in Names : \A m \in trs[n].marks : m >= t => \E c \in next : c <= m
<1>1. ASSUME NEW n \in Names
      PROVE  /\ Replays!MarkAfter(trs[n], t) \in SUBSET Nat
             /\ \A m \in trs[n].marks : m >= t => \E c \in Replays!MarkAfter(trs[n], t) : c <= m
  <2> DEFINE S == {m \in trs[n].marks : m >= t}
  <2>1. S \in SUBSET Nat
    BY PointsAre DEF TrailsOrNone, Replays!NoTrail
  <2>2. Replays!MarkAfter(trs[n], t) = IF S = {} THEN {} ELSE {Replays!Least(S)}
    BY DEF Replays!MarkAfter, Replays!Never
  <2>3. \A m \in trs[n].marks : m >= t => m \in S
    OBVIOUS
  <2> HIDE DEF S
  <2>4. S # {} => Replays!Least(S) \in S /\ \A x \in S : Replays!Least(S) <= x
    BY <2>1, LeastIs
  <2> QED BY <2>1, <2>2, <2>3, <2>4
<1>2. \A n \in Names : /\ Replays!ChangeAfter(trs[n], t) \in SUBSET Nat
                       /\ \A i \in DOMAIN trs[n].points : trs[n].points[i].t0 > t =>
                            \E c \in Replays!ChangeAfter(trs[n], t) : c <= trs[n].points[i].t0
  BY ChangeIs
<1>3. Replays!NextChange(trs, t) = UNION {Replays!ChangeAfter(trs[n], t) \cup Replays!MarkAfter(trs[n], t) : n \in Names}
  BY DEF Replays!NextChange
<1>4. /\ Replays!NextChange(trs, t) \in SUBSET Nat
      /\ \A n \in Names : /\ Replays!ChangeAfter(trs[n], t) \subseteq Replays!NextChange(trs, t)
                          /\ Replays!MarkAfter(trs[n], t) \subseteq Replays!NextChange(trs, t)
  BY <1>1, <1>2, <1>3
<1> QED BY <1>1, <1>2, <1>4

\* The span of trails of which there is one.
LEMMA SpanIs ==
  ASSUME NEW trs \in [Names -> TrailsOrNone], NEW one \in Names, trs[one] # Replays!NoTrail
  PROVE  LET span == Replays!Span(trs) IN span.tMin \in Nat /\ span.tMax \in Nat /\ span.tMin <= span.tMax
<1> DEFINE on == {n \in Names : trs[n] # Replays!NoTrail}
           initial == [n \in on |-> trs[n].points[1].t0]
           final == [n \in on |-> trs[n].points[Len(trs[n].points)].t1]
           initials == {trs[n].points[1].t0 : n \in on}
           finals == {trs[n].points[Len(trs[n].points)].t1 : n \in on}
<1>1. Replays!Span(trs).tMin = Replays!Least(initials) /\ Replays!Span(trs).tMax = Replays!Greatest(finals)
  BY DEF Replays!Span
<1>2. one \in on
  OBVIOUS
<1>3. ASSUME NEW n \in on
      PROVE  initial[n] \in Nat /\ final[n] \in Nat /\ initial[n] <= final[n]
  <2>1. trs[n] \in ReplayTrails
    BY DEF TrailsOrNone
  <2> DEFINE tr == trs[n]
             N == Len(tr.points)
  <2>2. /\ N \in Nat /\ N > 0
        /\ \A i \in 1..N : tr.points[i].t0 \in Nat /\ tr.points[i].t1 \in Nat /\ tr.points[i].t0 <= tr.points[i].t1
        /\ \A i, j \in 1..N : i < j => tr.points[i].t1 <= tr.points[j].t0
    BY <2>1, PointsAre
  <2>3. initial[n] = tr.points[1].t0 /\ final[n] = tr.points[N].t1
    OBVIOUS
  <2> HIDE DEF tr, N, initial, final
  <2>4. 1 \in 1..N /\ N \in 1..N /\ (N = 1 \/ 1 < N)
    BY <2>2
  <2> QED BY <2>2, <2>3, <2>4
<1>4. IsFiniteSet(finals)
  <2>1. final \in Surjection(on, finals)
    BY DEF Surjection
  <2>2. IsFiniteSet(on)
    BY FinitelyMany, FS_Subset
  <2> HIDE DEF final, on, finals
  <2> QED BY <2>1, <2>2, FS_Surjection
<1>5. initials \in SUBSET Nat /\ finals \in SUBSET Nat /\ initial[one] \in initials /\ final[one] \in finals
  BY <1>2, <1>3
<1>6. initial[one] \in Nat /\ final[one] \in Nat /\ initial[one] <= final[one]
  BY <1>2, <1>3
<1> HIDE DEF on, initial, final, initials, finals
<1>7. PICK b \in Nat : \A x \in finals : x <= b
  BY <1>4, <1>5, FiniteHasBound
<1>8. Replays!Least(initials) \in initials /\ Replays!Least(initials) <= initial[one]
  BY <1>5, LeastIs
<1>9. Replays!Greatest(finals) \in finals /\ Replays!Greatest(finals) >= final[one]
  BY <1>5, <1>7, GreatestIs
<1>10. Replays!Least(initials) \in Nat /\ Replays!Greatest(finals) \in Nat
  BY <1>5, <1>8, <1>9
<1> QED BY <1>1, <1>6, <1>8, <1>9, <1>10

\* What is true of the clock whatever the trails and the viewer do.
ClockInv(c) ==
  /\ c \in Clocks /\ c.tMin <= c.tMax
  /\ c.hold > 0 => ~c.hopping /\ (c.playing \/ c.time >= c.tMax)
  /\ c.hopping => c.hop.animated /\ c.hop.leave <= c.hop.land
  /\ ~c.hopping => c.hop = Replays!NoHop
  /\ ~c.hopping \/ ~c.playing => c.hopAt = 0
  /\ c.time <= c.tMax \/ (~c.playing /\ ~c.hopping)

LEMMA ClockFields ==
  ASSUME NEW c, ClockInv(c)
  PROVE  /\ c.tMin \in Nat /\ c.tMax \in Nat /\ c.time \in Nat /\ c.hold \in HoldTimes /\ c.hopAt \in HopTimes
         /\ c.hop \in HopRecords /\ {c.playing, c.skipIdle, c.hopping} \subseteq BOOLEAN
         /\ c.hold \in Nat /\ c.hopAt \in Nat
BY HoldsAre, HopsAre DEF ClockInv, Clocks

LEMMA NoHopIs == Replays!NoHop \in HopRecords /\ Replays!NoHop.animated = FALSE
BY DEF HopRecords, Replays!NoHop

Spread(c, lo, hi, t) == [c EXCEPT !.tMin = lo, !.tMax = hi, !.time = t]

LEMMA SetRangeKeeps ==
  ASSUME NEW c, ClockInv(c), NEW s, s.tMin \in Nat, s.tMax \in Nat, s.tMin <= s.tMax
  PROVE  LET new == Replays!SetRange(c, s) IN
         ClockInv(new) /\ new.playing = c.playing /\ (new.time = c.time => Replays!Shows(new) = Replays!Shows(c))
<1> DEFINE lo == s.tMin  hi == s.tMax
<1>1. PICK t : t = IF c.time >= c.tMax THEN s.tMax ELSE Replays!Clamp(c.time, s.tMin, s.tMax)
  OBVIOUS
<1>2. t \in Nat /\ t <= hi /\ (c.time >= c.tMax => t = hi)
  BY <1>1, ClockFields DEF Replays!Clamp
<1>3. Replays!SetRange(c, s) = Spread(c, lo, hi, t)
  BY <1>1 DEF Replays!SetRange, Replays!AtEnd, Spread
<1> HIDE DEF lo, hi
<1>4. lo \in Nat /\ hi \in Nat /\ lo <= hi
  BY DEF lo, hi
<1>5. ClockInv(Spread(c, lo, hi, t)) /\ Spread(c, lo, hi, t).playing = c.playing
  BY <1>2, <1>4, ClockFields DEF ClockInv, Clocks, Spread
<1>6. Spread(c, lo, hi, t).time = c.time => Replays!Shows(Spread(c, lo, hi, t)) = Replays!Shows(c)
  BY DEF Replays!Shows, Spread, ClockInv, Clocks
<1> QED BY <1>3, <1>5, <1>6

LEMMA SeekToKeeps ==
  ASSUME NEW c, ClockInv(c), NEW t \in Nat
  PROVE  ClockInv(Replays!SeekTo(c, t)) /\ Replays!SeekTo(c, t).playing = c.playing
<1>1. PICK u : u = Replays!Clamp(t, c.tMin, c.tMax)
  OBVIOUS
<1>2. u \in Nat /\ u <= c.tMax
  BY <1>1, ClockFields DEF Replays!Clamp, ClockInv
<1> DEFINE new == [c EXCEPT !.hopping = FALSE, !.hop = Replays!NoHop, !.hopAt = 0, !.time = u, !.hold = 0]
<1>3. Replays!SeekTo(c, t) = new
  BY <1>1, ClockFields DEF Replays!SeekTo, Replays!NoHopping, ClockInv, Clocks
<1>4. 0 \in HoldTimes /\ 0 \in HopTimes /\ Replays!NoHop \in HopRecords
  BY HoldsAre, HopsAre, NoHopIs
<1>5. /\ new \in Clocks /\ new.tMin = c.tMin /\ new.tMax = c.tMax /\ new.time = u /\ new.playing = c.playing
      /\ new.hold = 0 /\ new.hopping = FALSE /\ new.hop = Replays!NoHop /\ new.hopAt = 0
  BY <1>2, <1>4 DEF ClockInv, Clocks
<1> HIDE DEF new
<1>6. ClockInv(new)
  BY <1>2, <1>5, ClockFields DEF ClockInv
<1> QED BY <1>3, <1>5, <1>6

LEMMA PlayKeeps ==
  ASSUME NEW c, ClockInv(c), ~c.playing
  PROVE  ClockInv(Replays!Play(c)) /\ Replays!Play(c).playing = TRUE
<1>1. PICK u : u = IF c.time >= c.tMax /\ ~c.hopping THEN c.tMin ELSE c.time
  OBVIOUS
<1>2. u \in Nat /\ u <= c.tMax
  BY <1>1, ClockFields DEF ClockInv
<1> DEFINE new == [c EXCEPT !.playing = TRUE, !.time = u]
<1>3. Replays!Play(c) = new
  BY <1>1 DEF Replays!Play, Replays!AtEnd
<1>4. ClockInv(new) /\ new.playing = TRUE
  BY <1>2, ClockFields DEF ClockInv, Clocks
<1> QED BY <1>3, <1>4

LEMMA PauseKeeps ==
  ASSUME NEW c, ClockInv(c)
  PROVE  /\ ClockInv(Replays!Pause(c)) /\ Replays!Pause(c).playing = FALSE
         /\ ~c.hopping => Replays!Shows(Replays!Pause(c)) = Replays!Shows(c)
<1> DEFINE new == [c EXCEPT !.playing = FALSE, !.hold = 0, !.hopAt = 0]
<1>1. 0 \in HoldTimes /\ 0 \in HopTimes
  BY HoldsAre, HopsAre
<1>2. /\ new \in Clocks /\ new.tMin = c.tMin /\ new.tMax = c.tMax /\ new.time = c.time /\ new.playing = FALSE
      /\ new.hold = 0 /\ new.hopping = c.hopping /\ new.hop = c.hop /\ new.hopAt = 0
  BY <1>1 DEF ClockInv, Clocks
<1>3. ~c.hopping => c.hopAt = 0
  BY DEF ClockInv
<1>4. Replays!Pause(c) = new
  BY DEF Replays!Pause
<1> HIDE DEF new
<1>5. ClockInv(new)
  BY <1>2, ClockFields DEF ClockInv
<1> QED BY <1>2, <1>3, <1>4, <1>5 DEF Replays!Shows

LEMMA SkipKeeps ==
  ASSUME NEW c, ClockInv(c)
  PROVE  LET new == [c EXCEPT !.skipIdle = ~@] IN
         ClockInv(new) /\ new.playing = c.playing /\ Replays!Shows(new) = Replays!Shows(c)
BY ClockFields DEF ClockInv, Clocks, Replays!Shows

LEMMA EndsKeeps ==
  ASSUME NEW c \in Clocks, c.tMin <= c.tMax,
         c.hold > 0 => ~c.hopping,
         c.playing, 
         c.hopping => c.hop.animated /\ c.hop.leave <= c.hop.land /\ c.time <= c.tMax,
         ~c.hopping => c.hop = Replays!NoHop /\ c.hopAt = 0
  PROVE  LET new == Replays!EndsAtEnd(c) IN
         /\ ClockInv(new)
         /\ new.time = c.time /\ new.hopping = c.hopping /\ new.hop = c.hop /\ new.hopAt = c.hopAt /\ new.hold = c.hold
         /\ new.playing = (c.hopping \/ c.time < c.tMax)
<1>1. /\ c.tMin \in Nat /\ c.tMax \in Nat /\ c.time \in Nat /\ c.playing = TRUE /\ c.hopping \in BOOLEAN
  BY DEF Clocks
<1>2. CASE c.time >= c.tMax /\ ~c.hopping
  <2> DEFINE new == [c EXCEPT !.playing = FALSE]
  <2>1. /\ ClockInv(new)
        /\ new.time = c.time /\ new.hopping = c.hopping /\ new.hop = c.hop /\ new.hopAt = c.hopAt /\ new.hold = c.hold
        /\ new.playing = FALSE
    BY <1>1, <1>2 DEF ClockInv, Clocks
  <2>2. Replays!EndsAtEnd(c) = new
    BY <1>2 DEF Replays!EndsAtEnd, Replays!AtEnd
  <2>3. (c.hopping \/ c.time < c.tMax) = FALSE
    BY <1>1, <1>2
  <2> HIDE DEF new
  <2> QED BY <2>1, <2>2, <2>3
<1>3. CASE ~(c.time >= c.tMax /\ ~c.hopping)
  <2>1. Replays!EndsAtEnd(c) = c
    BY <1>3 DEF Replays!EndsAtEnd, Replays!AtEnd
  <2>2. (c.hopping \/ c.time < c.tMax) = TRUE
    BY <1>1, <1>3
  <2>3. ClockInv(c)
    BY <1>1, <1>3 DEF ClockInv
  <2> QED BY <1>1, <2>1, <2>2, <2>3
<1> QED BY <1>2, <1>3

-----------------------------------------------------------------------------
(* A frame.                                                                 *)

LEMMA HopFacts ==
  ASSUME NEW tr \in TrailsOrNone, NEW h \in Replays!Hops(tr)
  PROVE  h \in HopRecords /\ h.leave <= h.land
<1>1. PICK i \in DOMAIN tr.kinds :
        h = [leave |-> tr.points[i].t1, land |-> tr.points[i + 1].t0, animated |-> tr.kinds[i] = "teleport"]
  BY DEF Replays!Hops
<1>2. tr \in ReplayTrails
  <2> SUFFICES ASSUME tr = Replays!NoTrail PROVE FALSE
    BY DEF TrailsOrNone
  <2>1. tr.kinds = <<>>
    BY DEF Replays!NoTrail
  <2> QED BY <1>1, <2>1
<1>3. /\ Len(tr.points) \in Nat /\ i \in 1..Len(tr.points) - 1
      /\ \A k \in 1..Len(tr.points) : tr.points[k].t0 \in Nat /\ tr.points[k].t1 \in Nat
      /\ \A k, j \in 1..Len(tr.points) : k < j => tr.points[k].t1 <= tr.points[j].t0
  BY <1>1, <1>2, PointsAre
<1>4. i \in 1..Len(tr.points) /\ i + 1 \in 1..Len(tr.points) /\ i < i + 1
  BY <1>3
<1>5. (tr.kinds[i] = "teleport") \in BOOLEAN
  OBVIOUS
<1>6. tr.points[i].t1 \in Nat /\ tr.points[i + 1].t0 \in Nat /\ tr.points[i].t1 <= tr.points[i + 1].t0
  BY <1>3, <1>4
<1>7. \A a, b \in Nat, x \in BOOLEAN : a <= b => LET r == [leave |-> a, land |-> b, animated |-> x]
                                               IN r \in HopRecords /\ r.leave <= r.land
  BY DEF HopRecords
<1> QED BY <1>1, <1>5, <1>6, <1>7

LEMMA HopFields ==
  ASSUME NEW h \in HopRecords PROVE h.leave \in Nat /\ h.land \in Nat /\ h.animated \in BOOLEAN
BY DEF HopRecords

\* The trails and who is watched.
TrailsInv ==
  /\ replayTrail \in [Names -> TrailsOrNone] /\ replaySelected \in Names \cup {NoOne}
  /\ order \in Seq(Names)

WatchedHops == IF Replays!ReplayPlayer = NoOne THEN {} ELSE Replays!Hops(replayTrail[Replays!ReplayPlayer])

LEMMA WatchedIs == ASSUME TrailsInv PROVE Replays!ReplayPlayer \in Names \cup {NoOne}
<1>1. order # <<>> => order[1] \in Names
  BY EmptySeq, LenProperties DEF TrailsInv
<1> QED BY <1>1 DEF Replays!ReplayPlayer

LEMMA WatchedHopsAre == ASSUME TrailsInv PROVE \A h \in WatchedHops : h \in HopRecords /\ h.leave <= h.land
<1> SUFFICES ASSUME NEW h \in WatchedHops PROVE h \in HopRecords /\ h.leave <= h.land
  OBVIOUS
<1>1. Replays!ReplayPlayer \in Names /\ h \in Replays!Hops(replayTrail[Replays!ReplayPlayer])
  BY WatchedIs DEF WatchedHops
<1>2. replayTrail[Replays!ReplayPlayer] \in TrailsOrNone
  BY <1>1 DEF TrailsInv
<1> QED BY <1>1, <1>2, HopFacts

LEMMA NextHopIs ==
  ASSUME TrailsInv, NEW from \in Nat, NEW to \in Nat
  PROVE  /\ \A h \in Replays!NextHop(from, to) :
              /\ h \in WatchedHops /\ from < h.land /\ h.land <= to
              /\ \A g \in WatchedHops : from < g.land /\ g.land <= to => h.land <= g.land
         /\ Replays!NextHop(from, to) = {} => \A g \in WatchedHops : ~(from < g.land /\ g.land <= to)
<1>1. CASE Replays!ReplayPlayer = NoOne
  BY <1>1 DEF Replays!NextHop, WatchedHops
<1>2. CASE Replays!ReplayPlayer # NoOne
  <2> DEFINE in == {h \in WatchedHops : from < h.land /\ h.land <= to}
             lands == {h.land : h \in in}
  <2>1. Replays!HopsIn(replayTrail[Replays!ReplayPlayer], from, to) = in
    BY <1>2 DEF Replays!HopsIn, WatchedHops
  <2>2. Replays!NextHop(from, to) = IF in = {} THEN {} ELSE {CHOOSE h \in in : \A g \in in : h.land <= g.land}
    BY <1>2, <2>1 DEF Replays!NextHop
  <2>3. CASE in = {}
    BY <2>2, <2>3
  <2>4. CASE in # {}
    <3>1. lands \in SUBSET Nat /\ lands # {}
      BY <2>4, WatchedHopsAre, HopFields
    <3> HIDE DEF lands
    <3>2. PICK m \in lands : \A n \in lands : m <= n
      BY <3>1, LeastNatural
    <3>3. \E h \in in : \A g \in in : h.land <= g.land
      BY <3>2 DEF lands
    <3> DEFINE one == CHOOSE h \in in : \A g \in in : h.land <= g.land
    <3> HIDE DEF in
    <3>4. one \in in /\ \A g \in in : one.land <= g.land
      BY <3>3
    <3>5. Replays!NextHop(from, to) = {one}
      BY <2>2, <2>4
    <3> HIDE DEF one
    <3> QED BY <3>4, <3>5 DEF in
  <2> QED BY <2>3, <2>4
<1> QED BY <1>1, <1>2

\* Nobody moves and nothing is marked between two times.
Quiet(from, to) ==
  \A n \in Names : /\ \A m \in replayTrail[n].marks : ~(from <= m /\ m < to)
                   /\ \A i \in DOMAIN replayTrail[n].points :
                        ~(from < replayTrail[n].points[i].t0 /\ replayTrail[n].points[i].t0 < to)

LEMMA QuietFields ==
  ASSUME replayTrail \in [Names -> TrailsOrNone], NEW n \in Names
  PROVE  /\ \A m \in replayTrail[n].marks : m \in Nat
         /\ \A i \in DOMAIN replayTrail[n].points : replayTrail[n].points[i].t0 \in Nat
<1>1. CASE replayTrail[n] = Replays!NoTrail
  BY <1>1 DEF Replays!NoTrail
<1>2. CASE replayTrail[n] \in ReplayTrails
  BY <1>2, PointsAre
<1> QED BY <1>1, <1>2 DEF TrailsOrNone

LEMMA QuietUntilNext ==
  ASSUME TrailsInv, NEW from \in Nat, NEW to \in Nat,
         \A c \in Replays!NextChange(replayTrail, from) : c >= to
  PROVE  Quiet(from, to)
<1>1. replayTrail \in [Names -> TrailsOrNone]
  BY DEF TrailsInv
<1> DEFINE next == Replays!NextChange(replayTrail, from)
<1>2. /\ next \in SUBSET Nat
      /\ \A n \in Names : \A i \in DOMAIN replayTrail[n].points :
           replayTrail[n].points[i].t0 > from => \E c \in next : c <= replayTrail[n].points[i].t0
      /\ \A n \in Names : \A m \in replayTrail[n].marks : m >= from => \E c \in next : c <= m
  BY <1>1, NextChangeIs
<1>3. \A c \in next : c >= to
  OBVIOUS
<1> HIDE DEF next
<1>4. ASSUME NEW n \in Names, NEW m \in replayTrail[n].marks, from <= m, m < to PROVE FALSE
  <2>1. m \in Nat
    BY <1>1, QuietFields
  <2>2. PICK c \in next : c <= m
    BY <1>2, <1>4, <2>1
  <2> QED BY <1>2, <1>3, <1>4, <2>1, <2>2
<1>5. ASSUME NEW n \in Names, NEW i \in DOMAIN replayTrail[n].points,
             from < replayTrail[n].points[i].t0, replayTrail[n].points[i].t0 < to
      PROVE  FALSE
  <2>1. replayTrail[n].points[i].t0 \in Nat
    BY <1>1, QuietFields
  <2>2. PICK c \in next : c <= replayTrail[n].points[i].t0
    BY <1>2, <1>5, <2>1
  <2> QED BY <1>2, <1>3, <1>5, <2>1, <2>2
<1> QED BY <1>4, <1>5 DEF Quiet

LEMMA QuietSooner ==
  ASSUME TrailsInv, NEW from \in Nat, NEW to \in Nat, NEW till \in Nat, till <= to, Quiet(from, to)
  PROVE  Quiet(from, till)
<1>1. replayTrail \in [Names -> TrailsOrNone]
  BY DEF TrailsInv
<1> QED BY <1>1, QuietFields DEF Quiet

LEMMA AheadIs ==
  ASSUME TrailsInv, NEW c, ClockInv(c), c.playing, NEW d \in ReplaySteps, NEW to \in Replays!Ahead(c, d)
  PROVE  /\ to \in Nat /\ c.time <= to /\ to <= c.tMax /\ (to < c.tMax => to > c.time)
         /\ to > c.time + d => Quiet(c.time, to)
<1>1. c.time \in Nat /\ c.tMax \in Nat /\ c.time <= c.tMax /\ d \in Nat /\ d > 0
  BY ClockFields, ReplayTimes DEF ClockInv
<1>2. LET on == Replays!Clamp(c.time + d, c.time, c.tMax) IN
      on \in Nat /\ c.time <= on /\ on <= c.tMax /\ on <= c.time + d /\ (on < c.tMax => on > c.time)
  BY <1>1 DEF Replays!Clamp
<1>3. CASE ~c.skipIdle
  BY <1>1, <1>2, <1>3 DEF Replays!Ahead
<1> DEFINE next == Replays!NextChange(replayTrail, c.time)
<1>4. CASE c.skipIdle /\ next = {}
  <2>1. to = c.tMax
    BY <1>4 DEF Replays!Ahead
  <2>2. Quiet(c.time, to)
    BY <1>1, <1>4, <2>1, QuietUntilNext
  <2> QED BY <1>1, <2>1, <2>2
<1>5. CASE c.skipIdle /\ next # {}
  <2> DEFINE at == Replays!Least(next)
  <2>1. to = IF at - c.time > IdleSkip THEN Replays!Clamp(at - IdleLead, c.time, c.tMax)
             ELSE Replays!Clamp(c.time + d, c.time, c.tMax)
    BY <1>5 DEF Replays!Ahead
  <2>2. next \in SUBSET Nat
    BY <1>1, NextChangeIs DEF TrailsInv
  <2> HIDE DEF next
  <2>3. at \in next /\ \A x \in next : at <= x
    BY <1>5, <2>2, LeastIs
  <2> HIDE DEF at
  <2>4. CASE at - c.time > IdleSkip
    <3>1. at \in Nat /\ to = Replays!Clamp(at - IdleLead, c.time, c.tMax)
      BY <2>1, <2>2, <2>3, <2>4
    <3>2. to \in Nat /\ c.time <= to /\ to <= c.tMax /\ to <= at /\ (to < c.tMax => to > c.time)
      BY <1>1, <2>4, <3>1, ReplayTimes DEF Replays!Clamp
    <3>3. \A x \in next : x >= to
      BY <2>2, <2>3, <3>1, <3>2
    <3>4. Quiet(c.time, to)
      BY <1>1, <3>2, <3>3, QuietUntilNext DEF next
    <3> QED BY <3>2, <3>4
  <2>5. CASE ~(at - c.time > IdleSkip)
    BY <1>1, <1>2, <2>1, <2>5
  <2> QED BY <2>4, <2>5
<1>6. c.skipIdle \in BOOLEAN
  BY ClockFields
<1> QED BY <1>3, <1>4, <1>5, <1>6

\* What a frame of length d may do to the clock: no hop is passed, only what is quiet is
\* skipped, and a replay that goes on playing gets on.
GoesOn(c, new, d) ==
  /\ ~c.hopping => \A h \in WatchedHops : ~(c.time < h.land /\ h.land < new.time)
  /\ ~c.hopping /\ ~new.hopping /\ new.time > c.time + d => Quiet(c.time, new.time)
  /\ new.playing =>
       IF c.hopping
       THEN IF new.hopping THEN new.hopAt > c.hopAt ELSE new.time = c.hop.land
       ELSE IF new.hopping THEN new.hop.land > c.time
            ELSE new.time > c.time \/ new.hold < c.hold

LEMMA HopsOn ==
  ASSUME NEW c, ClockInv(c), c.playing, c.hopping, c.hopAt + 1 < HopFrames, NEW d \in ReplaySteps
  PROVE  LET new == [c EXCEPT !.hopAt = @ + 1] IN ClockInv(new) /\ GoesOn(c, new, d)
<1> DEFINE new == [c EXCEPT !.hopAt = @ + 1]
<1>1. c.hopAt + 1 \in HopTimes /\ c.hopAt + 1 > c.hopAt
  BY ClockFields, HopsAre
<1>2. /\ new \in Clocks /\ new.tMin = c.tMin /\ new.tMax = c.tMax /\ new.time = c.time /\ new.playing = c.playing
      /\ new.hold = c.hold /\ new.hopping = c.hopping /\ new.hop = c.hop /\ new.hopAt = c.hopAt + 1
  BY <1>1 DEF ClockInv, Clocks
<1> HIDE DEF new
<1>3. ClockInv(new)
  BY <1>2 DEF ClockInv
<1>4. GoesOn(c, new, d)
  BY <1>1, <1>2 DEF GoesOn
<1> QED BY <1>3, <1>4 DEF new

LEMMA Lands ==
  ASSUME NEW c, ClockInv(c), c.playing, c.hopping, NEW d \in ReplaySteps
  PROVE  LET new == Replays!EndsAtEnd(Replays!LandHop(c)) IN ClockInv(new) /\ GoesOn(c, new, d)
<1> DEFINE mid == [c EXCEPT !.hopping = FALSE, !.hop = Replays!NoHop, !.hopAt = 0, !.time = c.hop.land]
           new == Replays!EndsAtEnd(mid)
<1>1. Replays!LandHop(c) = mid
  BY DEF Replays!LandHop, Replays!NoHopping, ClockInv, Clocks
<1>2. c.hop.land \in Nat /\ 0 \in HopTimes /\ Replays!NoHop \in HopRecords
  BY ClockFields, HopFields, HopsAre, NoHopIs
<1>3. /\ mid \in Clocks /\ mid.tMin = c.tMin /\ mid.tMax = c.tMax /\ mid.time = c.hop.land /\ mid.playing = c.playing
      /\ mid.hold = c.hold /\ mid.hopping = FALSE /\ mid.hop = Replays!NoHop /\ mid.hopAt = 0
  BY <1>2 DEF ClockInv, Clocks
<1> HIDE DEF mid
<1>4. mid.tMin <= mid.tMax /\ mid.playing
  BY <1>3 DEF ClockInv
<1>5. ClockInv(new) /\ new.time = c.hop.land /\ new.hopping = FALSE
  BY <1>3, <1>4, EndsKeeps
<1> HIDE DEF new
<1>6. GoesOn(c, new, d)
  BY <1>5 DEF GoesOn
<1> QED BY <1>1, <1>5, <1>6 DEF new

LEMMA Waits ==
  ASSUME TrailsInv, NEW c, ClockInv(c), c.playing, ~c.hopping, c.hold > 0, NEW d \in ReplaySteps
  PROVE  LET new == [c EXCEPT !.hold = @ - 1] IN
         ClockInv(new) /\ GoesOn(c, new, d) /\ Replays!Shows(new) = Replays!Shows(c)
<1> DEFINE new == [c EXCEPT !.hold = @ - 1]
<1>1. c.hold - 1 \in HoldTimes /\ c.hold - 1 < c.hold /\ c.hold \in Nat
  BY ClockFields, HoldsAre
<1>2. /\ new \in Clocks /\ new.tMin = c.tMin /\ new.tMax = c.tMax /\ new.time = c.time /\ new.playing = c.playing
      /\ new.hold = c.hold - 1 /\ new.hopping = c.hopping /\ new.hop = c.hop /\ new.hopAt = c.hopAt
  BY <1>1 DEF ClockInv, Clocks
<1> HIDE DEF new
<1>3. ClockInv(new)
  BY <1>1, <1>2 DEF ClockInv
<1>4. GoesOn(c, new, d)
  <2>1. \A h \in WatchedHops : ~(c.time < h.land /\ h.land < new.time)
    BY <1>2, WatchedHopsAre, HopFields, ClockFields
  <2>2. ~(new.time > c.time + d)
    BY <1>2, ClockFields, ReplayTimes
  <2> QED BY <1>1, <1>2, <2>1, <2>2 DEF GoesOn
<1>5. Replays!Shows(new) = Replays!Shows(c)
  BY <1>2 DEF Replays!Shows
<1> QED BY <1>3, <1>4, <1>5 DEF new

\* Where the clock stops on its way.
LEMMA StopsAre ==
  ASSUME TrailsInv, NEW c, ClockInv(c), c.playing, ~c.hopping, ~(c.hold > 0), NEW to \in Nat,
         c.time <= to, to <= c.tMax, NEW on \in Replays!Stops(c, to)
  PROVE  /\ on \in Clocks /\ on.tMin = c.tMin /\ on.tMax = c.tMax /\ on.playing = TRUE
         /\ on.hold > 0 => ~on.hopping
         /\ on.hopping => on.hop.animated /\ on.hop.leave <= on.hop.land /\ on.time = on.hop.leave /\ on.time <= c.tMax
                          /\ c.time < on.hop.land
         /\ ~on.hopping => on.hop = Replays!NoHop /\ on.hopAt = 0
                           /\ (on.time = to \/ on.time > c.time)
         /\ on.time <= to
         /\ \A h \in WatchedHops : ~(c.time < h.land /\ h.land < on.time)
<1>1. c.time \in Nat /\ c.tMax \in Nat
  BY ClockFields
<1>2. CASE Replays!NextHop(c.time, to) = {}
  <2> DEFINE new == [c EXCEPT !.time = to]
  <2>1. on = new
    BY <1>2 DEF Replays!Stops
  <2>2. /\ new \in Clocks /\ new.tMin = c.tMin /\ new.tMax = c.tMax /\ new.time = to /\ new.playing = c.playing
        /\ new.hold = c.hold /\ new.hopping = c.hopping /\ new.hop = c.hop /\ new.hopAt = c.hopAt
    BY DEF ClockInv, Clocks
  <2> HIDE DEF new
  <2>3. \A h \in WatchedHops : ~(c.time < h.land /\ h.land <= to)
    BY <1>1, <1>2, NextHopIs
  <2>4. \A h \in WatchedHops : h.land \in Nat
    BY WatchedHopsAre, HopFields
  <2>5. c.playing = TRUE /\ c.hopping = FALSE /\ c.hop = Replays!NoHop /\ c.hopAt = 0
    BY ClockFields DEF ClockInv
  <2> QED BY <1>1, <2>1, <2>2, <2>3, <2>4, <2>5
<1>3. CASE Replays!NextHop(c.time, to) # {}
  <2>1. PICK hop \in Replays!NextHop(c.time, to) :
          on = IF hop.animated THEN [c EXCEPT !.time = hop.leave, !.hopping = TRUE, !.hop = hop, !.hopAt = 0]
               ELSE [c EXCEPT !.time = hop.land, !.hold = HoldFrames]
    BY <1>3 DEF Replays!Stops
  <2>2. /\ hop \in WatchedHops /\ c.time < hop.land /\ hop.land <= to
        /\ \A g \in WatchedHops : c.time < g.land /\ g.land <= to => hop.land <= g.land
    BY <1>1, NextHopIs
  <2>3. /\ hop \in HopRecords /\ hop.leave \in Nat /\ hop.land \in Nat /\ hop.leave <= hop.land
        /\ \A g \in WatchedHops : g.land \in Nat
    BY <2>2, WatchedHopsAre, HopFields
  <2>4. ASSUME NEW at \in Nat, at <= hop.land, NEW h \in WatchedHops, c.time < h.land, h.land < at PROVE FALSE
    BY <2>2, <2>3, <2>4
  <2>5. c.playing = TRUE /\ c.hopping = FALSE /\ c.hop = Replays!NoHop /\ c.hopAt = 0 /\ 0 \in HopTimes
        /\ HoldFrames \in HoldTimes /\ c.hold \in Nat
    BY ClockFields, HopsAre, HoldsAre DEF ClockInv
  <2>6. CASE hop.animated
    <3> DEFINE new == [c EXCEPT !.time = hop.leave, !.hopping = TRUE, !.hop = hop, !.hopAt = 0]
    <3>1. on = new
      BY <2>1, <2>6
    <3>2. /\ new \in Clocks /\ new.tMin = c.tMin /\ new.tMax = c.tMax /\ new.time = hop.leave /\ new.playing = c.playing
          /\ new.hold = c.hold /\ new.hopping = TRUE /\ new.hop = hop /\ new.hopAt = 0
      BY <2>3, <2>5 DEF ClockInv, Clocks
    <3> HIDE DEF new
    <3> QED BY <1>1, <2>2, <2>3, <2>4, <2>5, <2>6, <3>1, <3>2
  <2>7. CASE ~hop.animated
    <3> DEFINE new == [c EXCEPT !.time = hop.land, !.hold = HoldFrames]
    <3>1. on = new
      BY <2>1, <2>7
    <3>2. /\ new \in Clocks /\ new.tMin = c.tMin /\ new.tMax = c.tMax /\ new.time = hop.land /\ new.playing = c.playing
          /\ new.hold = HoldFrames /\ new.hopping = c.hopping /\ new.hop = c.hop /\ new.hopAt = c.hopAt
      BY <2>3, <2>5 DEF ClockInv, Clocks
    <3> HIDE DEF new
    <3> QED BY <1>1, <2>2, <2>3, <2>4, <2>5, <3>1, <3>2
  <2> QED BY <2>6, <2>7
<1> QED BY <1>2, <1>3

LEMMA MovesOn ==
  ASSUME TrailsInv, NEW c, ClockInv(c), c.playing, ~c.hopping, ~(c.hold > 0), NEW d \in ReplaySteps,
         NEW to \in Replays!Ahead(c, d), NEW on \in Replays!Stops(c, to)
  PROVE  LET new == Replays!EndsAtEnd(on) IN
         /\ ClockInv(new) /\ GoesOn(c, new, d)
         /\ ~(on.time # c.time \/ on.hopping) => Replays!Shows(new) = Replays!Shows(c)
<1> DEFINE new == Replays!EndsAtEnd(on)
<1>1. /\ to \in Nat /\ c.time <= to /\ to <= c.tMax /\ (to < c.tMax => to > c.time)
      /\ to > c.time + d => Quiet(c.time, to)
  BY AheadIs
<1>2. /\ on \in Clocks /\ on.tMin = c.tMin /\ on.tMax = c.tMax /\ on.playing = TRUE
      /\ on.hold > 0 => ~on.hopping
      /\ on.hopping => on.hop.animated /\ on.hop.leave <= on.hop.land /\ on.time = on.hop.leave /\ on.time <= c.tMax
                       /\ c.time < on.hop.land
      /\ ~on.hopping => on.hop = Replays!NoHop /\ on.hopAt = 0
                        /\ (on.time = to \/ on.time > c.time)
      /\ on.time <= to
      /\ \A h \in WatchedHops : ~(c.time < h.land /\ h.land < on.time)
  BY <1>1, StopsAre
<1>3. on.tMin <= on.tMax
  BY <1>2 DEF ClockInv
<1>4. /\ ClockInv(new)
      /\ new.time = on.time /\ new.hopping = on.hopping /\ new.hop = on.hop /\ new.hopAt = on.hopAt /\ new.hold = on.hold
      /\ new.playing = (on.hopping \/ on.time < on.tMax)
  BY <1>2, <1>3, EndsKeeps
<1>5. c.time \in Nat /\ c.tMax \in Nat /\ on.time \in Nat /\ on.hopping \in BOOLEAN /\ d \in Nat
      /\ c.hopping = FALSE /\ c.hop = Replays!NoHop /\ c.hopAt = 0
  BY <1>2, ClockFields, ReplayTimes DEF ClockInv, Clocks
<1> HIDE DEF new
<1>6. ~new.hopping /\ new.time > c.time + d => Quiet(c.time, new.time)
  <2> SUFFICES ASSUME new.time > c.time + d PROVE Quiet(c.time, new.time)
    OBVIOUS
  <2>1. to > c.time + d /\ new.time \in Nat /\ new.time <= to
    BY <1>1, <1>2, <1>4, <1>5
  <2> QED BY <1>1, <1>5, <2>1, QuietSooner
<1>7. new.playing => IF new.hopping THEN new.hop.land > c.time ELSE new.time > c.time \/ new.hold < c.hold
  <2>1. CASE on.hopping
    <3>1. on.hop.land \in Nat
      BY <1>2, HopFields DEF Clocks
    <3> QED BY <1>2, <1>4, <1>5, <2>1, <3>1
  <2>2. CASE ~on.hopping
    BY <1>1, <1>2, <1>4, <1>5, <2>2
  <2> QED BY <2>1, <2>2
<1>8. GoesOn(c, new, d)
  BY <1>2, <1>4, <1>6, <1>7 DEF GoesOn
<1>9. ~(on.time # c.time \/ on.hopping) => Replays!Shows(new) = Replays!Shows(c)
  BY <1>2, <1>4, <1>5 DEF Replays!Shows
<1> QED BY <1>4, <1>8, <1>9 DEF new

\* A frame, all in all.
LEMMA TickIs ==
  ASSUME TrailsInv, NEW c, ClockInv(c), c.playing, NEW d \in ReplaySteps, NEW tick \in Replays!Tick(c, d)
  PROVE  /\ ClockInv(tick.clock) /\ GoesOn(c, tick.clock, d)
         /\ ~tick.news => Replays!Shows(tick.clock) = Replays!Shows(c)
<1>1. CASE c.hopping
  <2>1. /\ tick.news = TRUE
        /\ tick.clock = IF c.hopAt + 1 < HopFrames THEN [c EXCEPT !.hopAt = @ + 1] ELSE Replays!EndsAtEnd(Replays!LandHop(c))
    BY <1>1 DEF Replays!Tick
  <2>2. CASE c.hopAt + 1 < HopFrames
    BY <1>1, <2>1, <2>2, HopsOn
  <2>3. CASE ~(c.hopAt + 1 < HopFrames)
    BY <1>1, <2>1, <2>3, Lands
  <2> QED BY <2>2, <2>3
<1>2. CASE ~c.hopping /\ c.hold > 0
  <2>1. tick.clock = [c EXCEPT !.hold = @ - 1]
    BY <1>2 DEF Replays!Tick
  <2> QED BY <1>2, <2>1, Waits
<1>3. CASE ~c.hopping /\ ~(c.hold > 0)
  <2>1. PICK on \in UNION {Replays!Stops(c, to) : to \in Replays!Ahead(c, d)} :
          tick = [news |-> on.time # c.time \/ on.hopping, clock |-> Replays!EndsAtEnd(on)]
    BY <1>3 DEF Replays!Tick
  <2>2. PICK to \in Replays!Ahead(c, d) : on \in Replays!Stops(c, to)
    OBVIOUS
  <2>3. tick.clock = Replays!EndsAtEnd(on) /\ tick.news = (on.time # c.time \/ on.hopping)
    BY <2>1
  <2> QED BY <1>3, <2>2, <2>3, MovesOn
<1> QED BY <1>1, <1>2, <1>3

-----------------------------------------------------------------------------
(* The replay: trails, clock, controls and map.                             *)

\* In the order of the players is everybody once, and nobody without a trail.
InOrder(list, trs) ==
  /\ list \in Seq(Names)
  /\ \A i \in DOMAIN list : trs[list[i]] # Replays!NoTrail
  /\ \A i, j \in DOMAIN list : list[i] = list[j] => i = j

ControlsAre == [open : BOOLEAN, follow : BOOLEAN, wants : BOOLEAN, frames : BOOLEAN]

ControlsInv ==
  /\ controls \in ControlsAre /\ controls.frames = clock.playing
  /\ clock.playing => controls.open
  /\ map = IF controls.open THEN Replays!Shows(clock) ELSE Replays!Live

ReplayInv ==
  /\ replayTrail \in [Names -> TrailsOrNone] /\ replaySelected \in Names \cup {NoOne}
  /\ InOrder(order, replayTrail) /\ ClockInv(clock) /\ ControlsInv

LEMMA ControlFields ==
  ASSUME NEW k \in ControlsAre
  PROVE  /\ {k.open, k.follow, k.wants, k.frames} \subseteq BOOLEAN
         /\ \A b \in BOOLEAN :
              LET new == [k EXCEPT !.frames = b] IN
              new \in ControlsAre /\ new.frames = b /\ new.open = k.open
BY DEF ControlsAre

\* What leaves the trails alone and keeps clock and controls together.
TrailsStay == UNCHANGED <<replayTrail, order, replaySelected>>

LEMMA OpenKeeps == ASSUME ReplayInv, Replays!Open PROVE ReplayInv'
<1>1. /\ ~controls.open /\ clock' = Replays!SeekTo(Replays!Pause(clock), clock.tMax)
      /\ controls' = [controls EXCEPT !.open = TRUE, !.follow = controls.wants]
      /\ map' = Replays!Shows(clock') /\ UNCHANGED <<replayTrail, order, replaySelected>>
  BY DEF Replays!Open, Replays!Emit
<1>2. ClockInv(clock') /\ clock'.playing = FALSE
  <2>1. clock.tMax \in Nat
    BY ClockFields DEF ReplayInv
  <2> QED BY <1>1, <2>1, PauseKeeps, SeekToKeeps DEF ReplayInv
<1>3. controls' \in ControlsAre /\ controls'.frames = controls.frames /\ controls'.open = TRUE
  BY <1>1 DEF ReplayInv, ControlsInv, ControlsAre
<1>4. controls.frames = FALSE
  BY <1>1, ClockFields, ControlFields DEF ReplayInv, ControlsInv
<1> QED BY <1>1, <1>2, <1>3, <1>4 DEF ReplayInv, ControlsInv

LEMMA ClosedKeeps ==
  ASSUME ReplayInv, Replays!Closed
  PROVE  ClockInv(clock') /\ ControlsInv'
<1>1. /\ clock' = Replays!Pause(clock) /\ controls' = [controls EXCEPT !.open = FALSE, !.frames = FALSE]
      /\ map' = Replays!Live
  BY DEF Replays!Closed
<1>2. ClockInv(clock') /\ clock'.playing = FALSE
  BY <1>1, PauseKeeps DEF ReplayInv
<1>3. controls' \in ControlsAre /\ controls'.frames = FALSE /\ controls'.open = FALSE
  BY <1>1 DEF ReplayInv, ControlsInv, ControlsAre
<1> QED BY <1>1, <1>2, <1>3 DEF ControlsInv

LEMMA CloseKeeps == ASSUME ReplayInv, Replays!Close PROVE ReplayInv'
<1>1. Replays!Closed /\ UNCHANGED <<replayTrail, order, replaySelected>>
  BY DEF Replays!Close
<1> QED BY <1>1, ClosedKeeps DEF ReplayInv

LEMMA SeekKeeps ==
  ASSUME ReplayInv, NEW t, Replays!Seek(t) PROVE ReplayInv'
<1>1. /\ controls.open /\ t \in clock.tMin..clock.tMax /\ clock' = Replays!SeekTo(clock, t)
      /\ map' = Replays!Shows(clock') /\ UNCHANGED <<replayTrail, order, replaySelected, controls>>
  BY DEF Replays!Seek, Replays!Emit
<1>2. t \in Nat
  BY <1>1, ClockFields DEF ReplayInv
<1>3. ClockInv(clock') /\ clock'.playing = clock.playing
  BY <1>1, <1>2, SeekToKeeps DEF ReplayInv
<1> QED BY <1>1, <1>3 DEF ReplayInv, ControlsInv

LEMMA StartKeeps == ASSUME ReplayInv, Replays!StartPlaying PROVE ReplayInv'
<1>1. /\ controls.open /\ ~clock.playing /\ clock' = Replays!Play(clock) /\ controls' = [controls EXCEPT !.frames = TRUE]
      /\ map' = Replays!Shows(clock') /\ UNCHANGED <<replayTrail, order, replaySelected>>
  BY DEF Replays!StartPlaying, Replays!Emit
<1>2. ClockInv(clock') /\ clock'.playing = TRUE
  BY <1>1, PlayKeeps DEF ReplayInv
<1>3. controls' \in ControlsAre /\ controls'.frames = TRUE /\ controls'.open = controls.open
  BY <1>1, ControlFields DEF ReplayInv, ControlsInv
<1> QED BY <1>1, <1>2, <1>3 DEF ReplayInv, ControlsInv

LEMMA StopKeeps == ASSUME ReplayInv, Replays!StopPlaying PROVE ReplayInv'
<1>1. /\ controls.open /\ clock' = Replays!Pause(clock) /\ controls' = [controls EXCEPT !.frames = FALSE]
      /\ Replays!PausesTold /\ UNCHANGED <<replayTrail, order, replaySelected>>
  BY DEF Replays!StopPlaying
<1>2. ClockInv(clock') /\ clock'.playing = FALSE /\ (~clock.hopping => Replays!Shows(clock') = Replays!Shows(clock))
  BY <1>1, PauseKeeps DEF ReplayInv
<1>3. controls' \in ControlsAre /\ controls'.frames = FALSE /\ controls'.open = controls.open
  BY <1>1, ControlFields DEF ReplayInv, ControlsInv
<1>4. map' = Replays!Shows(clock')
  BY <1>1, <1>2 DEF ReplayInv, ControlsInv, Replays!PausesTold, Replays!Emit
<1> QED BY <1>1, <1>2, <1>3, <1>4 DEF ReplayInv, ControlsInv

\* What a frame does, to the clock and to the rest.
LEMMA FrameIs ==
  ASSUME ReplayInv, Replays!Frame
  PROVE  /\ ReplayInv' /\ TrailsInv
         /\ \E d \in ReplaySteps : GoesOn(clock, clock', d)
<1>0. PICK d \in ReplaySteps : \E tick \in Replays!Tick(clock, d) :
        /\ clock' = tick.clock /\ controls' = [controls EXCEPT !.frames = tick.clock.playing]
        /\ IF tick.news THEN map' = Replays!Shows(tick.clock) ELSE map' = map
  BY DEF Replays!Frame, Replays!Emit
<1>1. PICK tick \in Replays!Tick(clock, d) :
        /\ clock' = tick.clock /\ controls' = [controls EXCEPT !.frames = tick.clock.playing]
        /\ IF tick.news THEN map' = Replays!Shows(tick.clock) ELSE map' = map
  BY <1>0
<1>2. controls.frames /\ UNCHANGED <<replayTrail, order, replaySelected>>
  BY DEF Replays!Frame
<1>3. TrailsInv /\ ClockInv(clock) /\ clock.playing /\ controls.open
  BY <1>2 DEF ReplayInv, InOrder, TrailsInv, ControlsInv
<1>4. /\ ClockInv(tick.clock) /\ GoesOn(clock, tick.clock, d)
      /\ ~tick.news => Replays!Shows(tick.clock) = Replays!Shows(clock)
  BY <1>3, TickIs
<1>5. clock'.playing \in BOOLEAN
  BY <1>1, <1>4, ClockFields
<1>6. controls' \in ControlsAre /\ controls'.frames = clock'.playing /\ controls'.open = controls.open
  BY <1>1, <1>5, ControlFields DEF ReplayInv, ControlsInv
<1>7. map' = Replays!Shows(clock')
  BY <1>1, <1>3, <1>4 DEF ReplayInv, ControlsInv
<1>8. ReplayInv'
  BY <1>1, <1>2, <1>3, <1>4, <1>6, <1>7 DEF ReplayInv, ControlsInv
<1> QED BY <1>1, <1>3, <1>4, <1>8

LEMMA ReplayChoicesKeep ==
  ASSUME ReplayInv, Replays!SkipIdle \/ Replays!Follow \/ Replays!Dragged \/ (\E n \in Names \cup {NoOne} : Replays!Select(n))
  PROVE  ReplayInv'
<1>1. CASE Replays!SkipIdle
  <2>1. /\ clock' = [clock EXCEPT !.skipIdle = ~@] /\ UNCHANGED <<replayTrail, order, replaySelected, controls, map>>
    BY <1>1 DEF Replays!SkipIdle
  <2>2. ClockInv(clock') /\ clock'.playing = clock.playing /\ Replays!Shows(clock') = Replays!Shows(clock)
    BY <2>1, SkipKeeps DEF ReplayInv
  <2> QED BY <2>1, <2>2 DEF ReplayInv, ControlsInv
<1>2. CASE Replays!Follow
  <2>1. /\ controls' = [controls EXCEPT !.follow = ~@, !.wants = ~controls.follow]
        /\ IF controls'.follow /\ controls.open THEN map' = Replays!Shows(clock) ELSE map' = map
        /\ UNCHANGED <<replayTrail, order, replaySelected, clock>>
    BY <1>2 DEF Replays!Follow, Replays!Emit
  <2>2. controls' \in ControlsAre /\ controls'.frames = controls.frames /\ controls'.open = controls.open
    BY <2>1 DEF ReplayInv, ControlsInv, ControlsAre
  <2> QED BY <2>1, <2>2 DEF ReplayInv, ControlsInv
<1>3. CASE Replays!Dragged
  <2>1. controls' = [controls EXCEPT !.follow = FALSE] /\ UNCHANGED <<replayTrail, order, replaySelected, clock, map>>
    BY <1>3 DEF Replays!Dragged
  <2>2. controls' \in ControlsAre /\ controls'.frames = controls.frames /\ controls'.open = controls.open
    BY <2>1 DEF ReplayInv, ControlsInv, ControlsAre
  <2> QED BY <2>1, <2>2 DEF ReplayInv, ControlsInv
<1>4. CASE \E n \in Names \cup {NoOne} : Replays!Select(n)
  <2>1. replaySelected' \in Names \cup {NoOne} /\ UNCHANGED <<replayTrail, order, controls, clock, map>>
    BY <1>4 DEF Replays!Select
  <2> QED BY <2>1 DEF ReplayInv, ControlsInv
<1> QED BY <1>1, <1>2, <1>3, <1>4

\* A player's trail goes from the order with the player, and comes at its end.
LEMMA OrderWithout ==
  ASSUME NEW trs \in [Names -> TrailsOrNone], InOrder(order, trs), NEW i \in DOMAIN order, NEW tr \in TrailsOrNone
  PROVE  InOrder(Replays!RemoveAt(order, i), [trs EXCEPT ![order[i]] = tr])
<1>1. PICK n \in Nat : n = Len(order) /\ DOMAIN order = 1..n /\ order \in Seq(Names)
  BY LenProperties DEF InOrder
<1> DEFINE left == Replays!RemoveAt(order, i)
           new == [trs EXCEPT ![order[i]] = tr]
<1>2. IsWithout(left, order, Names, i, n)
  <2>1. i \in 1..n /\ n = Len(order) /\ order \in Seq(Names)
    BY <1>1
  <2> QED BY <2>1, RemovedAt
<1> HIDE DEF left
<1>3. left \in Seq(Names) /\ DOMAIN left = 1..n - 1 /\ \A k \in 1..n - 1 : left[k] = order[IF k < i THEN k ELSE k + 1]
  BY <1>1, <1>2, LenProperties DEF IsWithout
<1>4. \A k \in 1..n - 1 : LET m == IF k < i THEN k ELSE k + 1 IN m \in 1..n /\ m # i
  BY <1>1
<1>5. \A m \in 1..n : m # i => order[m] # order[i] /\ order[m] \in Names /\ trs[order[m]] # Replays!NoTrail
  BY <1>1 DEF InOrder
<1>6. \A n1 \in Names : n1 # order[i] => new[n1] = trs[n1]
  OBVIOUS
<1> HIDE DEF new
<1>7. \A k \in DOMAIN left : new[left[k]] # Replays!NoTrail
  <2> SUFFICES ASSUME NEW k \in 1..n - 1 PROVE new[left[k]] # Replays!NoTrail
    BY <1>3
  <2>1. PICK m \in 1..n : m # i /\ left[k] = order[m]
    BY <1>3, <1>4
  <2> QED BY <1>5, <1>6, <2>1
<1>8. \A k, l \in DOMAIN left : left[k] = left[l] => k = l
  <2> SUFFICES ASSUME NEW k \in 1..n - 1, NEW l \in 1..n - 1, left[k] = left[l] PROVE k = l
    BY <1>3
  <2>1. PICK x \in 1..n : x = IF k < i THEN k ELSE k + 1
    BY <1>4
  <2>2. PICK y \in 1..n : y = IF l < i THEN l ELSE l + 1
    BY <1>4
  <2>3. left[k] = order[x] /\ left[l] = order[y]
    BY <1>3, <2>1, <2>2
  <2>4. x \in DOMAIN order /\ y \in DOMAIN order /\ order[x] = order[y]
    BY <1>1, <2>3
  <2>5. x = y
    BY <2>4 DEF InOrder
  <2> QED BY <1>1, <2>1, <2>2, <2>5
<1>9. InOrder(left, new)
  BY <1>3, <1>7, <1>8 DEF InOrder
<1> QED BY <1>9 DEF left, new

LEMMA OrderWith ==
  ASSUME NEW trs \in [Names -> TrailsOrNone], InOrder(order, trs), NEW n \in Names, NEW tr \in TrailsOrNone,
         tr # Replays!NoTrail
  PROVE  InOrder(IF trs[n] = Replays!NoTrail THEN Append(order, n) ELSE order, [trs EXCEPT ![n] = tr])
<1>1. PICK k \in Nat : k = Len(order) /\ DOMAIN order = 1..k /\ order \in Seq(Names)
  BY LenProperties DEF InOrder
<1> DEFINE new == [trs EXCEPT ![n] = tr]
           more == Append(order, n)
<1>2. new[n] = tr /\ \A m \in Names : m # n => new[m] = trs[m]
  OBVIOUS
<1>3. \A i \in 1..k : order[i] \in Names /\ trs[order[i]] # Replays!NoTrail
  BY <1>1 DEF InOrder
<1>4. \A i, j \in 1..k : order[i] = order[j] => i = j
  BY <1>1 DEF InOrder
<1> HIDE DEF new
<1>5. CASE trs[n] = Replays!NoTrail
  <2>1. /\ more \in Seq(Names) /\ Len(more) = k + 1
        /\ \A i \in 1..k : more[i] = order[i]
        /\ more[k + 1] = n
    BY <1>1, AppendProperties
  <2>2. DOMAIN more = 1..k + 1
    BY <2>1, LenProperties
  <2> HIDE DEF more
  <2>3. \A i \in 1..k : order[i] # n
    BY <1>3, <1>5
  <2>4. \A i \in 1..k + 1 : i \in 1..k \/ i = k + 1
    OBVIOUS
  <2>5. InOrder(more, new)
    BY <1>2, <1>3, <1>4, <2>1, <2>2, <2>3, <2>4 DEF InOrder
  <2> QED BY <1>5, <2>5 DEF more, new
<1>6. CASE trs[n] # Replays!NoTrail
  <2>1. InOrder(order, new)
    BY <1>1, <1>2, <1>3, <1>4 DEF InOrder
  <2> QED BY <1>6, <2>1 DEF new
<1> QED BY <1>5, <1>6

LEMMA TrailChangeKeeps ==
  ASSUME ReplayInv, NEW n \in Names, NEW tr \in ReplayTrails \cup {Replays!NoTrail}, Replays!TrailChanges(n, tr)
  PROVE  ReplayInv'
<1>1. /\ replayTrail' = [replayTrail EXCEPT ![n] = tr] /\ replaySelected' = replaySelected
      /\ IF tr = Replays!NoTrail THEN \E i \in DOMAIN order : order[i] = n /\ order' = Replays!RemoveAt(order, i)
         ELSE order' = IF replayTrail[n] = Replays!NoTrail THEN Append(order, n) ELSE order
      /\ IF order' = <<>> THEN Replays!Closed
         ELSE /\ clock' = Replays!SetRange(clock, Replays!Span(replayTrail')) /\ Replays!ShowsNow /\ controls' = controls
  BY DEF Replays!TrailChanges
<1>2. replayTrail \in [Names -> TrailsOrNone] /\ tr \in TrailsOrNone /\ InOrder(order, replayTrail)
  BY DEF TrailsOrNone, ReplayInv
<1>3. replayTrail' \in [Names -> TrailsOrNone]
  BY <1>1, <1>2
<1>4. InOrder(order', replayTrail')
  <2>1. CASE tr = Replays!NoTrail
    <3>1. PICK i \in DOMAIN order : order[i] = n /\ order' = Replays!RemoveAt(order, i)
      BY <1>1, <2>1
    <3> QED BY <1>1, <1>2, <3>1, OrderWithout
  <2>2. CASE tr # Replays!NoTrail
    BY <1>1, <1>2, <2>2, OrderWith
  <2> QED BY <2>1, <2>2
<1>5. ClockInv(clock') /\ ControlsInv'
  <2>1. CASE order' = <<>>
    BY <1>1, <2>1, ClosedKeeps
  <2>2. CASE order' # <<>>
    <3>1. order'[1] \in Names /\ replayTrail'[order'[1]] # Replays!NoTrail
      <4>1. order' \in Seq(Names)
        BY <1>4 DEF InOrder
      <4>2. 1 \in DOMAIN order'
        BY <2>2, <4>1, EmptySeq, LenProperties
      <4> QED BY <1>4, <4>1, <4>2, LenProperties DEF InOrder
    <3> DEFINE span == Replays!Span(replayTrail')
    <3>2. span.tMin \in Nat /\ span.tMax \in Nat /\ span.tMin <= span.tMax
      BY <1>3, <3>1, SpanIs
    <3>3. clock' = Replays!SetRange(clock, span) /\ controls' = controls /\ Replays!ShowsNow
      BY <1>1, <2>2
    <3> HIDE DEF span
    <3>4. ClockInv(clock') /\ clock'.playing = clock.playing
          /\ (clock'.time = clock.time => Replays!Shows(clock') = Replays!Shows(clock))
      BY <3>2, <3>3, SetRangeKeeps DEF ReplayInv
    <3> QED BY <3>3, <3>4 DEF ReplayInv, ControlsInv, Replays!ShowsNow, Replays!Emit
  <2> QED BY <2>1, <2>2
<1> QED BY <1>1, <1>3, <1>4, <1>5 DEF ReplayInv

LEMMA ReplayStep == ReplayInv /\ Replays!Next => ReplayInv'
<1> SUFFICES ASSUME ReplayInv, Replays!Next PROVE ReplayInv'
  OBVIOUS
<1>1. CASE Replays!Frame
  BY <1>1, FrameIs
<1>2. CASE Replays!Viewer
  BY <1>2, OpenKeeps, CloseKeeps, StartKeeps, StopKeeps, ReplayChoicesKeep, SeekKeeps DEF Replays!Viewer
<1>3. CASE \E n \in Names, tr \in ReplayTrails \cup {Replays!NoTrail} : Replays!TrailChanges(n, tr)
  BY <1>3, TrailChangeKeeps
<1> QED BY <1>1, <1>2, <1>3 DEF Replays!Next

LEMMA ReplayBegins == Replays!Init => ReplayInv
<1> SUFFICES ASSUME Replays!Init PROVE ReplayInv
  OBVIOUS
<1> DEFINE on == {n \in Names : replayTrail[n] # Replays!NoTrail}
           span == Replays!Span(replayTrail)
<1>1. /\ replayTrail \in [Names -> TrailsOrNone] /\ replaySelected = NoOne /\ order \in Replays!SetToSeqs(on)
      /\ clock = [tMin |-> span.tMin, tMax |-> span.tMax, time |-> span.tMax, playing |-> FALSE,
                  skipIdle |-> TRUE, hold |-> 0, hopping |-> FALSE, hop |-> Replays!NoHop, hopAt |-> 0]
      /\ controls = [open |-> FALSE, follow |-> TRUE, wants |-> TRUE, frames |-> FALSE]
      /\ map = Replays!Live
  BY DEF Replays!Init, TrailsOrNone
<1>2. InOrder(order, replayTrail)
  <2>1. IsFiniteSet(on)
    BY FinitelyMany, FS_Subset
  <2>2. \A S : Replays!Cardinality(S) = Cardinality(S)
    BY Zenon DEF Replays!Cardinality, Cardinality
  <2>3. \A n \in on : n \in Names /\ replayTrail[n] # Replays!NoTrail
    OBVIOUS
  <2> HIDE DEF on
  <2>4. PICK k \in Nat : k = Cardinality(on)
    BY <2>1, FS_CardinalityType
  <2>5. order \in [1..k -> on] /\ \A i, j \in 1..k : i # j => order[i] # order[j]
    BY <1>1, <2>2, <2>4 DEF Replays!SetToSeqs
  <2>6. order \in [1..k -> Names]
    BY <2>3, <2>5
  <2>7. order \in Seq(Names) /\ DOMAIN order = 1..k
    BY <2>6
  <2> QED BY <2>3, <2>5, <2>7 DEF InOrder
<1>3. span.tMin \in Nat /\ span.tMax \in Nat /\ span.tMin <= span.tMax
  <2>1. PICK n \in Names : replayTrail[n] # Replays!NoTrail
    BY DEF Replays!Init
  <2> QED BY <1>1, <2>1, SpanIs
<1> HIDE DEF on, span
<1>4. ClockInv(clock) /\ clock.playing = FALSE
  BY <1>1, <1>3, HoldsAre, HopsAre, NoHopIs DEF ClockInv, Clocks
<1>5. controls \in ControlsAre /\ controls.open = FALSE /\ controls.frames = FALSE
  BY <1>1 DEF ControlsAre
<1> QED BY <1>1, <1>2, <1>4, <1>5 DEF ReplayInv, ControlsInv

\* What is inductive says what the run checks.
LEMMA ReplayInvHolds == ReplayInv => Replays!ReplayHolds
<1> SUFFICES ASSUME ReplayInv PROVE Replays!ReplayHolds
  OBVIOUS
<1>1. clock.time \in Int /\ clock.hold \in 0..HoldFrames /\ clock.hopAt \in 0..(HopFrames - 1)
  BY ClockFields DEF ReplayInv, HoldTimes, HopTimes
<1>2. clock.hopping <=> clock.hop # Replays!NoHop
  BY NoHopIs DEF ReplayInv, ClockInv
<1>3. clock.hold > 0 => ~clock.hopping /\ (clock.playing \/ Replays!AtEnd(clock))
  BY DEF ReplayInv, ClockInv, Replays!AtEnd
<1>4. /\ controls \in [open : BOOLEAN, follow : BOOLEAN, wants : BOOLEAN, frames : BOOLEAN]
      /\ controls.frames <=> clock.playing
      /\ clock.playing => controls.open
      /\ Replays!MapShowsClock
  BY DEF ReplayInv, ControlsInv, ControlsAre, Replays!MapShowsClock
<1>5. replayTrail \in [Names -> ReplayTrails \cup {Replays!NoTrail}] /\ replaySelected \in Names \cup {NoOne}
  BY DEF ReplayInv, TrailsOrNone
<1> QED BY <1>1, <1>2, <1>3, <1>4, <1>5 DEF Replays!ReplayHolds, Replays!TypeOK

LEMMA GoingOnIs == ReplayInv /\ [Replays!Next]_replayVars => Replays!PlayingGoesOn
<1> SUFFICES ASSUME ReplayInv, Replays!Frame PROVE Replays!PlayingGoesOn
  BY DEF Replays!PlayingGoesOn, Replays!StopsAtEveryHop, Replays!OnlyIdleIsSkipped, Replays!FramesGetOn
<1>1. PICK d \in ReplaySteps : GoesOn(clock, clock', d)
  BY FrameIs
<1>2. TrailsInv /\ ReplayInv'
  BY FrameIs
<1>3. Replays!StopsAtEveryHop
  BY <1>1 DEF GoesOn, WatchedHops, Replays!StopsAtEveryHop
<1>4. Replays!OnlyIdleIsSkipped
  <2> SUFFICES ASSUME ~clock.hopping, ~clock'.hopping, clock'.time > clock.time + Replays!Greatest(ReplaySteps)
               PROVE  Quiet(clock.time, clock'.time)
    BY DEF Replays!OnlyIdleIsSkipped, Quiet
  <2>1. clock.time \in Nat /\ clock'.time \in Nat
    BY <1>2, ClockFields DEF ReplayInv
  <2>2. Replays!Greatest(ReplaySteps) \in Nat /\ d <= Replays!Greatest(ReplaySteps) /\ d \in Nat
    BY LongestStep, ReplayTimes
  <2>3. clock'.time > clock.time + d
    BY <2>1, <2>2
  <2> QED BY <1>1, <2>3 DEF GoesOn
<1>5. Replays!FramesGetOn
  BY <1>1 DEF GoesOn, Replays!FramesGetOn
<1> QED BY <1>3, <1>4, <1>5 DEF Replays!PlayingGoesOn

\* Every step of the page is one of the replay's or leaves it alone.
LEMMA ReplayKept == (part = "replay" => ReplayInv) /\ [MCNext]_allVars => (part = "replay" => ReplayInv)'
<1> SUFFICES ASSUME part = "replay" => ReplayInv, [MCNext]_allVars, part' = "replay" PROVE ReplayInv'
  OBVIOUS
<1>1. CASE OfReplay
  BY <1>1, ReplayStep DEF OfReplay
<1>2. CASE UNCHANGED replayVars /\ part' = part
  BY <1>2 DEF replayVars, ReplayInv, ControlsInv
<1> QED BY <1>1, <1>2 DEF MCNext, OfView, OfMarkers, OfTrails, OfPlayers, OfBoards, OfLife, OfHistory, OfGear,
        OfToasts, OfSessions, allVars

LEMMA ReplayFirst == MCInit => (part = "replay" => ReplayInv)
BY ReplayBegins DEF MCInit

\* Whatever the viewer does and however trails come and go: an open replay's map shows what its
\* clock says, hops halfway included, and a closed one's is live; it plays only while it is open
\* (trail-scrubber.js emit, close, togglePlaying, setTimeline).
THEOREM MapFollowsClock == MCSpec => []ReplayIsWhole
<1> DEFINE IInv == part = "replay" => ReplayInv
<1>1. MCInit => IInv
  BY ReplayFirst
<1>2. IInv /\ [MCNext]_allVars => IInv'
  BY ReplayKept
<1>3. IInv => ReplayIsWhole
  BY ReplayInvHolds DEF ReplayIsWhole
<1> QED BY <1>1, <1>2, <1>3, PTL DEF MCSpec

\* For any trails in order: no frame passes a hop of the watched player, what a frame skips is
\* idle, and every frame of a replay that plays on gets it further (replay-clock.js tick).
THEOREM NoHopIsMissed == MCSpec => ReplayGoesOn
<1> DEFINE IInv == part = "replay" => ReplayInv
           Goes == part = "replay" => Replays!PlayingGoesOn
<1>1. MCInit => IInv
  BY ReplayFirst
<1>2. IInv /\ [MCNext]_allVars => IInv'
  BY ReplayKept
<1>3. IInv /\ [MCNext]_allVars => [Goes]_allVars
  <2> SUFFICES ASSUME IInv, MCNext, part = "replay" PROVE Replays!PlayingGoesOn
    OBVIOUS
  <2>1. OfReplay
    BY DEF MCNext, OfView, OfMarkers, OfTrails, OfPlayers, OfBoards, OfLife, OfHistory, OfGear, OfToasts, OfSessions
  <2> QED BY <2>1, GoingOnIs DEF OfReplay
<1>4. QED BY <1>1, <1>2, <1>3, PTL DEF MCSpec, ReplayGoesOn

-----------------------------------------------------------------------------
(* Sessions: the order the sweep asks in, and the connections.              *)

GivenRoles == SignedIn!Roles \ {"none"}
SessionRecords == [of : SessionUsers, role : GivenRoles]
SweepRecords == [at : {"rest", "asks", "told"}, todo : Seq(SessionUsers), told : SignedIn!Roles]

\* v has a session that is due, and that was verified before any of u's.
DueBefore(v, u) ==
  \E i \in 1..due : sessions[i].of = v /\ \A j \in DOMAIN sessions : sessions[j].of = u => i < j

\* v is asked about before u is.
AskedBefore(todo, v, u) == \A j \in DOMAIN todo : todo[j] = u => \E i \in 1..j - 1 : todo[i] = v

AllOnce(todo) == \A i, j \in DOMAIN todo : todo[i] = todo[j] => i = j

ListInv == sessions \in Seq(SessionRecords) /\ due \in 0..Len(sessions)

SweepInv ==
  /\ sweep \in SweepRecords /\ Len(sweep.todo) <= SweepMembers
  /\ sweep.at = "rest" <=> sweep.todo = <<>>
  /\ AllOnce(sweep.todo)

\* Whoever is due waits behind nobody the sweep was done with since.
TurnInv ==
  /\ since \in [SessionUsers -> SUBSET SessionUsers] /\ passed = FALSE
  /\ \A v, u \in SessionUsers : u \in since[v] => DueBefore(v, u) /\ AskedBefore(sweep.todo, v, u)

\* A request has a connection while it looks its session up and while it is handled.
RequestInv ==
  /\ stage \in [Requests -> SignedIn!Stages] /\ connections \in [Requests -> {0, 1}]
  /\ \A r \in Requests : connections[r] = IF stage[r] \in {"checks", "handles"} THEN 1 ELSE 0

RoleInv == roles \in [SessionUsers -> SignedIn!Roles] /\ logins \in [SessionUsers -> SignedIn!Roles]

SessionsInv == ListInv /\ SweepInv /\ TurnInv /\ RequestInv /\ RoleInv

LEMMA SessionNumbers ==
  /\ Connections \in Nat /\ Connections # 0 /\ SweepMembers \in Nat /\ SweepMembers > 0
BY SessionsCanBe DEF SignedIn!SessionConstants

LEMMA ManyUsersEnd == IsFiniteSet(SessionUsers)
<1>1. \A S : SignedIn!IsFiniteSet(S) = IsFiniteSet(S)
  BY Zenon DEF SignedIn!IsFiniteSet, IsFiniteSet
<1> QED BY <1>1, SessionsCanBe DEF SignedIn!SessionConstants

LEMMA SessionFields == \A s \in SessionRecords : s.of \in SessionUsers /\ s.role \in GivenRoles
BY DEF SessionRecords

-----------------------------------------------------------------------------
(* What is left of the sessions without those of somebody.                  *)

\* left is what the first i of the list leave, each at its place, those of the first d first.
Placed(e, list, u, left, i, d, m) ==
  /\ \A k \in 1..Len(left) : left[k] = list[e[k]] /\ list[e[k]].of # u
  /\ \A k, l \in 1..Len(left) : k < l => e[k] < e[l]
  /\ \A j \in 1..i : list[j].of # u => \E k \in 1..Len(left) : e[k] = j
  /\ i >= d => m <= Len(left) /\ \A k \in 1..Len(left) : k <= m <=> e[k] <= d

IsLeft(list, u, left, i, d, m) ==
  /\ left \in Seq(SessionRecords)
  /\ \E e \in [1..Len(left) -> 1..i] : Placed(e, list, u, left, i, d, m)

LEMMA OneMoreLeft ==
  ASSUME NEW list \in Seq(SessionRecords), NEW u, NEW i \in 1..Len(list), NEW d \in Nat, NEW m \in Nat,
         NEW left, IsLeft(list, u, left, i - 1, d, m),
         NEW more, more = IF list[i].of = u THEN left ELSE Append(left, list[i]),
         i = d => m = Len(more)
  PROVE  IsLeft(list, u, more, i, d, m)
<1>1. PICK e \in [1..Len(left) -> 1..i - 1] : Placed(e, list, u, left, i - 1, d, m)
  BY DEF IsLeft
<1>2. PICK n \in Nat : n = Len(left) /\ left \in Seq(SessionRecords)
  BY LenProperties DEF IsLeft
<1>3. /\ \A k \in 1..n : e[k] \in 1..i - 1 /\ left[k] = list[e[k]] /\ list[e[k]].of # u
      /\ \A k, l \in 1..n : k < l => e[k] < e[l]
      /\ \A j \in 1..i - 1 : list[j].of # u => \E k \in 1..n : e[k] = j
      /\ i - 1 >= d => m <= n /\ \A k \in 1..n : k <= m <=> e[k] <= d
  BY <1>1, <1>2 DEF Placed
<1>4. i \in Nat /\ list[i] \in SessionRecords
  BY LenProperties
<1>5. CASE list[i].of = u
  <2>1. more = left /\ (i = d => m = n)
    BY <1>2, <1>5
  <2>2. e \in [1..n -> 1..i]
    BY <1>1, <1>2, <1>4
  <2>3. \A j \in 1..i : list[j].of # u => j \in 1..i - 1
    BY <1>4, <1>5
  <2>4. i >= d => m <= n /\ \A k \in 1..n : k <= m <=> e[k] <= d
    BY <1>2, <1>3, <1>4, <2>1
  <2>5. Placed(e, list, u, left, i, d, m)
    BY <1>2, <1>3, <2>3, <2>4 DEF Placed
  <2> QED BY <1>2, <2>1, <2>2, <2>5 DEF IsLeft
<1>6. CASE list[i].of # u
  <2> DEFINE f == [k \in 1..n + 1 |-> IF k = n + 1 THEN i ELSE e[k]]
  <2>1. /\ more = Append(left, list[i]) /\ more \in Seq(SessionRecords) /\ Len(more) = n + 1
        /\ \A k \in 1..n : more[k] = left[k]
        /\ more[n + 1] = list[i]
    BY <1>2, <1>4, <1>6, AppendProperties
  <2>2. f \in [1..n + 1 -> 1..i] /\ f[n + 1] = i /\ \A k \in 1..n : f[k] = e[k]
    BY <1>2, <1>3, <1>4
  <2> HIDE DEF f
  <2>3. \A k \in 1..n + 1 : k \in 1..n \/ k = n + 1
    BY <1>2
  <2>4. \A k \in 1..n + 1 : more[k] = list[f[k]] /\ list[f[k]].of # u
    BY <1>3, <1>6, <2>1, <2>2, <2>3
  <2>5. \A k, l \in 1..n + 1 : k < l => f[k] < f[l]
    <3> SUFFICES ASSUME NEW k \in 1..n + 1, NEW l \in 1..n + 1, k < l PROVE f[k] < f[l]
      OBVIOUS
    <3>1. k \in 1..n
      BY <1>2
    <3>2. CASE l = n + 1
      <4>1. f[k] \in 1..i - 1 /\ f[l] = i
        BY <1>3, <2>2, <3>1, <3>2
      <4> QED BY <1>4, <4>1
    <3>3. CASE l \in 1..n
      BY <1>3, <2>2, <3>1, <3>3
    <3> QED BY <2>3, <3>2, <3>3
  <2>6. ASSUME NEW j \in 1..i, list[j].of # u PROVE \E k \in 1..n + 1 : f[k] = j
    <3>1. CASE j = i
      <4>1. n + 1 \in 1..n + 1
        BY <1>2
      <4> QED BY <2>2, <3>1, <4>1
    <3>2. CASE j # i
      <4>1. j \in 1..i - 1
        BY <1>4, <3>2
      <4>2. PICK k \in 1..n : e[k] = j
        BY <1>3, <2>6, <4>1
      <4>3. k \in 1..n + 1
        BY <1>2
      <4> QED BY <2>2, <4>2, <4>3
    <3> QED BY <3>1, <3>2
  <2>7. i >= d => m <= n + 1 /\ \A k \in 1..n + 1 : k <= m <=> f[k] <= d
    <3>1. CASE i = d
      <4>1. m = n + 1
        BY <2>1, <3>1
      <4>2. \A k \in 1..n + 1 : f[k] <= d
        BY <1>4, <2>2, <3>1
      <4> QED BY <1>2, <4>1, <4>2
    <3>2. CASE i > d
      <4>1. m <= n /\ \A k \in 1..n : k <= m <=> e[k] <= d
        BY <1>3, <1>4, <3>2
      <4>2. \A k \in 1..n : k <= m <=> f[k] <= d
        BY <2>2, <4>1
      <4>3. ~(n + 1 <= m) /\ ~(f[n + 1] <= d)
        BY <1>2, <1>4, <2>2, <3>2, <4>1
      <4> QED BY <1>2, <2>3, <4>1, <4>2, <4>3
    <3> QED BY <1>4, <3>1, <3>2
  <2>8. Placed(f, list, u, more, i, d, m)
    BY <2>1, <2>4, <2>5, <2>6, <2>7 DEF Placed
  <2> QED BY <2>1, <2>2, <2>8 DEF IsLeft
<1> QED BY <1>5, <1>6

OneLeft(list, u, left, i) == IF list[i].of = u THEN left ELSE Append(left, list[i])

\* What the first of the list leave, one more at a time.
Leaves(f, list, u, n) ==
  /\ f \in [0..n -> Seq(SessionRecords)] /\ f[0] = <<>>
  /\ \A i \in 1..n : f[i] = OneLeft(list, u, f[i - 1], i)

LEMMA LeavesExist ==
  ASSUME NEW list \in Seq(SessionRecords), NEW u, NEW n \in Nat, n = Len(list)
  PROVE  \E f : Leaves(f, list, u, n)
<1> DEFINE P == {k \in 0..n : \E f : Leaves(f, list, u, k)}
<1>1. 0 \in P
  <2>1. Leaves([i \in 0..0 |-> <<>>], list, u, 0)
    BY EmptySeq DEF Leaves
  <2> QED BY <2>1
<1>2. ASSUME NEW k \in 1..n, k - 1 \in P PROVE k \in P
  <2>1. PICK f : Leaves(f, list, u, k - 1)
    BY <1>2
  <2> DEFINE g == [i \in 0..k |-> IF i = k THEN OneLeft(list, u, f[k - 1], k) ELSE f[i]]
  <2>2. f[k - 1] \in Seq(SessionRecords)
    BY <2>1 DEF Leaves
  <2>3. OneLeft(list, u, f[k - 1], k) \in Seq(SessionRecords)
    <3>1. list[k] \in SessionRecords
      BY LenProperties
    <3> QED BY <2>2, <3>1, AppendProperties DEF OneLeft
  <2>4. g \in [0..k -> Seq(SessionRecords)]
    BY <2>1, <2>3 DEF Leaves
  <2>5. g[0] = <<>>
    BY <2>1 DEF Leaves
  <2>6. ASSUME NEW i \in 1..k PROVE g[i] = OneLeft(list, u, g[i - 1], i)
    <3>1. i - 1 \in 0..k - 1 /\ g[i - 1] = f[i - 1]
      OBVIOUS
    <3>2. CASE i = k
      BY <3>1, <3>2
    <3>3. CASE i # k
      <4>1. i \in 1..k - 1 /\ g[i] = f[i]
        BY <3>3
      <4> QED BY <2>1, <3>1, <4>1 DEF Leaves
    <3> QED BY <3>2, <3>3
  <2> HIDE DEF g
  <2>7. Leaves(g, list, u, k)
    BY <2>4, <2>5, <2>6 DEF Leaves
  <2> QED BY <2>7
<1> HIDE DEF P
<1>3. n \in P
  BY <1>1, <1>2, UpTo
<1> QED BY <1>3 DEF P

LEMMA LeftOfLeaves ==
  ASSUME NEW list \in Seq(SessionRecords), NEW u, NEW n \in Nat, n = Len(list)
  PROVE  Leaves(SignedIn!LeftOf(list, u), list, u, n)
<1> DEFINE Is(f) == f = [i \in 0..Len(list) |-> IF i = 0 THEN <<>>
                                        ELSE IF list[i].of = u THEN f[i - 1] ELSE Append(f[i - 1], list[i])]
           F == CHOOSE f : Is(f)
<1>1. SignedIn!LeftOf(list, u) = F
  BY DEF SignedIn!LeftOf
<1>2. PICK g : Leaves(g, list, u, n)
  BY LeavesExist
<1>3. \A i \in 0..n : g[i] = IF i = 0 THEN <<>> ELSE IF list[i].of = u THEN g[i - 1] ELSE Append(g[i - 1], list[i])
  <2>1. g[0] = <<>> /\ \A i \in 1..n : g[i] = IF list[i].of = u THEN g[i - 1] ELSE Append(g[i - 1], list[i])
    BY <1>2 DEF Leaves, OneLeft
  <2>2. \A i \in 0..n : i = 0 \/ (i # 0 /\ i \in 1..n)
    OBVIOUS
  <2> QED BY <2>1, <2>2
<1>4. Is(g)
  BY <1>2, <1>3 DEF Leaves
<1> HIDE DEF Is
<1>5. Is(F)
  BY <1>4
<1> HIDE DEF F
<1>6. F = [i \in 0..n |-> IF i = 0 THEN <<>> ELSE OneLeft(list, u, F[i - 1], i)]
  <2>1. F = [i \in 0..Len(list) |-> IF i = 0 THEN <<>>
                                    ELSE IF list[i].of = u THEN F[i - 1] ELSE Append(F[i - 1], list[i])]
    BY <1>5 DEF Is
  <2>2. Len(list) = n
    OBVIOUS
  <2> QED BY <2>1, <2>2 DEF OneLeft
<1>7. F[0] = <<>> /\ \A i \in 1..n : F[i] = OneLeft(list, u, F[i - 1], i)
  BY <1>6
<1> DEFINE P == {k \in 0..n : F[k] \in Seq(SessionRecords)}
<1>8. 0 \in P
  <2>1. <<>> \in Seq(SessionRecords)
    BY EmptySeq
  <2>2. F[0] \in Seq(SessionRecords) /\ 0 \in 0..n
    BY <1>7, <2>1
  <2> QED BY <2>2
<1>9. ASSUME NEW k \in 1..n, k - 1 \in P PROVE k \in P
  <2>1. list[k] \in SessionRecords /\ F[k - 1] \in Seq(SessionRecords)
    BY <1>9, LenProperties
  <2>2. F[k] \in Seq(SessionRecords)
    BY <1>7, <2>1, AppendProperties DEF OneLeft
  <2> QED BY <2>2
<1>10. ASSUME NEW k \in 0..n PROVE F[k] \in Seq(SessionRecords)
  <2>1. \A j \in 1..k : j \in 1..n
    OBVIOUS
  <2> HIDE DEF P
  <2>2. k \in P
    BY <1>8, <1>9, <2>1, UpTo
  <2> QED BY <2>2 DEF P
<1>11. F \in [0..n -> Seq(SessionRecords)]
  BY <1>6, <1>10
<1> QED BY <1>1, <1>7, <1>11 DEF Leaves

LEMMA NotOfIs ==
  ASSUME NEW list \in Seq(SessionRecords), NEW u, NEW d \in 0..Len(list)
  PROVE  IsLeft(list, u, SignedIn!NotOf(list, u), Len(list), d, Len(SignedIn!LeftOf(list, u)[d]))
<1>1. PICK n \in Nat : n = Len(list)
  BY LenProperties
<1> DEFINE F == SignedIn!LeftOf(list, u)
<1>2. Leaves(F, list, u, n)
  BY <1>1, LeftOfLeaves
<1> HIDE DEF F
<1>3. PICK m \in Nat : m = Len(F[d])
  BY <1>1, <1>2, LenProperties DEF Leaves
<1> DEFINE P == {i \in 0..n : IsLeft(list, u, F[i], i, d, m)}
<1>4. 0 \in P
  <2>1. F[0] = <<>> /\ F[0] \in Seq(SessionRecords) /\ Len(F[0]) = 0
    BY <1>2, EmptySeq, LenProperties DEF Leaves
  <2>2. \A e \in [1..0 -> 1..0] : Placed(e, list, u, F[0], 0, d, m)
    <3>1. 0 >= d => m <= 0
      <4> SUFFICES ASSUME 0 >= d PROVE m <= 0
        OBVIOUS
      <4>1. d = 0
        BY <1>1
      <4> QED BY <1>3, <2>1, <4>1
    <3> QED BY <2>1, <3>1 DEF Placed
  <2>3. \E e : e \in [1..0 -> 1..0]
    <3>1. [k \in 1..0 |-> k] \in [1..0 -> 1..0]
      OBVIOUS
    <3> QED BY <3>1
  <2>4. IsLeft(list, u, F[0], 0, d, m)
    BY <2>1, <2>2, <2>3 DEF IsLeft
  <2> QED BY <2>4
<1>5. ASSUME NEW i \in 1..n, i - 1 \in P PROVE i \in P
  <2>1. IsLeft(list, u, F[i - 1], i - 1, d, m) /\ i \in 1..Len(list)
    BY <1>1, <1>5
  <2>2. F[i] = IF list[i].of = u THEN F[i - 1] ELSE Append(F[i - 1], list[i])
    BY <1>2 DEF Leaves, OneLeft
  <2>3. i = d => m = Len(F[i])
    BY <1>3
  <2>4. d \in Nat
    BY <1>1
  <2>5. IsLeft(list, u, F[i], i, d, m)
    BY <2>1, <2>2, <2>3, <2>4, OneMoreLeft
  <2> QED BY <2>5
<1> HIDE DEF P
<1>6. n \in P
  BY <1>4, <1>5, UpTo
<1> QED BY <1>1, <1>3, <1>6 DEF P, F, SignedIn!NotOf

-----------------------------------------------------------------------------
(* The sweep asks in turn.                                                  *)

\* Whose sessions stay due, if the step is not done with them and ends none.
Waiting(done, ended) ==
  (SignedIn!DueUsers(sessions, due) \cap SignedIn!DueUsers(sessions', due')) \ (done \cup ended)

\* A step keeps everybody's turn if it does for whoever stays due, and whom it
\* is done with comes after them.
LEMMA TurnKept ==
  ASSUME ListInv, TurnInv, NEW done \in SUBSET SessionUsers, NEW ended, SignedIn!Counts(done, ended),
         \A v, u \in SessionUsers : v \in Waiting(done, ended) /\ (u \in since[v] \/ u \in done) =>
           DueBefore(v, u)' /\ AskedBefore(sweep.todo', v, u),
         \A v, u \in SessionUsers : v \in Waiting(done, ended) /\ u \in since[v] => u \notin done
  PROVE  TurnInv'
<1> DEFINE W == Waiting(done, ended)
<1>1. /\ since' = [v \in SessionUsers |-> IF v \in W THEN since[v] \cup done ELSE {}]
      /\ passed' = (passed \/ \E v \in W : done \cap since[v] # {})
  BY DEF SignedIn!Counts, Waiting
<1>2. W \subseteq SessionUsers
  <2>1. SignedIn!DueUsers(sessions, due) \subseteq SessionUsers
    BY LenProperties, SessionFields DEF ListInv, SignedIn!DueUsers
  <2> QED BY <2>1 DEF Waiting
<1> HIDE DEF W
<1>3. since \in [SessionUsers -> SUBSET SessionUsers] /\ passed = FALSE
  BY DEF TurnInv
<1>4. \A v \in W, u \in SessionUsers : u \in since[v] => u \notin done
  BY <1>2 DEF W
<1>5. passed' = FALSE
  <2>1. \A v \in W : done \cap since[v] = {}
    BY <1>2, <1>3, <1>4
  <2> QED BY <1>1, <1>3, <2>1
<1>6. since' \in [SessionUsers -> SUBSET SessionUsers]
  BY <1>1, <1>3
<1>7. ASSUME NEW v \in SessionUsers, NEW u \in SessionUsers, u \in since'[v]
      PROVE  DueBefore(v, u)' /\ AskedBefore(sweep.todo', v, u)
  <2>1. v \in W /\ (u \in since[v] \/ u \in done)
    BY <1>1, <1>7
  <2> QED BY <2>1 DEF W
<1> QED BY <1>5, <1>6, <1>7 DEF TurnInv

\* Steps of others that leave the sessions alone.
LEMMA SameSessions ==
  ASSUME ListInv, SweepInv, TurnInv, UNCHANGED <<sessions, due>>, SignedIn!Counts({}, {}),
         SweepInv', sweep.todo' \in {sweep.todo, <<>>}
  PROVE  ListInv' /\ TurnInv'
<1>1. ListInv'
  BY DEF ListInv
<1>2. ASSUME NEW v \in SessionUsers, NEW u \in SessionUsers, u \in since[v]
      PROVE DueBefore(v, u)' /\ AskedBefore(sweep.todo', v, u)
  <2>1. DueBefore(v, u) /\ AskedBefore(sweep.todo, v, u)
    BY <1>2 DEF TurnInv
  <2>2. DueBefore(v, u)'
    BY <2>1 DEF DueBefore
  <2>3. AskedBefore(sweep.todo', v, u)
    BY <2>1, EmptySeq DEF AskedBefore
  <2> QED BY <2>2, <2>3
<1>3. TurnInv'
  BY <1>2, TurnKept
<1> QED BY <1>1, <1>3

\* A sign-in that starts a session: one verified after all of them.
LEMMA SessionStarts ==
  ASSUME ListInv, SweepInv, TurnInv, NEW s \in SessionRecords, sessions' = Append(sessions, s),
         UNCHANGED <<due, sweep>>, SignedIn!Counts({}, {})
  PROVE  ListInv' /\ TurnInv'
<1>1. PICK n \in Nat : n = Len(sessions)
  BY LenProperties DEF ListInv
<1>2. /\ sessions \in Seq(SessionRecords) /\ due \in 0..n /\ DOMAIN sessions = 1..n
      /\ sessions' \in Seq(SessionRecords) /\ Len(sessions') = n + 1 /\ DOMAIN sessions' = 1..n + 1
      /\ \A j \in 1..n : sessions'[j] = sessions[j]
  BY <1>1, AppendProperties, LenProperties DEF ListInv
<1>3. ListInv'
  BY <1>1, <1>2 DEF ListInv
<1>4. ASSUME NEW v \in SessionUsers, NEW u \in SessionUsers, u \in since[v]
      PROVE DueBefore(v, u)' /\ AskedBefore(sweep.todo', v, u)
  <2>1. DueBefore(v, u) /\ AskedBefore(sweep.todo, v, u)
    BY <1>4 DEF TurnInv
  <2>2. PICK i \in 1..due : sessions[i].of = v /\ \A j \in 1..n : sessions[j].of = u => i < j
    BY <1>2, <2>1 DEF DueBefore
  <2>3. i \in 1..due' /\ sessions'[i].of = v
    BY <1>2, <2>2
  <2>4. \A j \in 1..n + 1 : sessions'[j].of = u => i < j
    BY <1>2, <2>2
  <2>5. DueBefore(v, u)'
    BY <1>2, <2>3, <2>4 DEF DueBefore
  <2> QED BY <2>1, <2>5
<1>5. TurnInv'
  BY <1>4, TurnKept
<1> QED BY <1>3, <1>5

\* One more session is due.
LEMMA OneMoreDue ==
  ASSUME ListInv, SweepInv, TurnInv, due < Len(sessions), due' = due + 1, UNCHANGED <<sessions, sweep>>,
         SignedIn!Counts({}, {})
  PROVE  ListInv' /\ TurnInv'
<1>1. PICK n \in Nat : n = Len(sessions)
  BY LenProperties DEF ListInv
<1>2. ListInv'
  BY <1>1 DEF ListInv
<1>3. ASSUME NEW v \in SessionUsers, NEW u \in SessionUsers, u \in since[v]
      PROVE DueBefore(v, u)' /\ AskedBefore(sweep.todo', v, u)
  <2>1. DueBefore(v, u) /\ AskedBefore(sweep.todo, v, u)
    BY <1>3 DEF TurnInv
  <2>2. 1..due \subseteq 1..due'
    BY <1>1 DEF ListInv
  <2>3. DueBefore(v, u)'
    BY <2>1, <2>2 DEF DueBefore
  <2> QED BY <2>1, <2>3
<1>4. TurnInv'
  BY <1>3, TurnKept
<1> QED BY <1>2, <1>4

\* A session ends, and those after it move up.
LEMMA SessionIsOver ==
  ASSUME ListInv, SweepInv, TurnInv, NEW i \in DOMAIN sessions, UNCHANGED sweep,
         sessions' = SignedIn!RemoveAt(sessions, i), due' = IF i <= due THEN due - 1 ELSE due,
         SignedIn!Counts({}, {sessions[i].of})
  PROVE  ListInv' /\ TurnInv'
<1>1. PICK n \in Nat : n = Len(sessions)
  BY LenProperties DEF ListInv
<1>2. sessions \in Seq(SessionRecords) /\ due \in 0..n /\ DOMAIN sessions = 1..n /\ i \in 1..n
  BY <1>1, LenProperties DEF ListInv
<1>3. IsWithout(sessions', sessions, SessionRecords, i, n)
  <2>1. SignedIn!RemoveAt(sessions, i) = Replays!RemoveAt(sessions, i)
    BY DEF SignedIn!RemoveAt, Replays!RemoveAt
  <2> QED BY <1>1, <1>2, <2>1, RemovedAt
<1>4. /\ sessions' \in Seq(SessionRecords) /\ Len(sessions') = n - 1 /\ DOMAIN sessions' = 1..n - 1
      /\ \A k \in 1..n - 1 : sessions'[k] = sessions[IF k < i THEN k ELSE k + 1]
  BY <1>3, LenProperties DEF IsWithout
<1>5. due' \in 0..n - 1
  BY <1>2
<1>6. ListInv'
  BY <1>4, <1>5 DEF ListInv
<1>7. ASSUME NEW v \in SessionUsers, NEW u \in SessionUsers, u \in since[v], v # sessions[i].of
      PROVE DueBefore(v, u)' /\ AskedBefore(sweep.todo', v, u)
  <2>1. DueBefore(v, u) /\ AskedBefore(sweep.todo, v, u)
    BY <1>7 DEF TurnInv
  <2>2. PICK p \in 1..due : sessions[p].of = v /\ \A j \in 1..n : sessions[j].of = u => p < j
    BY <1>2, <2>1 DEF DueBefore
  <2>3. PICK q : q = IF p < i THEN p ELSE p - 1
    OBVIOUS
  <2>4. p # i
    BY <1>7, <2>2
  <2>5. q \in 1..due' /\ q \in 1..n - 1 /\ (IF q < i THEN q ELSE q + 1) = p
    BY <1>2, <2>3, <2>4
  <2>6. sessions'[q].of = v
    BY <1>4, <2>2, <2>5
  <2>7. ASSUME NEW j \in 1..n - 1, sessions'[j].of = u PROVE q < j
    <3>1. PICK k \in 1..n : k = IF j < i THEN j ELSE j + 1
      BY <1>2
    <3>2. p < k
      BY <1>4, <2>2, <2>7, <3>1
    <3> QED BY <1>2, <2>3, <2>4, <3>1, <3>2
  <2>8. DueBefore(v, u)'
    BY <1>4, <2>5, <2>6, <2>7 DEF DueBefore
  <2> QED BY <2>1, <2>8
<1>8. TurnInv'
  <2>1. \A v \in Waiting({}, {sessions[i].of}) : v # sessions[i].of
    BY DEF Waiting
  <2> QED BY <1>7, <2>1, TurnKept
<1> QED BY <1>6, <1>8

\* A sweep starts with those due, in the order of their first sessions.
LEMMA SweepAsksInTurn ==
  ASSUME ListInv, SweepInv, TurnInv, SignedIn!SweepStarts, SignedIn!Counts({}, {})
  PROVE  ListInv' /\ SweepInv' /\ TurnInv'
<1>1. PICK n \in Nat : n = Len(sessions)
  BY LenProperties DEF ListInv
<1>2. /\ sessions \in Seq(SessionRecords) /\ due \in 0..n /\ DOMAIN sessions = 1..n
      /\ \A j \in 1..n : sessions[j].of \in SessionUsers
  BY <1>1, LenProperties, SessionFields DEF ListInv
<1> DEFINE dueUsers == SignedIn!DueUsers(sessions, due)
<1>3. PICK todo \in SignedIn!ToVerify : sweep' = [at |-> "asks", todo |-> todo, told |-> "none"]
  BY DEF SignedIn!SweepStarts
<1>4. UNCHANGED <<sessions, due>>
  BY DEF SignedIn!SweepStarts, SignedIn!sessionVars
<1>5. PICK k \in 1..SweepMembers : todo \in [1..k -> dueUsers]
  BY DEF SignedIn!ToVerify, SignedIn!TupleOf
<1>6. /\ \A i, j \in DOMAIN todo : i < j => SignedIn!Before(todo[i], todo[j])
      /\ \A v \in dueUsers \ SignedIn!ToSet(todo) : \A i \in DOMAIN todo : SignedIn!Before(todo[i], v)
  BY DEF SignedIn!ToVerify
<1>7. dueUsers \subseteq SessionUsers
  BY <1>2 DEF SignedIn!DueUsers
<1> HIDE DEF dueUsers
<1>8. k \in Nat /\ k <= SweepMembers /\ k >= 1
  BY SessionNumbers
<1>9. todo \in Seq(SessionUsers) /\ Len(todo) = k /\ DOMAIN todo = 1..k
  BY <1>5, <1>7, <1>8
<1>10. \A u, v : SignedIn!Before(u, v) <=>
         \E i \in 1..n : sessions[i].of = u /\ \A j \in 1..n : sessions[j].of = v => i < j
  BY <1>2 DEF SignedIn!Before
<1>11. \A u : ~SignedIn!Before(u, u)
  <2> SUFFICES ASSUME NEW u, SignedIn!Before(u, u) PROVE FALSE
    OBVIOUS
  <2>1. PICK i \in 1..n : i < i
    BY <1>10
  <2> QED BY <2>1
<1>12. AllOnce(todo)
  <2> SUFFICES ASSUME NEW i \in 1..k, NEW j \in 1..k, todo[i] = todo[j], i # j PROVE FALSE
    BY <1>9 DEF AllOnce
  <2>1. i < j \/ j < i
    OBVIOUS
  <2> QED BY <1>6, <1>9, <1>11, <2>1
<1>13. SweepInv'
  <2>1. sweep'.at = "asks" /\ sweep'.todo = todo /\ sweep' \in SweepRecords
    <3>1. "none" \in SignedIn!Roles
      BY DEF SignedIn!Roles
    <3> QED BY <1>3, <1>9, <3>1 DEF SweepRecords
  <2>2. todo # <<>>
    BY <1>8, <1>9
  <2>3. Len(sweep'.todo) <= SweepMembers /\ AllOnce(sweep'.todo)
    BY <1>8, <1>9, <1>12, <2>1
  <2>4. sweep'.at = "rest" <=> sweep'.todo = <<>>
    BY <2>1, <2>2
  <2> QED BY <2>1, <2>3, <2>4 DEF SweepInv
<1>14. ASSUME NEW v \in dueUsers, NEW u \in SessionUsers, DueBefore(v, u) PROVE AskedBefore(todo, v, u)
  <2>1. PICK p \in 1..n : sessions[p].of = v /\ \A j \in 1..n : sessions[j].of = u => p < j
    BY <1>2, <1>14 DEF DueBefore
  <2>2. ~SignedIn!Before(u, v)
    <3> SUFFICES ASSUME SignedIn!Before(u, v) PROVE FALSE
      OBVIOUS
    <3>1. PICK q \in 1..n : sessions[q].of = u /\ \A j \in 1..n : sessions[j].of = v => q < j
      BY <1>10
    <3>2. p < q /\ q < p
      BY <2>1, <3>1
    <3> QED BY <3>2
  <2>3. v # u
    BY <2>1
  <2> SUFFICES ASSUME NEW j \in 1..k, todo[j] = u PROVE \E i \in 1..j - 1 : todo[i] = v
    BY <1>9 DEF AskedBefore
  <2>4. v \in SignedIn!ToSet(todo)
    BY <1>6, <1>9, <2>2
  <2>5. PICK i \in 1..k : todo[i] = v
    BY <1>9, <2>4 DEF SignedIn!ToSet
  <2>6. ~(j < i)
    BY <1>6, <1>9, <2>2, <2>5
  <2>7. i \in 1..j - 1
    BY <2>3, <2>5, <2>6
  <2> QED BY <2>5, <2>7
<1>15. ASSUME NEW v \in SessionUsers, NEW u \in SessionUsers, v \in Waiting({}, {}), u \in since[v]
      PROVE DueBefore(v, u)' /\ AskedBefore(sweep.todo', v, u)
  <2>1. DueBefore(v, u)
    BY <1>15 DEF TurnInv
  <2>2. DueBefore(v, u)'
    BY <1>4, <2>1 DEF DueBefore
  <2>3. v \in dueUsers
    BY <1>15 DEF Waiting, dueUsers
  <2> QED BY <1>3, <1>14, <2>1, <2>2, <2>3
<1>16. TurnInv'
  BY <1>15, TurnKept
<1>17. ListInv'
  BY <1>4 DEF ListInv
<1> QED BY <1>13, <1>16, <1>17

\* An answer is noted: those it is about go to the end, or are gone.
LEMMA AnswerIsNoted ==
  ASSUME ListInv, SweepInv, TurnInv, SignedIn!NotesAnswer, SignedIn!Counts({Head(sweep.todo)}, {})
  PROVE  ListInv' /\ SweepInv' /\ TurnInv'
<1>1. PICK u \in SessionUsers : u = Head(sweep.todo)
  <2>1. sweep.at = "told"
    BY DEF SignedIn!NotesAnswer
  <2>2. sweep.todo \in Seq(SessionUsers) /\ sweep.todo # <<>>
    BY <2>1 DEF SweepInv, SweepRecords
  <2> QED BY <2>2, HeadTailProperties
<1> DEFINE left == SignedIn!NotOf(sessions, u)
           m == Len(SignedIn!LeftOf(sessions, u)[due])
           refreshed == [i \in 1..Len(sessions) - Len(left) |-> [of |-> u, role |-> sweep.told]]
<1>2. /\ sweep.at = "told"
      /\ sessions' = IF sweep.told = "none" THEN left ELSE left \o refreshed
      /\ due' = m
      /\ sweep' = IF Len(sweep.todo) = 1 THEN SignedIn!Rest
                  ELSE [at |-> "asks", todo |-> Tail(sweep.todo), told |-> "none"]
  BY <1>1 DEF SignedIn!NotesAnswer
<1>3. PICK n \in Nat : n = Len(sessions)
  BY LenProperties DEF ListInv
<1>4. sessions \in Seq(SessionRecords) /\ due \in 0..n /\ DOMAIN sessions = 1..n
  BY <1>3, LenProperties DEF ListInv
<1>5. sweep \in SweepRecords /\ sweep.todo \in Seq(SessionUsers) /\ sweep.todo # <<>> /\ AllOnce(sweep.todo)
      /\ sweep.told \in SignedIn!Roles
  BY <1>2 DEF SweepInv, SweepRecords
<1>6. PICK k \in Nat : k = Len(sweep.todo) /\ k >= 1 /\ DOMAIN sweep.todo = 1..k /\ k <= SweepMembers
  BY <1>5, LenProperties, EmptySeq DEF SweepInv
<1>7. u = sweep.todo[1]
  BY <1>1, <1>5, <1>6, LenProperties
<1>8. IsLeft(sessions, u, left, n, due, m)
  BY <1>3, <1>4, NotOfIs
<1> HIDE DEF left, m
<1>9. left \in Seq(SessionRecords)
  BY <1>8 DEF IsLeft
<1>10. PICK l \in Nat : l = Len(left) /\ DOMAIN left = 1..l
  BY <1>9, LenProperties
<1>11. PICK e \in [1..l -> 1..n] : Placed(e, sessions, u, left, n, due, m)
  BY <1>8, <1>10 DEF IsLeft
<1>12. /\ \A i \in 1..l : left[i] = sessions[e[i]] /\ sessions[e[i]].of # u /\ left[i].of # u
       /\ \A i, j \in 1..l : i < j => e[i] < e[j]
       /\ \A j \in 1..n : sessions[j].of # u => \E i \in 1..l : e[i] = j
       /\ m <= l /\ \A i \in 1..l : i <= m <=> e[i] <= due
  BY <1>4, <1>10, <1>11 DEF Placed
<1>13. m \in Nat
  <2>1. SignedIn!LeftOf(sessions, u)[due] \in Seq(SessionRecords)
    BY <1>3, <1>4, LeftOfLeaves DEF Leaves
  <2> QED BY <2>1, LenProperties DEF m
<1>14. \E t \in Nat : /\ sessions' \in Seq(SessionRecords) /\ Len(sessions') = t /\ DOMAIN sessions' = 1..t /\ l <= t
                      /\ \A i \in 1..l : sessions'[i] = left[i]
                      /\ \A i \in 1..t : i > l => sessions'[i].of = u
  <2>1. CASE sweep.told = "none"
    <3>1. sessions' = left /\ \A i \in 1..l : ~(i > l)
      BY <1>2, <2>1
    <3> QED BY <1>9, <1>10, <3>1
  <2>2. CASE sweep.told # "none"
    <3>1. PICK r \in Nat : 1..r = 1..Len(sessions) - Len(left)
      <4>1. CASE n >= l
        <5>1. n - l \in Nat
          BY <4>1
        <5> QED BY <1>3, <1>10, <5>1
      <4>2. CASE n < l
        <5>1. 1..0 = 1..n - l
          BY <4>2
        <5> QED BY <1>3, <1>10, <5>1
      <4> QED BY <4>1, <4>2
    <3>2. refreshed = [i \in 1..r |-> [of |-> u, role |-> sweep.told]]
      BY <3>1
    <3> HIDE DEF refreshed
    <3>3. [of |-> u, role |-> sweep.told] \in SessionRecords
      BY <1>5, <1>7, <2>2 DEF SessionRecords, GivenRoles
    <3>4. refreshed \in Seq(SessionRecords) /\ Len(refreshed) = r /\ \A i \in 1..r : refreshed[i].of = u
      BY <3>2, <3>3
    <3>5. /\ left \o refreshed \in Seq(SessionRecords) /\ Len(left \o refreshed) = l + r
          /\ \A i \in 1..l + r : (left \o refreshed)[i] = IF i <= l THEN left[i] ELSE refreshed[i - l]
      BY <1>9, <1>10, <3>4, ConcatProperties
    <3>6. sessions' = left \o refreshed /\ DOMAIN (left \o refreshed) = 1..l + r
      BY <1>2, <2>2, <3>5, LenProperties
    <3>7. ASSUME NEW i \in 1..l PROVE sessions'[i] = left[i]
      <4>1. i \in 1..l + r /\ i <= l
        OBVIOUS
      <4> QED BY <3>5, <3>6, <4>1
    <3>8. ASSUME NEW i \in 1..l + r, i > l PROVE sessions'[i].of = u
      <4>1. i - l \in 1..r /\ sessions'[i] = refreshed[i - l]
        BY <3>5, <3>6, <3>8
      <4> QED BY <3>4, <4>1
    <3>9. l + r \in Nat /\ l <= l + r
      OBVIOUS
    <3> QED BY <3>5, <3>6, <3>7, <3>8, <3>9
  <2> QED BY <2>1, <2>2
<1>15. PICK t \in Nat : /\ sessions' \in Seq(SessionRecords) /\ Len(sessions') = t /\ DOMAIN sessions' = 1..t /\ l <= t
                        /\ \A i \in 1..l : sessions'[i] = left[i]
                        /\ \A i \in 1..t : i > l => sessions'[i].of = u
  BY <1>14
<1> HIDE DEF refreshed
<1>16. ListInv'
  BY <1>2, <1>12, <1>13, <1>15 DEF ListInv
<1>17. /\ sweep'.todo \in Seq(SessionUsers) /\ Len(sweep'.todo) = k - 1 /\ DOMAIN sweep'.todo = 1..k - 1
       /\ \A i \in 1..k - 1 : sweep'.todo[i] = sweep.todo[i + 1]
       /\ sweep'.at = "rest" <=> k = 1
       /\ sweep'.todo = <<>> <=> k = 1
       /\ sweep' \in SweepRecords
  <2>1. "none" \in SignedIn!Roles
    BY DEF SignedIn!Roles
  <2>2. CASE k = 1
    <3>1. sweep' = [at |-> "rest", todo |-> <<>>, told |-> "none"]
      BY <1>2, <1>6, <2>2 DEF SignedIn!Rest
    <3>2. <<>> \in Seq(SessionUsers) /\ Len(<<>>) = 0 /\ DOMAIN <<>> = 1..0
      BY EmptySeq
    <3> QED BY <2>1, <2>2, <3>1, <3>2 DEF SweepRecords
  <2>3. CASE k # 1
    <3>1. sweep' = [at |-> "asks", todo |-> Tail(sweep.todo), told |-> "none"]
      BY <1>2, <1>6, <2>3
    <3>2. /\ Tail(sweep.todo) \in Seq(SessionUsers) /\ Len(Tail(sweep.todo)) = k - 1
          /\ \A i \in 1..k - 1 : Tail(sweep.todo)[i] = sweep.todo[i + 1]
      BY <1>5, <1>6, HeadTailProperties
    <3>3. DOMAIN Tail(sweep.todo) = 1..k - 1
      BY <3>2, LenProperties
    <3>4. Tail(sweep.todo) # <<>>
      <4>1. Len(<<>>) = 0 /\ k - 1 # 0
        BY <1>6, <2>3, EmptySeq
      <4> QED BY <3>2, <4>1
    <3> QED BY <2>1, <2>3, <3>1, <3>2, <3>3, <3>4 DEF SweepRecords
  <2> QED BY <2>2, <2>3
<1>18. SweepInv'
  <2>1. AllOnce(sweep'.todo)
    <3> SUFFICES ASSUME NEW i \in 1..k - 1, NEW j \in 1..k - 1, sweep'.todo[i] = sweep'.todo[j] PROVE i = j
      BY <1>17 DEF AllOnce
    <3>1. i + 1 \in 1..k /\ j + 1 \in 1..k /\ sweep.todo[i + 1] = sweep.todo[j + 1]
      BY <1>6, <1>17
    <3>2. i + 1 = j + 1
      BY <1>5, <1>6, <3>1 DEF AllOnce
    <3> QED BY <3>2
  <2>2. Len(sweep'.todo) <= SweepMembers
    BY <1>6, <1>17, SessionNumbers
  <2> QED BY <1>17, <2>1, <2>2 DEF SweepInv
<1>19. ASSUME NEW v, NEW w, v # u, AskedBefore(sweep.todo, v, w) PROVE AskedBefore(sweep'.todo, v, w)
  <2> SUFFICES ASSUME NEW j \in 1..k - 1, sweep'.todo[j] = w PROVE \E i \in 1..j - 1 : sweep'.todo[i] = v
    BY <1>17 DEF AskedBefore
  <2>1. j + 1 \in 1..k /\ sweep.todo[j + 1] = w
    BY <1>6, <1>17
  <2>2. PICK i \in 1..j + 1 - 1 : sweep.todo[i] = v
    BY <1>6, <1>19, <2>1 DEF AskedBefore
  <2>3. i # 1
    BY <1>7, <1>19, <2>2
  <2>4. i - 1 \in 1..j - 1 /\ i - 1 \in 1..k - 1 /\ i - 1 + 1 = i
    BY <1>6, <2>2, <2>3
  <2> QED BY <1>17, <2>2, <2>4
<1>20. AskedBefore(sweep'.todo, u, u) /\ \A v : AskedBefore(sweep'.todo, v, u)
  <2>1. ASSUME NEW j \in 1..k - 1 PROVE sweep'.todo[j] # u
    <3>1. j + 1 \in 1..k /\ 1 \in 1..k /\ j + 1 # 1
      BY <1>6
    <3> QED BY <1>5, <1>6, <1>7, <1>17, <3>1 DEF AllOnce
  <2> QED BY <1>17, <2>1 DEF AskedBefore
\* Whoever waited behind the one it is done with has waited before.
<1>21. ASSUME NEW v \in SessionUsers, NEW w \in SessionUsers, v # u, w \in since[v]
       PROVE  w # u /\ DueBefore(v, w)' /\ AskedBefore(sweep'.todo, v, w)
  <2>1. DueBefore(v, w) /\ AskedBefore(sweep.todo, v, w)
    BY <1>21 DEF TurnInv
  <2>2. w # u
    <3> SUFFICES ASSUME w = u PROVE FALSE
      OBVIOUS
    <3>1. 1 \in 1..k /\ sweep.todo[1] = w
      BY <1>6, <1>7
    <3>2. PICK i \in 1..1 - 1 : TRUE
      BY <1>6, <2>1, <3>1 DEF AskedBefore
    <3> QED BY <3>2
  <2>3. PICK p \in 1..n : p <= due /\ sessions[p].of = v /\ \A j \in 1..n : sessions[j].of = w => p < j
    BY <1>4, <2>1 DEF DueBefore
  <2>4. PICK i \in 1..l : e[i] = p
    BY <1>12, <1>21, <2>3
  <2>5. i \in 1..due' /\ i \in 1..t /\ sessions'[i].of = v
    <3>1. i <= m /\ due' = m /\ l <= t
      BY <1>2, <1>12, <1>15, <2>3, <2>4
    <3>2. sessions'[i] = sessions[p]
      BY <1>12, <1>15, <2>4
    <3> QED BY <1>13, <2>3, <3>1, <3>2
  <2>6. ASSUME NEW j \in 1..t, sessions'[j].of = w PROVE i < j
    <3>1. j \in 1..l
      BY <1>15, <2>2, <2>6
    <3>2. e[j] \in 1..n /\ sessions[e[j]].of = w
      BY <1>11, <1>12, <1>15, <2>6, <3>1
    <3>3. e[i] < e[j]
      BY <2>3, <2>4, <3>2
    <3>4. ~(j < i) /\ j # i
      BY <1>11, <1>12, <3>1, <3>3
    <3> QED BY <3>1, <3>4
  <2>7. DueBefore(v, w)'
    BY <1>15, <2>5, <2>6 DEF DueBefore
  <2> QED BY <1>19, <1>21, <2>1, <2>2, <2>7
\* Whoever is still due comes before the one it is done with.
<1>22. ASSUME NEW v \in SessionUsers, v \in Waiting({u}, {})
       PROVE  DueBefore(v, u)' /\ AskedBefore(sweep'.todo, v, u)
  <2>1. PICK i \in 1..due' : sessions'[i].of = v
    BY <1>22 DEF Waiting, SignedIn!DueUsers
  <2>2. i \in 1..l /\ i <= m
    BY <1>2, <1>12, <1>13, <2>1
  <2>3. ASSUME NEW j \in 1..t, sessions'[j].of = u PROVE i < j
    <3>1. ~(j <= l)
      <4> SUFFICES ASSUME j <= l PROVE FALSE
        OBVIOUS
      <4>1. j \in 1..l
        OBVIOUS
      <4> QED BY <1>12, <1>15, <2>3, <4>1
    <3> QED BY <2>2, <3>1
  <2>4. DueBefore(v, u)'
    BY <1>15, <2>1, <2>3 DEF DueBefore
  <2> QED BY <1>20, <2>4
<1>23. \A v \in Waiting({u}, {}) : v # u
  BY DEF Waiting
<1>24. TurnInv'
  <2>1. SignedIn!Counts({u}, {})
    BY <1>1
  <2>2. {u} \in SUBSET SessionUsers
    BY <1>7
  <2>3. ASSUME NEW v \in SessionUsers, NEW w \in SessionUsers, v \in Waiting({u}, {}), w \in since[v] \/ w \in {u}
        PROVE  DueBefore(v, w)' /\ AskedBefore(sweep.todo', v, w)
    BY <1>21, <1>22, <1>23, <2>3
  <2>4. \A v, w \in SessionUsers : v \in Waiting({u}, {}) /\ w \in since[v] => w \notin {u}
    BY <1>21, <1>23
  <2> QED BY <2>1, <2>2, <2>3, <2>4, TurnKept
<1> QED BY <1>16, <1>18, <1>24

-----------------------------------------------------------------------------
(* The requests, and everything together.                                   *)

LEMMA RequestKept ==
  ASSUME RequestInv, NEW r \in Requests, SignedIn!RequestSteps(r)
  PROVE  RequestInv'
<1>1. /\ stage \in [Requests -> SignedIn!Stages] /\ connections \in [Requests -> {0, 1}]
      /\ \A q \in Requests : connections[q] = IF stage[q] \in {"checks", "handles"} THEN 1 ELSE 0
  BY DEF RequestInv
\* A step brings a request somewhere, and gives it or takes from it a connection.
<1>2. ASSUME NEW to \in SignedIn!Stages, NEW n \in {0, 1},
             stage' = [stage EXCEPT ![r] = to], connections' = [connections EXCEPT ![r] = n],
             n = IF to \in {"checks", "handles"} THEN 1 ELSE 0
      PROVE  RequestInv'
  <2>1. stage' \in [Requests -> SignedIn!Stages] /\ connections' \in [Requests -> {0, 1}]
    BY <1>1, <1>2
  <2>2. ASSUME NEW q \in Requests PROVE connections'[q] = IF stage'[q] \in {"checks", "handles"} THEN 1 ELSE 0
    <3>1. CASE q = r
      BY <1>1, <1>2, <3>1
    <3>2. CASE q # r
      BY <1>1, <1>2, <3>2
    <3> QED BY <3>1, <3>2
  <2> QED BY <2>1, <2>2 DEF RequestInv
<1>3. CASE SignedIn!Arrives(r)
  <2>1. stage[r] = "idle" /\ stage' = [stage EXCEPT ![r] = "arrives"] /\ connections' = connections
    BY <1>3 DEF SignedIn!Arrives
  <2>2. connections' = [connections EXCEPT ![r] = 0]
    BY <1>1, <2>1
  <2> QED BY <1>2, <2>1, <2>2 DEF SignedIn!Stages
<1>4. CASE SignedIn!LooksUp(r)
  <2>1. stage[r] = "arrives" /\ stage' = [stage EXCEPT ![r] = "checks"]
        /\ connections' = [connections EXCEPT ![r] = connections[r] + 1]
    BY <1>4 DEF SignedIn!LooksUp, SignedIn!Takes
  <2>2. connections[r] + 1 = 1
    BY <1>1, <2>1
  <2> QED BY <1>2, <2>1, <2>2 DEF SignedIn!Stages
<1>5. CASE SignedIn!Passes(r)
  <2>1. stage[r] = "checks" /\ stage' = [stage EXCEPT ![r] = "passes"]
        /\ connections' = [connections EXCEPT ![r] = connections[r] - 1]
    BY <1>5 DEF SignedIn!Passes, SignedIn!Returns
  <2>2. connections[r] - 1 = 0
    BY <1>1, <2>1
  <2> QED BY <1>2, <2>1, <2>2 DEF SignedIn!Stages
<1>6. CASE SignedIn!Handles(r)
  <2>1. stage[r] = "passes" /\ stage' = [stage EXCEPT ![r] = "handles"]
        /\ connections' = [connections EXCEPT ![r] = connections[r] + 1]
    BY <1>6 DEF SignedIn!Handles, SignedIn!Takes
  <2>2. connections[r] + 1 = 1
    BY <1>1, <2>1
  <2> QED BY <1>2, <2>1, <2>2 DEF SignedIn!Stages
<1>7. CASE SignedIn!Ends(r)
  <2>1. stage' = [stage EXCEPT ![r] = "idle"]
        /\ connections' = [connections EXCEPT ![r] = connections[r] - connections[r]]
    BY <1>7 DEF SignedIn!Ends, SignedIn!Returns
  <2>2. connections[r] - connections[r] = 0
    BY <1>1
  <2> QED BY <1>2, <2>1, <2>2 DEF SignedIn!Stages
<1> QED BY <1>3, <1>4, <1>5, <1>6, <1>7 DEF SignedIn!RequestSteps

LEMMA SessionStep == SessionsInv /\ SignedIn!Next => SessionsInv'
<1> SUFFICES ASSUME SessionsInv, SignedIn!Next PROVE SessionsInv'
  OBVIOUS
<1> USE DEF SignedIn!sessionVars, SignedIn!requestVars
<1>1. ListInv /\ SweepInv /\ TurnInv /\ RequestInv /\ RoleInv
  BY DEF SessionsInv
<1>2. UNCHANGED <<stage, connections>> => RequestInv'
  BY <1>1 DEF RequestInv
<1>3. UNCHANGED <<roles, logins>> => RoleInv'
  BY <1>1 DEF RoleInv
<1>4. UNCHANGED sweep => SweepInv'
  BY <1>1 DEF SweepInv
<1>5. "none" \in SignedIn!Roles
  BY DEF SignedIn!Roles
<1>6. CASE SignedIn!NotesAnswer /\ SignedIn!Counts({Head(sweep.todo)}, {})
  BY <1>1, <1>2, <1>3, <1>6, AnswerIsNoted DEF SignedIn!NotesAnswer, SessionsInv
<1>7. ASSUME NEW i \in DOMAIN sessions, SignedIn!SessionEnds(i), SignedIn!Counts({}, {sessions[i].of})
      PROVE  SessionsInv'
  <2>1. /\ sessions' = SignedIn!RemoveAt(sessions, i) /\ due' = IF i <= due THEN due - 1 ELSE due
        /\ UNCHANGED <<roles, sweep, logins, stage, connections>>
    BY <1>7 DEF SignedIn!SessionEnds
  <2>2. ListInv' /\ TurnInv'
    BY <1>1, <1>7, <2>1, SessionIsOver
  <2> QED BY <1>2, <1>3, <1>4, <2>1, <2>2 DEF SessionsInv
<1>8. CASE SignedIn!Counts({}, {})
  <2>1. ASSUME UNCHANGED <<sessions, due>>, SweepInv', sweep.todo' \in {sweep.todo, <<>>}
        PROVE  ListInv' /\ TurnInv'
    BY <1>1, <1>8, <2>1, SameSessions
  <2>2. ASSUME NEW u \in SessionUsers, NEW role \in SignedIn!Roles, SignedIn!HubMoves(u, role) PROVE SessionsInv'
    <3>1. roles' = [roles EXCEPT ![u] = role] /\ UNCHANGED <<sessions, due, sweep, logins, stage, connections>>
      BY <2>2 DEF SignedIn!HubMoves
    <3>2. RoleInv'
      BY <1>1, <3>1 DEF RoleInv
    <3> QED BY <1>2, <1>4, <2>1, <3>1, <3>2 DEF SessionsInv
  <2>3. ASSUME NEW u \in SessionUsers, SignedIn!LoginAsks(u) PROVE SessionsInv'
    <3>1. logins' = [logins EXCEPT ![u] = roles[u]] /\ UNCHANGED <<roles, sessions, due, sweep, stage, connections>>
      BY <2>3 DEF SignedIn!LoginAsks
    <3>2. RoleInv'
      BY <1>1, <3>1 DEF RoleInv
    <3> QED BY <1>2, <1>4, <2>1, <3>1, <3>2 DEF SessionsInv
  <2>4. ASSUME NEW u \in SessionUsers, NEW starts \in BOOLEAN, SignedIn!LoginEnds(u, starts) PROVE SessionsInv'
    <3>1. /\ logins[u] # "none" /\ logins' = [logins EXCEPT ![u] = "none"]
          /\ IF starts THEN sessions' = Append(sessions, [of |-> u, role |-> logins[u]]) ELSE UNCHANGED sessions
          /\ UNCHANGED <<roles, due, sweep, stage, connections>>
      BY <2>4 DEF SignedIn!LoginEnds
    <3>2. RoleInv'
      BY <1>1, <1>5, <3>1 DEF RoleInv
    <3>3. CASE starts
      <4>1. [of |-> u, role |-> logins[u]] \in SessionRecords
        BY <1>1, <3>1 DEF RoleInv, SessionRecords, GivenRoles
      <4>2. ListInv' /\ TurnInv'
        BY <1>1, <1>8, <3>1, <3>3, <4>1, SessionStarts
      <4> QED BY <1>2, <1>4, <3>1, <3>2, <4>2 DEF SessionsInv
    <3>4. CASE ~starts
      BY <1>2, <1>4, <2>1, <3>1, <3>2, <3>4 DEF SessionsInv
    <3> QED BY <3>3, <3>4
  <2>5. CASE SignedIn!GrowsOld
    <3>1. due < Len(sessions) /\ due' = due + 1 /\ UNCHANGED <<roles, sessions, sweep, logins, stage, connections>>
      BY <2>5 DEF SignedIn!GrowsOld
    <3>2. ListInv' /\ TurnInv'
      BY <1>1, <1>8, <3>1, OneMoreDue
    <3> QED BY <1>2, <1>3, <1>4, <3>1, <3>2 DEF SessionsInv
  <2>6. CASE SignedIn!SweepStarts
    BY <1>1, <1>2, <1>3, <1>8, <2>6, SweepAsksInTurn DEF SignedIn!SweepStarts, SessionsInv
  <2>7. CASE SignedIn!HubSays
    <3>1. /\ sweep.at = "asks" /\ sweep' = [sweep EXCEPT !.at = "told", !.told = roles[Head(sweep.todo)]]
          /\ UNCHANGED <<roles, sessions, due, logins, stage, connections>>
      BY <2>7 DEF SignedIn!HubSays
    <3>2. sweep.todo \in Seq(SessionUsers) /\ sweep.todo # <<>> /\ sweep \in SweepRecords
      BY <1>1, <3>1 DEF SweepInv, SweepRecords
    <3>3. roles[Head(sweep.todo)] \in SignedIn!Roles
      BY <1>1, <3>2, HeadTailProperties DEF RoleInv
    <3>4. sweep' \in SweepRecords /\ sweep'.at = "told" /\ sweep'.todo = sweep.todo
      BY <3>1, <3>2, <3>3 DEF SweepRecords
    <3>5. SweepInv'
      BY <1>1, <3>2, <3>4 DEF SweepInv
    <3> QED BY <1>2, <1>3, <2>1, <3>1, <3>4, <3>5 DEF SessionsInv
  <2>8. CASE SignedIn!SweepFails
    <3>1. sweep' = SignedIn!Rest /\ UNCHANGED <<roles, sessions, due, logins, stage, connections>>
      BY <2>8 DEF SignedIn!SweepFails
    <3>2. sweep'.todo = <<>> /\ sweep'.at = "rest" /\ sweep' \in SweepRecords
      <4>1. <<>> \in Seq(SessionUsers)
        BY EmptySeq
      <4> QED BY <1>5, <3>1, <4>1 DEF SignedIn!Rest, SweepRecords
    <3>3. SweepInv'
      <4>1. DOMAIN <<>> = {} /\ Len(<<>>) = 0
        BY EmptySeq
      <4> QED BY <3>2, <4>1, SessionNumbers DEF SweepInv, AllOnce
    <3> QED BY <1>2, <1>3, <2>1, <3>1, <3>2, <3>3 DEF SessionsInv
  <2>9. ASSUME NEW r \in Requests, SignedIn!RequestSteps(r) PROVE SessionsInv'
    <3>1. UNCHANGED <<roles, sessions, due, sweep, logins>>
      BY <2>9 DEF SignedIn!RequestSteps
    <3>2. RequestInv'
      BY <1>1, <2>9, RequestKept
    <3> QED BY <1>3, <1>4, <2>1, <3>1, <3>2 DEF SessionsInv
  <2> QED BY <1>6, <1>7, <2>2, <2>3, <2>4, <2>5, <2>6, <2>7, <2>8, <2>9 DEF SignedIn!Next
<1> QED BY <1>6, <1>7, <1>8 DEF SignedIn!Next

LEMMA SessionsBegin == SignedIn!Init => SessionsInv
<1> SUFFICES ASSUME SignedIn!Init PROVE SessionsInv
  OBVIOUS
<1>1. PICK users \in SignedIn!SetToSeqs(SessionUsers) :
        sessions = [i \in DOMAIN users |-> [of |-> users[i], role |-> "member"]]
  BY DEF SignedIn!Init
<1>2. /\ roles \in [SessionUsers -> SignedIn!Roles] /\ due = 0
      /\ sweep = [at |-> "rest", todo |-> <<>>, told |-> "none"]
      /\ logins = [u \in SessionUsers |-> "none"]
      /\ stage = [r \in Requests |-> "idle"] /\ connections = [r \in Requests |-> 0]
      /\ since = [u \in SessionUsers |-> {}] /\ passed = FALSE
  BY DEF SignedIn!Init, SignedIn!Rest
<1>3. ListInv
  <2>1. \A S : SignedIn!Cardinality(S) = Cardinality(S)
    BY Zenon DEF SignedIn!Cardinality, Cardinality
  <2>2. PICK k \in Nat : k = Cardinality(SessionUsers)
    BY ManyUsersEnd, FS_CardinalityType
  <2>3. users \in [1..k -> SessionUsers]
    BY <1>1, <2>1, <2>2 DEF SignedIn!SetToSeqs
  <2>4. \A u \in SessionUsers : [of |-> u, role |-> "member"] \in SessionRecords
    BY DEF SessionRecords, GivenRoles, SignedIn!Roles
  <2>5. sessions \in [1..k -> SessionRecords]
    BY <1>1, <2>3, <2>4
  <2>6. sessions \in Seq(SessionRecords) /\ Len(sessions) = k
    BY <2>5
  <2> QED BY <1>2, <2>6 DEF ListInv
<1>4. SweepInv
  <2>1. <<>> \in Seq(SessionUsers) /\ DOMAIN <<>> = {} /\ Len(<<>>) = 0
    BY EmptySeq
  <2> QED BY <1>2, <2>1, SessionNumbers DEF SweepInv, SweepRecords, AllOnce, SignedIn!Roles
<1>5. TurnInv
  BY <1>2 DEF TurnInv
<1>6. RequestInv
  BY <1>2 DEF RequestInv, SignedIn!Stages
<1>7. RoleInv
  BY <1>2 DEF RoleInv, SignedIn!Roles
<1> QED BY <1>3, <1>4, <1>5, <1>6, <1>7 DEF SessionsInv

\* What is inductive says what the run checks.
LEMMA SessionsInvHolds == SessionsInv => SignedIn!SessionsHold
<1> SUFFICES ASSUME SessionsInv PROVE SignedIn!SessionsHold
  OBVIOUS
<1>1. SignedIn!TypeOK
  <2>1. sweep.todo \in Seq(SessionUsers) /\ sweep.at \in {"rest", "asks", "told"}
    BY DEF SessionsInv, SweepInv, SweepRecords
  <2>2. SignedIn!ToSet(sweep.todo) \subseteq SessionUsers
    BY <2>1, LenProperties DEF SignedIn!ToSet
  <2>3. sessions \in Seq([of : SessionUsers, role : SignedIn!Roles \ {"none"}]) /\ due \in 0..Len(sessions)
    BY DEF SessionsInv, ListInv, SessionRecords, GivenRoles
  <2>4. connections \in [Requests -> 0..1] /\ stage \in [Requests -> SignedIn!Stages]
    <3>1. {0, 1} = 0..1
      OBVIOUS
    <3> QED BY <3>1 DEF SessionsInv, RequestInv
  <2>5. roles \in [SessionUsers -> SignedIn!Roles] /\ logins \in [SessionUsers -> SignedIn!Roles]
    BY DEF SessionsInv, RoleInv
  <2>6. (sweep.at = "rest" <=> sweep.todo = <<>>) /\ Len(sweep.todo) <= SweepMembers
    BY DEF SessionsInv, SweepInv
  <2> QED BY <2>1, <2>2, <2>3, <2>4, <2>5, <2>6 DEF SignedIn!TypeOK
<1>2. SignedIn!AskedInTurn
  BY DEF SessionsInv, TurnInv, SignedIn!AskedInTurn
<1>3. SignedIn!SomebodyGoesOn
  <2> SUFFICES ASSUME SignedIn!Free = 0 PROVE \E r \in Requests : connections[r] > 0 /\ stage[r] \in {"checks", "handles"}
    BY DEF SignedIn!SomebodyGoesOn
  <2>1. SignedIn!Taken # {}
    <3> SUFFICES ASSUME SignedIn!Taken = {} PROVE FALSE
      OBVIOUS
    <3>1. SignedIn!Cardinality({}) = Cardinality({})
      BY Zenon DEF SignedIn!Cardinality, Cardinality
    <3>2. SignedIn!Cardinality(SignedIn!Taken) = 0
      BY <3>1, FS_EmptySet
    <3> QED BY <3>2, SessionNumbers DEF SignedIn!Free
  <2>2. PICK r \in Requests : \E n \in 1..2 : n <= connections[r]
    BY <2>1 DEF SignedIn!Taken
  <2>3. connections[r] \in {0, 1} /\ connections[r] = IF stage[r] \in {"checks", "handles"} THEN 1 ELSE 0
    BY DEF SessionsInv, RequestInv
  <2>4. connections[r] = 1
    BY <2>2, <2>3
  <2> QED BY <2>3, <2>4
<1> QED BY <1>1, <1>2, <1>3 DEF SignedIn!SessionsHold

\* For any number of members, requests, connections and members a sweep asks about: nobody due is
\* passed over for the same other twice, and a request that waits for a connection has none, so
\* that the pool never runs dry with everybody waiting (hub/members.rs reverify_once,
\* auth_middleware.rs call).
THEOREM NobodyIsPassedOver == MCSpec => []SessionsHold
<1> DEFINE IInv == part = "sessions" => SessionsInv
<1>1. MCInit => IInv
  BY SessionsBegin DEF MCInit
<1>2. IInv /\ [MCNext]_allVars => IInv'
  <2> SUFFICES ASSUME IInv, [MCNext]_allVars, part' = "sessions" PROVE SessionsInv'
    OBVIOUS
  <2>1. CASE OfSessions
    BY <2>1, SessionStep DEF OfSessions
  <2>2. CASE UNCHANGED sessionVars /\ part' = part
    BY <2>2 DEF sessionVars, SessionsInv, ListInv, SweepInv, TurnInv, RequestInv, RoleInv, DueBefore
  <2> QED BY <2>1, <2>2 DEF MCNext, OfView, OfMarkers, OfReplay, OfTrails, OfPlayers, OfBoards, OfLife, OfHistory,
          OfGear, OfToasts, allVars
<1>3. IInv => SessionsHold
  BY SessionsInvHolds DEF SessionsHold
<1> QED BY <1>1, <1>2, <1>3, PTL DEF MCSpec
-----------------------------------------------------------------------------
(* SkillHistory: samples, and the series and gains made of them.            *)

LEMMA SkillConstants ==
  /\ BucketParts \in Nat \ {0} /\ ShownBuckets \in Nat \ {0} /\ MaxSkillXp \in Nat /\ MaxSkillTime \in Nat /\ Retentions \subseteq Nat
  /\ LevelStarts \subseteq Nat /\ IsFiniteSet(LevelStarts) /\ ViewerZones \subseteq (1 - BucketParts)..(BucketParts - 1)
<1>1. \A S : History!IsFiniteSet(S) = IsFiniteSet(S)
  BY Zenon DEF History!IsFiniteSet, IsFiniteSet
<1> QED BY <1>1, SamplesCanBe DEF History!HistoryConstants

LEMMA DivGrows ==
  ASSUME NEW p \in Nat \ {0}, NEW t \in Nat, NEW u \in Nat, t <= u
  PROVE  t \div p \in Nat /\ t \div p <= u \div p
<1>1. t = p * (t \div p) + (t % p) /\ t % p \in 0..p - 1 /\ t \div p \in Nat
  OBVIOUS
<1>2. u = p * (u \div p) + (u % p) /\ u % p \in 0..p - 1 /\ u \div p \in Nat
  OBVIOUS
<1> QED BY <1>1, <1>2

LEMMA TimesGrows ==
  ASSUME NEW p \in Nat \ {0}, NEW b \in Int, NEW c \in Int, b <= c
  PROVE  b * p \in Int /\ b * p <= c * p
OBVIOUS

\* A later time is in no earlier bucket.
LEMMA BucketGrows ==
  ASSUME NEW t \in Nat, NEW u \in Nat, t <= u
  PROVE  History!Bucket(t) \in Nat /\ History!Bucket(u) \in Nat /\ History!Bucket(t) <= History!Bucket(u)
BY DivGrows, SkillConstants DEF History!Bucket

LEMMA DivIs ==
  ASSUME NEW p \in Nat \ {0}, NEW q \in Int, NEW r \in 0..p - 1
  PROVE  (q * p + r) \div p = q
<1> DEFINE n == q * p + r
           d == n \div p
<1>1. q * p \in Int /\ n \in Int
  OBVIOUS
<1> HIDE DEF n
<1>2. d \in Int /\ n = p * d + (n % p) /\ n % p \in 0..p - 1
  BY <1>1
<1> HIDE DEF d
<1>3. n = p * q + r /\ p * q \in Int /\ p * d \in Int
  BY <1>1, <1>2 DEF n
<1>4. ASSUME d >= q + 1 PROVE FALSE
  <2>1. p * d >= p * q + p
    BY <1>2, <1>4
  <2> QED BY <1>2, <1>3, <2>1
<1>5. ASSUME d <= q - 1 PROVE FALSE
  <2>1. p * d <= p * q - p
    BY <1>2, <1>5
  <2> QED BY <1>2, <1>3, <2>1
<1>6. d = q
  BY <1>2, <1>4, <1>5
<1> QED BY <1>6 DEF d, n

\* One bucket of the server's begins in each of a viewer's; the last of a graph is the one that is on, or next to it.
LEMMA LocalIs ==
  ASSUME zone \in ViewerZones
  PROVE  /\ \A b, d \in Int : /\ (History!Local(b * BucketParts) = d) = (b = History!BeginsIn(d))
                              /\ (History!Local(b * BucketParts) < d) = (b <= History!BeginsIn(d - 1))
         /\ \A d \in Int : History!BeginsIn(d) \in Int /\ History!BeginsIn(d - 1) = History!BeginsIn(d) - 1
         /\ \A t \in Nat : /\ History!Local(t) \in Int
                           /\ History!Bucket(t) <= History!BeginsIn(History!Local(t))
                           /\ History!BeginsIn(History!Local(t)) - 1 <= History!Bucket(t)
<1>1. BucketParts \in Nat \ {0} /\ zone \in Int /\ 1 - BucketParts <= zone /\ zone <= BucketParts - 1
  BY SkillConstants
<1>2. \A b \in Int : History!Local(b * BucketParts) = IF zone < 0 THEN b - 1 ELSE b
  <2> SUFFICES ASSUME NEW b \in Int PROVE (b * BucketParts + zone) \div BucketParts = IF zone < 0 THEN b - 1 ELSE b
    BY DEF History!Local
  <2>1. CASE zone < 0
    <3>1. zone + BucketParts \in 0..BucketParts - 1 /\ b - 1 \in Int
      BY <1>1, <2>1
    <3>2. (b - 1) * BucketParts + (zone + BucketParts) = b * BucketParts + zone
      BY <1>1
    <3> QED BY <1>1, <2>1, <3>1, <3>2, DivIs
  <2>2. CASE ~(zone < 0)
    <3>1. zone \in 0..BucketParts - 1
      BY <1>1, <2>2
    <3> QED BY <1>1, <2>2, <3>1, DivIs
  <2> QED BY <2>1, <2>2
<1>3. \A d \in Int : History!BeginsIn(d) \in Int /\ History!BeginsIn(d - 1) = History!BeginsIn(d) - 1
  BY <1>1 DEF History!BeginsIn
<1>4. ASSUME NEW b \in Int, NEW d \in Int
      PROVE  /\ (History!Local(b * BucketParts) = d) = (b = History!BeginsIn(d))
             /\ (History!Local(b * BucketParts) < d) = (b <= History!BeginsIn(d - 1))
  <2>1. CASE zone < 0
    <3>1. History!Local(b * BucketParts) = b - 1 /\ History!BeginsIn(d) = d + 1 /\ History!BeginsIn(d - 1) = d - 1 + 1
      BY <1>2, <2>1 DEF History!BeginsIn
    <3> QED BY <3>1
  <2>2. CASE ~(zone < 0)
    <3>1. History!Local(b * BucketParts) = b /\ History!BeginsIn(d) = d /\ History!BeginsIn(d - 1) = d - 1
      BY <1>2, <2>2 DEF History!BeginsIn
    <3> QED BY <3>1
  <2> QED BY <2>1, <2>2
<1>5. ASSUME NEW t \in Nat
      PROVE  /\ History!Local(t) \in Int
             /\ History!Bucket(t) <= History!BeginsIn(History!Local(t))
             /\ History!BeginsIn(History!Local(t)) - 1 <= History!Bucket(t)
  <2> DEFINE q == t \div BucketParts
             r == t % BucketParts
  <2>1. q \in Int /\ r \in 0..BucketParts - 1 /\ t = BucketParts * q + r
    BY <1>1
  <2> HIDE DEF q, r
  <2>2. BucketParts * q = q * BucketParts /\ q * BucketParts \in Int /\ t + zone = q * BucketParts + (r + zone) /\ r + zone \in Int
    BY <1>1, <2>1
  <2>3. CASE r + zone < 0
    <3>1. r + zone + BucketParts \in 0..BucketParts - 1 /\ q - 1 \in Int
      BY <1>1, <2>1, <2>3
    <3>2. (q - 1) * BucketParts + (r + zone + BucketParts) = t + zone
      BY <1>1, <2>1, <2>2
    <3>3. (t + zone) \div BucketParts = q - 1
      BY <1>1, <3>1, <3>2, DivIs
    <3>4. zone < 0
      BY <1>1, <2>1, <2>3
    <3> QED BY <2>1, <3>3, <3>4 DEF History!Local, History!Bucket, History!BeginsIn, q
  <2>4. CASE r + zone \in 0..BucketParts - 1
    <3>1. (t + zone) \div BucketParts = q
      BY <1>1, <2>1, <2>2, <2>4, DivIs
    <3> QED BY <2>1, <3>1 DEF History!Local, History!Bucket, History!BeginsIn, q
  <2>5. CASE r + zone >= BucketParts
    <3>1. r + zone - BucketParts \in 0..BucketParts - 1 /\ q + 1 \in Int
      BY <1>1, <2>1, <2>5
    <3>2. (q + 1) * BucketParts + (r + zone - BucketParts) = t + zone
      BY <1>1, <2>1, <2>2
    <3>3. (t + zone) \div BucketParts = q + 1
      BY <1>1, <3>1, <3>2, DivIs
    <3>4. ~(zone < 0)
      BY <1>1, <2>1, <2>5
    <3> QED BY <2>1, <3>3, <3>4 DEF History!Local, History!Bucket, History!BeginsIn, q
  <2> QED BY <1>1, <2>2, <2>3, <2>4, <2>5
<1> QED BY <1>3, <1>4, <1>5

\* Newest(table, b): the newest sample up to a bucket.
UpToBucket(samples, b) == {c \in DOMAIN samples : c <= b}
Newest(samples, b) == IF UpToBucket(samples, b) = {} THEN History!NoXp ELSE samples[History!Max(UpToBucket(samples, b))]

\* Samples: XP that never falls, in buckets.
IsTable(samples) ==
  /\ DOMAIN samples \subseteq History!Buckets
  /\ \A b \in DOMAIN samples : samples[b] \in History!Xps
  /\ \A b, c \in DOMAIN samples : b <= c => samples[b] <= samples[c]

LEMMA BucketsAre == History!Bucket(MaxSkillTime) \in Nat /\ History!Buckets = 0..History!Bucket(MaxSkillTime) /\ History!Buckets \subseteq Nat
<1>1. History!Bucket(MaxSkillTime) \in Nat
  BY BucketGrows, SkillConstants
<1> QED BY <1>1 DEF History!Buckets

LEMMA XpsAre == History!Xps \subseteq Nat /\ History!NoXp = -1 /\ History!NoXp \notin History!Xps /\ History!Xps = 0..MaxSkillXp
BY SkillConstants DEF History!Xps, History!NoXp

LEMMA MaxIs ==
  ASSUME NEW S \in SUBSET Nat, S # {}, NEW b \in Nat, \A x \in S : x <= b
  PROVE  History!Max(S) \in S /\ \A x \in S : x <= History!Max(S)
<1>1. \E m \in S : \A n \in S : m >= n
  BY GreatestNatural
<1>2. History!Max(S) \in S /\ \A n \in S : History!Max(S) >= n
  BY <1>1 DEF History!Max
<1> QED BY <1>2

LEMMA MinIs ==
  ASSUME NEW S \in SUBSET Nat, S # {}
  PROVE  History!Min(S) \in S /\ \A x \in S : History!Min(S) <= x
BY LeastNatural DEF History!Min

\* The newest sample is one, or there is none.
LEMMA NewestIs ==
  ASSUME NEW samples, IsTable(samples), NEW b \in Int
  PROVE  \/ UpToBucket(samples, b) = {} /\ Newest(samples, b) = History!NoXp
         \/ \E c \in UpToBucket(samples, b) :
              /\ c \in History!Buckets /\ Newest(samples, b) = samples[c] /\ Newest(samples, b) \in History!Xps
              /\ \A d \in UpToBucket(samples, b) : d <= c
<1>1. CASE UpToBucket(samples, b) = {}
  BY <1>1 DEF Newest
<1>2. CASE UpToBucket(samples, b) # {}
  <2>1. UpToBucket(samples, b) \in SUBSET Nat /\ \A d \in UpToBucket(samples, b) : d <= History!Bucket(MaxSkillTime)
    BY BucketsAre DEF IsTable, UpToBucket
  <2>2. History!Max(UpToBucket(samples, b)) \in UpToBucket(samples, b)
        /\ \A d \in UpToBucket(samples, b) : d <= History!Max(UpToBucket(samples, b))
    BY <1>2, <2>1, BucketsAre, MaxIs
  <2>3. Newest(samples, b) = samples[History!Max(UpToBucket(samples, b))]
    BY <1>2 DEF Newest
  <2> QED BY <2>2, <2>3 DEF IsTable, UpToBucket
<1> QED BY <1>1, <1>2

\* What is known up to a bucket is known later, and is no less then.
LEMMA NewestGrows ==
  ASSUME NEW samples, IsTable(samples), NEW b \in Int, NEW c \in Int, b <= c, Newest(samples, b) # History!NoXp
  PROVE  Newest(samples, c) # History!NoXp /\ Newest(samples, b) <= Newest(samples, c)
<1>1. PICK d \in UpToBucket(samples, b) : d \in History!Buckets /\ Newest(samples, b) = samples[d]
  BY NewestIs
<1>2. d \in UpToBucket(samples, c)
  BY <1>1, BucketsAre DEF UpToBucket
<1>3. PICK e \in UpToBucket(samples, c) :
        /\ e \in History!Buckets /\ Newest(samples, c) = samples[e] /\ Newest(samples, c) \in History!Xps
        /\ \A f \in UpToBucket(samples, c) : f <= e
  BY <1>2, NewestIs
<1> QED BY <1>1, <1>2, <1>3, XpsAre DEF IsTable, UpToBucket

\* The newest sample up to a bucket is its own, or that of the bucket before.
LEMMA NewestSteps ==
  ASSUME NEW samples, IsTable(samples), NEW b \in Int
  PROVE  Newest(samples, b) = IF b \in DOMAIN samples THEN samples[b] ELSE Newest(samples, b - 1)
<1>1. CASE b \in DOMAIN samples
  <2>1. b \in UpToBucket(samples, b)
    BY <1>1 DEF UpToBucket
  <2>2. PICK c \in UpToBucket(samples, b) :
          c \in History!Buckets /\ Newest(samples, b) = samples[c] /\ \A d \in UpToBucket(samples, b) : d <= c
    BY <2>1, NewestIs
  <2>3. b = c
    BY <2>1, <2>2, BucketsAre DEF UpToBucket
  <2> QED BY <1>1, <2>2, <2>3
<1>2. CASE b \notin DOMAIN samples
  <2>1. UpToBucket(samples, b) = UpToBucket(samples, b - 1)
    BY <1>2, BucketsAre DEF UpToBucket, IsTable
  <2> QED BY <1>2, <2>1 DEF Newest
<1> QED BY <1>1, <1>2

\* A bucket of a graph has one sample at most: of the server's bucket that begins in it.
LEMMA WithinIs ==
  ASSUME NEW samples, IsTable(samples), zone \in ViewerZones, NEW d \in Int
  PROVE  IF History!BeginsIn(d) \in DOMAIN samples
         THEN History!Within(samples, d) # {} /\ samples[History!Max(History!Within(samples, d))] = samples[History!BeginsIn(d)]
         ELSE History!Within(samples, d) = {}
<1>1. \A b \in DOMAIN samples : b \in Int /\ b \in Nat
  BY BucketsAre DEF IsTable
<1>4. \A b \in DOMAIN samples : (History!Local(b * BucketParts) = d) = (b = History!BeginsIn(d))
  BY <1>1, LocalIs
<1>2. History!Within(samples, d) = {b \in DOMAIN samples : b = History!BeginsIn(d)}
  BY <1>4, Zenon DEF History!Within
<1>3. CASE History!BeginsIn(d) \in DOMAIN samples
  <2>1. History!Within(samples, d) = {History!BeginsIn(d)} /\ History!BeginsIn(d) \in Nat
    BY <1>1, <1>2, <1>3
  <2>2. History!Max(History!Within(samples, d)) \in History!Within(samples, d)
    BY <2>1, MaxIs
  <2> QED BY <1>3, <2>1, <2>2
<1> QED BY <1>2, <1>3

\* Seed and lastData: the loop over a graph's buckets finds the newest sample up to each.
LEMMA CarriedIs ==
  ASSUME NEW samples, IsTable(samples), NEW first \in Int, zone \in ViewerZones
  PROVE  \A i \in 0..ShownBuckets : History!Carried(samples, first)[i] = Newest(samples, History!BeginsIn(first + i - 1))
<1> DEFINE at(i) == History!BeginsIn(first + i - 1)
           step(f) == [i \in 0..ShownBuckets |->
             IF i = 0 THEN History!Seed(samples, first)
             ELSE IF History!Within(samples, first + i - 1) = {} THEN f[i - 1]
             ELSE samples[History!Max(History!Within(samples, first + i - 1))]]
           G == [i \in 0..ShownBuckets |-> Newest(samples, at(i))]
           C == History!Carried(samples, first)
<1>1. History!Seed(samples, first) = Newest(samples, at(0))
  <2>1. \A b \in DOMAIN samples : b \in Int
    BY BucketsAre DEF IsTable
  <2>2. first + 0 - 1 = first - 1
    OBVIOUS
  <2>3. {b \in DOMAIN samples : History!Local(b * BucketParts) < first} = UpToBucket(samples, at(0))
    BY <2>1, <2>2, LocalIs DEF UpToBucket
  <2> QED BY <2>3 DEF History!Seed, Newest
<1>2. ASSUME NEW i \in 1..ShownBuckets, NEW before, before = Newest(samples, at(i - 1))
      PROVE  Newest(samples, at(i)) = IF History!Within(samples, first + i - 1) = {} THEN before
                                      ELSE samples[History!Max(History!Within(samples, first + i - 1))]
  <2>1. first + i - 1 \in Int /\ first + (i - 1) - 1 = (first + i - 1) - 1
    BY SkillConstants
  <2>2. at(i) \in Int /\ at(i - 1) = at(i) - 1
    BY <2>1, LocalIs
  <2>3. Newest(samples, at(i)) = IF at(i) \in DOMAIN samples THEN samples[at(i)] ELSE Newest(samples, at(i - 1))
    BY <2>2, NewestSteps
  <2> QED BY <1>2, <2>1, <2>3, WithinIs
<1>3. G = step(G)
  <2>1. \A i \in 0..ShownBuckets : G[i] = step(G)[i]
    <3> SUFFICES ASSUME NEW i \in 0..ShownBuckets PROVE G[i] = step(G)[i]
      OBVIOUS
    <3>1. CASE i = 0
      BY <1>1, <3>1
    <3>2. CASE i # 0
      <4>1. i \in 1..ShownBuckets /\ i - 1 \in 0..ShownBuckets
        BY <3>2, SkillConstants
      <4>2. G[i] = Newest(samples, at(i)) /\ G[i - 1] = Newest(samples, at(i - 1))
        BY <4>1
      <4> HIDE DEF at, G
      <4> QED BY <1>2, <3>2, <4>1, <4>2
    <3> QED BY <3>1, <3>2
  <2> QED BY <2>1
<1>4. C = CHOOSE f : f = step(f)
  BY DEF History!Carried
<1> HIDE DEF step, G, C
<1>5. C = step(C)
  BY <1>3, <1>4
<1> HIDE DEF at
<1>6. /\ C[0] = Newest(samples, at(0))
      /\ \A i \in 1..ShownBuckets : C[i] = IF History!Within(samples, first + i - 1) = {} THEN C[i - 1]
                                            ELSE samples[History!Max(History!Within(samples, first + i - 1))]
  <2>1. DOMAIN step(C) = 0..ShownBuckets /\ step(C)[0] = History!Seed(samples, first)
        /\ \A i \in 1..ShownBuckets : step(C)[i] = IF History!Within(samples, first + i - 1) = {} THEN C[i - 1]
                                            ELSE samples[History!Max(History!Within(samples, first + i - 1))]
    BY SkillConstants DEF step
  <2> QED BY <1>1, <1>5, <2>1
<1>7. ASSUME NEW n \in 0..ShownBuckets PROVE C[n] = Newest(samples, at(n))
  <2> DEFINE P == {i \in 0..n : C[i] = Newest(samples, at(i))}
  <2>1. 0 \in P
    BY <1>6, SkillConstants
  <2>2. ASSUME NEW i \in 1..n, i - 1 \in P PROVE i \in P
    <3>1. i \in 1..ShownBuckets /\ C[i - 1] = Newest(samples, at(i - 1)) /\ i \in 0..n
      BY <2>2, SkillConstants
    <3> QED BY <1>2, <1>6, <3>1
  <2> HIDE DEF P
  <2>3. n \in P
    <3>1. n \in Nat
      BY SkillConstants
    <3> QED BY <2>1, <2>2, <3>1, UpTo
  <2> QED BY <2>3 DEF P
<1> QED BY <1>7 DEF C, at
\* A series in which XP, once known, stays known and doesn't fall.
Climbs(series) ==
  /\ \A i \in 1..ShownBuckets : series[i] \in History!Xps \cup {History!NoXp}
  /\ \A i, j \in 1..ShownBuckets : i <= j /\ series[i] # History!NoXp => series[j] # History!NoXp /\ series[i] <= series[j]

KnownOf(series) == {i \in 1..ShownBuckets : series[i] # History!NoXp}

LEMMA FirstKnown ==
  ASSUME NEW series, KnownOf(series) # {}
  PROVE  /\ History!Min(KnownOf(series)) \in 1..ShownBuckets /\ series[History!Min(KnownOf(series))] # History!NoXp
         /\ \A i \in 1..ShownBuckets : series[i] # History!NoXp => History!Min(KnownOf(series)) <= i
<1>1. KnownOf(series) \in SUBSET Nat
  BY SkillConstants DEF KnownOf
<1>2. History!Min(KnownOf(series)) \in KnownOf(series) /\ \A i \in KnownOf(series) : History!Min(KnownOf(series)) <= i
  BY <1>1, MinIs
<1> QED BY <1>2 DEF KnownOf

\* What was gained by a bucket: its XP less the first that is known.
Gained(series, i) == IF series[i] = History!NoXp THEN 0 ELSE series[i] - series[History!Min(KnownOf(series))]

LEMMA GainedSteps ==
  ASSUME NEW series, Climbs(series), NEW i \in 1..ShownBuckets
  PROVE  Gained(series, i) = IF i = 1 THEN 0
                             ELSE IF History!NoXp \in {series[i - 1], series[i]} THEN Gained(series, i - 1)
                             ELSE Gained(series, i - 1) + series[i] - series[i - 1]
<1> DEFINE m == History!Min(KnownOf(series))
<1>1. i \in Nat /\ i >= 1 /\ series[i] \in History!Xps \cup {History!NoXp} /\ History!Xps \subseteq Nat /\ History!NoXp \notin History!Xps
  BY SkillConstants, XpsAre DEF Climbs
<1>2. ASSUME series[i] # History!NoXp
      PROVE  m \in 1..i /\ series[m] # History!NoXp /\ series[m] \in Nat /\ \A j \in 1..i : series[j] # History!NoXp => m <= j
  <2>1. KnownOf(series) # {}
    BY <1>2 DEF KnownOf
  <2>2. m \in 1..ShownBuckets /\ series[m] # History!NoXp /\ \A j \in 1..ShownBuckets : series[j] # History!NoXp => m <= j
    BY <2>1, FirstKnown
  <2>3. m \in 1..i /\ \A j \in 1..i : j \in 1..ShownBuckets
    BY <1>2, <2>2, SkillConstants
  <2>4. series[m] \in Nat
    BY <1>1, <2>2 DEF Climbs
  <2> QED BY <2>2, <2>3, <2>4
<1>3. CASE i = 1
  <2>1. CASE series[i] = History!NoXp
    BY <1>3, <2>1 DEF Gained
  <2>2. CASE series[i] # History!NoXp
    <3>1. m = 1 /\ series[m] \in Nat
      BY <1>2, <1>3, <2>2
    <3> QED BY <1>3, <2>2, <3>1 DEF Gained
  <2> QED BY <2>1, <2>2
<1>4. CASE i # 1
  <2>1. i - 1 \in 1..ShownBuckets /\ series[i - 1] \in History!Xps \cup {History!NoXp}
    BY <1>1, <1>4, SkillConstants DEF Climbs
  <2>2. CASE series[i - 1] # History!NoXp
    <3>1. series[i] # History!NoXp
      BY <2>1, <2>2, SkillConstants DEF Climbs
    <3>2. series[i] \in Nat /\ series[i - 1] \in Nat /\ series[m] \in Nat
      BY <1>1, <1>2, <2>1, <2>2, <3>1
    <3>3. Gained(series, i) = series[i] - series[m] /\ Gained(series, i - 1) = series[i - 1] - series[m]
      BY <2>2, <3>1 DEF Gained
    <3>4. History!NoXp \notin {series[i - 1], series[i]}
      BY <2>2, <3>1
    <3> HIDE DEF m
    <3>5. Gained(series, i) = Gained(series, i - 1) + series[i] - series[i - 1]
      BY <3>2, <3>3
    <3> QED BY <1>4, <3>4, <3>5
  <2>3. CASE series[i - 1] = History!NoXp
    <3>1. Gained(series, i - 1) = 0 /\ History!NoXp \in {series[i - 1], series[i]}
      BY <2>3 DEF Gained
    <3>2. Gained(series, i) = 0
      <4>1. CASE series[i] = History!NoXp
        BY <4>1 DEF Gained
      <4>2. CASE series[i] # History!NoXp
        <5>1. m = i
          <6>1. m \in 1..i /\ series[m] # History!NoXp
            BY <1>2, <4>2
          <6>2. ASSUME m # i PROVE FALSE
            <7>1. m \in 1..ShownBuckets /\ m <= i - 1
              BY <6>1, <6>2, SkillConstants
            <7> QED BY <2>1, <2>3, <6>1, <7>1 DEF Climbs
          <6> QED BY <6>2
        <5> QED BY <1>2, <4>2, <5>1 DEF Gained
      <4> QED BY <4>1, <4>2
    <3> QED BY <1>4, <3>1, <3>2
  <2> QED BY <2>2, <2>3
<1> QED BY <1>3, <1>4

\* cumulativeChangeData: the loop over a series adds up to what was gained.
LEMMA GainsAre ==
  ASSUME NEW series, Climbs(series)
  PROVE  \A i \in 1..ShownBuckets : History!Gains(series)[i] = Gained(series, i)
<1> DEFINE step(f) == [i \in 1..ShownBuckets |->
             IF i = 1 THEN 0
             ELSE IF History!NoXp \in {series[i - 1], series[i]} THEN f[i - 1]
             ELSE f[i - 1] + series[i] - series[i - 1]]
           G == [i \in 1..ShownBuckets |-> Gained(series, i)]
           C == History!Gains(series)
<1>1. G = step(G)
  <2>1. \A i \in 1..ShownBuckets : G[i] = step(G)[i]
    <3> SUFFICES ASSUME NEW i \in 1..ShownBuckets PROVE G[i] = step(G)[i]
      OBVIOUS
    <3>1. CASE i = 1
      BY <3>1, GainedSteps
    <3>2. CASE i # 1
      <4>1. i - 1 \in 1..ShownBuckets
        BY <3>2, SkillConstants
      <4>2. G[i] = Gained(series, i) /\ G[i - 1] = Gained(series, i - 1)
        BY <4>1
      <4>3. step(G)[i] = IF History!NoXp \in {series[i - 1], series[i]} THEN G[i - 1] ELSE G[i - 1] + series[i] - series[i - 1]
        BY <3>2
      <4> HIDE DEF G, step
      <4> QED BY <3>2, <4>2, <4>3, GainedSteps
    <3> QED BY <3>1, <3>2
  <2> QED BY <2>1
<1>2. C = CHOOSE f : f = step(f)
  BY DEF History!Gains
<1> HIDE DEF step, G, C
<1>3. C = step(C)
  BY <1>1, <1>2
<1>4. \A i \in 1..ShownBuckets : C[i] = IF i = 1 THEN 0
                                 ELSE IF History!NoXp \in {series[i - 1], series[i]} THEN C[i - 1]
                                 ELSE C[i - 1] + series[i] - series[i - 1]
  <2>1. \A i \in 1..ShownBuckets : step(C)[i] = IF i = 1 THEN 0
                                         ELSE IF History!NoXp \in {series[i - 1], series[i]} THEN C[i - 1]
                                         ELSE C[i - 1] + series[i] - series[i - 1]
    BY DEF step
  <2> QED BY <1>3, <2>1
<1>5. ASSUME NEW n \in 1..ShownBuckets PROVE C[n] = Gained(series, n)
  <2> DEFINE P == {i \in 0..n : i = 0 \/ C[i] = Gained(series, i)}
  <2>1. 0 \in P
    BY SkillConstants
  <2>2. ASSUME NEW i \in 1..n, i - 1 \in P PROVE i \in P
    <3>1. i \in 1..ShownBuckets /\ i \in 0..n
      BY SkillConstants
    <3>2. CASE i = 1
      BY <1>4, <3>1, <3>2, GainedSteps
    <3>3. CASE i # 1
      <4>1. C[i - 1] = Gained(series, i - 1)
        BY <2>2, <3>3, SkillConstants
      <4>2. C[i] = Gained(series, i)
        BY <1>4, <3>1, <3>3, <4>1, GainedSteps
      <4> QED BY <3>1, <4>2
    <3> QED BY <3>2, <3>3
  <2> HIDE DEF P
  <2>3. n \in P
    <3>1. n \in Nat
      BY SkillConstants
    <3> QED BY <2>1, <2>2, <3>1, UpTo
  <2>4. n # 0
    BY SkillConstants
  <2> QED BY <2>3, <2>4 DEF P
<1> QED BY <1>5 DEF C

\* The levels up to an XP less those up to another are those between.
LEMMA LevelsBetween ==
  ASSUME NEW x \in Nat, NEW y \in Nat, x <= y
  PROVE  History!Level(y) - History!Level(x) = History!Cardinality({s \in LevelStarts : x < s /\ s <= y})
<1> DEFINE upTo(z) == {s \in LevelStarts : s <= z}
           between == {s \in LevelStarts : x < s /\ s <= y}
<1>1. IsFiniteSet(upTo(x)) /\ IsFiniteSet(between)
  <2>1. upTo(x) \subseteq LevelStarts /\ between \subseteq LevelStarts
    OBVIOUS
  <2> QED BY <2>1, SkillConstants, FS_Subset
<1>2. upTo(y) = upTo(x) \cup between /\ upTo(x) \cap between = {}
  <2>1. \A s \in LevelStarts : (s <= y <=> s <= x \/ (x < s /\ s <= y)) /\ ~(s <= x /\ x < s)
    BY SkillConstants
  <2> QED BY <2>1
<1>3. Cardinality(upTo(y)) = Cardinality(upTo(x)) + Cardinality(between) - Cardinality(upTo(x) \cap between)
  BY <1>1, <1>2, FS_Union
<1>4. Cardinality(upTo(x) \cap between) = 0 /\ Cardinality(upTo(x)) \in Nat /\ Cardinality(between) \in Nat
  BY <1>1, <1>2, FS_EmptySet, FS_CardinalityType
<1>7. \A T : History!Cardinality(T) = Cardinality(T)
  BY Zenon DEF History!Cardinality, Cardinality
<1>5. History!Level(y) = Cardinality(upTo(y)) /\ History!Level(x) = Cardinality(upTo(x))
  BY <1>7 DEF History!Level
<1> HIDE DEF upTo, between
<1>6. History!Level(y) - History!Level(x) = Cardinality(between)
  BY <1>3, <1>4, <1>5
<1> QED BY <1>6, <1>7 DEF between
-----------------------------------------------------------------------------
(* SkillHistory: what the samples keep of what was stored.                   *)

MaybeXp == History!Xps \cup {History!NoXp}

\* The newest sample up to a bucket is XP the player had by its end, and no less than was sampled by then.
Sampled(samples, at, until, hd, kp) ==
  \A b \in History!Buckets :
    IF Newest(samples, b) = History!NoXp THEN at[b] = History!NoXp \/ b * BucketParts < until - kp
    ELSE at[b] <= Newest(samples, b) /\ Newest(samples, b) <= hd[b]

\* Samples, of what was stored so far, and no less than what was seen then.
TableInv(samples, at, until, st, hd, kp) ==
  /\ IsTable(samples) /\ at \in [History!Buckets -> MaybeXp] /\ until \in Nat
  /\ \A b \in DOMAIN samples : b <= History!Bucket(st.at) /\ samples[b] <= st.xp
  /\ Sampled(samples, at, until, hd, kp)

\* What is stored or being written was had since; what is due has its sample, or gets it from the next aggregation.
StoredInv ==
  /\ \A b, c \in History!Buckets : b <= c => had[b] <= had[c]
  /\ \A b \in History!Buckets : (b >= History!Bucket(stored.at) => stored.xp <= had[b]) /\ historySeen[b] <= sampleDue
  /\ ~writing.there => \A b \in History!Buckets : had[b] <= stored.xp
  /\ writing.there =>
       /\ stored.xp < writing.xp /\ stored.at <= writing.at
       /\ \A b \in History!Buckets : had[b] <= writing.xp /\ (b >= History!Bucket(writing.at) => writing.xp <= had[b])
  /\ \A b \in DOMAIN rows : b <= History!Bucket(last)
  /\ sampleDue # History!NoXp =>
       \/ sampleDue = stored.xp /\ last <= stored.at
       \/ \E t \in DOMAIN rows : sampleDue <= rows[t] /\ \A b \in DOMAIN rows : b <= t

HistoryInv ==
  /\ History!GraphAgrees /\ StoredInv
  /\ TableInv(rows, historySeen, last, stored, had, keeps)
  /\ asked.there => TableInv(asked.table, asked.seen, asked.last, stored, had, keeps)

LEMMA HistoryTypes ==
  ASSUME History!TypeOK
  PROVE  /\ historyNow \in Nat /\ keeps \in Nat /\ last \in Nat /\ last <= historyNow /\ historyNow <= MaxSkillTime
         /\ stored.xp \in MaybeXp /\ stored.at \in Nat /\ stored.at <= historyNow
         /\ zone \in ViewerZones /\ sampleDue \in MaybeXp /\ sampleDue <= stored.xp
         /\ writing.there \in BOOLEAN /\ (writing.there => writing.xp \in History!Xps /\ writing.at \in Nat /\ writing.at <= historyNow)
         /\ had \in [History!Buckets -> MaybeXp] /\ historySeen \in [History!Buckets -> MaybeXp] /\ MaybeXp \subseteq Int
         /\ History!Bucket(stored.at) \in History!Buckets /\ History!Bucket(historyNow) \in History!Buckets /\ History!Bucket(last) \in History!Buckets
         /\ History!Bucket(stored.at) <= History!Bucket(historyNow) /\ History!Bucket(last) <= History!Bucket(historyNow)
         /\ \A x \in MaybeXp : x # History!NoXp => x \in Nat /\ x \in History!Xps
         /\ \A x \in MaybeXp : History!NoXp <= x
<1>1. /\ historyNow \in Nat /\ keeps \in Nat /\ last \in Nat /\ last <= historyNow /\ historyNow <= MaxSkillTime
      /\ stored.xp \in MaybeXp /\ stored.at \in Nat /\ stored.at <= historyNow
      /\ had \in [History!Buckets -> MaybeXp] /\ historySeen \in [History!Buckets -> MaybeXp]
  BY SkillConstants DEF History!TypeOK, MaybeXp
<1>6. zone \in ViewerZones /\ sampleDue \in MaybeXp /\ sampleDue <= stored.xp
  <2>1. sampleDue \in {History!NoXp} \cup 0..stored.xp /\ zone \in ViewerZones
    BY DEF History!TypeOK
  <2>2. MaybeXp \subseteq Int /\ \A x \in MaybeXp : History!NoXp <= x /\ x <= MaxSkillXp
    BY SkillConstants, XpsAre DEF MaybeXp
  <2> QED BY <1>1, <2>1, <2>2, SkillConstants, XpsAre DEF MaybeXp
<1>7. writing.there \in BOOLEAN /\ (writing.there => writing.xp \in History!Xps /\ writing.at \in Nat /\ writing.at <= historyNow)
  <2>1. CASE writing = History!NoWrite
    <3>1. writing.there = FALSE
      BY <2>1 DEF History!NoWrite
    <3> QED BY <3>1
  <2>2. CASE writing \in [there : {TRUE}, xp : History!Xps, at : 0..historyNow]
    <3>1. writing.there \in {TRUE} /\ writing.xp \in History!Xps /\ writing.at \in 0..historyNow
      BY <2>2
    <3>2. writing.at \in Nat /\ writing.at <= historyNow
      BY <1>1, <3>1
    <3> QED BY <3>1, <3>2, Zenon
  <2> QED BY <2>1, <2>2 DEF History!TypeOK
<1>2. History!Bucket(historyNow) <= History!Bucket(MaxSkillTime) /\ History!Bucket(historyNow) \in Nat
  BY <1>1, BucketGrows, SkillConstants
<1>3. History!Bucket(stored.at) <= History!Bucket(historyNow) /\ History!Bucket(last) <= History!Bucket(historyNow) /\ History!Bucket(stored.at) \in Nat /\ History!Bucket(last) \in Nat
  BY <1>1, BucketGrows
<1>4. History!Bucket(stored.at) \in History!Buckets /\ History!Bucket(historyNow) \in History!Buckets /\ History!Bucket(last) \in History!Buckets
  BY <1>2, <1>3, BucketsAre
<1>5. /\ MaybeXp \subseteq Int /\ \A x \in MaybeXp : x # History!NoXp => x \in Nat /\ x \in History!Xps
      /\ \A x \in MaybeXp : History!NoXp <= x
  BY XpsAre DEF MaybeXp
<1> QED BY <1>1, <1>3, <1>4, <1>5, <1>6, <1>7

\* From the last bucket that has a sample on, that one is the newest.
LEMMA NewestAtTop ==
  ASSUME NEW samples, IsTable(samples), NEW t \in DOMAIN samples, \A b \in DOMAIN samples : b <= t, NEW b \in Int, t <= b
  PROVE  Newest(samples, b) = samples[t] /\ Newest(samples, b) \in History!Xps
<1>1. t \in UpToBucket(samples, b)
  BY DEF UpToBucket
<1>2. PICK c \in UpToBucket(samples, b) :
        /\ c \in History!Buckets /\ Newest(samples, b) = samples[c] /\ Newest(samples, b) \in History!Xps
        /\ \A d \in UpToBucket(samples, b) : d <= c
  BY <1>1, NewestIs
<1>3. t = c
  <2>1. t \in Nat /\ c \in Nat
    BY <1>2, BucketsAre DEF IsTable
  <2>2. t <= c /\ c <= t
    BY <1>1, <1>2 DEF UpToBucket
  <2> QED BY <2>1, <2>2
<1> QED BY <1>2, <1>3

\* What was answered before stays true of what the player had.
LEMMA TableLasts ==
  ASSUME NEW samples, NEW at, NEW until, NEW st, NEW hd, NEW kp, NEW st1, NEW hd1, NEW kp1,
         TableInv(samples, at, until, st, hd, kp),
         st.at \in Nat, st1.at \in Nat, st.xp \in MaybeXp, st1.xp \in MaybeXp,
         st.at <= st1.at, st.xp <= st1.xp, kp1 = kp,
         hd \in [History!Buckets -> MaybeXp], hd1 \in [History!Buckets -> MaybeXp], \A b \in History!Buckets : hd[b] <= hd1[b]
  PROVE  TableInv(samples, at, until, st1, hd1, kp1)
<1>1. /\ IsTable(samples) /\ at \in [History!Buckets -> MaybeXp] /\ until \in Nat
  BY DEF TableInv
<1>2. History!Bucket(st.at) \in Nat /\ History!Bucket(st1.at) \in Nat /\ History!Bucket(st.at) <= History!Bucket(st1.at)
  BY BucketGrows
<1>3. \A b \in DOMAIN samples : b <= History!Bucket(st1.at) /\ samples[b] <= st1.xp
  <2> SUFFICES ASSUME NEW b \in DOMAIN samples PROVE b <= History!Bucket(st1.at) /\ samples[b] <= st1.xp
    OBVIOUS
  <2>1. b <= History!Bucket(st.at) /\ samples[b] <= st.xp
    BY DEF TableInv
  <2>2. b \in Nat /\ samples[b] \in Nat /\ st.xp \in Int /\ st1.xp \in Int
    BY <1>1, BucketsAre, XpsAre DEF IsTable, MaybeXp
  <2> QED BY <1>2, <2>1, <2>2
<1>4. Sampled(samples, at, until, hd1, kp1)
  <2> SUFFICES ASSUME NEW b \in History!Buckets, Newest(samples, b) # History!NoXp PROVE Newest(samples, b) <= hd1[b]
    BY DEF TableInv, Sampled
  <2>1. Newest(samples, b) <= hd[b] /\ hd[b] <= hd1[b]
    BY DEF TableInv, Sampled
  <2>2. hd[b] \in Int /\ hd1[b] \in Int /\ Newest(samples, b) \in Int
    <3>1. b \in Int
      BY BucketsAre
    <3> QED BY <1>1, <3>1, NewestIs, XpsAre DEF MaybeXp
  <2> QED BY <2>1, <2>2
<1> QED BY <1>1, <1>3, <1>4 DEF TableInv

LEMMA StartWriteKeeps == ASSUME HistoryInv, NEW xp \in History!Xps, History!StartWrite(xp), ~historyGraph.there PROVE HistoryInv'
<1>1. History!TypeOK /\ StoredInv
  BY DEF HistoryInv, History!GraphAgrees
<1> DEFINE B == History!Bucket(historyNow)
<1>2. /\ ~writing.there /\ xp > stored.xp /\ xp \in MaybeXp /\ xp \in Nat /\ writing' = [there |-> TRUE, xp |-> xp, at |-> historyNow]
      /\ had' = [b \in History!Buckets |-> IF b >= B THEN xp ELSE had[b]]
      /\ UNCHANGED <<historyNow, keeps, zone, stored, rows, last, asked, historyGraph, sampleDue, historySeen>>
  BY XpsAre DEF History!StartWrite, History!FromNow, MaybeXp
<1>3. writing'.there = TRUE /\ writing'.xp = xp /\ writing'.at = historyNow
  BY <1>2
<1>4. /\ stored.xp \in MaybeXp /\ stored.xp \in Int /\ stored.xp < xp /\ B \in Nat /\ historyNow \in Nat
      /\ stored.at \in Nat /\ stored.at <= historyNow /\ History!Bucket(stored.at) \in Nat /\ History!Bucket(stored.at) <= B
  <2>1. /\ stored.xp \in MaybeXp /\ stored.xp \in Int /\ B \in Nat /\ historyNow \in Nat /\ stored.at \in Nat /\ stored.at <= historyNow
        /\ History!Bucket(stored.at) \in Nat /\ History!Bucket(stored.at) <= B
    BY <1>1, HistoryTypes, BucketsAre
  <2> QED BY <1>2, <2>1
<1> HIDE DEF B
<1>5. \A b \in History!Buckets : /\ b \in Nat /\ had[b] \in MaybeXp /\ had[b] \in Int /\ had[b] <= stored.xp
                         /\ had'[b] = IF b >= B THEN xp ELSE had[b]
  BY <1>1, <1>2, HistoryTypes, BucketsAre DEF StoredInv
<1>6. \A b \in History!Buckets : had'[b] \in MaybeXp /\ had'[b] \in Int /\ had[b] <= had'[b] /\ had'[b] <= xp
  <2> SUFFICES ASSUME NEW b \in History!Buckets PROVE had'[b] \in MaybeXp /\ had'[b] \in Int /\ had[b] <= had'[b] /\ had'[b] <= xp
    OBVIOUS
  <2>1. had[b] \in MaybeXp /\ had[b] \in Int /\ had[b] <= stored.xp /\ had'[b] = IF b >= B THEN xp ELSE had[b]
    BY <1>5
  <2>2. CASE b >= B
    BY <1>2, <1>4, <2>1, <2>2
  <2>3. CASE ~(b >= B)
    BY <1>2, <1>4, <2>1, <2>3
  <2> QED BY <2>2, <2>3
<1>7. had' \in [History!Buckets -> MaybeXp]
  BY <1>2, <1>6
<1>8. History!TypeOK'
  <2>1. writing' \in [there : {TRUE}, xp : History!Xps, at : 0..historyNow'] /\ had' \in [History!Buckets -> History!Xps \cup {History!NoXp}]
    BY <1>2, <1>4, <1>7 DEF MaybeXp
  <2> QED BY <1>1, <1>2, <2>1 DEF History!TypeOK, History!NoWrite
<1>9. History!GraphAgrees'
  BY <1>2, <1>8 DEF History!GraphAgrees
<1>10. StoredInv'
  <2>1. \A b, c \in History!Buckets : b <= c => had'[b] <= had'[c]
    <3> SUFFICES ASSUME NEW b \in History!Buckets, NEW c \in History!Buckets, b <= c PROVE had'[b] <= had'[c]
      OBVIOUS
    <3>1. had[b] <= had[c] /\ had[b] <= xp
      BY <1>1, <1>2, <1>4, <1>5 DEF StoredInv
    <3> QED BY <1>2, <1>4, <1>5, <3>1
  <2>2. \A b \in History!Buckets : (b >= History!Bucket(stored'.at) => stored'.xp <= had'[b]) /\ historySeen'[b] <= sampleDue'
    <3> SUFFICES ASSUME NEW b \in History!Buckets PROVE (b >= History!Bucket(stored.at) => stored.xp <= had'[b]) /\ historySeen[b] <= sampleDue
      BY <1>2
    <3>1. (b >= History!Bucket(stored.at) => stored.xp <= had[b]) /\ historySeen[b] <= sampleDue
      BY <1>1 DEF StoredInv
    <3> QED BY <1>4, <1>5, <1>6, <3>1
  <2>3. \A b \in History!Buckets : had'[b] <= writing'.xp /\ (b >= History!Bucket(writing'.at) => writing'.xp <= had'[b])
    BY <1>2, <1>3, <1>5, <1>6 DEF B
  <2> QED BY <1>1, <1>2, <1>3, <1>4, <2>1, <2>2, <2>3 DEF StoredInv
<1>11. ASSUME NEW samples, NEW at, NEW until, TableInv(samples, at, until, stored, had, keeps)
       PROVE  TableInv(samples, at, until, stored', had', keeps')
  <2>1. stored'.at = stored.at /\ stored'.xp = stored.xp /\ keeps' = keeps /\ stored.at <= stored.at /\ stored.xp <= stored.xp
    BY <1>2, <1>4
  <2> QED BY <1>1, <1>4, <1>6, <1>7, <1>11, <2>1, HistoryTypes, TableLasts
<1>12. TableInv(rows', historySeen', last', stored', had', keeps')
  BY <1>2, <1>11 DEF HistoryInv
<1>13. asked'.there => TableInv(asked'.table, asked'.seen, asked'.last, stored', had', keeps')
  BY <1>2, <1>11 DEF HistoryInv
<1> QED BY <1>9, <1>10, <1>12, <1>13 DEF HistoryInv

LEMMA CommitKeeps == ASSUME HistoryInv, History!Commit, ~historyGraph.there PROVE HistoryInv'
<1>1. History!TypeOK /\ StoredInv
  BY DEF HistoryInv, History!GraphAgrees
<1>2. /\ writing.there /\ writing' = History!NoWrite /\ writing'.there = FALSE
      /\ stored' = [xp |-> writing.xp, at |-> writing.at] /\ stored'.xp = writing.xp /\ stored'.at = writing.at
      /\ sampleDue' = IF writing.at >= last THEN writing.xp ELSE sampleDue
      /\ UNCHANGED <<historyNow, keeps, zone, rows, last, asked, historyGraph, had, historySeen>>
  BY DEF History!Commit, History!NoWrite
<1>3. /\ writing.xp \in History!Xps /\ writing.xp \in Nat /\ writing.xp \in MaybeXp /\ writing.at \in Nat /\ writing.at <= historyNow /\ last \in Nat
      /\ stored.xp \in MaybeXp /\ stored.xp \in Int /\ stored.xp < writing.xp
      /\ stored.at \in Nat /\ stored.at <= writing.at /\ sampleDue \in MaybeXp /\ sampleDue \in Int /\ sampleDue <= stored.xp
      /\ historyNow \in Nat
  BY <1>1, <1>2, HistoryTypes, XpsAre DEF StoredInv, MaybeXp
<1>4. sampleDue <= sampleDue' /\ sampleDue' \in {History!NoXp} \cup 0..stored'.xp
  <2>1. sampleDue \in {History!NoXp} \cup 0..writing.xp /\ writing.xp \in 0..writing.xp /\ sampleDue <= writing.xp
    BY <1>3, XpsAre DEF MaybeXp
  <2> QED BY <1>2, <1>3, <2>1
<1>5. History!TypeOK'
  <2>1. stored' \in [xp : History!Xps \cup {History!NoXp}, at : 0..historyNow']
    BY <1>2, <1>3
  <2> QED BY <1>1, <1>2, <1>4, <2>1 DEF History!TypeOK
<1>6. History!GraphAgrees'
  BY <1>2, <1>5 DEF History!GraphAgrees
<1>7. StoredInv'
  <2>1. \A b \in History!Buckets : (b >= History!Bucket(stored'.at) => stored'.xp <= had'[b]) /\ had'[b] <= stored'.xp
    BY <1>1, <1>2 DEF StoredInv
  <2>2. \A b \in History!Buckets : historySeen'[b] <= sampleDue'
    <3> SUFFICES ASSUME NEW b \in History!Buckets PROVE historySeen[b] <= sampleDue'
      BY <1>2
    <3>1. historySeen[b] <= sampleDue /\ historySeen[b] \in Int
      BY <1>1, HistoryTypes DEF StoredInv
    <3>2. sampleDue' \in Int
      BY <1>2, <1>3
    <3> QED BY <1>3, <1>4, <3>1, <3>2
  <2>3. CASE writing.at >= last
    <3>1. sampleDue' = stored'.xp /\ last' <= stored'.at
      BY <1>2, <1>3, <2>3
    <3> QED BY <1>1, <1>2, <2>1, <2>2, <3>1 DEF StoredInv
  <2>4. CASE ~(writing.at >= last)
    <3>1. sampleDue' = sampleDue /\ ~(last <= stored.at)
      BY <1>2, <1>3, <2>4
    <3>2. sampleDue' # History!NoXp => \E t \in DOMAIN rows' : sampleDue' <= rows'[t] /\ \A b \in DOMAIN rows' : b <= t
      BY <1>1, <1>2, <3>1 DEF StoredInv
    <3> QED BY <1>1, <1>2, <2>1, <2>2, <3>2 DEF StoredInv
  <2> QED BY <2>3, <2>4
<1>8. ASSUME NEW samples, NEW at, NEW until, TableInv(samples, at, until, stored, had, keeps)
      PROVE  TableInv(samples, at, until, stored', had', keeps')
  <2>1. /\ stored'.xp \in MaybeXp /\ stored'.at \in Nat /\ stored.at <= stored'.at /\ stored.xp <= stored'.xp /\ keeps' = keeps /\ had' = had
        /\ had \in [History!Buckets -> MaybeXp] /\ \A b \in History!Buckets : had[b] <= had[b]
    <3>1. had \in [History!Buckets -> MaybeXp] /\ MaybeXp \subseteq Int
      BY <1>1, HistoryTypes
    <3>2. \A b \in History!Buckets : had[b] \in Int
      BY <3>1
    <3>3. stored.xp <= writing.xp
      BY <1>3
    <3> QED BY <1>2, <1>3, <3>1, <3>2, <3>3
  <2> QED BY <1>3, <1>8, <2>1, TableLasts
<1>9. TableInv(rows', historySeen', last', stored', had', keeps')
  BY <1>2, <1>8 DEF HistoryInv
<1>10. asked'.there => TableInv(asked'.table, asked'.seen, asked'.last, stored', had', keeps')
  BY <1>2, <1>8 DEF HistoryInv
<1> QED BY <1>6, <1>7, <1>9, <1>10 DEF HistoryInv

\* An aggregation samples what is stored, unless it is older than the last one: then only what was missed is not in the table.
LEMMA AggregateKeeps == ASSUME HistoryInv, History!Aggregate, ~historyGraph.there PROVE HistoryInv'
<1>1. History!TypeOK /\ StoredInv
  BY DEF HistoryInv, History!GraphAgrees
<1> DEFINE S == History!Bucket(stored.at)
           B == History!Bucket(historyNow)
<1>2. /\ last' = historyNow /\ historySeen' = [b \in History!Buckets |-> IF b >= B THEN sampleDue ELSE historySeen[b]]
      /\ UNCHANGED <<historyNow, keeps, zone, stored, writing, asked, historyGraph, sampleDue, had>>
  BY DEF History!Aggregate, History!FromNow
<1>3. /\ S \in Nat /\ B \in Nat /\ S \in History!Buckets /\ S <= B /\ historyNow \in Nat /\ last \in Nat /\ last <= historyNow
      /\ stored.xp \in MaybeXp /\ stored.xp \in Int /\ sampleDue \in MaybeXp /\ sampleDue \in Int /\ sampleDue <= stored.xp
      /\ History!Bucket(last) \in Nat /\ History!Bucket(last) <= B /\ stored.at \in Nat
  BY <1>1, HistoryTypes, BucketsAre
<1>4. \A b \in History!Buckets : /\ b \in Nat /\ historySeen[b] \in MaybeXp /\ historySeen[b] \in Int /\ historySeen[b] <= sampleDue
                         /\ historySeen'[b] = IF b >= B THEN sampleDue ELSE historySeen[b]
  BY <1>1, <1>2, HistoryTypes, BucketsAre DEF StoredInv
<1>5. \A b \in History!Buckets : historySeen'[b] \in MaybeXp /\ historySeen'[b] \in Int /\ historySeen'[b] <= sampleDue
  BY <1>3, <1>4
<1>6. historySeen' \in [History!Buckets -> MaybeXp]
  BY <1>2, <1>5
<1>7. /\ IsTable(rows) /\ \A b \in DOMAIN rows : b \in Nat /\ rows[b] \in Nat /\ b <= S /\ rows[b] <= stored.xp
  BY BucketsAre, XpsAre DEF HistoryInv, TableInv, IsTable
<1>8. ASSUME NEW b \in History!Buckets
      PROVE  /\ IF Newest(rows, b) = History!NoXp THEN historySeen[b] = History!NoXp \/ b * BucketParts < historyNow - keeps
                ELSE historySeen[b] <= Newest(rows, b) /\ Newest(rows, b) <= had[b]
             /\ Newest(rows, b) \in MaybeXp
  <2>1. IF Newest(rows, b) = History!NoXp THEN historySeen[b] = History!NoXp \/ b * BucketParts < last - keeps
        ELSE historySeen[b] <= Newest(rows, b) /\ Newest(rows, b) <= had[b]
    BY DEF HistoryInv, TableInv, Sampled
  <2>2. b \in Int /\ b \in Nat
    BY <1>4
  <2>3. b * BucketParts < last - keeps => b * BucketParts < historyNow - keeps
    <3>1. b * BucketParts \in Int /\ keeps \in Nat
      BY <1>1, <2>2, HistoryTypes, TimesGrows, SkillConstants
    <3> QED BY <1>3, <3>1
  <2>4. Newest(rows, b) \in MaybeXp
    BY <1>7, <2>2, NewestIs DEF MaybeXp
  <2> QED BY <2>1, <2>3, <2>4
<1>9. /\ IsTable(rows') /\ \A b \in DOMAIN rows' : b <= S /\ b <= B /\ rows'[b] <= stored.xp
      /\ sampleDue # History!NoXp => \E t \in DOMAIN rows' : sampleDue <= rows'[t] /\ \A b \in DOMAIN rows' : b <= t
      /\ \A b \in History!Buckets : IF Newest(rows', b) = History!NoXp THEN historySeen'[b] = History!NoXp \/ b * BucketParts < historyNow - keeps
                                    ELSE historySeen'[b] <= Newest(rows', b) /\ Newest(rows', b) <= had[b]
  <2>1. CASE stored.xp = History!NoXp \/ stored.at < last
    <3>1. rows' = rows
      BY <2>1 DEF History!Aggregate
    <3>2. sampleDue # History!NoXp => \E t \in DOMAIN rows : sampleDue <= rows[t] /\ \A b \in DOMAIN rows : b <= t
      <4>1. CASE stored.xp = History!NoXp
        BY <1>3, <4>1, XpsAre DEF MaybeXp
      <4>2. CASE stored.at < last
        BY <1>1, <1>3, <4>2 DEF StoredInv
      <4> QED BY <2>1, <4>1, <4>2
    <3>3. ASSUME NEW b \in History!Buckets
          PROVE  IF Newest(rows, b) = History!NoXp THEN historySeen'[b] = History!NoXp \/ b * BucketParts < historyNow - keeps
                 ELSE historySeen'[b] <= Newest(rows, b) /\ Newest(rows, b) <= had[b]
      <4>1. CASE ~(b >= B)
        BY <1>4, <1>8, <4>1
      <4>2. CASE b >= B /\ sampleDue = History!NoXp
        <5>1. historySeen'[b] = History!NoXp
          BY <1>4, <4>2
        <5>2. Newest(rows, b) # History!NoXp => History!NoXp <= Newest(rows, b) /\ Newest(rows, b) <= had[b]
          BY <1>8, XpsAre DEF MaybeXp
        <5> QED BY <5>1, <5>2
      <4>3. CASE b >= B /\ sampleDue # History!NoXp
        <5>1. PICK t \in DOMAIN rows : sampleDue <= rows[t] /\ \A d \in DOMAIN rows : d <= t
          BY <3>2, <4>3
        <5>2. t <= b /\ b \in Int
          BY <1>3, <1>4, <1>7, <4>3
        <5>3. Newest(rows, b) = rows[t] /\ Newest(rows, b) \in History!Xps
          BY <1>7, <5>1, <5>2, NewestAtTop
        <5>4. historySeen'[b] = sampleDue /\ Newest(rows, b) # History!NoXp
          BY <1>4, <4>3, <5>3, XpsAre
        <5> QED BY <1>8, <5>1, <5>3, <5>4
      <4> QED BY <4>1, <4>2, <4>3
    <3>4. \A b \in DOMAIN rows : b <= S /\ b <= B /\ rows[b] <= stored.xp
      BY <1>3, <1>7
    <3> QED BY <1>7, <3>1, <3>2, <3>3, <3>4
  <2>2. CASE ~(stored.xp = History!NoXp \/ stored.at < last)
    <3>1. rows' = [b \in DOMAIN rows \cup {S} |-> IF b = S THEN stored.xp ELSE rows[b]]
      BY <2>2 DEF History!Aggregate
    <3>2. /\ DOMAIN rows' = DOMAIN rows \cup {S} /\ rows'[S] = stored.xp
          /\ \A b \in DOMAIN rows : rows'[b] = IF b = S THEN stored.xp ELSE rows[b]
      BY <3>1
    <3>3. stored.xp \in History!Xps /\ stored.xp \in Nat
      BY <1>3, <2>2, XpsAre DEF MaybeXp
    <3>4. IsTable(rows')
      <4>1. DOMAIN rows' \subseteq History!Buckets /\ \A b \in DOMAIN rows' : rows'[b] \in History!Xps
        BY <1>3, <1>7, <3>2, <3>3 DEF IsTable
      <4>2. ASSUME NEW b \in DOMAIN rows', NEW c \in DOMAIN rows', b <= c PROVE rows'[b] <= rows'[c]
        <5>1. CASE c = S
          BY <1>7, <3>2, <3>3, <5>1
        <5>2. CASE c # S
          <6>1. c \in DOMAIN rows /\ c < S /\ c \in Nat
            BY <1>3, <1>7, <3>2, <5>2
          <6>2. b # S /\ b \in DOMAIN rows
            BY <1>3, <3>2, <4>2, <6>1
          <6> QED BY <1>7, <3>2, <4>2, <5>2, <6>1, <6>2 DEF IsTable
        <5> QED BY <5>1, <5>2
      <4> QED BY <4>1, <4>2 DEF IsTable
    <3>5. \A b \in DOMAIN rows' : b <= S /\ b <= B /\ rows'[b] <= stored.xp
      BY <1>3, <1>7, <3>2, <3>3
    <3>6. ASSUME NEW b \in Int, b < S PROVE Newest(rows', b) = Newest(rows, b)
      <4>1. UpToBucket(rows', b) = UpToBucket(rows, b)
        BY <1>3, <3>2, <3>6 DEF UpToBucket
      <4>2. CASE UpToBucket(rows, b) = {}
        BY <4>1, <4>2 DEF Newest
      <4>3. CASE UpToBucket(rows, b) # {}
        <5>1. UpToBucket(rows, b) \in SUBSET Nat /\ \A d \in UpToBucket(rows, b) : d <= S
          BY <1>7 DEF UpToBucket
        <5>2. History!Max(UpToBucket(rows, b)) \in UpToBucket(rows, b)
          BY <1>3, <4>3, <5>1, MaxIs
        <5>3. History!Max(UpToBucket(rows, b)) \in DOMAIN rows /\ History!Max(UpToBucket(rows, b)) # S
          BY <1>3, <3>6, <5>2 DEF UpToBucket
        <5> QED BY <3>2, <4>1, <4>3, <5>3 DEF Newest
      <4> QED BY <4>2, <4>3
    <3>7. S \in DOMAIN rows' /\ sampleDue <= rows'[S] /\ \A b \in DOMAIN rows' : b <= S
      BY <1>3, <3>2, <3>5
    <3>8. ASSUME NEW b \in History!Buckets
          PROVE  IF Newest(rows', b) = History!NoXp THEN historySeen'[b] = History!NoXp \/ b * BucketParts < historyNow - keeps
                 ELSE historySeen'[b] <= Newest(rows', b) /\ Newest(rows', b) <= had[b]
      <4>1. CASE b < S
        <5>1. Newest(rows', b) = Newest(rows, b) /\ historySeen'[b] = historySeen[b]
          BY <1>3, <1>4, <3>6, <4>1
        <5> QED BY <1>8, <5>1
      <4>2. CASE b >= S
        <5>1. Newest(rows', b) = stored.xp
          <6>1. b \in Int /\ S <= b
            BY <1>3, <1>4, <4>2
          <6> QED BY <3>2, <3>4, <3>7, <6>1, NewestAtTop
        <5>2. stored.xp <= had[b]
          BY <1>1, <4>2 DEF StoredInv
        <5>3. historySeen'[b] <= stored.xp
          <6>1. historySeen'[b] <= sampleDue /\ historySeen'[b] \in Int
            BY <1>5
          <6> QED BY <1>3, <6>1
        <5> QED BY <2>2, <5>1, <5>2, <5>3
      <4> QED BY <1>3, <1>4, <4>1, <4>2
    <3> QED BY <3>4, <3>5, <3>7, <3>8
  <2> QED BY <2>1, <2>2
<1>10. TableInv(rows', historySeen', last', stored', had', keeps')
  <2>1. Sampled(rows', historySeen', historyNow, had, keeps)
    BY <1>9 DEF Sampled
  <2>2. /\ rows' = rows' /\ last' = historyNow /\ stored' = stored /\ had' = had /\ keeps' = keeps
    BY <1>2
  <2> QED BY <1>3, <1>6, <1>9, <2>1, <2>2 DEF TableInv
<1>11. StoredInv'
  <2>1. \A b \in History!Buckets : historySeen'[b] <= sampleDue'
    BY <1>2, <1>5
  <2>2. \A b \in DOMAIN rows' : b <= History!Bucket(last')
    BY <1>2, <1>9
  <2>3. sampleDue' # History!NoXp => \E t \in DOMAIN rows' : sampleDue' <= rows'[t] /\ \A b \in DOMAIN rows' : b <= t
    BY <1>2, <1>9
  <2> QED BY <1>1, <1>2, <2>1, <2>2, <2>3 DEF StoredInv
<1>12. History!TypeOK'
  <2>1. DOMAIN rows' \subseteq History!Buckets /\ \A b \in DOMAIN rows' : rows'[b] \in History!Xps
    BY <1>9 DEF IsTable
  <2>2. last' \in 0..historyNow' /\ historySeen' \in [History!Buckets -> History!Xps \cup {History!NoXp}]
    BY <1>2, <1>3, <1>6 DEF MaybeXp
  <2> QED BY <1>1, <1>2, <2>1, <2>2 DEF History!TypeOK
<1>13. History!GraphAgrees'
  BY <1>2, <1>12 DEF History!GraphAgrees
<1>14. asked'.there => TableInv(asked'.table, asked'.seen, asked'.last, stored', had', keeps')
  BY <1>2 DEF HistoryInv
<1> QED BY <1>10, <1>11, <1>13, <1>14 DEF HistoryInv

\* What retention leaves: the same newest sample, or none up to a bucket that is too old.
LEMMA NewestLeft ==
  ASSUME HistoryInv, History!Retain, NEW b \in History!Buckets
  PROVE  \/ Newest(rows', b) = Newest(rows, b)
         \/ Newest(rows', b) = History!NoXp /\ b * BucketParts < last - keeps
<1> DEFINE old == {d \in DOMAIN rows : d * BucketParts < last - keeps}
<1>1. /\ DOMAIN rows' = DOMAIN rows \ History!Expired(rows) /\ \A d \in DOMAIN rows' : rows'[d] = rows[d]
      /\ History!Expired(rows) = {d \in old : \E newer \in old : newer > d}
  BY DEF History!Retain, History!Expired
<1>2. /\ IsTable(rows) /\ DOMAIN rows \subseteq Nat /\ b \in Nat /\ b \in Int
      /\ BucketParts \in Nat \ {0} /\ last - keeps \in Int
  <2>1. History!TypeOK
    BY DEF HistoryInv, History!GraphAgrees
  <2>2. last \in Nat /\ keeps \in Nat
    BY <2>1, HistoryTypes
  <2> QED BY <2>2, BucketsAre, SkillConstants DEF HistoryInv, TableInv, IsTable
<1>3. UpToBucket(rows', b) \subseteq UpToBucket(rows, b)
  BY <1>1 DEF UpToBucket
<1>4. CASE UpToBucket(rows, b) = {}
  BY <1>3, <1>4 DEF Newest
<1>5. CASE UpToBucket(rows, b) # {}
  <2> DEFINE m == History!Max(UpToBucket(rows, b))
  <2>1. m \in UpToBucket(rows, b) /\ \A d \in UpToBucket(rows, b) : d <= m
    <3>1. UpToBucket(rows, b) \in SUBSET Nat /\ \A d \in UpToBucket(rows, b) : d <= b
      BY <1>2 DEF UpToBucket
    <3> QED BY <1>2, <1>5, <3>1, MaxIs
  <2>2. m \in DOMAIN rows /\ m <= b /\ m \in Nat
    BY <1>2, <2>1 DEF UpToBucket
  <2>3. CASE m \notin History!Expired(rows)
    <3>1. m \in UpToBucket(rows', b)
      BY <1>1, <2>2, <2>3 DEF UpToBucket
    <3>2. UpToBucket(rows', b) \in SUBSET Nat /\ \A d \in UpToBucket(rows', b) : d <= m
      BY <1>2, <1>3, <2>1 DEF UpToBucket
    <3>3. /\ History!Max(UpToBucket(rows', b)) \in UpToBucket(rows', b)
          /\ \A d \in UpToBucket(rows', b) : d <= History!Max(UpToBucket(rows', b))
      BY <2>2, <3>1, <3>2, MaxIs
    <3>4. History!Max(UpToBucket(rows', b)) = m
      <4>1. History!Max(UpToBucket(rows', b)) <= m /\ m <= History!Max(UpToBucket(rows', b)) /\ History!Max(UpToBucket(rows', b)) \in Nat
        BY <3>1, <3>2, <3>3
      <4> QED BY <2>2, <4>1
    <3>5. m \in DOMAIN rows' /\ rows'[m] = rows[m]
      BY <1>1, <2>2, <2>3
    <3> HIDE DEF m
    <3>6. Newest(rows', b) = rows'[m]
      BY <3>1, <3>4 DEF Newest
    <3>7. Newest(rows, b) = rows[m]
      BY <1>5 DEF Newest, m
    <3> QED BY <3>5, <3>6, <3>7
  <2>4. CASE m \in History!Expired(rows)
    <3>1. PICK e \in old : e > m
      BY <1>1, <2>4
    <3>2. e \in DOMAIN rows /\ e \in Nat /\ e * BucketParts < last - keeps
      BY <1>2, <3>1
    <3>3. b < e
      <4>1. e \notin UpToBucket(rows, b)
        BY <2>1, <2>2, <3>1, <3>2
      <4> QED BY <1>2, <3>2, <4>1 DEF UpToBucket
    <3>4. ASSUME NEW d \in Nat, d <= b PROVE d * BucketParts < last - keeps
      <4>1. d * BucketParts <= e * BucketParts /\ d * BucketParts \in Int /\ e * BucketParts \in Int
        <5>1. d \in Int /\ e \in Int /\ d <= e
          BY <1>2, <3>2, <3>3, <3>4
        <5>2. e <= e
          BY <5>1
        <5> QED BY <1>2, <5>1, <5>2, TimesGrows
      <4> QED BY <1>2, <3>2, <4>1
    <3>5. UpToBucket(rows', b) = {}
      <4> SUFFICES ASSUME NEW d \in UpToBucket(rows', b) PROVE FALSE
        OBVIOUS
      <4>1. d \in UpToBucket(rows, b) /\ d \in DOMAIN rows' /\ d \in DOMAIN rows /\ d \in Nat /\ d <= b
        BY <1>1, <1>2, <1>3 DEF UpToBucket
      <4>2. d \in old /\ e > d
        BY <1>2, <3>2, <3>3, <3>4, <4>1
      <4> QED BY <1>1, <3>1, <4>1, <4>2
    <3>6. Newest(rows', b) = History!NoXp
      BY <3>5 DEF Newest
    <3>7. b * BucketParts < last - keeps
      BY <1>2, <3>4
    <3> QED BY <3>6, <3>7
  <2> QED BY <2>3, <2>4
<1> QED BY <1>4, <1>5

LEMMA RetainKeeps == ASSUME HistoryInv, History!Retain, ~historyGraph.there PROVE HistoryInv'
<1>1. History!TypeOK
  BY DEF HistoryInv, History!GraphAgrees
<1>2. /\ DOMAIN rows' \subseteq DOMAIN rows /\ \A d \in DOMAIN rows' : rows'[d] = rows[d]
      /\ UNCHANGED <<historyNow, keeps, zone, stored, writing, last, asked, historyGraph, sampleDue, had, historySeen>>
  BY DEF History!Retain
<1>3. IsTable(rows) /\ TableInv(rows, historySeen, last, stored, had, keeps)
  BY DEF HistoryInv, TableInv
<1>4. IsTable(rows') /\ \A d \in DOMAIN rows' : d <= History!Bucket(stored.at) /\ rows'[d] <= stored.xp
  BY <1>2, <1>3 DEF IsTable, TableInv
<1>5. Sampled(rows', historySeen, last, had, keeps)
  <2> SUFFICES ASSUME NEW b \in History!Buckets
               PROVE  IF Newest(rows', b) = History!NoXp THEN historySeen[b] = History!NoXp \/ b * BucketParts < last - keeps
                      ELSE historySeen[b] <= Newest(rows', b) /\ Newest(rows', b) <= had[b]
    BY DEF Sampled
  <2>1. IF Newest(rows, b) = History!NoXp THEN historySeen[b] = History!NoXp \/ b * BucketParts < last - keeps
        ELSE historySeen[b] <= Newest(rows, b) /\ Newest(rows, b) <= had[b]
    BY <1>3 DEF TableInv, Sampled
  <2> QED BY <2>1, NewestLeft
<1>6. TableInv(rows', historySeen', last', stored', had', keeps')
  BY <1>2, <1>3, <1>4, <1>5 DEF TableInv
<1>7. ASSUME NEW t \in DOMAIN rows, sampleDue <= rows[t], \A b \in DOMAIN rows : b <= t
      PROVE  t \in DOMAIN rows' /\ sampleDue <= rows'[t] /\ \A b \in DOMAIN rows' : b <= t
  <2>1. t \notin History!Expired(rows)
    <3>1. \A d \in DOMAIN rows : d \in Nat
      BY <1>3, BucketsAre DEF TableInv, IsTable
    <3>2. \A d \in DOMAIN rows : ~(d > t)
      BY <1>7, <3>1
    <3> QED BY <3>2 DEF History!Expired
  <2>2. t \in DOMAIN rows'
    BY <2>1 DEF History!Retain
  <2> QED BY <1>2, <1>7, <2>2
<1>8. StoredInv'
  <2>1. StoredInv
    BY DEF HistoryInv
  <2>2. sampleDue # History!NoXp =>
          \/ sampleDue = stored.xp /\ last <= stored.at
          \/ \E t \in DOMAIN rows' : sampleDue <= rows'[t] /\ \A b \in DOMAIN rows' : b <= t
    BY <1>7, <2>1 DEF StoredInv
  <2>3. \A b \in DOMAIN rows' : b <= History!Bucket(last)
    BY <1>2, <2>1 DEF StoredInv
  <2> QED BY <1>2, <2>1, <2>2, <2>3 DEF StoredInv
<1>9. History!TypeOK'
  <2>1. DOMAIN rows' \subseteq History!Buckets /\ \A b \in DOMAIN rows' : rows'[b] \in History!Xps
    BY <1>4 DEF IsTable
  <2> QED BY <1>1, <1>2, <2>1 DEF History!TypeOK
<1>10. History!GraphAgrees'
  BY <1>2, <1>9 DEF History!GraphAgrees
<1>11. asked'.there => TableInv(asked'.table, asked'.seen, asked'.last, stored', had', keeps')
  BY <1>2 DEF HistoryInv
<1> QED BY <1>6, <1>8, <1>10, <1>11 DEF HistoryInv

LEMMA SamplesAsked == ASSUME HistoryInv, History!Ask, ~historyGraph.there PROVE HistoryInv'
<1>1. /\ asked' = [there |-> TRUE, table |-> rows, last |-> last, seen |-> historySeen]
      /\ UNCHANGED <<historyNow, keeps, zone, stored, writing, rows, last, historyGraph, sampleDue, had, historySeen>>
  BY DEF History!Ask
<1>2. asked'.there = TRUE /\ asked'.table = rows /\ asked'.seen = historySeen /\ asked'.last = last
  BY <1>1
<1>3. History!GraphAgrees'
  <2>1. History!TypeOK'
    BY <1>1, <1>2 DEF HistoryInv, History!GraphAgrees, History!TypeOK
  <2> QED BY <1>1, <2>1 DEF History!GraphAgrees
<1>4. StoredInv'
  BY <1>1 DEF HistoryInv, StoredInv
<1> QED BY <1>1, <1>2, <1>3, <1>4 DEF HistoryInv

LEMMA SkillTickKeeps == ASSUME HistoryInv, History!Tick, ~historyGraph.there PROVE HistoryInv'
<1>1. historyNow < MaxSkillTime /\ historyNow' = historyNow + 1 /\ UNCHANGED <<keeps, zone, stored, writing, rows, last, asked, historyGraph, sampleDue, had, historySeen>>
  BY DEF History!Tick
<1>2. History!GraphAgrees'
  <2>1. History!TypeOK /\ MaxSkillTime \in Nat
    BY SkillConstants DEF HistoryInv, History!GraphAgrees
  <2>2. historyNow' \in 0..MaxSkillTime /\ last \in 0..historyNow' /\ stored \in [xp : History!Xps \cup {History!NoXp}, at : 0..historyNow']
        /\ writing \in {History!NoWrite} \cup [there : {TRUE}, xp : History!Xps, at : 0..historyNow']
    <3>1. historyNow \in Nat /\ historyNow' \in 0..MaxSkillTime /\ \A t \in 0..historyNow : t \in 0..historyNow'
      BY <1>1, <2>1, HistoryTypes
    <3>2. last \in 0..historyNow'
      BY <2>1, <3>1 DEF History!TypeOK
    <3>3. stored \in [xp : History!Xps \cup {History!NoXp}, at : 0..historyNow']
      BY <2>1, <3>1 DEF History!TypeOK
    <3>4. writing \in {History!NoWrite} \cup [there : {TRUE}, xp : History!Xps, at : 0..historyNow']
      <4>1. CASE writing = History!NoWrite
        BY <4>1
      <4>2. CASE writing \in [there : {TRUE}, xp : History!Xps, at : 0..historyNow]
        BY <3>1, <4>2
      <4> QED BY <2>1, <4>1, <4>2 DEF History!TypeOK
    <3> QED BY <3>1, <3>2, <3>3, <3>4
  <2>3. History!TypeOK'
    BY <1>1, <2>1, <2>2 DEF History!TypeOK
  <2> QED BY <1>1, <2>3 DEF History!GraphAgrees
<1>3. StoredInv'
  BY <1>1 DEF HistoryInv, StoredInv
<1> QED BY <1>1, <1>2, <1>3 DEF HistoryInv
\* A graph of samples that were answered says what they and the player's XP say.
LEMMA CreateKeeps ==
  ASSUME HistoryInv, NEW current \in {stored.xp, History!NoXp}, History!Create(current), ~historyGraph.there
  PROVE  HistoryInv'
<1> DEFINE samples == asked.table
           first == History!Local(historyNow) - ShownBuckets + 1
           s == History!TimeSeries(samples, first, current)
           bucket(i) == History!BeginsIn(first + i - 1)
<1>1. /\ History!TypeOK /\ StoredInv /\ TableInv(rows, historySeen, last, stored, had, keeps)
      /\ TableInv(samples, asked.seen, asked.last, stored, had, keeps) /\ IsTable(samples)
  BY DEF HistoryInv, History!GraphAgrees, TableInv, History!Create
<1>2. /\ asked' = History!NoAnswer /\ UNCHANGED <<historyNow, keeps, zone, stored, writing, rows, last, sampleDue, had, historySeen>>
      /\ historyGraph' = IF DOMAIN samples = {} THEN historyGraph
                  ELSE [there |-> TRUE, first |-> first, series |-> s, current |-> current,
                        gains |-> History!Gains(s), levels |-> History!LevelsGained(s),
                        last |-> asked.last, seen |-> asked.seen]
  BY DEF History!Create
<1>3. asked'.there = FALSE
  BY <1>2 DEF History!NoAnswer
<1>4. StoredInv' /\ TableInv(rows', historySeen', last', stored', had', keeps')
  BY <1>1, <1>2 DEF StoredInv
<1>5. History!TypeOK' \/ DOMAIN samples # {}
  BY <1>1, <1>2, <1>3 DEF History!TypeOK
<1>6. CASE DOMAIN samples = {}
  <2>1. History!GraphAgrees'
    BY <1>2, <1>5, <1>6 DEF History!GraphAgrees
  <2> QED BY <1>3, <1>4, <2>1 DEF HistoryInv
<1>7. CASE DOMAIN samples # {}
  <2>1. /\ historyGraph'.there = TRUE /\ historyGraph'.first = first /\ historyGraph'.series = s /\ historyGraph'.current = current
        /\ historyGraph'.gains = History!Gains(s) /\ historyGraph'.levels = History!LevelsGained(s)
        /\ historyGraph'.last = asked.last /\ historyGraph'.seen = asked.seen
    BY <1>2, <1>7
  <2>2. /\ first \in Int /\ ShownBuckets \in Nat \ {0} /\ History!Bucket(historyNow) \in History!Buckets /\ History!Bucket(historyNow) \in Nat
        /\ stored.xp \in MaybeXp /\ BucketParts \in Nat \ {0} /\ keeps \in Nat
        /\ History!Bucket(stored.at) \in Nat /\ History!Bucket(stored.at) <= History!Bucket(historyNow) /\ zone \in ViewerZones
    <3>1. /\ historyNow \in Nat /\ History!Bucket(historyNow) \in History!Buckets /\ History!Bucket(historyNow) \in Nat
          /\ stored.xp \in MaybeXp /\ keeps \in Nat /\ zone \in ViewerZones
          /\ History!Bucket(stored.at) \in Nat /\ History!Bucket(stored.at) <= History!Bucket(historyNow)
      BY <1>1, HistoryTypes, BucketsAre
    <3>2. History!Local(historyNow) \in Int
      BY <3>1, LocalIs
    <3> QED BY <3>1, <3>2, SkillConstants
  <2>20. historyNow \in Nat /\ History!Local(historyNow) \in Int /\ first + ShownBuckets - 1 = History!Local(historyNow)
    <3>1. historyNow \in Nat
      BY <1>1, HistoryTypes
    <3>2. History!Local(historyNow) \in Int
      BY <2>2, <3>1, LocalIs
    <3> QED BY <2>2, <3>1, <3>2
  <2> HIDE DEF first
  <2>21. \A i \in Int : bucket(i) = first + i - 1 + (IF zone < 0 THEN 1 ELSE 0)
    <3>1. zone \in Int
      BY <2>2, SkillConstants
    <3> QED BY <2>2, <3>1 DEF History!BeginsIn
  <2>4. History!Bucket(historyNow) <= bucket(ShownBuckets) /\ bucket(ShownBuckets) \in Int /\ bucket(ShownBuckets) - 1 <= History!Bucket(historyNow)
    BY <2>2, <2>20, LocalIs
  <2> HIDE DEF bucket
  <2>3. \A i \in 1..ShownBuckets : bucket(i) \in Int /\ bucket(i) <= bucket(ShownBuckets)
    <3> SUFFICES ASSUME NEW i \in 1..ShownBuckets PROVE bucket(i) \in Int /\ bucket(i) <= bucket(ShownBuckets)
      OBVIOUS
    <3>1. i \in Int /\ ShownBuckets \in Int /\ i <= ShownBuckets
      BY <2>2
    <3>2. CASE zone < 0
      BY <2>2, <2>21, <3>1, <3>2
    <3>3. CASE ~(zone < 0)
      BY <2>2, <2>21, <3>1, <3>3
    <3> QED BY <3>2, <3>3
  <2>22. \A i, j \in 1..ShownBuckets : i <= j => bucket(i) <= bucket(j) /\ (i < j => bucket(i) <= bucket(j) - 1)
    <3> SUFFICES ASSUME NEW i \in 1..ShownBuckets, NEW j \in 1..ShownBuckets, i <= j
                 PROVE  bucket(i) <= bucket(j) /\ (i < j => bucket(i) <= bucket(j) - 1)
      OBVIOUS
    <3>1. i \in Int /\ j \in Int
      BY <2>2
    <3>2. CASE zone < 0
      BY <2>2, <2>21, <3>1, <3>2
    <3>3. CASE ~(zone < 0)
      BY <2>2, <2>21, <3>1, <3>3
    <3> QED BY <3>2, <3>3
  <2>5. \A i \in 1..ShownBuckets : s[i] = IF i = ShownBuckets /\ current # History!NoXp THEN current ELSE Newest(samples, bucket(i))
    <3>1. \A i \in 1..ShownBuckets : s[i] = IF i = ShownBuckets /\ current # History!NoXp THEN current ELSE History!Carried(samples, first)[i]
      BY DEF History!TimeSeries
    <3>2. \A i \in 1..ShownBuckets : i \in 0..ShownBuckets
      BY <2>2
    <3> QED BY <1>1, <2>2, <3>1, <3>2, CarriedIs DEF bucket
  <2> HIDE DEF s
  <2>6. current = stored.xp \/ current = History!NoXp
    OBVIOUS
  <2>7. ASSUME NEW b \in Int, Newest(samples, b) # History!NoXp
        PROVE  /\ Newest(samples, b) \in History!Xps /\ Newest(samples, b) <= stored.xp
               /\ b >= 0 /\ \E d \in DOMAIN samples : d <= b
    <3>1. PICK c \in UpToBucket(samples, b) : c \in History!Buckets /\ Newest(samples, b) = samples[c] /\ Newest(samples, b) \in History!Xps
      BY <1>1, <2>7, NewestIs
    <3>2. c \in DOMAIN samples /\ c <= b /\ c \in Nat
      BY <3>1, BucketsAre DEF UpToBucket
    <3> QED BY <1>1, <2>7, <3>1, <3>2 DEF TableInv
  <2>8. s[ShownBuckets] # History!NoXp /\ s[ShownBuckets] \in History!Xps /\ Newest(samples, bucket(ShownBuckets)) # History!NoXp
        /\ Newest(samples, bucket(ShownBuckets)) <= s[ShownBuckets]
    <3>1. ShownBuckets \in 1..ShownBuckets
      BY <2>2
    <3>2. Newest(samples, bucket(ShownBuckets)) # History!NoXp
      <4>1. PICK d \in DOMAIN samples : TRUE
        BY <1>7
      <4>2. d <= History!Bucket(stored.at) /\ d \in Nat
        BY <1>1, BucketsAre DEF TableInv, IsTable
      <4>3. d \in UpToBucket(samples, bucket(ShownBuckets))
        BY <2>2, <2>4, <4>2 DEF UpToBucket
      <4>4. Newest(samples, bucket(ShownBuckets)) \in History!Xps
        BY <1>1, <2>3, <3>1, <4>3, NewestIs
      <4> QED BY <4>4, XpsAre
    <3>3. Newest(samples, bucket(ShownBuckets)) \in History!Xps /\ Newest(samples, bucket(ShownBuckets)) <= stored.xp
      BY <2>3, <2>7, <3>1, <3>2
    <3>4. CASE current = History!NoXp
      <4>1. s[ShownBuckets] = Newest(samples, bucket(ShownBuckets))
        BY <2>5, <3>1, <3>4
      <4> QED BY <3>2, <3>3, <4>1, XpsAre
    <3>5. CASE current # History!NoXp
      <4>1. s[ShownBuckets] = stored.xp /\ stored.xp \in History!Xps
        BY <2>2, <2>5, <2>6, <3>1, <3>5 DEF MaybeXp
      <4> QED BY <3>2, <3>3, <4>1, XpsAre
    <3> QED BY <3>4, <3>5
  <2>9. Climbs(s)
    <3>1. ASSUME NEW i \in 1..ShownBuckets PROVE s[i] \in History!Xps \cup {History!NoXp}
      <4>1. CASE i = ShownBuckets
        BY <2>8, <4>1
      <4>2. CASE i # ShownBuckets
        <5>1. s[i] = Newest(samples, bucket(i)) /\ bucket(i) \in Int
          BY <2>3, <2>5, <4>2
        <5> QED BY <2>7, <5>1
      <4> QED BY <4>1, <4>2
    <3>2. ASSUME NEW i \in 1..ShownBuckets, NEW j \in 1..ShownBuckets, i <= j, s[i] # History!NoXp PROVE s[j] # History!NoXp /\ s[i] <= s[j]
      <4>1. CASE i = j
        <5>1. s[i] \in Nat
          BY <3>1, <3>2, XpsAre
        <5> QED BY <3>2, <4>1, <5>1
      <4>2. CASE i # j
        <5>1. i # ShownBuckets /\ bucket(i) \in Int /\ bucket(j) \in Int /\ bucket(i) <= bucket(j)
          BY <2>3, <2>22, <3>2, <4>2
        <5>2. s[i] = Newest(samples, bucket(i))
          BY <2>5, <5>1
        <5>3. Newest(samples, bucket(j)) # History!NoXp /\ s[i] <= Newest(samples, bucket(j))
          BY <1>1, <3>2, <5>1, <5>2, NewestGrows
        <5>4. CASE j # ShownBuckets
          BY <2>5, <5>3, <5>4
        <5>5. CASE j = ShownBuckets
          <6>1. s[i] \in Nat /\ s[ShownBuckets] \in Nat /\ Newest(samples, bucket(ShownBuckets)) \in Nat
            BY <2>7, <2>8, <3>1, <3>2, <5>1, <5>5, XpsAre
          <6> QED BY <2>8, <5>3, <5>5, <6>1
        <5> QED BY <5>4, <5>5
      <4> QED BY <4>1, <4>2
    <3> QED BY <3>1, <3>2 DEF Climbs
  <2>10. ASSUME NEW i \in 1..ShownBuckets - 1 PROVE History!Honest(historyGraph, i)'
    <3>1. /\ i \in 1..ShownBuckets /\ i # ShownBuckets /\ bucket(i) \in Int /\ bucket(i) <= History!Bucket(historyNow)
          /\ bucket(i) = History!BeginsIn(first + i - 1)
      <4>1. i \in 1..ShownBuckets /\ ShownBuckets \in 1..ShownBuckets /\ i < ShownBuckets
        BY <2>2
      <4>2. bucket(i) <= bucket(ShownBuckets) - 1 /\ bucket(i) \in Int
        BY <2>3, <2>22, <4>1
      <4> QED BY <2>2, <2>4, <4>1, <4>2 DEF bucket
    <3>2. s[i] = Newest(samples, bucket(i))
      BY <2>5, <3>1
    <3>3. bucket(i) >= 0 => bucket(i) \in History!Buckets
      BY <2>2, <3>1, BucketsAre
    <3>4. CASE s[i] = History!NoXp
      <4>1. bucket(i) \in History!Buckets => asked.seen[bucket(i)] = History!NoXp \/ bucket(i) * BucketParts < asked.last - keeps
        BY <1>1, <3>2, <3>4 DEF TableInv, Sampled
      <4> QED BY <1>2, <2>1, <3>1, <3>4, <4>1 DEF History!Honest, History!BeginsIn
    <3>5. CASE s[i] # History!NoXp
      <4>1. bucket(i) \in History!Buckets
        BY <2>7, <3>1, <3>2, <3>3, <3>5
      <4>2. asked.seen[bucket(i)] <= s[i] /\ s[i] <= had[bucket(i)]
        BY <1>1, <3>2, <3>5, <4>1 DEF TableInv, Sampled
      <4> QED BY <1>2, <2>1, <3>1, <3>5, <4>1, <4>2 DEF History!Honest, History!BeginsIn
    <3> QED BY <3>4, <3>5
  <2>11. current # History!NoXp => s[ShownBuckets] = current
    BY <2>2, <2>5
  <2> DEFINE m == History!Min(KnownOf(s))
  <2>12. /\ KnownOf(s) # {} /\ m \in 1..ShownBuckets /\ s[m] \in Nat /\ s[ShownBuckets] \in Nat /\ s[m] <= s[ShownBuckets] /\ s[m] # History!NoXp
         /\ \A i \in 1..ShownBuckets : s[i] # History!NoXp => m <= i
    <3>1. ShownBuckets \in KnownOf(s) /\ s[ShownBuckets] \in Nat
      BY <2>2, <2>8, XpsAre DEF KnownOf
    <3>2. m \in 1..ShownBuckets /\ s[m] # History!NoXp /\ \A i \in 1..ShownBuckets : s[i] # History!NoXp => m <= i
      BY <3>1, FirstKnown
    <3>3. m <= ShownBuckets /\ ShownBuckets \in 1..ShownBuckets
      BY <2>2, <3>2
    <3>4. s[m] \in Nat /\ s[m] <= s[ShownBuckets]
      BY <2>9, <3>2, <3>3, XpsAre DEF Climbs
    <3> QED BY <3>1, <3>2, <3>4
  <2>13. \A i \in 1..ShownBuckets : History!Gains(s)[i] = IF s[i] = History!NoXp THEN 0 ELSE s[i] - s[m]
    BY <2>9, GainsAre DEF Gained
  <2> HIDE DEF m
  <2>14. ASSUME NEW i \in 2..ShownBuckets PROVE History!Gains(s)[i - 1] <= History!Gains(s)[i]
    <3>1. i \in 1..ShownBuckets /\ i - 1 \in 1..ShownBuckets /\ i - 1 <= i
      BY <2>2
    <3>2. \A j \in 1..ShownBuckets : s[j] # History!NoXp => s[j] \in Nat /\ s[m] <= s[j]
      BY <2>9, <2>12, XpsAre DEF Climbs
    <3>3. CASE s[i - 1] = History!NoXp
      <4>1. History!Gains(s)[i - 1] = 0
        BY <2>13, <3>1, <3>3
      <4>2. History!Gains(s)[i] = 0 \/ (s[i] \in Nat /\ s[m] <= s[i] /\ History!Gains(s)[i] = s[i] - s[m])
        BY <2>13, <3>1, <3>2
      <4> QED BY <2>12, <4>1, <4>2
    <3>4. CASE s[i - 1] # History!NoXp
      <4>1. s[i] # History!NoXp /\ s[i - 1] <= s[i]
        BY <2>9, <3>1, <3>4 DEF Climbs
      <4>2. History!Gains(s)[i - 1] = s[i - 1] - s[m] /\ History!Gains(s)[i] = s[i] - s[m]
        BY <2>13, <3>1, <3>4, <4>1
      <4>3. s[i] \in Nat /\ s[i - 1] \in Nat
        BY <3>1, <3>2, <3>4, <4>1
      <4> QED BY <2>12, <4>1, <4>2, <4>3
    <3> QED BY <3>3, <3>4
  <2>15. History!Gains(s)[ShownBuckets] = s[ShownBuckets] - s[m]
    BY <2>2, <2>8, <2>13
  <2>16. History!LevelsGained(s) = History!Cardinality({x \in LevelStarts : s[m] < x /\ x <= s[ShownBuckets]})
    <3>1. History!LevelsGained(s) = History!Level(s[ShownBuckets]) - History!Level(s[m])
      BY <2>8 DEF History!LevelsGained, m, KnownOf
    <3> QED BY <2>12, <3>1, LevelsBetween
  <2>17. History!TypeOK'
    BY <1>1, <1>2, <1>3, <2>1 DEF History!TypeOK
  <2>18. {i \in 1..ShownBuckets : historyGraph'.series[i] # History!NoXp} = KnownOf(s)
    BY <2>1 DEF KnownOf
  <2>19. History!GraphAgrees'
    <3>1. \A i \in 1..ShownBuckets - 1 : History!Honest(historyGraph, i)'
      BY <2>10
    <3>2. historyGraph'.current # History!NoXp => historyGraph'.series[ShownBuckets] = historyGraph'.current
      BY <2>1, <2>11
    <3>3. \A i \in 2..ShownBuckets : historyGraph'.gains[i - 1] <= historyGraph'.gains[i]
      BY <2>1, <2>14
    <3>4. /\ historyGraph'.gains[ShownBuckets] = historyGraph'.series[ShownBuckets] - historyGraph'.series[History!Min({i \in 1..ShownBuckets : historyGraph'.series[i] # History!NoXp})]
          /\ historyGraph'.levels = History!Cardinality({x \in LevelStarts :
                historyGraph'.series[History!Min({i \in 1..ShownBuckets : historyGraph'.series[i] # History!NoXp})] < x /\ x <= historyGraph'.series[ShownBuckets]})
      BY <2>1, <2>15, <2>16, <2>18 DEF m
    <3> QED BY <2>17, <3>1, <3>2, <3>3, <3>4 DEF History!GraphAgrees
  <2> QED BY <1>3, <1>4, <2>19 DEF HistoryInv
<1> QED BY <1>6, <1>7

LEMMA HistoryBegins == History!Init => HistoryInv
<1> SUFFICES ASSUME History!Init PROVE HistoryInv
  OBVIOUS
<1>1. /\ historyNow = 0 /\ keeps \in Retentions /\ zone \in ViewerZones /\ last = 0 /\ stored = [xp |-> History!NoXp, at |-> 0] /\ rows = <<>>
      /\ writing = History!NoWrite /\ writing.there = FALSE /\ sampleDue = History!NoXp
      /\ asked.there = FALSE /\ historyGraph.there = FALSE /\ had = [b \in History!Buckets |-> History!NoXp] /\ historySeen = had
  BY DEF History!Init, History!NoAnswer, History!NoWrite
<1>2. DOMAIN rows = {} /\ stored.xp = History!NoXp /\ stored.at = 0
  <2>1. DOMAIN <<>> = {}
    OBVIOUS
  <2> QED BY <1>1, <2>1
<1>3. had \in [History!Buckets -> MaybeXp] /\ \A b \in History!Buckets : had[b] = History!NoXp /\ historySeen[b] = History!NoXp
  BY <1>1 DEF MaybeXp
<1>4. History!TypeOK
  <2>1. stored \in [xp : History!Xps \cup {History!NoXp}, at : 0..historyNow] /\ historyNow \in 0..MaxSkillTime /\ last \in 0..historyNow
    BY <1>1, SkillConstants
  <2> QED BY <1>1, <1>2, <1>3, <2>1 DEF History!TypeOK, MaybeXp
<1>5. StoredInv
  BY <1>1, <1>2, <1>3, XpsAre DEF StoredInv
<1>6. TableInv(rows, historySeen, last, stored, had, keeps)
  <2>1. \A b \in History!Buckets : Newest(rows, b) = History!NoXp
    BY <1>2 DEF Newest, UpToBucket
  <2>2. Sampled(rows, historySeen, last, had, keeps)
    BY <1>3, <2>1 DEF Sampled
  <2>3. IsTable(rows)
    BY <1>2 DEF IsTable
  <2> QED BY <1>1, <1>2, <1>3, <2>2, <2>3 DEF TableInv
<1> QED BY <1>1, <1>4, <1>5, <1>6 DEF HistoryInv, History!GraphAgrees

LEMMA HistoryStep == HistoryInv /\ History!Next => HistoryInv'
<1> SUFFICES ASSUME HistoryInv, History!Next PROVE HistoryInv'
  OBVIOUS
<1>1. ~historyGraph.there
  BY DEF History!Next
<1>2. CASE \E xp \in History!Xps : History!StartWrite(xp)
  BY <1>1, <1>2, StartWriteKeeps
<1>8. CASE History!Commit
  BY <1>1, <1>8, CommitKeeps
<1>3. CASE History!Aggregate
  BY <1>1, <1>3, AggregateKeeps
<1>4. CASE History!Retain
  BY <1>1, <1>4, RetainKeeps
<1>5. CASE History!Ask
  BY <1>1, <1>5, SamplesAsked
<1>6. CASE \E current \in {stored.xp, History!NoXp} : History!Create(current)
  BY <1>1, <1>6, CreateKeeps
<1>7. CASE History!Tick
  BY <1>1, <1>7, SkillTickKeeps
<1> QED BY <1>2, <1>3, <1>4, <1>5, <1>6, <1>7, <1>8 DEF History!Next

\* For any buckets, levels, time zones and times, and whenever samples are taken, dropped and asked for, updates
\* passed over by an aggregation included: a graph shows in each bucket XP the player had by the end of the server's
\* bucket that begins in it, and no less than was due at an aggregation by then; its line of gains never falls and
\* ends, like the levels, at what was gained since the first XP that is known (db/skills.rs, skill-graph.js).
THEOREM GraphsAreHonest == MCSpec => []GraphAgrees
<1> DEFINE IInv == part = "history" => HistoryInv
<1>1. MCInit => IInv
  BY HistoryBegins DEF MCInit
<1>2. IInv /\ [MCNext]_allVars => IInv'
  <2> SUFFICES ASSUME IInv, [MCNext]_allVars, part' = "history" PROVE HistoryInv'
    OBVIOUS
  <2>1. CASE OfHistory
    BY <2>1, HistoryStep DEF OfHistory
  <2>2. CASE UNCHANGED historyVars /\ part' = part
    <3>1. HistoryInv /\ UNCHANGED <<historyNow, keeps, zone, stored, writing, rows, last, asked, historyGraph, sampleDue, had, historySeen>>
      BY <2>2 DEF historyVars
    <3> QED BY <3>1 DEF HistoryInv, StoredInv, History!GraphAgrees, History!TypeOK, History!Honest, History!BeginsIn
  <2> QED BY <2>1, <2>2 DEF MCNext, OfView, OfMarkers, OfReplay, OfTrails, OfPlayers, OfBoards, OfLife, OfHistory,
          OfGear, OfToasts, OfSessions, allVars
<1>3. IInv => GraphAgrees
  BY DEF HistoryInv, GraphAgrees
<1> QED BY <1>1, <1>2, <1>3, PTL DEF MCSpec
=============================================================================
