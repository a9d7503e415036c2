---------------------------- MODULE SharedCalls ----------------------------
(***************************************************************************)
(* What the hub cache promises (hub/cache.rs:1-2, "Concurrent requests for *)
(* the same key share one upstream call"): a request waits for its key,    *)
(* calls the hub at most once and only while nobody else calls for that    *)
(* key, and may be gone at any time.  Locks, the table of them and the     *)
(* entries are how HubCache keeps it.                                      *)
(***************************************************************************)
CONSTANTS Requests, Keys, NoKey

VARIABLES asks,   \* the key a request is for, or NoKey
          stage   \* where it is: "gone", "waits", "calls" or "knows"

vars == <<asks, stage>>

Init == asks = [r \in Requests |-> NoKey] /\ stage = [r \in Requests |-> "gone"]

Come(r, k) ==
  /\ stage[r] = "gone"
  /\ asks' = [asks EXCEPT ![r] = k] /\ stage' = [stage EXCEPT ![r] = "waits"]

Call(r) ==
  /\ stage[r] = "waits"
  /\ \A q \in Requests : stage[q] = "calls" => asks[q] # asks[r]
  /\ stage' = [stage EXCEPT ![r] = "calls"] /\ UNCHANGED asks

\* The hub answers, or the request learns that it may not call.
Learn(r) ==
  /\ stage[r] \in {"waits", "calls"}
  /\ stage' = [stage EXCEPT ![r] = "knows"] /\ UNCHANGED asks

\* Answered, from the cache or by the hub, or dropped.
Go(r) ==
  /\ stage[r] # "gone"
  /\ asks' = [asks EXCEPT ![r] = NoKey] /\ stage' = [stage EXCEPT ![r] = "gone"]

Next == \E r \in Requests : Call(r) \/ Learn(r) \/ Go(r) \/ \E k \in Keys : Come(r, k)

Spec == Init /\ [][Next]_vars
=============================================================================
