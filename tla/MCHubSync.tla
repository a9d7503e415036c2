----------------------------- MODULE MCHubSync -----------------------------
(* Small instances of HubSync for TLC.  Alice has a plugin hash, Bob has     *)
(* none; `bad` is a name the map cannot store.                              *)
EXTENDS HubSync

CONSTANTS alice, bob, h, x, y, z, old, bad

MCHash == [i \in Accounts |-> IF i = alice THEN h ELSE None]
MCInitName == [i \in Accounts |-> IF i = alice THEN x ELSE z]

\* Nobody ever gets a name another account has or had.
MCOwnNames == [i \in Accounts |-> IF i = alice THEN {x, y, bad} ELSE {z}]
\* Names that one account gives up are free for the other to take.
MCReusedNames == [i \in Accounts |-> {x, y, z}]
MCNoRenames == [i \in Accounts |-> {}]
MCNewName == [i \in Accounts |-> IF i = alice THEN {y} ELSE {}]

\* An empty table; and one with rows the sync did not bind: one of Alice's hash under
\* an older name (the hub account was registered anew), one with the name y.
MCNoRows == [n \in Names |-> NoRow]
MCOldRows == [n \in Names |-> CASE n = old -> [NewRow EXCEPT !.hash = h]
                               [] n = y   -> NewRow
                               [] OTHER   -> NoRow]
=============================================================================
