---------------------------- MODULE HubDirectory ----------------------------
(***************************************************************************)
(* The in-memory directory of hub/directory.rs: which hub account belongs  *)
(* to which member, both ways, which accounts are hidden and which share   *)
(* their hiscores.  A directory is a record; the operators below are its   *)
(* methods, each one critical section of the RwLock.  Names are            *)
(* case-folded: the code stores and looks them up in lower case, and the   *)
(* members table compares them without case (CITEXT).                      *)
(***************************************************************************)

CONSTANTS Accounts,   \* hub account ids
          Names,      \* member names
          None        \* an absent key of either map

ASSUME NoneIsNoKey == None \notin Accounts /\ None \notin Names

Directories ==
  [nameById : [Accounts -> Names \cup {None}],
   idByName : [Names -> Accounts \cup {None}],
   hidden   : SUBSET Accounts,
   hiscores : SUBSET Accounts]

\* Mutant: the account's earlier name still leads to it.
BindKeepsOldName(d, a, n) ==
  [d EXCEPT !.nameById = [@ EXCEPT ![a] = n], !.idByName = [@ EXCEPT ![n] = a]]

\* Binds an account to a member, dropping the earlier bindings of either.
Bind(d, a, n) ==
  LET oldName == d.nameById[a]
      oldId   == IF oldName = n THEN None ELSE d.idByName[n]
  IN  [d EXCEPT
        !.nameById = [i \in Accounts |-> IF i = a THEN n
                                         ELSE IF i = oldId THEN None ELSE @[i]],
        !.idByName = [m \in Names |-> IF m = n THEN a
                                      ELSE IF m = oldName THEN None ELSE @[m]]]

\* Forgets a member that was deleted or hidden.
RemoveMember(d, n) ==
  [d EXCEPT
    !.nameById = [i \in Accounts |-> IF i = d.idByName[n] THEN None ELSE @[i]],
    !.idByName = [@ EXCEPT ![n] = None]]

SetHidden(d, a, isHidden) ==
  [d EXCEPT !.hidden = IF isHidden THEN @ \cup {a} ELSE @ \ {a}]

\* Mutant: what was once shared stays readable.
SetSharesHiscoresOnly(d, a, shares) ==
  [d EXCEPT !.hiscores = IF shares THEN @ \cup {a} ELSE @]

SetSharesHiscores(d, a, shares) ==
  [d EXCEPT !.hiscores = IF shares THEN @ \cup {a} ELSE @ \ {a}]

\* The two maps are each other's inverse: what lookups by id and lookups by
\* name (profile reads, events, leaderboards) rely on.
MutuallyInverse(d) ==
  /\ \A a \in Accounts : d.nameById[a] # None => d.idByName[d.nameById[a]] = a
  /\ \A n \in Names : d.idByName[n] # None => d.nameById[d.idByName[n]] = n
=============================================================================
