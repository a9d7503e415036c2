------------------------------- MODULE HubSync -------------------------------
(***************************************************************************)
(* How the backend keeps the members table in step with the hub: the poll  *)
(* loop of hub/sync.rs, the statements of db/hub.rs it issues, the         *)
(* directory it maintains, and the admin requests (admin_routes.rs) that   *)
(* run beside it on other threads.  An await is a step boundary, so a      *)
(* request can run between any two statements of the sync.                 *)
(*                                                                         *)
(* The module is about identity: which row belongs to which account, who   *)
(* is hidden, who is off the map.  The data of an account (sections,       *)
(* presence) is the matter of UpdatePipeline.                              *)
(***************************************************************************)
EXTENDS HubDirectory, FiniteSets, Naturals

CONSTANTS ValidNames,  \* the names validators.rs lets the map store
          Hash,        \* the account hash the hub reports, or None
          MayTake,     \* the names an account may have on the hub
          InitName,    \* the hub name of each account at the start
          InitRows,    \* the members table at the start
          NoRow, NoAccount,
          MaxHubOps, MaxAdminOps, MaxFaults   \* bounds on what happens

ASSUME ValidNamesAreNames == ValidNames \subseteq Names
ASSUME BoundsAreNaturals == {MaxHubOps, MaxAdminOps, MaxFaults} \subseteq Nat

VARIABLES
  hubName,    \* hub: the account's current name
  shared,     \* hub: the accounts the key may read
  scores,     \* hub: the accounts that share the category `hiscores`
  fresh,      \* accounts that changed since the sync's `since`
  rows,       \* guildmap.members: name -> row, or NoRow
  dir,        \* the HubDirectory
  known,      \* HubSync.known: account -> what is remembered, or NoAccount
  forgotten,  \* SyncControl: the names admins changed
  fullDue,    \* last_full is None or older than full_refresh_secs
  pc,         \* where the poll loop is
  full,       \* this poll asked for the full snapshot
  taken,      \* the part of `fresh` this poll's answer accounts for
  snapshot,   \* the answer: accounts in it, their names and categories
  todo,       \* accounts of the snapshot still to process
  cur,        \* the account being processed
  found,      \* what its last SELECT returned
  requests,   \* admin requests whose statement has run, the rest not yet
  hubOps, adminOps, faults    \* what has happened so far, against the bounds

hubVars   == <<hubName, shared, scores>>
pollVars  == <<full, taken, snapshot>>
stepVars  == <<todo, cur, found>>
countVars == <<hubOps, adminOps, faults>>
vars == <<hubVars, fresh, rows, dir, known, forgotten, fullDue, pc, pollVars,
          stepVars, requests, countVars>>

Hashes == {Hash[a] : a \in Accounts}
Rows == [id : Accounts \cup {None}, hash : Hashes \cup {None},
         hidden : BOOLEAN, orphaned : BOOLEAN]
Tables == [Names -> Rows \cup {NoRow}]
UniqueIds(table) ==
  \A m, n \in Names :
    table[m] # NoRow /\ table[n] # NoRow /\ table[m].id = table[n].id
      => m = n \/ table[m].id = None
Known == [name : Names, hidden : BOOLEAN]
Found == [name : Names \cup {None}, hidden : BOOLEAN, byId : BOOLEAN]
NotFound == [name |-> None, hidden |-> FALSE, byId |-> FALSE]
EmptySnapshot == [ids |-> {}, name |-> InitName, scores |-> {}]
Requests == [name : Names, kind : {"delete", "hide", "show"}]

\* The table the backend starts with: UNIQUE (hub_account_id) holds.
ASSUME StartIsATable ==
  /\ InitName \in [Accounts -> Names]
  /\ InitRows \in Tables /\ UniqueIds(InitRows)
ASSUME AbsentIsNoRecord == NoRow \notin Rows /\ NoAccount \notin Known

\* While an account is processed it is in hand, with what was found or is known of it.
InHand ==
  /\ pc \in {"bind", "settle", "rename", "renamed"} => cur \in Accounts
  /\ pc = "bind" => found.name \in Names
  /\ pc \in {"settle", "rename", "renamed"} => known[cur] # NoAccount

TypeOK ==
  /\ hubName \in [Accounts -> Names]
  /\ shared \subseteq Accounts /\ scores \subseteq Accounts
  /\ fresh \subseteq Accounts /\ taken \subseteq Accounts
  /\ rows \in Tables
  /\ dir \in Directories
  /\ known \in [Accounts -> Known \cup {NoAccount}]
  /\ forgotten \subseteq Names
  /\ fullDue \in BOOLEAN /\ full \in BOOLEAN
  /\ pc \in {"idle", "requested", "process", "bind", "settle", "rename", "renamed"}
  /\ snapshot \in [ids : SUBSET Accounts, name : [Accounts -> Names],
                   scores : SUBSET Accounts]
  /\ todo \subseteq snapshot.ids
  /\ cur \in Accounts \cup {None}
  /\ found \in Found
  /\ requests \subseteq Requests
  /\ hubOps \in 0..MaxHubOps /\ adminOps \in 0..MaxAdminOps /\ faults \in 0..MaxFaults
  /\ InHand

-----------------------------------------------------------------------------
(* The members table.                                                      *)

Exists(n) == rows[n] # NoRow
RowsOf(a) == {n \in Names : Exists(n) /\ rows[n].id = a}
RowsWithHash(h) == {n \in Names : Exists(n) /\ h # None /\ rows[n].hash = h}

\* find_member_for_hub_account: by the account hash, else by the name.  With
\* several rows of one hash the code takes the oldest; the model, any.
Candidates(h, n) ==
  IF RowsWithHash(h) # {} THEN RowsWithHash(h) ELSE {m \in {n} : Exists(m)}

NewRow == [id |-> None, hash |-> None, hidden |-> FALSE, orphaned |-> FALSE]

\* Mutant: the account keeps its other row.
BindWithoutUnbinding(n, a) ==
  IF Exists(n) THEN [rows EXCEPT ![n].id = a, ![n].orphaned = FALSE] ELSE rows

\* bind_hub_account: one transaction; a name without a row is left alone.
BindHubAccount(n, a) ==
  [m \in Names |->
     IF ~Exists(m) THEN NoRow
     ELSE IF m = n
          THEN [rows[m] EXCEPT !.id = a, !.orphaned = FALSE,
                               !.hash = IF Hash[a] = None THEN @ ELSE Hash[a]]
          ELSE IF rows[m].id = a THEN [rows[m] EXCEPT !.id = None] ELSE rows[m]]

\* rename_hub_member; the caller has seen that the new name is free.
RenameHubMember(old, new) ==
  IF Exists(old) /\ old # new
  THEN [rows EXCEPT ![new] = rows[old], ![old] = NoRow]
  ELSE rows

\* Mutants: the first UPDATE does nothing; the second one unbinds the row.
ClearNoOrphans(table, visible) == table
MarkAndUnbind(table, visible) ==
  [n \in Names |-> IF table[n] # NoRow /\ table[n].id \notin visible
                   THEN [table[n] EXCEPT !.orphaned = (table[n].id # None), !.id = None]
                   ELSE table[n]]

\* mark_hub_orphans: its first and its second UPDATE.
ClearOrphans(table, visible) ==
  [n \in Names |-> IF table[n] # NoRow /\ table[n].id \in visible
                   THEN [table[n] EXCEPT !.orphaned = FALSE] ELSE table[n]]
MarkOrphans(table, visible) ==
  [n \in Names |-> IF table[n] # NoRow /\ table[n].id \notin visible \cup {None}
                   THEN [table[n] EXCEPT !.orphaned = TRUE] ELSE table[n]]

\* HubDirectory::load: every bound row, the hidden ones without a binding.
LoadDirectory ==
  [nameById |-> [a \in Accounts |->
                   IF \E n \in RowsOf(a) : ~rows[n].hidden
                   THEN CHOOSE n \in RowsOf(a) : ~rows[n].hidden ELSE None],
   idByName |-> [n \in Names |->
                   IF Exists(n) /\ ~rows[n].hidden THEN rows[n].id ELSE None],
   hidden   |-> {a \in Accounts : \E n \in RowsOf(a) : rows[n].hidden},
   hiscores |-> {}]

Init ==
  /\ hubName = InitName
  /\ shared = Accounts /\ scores = Accounts /\ fresh = Accounts
  /\ rows = InitRows
  /\ dir = LoadDirectory
  /\ known = [a \in Accounts |-> NoAccount]
  /\ forgotten = {} /\ requests = {}
  /\ fullDue = TRUE
  /\ pc = "idle" /\ full = FALSE /\ taken = {} /\ snapshot = EmptySnapshot
  /\ todo = {} /\ cur = None /\ found = NotFound
  /\ hubOps = 0 /\ adminOps = 0 /\ faults = 0

-----------------------------------------------------------------------------
(* The hub.                                                                *)

\* An owner renames the account; the plugin's data under the new name is new
\* data, so a `since` read returns the account.
HubRename(a, n) ==
  /\ hubOps < MaxHubOps /\ hubOps' = hubOps + 1
  /\ n \in MayTake[a] \ {hubName[b] : b \in Accounts}
  /\ hubName' = [hubName EXCEPT ![a] = n]
  /\ fresh' = fresh \cup {a}
  /\ UNCHANGED <<shared, scores, rows, dir, known, forgotten, fullDue, pc,
                 pollVars, stepVars, requests, adminOps, faults>>

\* A sharing change is no new data: only a full snapshot shows it.
HubShare(a) ==
  /\ hubOps < MaxHubOps /\ hubOps' = hubOps + 1
  /\ \/ /\ shared' = (IF a \in shared THEN shared \ {a} ELSE shared \cup {a})
        /\ UNCHANGED scores
     \/ /\ scores' = (IF a \in scores THEN scores \ {a} ELSE scores \cup {a})
        /\ UNCHANGED shared
  /\ UNCHANGED <<hubName, fresh, rows, dir, known, forgotten, fullDue, pc,
                 pollVars, stepVars, requests, adminOps, faults>>

HubNewData(a) ==
  /\ a \notin fresh /\ fresh' = fresh \cup {a}
  /\ UNCHANGED <<hubVars, rows, dir, known, forgotten, fullDue, pc, pollVars,
                 stepVars, requests, countVars>>

-----------------------------------------------------------------------------
(* The poll loop.                                                          *)

\* Mutant: the names admins changed ask for a full read, but stay known.
PollStartKeepsKnown ==
  /\ pc = "idle" /\ pc' = "requested"
  /\ full' = (fullDue \/ forgotten # {})
  /\ fullDue' = full'
  /\ forgotten' = {}
  /\ UNCHANGED <<hubVars, fresh, rows, dir, known, taken, snapshot, stepVars, requests,
                 countVars>>

\* poll_once up to its request: apply_control, then a full or a `since` read.
PollStart ==
  /\ pc = "idle" /\ pc' = "requested"
  /\ known' = [a \in Accounts |-> IF known[a] # NoAccount /\ known[a].name \in forgotten
                                  THEN NoAccount ELSE known[a]]
  /\ full' = (fullDue \/ forgotten # {})
  /\ fullDue' = full'
  /\ forgotten' = {}
  /\ UNCHANGED <<hubVars, fresh, rows, dir, taken, snapshot, stepVars, requests,
                 countVars>>

\* The hub answers with what it shares at that moment.
Fetch ==
  /\ pc = "requested" /\ pc' = "process"
  /\ snapshot' = [ids |-> shared \cap (IF full THEN Accounts ELSE fresh),
                  name |-> hubName, scores |-> scores]
  /\ todo' = snapshot'.ids
  /\ taken' = fresh /\ fresh' = {}
  /\ UNCHANGED <<hubVars, rows, dir, known, forgotten, fullDue, full, cur, found,
                 requests, countVars>>

\* Mutant: a poll that failed leaves accounts to process.
EndPollKeepsTodo ==
  /\ pc' = "idle"
  /\ full' = FALSE /\ taken' = {} /\ snapshot' = EmptySnapshot /\ todo' = todo

\* Back to the loop's sleep, with nothing of this poll left but its effects.
EndPoll ==
  /\ pc' = "idle"
  /\ full' = FALSE /\ taken' = {} /\ snapshot' = EmptySnapshot /\ todo' = {}

\* The request failed, or no database connection could be had: `since` stays.
PollFails ==
  /\ pc \in {"requested", "process"} /\ (pc = "process" => todo = snapshot.ids)
  /\ faults < MaxFaults /\ faults' = faults + 1
  /\ fresh' = fresh \cup taken
  /\ EndPoll
  /\ UNCHANGED <<hubVars, rows, dir, known, forgotten, fullDue, cur, found, requests,
                 hubOps, adminOps>>

\* This account is done; the loop goes on with the next.
AccountDone ==
  /\ pc' = "process" /\ todo' = todo \ {cur}
  /\ cur' = None /\ found' = NotFound

\* process_account, first part: a name the map cannot store is passed over, and
\* an account not known yet is looked up: by its hub id, else by hash or name,
\* else a new row is inserted for it.
TakeAccount(a) ==
  /\ pc = "process" /\ a \in todo
  /\ LET name == snapshot.name[a] IN
     \/ /\ name \notin ValidNames
        /\ todo' = todo \ {a}
        /\ UNCHANGED <<pc, cur, found, rows>>
     \/ /\ name \in ValidNames /\ known[a] # NoAccount
        /\ cur' = a /\ pc' = "settle"
        /\ UNCHANGED <<todo, found, rows>>
     \/ /\ name \in ValidNames /\ known[a] = NoAccount
        /\ cur' = a /\ pc' = "bind"
        /\ UNCHANGED todo
        /\ \/ \E n \in RowsOf(a) :
                /\ found' = [name |-> n, hidden |-> rows[n].hidden, byId |-> TRUE]
                /\ UNCHANGED rows
           \/ /\ RowsOf(a) = {}
              /\ \E n \in Candidates(Hash[a], name) :
                   found' = [name |-> n, hidden |-> rows[n].hidden, byId |-> FALSE]
              /\ UNCHANGED rows
           \/ /\ RowsOf(a) = {} /\ Candidates(Hash[a], name) = {}
              /\ found' = [name |-> name, hidden |-> FALSE, byId |-> FALSE]
              /\ rows' = [rows EXCEPT ![name] = NewRow]
  /\ UNCHANGED <<hubVars, fresh, dir, known, forgotten, fullDue, pollVars, requests,
                 countVars>>

\* The rest of resolve_member (the bind), then the directory and `known`.
BindAccount ==
  /\ pc = "bind" /\ pc' = "settle"
  /\ rows' = IF found.byId THEN rows ELSE BindHubAccount(found.name, cur)
  /\ dir' = LET flagged == SetHidden(dir, cur, found.hidden)
            IN  IF found.hidden THEN RemoveMember(flagged, found.name)
                ELSE Bind(flagged, cur, found.name)
  /\ known' = [known EXCEPT ![cur] = [name |-> found.name, hidden |-> found.hidden]]
  /\ found' = NotFound
  /\ UNCHANGED <<hubVars, fresh, forgotten, fullDue, pollVars, todo, cur, requests,
                 countVars>>

\* process_account for a known account: a hidden one is left alone; otherwise its
\* categories are noted and, if its name changed, follow_rename looks up the new one.
SettleAccount ==
  /\ pc = "settle"
  /\ LET newName == snapshot.name[cur] IN
     \/ /\ known[cur].hidden
        /\ AccountDone /\ UNCHANGED dir
     \/ /\ ~known[cur].hidden
        /\ dir' = SetSharesHiscores(dir, cur, cur \in snapshot.scores)
        /\ \/ known[cur].name = newName /\ AccountDone
           \/ /\ known[cur].name # newName
              /\ found' = [NotFound EXCEPT !.name = IF Exists(newName) THEN newName ELSE None]
              /\ pc' = "rename"
              /\ UNCHANGED <<todo, cur>>
  /\ UNCHANGED <<hubVars, fresh, rows, known, forgotten, fullDue, pollVars, requests,
                 countVars>>

\* follow_rename's write: bind to the row that has the name already, else rename.
FollowRename ==
  /\ pc = "rename" /\ pc' = "renamed"
  /\ rows' = IF found.name # None THEN BindHubAccount(found.name, cur)
             ELSE RenameHubMember(known[cur].name, snapshot.name[cur])
  /\ UNCHANGED <<hubVars, fresh, dir, known, forgotten, fullDue, pollVars, stepVars,
                 requests, countVars>>

\* Mutant: the directory is not told of the rename.
RenameKnownOnly ==
  /\ pc = "renamed"
  /\ known' = [known EXCEPT ![cur].name = snapshot.name[cur]]
  /\ AccountDone
  /\ UNCHANGED <<hubVars, fresh, rows, dir, forgotten, fullDue, pollVars, requests,
                 countVars>>

\* What process_account does with the name follow_rename returned.
RenameKnown ==
  /\ pc = "renamed"
  /\ known' = [known EXCEPT ![cur].name = snapshot.name[cur]]
  /\ dir' = Bind(dir, cur, snapshot.name[cur])
  /\ AccountDone
  /\ UNCHANGED <<hubVars, fresh, rows, forgotten, fullDue, pollVars, requests,
                 countVars>>

\* A statement of process_account failed: the account is skipped, the poll goes on.
SkipAccount ==
  /\ pc \in {"bind", "rename"}
  /\ faults < MaxFaults /\ faults' = faults + 1
  /\ AccountDone
  /\ UNCHANGED <<hubVars, fresh, rows, dir, known, forgotten, fullDue, pollVars,
                 requests, hubOps, adminOps>>

\* After the last account. A full snapshot also shows which accounts are gone.
FinishPoll ==
  /\ pc = "process" /\ todo = {}
  /\ IF full
     THEN /\ known' = [a \in Accounts |-> IF a \in snapshot.ids THEN known[a] ELSE NoAccount]
          /\ rows' = MarkOrphans(ClearOrphans(rows, snapshot.ids), snapshot.ids)
          /\ fullDue' = FALSE
     ELSE UNCHANGED <<known, rows, fullDue>>
  /\ EndPoll
  /\ UNCHANGED <<hubVars, fresh, dir, forgotten, cur, found, requests, countVars>>

\* One of mark_hub_orphans' three statements failed: the poll failed, but `known`
\* is already trimmed, and the statements before it have run.
FinishFails ==
  /\ pc = "process" /\ todo = {} /\ full
  /\ faults < MaxFaults /\ faults' = faults + 1
  /\ known' = [a \in Accounts |-> IF a \in snapshot.ids THEN known[a] ELSE NoAccount]
  /\ LET cleared == ClearOrphans(rows, snapshot.ids)
     IN  rows' \in {rows, cleared, MarkOrphans(cleared, snapshot.ids)}
  /\ fresh' = fresh \cup taken
  /\ EndPoll
  /\ UNCHANGED <<hubVars, dir, forgotten, fullDue, cur, found, requests, hubOps,
                 adminOps>>

\* full_refresh_secs have passed since the last full snapshot.
RefreshDue ==
  /\ ~fullDue /\ fullDue' = TRUE
  /\ UNCHANGED <<hubVars, fresh, rows, dir, known, forgotten, pc, pollVars, stepVars,
                 requests, countVars>>

-----------------------------------------------------------------------------
(* The admin portal, and the process.                                      *)

\* delete_player and set_player_hidden up to their statement; without a row the
\* answer is 404 and nothing else happens.
AdminStatement(r) ==
  /\ adminOps < MaxAdminOps /\ adminOps' = adminOps + 1
  /\ Exists(r.name)
  /\ rows' = IF r.kind = "delete" THEN [rows EXCEPT ![r.name] = NoRow]
             ELSE [rows EXCEPT ![r.name].hidden = (r.kind = "hide")]
  /\ requests' = requests \cup {r}
  /\ UNCHANGED <<hubVars, fresh, dir, known, forgotten, fullDue, pc, pollVars, stepVars,
                 hubOps, faults>>

\* Mutant: the sync is not told to forget the member.
AdminForgetNothing(r) ==
  /\ r \in requests /\ requests' = requests \ {r}
  /\ dir' = RemoveMember(dir, r.name)
  /\ UNCHANGED <<hubVars, fresh, rows, known, forgotten, fullDue, pc, pollVars, stepVars,
                 countVars>>

\* The rest of the handler: the directory, then SyncControl::forget_member.
AdminForget(r) ==
  /\ r \in requests /\ requests' = requests \ {r}
  /\ dir' = LET a == dir.idByName[r.name]
                flagged == IF r.kind = "delete" \/ a = None THEN dir
                           ELSE SetHidden(dir, a, r.kind = "hide")
            IN  RemoveMember(flagged, r.name)
  /\ forgotten' = forgotten \cup {r.name}
  /\ UNCHANGED <<hubVars, fresh, rows, known, fullDue, pc, pollVars, stepVars, countVars>>

\* The backend stops and starts again: memory is lost, the directory is loaded.
Restart ==
  /\ faults < MaxFaults /\ faults' = faults + 1
  /\ known' = [a \in Accounts |-> NoAccount]
  /\ dir' = LoadDirectory
  /\ fresh' = Accounts /\ forgotten' = {} /\ requests' = {}
  /\ fullDue' = TRUE /\ cur' = None /\ found' = NotFound
  /\ EndPoll
  /\ UNCHANGED <<hubVars, rows, hubOps, adminOps>>

Sync == \/ PollStart \/ Fetch \/ BindAccount \/ SettleAccount \/ FollowRename
        \/ RenameKnown \/ FinishPoll
        \/ \E a \in Accounts : TakeAccount(a)

Next ==
  \/ Sync \/ PollFails \/ SkipAccount \/ FinishFails \/ RefreshDue \/ Restart
  \/ \E a \in Accounts : HubShare(a) \/ HubNewData(a) \/ \E n \in Names : HubRename(a, n)
  \/ \E r \in Requests : AdminStatement(r) \/ AdminForget(r)

Spec == Init /\ [][Next]_vars

\* The poll loop runs forever (tokio keeps scheduling it, its back-off is
\* bounded), the refresh interval passes, and a handler past its statement
\* runs to its end without another await.
Fairness == WF_vars(Sync) /\ WF_vars(RefreshDue)
            /\ \A r \in Requests : WF_vars(AdminForget(r))
FairSpec == Spec /\ Fairness

-----------------------------------------------------------------------------
(* What the sync owes the map.                                             *)

\* One row is bound to the account, on the map unless hidden, under the name
\* the hub gives it; the directory agrees with the row.
Mirrored(a) ==
  \E n \in Names :
    /\ RowsOf(a) = {n}
    /\ ~rows[n].orphaned
    /\ rows[n].hidden <=> a \in dir.hidden
    /\ IF rows[n].hidden THEN dir.nameById[a] = None
       ELSE n = hubName[a] /\ dir.nameById[a] = n

\* Every account of the hub is mirrored, and what the hub no longer shares is
\* off the map.
Converged ==
  /\ \A a \in shared : hubName[a] \in ValidNames => Mirrored(a)
  /\ \A n \in Names : Exists(n) /\ rows[n].id \notin shared \cup {None} => rows[n].orphaned

\* Once the hub and the admins leave the accounts alone, the map catches up with
\* them for good: whatever polls failed, accounts were skipped, requests ran
\* between two statements of the sync or restarts cut it short (README.md,
\* "How it works": renames are followed, what the hub stops sharing leaves the
\* map and comes back by itself).
MapFollowsHub == <>[]Converged

\* No two rows are ever bound to one hub account, however binds, renames and
\* admin requests interleave: the table's UNIQUE (hub_account_id) never makes a
\* statement of the sync fail (db/hub.rs bind_hub_account unbinds first).
HubIdsUnique == UniqueIds(rows)

\* Lookups by name and by id agree at every moment, whatever binds, renames,
\* hides and deletions have run.
DirectoryInverse == MutuallyInverse(dir)

\* Between polls, with no admin request under way or waiting for the sync, what
\* the sync remembers is what the table says: the row is there, bound to the
\* account, hidden or not as remembered, and the directory serves the account
\* under that name exactly if it is not hidden.  An admin request that ran between
\* two statements of the sync must not leave a stale memory behind.
MemoryMatchesTable ==
  pc = "idle" /\ requests = {} /\ forgotten = {} =>
    \A a \in Accounts : known[a] # NoAccount =>
      LET n == known[a].name IN
        /\ RowsOf(a) = {n}
        /\ rows[n].hidden = known[a].hidden
        /\ dir.nameById[a] = IF known[a].hidden THEN None ELSE n

\* No step of the sync leaves an account that has a row without one, and none gives
\* a bound row to another account: not a rename to a name that has a row already,
\* and not the hub ceasing to share the account (the row is marked and waits).
\* For names that are never reused, and while admins delete nothing.
AccountsKeepTheirRow ==
  [][/\ \A a \in Accounts : RowsOf(a) # {} => RowsOf(a)' # {}
     /\ \A n \in Names :
          Exists(n) /\ rows[n].id # None /\ rows'[n] # NoRow
            => rows'[n].id \in {rows[n].id, None}]_vars

\* After a full read, an account the sync processed in it answers for its
\* hiscores only if the read lists them: an owner who makes them private is gone
\* from the tab and the board (HUB_INTEGRATION.md, "Hiscores").
HiscoresFollowFullRead ==
  [][FinishPoll /\ full =>
       \A a \in snapshot.ids :
         /\ known[a] # NoAccount /\ ~known[a].hidden
         /\ snapshot.name[a] \in ValidNames /\ a \in dir.hiscores
         => a \in snapshot.scores]_vars

\* README.md:91-92, "Renames on the hub are followed": in the end every row of a
\* shared account that is not hidden has the account's name.
RenamesFollowed ==
  <>[](\A a \in shared : hubName[a] \in ValidNames =>
         \E n \in Names : RowsOf(a) = {n} /\ (rows[n].hidden \/ n = hubName[a]))

\* sync.rs:12, "Members an admin hid are left alone": in the end the sync passes
\* over every account whose member is hidden.
HiddenLeftAlone ==
  <>[](\A a \in shared : \A n \in RowsOf(a) :
         rows[n].hidden => known[a] = NoAccount \/ known[a].hidden)

\* HUB_INTEGRATION.md:157-158, "the backend answers for an account only while the
\* latest snapshot lists `hiscores` in its `categories`".
HiscoresOnlyWhileListed ==
  [][FinishPoll /\ full =>
       \A a \in dir.hiscores : dir.nameById[a] # None => a \in snapshot.ids]_vars
=============================================================================
