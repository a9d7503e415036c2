---------------------------- MODULE HubSyncProofs ----------------------------
(* Theorems about HubSync, for every set of accounts and names, every table *)
(* the backend may start with and every bound.                              *)
EXTENDS HubSync, TLAPS

-----------------------------------------------------------------------------
(* The directory: what its methods keep, its type and that its two maps     *)
(* are each other's inverse.                                                *)

\* bind keeps lookups by id and by name in agreement, whoever was bound to whom
\* before (directory.rs bind drops the earlier bindings of both sides).
LEMMA BindKeepsInverse ==
  ASSUME NEW d \in Directories, MutuallyInverse(d), NEW a \in Accounts, NEW n \in Names
  PROVE  Bind(d, a, n) \in Directories /\ MutuallyInverse(Bind(d, a, n))
<1> DEFINE oldName == d.nameById[a]
           oldId   == IF oldName = n THEN None ELSE d.idByName[n]
           e       == Bind(d, a, n)
<1>1. /\ \A i \in Accounts : e.nameById[i] = IF i = a THEN n
                                             ELSE IF i = oldId THEN None ELSE d.nameById[i]
      /\ \A m \in Names : e.idByName[m] = IF m = n THEN a
                                          ELSE IF m = oldName THEN None ELSE d.idByName[m]
  BY DEF Bind, Directories
<1>2. e \in Directories
  BY DEF Bind, Directories
<1>3. ASSUME NEW i \in Accounts, e.nameById[i] # None
      PROVE  e.idByName[e.nameById[i]] = i
  <2>1. CASE i = a
    BY <1>1, <2>1
  <2>2. CASE i # a
    <3>1. e.nameById[i] = d.nameById[i] /\ i # oldId
      BY <1>1, <1>3, <2>2
    <3>2. d.nameById[i] \in Names /\ d.idByName[d.nameById[i]] = i
      BY <1>3, <3>1 DEF MutuallyInverse, Directories
    <3>3. d.nameById[i] # oldName
      BY <2>2, <3>2, <1>3, <3>1 DEF MutuallyInverse
    <3>4. d.nameById[i] # n
      BY <3>1, <3>2, <3>3
    <3> QED BY <1>1, <3>1, <3>2, <3>3, <3>4
  <2> QED BY <2>1, <2>2
<1>4. ASSUME NEW m \in Names, e.idByName[m] # None
      PROVE  e.nameById[e.idByName[m]] = m
  <2>1. CASE m = n
    BY <1>1, <2>1
  <2>2. CASE m # n
    <3>1. e.idByName[m] = d.idByName[m] /\ m # oldName
      BY <1>1, <1>4, <2>2
    <3>2. d.idByName[m] \in Accounts /\ d.nameById[d.idByName[m]] = m
      BY <1>4, <3>1 DEF MutuallyInverse, Directories
    <3>3. d.idByName[m] # a /\ d.idByName[m] # oldId
      <4>1. d.idByName[m] # a
        BY <3>1, <3>2
      <4>2. d.idByName[m] # oldId
        BY <2>2, <3>2, NoneIsNoKey DEF MutuallyInverse
      <4> QED BY <4>1, <4>2
    <3> QED BY <1>1, <3>1, <3>2, <3>3
  <2> QED BY <2>1, <2>2
<1> QED BY <1>2, <1>3, <1>4 DEF MutuallyInverse

\* remove_member keeps it, whether or not the name was bound.
LEMMA RemoveKeepsInverse ==
  ASSUME NEW d \in Directories, MutuallyInverse(d), NEW n \in Names
  PROVE  RemoveMember(d, n) \in Directories /\ MutuallyInverse(RemoveMember(d, n))
<1> DEFINE e == RemoveMember(d, n)
<1>1. /\ \A i \in Accounts : e.nameById[i] = IF i = d.idByName[n] THEN None ELSE d.nameById[i]
      /\ \A m \in Names : e.idByName[m] = IF m = n THEN None ELSE d.idByName[m]
  BY DEF RemoveMember, Directories
<1>2. e \in Directories
  BY DEF RemoveMember, Directories
<1>3. ASSUME NEW i \in Accounts, e.nameById[i] # None
      PROVE  e.idByName[e.nameById[i]] = i
  <2>1. e.nameById[i] = d.nameById[i] /\ i # d.idByName[n]
    BY <1>1, <1>3
  <2>2. d.nameById[i] \in Names /\ d.idByName[d.nameById[i]] = i
    BY <1>3, <2>1 DEF MutuallyInverse, Directories
  <2> QED BY <1>1, <2>1, <2>2
<1>4. ASSUME NEW m \in Names, e.idByName[m] # None
      PROVE  e.nameById[e.idByName[m]] = m
  <2>1. m # n /\ e.idByName[m] = d.idByName[m]
    BY <1>1, <1>4
  <2>2. d.idByName[m] \in Accounts /\ d.nameById[d.idByName[m]] = m
    BY <1>4, <2>1 DEF MutuallyInverse, Directories
  <2>3. d.idByName[m] # d.idByName[n]
    BY <2>1, <2>2, NoneIsNoKey DEF MutuallyInverse
  <2> QED BY <1>1, <2>1, <2>2, <2>3
<1> QED BY <1>2, <1>3, <1>4 DEF MutuallyInverse

\* The flags of an account touch neither map.
LEMMA FlagsKeepInverse ==
  ASSUME NEW d \in Directories, MutuallyInverse(d), NEW a \in Accounts, NEW b \in BOOLEAN
  PROVE  /\ SetHidden(d, a, b) \in Directories /\ MutuallyInverse(SetHidden(d, a, b))
         /\ SetSharesHiscores(d, a, b) \in Directories
         /\ MutuallyInverse(SetSharesHiscores(d, a, b))
BY DEF SetHidden, SetSharesHiscores, Directories, MutuallyInverse

(* The statements of db/hub.rs keep the table a table, and its hub ids unique. *)

\* bind_hub_account: the row of the name gets the id, and any other that had it
\* loses it.
LEMMA BindKeepsTable ==
  ASSUME rows \in Tables, UniqueIds(rows), NEW n \in Names, NEW a \in Accounts
  PROVE  BindHubAccount(n, a) \in Tables /\ UniqueIds(BindHubAccount(n, a))
<1> DEFINE t == BindHubAccount(n, a)
<1>1. t \in Tables
  BY AbsentIsNoRecord DEF BindHubAccount, Tables, Rows, Exists, Hashes
<1>2. \A m \in Names : t[m] # NoRow => rows[m] # NoRow
  BY DEF BindHubAccount, Exists
<1>3. \A m \in Names \ {n} : t[m] # NoRow => t[m].id = IF rows[m].id = a THEN None ELSE rows[m].id
  BY DEF BindHubAccount, Exists, Tables, Rows
<1>4. t[n] # NoRow => t[n].id = a
  BY DEF BindHubAccount, Exists, Tables, Rows
<1>5. UniqueIds(t)
  BY <1>2, <1>3, <1>4 DEF UniqueIds
<1> QED BY <1>1, <1>5

\* rename_hub_member: the row moves.
LEMMA RenameKeepsTable ==
  ASSUME rows \in Tables, UniqueIds(rows), NEW old \in Names, NEW new \in Names
  PROVE  RenameHubMember(old, new) \in Tables /\ UniqueIds(RenameHubMember(old, new))
BY DEF RenameHubMember, Tables, UniqueIds, Exists

\* mark_hub_orphans: marks only.
LEMMA OrphansKeepTable ==
  ASSUME NEW t \in Tables, UniqueIds(t), NEW visible
  PROVE  /\ ClearOrphans(t, visible) \in Tables /\ UniqueIds(ClearOrphans(t, visible))
         /\ MarkOrphans(t, visible) \in Tables /\ UniqueIds(MarkOrphans(t, visible))
<1> USE AbsentIsNoRecord DEF ClearOrphans, MarkOrphans
<1>1. ClearOrphans(t, visible) \in Tables /\ MarkOrphans(t, visible) \in Tables
  BY DEF Tables, Rows
<1>2. \A n \in Names :
        /\ ClearOrphans(t, visible)[n] # NoRow =>
             t[n] # NoRow /\ ClearOrphans(t, visible)[n].id = t[n].id
        /\ MarkOrphans(t, visible)[n] # NoRow =>
             t[n] # NoRow /\ MarkOrphans(t, visible)[n].id = t[n].id
  BY DEF Tables, Rows
<1>3. UniqueIds(ClearOrphans(t, visible)) /\ UniqueIds(MarkOrphans(t, visible))
  <2> HIDE DEF ClearOrphans, MarkOrphans
  <2> QED BY <1>2 DEF UniqueIds
<1> QED BY <1>1, <1>3

\* A new member's row, and the statements of the admin requests.
LEMMA OneRowKeepsTable ==
  ASSUME rows \in Tables, UniqueIds(rows), NEW n \in Names, NEW h \in BOOLEAN
  PROVE  /\ [rows EXCEPT ![n] = NewRow] \in Tables
         /\ UniqueIds([rows EXCEPT ![n] = NewRow])
         /\ [rows EXCEPT ![n] = NoRow] \in Tables
         /\ UniqueIds([rows EXCEPT ![n] = NoRow])
         /\ Exists(n) => [rows EXCEPT ![n].hidden = h] \in Tables
         /\ Exists(n) => UniqueIds([rows EXCEPT ![n].hidden = h])
<1>1. NewRow \in Rows /\ NewRow.id = None
  BY DEF NewRow, Rows
<1>2. /\ [rows EXCEPT ![n] = NewRow] \in Tables
      /\ UniqueIds([rows EXCEPT ![n] = NewRow])
  BY <1>1 DEF Tables, UniqueIds
<1>3. /\ [rows EXCEPT ![n] = NoRow] \in Tables
      /\ UniqueIds([rows EXCEPT ![n] = NoRow])
  BY DEF Tables, UniqueIds
<1>4. ASSUME Exists(n)
      PROVE  /\ [rows EXCEPT ![n].hidden = h] \in Tables
             /\ UniqueIds([rows EXCEPT ![n].hidden = h])
  <2>1. rows[n] \in Rows
    BY <1>4 DEF Exists, Tables
  <2>2. [rows[n] EXCEPT !.hidden = h] \in Rows /\ [rows[n] EXCEPT !.hidden = h].id = rows[n].id
    BY <2>1 DEF Rows
  <2>3. [rows EXCEPT ![n].hidden = h] = [rows EXCEPT ![n] = [rows[n] EXCEPT !.hidden = h]]
    BY DEF Tables
  <2> QED BY <1>4, <2>2, <2>3 DEF Tables, UniqueIds, Exists
<1> QED BY <1>2, <1>3, <1>4

\* HubDirectory::load of a table with unique ids gives a directory whose maps are
\* each other's inverse.
LEMMA LoadIsInverse ==
  ASSUME rows \in Tables, UniqueIds(rows)
  PROVE  LoadDirectory \in Directories /\ MutuallyInverse(LoadDirectory)
<1> DEFINE d == LoadDirectory
<1>1. d \in Directories
  BY AbsentIsNoRecord DEF LoadDirectory, Directories, RowsOf, Exists, Rows, Tables
<1>2. ASSUME NEW a \in Accounts, d.nameById[a] # None
      PROVE  d.idByName[d.nameById[a]] = a
  <2>1. \E n \in RowsOf(a) : ~rows[n].hidden
    BY <1>2 DEF LoadDirectory
  <2>2. d.nameById[a] \in RowsOf(a) /\ ~rows[d.nameById[a]].hidden
    BY <2>1 DEF LoadDirectory
  <2> QED BY <2>2 DEF LoadDirectory, RowsOf
<1>3. ASSUME NEW n \in Names, d.idByName[n] # None
      PROVE  d.nameById[d.idByName[n]] = n
  <2> DEFINE a == rows[n].id
  <2>1. Exists(n) /\ ~rows[n].hidden /\ d.idByName[n] = a /\ a \in Accounts
    BY <1>1, <1>3 DEF LoadDirectory, Directories
  <2>2. n \in RowsOf(a) /\ \A m \in RowsOf(a) : m = n
    BY <1>3, <2>1 DEF RowsOf, UniqueIds, Exists
  <2>3. d.nameById[a] = CHOOSE m \in RowsOf(a) : ~rows[m].hidden
    BY <2>1, <2>2 DEF LoadDirectory
  <2> QED BY <2>1, <2>2, <2>3
<1> QED BY <1>1, <1>2, <1>3 DEF MutuallyInverse

-----------------------------------------------------------------------------
(* The invariant: the types, with what is in hand while an account is       *)
(* processed, unique hub ids, and the directory's two maps in agreement.    *)

IInv == TypeOK /\ HubIdsUnique /\ DirectoryInverse

LEMMA InitIInv == Init => IInv
<1> SUFFICES ASSUME Init PROVE IInv
  OBVIOUS
<1> USE StartIsATable, AbsentIsNoRecord, NoneIsNoKey, BoundsAreNaturals
<1>1. rows \in Tables /\ UniqueIds(rows)
  BY DEF Init
<1>2. dir \in Directories /\ MutuallyInverse(dir)
  BY <1>1, LoadIsInverse DEF Init
<1>3. known \in [Accounts -> Known \cup {NoAccount}]
  BY DEF Init
<1>4. InHand
  BY DEF Init, InHand
<1>5. snapshot \in [ids : SUBSET Accounts, name : [Accounts -> Names], scores : SUBSET Accounts]
  BY DEF Init, EmptySnapshot
<1>6. found \in Found
  BY DEF Init, Found, NotFound
<1>7. hubOps \in 0..MaxHubOps /\ adminOps \in 0..MaxAdminOps /\ faults \in 0..MaxFaults
  BY DEF Init
<1>8. hubName \in [Accounts -> Names] /\ todo \subseteq snapshot.ids /\ requests \subseteq Requests
  BY DEF Init
<1>9. pc \in {"idle", "requested", "process", "bind", "settle", "rename", "renamed"}
  BY DEF Init
<1>10. TypeOK
  BY <1>1, <1>2, <1>3, <1>4, <1>5, <1>6, <1>7, <1>8, <1>9 DEF Init, TypeOK
<1> QED BY <1>1, <1>2, <1>10 DEF IInv, HubIdsUnique, DirectoryInverse

(* What a step does to the table and to the directory.                      *)

\* No step of the sync, of an admin request or of a restart leaves the table with
\* two rows of one hub id.
LEMMA TableStep == IInv /\ Next => rows' \in Tables /\ UniqueIds(rows')
<1> SUFFICES ASSUME IInv, Next PROVE rows' \in Tables /\ UniqueIds(rows')
  OBVIOUS
<1>1. rows \in Tables /\ UniqueIds(rows)
  BY DEF IInv, TypeOK, HubIdsUnique
<1>2. ASSUME NEW a \in Accounts, TakeAccount(a) PROVE rows' \in Tables /\ UniqueIds(rows')
  <2>1. snapshot.name[a] \in Names
    BY DEF IInv, TypeOK
  <2>2. rows' = rows \/ rows' = [rows EXCEPT ![snapshot.name[a]] = NewRow]
    BY <1>2 DEF TakeAccount
  <2> QED BY <1>1, <2>1, <2>2, OneRowKeepsTable
<1>3. CASE BindAccount
  <2>1. found.name \in Names /\ cur \in Accounts
    BY <1>3 DEF IInv, TypeOK, InHand, BindAccount
  <2> QED BY <1>1, <1>3, <2>1, BindKeepsTable DEF BindAccount
<1>4. CASE FollowRename
  <2>1. cur \in Accounts /\ known[cur].name \in Names /\ snapshot.name[cur] \in Names
    BY <1>4 DEF IInv, TypeOK, InHand, FollowRename, Known
  <2>2. found.name # None => found.name \in Names
    BY DEF IInv, TypeOK, Found
  <2> QED BY <1>1, <1>4, <2>1, <2>2, BindKeepsTable, RenameKeepsTable DEF FollowRename
<1>5. CASE FinishPoll \/ FinishFails
  <2>1. ClearOrphans(rows, snapshot.ids) \in Tables /\ UniqueIds(ClearOrphans(rows, snapshot.ids))
    BY <1>1, OrphansKeepTable
  <2>2. LET t == MarkOrphans(ClearOrphans(rows, snapshot.ids), snapshot.ids)
        IN  t \in Tables /\ UniqueIds(t)
    BY <2>1, OrphansKeepTable
  <2> QED BY <1>1, <1>5, <2>1, <2>2 DEF FinishPoll, FinishFails
<1>6. ASSUME NEW r \in Requests, AdminStatement(r) PROVE rows' \in Tables /\ UniqueIds(rows')
  <2>1. r.name \in Names /\ (r.kind = "hide") \in BOOLEAN /\ Exists(r.name)
    BY <1>6 DEF Requests, AdminStatement
  <2> QED BY <1>1, <1>6, <2>1, OneRowKeepsTable DEF AdminStatement
<1>7. CASE UNCHANGED rows
  BY <1>1, <1>7
<1> QED
  BY <1>2, <1>3, <1>4, <1>5, <1>6, <1>7
  DEF Next, Sync, PollStart, Fetch, SettleAccount, RenameKnown, PollFails, SkipAccount,
      RefreshDue, Restart, HubShare, HubNewData, HubRename, AdminForget

\* Nor does one leave the directory's maps in disagreement.
LEMMA DirectoryStep == IInv /\ Next => dir' \in Directories /\ MutuallyInverse(dir')
<1> SUFFICES ASSUME IInv, Next PROVE dir' \in Directories /\ MutuallyInverse(dir')
  OBVIOUS
<1>1. dir \in Directories /\ MutuallyInverse(dir)
  BY DEF IInv, TypeOK, DirectoryInverse
<1>2. CASE BindAccount
  <2> DEFINE flagged == SetHidden(dir, cur, found.hidden)
  <2>1. found.name \in Names /\ cur \in Accounts /\ found.hidden \in BOOLEAN
    BY <1>2 DEF IInv, TypeOK, InHand, BindAccount, Found
  <2>2. flagged \in Directories /\ MutuallyInverse(flagged)
    BY <1>1, <2>1, FlagsKeepInverse
  <2>3. dir' = IF found.hidden THEN RemoveMember(flagged, found.name)
               ELSE Bind(flagged, cur, found.name)
    BY <1>2 DEF BindAccount
  <2> HIDE DEF flagged
  <2> QED BY <2>1, <2>2, <2>3, BindKeepsInverse, RemoveKeepsInverse
<1>3. CASE SettleAccount
  <2>1. cur \in Accounts
    BY <1>3 DEF IInv, TypeOK, InHand, SettleAccount
  <2> DEFINE shares == cur \in snapshot.scores
  <2>2. dir' = dir \/ dir' = SetSharesHiscores(dir, cur, shares)
    BY <1>3 DEF SettleAccount
  <2>3. shares \in BOOLEAN
    OBVIOUS
  <2> HIDE DEF shares
  <2> QED BY <1>1, <2>1, <2>2, <2>3, FlagsKeepInverse
<1>4. CASE RenameKnown
  <2>1. cur \in Accounts /\ snapshot.name[cur] \in Names
    BY <1>4 DEF IInv, TypeOK, InHand, RenameKnown
  <2> QED BY <1>1, <1>4, <2>1, BindKeepsInverse DEF RenameKnown
<1>5. ASSUME NEW r \in Requests, AdminForget(r) PROVE dir' \in Directories /\ MutuallyInverse(dir')
  <2> DEFINE a == dir.idByName[r.name]
             flagged == IF r.kind = "delete" \/ a = None THEN dir
                        ELSE SetHidden(dir, a, r.kind = "hide")
  <2>1. r.name \in Names /\ (r.kind = "hide") \in BOOLEAN
    BY DEF Requests
  <2>2. a # None => a \in Accounts
    BY <1>1, <2>1 DEF Directories
  <2>3. flagged \in Directories /\ MutuallyInverse(flagged)
    BY <1>1, <2>1, <2>2, FlagsKeepInverse
  <2>4. dir' = RemoveMember(flagged, r.name)
    BY <1>5 DEF AdminForget
  <2> HIDE DEF flagged
  <2> QED BY <2>1, <2>3, <2>4, RemoveKeepsInverse
<1>6. CASE Restart
  <2>1. rows \in Tables /\ UniqueIds(rows)
    BY DEF IInv, TypeOK, HubIdsUnique
  <2> QED BY <1>6, <2>1, LoadIsInverse DEF Restart
<1>7. CASE UNCHANGED dir
  BY <1>1, <1>7
<1> QED
  BY <1>2, <1>3, <1>4, <1>5, <1>6, <1>7
  DEF Next, Sync, PollStart, Fetch, TakeAccount, FollowRename, FinishPoll, PollFails,
      SkipAccount, FinishFails, RefreshDue, HubShare, HubNewData, HubRename, AdminStatement

\* Types are kept, and what is in hand while an account is processed.
LEMMA TypeStep == IInv /\ Next => TypeOK'
<1> SUFFICES ASSUME IInv, Next PROVE TypeOK'
  OBVIOUS
<1> USE NoneIsNoKey, AbsentIsNoRecord
<1>1. rows' \in Tables /\ dir' \in Directories
  BY TableStep, DirectoryStep
<1>2. TypeOK
  BY DEF IInv
<1>0. /\ EmptySnapshot \in [ids : SUBSET Accounts, name : [Accounts -> Names],
                             scores : SUBSET Accounts]
      /\ NotFound \in Found
  BY StartIsATable DEF EmptySnapshot, NotFound, Found
<1>3. ASSUME NEW a \in Accounts, NEW n \in Names, HubRename(a, n) PROVE TypeOK'
  BY <1>1, <1>2, <1>3, BoundsAreNaturals
  DEF HubRename, TypeOK, InHand, pollVars, stepVars
<1>4. ASSUME NEW a \in Accounts, HubShare(a) PROVE TypeOK'
  BY <1>1, <1>2, <1>4, BoundsAreNaturals DEF HubShare, TypeOK, InHand, pollVars, stepVars
<1>5. ASSUME NEW a \in Accounts, HubNewData(a) PROVE TypeOK'
  BY <1>1, <1>2, <1>5 DEF HubNewData, TypeOK, InHand, hubVars, pollVars, stepVars, countVars
<1>6. CASE PollStart
  BY <1>1, <1>2, <1>6 DEF PollStart, TypeOK, InHand, hubVars, stepVars, countVars
<1>7. CASE Fetch
  BY <1>1, <1>2, <1>7 DEF Fetch, TypeOK, InHand, hubVars, countVars
<1>8. ASSUME NEW a \in Accounts, TakeAccount(a) PROVE TypeOK'
  <2>1. found' \in Found /\ (pc' = "bind" => found'.name \in Names)
    <3>1. snapshot.name[a] \in Names
      BY <1>2 DEF TypeOK
    <3>2. \A n \in Names : Exists(n) => rows[n].hidden \in BOOLEAN
      BY <1>2 DEF TypeOK, Tables, Rows, Exists
    <3>3. \A h : Candidates(h, snapshot.name[a]) \subseteq {n \in Names : Exists(n)}
      BY <3>1 DEF Candidates, RowsWithHash
    <3>4. RowsOf(a) \subseteq {n \in Names : Exists(n)}
      BY DEF RowsOf
    <3>5. \/ found' = found /\ pc' # "bind"
          \/ pc' = "bind" /\ \E n \in Names, h \in BOOLEAN, i \in BOOLEAN :
               found' = [name |-> n, hidden |-> h, byId |-> i]
      BY <1>8, <3>1, <3>2, <3>3, <3>4 DEF TakeAccount
    <3> QED BY <1>2, <3>5 DEF TypeOK, Found
  <2>2. pc' \in {"process", "settle", "bind"}
    BY <1>8 DEF TakeAccount
  <2>3. pc' = "settle" => known'[cur'] # NoAccount
    BY <1>8 DEF TakeAccount
  <2>4. cur' \in Accounts \cup {None} /\ (pc' # "process" => cur' \in Accounts)
    BY <1>2, <1>8 DEF TakeAccount, TypeOK
  <2>5. InHand'
    BY <2>1, <2>2, <2>3, <2>4 DEF InHand
  <2>6. todo' \subseteq snapshot'.ids
    BY <1>2, <1>8 DEF TakeAccount, TypeOK, pollVars
  <2> QED BY <1>1, <1>2, <1>8, <2>1, <2>2, <2>4, <2>5, <2>6
          DEF TakeAccount, TypeOK, hubVars, pollVars, countVars
<1>9. CASE BindAccount
  <2>1. cur \in Accounts /\ found.name \in Names /\ found.hidden \in BOOLEAN
    BY <1>2, <1>9 DEF TypeOK, InHand, BindAccount, Found
  <2>2. known' \in [Accounts -> Known \cup {NoAccount}] /\ known'[cur] # NoAccount
    BY <1>2, <1>9, <2>1 DEF TypeOK, BindAccount, Known
  <2>3. found' \in Found
    BY <1>9 DEF BindAccount, Found, NotFound
  <2>4. InHand'
    BY <1>9, <2>1, <2>2 DEF BindAccount, InHand
  <2> QED BY <1>1, <1>2, <1>9, <2>2, <2>3, <2>4
          DEF BindAccount, TypeOK, hubVars, pollVars, countVars
<1>10. CASE SettleAccount
  <2>1. cur \in Accounts /\ known[cur] # NoAccount /\ snapshot.name[cur] \in Names
    BY <1>2, <1>10 DEF TypeOK, InHand, SettleAccount
  <2>2. found' \in Found
    <3>1. \A m \in Names \cup {None} : [NotFound EXCEPT !.name = m] \in Found
      BY DEF NotFound, Found
    <3>2. \/ found' = NotFound \/ found' = found
          \/ \E m \in Names \cup {None} : found' = [NotFound EXCEPT !.name = m]
      BY <1>10, <2>1 DEF SettleAccount, AccountDone
    <3> QED BY <1>0, <1>2, <3>1, <3>2 DEF TypeOK
  <2>3. InHand'
    BY <1>10, <2>1 DEF SettleAccount, AccountDone, InHand
  <2> QED BY <1>1, <1>2, <1>10, <2>2, <2>3
          DEF SettleAccount, AccountDone, TypeOK, hubVars, pollVars, countVars
<1>11. CASE FollowRename
  BY <1>1, <1>2, <1>11
  DEF FollowRename, TypeOK, InHand, hubVars, pollVars, stepVars, countVars
<1>12. CASE RenameKnown
  <2>1. cur \in Accounts /\ known[cur] \in Known /\ snapshot.name[cur] \in Names
    BY <1>2, <1>12 DEF TypeOK, InHand, RenameKnown
  <2>2. known' \in [Accounts -> Known \cup {NoAccount}]
    <3>1. [known[cur] EXCEPT !.name = snapshot.name[cur]] \in Known
      BY <2>1 DEF Known
    <3>2. known' = [known EXCEPT ![cur] = [known[cur] EXCEPT !.name = snapshot.name[cur]]]
      BY <1>12 DEF RenameKnown
    <3> QED BY <1>2, <3>1, <3>2 DEF TypeOK
  <2>3. found' \in Found
    BY <1>12 DEF RenameKnown, AccountDone, Found, NotFound
  <2> QED BY <1>1, <1>2, <1>12, <2>2, <2>3
          DEF RenameKnown, AccountDone, TypeOK, InHand, hubVars, pollVars, countVars
<1>13. CASE PollFails
  <2>1. InHand'
    BY <1>13 DEF PollFails, EndPoll, InHand
  <2>2. faults' \in 0..MaxFaults
    BY <1>2, <1>13, BoundsAreNaturals DEF PollFails, TypeOK
  <2> QED BY <1>0, <1>1, <1>2, <1>13, <2>1, <2>2 DEF PollFails, EndPoll, TypeOK, hubVars
<1>14. CASE SkipAccount
  <2>1. found' \in Found
    BY <1>14 DEF SkipAccount, AccountDone, Found, NotFound
  <2> QED BY <1>1, <1>2, <1>14, <2>1, BoundsAreNaturals
          DEF SkipAccount, AccountDone, TypeOK, InHand, hubVars, pollVars
<1>15. ASSUME FinishPoll \/ FinishFails PROVE TypeOK'
  <2>1. known' \in [Accounts -> Known \cup {NoAccount}]
    BY <1>2, <1>15 DEF FinishPoll, FinishFails, TypeOK
  <2>2. /\ pc' = "idle" /\ snapshot' = EmptySnapshot /\ todo' = {} /\ full' = FALSE
        /\ taken' = {} /\ fullDue' \in BOOLEAN /\ fresh' \subseteq Accounts
        /\ UNCHANGED <<hubVars, forgotten, cur, found, requests, hubOps, adminOps>>
    BY <1>2, <1>15 DEF FinishPoll, FinishFails, EndPoll, TypeOK, countVars
  <2>3. faults' \in 0..MaxFaults
    BY <1>2, <1>15, BoundsAreNaturals DEF FinishPoll, FinishFails, TypeOK, countVars
  <2> QED BY <1>1, <1>2, <2>1, <2>2, <2>3, StartIsATable
          DEF TypeOK, InHand, EmptySnapshot, hubVars
<1>16. CASE RefreshDue
  BY <1>1, <1>2, <1>16 DEF RefreshDue, TypeOK, InHand, hubVars, pollVars, stepVars, countVars
<1>17. ASSUME NEW r \in Requests, AdminStatement(r) PROVE TypeOK'
  BY <1>1, <1>2, <1>17, BoundsAreNaturals
  DEF AdminStatement, TypeOK, InHand, hubVars, pollVars, stepVars
<1>18. ASSUME NEW r \in Requests, AdminForget(r) PROVE TypeOK'
  BY <1>1, <1>2, <1>18
  DEF AdminForget, Requests, TypeOK, InHand, hubVars, pollVars, stepVars, countVars
<1>19. CASE Restart
  <2>1. InHand'
    BY <1>19 DEF Restart, EndPoll, InHand
  <2>2. faults' \in 0..MaxFaults
    BY <1>2, <1>19, BoundsAreNaturals DEF Restart, TypeOK
  <2>3. known' \in [Accounts -> Known \cup {NoAccount}]
    BY <1>19 DEF Restart
  <2> QED BY <1>0, <1>1, <1>2, <1>19, <2>1, <2>2, <2>3 DEF Restart, EndPoll, TypeOK, hubVars
<1> QED
  BY <1>3, <1>4, <1>5, <1>6, <1>7, <1>8, <1>9, <1>10, <1>11, <1>12, <1>13, <1>14, <1>15,
     <1>16, <1>17, <1>18, <1>19 DEF Next, Sync

LEMMA StutterKeepsIInv == IInv /\ UNCHANGED vars => IInv'
BY DEF IInv, TypeOK, InHand, HubIdsUnique, DirectoryInverse, vars, hubVars, pollVars,
       stepVars, countVars, Tables, UniqueIds, MutuallyInverse

\* The invariant holds throughout.
THEOREM Invariant == Spec => []IInv
<1>1. IInv /\ [Next]_vars => IInv'
  BY TypeStep, TableStep, DirectoryStep, StutterKeepsIInv
  DEF IInv, HubIdsUnique, DirectoryInverse
<1> QED BY InitIInv, <1>1, PTL DEF Spec

\* Every variable keeps its type; an account that is being processed is in hand.
THEOREM TypeCorrect == Spec => []TypeOK
BY Invariant, PTL DEF IInv

\* However binds, renames, admin requests, failed statements and restarts
\* interleave, no two rows are bound to one hub account: UNIQUE (hub_account_id)
\* never makes a statement of the sync fail.
THEOREM IdsStayUnique == Spec => []HubIdsUnique
BY Invariant, PTL DEF IInv

\* At every moment the directory's lookups by name and by id agree.
THEOREM DirectoryStaysInverse == Spec => []DirectoryInverse
BY Invariant, PTL DEF IInv

-----------------------------------------------------------------------------
(* The sync's memory, while the hub's accounts keep their names.            *)

\* A row that is an account's, by its id or its hash, has the account's name.
OwnRows(table) ==
  \A n \in Names, a \in Accounts :
    table[n] # NoRow /\ (table[n].id = a \/ (Hash[a] # None /\ table[n].hash = Hash[a]))
      => n = InitName[a]

\* Nobody is renamed, and names, hashes and rows are one account's each.
NamesStay ==
  /\ \A a \in Accounts : MayTake[a] = {}
  /\ \A a, b \in Accounts :
       InitName[a] = InitName[b] \/ (Hash[a] # None /\ Hash[a] = Hash[b]) => a = b
  /\ OwnRows(InitRows)

\* An admin changed the member, and the sync has yet to forget it.
Unsure(n) == n \in forgotten \/ \E r \in requests : r.name = n

\* What is remembered of an account is so unless an admin changed the member meanwhile ...
IsRemembered(a) ==
  known[a] # NoAccount =>
    /\ known[a].name = InitName[a]
    /\ ~Unsure(InitName[a]) =>
         /\ Exists(InitName[a]) /\ rows[InitName[a]].id = a
         /\ rows[InitName[a]].hidden = known[a].hidden
         /\ dir.nameById[a] = IF known[a].hidden THEN None ELSE InitName[a]

\* ... and so is the row that was looked up for an account that is about to be bound.
FoundIsThere ==
  pc = "bind" =>
    /\ found.name = InitName[cur]
    /\ ~Unsure(InitName[cur]) =>
         /\ Exists(found.name) /\ rows[found.name].hidden = found.hidden
         /\ found.byId => rows[found.name].id = cur

MemoryInv ==
  /\ hubName = InitName /\ snapshot.name = InitName /\ pc \notin {"rename", "renamed"}
  /\ OwnRows(rows)
  /\ \A a \in Accounts : dir.nameById[a] \in {None, InitName[a]}
  /\ \A a \in Accounts : IsRemembered(a)
  /\ FoundIsThere

\* bind_hub_account, to the one row that is the account's: no other row changes.
LEMMA BindsOwnRow ==
  ASSUME NamesStay, TypeOK, OwnRows(rows), NEW a \in Accounts
  PROVE  LET n == InitName[a]
             t == BindHubAccount(n, a)
         IN  /\ OwnRows(t)
             /\ \A m \in Names \ {n} : t[m] = rows[m]
             /\ t[n] # NoRow <=> rows[n] # NoRow
             /\ rows[n] # NoRow => t[n].id = a /\ t[n].hidden = rows[n].hidden
<1> DEFINE n == InitName[a]
           t == BindHubAccount(n, a)
<1>1. n \in Names /\ rows \in Tables
  BY StartIsATable DEF TypeOK
<1>2. \A m \in Names \ {n} : t[m] = rows[m]
  BY DEF BindHubAccount, Exists, OwnRows
<1>3. rows[n] = NoRow => t[n] = NoRow
  BY <1>1 DEF BindHubAccount, Exists
<1>4. rows[n] # NoRow =>
        /\ t[n] \in Rows /\ t[n].id = a /\ t[n].hidden = rows[n].hidden
        /\ t[n].hash = IF Hash[a] = None THEN rows[n].hash ELSE Hash[a]
  <2> SUFFICES ASSUME rows[n] # NoRow
               PROVE  /\ t[n] \in Rows /\ t[n].id = a /\ t[n].hidden = rows[n].hidden
                      /\ t[n].hash = IF Hash[a] = None THEN rows[n].hash ELSE Hash[a]
    OBVIOUS
  <2>1. rows[n] \in Rows
    BY <1>1 DEF Tables
  <2>2. t[n] = [rows[n] EXCEPT !.id = a, !.orphaned = FALSE,
                               !.hash = IF Hash[a] = None THEN rows[n].hash ELSE Hash[a]]
    BY <1>1, <2>1 DEF BindHubAccount, Exists, Rows
  <2>3. Hash[a] \in Hashes
    BY DEF Hashes
  <2> HIDE DEF t
  <2> QED BY <2>1, <2>2, <2>3 DEF Rows
<1> HIDE DEF t, n
<1>5. OwnRows(t)
  <2> SUFFICES ASSUME NEW m \in Names, NEW b \in Accounts, t[m] # NoRow,
                      t[m].id = b \/ (Hash[b] # None /\ t[m].hash = Hash[b])
               PROVE  m = InitName[b]
    BY DEF OwnRows
  <2>1. CASE m # n
    BY <1>2, <2>1 DEF OwnRows
  <2>2. CASE m = n /\ t[m].id = b
    BY <1>3, <1>4, <2>2 DEF n
  <2>3. CASE m = n /\ Hash[b] # None /\ t[m].hash = Hash[b]
    <3>1. CASE Hash[a] = None
      BY <1>3, <1>4, <2>3, <3>1 DEF OwnRows
    <3>2. CASE Hash[a] # None
      BY <1>3, <1>4, <2>3, <3>2 DEF NamesStay, n
    <3> QED BY <3>1, <3>2
  <2> QED BY <2>1, <2>2, <2>3
<1> QED BY <1>2, <1>3, <1>4, <1>5, AbsentIsNoRecord DEF n, t

\* The directory's methods, for an account that is bound to its own name or none.
LEMMA BindsOwnName ==
  ASSUME NamesStay, NEW d \in Directories, MutuallyInverse(d),
         \A a \in Accounts : d.nameById[a] \in {None, InitName[a]},
         NEW a \in Accounts
  PROVE  LET n == InitName[a]
         IN  /\ Bind(d, a, n).nameById[a] = n
             /\ RemoveMember(d, n).nameById[a] = None
             /\ \A b \in Accounts \ {a} : /\ Bind(d, a, n).nameById[b] = d.nameById[b]
                                         /\ RemoveMember(d, n).nameById[b] = d.nameById[b]
<1> DEFINE n == InitName[a]
<1>1. n \in Names
  BY StartIsATable
<1>2. d.idByName[n] \in {None, a}
  <2>1. d.idByName[n] # None => d.idByName[n] \in Accounts /\ d.nameById[d.idByName[n]] = n
    BY <1>1 DEF Directories, MutuallyInverse
  <2> QED BY <1>1, <2>1, NoneIsNoKey DEF NamesStay
<1>3. d.nameById[a] # None => d.idByName[n] = a
  BY DEF MutuallyInverse
<1>4. \A b \in Accounts \ {a} : Bind(d, a, n).nameById[b] = d.nameById[b]
  BY <1>2, NoneIsNoKey DEF Bind, Directories
<1>5. \A b \in Accounts \ {a} : RemoveMember(d, n).nameById[b] = d.nameById[b]
  BY <1>2, NoneIsNoKey DEF RemoveMember, Directories
<1>6. Bind(d, a, n).nameById[a] = n
  BY DEF Bind, Directories
<1>7. RemoveMember(d, n).nameById[a] = None
  BY <1>3 DEF RemoveMember, Directories
<1> QED BY <1>4, <1>5, <1>6, <1>7

\* mark_hub_orphans, or as much of it as ran: whose a row is and whether it is
\* hidden stays.
SameOwners(t, u) ==
  \A n \in Names :
    /\ u[n] # NoRow <=> t[n] # NoRow
    /\ t[n] # NoRow => u[n].id = t[n].id /\ u[n].hash = t[n].hash /\ u[n].hidden = t[n].hidden

LEMMA OrphansKeepOwners ==
  ASSUME NEW t \in Tables, NEW visible
  PROVE  /\ SameOwners(t, ClearOrphans(t, visible))
         /\ SameOwners(t, MarkOrphans(t, visible))
<1>1. \A n \in Names : t[n] # NoRow =>
        [t[n] EXCEPT !.orphaned = FALSE] \in Rows /\ [t[n] EXCEPT !.orphaned = TRUE] \in Rows
  BY DEF Tables, Rows
<1> QED BY <1>1, AbsentIsNoRecord DEF SameOwners, ClearOrphans, MarkOrphans, Tables, Rows

LEMMA FinishKeepsOwners ==
  ASSUME TypeOK, FinishPoll \/ FinishFails
  PROVE  SameOwners(rows, rows')
<1> DEFINE t == ClearOrphans(rows, snapshot.ids)
           u == MarkOrphans(t, snapshot.ids)
<1>1. rows \in Tables
  BY DEF TypeOK
<1>2. t \in Tables
  BY <1>1, AbsentIsNoRecord DEF ClearOrphans, Tables, Rows
<1>3. SameOwners(rows, t) /\ SameOwners(t, u)
  BY <1>1, <1>2, OrphansKeepOwners
<1>4. rows' = rows \/ rows' = t \/ rows' = u
  BY DEF FinishPoll, FinishFails
<1> HIDE DEF t, u
<1>5. SameOwners(rows, u)
  BY <1>3 DEF SameOwners
<1> QED BY <1>3, <1>4, <1>5 DEF SameOwners

\* Steps that leave the rows, the directory, the memory and what is unsure alone.
LEMMA ElsewhereKeepsMemory ==
  ASSUME MemoryInv, UNCHANGED <<hubName, rows, dir, known, forgotten, requests>>,
         snapshot'.name = InitName, pc' \in {"idle", "requested", "process", "settle", "bind"},
         pc' = "bind" => pc = "bind" /\ UNCHANGED <<cur, found>>
  PROVE  MemoryInv'
<1>1. \A a \in Accounts : IsRemembered(a)'
  BY DEF MemoryInv, IsRemembered, Unsure, Exists
<1>2. FoundIsThere'
  BY DEF MemoryInv, FoundIsThere, Unsure, Exists
<1> QED BY <1>1, <1>2 DEF MemoryInv, OwnRows

LEMMA PollStartKeepsMemory ==
  ASSUME MemoryInv, PollStart
  PROVE  MemoryInv'
<1>1. ASSUME NEW a \in Accounts PROVE IsRemembered(a)'
  BY <1>1 DEF PollStart, MemoryInv, IsRemembered, Unsure, Exists
<1>2. FoundIsThere'
  BY DEF PollStart, FoundIsThere
<1> QED BY <1>1, <1>2 DEF PollStart, MemoryInv, OwnRows, hubVars

LEMMA TakeAccountKeepsMemory ==
  ASSUME NamesStay, TypeOK, MemoryInv, NEW a \in Accounts, TakeAccount(a)
  PROVE  MemoryInv'
<1> DEFINE n == InitName[a]
<1>1. n \in Names /\ snapshot.name[a] = n /\ rows \in Tables
  BY StartIsATable DEF MemoryInv, TypeOK
<1>2. UNCHANGED <<hubName, dir, known, forgotten, requests, snapshot>>
  BY DEF TakeAccount, hubVars, pollVars
<1>3. \/ rows' = rows
      \/ rows[n] = NoRow /\ rows' = [rows EXCEPT ![n] = NewRow]
  BY <1>1 DEF TakeAccount, Candidates, Exists
<1>4. NewRow.id = None /\ NewRow.hash = None /\ NewRow.hidden = FALSE /\ NewRow # NoRow
  <2>1. NewRow \in Rows
    BY DEF NewRow, Rows
  <2> QED BY <2>1, AbsentIsNoRecord DEF NewRow
<1>5. OwnRows(rows')
  BY <1>1, <1>3, <1>4, NoneIsNoKey DEF OwnRows, MemoryInv, Tables
<1>6. \A m \in Names : rows[m] # NoRow => rows'[m] = rows[m]
  BY <1>1, <1>3 DEF Tables
<1>7. ASSUME NEW b \in Accounts PROVE IsRemembered(b)'
  <2>1. InitName[b] \in Names /\ IsRemembered(b)
    BY StartIsATable DEF MemoryInv
  <2> QED BY <1>2, <1>6, <2>1 DEF IsRemembered, Unsure, Exists
<1>8. FoundIsThere'
  <2>1. CASE pc' # "bind"
    BY <2>1 DEF FoundIsThere
  <2>2. CASE pc' = "bind"
    <3>1. cur' = a /\ pc = "process"
      BY <2>2 DEF TakeAccount
    <3>2. CASE \E m \in RowsOf(a) :
                 /\ found' = [name |-> m, hidden |-> rows[m].hidden, byId |-> TRUE]
                 /\ UNCHANGED rows
      BY <1>1, <3>1, <3>2 DEF FoundIsThere, RowsOf, OwnRows, MemoryInv, Exists
    <3>3. CASE \E m \in Candidates(Hash[a], n) :
                 /\ found' = [name |-> m, hidden |-> rows[m].hidden, byId |-> FALSE]
                 /\ UNCHANGED rows
      <4>1. \A m \in Candidates(Hash[a], n) : m = n /\ rows[m] # NoRow
        BY <1>1 DEF Candidates, RowsWithHash, OwnRows, MemoryInv, Exists
      <4> QED BY <1>1, <3>1, <3>3, <4>1 DEF FoundIsThere, Exists
    <3>4. CASE /\ found' = [name |-> n, hidden |-> FALSE, byId |-> FALSE]
               /\ rows' = [rows EXCEPT ![n] = NewRow]
      <4>1. rows'[n] = NewRow
        BY <1>1, <3>4 DEF Tables
      <4> QED BY <1>1, <1>4, <3>1, <3>4, <4>1 DEF FoundIsThere, Exists
    <3> QED
      <4>1. \/ \E m \in RowsOf(a) :
                 /\ found' = [name |-> m, hidden |-> rows[m].hidden, byId |-> TRUE]
                 /\ UNCHANGED rows
            \/ \E m \in Candidates(Hash[a], n) :
                 /\ found' = [name |-> m, hidden |-> rows[m].hidden, byId |-> FALSE]
                 /\ UNCHANGED rows
            \/ /\ found' = [name |-> n, hidden |-> FALSE, byId |-> FALSE]
               /\ rows' = [rows EXCEPT ![n] = NewRow]
        BY <1>1, <2>2, <3>1 DEF TakeAccount
      <4> QED BY <3>2, <3>3, <3>4, <4>1
  <2> QED BY <2>1, <2>2
<1>9. pc' \in {"process", "settle", "bind"}
  BY DEF TakeAccount
<1> QED BY <1>2, <1>5, <1>7, <1>8, <1>9 DEF MemoryInv

LEMMA BindAccountKeepsMemory ==
  ASSUME NamesStay, IInv, MemoryInv, BindAccount
  PROVE  MemoryInv'
<1> DEFINE n == InitName[cur]
           flagged == SetHidden(dir, cur, found.hidden)
<1>1. TypeOK /\ cur \in Accounts /\ found.name = n /\ n \in Names /\ rows \in Tables
      /\ found.hidden \in BOOLEAN /\ FoundIsThere /\ pc = "bind"
  BY StartIsATable DEF IInv, TypeOK, InHand, BindAccount, MemoryInv, FoundIsThere, Found
<1>2. /\ OwnRows(rows') /\ \A m \in Names \ {n} : rows'[m] = rows[m]
      /\ rows[n] # NoRow /\ (found.byId => rows[n].id = cur) =>
           rows'[n] # NoRow /\ rows'[n].id = cur /\ rows'[n].hidden = rows[n].hidden
  <2>1. CASE found.byId
    BY <1>1, <2>1 DEF BindAccount, MemoryInv
  <2>2. CASE ~found.byId
    <3>1. rows' = BindHubAccount(n, cur)
      BY <1>1, <2>2 DEF BindAccount
    <3> QED BY <1>1, <2>2, <3>1, BindsOwnRow DEF MemoryInv
  <2> QED BY <2>1, <2>2
<1>3. /\ dir'.nameById[cur] = IF found.hidden THEN None ELSE n
      /\ \A b \in Accounts \ {cur} : dir'.nameById[b] = dir.nameById[b]
  <2>1. flagged \in Directories /\ MutuallyInverse(flagged) /\ flagged.nameById = dir.nameById
    <3>1. dir \in Directories /\ MutuallyInverse(dir)
      BY DEF IInv, TypeOK, DirectoryInverse
    <3>2. flagged.nameById = dir.nameById
      BY <3>1 DEF SetHidden, Directories
    <3> QED BY <1>1, <3>1, <3>2, FlagsKeepInverse
  <2>2. dir' = IF found.hidden THEN RemoveMember(flagged, n) ELSE Bind(flagged, cur, n)
    BY <1>1 DEF BindAccount
  <2> HIDE DEF flagged
  <2>3. \A a \in Accounts : flagged.nameById[a] \in {None, InitName[a]}
    BY <2>1 DEF MemoryInv
  <2>4. /\ Bind(flagged, cur, n).nameById[cur] = n
        /\ RemoveMember(flagged, n).nameById[cur] = None
        /\ \A b \in Accounts \ {cur} :
             /\ Bind(flagged, cur, n).nameById[b] = flagged.nameById[b]
             /\ RemoveMember(flagged, n).nameById[b] = flagged.nameById[b]
    BY <1>1, <2>1, <2>3, BindsOwnName
  <2> QED BY <2>1, <2>2, <2>4
<1>4. /\ known'[cur] = [name |-> n, hidden |-> found.hidden]
      /\ \A b \in Accounts \ {cur} : known'[b] = known[b]
      /\ UNCHANGED <<hubName, forgotten, requests, snapshot>> /\ pc' = "settle"
  BY <1>1 DEF BindAccount, TypeOK, hubVars, pollVars
<1>5. ASSUME NEW b \in Accounts PROVE IsRemembered(b)'
  <2>1. CASE b = cur
    <3>1. ~Unsure(n) => rows'[n] # NoRow /\ rows'[n].id = cur /\ rows'[n].hidden = found.hidden
      BY <1>1, <1>2 DEF FoundIsThere, Exists
    <3> QED BY <1>3, <1>4, <2>1, <3>1 DEF IsRemembered, Unsure, Exists
  <2>2. CASE b # cur
    <3>1. InitName[b] # n /\ InitName[b] \in Names
      BY <1>1, <2>2, StartIsATable DEF NamesStay
    <3>2. rows'[InitName[b]] = rows[InitName[b]]
      BY <1>2, <3>1
    <3> QED BY <1>3, <1>4, <2>2, <3>2 DEF MemoryInv, IsRemembered, Unsure, Exists
  <2> QED BY <2>1, <2>2
<1>6. \A a \in Accounts : dir'.nameById[a] \in {None, InitName[a]}
  BY <1>3 DEF MemoryInv
<1> QED BY <1>2, <1>4, <1>5, <1>6 DEF MemoryInv, FoundIsThere

LEMMA SettleAccountKeepsMemory ==
  ASSUME TypeOK, MemoryInv, SettleAccount
  PROVE  MemoryInv'
<1>1. cur \in Accounts /\ known[cur] # NoAccount /\ IsRemembered(cur)
  BY DEF TypeOK, InHand, SettleAccount, MemoryInv
<1>2. known[cur].name = snapshot.name[cur]
  BY <1>1 DEF IsRemembered, MemoryInv
<1>3. pc' = "process" /\ UNCHANGED <<hubName, rows, known, forgotten, requests, snapshot>>
  BY <1>2 DEF SettleAccount, AccountDone, hubVars, pollVars
<1>4. dir'.nameById = dir.nameById
  <2>1. dir' = dir \/ dir' = SetSharesHiscores(dir, cur, cur \in snapshot.scores)
    BY DEF SettleAccount
  <2> QED BY <2>1 DEF SetSharesHiscores, TypeOK, Directories
<1>5. \A a \in Accounts : IsRemembered(a)'
  BY <1>3, <1>4 DEF MemoryInv, IsRemembered, Unsure, Exists
<1> QED BY <1>3, <1>4, <1>5 DEF MemoryInv, FoundIsThere, OwnRows

LEMMA FinishKeepsMemory ==
  ASSUME TypeOK, MemoryInv, FinishPoll \/ FinishFails
  PROVE  MemoryInv'
<1>1. SameOwners(rows, rows')
  BY FinishKeepsOwners
<1>2. /\ \A a \in Accounts : known'[a] \in {known[a], NoAccount}
      /\ UNCHANGED <<hubName, dir, forgotten, requests>>
      /\ pc' = "idle" /\ snapshot'.name = InitName
  BY DEF FinishPoll, FinishFails, EndPoll, EmptySnapshot, hubVars, countVars
<1>3. OwnRows(rows')
  BY <1>1 DEF MemoryInv, OwnRows, SameOwners
<1>4. ASSUME NEW a \in Accounts PROVE IsRemembered(a)'
  <2>1. InitName[a] \in Names
    BY StartIsATable
  <2> QED BY <1>1, <1>2, <2>1 DEF MemoryInv, IsRemembered, Unsure, Exists, SameOwners
<1> QED BY <1>2, <1>3, <1>4 DEF MemoryInv, FoundIsThere

\* From the statement on, the member is one the sync is unsure of.
LEMMA AdminStatementKeepsMemory ==
  ASSUME TypeOK, MemoryInv, NEW r \in Requests, AdminStatement(r)
  PROVE  MemoryInv'
<1>1. /\ r.name \in Names /\ rows \in Tables /\ rows[r.name] # NoRow
      /\ UNCHANGED <<hubName, dir, known, forgotten, pc, snapshot, cur, found>>
      /\ requests' = requests \cup {r}
  BY DEF AdminStatement, Requests, TypeOK, Exists, hubVars, pollVars, stepVars
<1>2. /\ \A m \in Names \ {r.name} : rows'[m] = rows[m]
      /\ rows'[r.name] # NoRow =>
           rows'[r.name].id = rows[r.name].id /\ rows'[r.name].hash = rows[r.name].hash
  <2>1. CASE r.kind = "delete"
    BY <1>1, <2>1 DEF AdminStatement, Tables
  <2>2. CASE r.kind # "delete"
    <3>1. rows' = [rows EXCEPT ![r.name].hidden = (r.kind = "hide")]
      BY <2>2 DEF AdminStatement
    <3>2. rows[r.name] \in Rows
      BY <1>1 DEF Tables
    <3> QED BY <1>1, <3>1, <3>2 DEF Tables, Rows
  <2> QED BY <2>1, <2>2
<1>3. OwnRows(rows')
  BY <1>1, <1>2 DEF MemoryInv, OwnRows
<1>4. \A n \in Names : Unsure(n)' <=> (Unsure(n) \/ n = r.name)
  BY <1>1 DEF Unsure
<1>5. ASSUME NEW a \in Accounts PROVE IsRemembered(a)'
  <2>1. InitName[a] \in Names
    BY StartIsATable
  <2> QED BY <1>1, <1>2, <1>4, <2>1 DEF MemoryInv, IsRemembered, Exists
<1>6. FoundIsThere'
  <2>1. pc = "bind" => InitName[cur] \in Names
    BY StartIsATable DEF TypeOK, InHand
  <2> QED BY <1>1, <1>2, <1>4, <2>1 DEF MemoryInv, FoundIsThere, Exists
<1> QED BY <1>1, <1>3, <1>5, <1>6 DEF MemoryInv

\* It stays so when the directory and the sync are told.
LEMMA AdminForgetKeepsMemory ==
  ASSUME NamesStay, IInv, MemoryInv, NEW r \in Requests, AdminForget(r)
  PROVE  MemoryInv'
<1> DEFINE a == dir.idByName[r.name]
           flagged == IF r.kind = "delete" \/ a = None THEN dir
                      ELSE SetHidden(dir, a, r.kind = "hide")
<1>1. /\ r.name \in Names /\ dir \in Directories /\ MutuallyInverse(dir)
      /\ UNCHANGED <<hubName, rows, known, pc, snapshot, cur, found>>
      /\ forgotten' = forgotten \cup {r.name} /\ requests' = requests \ {r} /\ r \in requests
  BY DEF AdminForget, Requests, IInv, TypeOK, DirectoryInverse, hubVars, pollVars, stepVars
<1>2. flagged.nameById = dir.nameById /\ flagged.idByName = dir.idByName /\ flagged \in Directories
  BY <1>1 DEF SetHidden, Directories
<1>3. dir' = RemoveMember(flagged, r.name)
  BY DEF AdminForget
<1> HIDE DEF flagged
<1>4. \A b \in Accounts : dir'.nameById[b] = IF b = a THEN None ELSE dir.nameById[b]
  BY <1>1, <1>2, <1>3 DEF RemoveMember, Directories
<1>5. ASSUME NEW b \in Accounts, b = a PROVE InitName[b] = r.name
  <2>1. dir.nameById[b] = r.name
    BY <1>1, <1>5, NoneIsNoKey DEF MutuallyInverse
  <2>2. dir.nameById[b] \in {None, InitName[b]}
    BY DEF MemoryInv
  <2> QED BY <1>1, <2>1, <2>2, NoneIsNoKey
<1> HIDE DEF a
<1>6. \A n \in Names : Unsure(n)' <=> Unsure(n)
  BY <1>1 DEF Unsure
<1>7. Unsure(r.name)
  BY <1>1 DEF Unsure
<1>8. ASSUME NEW b \in Accounts PROVE IsRemembered(b)'
  <2>1. InitName[b] \in Names
    BY StartIsATable
  <2>2. ~Unsure(InitName[b]) => dir'.nameById[b] = dir.nameById[b]
    BY <1>4, <1>5, <1>7
  <2> QED BY <1>1, <1>6, <2>1, <2>2 DEF MemoryInv, IsRemembered, Exists
<1>9. FoundIsThere'
  <2>1. pc = "bind" => InitName[cur] \in Names
    BY StartIsATable DEF IInv, TypeOK, InHand
  <2> QED BY <1>1, <1>6, <2>1 DEF MemoryInv, FoundIsThere, Exists
<1> QED BY <1>1, <1>4, <1>8, <1>9 DEF MemoryInv

\* What HubDirectory::load makes of rows that are their accounts'.
LEMMA LoadsOwnNames ==
  ASSUME OwnRows(rows), NEW a \in Accounts
  PROVE  LoadDirectory.nameById[a] \in {None, InitName[a]}
BY DEF LoadDirectory, OwnRows, RowsOf, Exists

LEMMA RestartKeepsMemory ==
  ASSUME MemoryInv, Restart
  PROVE  MemoryInv'
<1>1. /\ UNCHANGED <<hubName, rows>> /\ dir' = LoadDirectory /\ pc' = "idle"
      /\ \A a \in Accounts : known'[a] = NoAccount
      /\ snapshot'.name = InitName
  BY DEF Restart, EndPoll, EmptySnapshot, hubVars
<1> QED BY <1>1, LoadsOwnNames DEF MemoryInv, IsRemembered, FoundIsThere, OwnRows

LEMMA InitMemory == NamesStay /\ Init => MemoryInv
<1> SUFFICES ASSUME NamesStay, Init PROVE MemoryInv
  OBVIOUS
<1>1. OwnRows(rows) /\ dir = LoadDirectory /\ hubName = InitName /\ pc = "idle"
      /\ snapshot.name = InitName /\ \A a \in Accounts : known[a] = NoAccount
  BY DEF Init, NamesStay, EmptySnapshot
<1> QED BY <1>1, LoadsOwnNames DEF MemoryInv, IsRemembered, FoundIsThere

LEMMA MemoryStep == NamesStay /\ IInv /\ MemoryInv /\ [Next]_vars => MemoryInv'
<1> SUFFICES ASSUME NamesStay, IInv, MemoryInv, [Next]_vars PROVE MemoryInv'
  OBVIOUS
<1>1. TypeOK /\ pc \in {"idle", "requested", "process", "settle", "bind"}
  BY DEF IInv, TypeOK, MemoryInv
<1>2. ASSUME NEW a \in Accounts, HubShare(a) \/ HubNewData(a) PROVE MemoryInv'
  BY <1>1, <1>2, ElsewhereKeepsMemory
  DEF HubShare, HubNewData, MemoryInv, hubVars, pollVars, stepVars
<1>3. ASSUME NEW a \in Accounts, NEW n \in Names, HubRename(a, n) PROVE MemoryInv'
  BY <1>3 DEF HubRename, NamesStay
<1>4. CASE Fetch \/ PollFails \/ SkipAccount \/ RefreshDue
  BY <1>1, <1>4, ElsewhereKeepsMemory
  DEF Fetch, PollFails, SkipAccount, RefreshDue, EndPoll, AccountDone, EmptySnapshot, MemoryInv,
      hubVars, pollVars, stepVars
<1>5. CASE FollowRename \/ RenameKnown
  BY <1>5 DEF FollowRename, RenameKnown, MemoryInv
<1>6. CASE UNCHANGED vars
  BY <1>1, <1>6, ElsewhereKeepsMemory DEF vars, MemoryInv, hubVars, pollVars, stepVars
<1> QED
  BY <1>1, <1>2, <1>3, <1>4, <1>5, <1>6, PollStartKeepsMemory, TakeAccountKeepsMemory,
     BindAccountKeepsMemory, SettleAccountKeepsMemory, FinishKeepsMemory,
     AdminStatementKeepsMemory, AdminForgetKeepsMemory, RestartKeepsMemory
  DEF Next, Sync

\* Where names, hashes and rows are one account's each and the hub renames nobody, an
\* admin request that runs between any two statements of the sync leaves no stale memory
\* behind, whatever else failed or was restarted (sync.rs apply_control, process_account;
\* admin_routes.rs delete_player, set_player_hidden).
THEOREM NoStaleMemory ==
  ASSUME NamesStay
  PROVE  Spec => []MemoryMatchesTable
<1>1. MemoryInv => MemoryMatchesTable
  <2> SUFFICES ASSUME MemoryInv, pc = "idle", requests = {}, forgotten = {},
                      NEW a \in Accounts, known[a] # NoAccount
               PROVE  /\ RowsOf(a) = {known[a].name}
                      /\ rows[known[a].name].hidden = known[a].hidden
                      /\ dir.nameById[a] = IF known[a].hidden THEN None ELSE known[a].name
    BY DEF MemoryMatchesTable
  <2>1. InitName[a] \in Names /\ ~Unsure(InitName[a])
    BY StartIsATable DEF Unsure
  <2>2. /\ known[a].name = InitName[a] /\ Exists(InitName[a]) /\ rows[InitName[a]].id = a
        /\ rows[InitName[a]].hidden = known[a].hidden
        /\ dir.nameById[a] = IF known[a].hidden THEN None ELSE InitName[a]
    BY <2>1 DEF MemoryInv, IsRemembered
  <2>3. RowsOf(a) = {InitName[a]}
    BY <2>1, <2>2 DEF RowsOf, MemoryInv, OwnRows, Exists
  <2> QED BY <2>2, <2>3
<1>2. Init => MemoryInv
  BY InitMemory
<1>3. IInv /\ MemoryInv /\ [Next]_vars => MemoryInv'
  BY MemoryStep
<1>4. Spec => []IInv
  BY Invariant
<1> QED BY <1>1, <1>2, <1>3, <1>4, PTL DEF Spec

-----------------------------------------------------------------------------
(* Hiscores, over one poll.                                                 *)

\* The account does not answer for hiscores its owner keeps private.
ScoresAreShared(a) == a \in dir.hiscores => a \in snapshot.scores

\* The accounts of the answer that are processed are settled by it; the one in hand is
\* not among them, and from its look-up for a rename on it is settled too.
ScoresInv ==
  /\ \A a \in snapshot.ids \ todo :
       known[a] # NoAccount /\ ~known[a].hidden /\ snapshot.name[a] \in ValidNames
         => ScoresAreShared(a)
  /\ pc \in {"bind", "settle", "rename", "renamed"} => cur \in todo
  /\ pc = "bind" => known[cur] = NoAccount
  /\ pc \in {"rename", "renamed"} => ScoresAreShared(cur)

\* Bindings are no notes of hiscores.
LEMMA BindingsKeepHiscores ==
  ASSUME NEW d \in Directories, NEW a, NEW n
  PROVE  /\ Bind(d, a, n).hiscores = d.hiscores
         /\ RemoveMember(d, n).hiscores = d.hiscores
BY DEF Bind, RemoveMember, Directories

LEMMA ElsewhereKeepsScores ==
  ASSUME ScoresInv, dir'.hiscores = dir.hiscores,
         UNCHANGED <<snapshot, todo, cur, pc>>,
         \A a \in Accounts : known'[a] = known[a],
         TypeOK
  PROVE  ScoresInv'
BY DEF ScoresInv, ScoresAreShared, TypeOK, InHand

\* Between polls nothing is processed.
LEMMA EndPollKeepsScores ==
  ASSUME EndPoll
  PROVE  ScoresInv'
BY DEF EndPoll, EmptySnapshot, ScoresInv

LEMMA ScoresStep == IInv /\ ScoresInv /\ [Next]_vars => ScoresInv'
<1> SUFFICES ASSUME IInv, ScoresInv, [Next]_vars PROVE ScoresInv'
  OBVIOUS
<1>1. TypeOK /\ dir \in Directories /\ MutuallyInverse(dir) /\ todo \subseteq Accounts
  BY DEF IInv, TypeOK, DirectoryInverse
<1>2. CASE PollStart
  <2>1. UNCHANGED <<dir, snapshot, todo>> /\ pc' = "requested" /\ snapshot.ids \subseteq Accounts
    BY <1>1, <1>2 DEF PollStart, TypeOK, stepVars
  <2>2. \A a \in Accounts : known'[a] # NoAccount => known'[a] = known[a]
    BY <1>2 DEF PollStart
  <2> QED BY <2>1, <2>2 DEF ScoresInv, ScoresAreShared
<1>3. CASE Fetch
  BY <1>3 DEF Fetch, ScoresInv
<1>4. CASE PollFails \/ FinishPoll \/ FinishFails \/ Restart
  BY <1>4, EndPollKeepsScores DEF PollFails, FinishPoll, FinishFails, Restart
<1>5. ASSUME NEW a \in Accounts, TakeAccount(a) PROVE ScoresInv'
  <2>1. UNCHANGED <<dir, known, snapshot>> /\ pc = "process" /\ a \in todo
    BY <1>5 DEF TakeAccount, pollVars
  <2>2. \/ snapshot.name[a] \notin ValidNames /\ todo' = todo \ {a} /\ pc' = "process"
        \/ todo' = todo /\ cur' = a /\ pc' = "settle"
        \/ todo' = todo /\ cur' = a /\ pc' = "bind" /\ known[a] = NoAccount
    BY <1>5, <2>1 DEF TakeAccount
  <2> QED BY <2>1, <2>2 DEF ScoresInv, ScoresAreShared
<1>6. CASE BindAccount
  <2>1. dir'.hiscores = dir.hiscores
    <3> DEFINE flagged == SetHidden(dir, cur, found.hidden)
    <3>1. cur \in Accounts /\ found.hidden \in BOOLEAN
      BY <1>1, <1>6 DEF TypeOK, InHand, BindAccount, Found
    <3>2. flagged \in Directories /\ flagged.hiscores = dir.hiscores
      <4>1. flagged \in Directories
        BY <1>1, <3>1, FlagsKeepInverse
      <4>2. flagged.hiscores = dir.hiscores
        BY <1>1 DEF SetHidden, Directories
      <4> QED BY <4>1, <4>2
    <3>3. dir' \in {RemoveMember(flagged, found.name), Bind(flagged, cur, found.name)}
      BY <1>6 DEF BindAccount
    <3> HIDE DEF flagged
    <3> QED BY <3>2, <3>3, BindingsKeepHiscores
  <2>2. /\ UNCHANGED <<snapshot, todo, cur>> /\ pc' = "settle" /\ pc = "bind"
        /\ \A a \in Accounts \ {cur} : known'[a] = known[a]
    BY <1>1, <1>6 DEF BindAccount, TypeOK, pollVars
  <2>3. \A a \in snapshot.ids \ todo : a \in Accounts \ {cur}
    BY <1>1, <2>2 DEF ScoresInv, TypeOK
  <2> QED BY <2>1, <2>2, <2>3 DEF ScoresInv, ScoresAreShared
<1>7. CASE SettleAccount
  <2>1. UNCHANGED <<snapshot, known>> /\ cur \in Accounts
    BY <1>1, <1>7 DEF SettleAccount, pollVars, TypeOK, InHand
  <2>2. \/ known[cur].hidden /\ dir' = dir
        \/ dir' = SetSharesHiscores(dir, cur, cur \in snapshot.scores)
    BY <1>7 DEF SettleAccount
  <2>3. /\ \A a \in Accounts \ {cur} : a \in dir'.hiscores => a \in dir.hiscores
        /\ known[cur].hidden \/ (cur \in dir'.hiscores => cur \in snapshot.scores)
    BY <1>1, <2>2 DEF SetSharesHiscores, Directories
  <2>4. \/ pc' = "process" /\ todo' = todo \ {cur}
        \/ pc' = "rename" /\ todo' = todo /\ cur' = cur /\ ~known[cur].hidden
    BY <1>7 DEF SettleAccount, AccountDone
  <2>5. cur \in todo /\ snapshot.ids \subseteq Accounts
    BY <1>1, <1>7 DEF SettleAccount, ScoresInv, TypeOK
  <2> QED BY <2>1, <2>3, <2>4, <2>5 DEF ScoresInv, ScoresAreShared
<1>8. CASE FollowRename
  BY <1>8 DEF FollowRename, ScoresInv, ScoresAreShared, pollVars, stepVars
<1>9. CASE RenameKnown
  <2>1. /\ dir'.hiscores = dir.hiscores /\ UNCHANGED snapshot
        /\ pc' = "process" /\ todo' = todo \ {cur} /\ pc = "renamed"
        /\ \A a \in Accounts \ {cur} : known'[a] = known[a]
    BY <1>1, <1>9, BindingsKeepHiscores DEF RenameKnown, AccountDone, TypeOK, pollVars
  <2>2. snapshot.ids \subseteq Accounts
    BY <1>1 DEF TypeOK
  <2> QED BY <2>1, <2>2 DEF ScoresInv, ScoresAreShared
<1>10. CASE SkipAccount
  BY <1>10 DEF SkipAccount, AccountDone, ScoresInv, ScoresAreShared, pollVars
<1>11. ASSUME NEW r \in Requests, AdminForget(r) PROVE ScoresInv'
  <2> DEFINE a == dir.idByName[r.name]
             flagged == IF r.kind = "delete" \/ a = None THEN dir
                        ELSE SetHidden(dir, a, r.kind = "hide")
  <2>1. r.name \in Names /\ (r.kind = "hide") \in BOOLEAN
    BY DEF Requests
  <2>2. a # None => a \in Accounts
    BY <1>1, <2>1 DEF Directories
  <2>3. flagged \in Directories /\ flagged.hiscores = dir.hiscores
    <3>1. flagged \in Directories
      BY <1>1, <2>1, <2>2, FlagsKeepInverse
    <3>2. flagged.hiscores = dir.hiscores
      BY <1>1 DEF SetHidden, Directories
    <3> QED BY <3>1, <3>2
  <2>4. dir' = RemoveMember(flagged, r.name)
    BY <1>11 DEF AdminForget
  <2> HIDE DEF flagged, a
  <2>5. dir'.hiscores = dir.hiscores
    BY <2>3, <2>4, BindingsKeepHiscores
  <2> QED BY <1>1, <1>11, <2>5, ElsewhereKeepsScores DEF AdminForget, pollVars, stepVars
<1>12. CASE UNCHANGED <<dir, known, snapshot, todo, cur, pc>>
  BY <1>1, <1>12, ElsewhereKeepsScores
<1> QED
  BY <1>2, <1>3, <1>4, <1>5, <1>6, <1>7, <1>8, <1>9, <1>10, <1>11, <1>12
  DEF Next, Sync, HubShare, HubNewData, HubRename, RefreshDue, AdminStatement, vars,
      pollVars, stepVars

\* However names change and whatever admins, failures and restarts do in between: once a
\* full read is processed, an account whose owner made the hiscores private answers for
\* them no longer (sync.rs process_account; HUB_INTEGRATION.md, "Hiscores").
THEOREM HiscoresFollow == Spec => HiscoresFollowFullRead
<1>1. Init => ScoresInv
  BY DEF Init, EmptySnapshot, ScoresInv
<1>2. IInv /\ ScoresInv /\ [Next]_vars => ScoresInv'
  BY ScoresStep
<1>3. ScoresInv =>
        [FinishPoll /\ full =>
           \A a \in snapshot.ids :
             /\ known[a] # NoAccount /\ ~known[a].hidden
             /\ snapshot.name[a] \in ValidNames /\ a \in dir.hiscores
             => a \in snapshot.scores]_vars
  BY DEF ScoresInv, ScoresAreShared, FinishPoll
<1>4. Spec => []IInv
  BY Invariant
<1> QED BY <1>1, <1>2, <1>3, <1>4, PTL DEF Spec, HiscoresFollowFullRead

-----------------------------------------------------------------------------
(* Renames, among names that are one account's each, while admins do        *)
(* nothing.                                                                 *)

\* The names an account has, may take, or is the account of a row of from before.
OwnNames(a) ==
  {InitName[a]} \cup MayTake[a] \cup
  {n \in Names : InitRows[n] # NoRow /\
     (InitRows[n].id = a \/ (Hash[a] # None /\ InitRows[n].hash = Hash[a]))}

\* No account takes a name, and none has a hash, that is or was another's.
NamesAreOwn ==
  \A a, b \in Accounts :
    a # b => OwnNames(a) \cap OwnNames(b) = {} /\ (Hash[a] = None \/ Hash[a] # Hash[b])

NoAdmins ==
  MaxAdminOps = 0 /\ \A n \in Names : InitRows[n] # NoRow => ~InitRows[n].hidden

\* A row that is an account's, by its id or its hash, has one of the account's names.
RowsAreOwn(table) ==
  \A n \in Names : table[n] # NoRow =>
    /\ ~table[n].hidden
    /\ \A a \in Accounts :
         table[n].id = a \/ (Hash[a] # None /\ table[n].hash = Hash[a]) => n \in OwnNames(a)

\* Where the row of an account that is remembered is: a rename moves it before the sync
\* notes the new name.
RowOf(a) == IF pc = "renamed" /\ a = cur THEN snapshot.name[a] ELSE known[a].name

HasItsRow(a) ==
  known[a] # NoAccount =>
    /\ ~known[a].hidden /\ known[a].name \in OwnNames(a) /\ dir.nameById[a] = known[a].name
    /\ Exists(RowOf(a)) /\ rows[RowOf(a)].id = a

\* What was looked up is still so: nobody but the sync writes.
LookUpHolds ==
  /\ pc = "bind" =>
       /\ found.name \in OwnNames(cur) /\ ~found.hidden
       /\ Exists(found.name) /\ (found.byId => rows[found.name].id = cur)
  /\ pc = "rename" =>
       found.name = IF Exists(snapshot.name[cur]) THEN snapshot.name[cur] ELSE None

RenameInv ==
  /\ requests = {} /\ forgotten = {} /\ RowsAreOwn(rows)
  /\ \A a \in Accounts :
       /\ hubName[a] \in OwnNames(a) /\ snapshot.name[a] \in OwnNames(a)
       /\ dir.nameById[a] \in OwnNames(a) \cup {None}
       /\ HasItsRow(a)
  /\ LookUpHolds

\* What AccountsKeepTheirRow says of one step.
RowsKept ==
  /\ \A a \in Accounts : RowsOf(a) # {} => RowsOf(a)' # {}
  /\ \A n \in Names :
       Exists(n) /\ rows[n].id # None /\ rows'[n] # NoRow => rows'[n].id \in {rows[n].id, None}

\* bind_hub_account, to a row with one of the account's names: the account gets this row,
\* and loses any other.
LEMMA BindsAmongOwn ==
  ASSUME NamesAreOwn, rows \in Tables, RowsAreOwn(rows), NEW a \in Accounts,
         NEW n \in Names, n \in OwnNames(a), Exists(n)
  PROVE  LET t == BindHubAccount(n, a)
         IN  /\ RowsAreOwn(t)
             /\ t[n] # NoRow /\ t[n].id = a
             /\ \A m \in Names \ {n} :
                  /\ t[m] # NoRow <=> rows[m] # NoRow
                  /\ rows[m] # NoRow => t[m].id = IF rows[m].id = a THEN None ELSE rows[m].id
<1> DEFINE t == BindHubAccount(n, a)
<1>1. \A m \in Names : rows[m] # NoRow => rows[m] \in Rows
  BY DEF Tables
<1>2. ASSUME NEW m \in Names \ {n}
      PROVE  /\ t[m] # NoRow <=> rows[m] # NoRow
             /\ rows[m] # NoRow => /\ t[m].id = IF rows[m].id = a THEN None ELSE rows[m].id
                                   /\ t[m].hash = rows[m].hash /\ t[m].hidden = rows[m].hidden
  <2>1. rows[m] # NoRow => [rows[m] EXCEPT !.id = None] \in Rows
    BY <1>1 DEF Rows
  <2> QED BY <1>1, <2>1, AbsentIsNoRecord DEF BindHubAccount, Exists, Rows
<1>3. /\ t[n] # NoRow /\ t[n].id = a /\ t[n].hidden = rows[n].hidden
      /\ t[n].hash = IF Hash[a] = None THEN rows[n].hash ELSE Hash[a]
  <2> DEFINE row == [rows[n] EXCEPT !.id = a, !.orphaned = FALSE,
                                    !.hash = IF Hash[a] = None THEN rows[n].hash ELSE Hash[a]]
  <2>1. rows[n] \in Rows /\ Hash[a] \in Hashes
    BY <1>1 DEF Exists, Hashes
  <2>2. t[n] = row
    BY <2>1 DEF BindHubAccount, Exists, Rows
  <2>3. /\ row \in Rows /\ row.id = a /\ row.hidden = rows[n].hidden
        /\ row.hash = IF Hash[a] = None THEN rows[n].hash ELSE Hash[a]
    BY <2>1 DEF Rows
  <2> HIDE DEF t, row
  <2> QED BY <2>2, <2>3, AbsentIsNoRecord
<1> HIDE DEF t
<1>4. RowsAreOwn(t)
  <2> SUFFICES ASSUME NEW m \in Names, t[m] # NoRow
               PROVE  /\ ~t[m].hidden
                      /\ \A b \in Accounts :
                           t[m].id = b \/ (Hash[b] # None /\ t[m].hash = Hash[b]) => m \in OwnNames(b)
    BY DEF RowsAreOwn
  <2>1. CASE m # n
    BY <1>2, <2>1, NoneIsNoKey DEF RowsAreOwn
  <2>2. CASE m = n
    <3>1. ASSUME NEW b \in Accounts, t[n].id = b \/ (Hash[b] # None /\ t[n].hash = Hash[b])
          PROVE  n \in OwnNames(b)
      BY <1>3, <3>1 DEF RowsAreOwn, NamesAreOwn, Exists
    <3> QED BY <1>3, <2>2, <3>1 DEF RowsAreOwn, Exists
  <2> QED BY <2>1, <2>2
<1> QED BY <1>2, <1>3, <1>4 DEF t

\* Such a bind takes no row from another account.
LEMMA BindsKeepRows ==
  ASSUME NamesAreOwn, rows \in Tables, RowsAreOwn(rows), NEW a \in Accounts,
         NEW n \in Names, n \in OwnNames(a), Exists(n), rows' = BindHubAccount(n, a)
  PROVE  RowsKept
<1>1. /\ rows'[n] # NoRow /\ rows'[n].id = a
      /\ \A m \in Names \ {n} :
           /\ rows'[m] # NoRow <=> rows[m] # NoRow
           /\ rows[m] # NoRow => rows'[m].id = IF rows[m].id = a THEN None ELSE rows[m].id
  BY BindsAmongOwn
<1>2. ASSUME NEW b \in Accounts, b # a PROVE rows[n].id # b
  BY <1>2 DEF RowsAreOwn, NamesAreOwn, Exists
<1>3. \A b \in Accounts : RowsOf(b) # {} => RowsOf(b)' # {}
  BY <1>1, <1>2, NoneIsNoKey DEF RowsOf, Exists
<1>4. rows[n].id \in {a, None}
  BY <1>2 DEF Exists, Tables, Rows
<1> QED BY <1>1, <1>3, <1>4 DEF RowsKept

\* rename_hub_member, to a name without a row.
LEMMA RenamesAmongOwn ==
  ASSUME NamesAreOwn, rows \in Tables, UniqueIds(rows), RowsAreOwn(rows), NEW a \in Accounts,
         NEW m \in Names, NEW n \in Names, n \in OwnNames(a), Exists(m), ~Exists(n),
         rows[m].id = a
  PROVE  LET t == RenameHubMember(m, n)
         IN  /\ t[n] = rows[m] /\ t[m] = NoRow /\ \A k \in Names \ {m, n} : t[k] = rows[k]
             /\ RowsAreOwn(t)
<1> DEFINE t == RenameHubMember(m, n)
<1>1. m # n
  OBVIOUS
<1>2. t[n] = rows[m] /\ t[m] = NoRow /\ \A k \in Names \ {m, n} : t[k] = rows[k]
  BY <1>1 DEF RenameHubMember, Tables
<1> HIDE DEF t
<1>3. \A b \in Accounts :
        rows[m].id = b \/ (Hash[b] # None /\ rows[m].hash = Hash[b]) => b = a
  BY DEF RowsAreOwn, NamesAreOwn, Exists
<1>4. ~rows[m].hidden
  BY DEF RowsAreOwn, Exists
<1>5. RowsAreOwn(t)
  <2> SUFFICES ASSUME NEW k \in Names, t[k] # NoRow
               PROVE  /\ ~t[k].hidden
                      /\ \A b \in Accounts :
                           t[k].id = b \/ (Hash[b] # None /\ t[k].hash = Hash[b]) => k \in OwnNames(b)
    BY DEF RowsAreOwn
  <2> QED BY <1>2, <1>3, <1>4 DEF RowsAreOwn
<1> QED BY <1>2, <1>5 DEF t

\* The directory's bind, of an account to one of its names: no other account is touched.
LEMMA NamesAmongOwn ==
  ASSUME NamesAreOwn, NEW d \in Directories, MutuallyInverse(d),
         \A a \in Accounts : d.nameById[a] \in OwnNames(a) \cup {None},
         NEW a \in Accounts, NEW n \in Names, n \in OwnNames(a)
  PROVE  /\ Bind(d, a, n).nameById[a] = n
         /\ \A b \in Accounts \ {a} : Bind(d, a, n).nameById[b] = d.nameById[b]
<1>1. d.idByName[n] \in {None, a}
  <2>1. d.idByName[n] # None => d.idByName[n] \in Accounts /\ d.nameById[d.idByName[n]] = n
    BY DEF Directories, MutuallyInverse
  <2> QED BY <2>1, NoneIsNoKey DEF NamesAreOwn
<1>2. \A b \in Accounts \ {a} : Bind(d, a, n).nameById[b] = d.nameById[b]
  BY <1>1, NoneIsNoKey DEF Bind, Directories
<1> QED BY <1>2 DEF Bind, Directories

\* Steps that leave the rows, the directory and the memory alone, with nothing in hand
\* that was not.
LEMMA ElsewhereKeepsRenames ==
  ASSUME RenameInv, UNCHANGED <<rows, dir, known, forgotten, requests>>,
         \A a \in Accounts : hubName'[a] \in OwnNames(a) /\ snapshot'.name[a] \in OwnNames(a),
         \/ UNCHANGED <<snapshot, pc, cur, found>>
         \/ pc # "renamed" /\ pc' \notin {"bind", "rename", "renamed"}
  PROVE  RenameInv' /\ RowsKept
<1>1. \A a \in Accounts : HasItsRow(a)'
  BY DEF RenameInv, HasItsRow, RowOf, Exists
<1>2. LookUpHolds'
  BY DEF RenameInv, LookUpHolds, Exists
<1>3. RowsKept
  BY DEF RowsKept, RowsOf, Exists
<1> QED BY <1>1, <1>2, <1>3 DEF RenameInv, RowsAreOwn

LEMMA TakeAccountKeepsRenames ==
  ASSUME NamesAreOwn, TypeOK, RenameInv, NEW a \in Accounts, TakeAccount(a)
  PROVE  RenameInv' /\ RowsKept
<1> DEFINE n == snapshot.name[a]
<1>1. n \in Names /\ n \in OwnNames(a) /\ rows \in Tables
  BY DEF RenameInv, TypeOK
<1>2. UNCHANGED <<hubName, dir, known, forgotten, requests, snapshot>>
      /\ pc = "process" /\ pc' \in {"process", "settle", "bind"}
  BY DEF TakeAccount, hubVars, pollVars
<1>3. \/ rows' = rows
      \/ rows[n] = NoRow /\ rows' = [rows EXCEPT ![n] = NewRow]
  BY <1>1 DEF TakeAccount, Candidates, Exists
<1>4. NewRow.id = None /\ NewRow.hash = None /\ NewRow.hidden = FALSE /\ NewRow # NoRow
  <2>1. NewRow \in Rows
    BY DEF NewRow, Rows
  <2> QED BY <2>1, AbsentIsNoRecord DEF NewRow
<1>5. RowsAreOwn(rows')
  BY <1>1, <1>3, <1>4, NoneIsNoKey DEF RowsAreOwn, RenameInv, Tables
<1>6. \A m \in Names : rows[m] # NoRow => rows'[m] = rows[m]
  BY <1>1, <1>3 DEF Tables
<1>7. ASSUME NEW b \in Accounts PROVE HasItsRow(b)'
  <2>1. known[b] # NoAccount => known[b].name \in Names
    BY DEF TypeOK, Known
  <2> QED BY <1>2, <1>6, <2>1 DEF RenameInv, HasItsRow, RowOf, Exists
<1>8. LookUpHolds'
  <2>1. CASE pc' # "bind"
    BY <1>2, <2>1 DEF LookUpHolds
  <2>2. CASE pc' = "bind"
    <3>1. cur' = a
      BY <1>2, <2>2 DEF TakeAccount
    <3>2. CASE \E m \in RowsOf(a) :
                 /\ found' = [name |-> m, hidden |-> rows[m].hidden, byId |-> TRUE]
                 /\ UNCHANGED rows
      BY <2>2, <3>1, <3>2 DEF LookUpHolds, RowsOf, RowsAreOwn, RenameInv, Exists
    <3>3. CASE \E m \in Candidates(Hash[a], n) :
                 /\ found' = [name |-> m, hidden |-> rows[m].hidden, byId |-> FALSE]
                 /\ UNCHANGED rows
      <4>1. \A m \in Candidates(Hash[a], n) :
              m \in OwnNames(a) /\ rows[m] # NoRow /\ ~rows[m].hidden
        BY <1>1 DEF Candidates, RowsWithHash, RowsAreOwn, RenameInv, Exists
      <4> QED BY <2>2, <3>1, <3>3, <4>1 DEF LookUpHolds, Exists
    <3>4. CASE /\ found' = [name |-> n, hidden |-> FALSE, byId |-> FALSE]
               /\ rows' = [rows EXCEPT ![n] = NewRow]
      <4>1. rows'[n] = NewRow
        BY <1>1, <3>4 DEF Tables
      <4> QED BY <1>1, <1>4, <2>2, <3>1, <3>4, <4>1 DEF LookUpHolds, Exists
    <3> QED
      <4>1. \/ \E m \in RowsOf(a) :
                 /\ found' = [name |-> m, hidden |-> rows[m].hidden, byId |-> TRUE]
                 /\ UNCHANGED rows
            \/ \E m \in Candidates(Hash[a], n) :
                 /\ found' = [name |-> m, hidden |-> rows[m].hidden, byId |-> FALSE]
                 /\ UNCHANGED rows
            \/ /\ found' = [name |-> n, hidden |-> FALSE, byId |-> FALSE]
               /\ rows' = [rows EXCEPT ![n] = NewRow]
        BY <1>2, <2>2 DEF TakeAccount
      <4> QED BY <3>2, <3>3, <3>4, <4>1
  <2> QED BY <2>1, <2>2
<1>9. RowsKept
  BY <1>6 DEF RowsKept, RowsOf, Exists
<1>10. RenameInv'
  BY <1>2, <1>5, <1>7, <1>8 DEF RenameInv
<1> QED BY <1>9, <1>10

LEMMA BindAccountKeepsRenames ==
  ASSUME NamesAreOwn, IInv, RenameInv, BindAccount
  PROVE  RenameInv' /\ RowsKept
<1> DEFINE n == found.name
<1>1. /\ TypeOK /\ cur \in Accounts /\ n \in Names /\ n \in OwnNames(cur) /\ rows \in Tables
      /\ Exists(n) /\ found.hidden = FALSE /\ (found.byId => rows[n].id = cur)
      /\ pc = "bind" /\ RowsAreOwn(rows) /\ UniqueIds(rows)
  BY DEF IInv, TypeOK, InHand, BindAccount, RenameInv, LookUpHolds, Found, HubIdsUnique
<1>2. /\ RowsAreOwn(rows') /\ rows'[n] # NoRow /\ rows'[n].id = cur
      /\ \A m \in Names : rows[m] # NoRow /\ rows[m].id \notin {cur, None} /\ m # n =>
           rows'[m] # NoRow /\ rows'[m].id = rows[m].id
      /\ RowsKept
  <2>1. CASE found.byId
    <3>1. rows' = rows
      BY <2>1 DEF BindAccount
    <3>2. RowsKept
      BY <3>1 DEF RowsKept, RowsOf, Exists
    <3> QED BY <1>1, <2>1, <3>1, <3>2 DEF Exists
  <2>2. CASE ~found.byId
    <3>1. rows' = BindHubAccount(n, cur)
      BY <2>2 DEF BindAccount
    <3>2. /\ RowsAreOwn(rows') /\ rows'[n] # NoRow /\ rows'[n].id = cur
          /\ \A m \in Names \ {n} :
               /\ rows'[m] # NoRow <=> rows[m] # NoRow
               /\ rows[m] # NoRow => rows'[m].id = IF rows[m].id = cur THEN None ELSE rows[m].id
      BY <1>1, <3>1, BindsAmongOwn
    <3>3. RowsKept
      BY <1>1, <3>1, BindsKeepRows
    <3> QED BY <3>2, <3>3
  <2> QED BY <2>1, <2>2
<1>3. /\ dir'.nameById[cur] = n
      /\ \A b \in Accounts \ {cur} : dir'.nameById[b] = dir.nameById[b]
  <2> DEFINE flagged == SetHidden(dir, cur, found.hidden)
  <2>1. dir \in Directories /\ MutuallyInverse(dir)
    BY DEF IInv, TypeOK, DirectoryInverse
  <2>2. flagged \in Directories /\ MutuallyInverse(flagged)
    BY <1>1, <2>1, FlagsKeepInverse
  <2>3. flagged.nameById = dir.nameById
    BY <2>1 DEF SetHidden, Directories
  <2>4. dir' = Bind(flagged, cur, n)
    BY <1>1 DEF BindAccount
  <2> HIDE DEF flagged
  <2>5. \A a \in Accounts : flagged.nameById[a] \in OwnNames(a) \cup {None}
    BY <2>3 DEF RenameInv
  <2> QED BY <1>1, <2>2, <2>3, <2>4, <2>5, NamesAmongOwn
<1>4. /\ known'[cur] = [name |-> n, hidden |-> FALSE]
      /\ \A b \in Accounts \ {cur} : known'[b] = known[b]
      /\ UNCHANGED <<hubName, forgotten, requests, snapshot, cur>> /\ pc' = "settle"
  BY <1>1 DEF BindAccount, TypeOK, hubVars, pollVars
<1> HIDE DEF n
<1>5. ASSUME NEW b \in Accounts PROVE HasItsRow(b)'
  <2>1. CASE b = cur
    <3>1. ~known'[b].hidden /\ known'[b].name = n /\ RowOf(b)' = n
      BY <1>4, <2>1 DEF RowOf
    <3>2. n \in OwnNames(b) /\ dir'.nameById[b] = n /\ rows'[n] # NoRow /\ rows'[n].id = b
      BY <1>1, <1>2, <1>3, <2>1
    <3> QED BY <3>1, <3>2 DEF HasItsRow, Exists
  <2>2. CASE b # cur
    <3>1. known[b] # NoAccount =>
            /\ known[b].name \in Names /\ known[b].name # n
            /\ rows[known[b].name] # NoRow /\ rows[known[b].name].id = b
      BY <1>1, <2>2 DEF TypeOK, Known, NamesAreOwn, RenameInv, HasItsRow, RowOf, Exists
    <3>2. known[b] # NoAccount => rows'[known[b].name] # NoRow /\ rows'[known[b].name].id = b
      BY <1>2, <2>2, <3>1, NoneIsNoKey
    <3>3. HasItsRow(b) /\ RowOf(b) = known[b].name /\ RowOf(b)' = known'[b].name
      BY <1>1, <1>4 DEF RenameInv, RowOf
    <3>4. known'[b] = known[b] /\ dir'.nameById[b] = dir.nameById[b]
      BY <1>3, <1>4, <2>2
    <3> QED BY <3>2, <3>3, <3>4 DEF HasItsRow, Exists
  <2> QED BY <2>1, <2>2
<1>6. \A a \in Accounts : dir'.nameById[a] \in OwnNames(a) \cup {None}
  BY <1>1, <1>3 DEF RenameInv
<1>7. RenameInv'
  BY <1>2, <1>4, <1>5, <1>6 DEF RenameInv, LookUpHolds
<1> QED BY <1>2, <1>7

LEMMA SettleAccountKeepsRenames ==
  ASSUME TypeOK, RenameInv, SettleAccount
  PROVE  RenameInv' /\ RowsKept
<1>1. cur \in Accounts /\ known[cur] # NoAccount /\ ~known[cur].hidden /\ pc = "settle"
      /\ snapshot.name[cur] \in Names
  BY DEF TypeOK, InHand, SettleAccount, RenameInv, HasItsRow
<1>2. /\ UNCHANGED <<hubName, rows, known, forgotten, requests, snapshot>>
      /\ \/ pc' = "process"
         \/ /\ pc' = "rename" /\ cur' = cur
            /\ found' = [NotFound EXCEPT !.name = IF Exists(snapshot.name[cur])
                                                  THEN snapshot.name[cur] ELSE None]
  BY <1>1 DEF SettleAccount, AccountDone, hubVars, pollVars
<1>3. dir'.nameById = dir.nameById
  <2>1. dir' = SetSharesHiscores(dir, cur, cur \in snapshot.scores)
    BY <1>1 DEF SettleAccount
  <2> QED BY <2>1 DEF SetSharesHiscores, TypeOK, Directories
<1>4. \A a \in Accounts : HasItsRow(a)'
  BY <1>1, <1>2, <1>3 DEF RenameInv, HasItsRow, RowOf, Exists
<1>5. LookUpHolds'
  BY <1>2 DEF LookUpHolds, NotFound, Exists
<1>6. RowsKept
  BY <1>2 DEF RowsKept, RowsOf, Exists
<1> QED BY <1>2, <1>3, <1>4, <1>5, <1>6 DEF RenameInv, RowsAreOwn

LEMMA FollowRenameKeepsRenames ==
  ASSUME NamesAreOwn, IInv, RenameInv, FollowRename
  PROVE  RenameInv' /\ RowsKept
<1> DEFINE n == snapshot.name[cur]
           m == known[cur].name
<1>1. /\ cur \in Accounts /\ known[cur] # NoAccount /\ pc = "rename"
      /\ n \in Names /\ n \in OwnNames(cur) /\ m \in Names /\ m \in OwnNames(cur)
      /\ rows \in Tables /\ RowsAreOwn(rows) /\ UniqueIds(rows)
      /\ Exists(m) /\ rows[m].id = cur
      /\ found.name = IF Exists(n) THEN n ELSE None
  BY DEF IInv, TypeOK, InHand, FollowRename, RenameInv, LookUpHolds, HasItsRow, RowOf, Known,
         HubIdsUnique
<1>2. UNCHANGED <<hubName, dir, known, forgotten, requests, snapshot, cur>> /\ pc' = "renamed"
  BY DEF FollowRename, hubVars, pollVars, stepVars
<1>3. /\ RowsAreOwn(rows') /\ rows'[n] # NoRow /\ rows'[n].id = cur
      /\ \A k \in Names : rows[k] # NoRow /\ rows[k].id \notin {cur, None} /\ k # n =>
           rows'[k] # NoRow /\ rows'[k].id = rows[k].id
      /\ RowsKept
  <2>1. CASE Exists(n)
    <3>1. rows' = BindHubAccount(n, cur)
      BY <1>1, <2>1, NoneIsNoKey DEF FollowRename
    <3>2. /\ RowsAreOwn(rows') /\ rows'[n] # NoRow /\ rows'[n].id = cur
          /\ \A k \in Names \ {n} :
               /\ rows'[k] # NoRow <=> rows[k] # NoRow
               /\ rows[k] # NoRow => rows'[k].id = IF rows[k].id = cur THEN None ELSE rows[k].id
      BY <1>1, <2>1, <3>1, BindsAmongOwn
    <3>3. RowsKept
      BY <1>1, <2>1, <3>1, BindsKeepRows
    <3> QED BY <3>2, <3>3
  <2>2. CASE ~Exists(n)
    <3>1. rows' = RenameHubMember(m, n)
      BY <1>1, <2>2, NoneIsNoKey DEF FollowRename
    <3>2. /\ rows'[n] = rows[m] /\ rows'[m] = NoRow /\ RowsAreOwn(rows')
          /\ \A k \in Names \ {m, n} : rows'[k] = rows[k]
      BY <1>1, <2>2, <3>1, RenamesAmongOwn
    <3> HIDE DEF n, m
    <3>3. RowsKept
      <4>1. ASSUME NEW a \in Accounts, NEW k \in RowsOf(a) PROVE RowsOf(a)' # {}
        <5>1. k \in Names /\ rows[k] # NoRow /\ rows[k].id = a
          BY DEF RowsOf, Exists
        <5>2. CASE k = m
          BY <1>1, <3>2, <5>1, <5>2 DEF RowsOf, Exists
        <5>3. CASE k # m
          BY <1>1, <2>2, <3>2, <5>1, <5>3 DEF RowsOf, Exists
        <5> QED BY <5>2, <5>3
      <4>2. \A k \in Names : Exists(k) /\ rows'[k] # NoRow => rows'[k] = rows[k]
        BY <2>2, <3>2 DEF Exists
      <4> QED BY <4>1, <4>2 DEF RowsKept
    <3> QED BY <1>1, <3>2, <3>3 DEF Exists
  <2> QED BY <2>1, <2>2
<1> HIDE DEF n, m
<1>4. ASSUME NEW b \in Accounts PROVE HasItsRow(b)'
  <2>1. CASE b = cur
    <3>1. HasItsRow(cur) /\ RowOf(cur)' = n
      BY <1>1, <1>2 DEF RenameInv, RowOf, n
    <3> QED BY <1>1, <1>2, <1>3, <2>1, <3>1 DEF HasItsRow, Exists
  <2>2. CASE b # cur
    <3>1. HasItsRow(b) /\ RowOf(b) = known[b].name /\ RowOf(b)' = known'[b].name
      BY <1>1, <1>2, <2>2 DEF RenameInv, RowOf
    <3>2. known[b] # NoAccount =>
            /\ known[b].name \in Names /\ known[b].name # n
            /\ rows[known[b].name] # NoRow /\ rows[known[b].name].id = b
      BY <1>1, <2>2, <3>1 DEF IInv, TypeOK, Known, NamesAreOwn, HasItsRow, Exists
    <3>3. known[b] # NoAccount => rows'[known[b].name] # NoRow /\ rows'[known[b].name].id = b
      BY <1>3, <2>2, <3>2, NoneIsNoKey
    <3> QED BY <1>2, <3>1, <3>3 DEF HasItsRow, Exists
  <2> QED BY <2>1, <2>2
<1>5. RenameInv'
  BY <1>2, <1>3, <1>4 DEF RenameInv, LookUpHolds
<1> QED BY <1>3, <1>5

LEMMA RenameKnownKeepsRenames ==
  ASSUME NamesAreOwn, IInv, RenameInv, RenameKnown
  PROVE  RenameInv' /\ RowsKept
<1> DEFINE n == snapshot.name[cur]
<1>1. /\ cur \in Accounts /\ known[cur] # NoAccount /\ pc = "renamed"
      /\ n \in Names /\ n \in OwnNames(cur) /\ known[cur] \in Known
      /\ dir \in Directories /\ MutuallyInverse(dir)
      /\ known \in [Accounts -> Known \cup {NoAccount}]
  BY DEF IInv, TypeOK, InHand, RenameKnown, RenameInv, DirectoryInverse
<1>2. UNCHANGED <<hubName, rows, forgotten, requests, snapshot>> /\ pc' = "process"
  BY DEF RenameKnown, AccountDone, hubVars, pollVars
<1>3. /\ dir'.nameById[cur] = n
      /\ \A b \in Accounts \ {cur} : dir'.nameById[b] = dir.nameById[b]
  BY <1>1, NamesAmongOwn DEF RenameInv, RenameKnown
<1>4. /\ known'[cur].name = n /\ known'[cur].hidden = known[cur].hidden
      /\ \A b \in Accounts \ {cur} : known'[b] = known[b]
  BY <1>1 DEF RenameKnown, Known
<1>5. HasItsRow(cur) /\ RowOf(cur) = n /\ \A b \in Accounts \ {cur} : RowOf(b) = known[b].name
  BY <1>1 DEF RenameInv, RowOf
<1> HIDE DEF n
<1>6. ASSUME NEW b \in Accounts PROVE HasItsRow(b)'
  <2>1. RowOf(b)' = known'[b].name /\ HasItsRow(b)
    BY <1>2 DEF RowOf, RenameInv
  <2>2. CASE b = cur
    BY <1>1, <1>2, <1>3, <1>4, <1>5, <2>1, <2>2 DEF HasItsRow, Exists
  <2>3. CASE b # cur
    BY <1>2, <1>3, <1>4, <1>5, <2>1, <2>3 DEF HasItsRow, Exists
  <2> QED BY <2>2, <2>3
<1>7. \A a \in Accounts : dir'.nameById[a] \in OwnNames(a) \cup {None}
  BY <1>1, <1>3 DEF RenameInv
<1>8. RenameInv'
  BY <1>2, <1>6, <1>7 DEF RenameInv, RowsAreOwn, LookUpHolds
<1>9. RowsKept
  BY <1>2 DEF RowsKept, RowsOf, Exists
<1> QED BY <1>8, <1>9

LEMMA FinishKeepsRenames ==
  ASSUME TypeOK, RenameInv, FinishPoll \/ FinishFails
  PROVE  RenameInv' /\ RowsKept
<1>1. SameOwners(rows, rows')
  BY FinishKeepsOwners
<1>2. /\ \A a \in Accounts : known'[a] \in {known[a], NoAccount}
      /\ UNCHANGED <<hubName, dir, forgotten, requests>>
      /\ pc = "process" /\ pc' = "idle" /\ snapshot'.name = InitName
  BY DEF FinishPoll, FinishFails, EndPoll, EmptySnapshot, hubVars, countVars
<1>3. RowsAreOwn(rows')
  BY <1>1 DEF RenameInv, RowsAreOwn, SameOwners
<1>4. ASSUME NEW a \in Accounts PROVE HasItsRow(a)'
  <2>1. known[a] # NoAccount => known[a].name \in Names
    BY DEF TypeOK, Known
  <2>2. HasItsRow(a) /\ RowOf(a) = known[a].name /\ RowOf(a)' = known'[a].name
    BY <1>2 DEF RenameInv, RowOf
  <2> QED BY <1>1, <1>2, <2>1, <2>2 DEF HasItsRow, Exists, SameOwners
<1>5. \A a \in Accounts : snapshot'.name[a] \in OwnNames(a)
  BY <1>2 DEF OwnNames
<1>6. RowsKept
  BY <1>1 DEF RowsKept, RowsOf, Exists, SameOwners
<1>7. RenameInv'
  BY <1>2, <1>3, <1>4, <1>5 DEF RenameInv, LookUpHolds
<1> QED BY <1>6, <1>7

LEMMA LoadsAmongOwn ==
  ASSUME RowsAreOwn(rows), NEW a \in Accounts
  PROVE  LoadDirectory.nameById[a] \in OwnNames(a) \cup {None}
BY DEF LoadDirectory, RowsAreOwn, RowsOf, Exists

LEMMA InitRenames == NoAdmins /\ Init => RenameInv
<1> SUFFICES ASSUME NoAdmins, Init PROVE RenameInv
  OBVIOUS
<1>1. /\ rows = InitRows /\ dir = LoadDirectory /\ hubName = InitName /\ pc = "idle"
      /\ snapshot.name = InitName /\ requests = {} /\ forgotten = {}
      /\ \A a \in Accounts : known[a] = NoAccount
  BY DEF Init, EmptySnapshot
<1>2. RowsAreOwn(rows)
  BY <1>1 DEF RowsAreOwn, OwnNames, NoAdmins
<1>3. \A a \in Accounts : InitName[a] \in OwnNames(a)
  BY DEF OwnNames
<1> QED BY <1>1, <1>2, <1>3, LoadsAmongOwn DEF RenameInv, HasItsRow, LookUpHolds

LEMMA RenameStep ==
  ASSUME NamesAreOwn, NoAdmins, IInv, RenameInv, [Next]_vars
  PROVE  RenameInv' /\ RowsKept
<1>1. TypeOK /\ adminOps \in 0..0
  BY DEF IInv, TypeOK, NoAdmins
<1>2. \A a \in Accounts : hubName[a] \in OwnNames(a) /\ snapshot.name[a] \in OwnNames(a)
                          /\ InitName[a] \in OwnNames(a)
  BY DEF RenameInv, OwnNames
<1>3. ASSUME NEW a \in Accounts, HubShare(a) \/ HubNewData(a) PROVE RenameInv' /\ RowsKept
  BY <1>2, <1>3, ElsewhereKeepsRenames DEF HubShare, HubNewData, hubVars, pollVars, stepVars
<1>4. ASSUME NEW a \in Accounts, NEW n \in Names, HubRename(a, n) PROVE RenameInv' /\ RowsKept
  <2>1. \A b \in Accounts : hubName'[b] \in OwnNames(b)
    <3>1. hubName \in [Accounts -> Names] /\ hubName' = [hubName EXCEPT ![a] = n] /\ n \in MayTake[a]
      BY <1>1, <1>4 DEF HubRename, TypeOK
    <3> QED BY <1>2, <3>1 DEF OwnNames
  <2> QED BY <1>2, <1>4, <2>1, ElsewhereKeepsRenames DEF HubRename, pollVars, stepVars
<1>5. CASE PollStart
  <2>1. \A a \in Accounts : known'[a] = known[a]
    BY <1>5 DEF PollStart, RenameInv
  <2>2. known' = known
    BY <1>1, <1>5, <2>1 DEF TypeOK, PollStart
  <2> QED BY <1>2, <1>5, <2>2, ElsewhereKeepsRenames DEF PollStart, RenameInv, hubVars, stepVars
<1>6. CASE Fetch
  <2>1. snapshot'.name = hubName
    BY <1>6 DEF Fetch
  <2> QED BY <1>2, <1>6, <2>1, ElsewhereKeepsRenames DEF Fetch, hubVars
<1>7. CASE PollFails
  <2>1. snapshot'.name = InitName
    BY <1>7 DEF PollFails, EndPoll, EmptySnapshot
  <2> QED BY <1>2, <1>7, <2>1, ElsewhereKeepsRenames DEF PollFails, EndPoll, hubVars
<1>8. CASE SkipAccount
  BY <1>2, <1>8, ElsewhereKeepsRenames DEF SkipAccount, AccountDone, hubVars, pollVars
<1>9. CASE RefreshDue \/ UNCHANGED vars
  BY <1>2, <1>9, ElsewhereKeepsRenames DEF RefreshDue, vars, hubVars, pollVars, stepVars
<1>10. ASSUME NEW r \in Requests, AdminStatement(r) \/ AdminForget(r) PROVE FALSE
  BY <1>1, <1>10 DEF AdminStatement, AdminForget, NoAdmins, RenameInv
<1>11. CASE Restart
  <2>1. /\ UNCHANGED <<hubName, rows>> /\ dir' = LoadDirectory /\ pc' = "idle"
        /\ forgotten' = {} /\ requests' = {} /\ snapshot'.name = InitName
        /\ \A a \in Accounts : known'[a] = NoAccount
    BY <1>11 DEF Restart, EndPoll, EmptySnapshot, hubVars
  <2>2. RowsAreOwn(rows) /\ RowsAreOwn(rows')
    BY <2>1 DEF RenameInv, RowsAreOwn
  <2>3. RenameInv'
    BY <1>2, <2>1, <2>2, LoadsAmongOwn DEF RenameInv, HasItsRow, LookUpHolds
  <2>4. RowsKept
    BY <2>1 DEF RowsKept, RowsOf, Exists
  <2> QED BY <2>3, <2>4
<1> QED
  BY <1>1, <1>3, <1>4, <1>5, <1>6, <1>7, <1>8, <1>9, <1>10, <1>11, TakeAccountKeepsRenames,
     BindAccountKeepsRenames, SettleAccountKeepsRenames, FollowRenameKeepsRenames,
     RenameKnownKeepsRenames, FinishKeepsRenames
  DEF Next, Sync

LEMMA RenameInvariant ==
  ASSUME NamesAreOwn, NoAdmins
  PROVE  Spec => []RenameInv
<1>1. Init => RenameInv
  BY InitRenames
<1>2. IInv /\ RenameInv /\ [Next]_vars => RenameInv'
  BY RenameStep
<1>3. Spec => []IInv
  BY Invariant
<1> QED BY <1>1, <1>2, <1>3, PTL DEF Spec

\* Where no account takes a name another has or had, and admins leave the members alone, the
\* sync's memory is what the table and the directory say after every poll, whatever renames it
\* followed, to a row that has the name already or to a new one, and whatever failed on the way
\* (sync.rs process_account, follow_rename).
THEOREM RenamesAreRemembered ==
  ASSUME NamesAreOwn, NoAdmins
  PROVE  Spec => []MemoryMatchesTable
<1>1. IInv /\ RenameInv => MemoryMatchesTable
  <2> SUFFICES ASSUME IInv, RenameInv, pc = "idle", NEW a \in Accounts, known[a] # NoAccount
               PROVE  /\ RowsOf(a) = {known[a].name}
                      /\ rows[known[a].name].hidden = known[a].hidden
                      /\ dir.nameById[a] = IF known[a].hidden THEN None ELSE known[a].name
    BY DEF MemoryMatchesTable
  <2> DEFINE n == known[a].name
  <2>1. /\ n \in Names /\ ~known[a].hidden /\ dir.nameById[a] = n
        /\ Exists(n) /\ rows[n].id = a
    BY DEF IInv, TypeOK, Known, RenameInv, HasItsRow, RowOf
  <2>2. RowsOf(a) = {n}
    BY <2>1, NoneIsNoKey DEF RowsOf, Exists, IInv, HubIdsUnique, UniqueIds
  <2>3. rows[n].hidden = FALSE /\ known[a].hidden = FALSE
    BY <2>1 DEF IInv, TypeOK, Tables, Rows, Known, RenameInv, RowsAreOwn, Exists
  <2> QED BY <2>1, <2>2, <2>3
<1>2. Spec => []RenameInv
  BY RenameInvariant
<1>3. Spec => []IInv
  BY Invariant
<1> QED BY <1>1, <1>2, <1>3, PTL

\* Likewise no step of the sync takes the row of an account away: not a rename to a name that
\* has a row already, and not the hub ceasing to share the account (db/hub.rs bind_hub_account,
\* rename_hub_member, mark_hub_orphans).
THEOREM RowsAreKept ==
  ASSUME NamesAreOwn, NoAdmins
  PROVE  Spec => AccountsKeepTheirRow
<1>1. IInv /\ RenameInv /\ [Next]_vars =>
        [/\ \A a \in Accounts : RowsOf(a) # {} => RowsOf(a)' # {}
         /\ \A n \in Names :
              Exists(n) /\ rows[n].id # None /\ rows'[n] # NoRow
                => rows'[n].id \in {rows[n].id, None}]_vars
  BY RenameStep DEF RowsKept
<1>2. Spec => []RenameInv
  BY RenameInvariant
<1>3. Spec => []IInv
  BY Invariant
<1> QED BY <1>1, <1>2, <1>3, PTL DEF Spec, AccountsKeepTheirRow
=============================================================================
