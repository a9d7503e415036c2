--------------------------- MODULE UpdatePipeline ---------------------------
(***************************************************************************)
(* How the data of an account reaches its row: the sections the sync sends *)
(* (hub/sync.rs with hub/convert.rs), the bounded channel, and the update  *)
(* batcher (update_batcher.rs) that merges what waits and writes it in     *)
(* chunks, several at a time.                                              *)
(*                                                                         *)
(* A section is abstracted to a version, counted up by every change on the *)
(* hub, and what the hub says of it: a value, nothing new (a stale         *)
(* position, a special world, never sent: None), or that the key may not   *)
(* read it (an empty array).                                               *)
(***************************************************************************)
EXTENDS Naturals, Sequences, FiniteSets, SequencesExt

CONSTANTS Members,     \* members, each one account under a fixed name
          Sections,    \* the columns of a member
          None,        \* nothing sent for a member; a field left out
          ChannelCap,  \* capacity of the channel (10000)
          BatchSize,   \* updates in one batch (BATCH_SIZE)
          ChunkSize,   \* members in one statement (CHUNK_SIZE)
          MaxChanges, MaxFaults   \* bounds on what happens

ASSUME SizesArePositive == {ChannelCap, BatchSize, ChunkSize} \subseteq Nat \ {0}
ASSUME BoundsAreNumbers == {MaxChanges, MaxFaults} \subseteq Nat

VARIABLES
  hub,       \* hub: member -> section -> version and kind
  sent,      \* KnownAccount.sent: the sections last sent, or None
  channel,   \* updates sent and not yet received
  buffer,    \* the batch being collected
  batch,     \* the merged batch being written: member -> fields, or None
  chunks,    \* chunks of it (sets of members) still to write
  db,        \* member -> section -> what the column holds
  changes, drops, resends     \* what has happened so far, against the bounds

vars == <<hub, sent, channel, buffer, batch, chunks, db, changes, drops, resends>>

Kinds == {"value", "empty", "nothing"}
Section == [ver : 0..MaxChanges, kind : Kinds]
Stored == {x \in Section : x.kind # "nothing"}
Fields == [Sections -> Stored \cup {None}]
Update == [member : Members, fields : Fields]

ASSUME NoneIsNothing == None \notin Section \cup Fields \cup [Sections -> Section]

TypeOK ==
  /\ hub \in [Members -> [Sections -> Section]]
  /\ sent \in [Members -> [Sections -> Section] \cup {None}]
  /\ channel \in Seq(Update) /\ Len(channel) <= ChannelCap
  /\ buffer \in Seq(Update) /\ Len(buffer) <= BatchSize
  /\ batch \in [Members -> Fields \cup {None}]
  /\ chunks \subseteq SUBSET Members
  /\ \A c \in chunks : Cardinality(c) \in 1..ChunkSize /\ \A m \in c : batch[m] # None
  /\ db \in [Members -> Fields]
  /\ changes \in 0..MaxChanges /\ drops \in Nat /\ resends \in Nat /\ drops + resends <= MaxFaults

NoFields == [s \in Sections |-> None]
Idle == [m \in Members |-> None]

Init ==
  /\ hub = [m \in Members |-> [s \in Sections |-> [ver |-> 0, kind |-> "value"]]]
  /\ sent = Idle
  /\ channel = <<>> /\ buffer = <<>> /\ batch = Idle /\ chunks = {}
  /\ db = [m \in Members |-> NoFields]
  /\ changes = 0 /\ drops = 0 /\ resends = 0

-----------------------------------------------------------------------------
\* The player plays on, logs out, enters a special world, or the owner changes
\* what is shared.
HubChanges(m, s, kind) ==
  /\ changes < MaxChanges /\ changes' = changes + 1
  /\ kind = "value" \/ hub[m][s].kind # kind
  /\ hub' = [hub EXCEPT ![m][s] = [ver |-> changes', kind |-> kind]]
  /\ UNCHANGED <<sent, channel, buffer, batch, chunks, db, drops, resends>>

\* section_changed for every section of the account.
SectionsChanged(m) ==
  {s \in Sections : sent[m] = None \/ sent[m][s] # hub[m][s]}

\* to_member: the changed sections; one the hub has nothing new for is left out.
ToMember(m) ==
  [member |-> m,
   fields |-> [s \in Sections |->
                 IF s \in SectionsChanged(m) /\ hub[m][s].kind # "nothing"
                 THEN hub[m][s] ELSE None]]

\* Mutant: an update the channel has no room for is dropped, and counts as sent.
SendOrDrop(m) ==
  /\ SectionsChanged(m) # {}
  /\ channel' = IF Len(channel) < ChannelCap THEN Append(channel, ToMember(m)) ELSE channel
  /\ sent' = [sent EXCEPT ![m] = hub[m]]
  /\ UNCHANGED <<hub, buffer, batch, chunks, db, changes, drops, resends>>

\* process_account: what changed since it was last sent goes to the batcher; the
\* sync waits while the channel is full.
SendChanges(m) ==
  /\ SectionsChanged(m) # {} /\ Len(channel) < ChannelCap
  /\ channel' = Append(channel, ToMember(m))
  /\ sent' = [sent EXCEPT ![m] = hub[m]]
  /\ UNCHANGED <<hub, buffer, batch, chunks, db, changes, drops, resends>>

\* The sync forgets what it sent: the account was renamed, or an admin changed
\* its member.
ForgetSent(m) ==
  /\ sent[m] # None
  /\ drops + resends < MaxFaults /\ resends' = resends + 1
  /\ sent' = [sent EXCEPT ![m] = None]
  /\ UNCHANGED <<hub, channel, buffer, batch, chunks, db, changes, drops>>

-----------------------------------------------------------------------------
\* background_worker collects updates until 50 ms are over or the batch is full.
Receive ==
  /\ chunks = {} /\ channel # <<>> /\ Len(buffer) < BatchSize
  /\ buffer' = Append(buffer, Head(channel)) /\ channel' = Tail(channel)
  /\ UNCHANGED <<hub, sent, batch, chunks, db, changes, drops, resends>>

Positions(m, s) ==
  {i \in 1..Len(buffer) : buffer[i].member = m /\ buffer[i].fields[s] # None}

\* Mutant: an earlier update's fields win over a later one's.
MergedKeepsFirst(m) ==
  [s \in Sections |-> IF Positions(m, s) = {} THEN None
                      ELSE buffer[Min(Positions(m, s))].fields[s]]

\* deduplicate_batch with merge_update: of each field, the last one that is there.
Merged(m) ==
  [s \in Sections |-> IF Positions(m, s) = {} THEN None
                      ELSE buffer[Max(Positions(m, s))].fields[s]]

\* Mutant: the whole batch in one statement.
OneChunk(S) == {S}

\* The members of a batch in the order of their names, CHUNK_SIZE at a time.
\* The order does not matter to what is written: any fixed one will do.
ChunksOf(S) ==
  LET order == SetToSeq(S)
      first(i) == (i - 1) * ChunkSize + 1
      last(i)  == IF i * ChunkSize < Len(order) THEN i * ChunkSize ELSE Len(order)
  IN  {{order[j] : j \in first(i)..last(i)} :
          i \in 1..((Len(order) + ChunkSize - 1) \div ChunkSize)}

\* The batch is merged and cut into chunks.
StartWriting ==
  /\ chunks = {} /\ buffer # <<>>
  /\ LET S == {buffer[i].member : i \in 1..Len(buffer)} IN
     /\ batch' = [m \in Members |-> IF m \in S THEN Merged(m) ELSE None]
     /\ chunks' = ChunksOf(S)
  /\ buffer' = <<>>
  /\ UNCHANGED <<hub, sent, channel, db, changes, drops, resends>>

\* A chunk is over; the last one ends the batch.
ChunkOver(c) ==
  /\ chunks' = chunks \ {c}
  /\ batch' = IF chunks' = {} THEN Idle ELSE batch

\* Mutant: a field left out empties its column.
WriteWithoutCoalesce(c) ==
  /\ c \in chunks /\ ChunkOver(c)
  /\ db' = [m \in Members |-> IF m \in c THEN batch[m] ELSE db[m]]
  /\ UNCHANGED <<hub, sent, channel, buffer, changes, drops, resends>>

\* process_chunk: one UPDATE; chunks of a batch run side by side, in any order. A
\* field that is NULL leaves its column (COALESCE).
WriteChunk(c) ==
  /\ c \in chunks /\ ChunkOver(c)
  /\ db' = [m \in Members |->
              IF m \in c
              THEN [s \in Sections |-> IF batch[m][s] = None THEN db[m][s] ELSE batch[m][s]]
              ELSE db[m]]
  /\ UNCHANGED <<hub, sent, channel, buffer, changes, drops, resends>>

\* No connection, or the statement failed: it is logged and the chunk is dropped.
DropChunk(c) ==
  /\ c \in chunks /\ ChunkOver(c)
  /\ drops + resends < MaxFaults /\ drops' = drops + 1
  /\ UNCHANGED <<hub, sent, channel, buffer, db, changes, resends>>

\* The backend restarts: what was under way is lost, the rows stay.
Restart ==
  /\ drops + resends < MaxFaults /\ resends' = resends + 1
  /\ sent' = Idle /\ channel' = <<>> /\ buffer' = <<>> /\ batch' = Idle /\ chunks' = {}
  /\ UNCHANGED <<hub, db, changes, drops>>

Write == \E c \in SUBSET Members : WriteChunk(c)

Next ==
  \/ \E m \in Members : SendChanges(m) \/ ForgetSent(m)
                        \/ \E s \in Sections, k \in Kinds : HubChanges(m, s, k)
  \/ Receive \/ StartWriting \/ Write
  \/ \E c \in SUBSET Members : DropChunk(c)
  \/ Restart

Spec == Init /\ [][Next]_vars

\* The sync polls on and the batcher task is never stopped.
Fairness == /\ \A m \in Members : WF_vars(SendChanges(m))
            /\ WF_vars(Receive) /\ WF_vars(StartWriting) /\ WF_vars(Write)
FairSpec == Spec /\ Fairness

-----------------------------------------------------------------------------
\* What the map holds of a member is what the hub last said: a value it gave, an
\* empty array for what the key may not read.  Where the hub has nothing new the
\* column keeps what it had.
Holds(m) ==
  \A s \in Sections : hub[m][s].kind = "nothing" \/ db[m][s] = hub[m][s]

\* While no statement fails, every change on the hub ends up in the table for
\* good, whatever is merged, split, restarted or sent again on the way; a section
\* made private ends up empty (HUB_INTEGRATION.md, "Categories").
TableFollowsHub ==
  [](drops = 0) => <>[](\A m \in Members : Holds(m))

\* A column never goes back to an older state of the hub: not to a value from
\* before the owner made it private, not by merging, not by a chunk overtaking
\* another, not after a restart or a failed statement.
NeverBackwards ==
  [][\A m \in Members, s \in Sections :
       db[m][s] # None => db'[m][s] # None /\ db'[m][s].ver >= db[m][s].ver]_vars

\* When the pipeline is empty and no statement failed since the start, the table
\* agrees with what the sync believes it sent: the premise of sending only changes.
SentIsStored ==
  drops = 0 /\ channel = <<>> /\ buffer = <<>> /\ chunks = {} =>
    \A m \in Members : sent[m] # None =>
      \A s \in Sections : sent[m][s].kind = "nothing" \/ db[m][s] = sent[m][s]
=============================================================================
