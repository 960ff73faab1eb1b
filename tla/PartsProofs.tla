------------------------------ MODULE PartsProofs ------------------------------
(***************************************************************************)
(* Proofs about what is kept in tables, Secrets, for any secrets, callers,  *)
(* agents and numbers of calls, and Memory, for any items, tags and page    *)
(* sizes; and about the parts side by side.                                 *)
(***************************************************************************)
EXTENDS Parts, AgentProofs, ThreadsProofs, EntryProofs, FiniteSetTheorems, TLAPS

-----------------------------------------------------------------------------
(* The table of secrets and the scanner.                                    *)

RowSet == [value : SecretValues \cup {"absent", "empty"}, kind : Kinds, agents : SUBSET Agents,
           expires : {"never", "later", "past"}]
CallSet ==
  {NoCall} \cup [kind : {"open"}]
    \cup [kind : {"store"}, id : SecretIds, row : NewRows]
    \cup [kind : {"revoke"}, id : SecretIds]
    \cup [kind : {"session"}, id : SecretIds, value : SecretValues, agent : Agents]

SecretsTypes ==
  /\ rows \in [SecretIds -> RowSet] /\ opened \in BOOLEAN /\ unsettled \in BOOLEAN
  /\ call \in [SecretClients -> CallSet]
  /\ spc \in [SecretClients -> {"idle", "working", "updating", "reading", "resolving"}]
  /\ pairs \in [SecretClients -> SUBSET (SecretIds \X SecretValues)]
  /\ alone \in [SecretClients -> BOOLEAN]
  /\ \A c \in SecretClients : spc[c] = "updating" => call[c].kind = "session"

\* Nobody else is in a call while one is that runs alone.
AloneInv ==
  \A c, d \in SecretClients : c # d /\ alone[c] /\ spc[c] # "idle" => spc[d] = "idle"

\* What a call that runs alone has read is what is there.
PairsInv ==
  \A c \in SecretClients : alone[c] /\ spc[c] = "resolving" => pairs[c] = Pairs

InSync == {p \in scanner : Own(p)} = Scanned(Pairs)
Rebuilding == \E c \in SecretClients : spc[c] \in {"reading", "resolving"}

\* The scanner is behind only while somebody is about to rebuild it.
SyncInv == opened /\ ~unsettled => InSync \/ Rebuilding

SecretsIInv == SecretsTypes /\ AloneInv /\ PairsInv /\ SyncInv

-----------------------------------------------------------------------------
\* The pairs a scanner is built from are of handles and values.
LEMMA PairsType ==
  ASSUME SecretsTypes
  PROVE  Pairs \subseteq SecretIds \X SecretValues
  BY DEF Pairs, HasValue, SecretsTypes, RowSet

\* The table's part of a scanner is what was read of the table.
LEMMA OwnScanned ==
  ASSUME NEW ps \in SUBSET (SecretIds \X SecretValues), NEW resolved
  PROVE  {p \in Scanned(ps \cup {<<i, "pass">> : i \in resolved}) : Own(p)} = Scanned(ps)
<1>1. \A p \in ps : Own(p)
  BY DEF Own, SecretValues
<1>2. \A p \in {<<i, "pass">> : i \in resolved} : ~Own(p)
  BY DEF Own
<1> QED BY <1>1, <1>2 DEF Scanned

\* The new rows of a store are rows.
LEMMA NewRowsAreRows == NewRows \subseteq RowSet
  BY DEF NewRows, RowSet, Kinds, SecretValues

\* The invariant holds at the start.
LEMMA SecretsInitOK == SecretsInit => SecretsIInv
<1> SUFFICES ASSUME SecretsInit PROVE SecretsIInv
  OBVIOUS
<1>1. SecretsTypes
  BY DEF SecretsInit, SecretsTypes, RowSet, CallSet, NoRow, NoCall, Kinds
<1> QED BY <1>1 DEF SecretsInit, SecretsIInv, AloneInv, PairsInv, SyncInv

\* Any write, by a client in a call that is not rebuilding yet.
LEMMA WritingOK ==
  ASSUME SecretsIInv, NEW c \in SecretClients, NEW newRows \in [SecretIds -> RowSet],
         spc[c] \in {"working", "updating"}, Writing(c, newRows), UNCHANGED call
  PROVE  SecretsIInv'
<1> USE DEF SecretsIInv, Writing, Rebuilds
<1>1. SecretsTypes'
  BY DEF SecretsTypes
<1>2. AloneInv'
  BY DEF AloneInv, SecretsTypes
<1>3. PairsInv'
  <2> SUFFICES ASSUME NEW d \in SecretClients, alone[d], spc'[d] = "resolving"
               PROVE  FALSE
    BY DEF PairsInv
  <2>1. d # c /\ spc[d] = "resolving" /\ spc[c] # "idle"
    BY DEF SecretsTypes
  <2> QED BY <2>1 DEF AloneInv, SecretsTypes
<1>4. SyncInv'
  BY DEF SyncInv, Rebuilding, SecretsTypes
<1> QED BY <1>1, <1>2, <1>3, <1>4

\* Every step of a call of the broker keeps the invariant.
LEMMA SecretsStepOK ==
  ASSUME SecretsIInv, [SecretsNext]_secretVars
  PROVE  SecretsIInv'
<1> USE DEF SecretsIInv
<1>1. CASE UNCHANGED secretVars
  <2>1. SecretsTypes'
    BY <1>1 DEF secretVars, SecretsTypes, SecretsTypeOK
  <2>2. AloneInv' /\ PairsInv'
    BY <1>1 DEF secretVars, AloneInv, PairsInv, Pairs, HasValue
  <2>3. SyncInv'
    BY <1>1 DEF secretVars, SyncInv, InSync, Rebuilding, Pairs, HasValue, Scanned, Own
  <2> QED BY <2>1, <2>2, <2>3
<1>2. ASSUME NEW c \in SecretClients, Opens(c) PROVE SecretsIInv'
  <2> USE <1>2 DEF Opens, Reaches
  <2>1. rows' \in [SecretIds -> RowSet]
    <3>1. ASSUME NEW i \in SecretIds
          PROVE  [rows[i] EXCEPT !.value = IF @ = "absent" THEN "empty" ELSE @, !.agents = Agents]
                   \in RowSet
      BY DEF SecretsTypes, RowSet
    <3> QED
      BY <3>1 DEF SecretsTypes
  <2>2. SecretsTypes'
    BY <2>1 DEF SecretsTypes, CallSet
  <2>3. \A d \in SecretClients : d # c => spc'[d] = "idle"
    BY DEF Calm, SecretsTypes
  <2>4. AloneInv'
    BY <2>3 DEF AloneInv
  <2>5. PairsInv'
    BY <2>3 DEF PairsInv, SecretsTypes
  <2>6. ~opened'
    OBVIOUS
  <2> QED BY <2>2, <2>4, <2>5, <2>6 DEF SyncInv
<1>3. ASSUME NEW c \in SecretClients, NEW request \in CallSet, Begin(c, request) PROVE SecretsIInv'
  <2> USE <1>3 DEF Begin, Reaches
  <2>1. SecretsTypes'
    BY DEF SecretsTypes
  <2>2. AloneInv'
    BY DEF AloneInv, Calm, SecretsTypes
  <2>3. PairsInv'
    BY DEF PairsInv, SecretsTypes
  <2>4. SyncInv'
    <3>1. InSync => InSync'
      BY DEF InSync, Pairs, HasValue, Scanned, Own
    <3>2. Rebuilding => Rebuilding'
      BY DEF Rebuilding, SecretsTypes
    <3> QED BY <3>1, <3>2 DEF SyncInv
  <2> QED BY <2>1, <2>2, <2>3, <2>4
<1>4. ASSUME NEW c \in SecretClients, Stores(c) PROVE SecretsIInv'
  <2>1. call[c] \in [kind : {"store"}, id : SecretIds, row : NewRows]
    BY <1>4 DEF Stores, SecretsTypes, CallSet, NoCall
  <2>2. [rows EXCEPT ![call[c].id] = call[c].row] \in [SecretIds -> RowSet]
    BY <2>1, NewRowsAreRows DEF SecretsTypes
  <2> QED BY <1>4, <2>2, WritingOK DEF Stores
<1>5. ASSUME NEW c \in SecretClients, Revokes(c) PROVE SecretsIInv'
  <2>1. NoRow \in RowSet
    BY DEF NoRow, RowSet, Kinds
  <2>2. [rows EXCEPT ![call[c].id] = NoRow] \in [SecretIds -> RowSet]
    BY <2>1 DEF SecretsTypes
  <2> QED BY <1>5, <2>2, WritingOK DEF Revokes
<1>6. ASSUME NEW c \in SecretClients, LooksAtRow(c) PROVE SecretsIInv'
  <2> USE <1>6 DEF LooksAtRow, Leaves
  <2>1. SecretsTypes'
    BY DEF SecretsTypes, CallSet
  <2>2. AloneInv'
    BY DEF AloneInv, SecretsTypes
  <2>3. PairsInv'
    BY DEF PairsInv, SecretsTypes, Pairs, HasValue
  <2>4. SyncInv'
    <3>1. InSync => InSync'
      BY DEF InSync, Pairs, HasValue, Scanned, Own
    <3>2. Rebuilding => Rebuilding'
      BY DEF Rebuilding, SecretsTypes
    <3> QED BY <3>1, <3>2 DEF SyncInv
  <2> QED BY <2>1, <2>2, <2>3, <2>4
<1>7. ASSUME NEW c \in SecretClients, UpdatesRow(c) PROVE SecretsIInv'
  <2>1. call[c] \in [kind : {"session"}, id : SecretIds, value : SecretValues, agent : Agents]
    BY <1>7 DEF UpdatesRow, SecretsTypes, CallSet, NoCall
  <2>2. [rows EXCEPT ![call[c].id].value = call[c].value, ![call[c].id].expires = "later"]
          \in [SecretIds -> RowSet]
    <3> DEFINE i == call[c].id
               once == [rows EXCEPT ![i].value = call[c].value]
    <3>1. i \in SecretIds /\ call[c].value \in SecretValues
      BY <2>1
    <3>2. once \in [SecretIds -> RowSet]
      BY <3>1 DEF SecretsTypes, RowSet
    <3> HIDE DEF i, once
    <3>3. [once EXCEPT ![i].expires = "later"] \in [SecretIds -> RowSet]
      BY <3>1, <3>2 DEF RowSet
    <3> QED BY <3>3 DEF i, once
  <2>3. rows \in [SecretIds -> RowSet]
    BY DEF SecretsTypes
  <2>4. CASE HasRow(call[c].id)
    BY <1>7, <2>2, <2>4, WritingOK DEF UpdatesRow
  <2>5. CASE ~HasRow(call[c].id)
    BY <1>7, <2>3, <2>5, WritingOK DEF UpdatesRow
  <2> QED BY <2>4, <2>5
<1>8. ASSUME NEW c \in SecretClients, ReadsRows(c) PROVE SecretsIInv'
  <2> USE <1>8 DEF ReadsRows, Reaches
  <2>1. SecretsTypes'
    BY PairsType DEF SecretsTypes
  <2>2. AloneInv'
    BY DEF AloneInv, SecretsTypes
  <2>3. Pairs' = Pairs
    BY DEF Pairs, HasValue
  <2>4. PairsInv'
    BY <2>3 DEF PairsInv, SecretsTypes
  <2>5. Rebuilding'
    BY DEF Rebuilding, SecretsTypes
  <2> QED BY <2>1, <2>2, <2>4, <2>5 DEF SyncInv
<1>9. ASSUME NEW c \in SecretClients, ReadFails(c) PROVE SecretsIInv'
  <2> USE <1>9 DEF ReadFails, Leaves
  <2>1. SecretsTypes'
    BY DEF SecretsTypes, CallSet
  <2>2. AloneInv' /\ PairsInv'
    BY DEF AloneInv, PairsInv, SecretsTypes, Pairs, HasValue
  <2> QED BY <2>1, <2>2 DEF SyncInv
<1>10. ASSUME NEW c \in SecretClients, NEW resolved \in SUBSET PassIds, Swaps(c, resolved)
       PROVE  SecretsIInv'
  <2> USE <1>10 DEF Swaps, Leaves
  <2>1. SecretsTypes'
    BY DEF SecretsTypes, CallSet
  <2>2. AloneInv' /\ PairsInv'
    BY DEF AloneInv, PairsInv, SecretsTypes, Pairs, HasValue
  <2>3. CASE alone[c]
    <3>1. pairs[c] = Pairs /\ pairs[c] \in SUBSET (SecretIds \X SecretValues)
      BY <2>3 DEF PairsInv, SecretsTypes
    <3>2. {p \in scanner' : Own(p)} = Scanned(Pairs)
      BY <3>1, OwnScanned
    <3>3. Scanned(Pairs)' = Scanned(Pairs)
      BY DEF Scanned, Pairs, HasValue
    <3> QED BY <2>1, <2>2, <3>2, <3>3 DEF SyncInv, InSync, Own
  <2>4. CASE ~alone[c]
    BY <2>1, <2>2, <2>4 DEF SyncInv
  <2> QED BY <2>3, <2>4
<1>11. ASSUME NEW i \in SecretIds, Expires(i) PROVE SecretsIInv'
  <2> USE <1>11 DEF Expires
  <2>1. SecretsTypes'
    BY DEF SecretsTypes, RowSet
  <2>2. \A j \in SecretIds : rows'[j].value = rows[j].value
    BY DEF SecretsTypes, RowSet
  <2>3. Pairs' = Pairs
    BY <2>2 DEF Pairs, HasValue
  <2> QED BY <2>1, <2>3 DEF AloneInv, PairsInv, SyncInv, InSync, Rebuilding, Scanned, Own
<1>12. ASSUME NEW i \in SecretIds, NEW agent \in Agents, Resolves(i, agent) PROVE SecretsIInv'
  BY <1>12 DEF Resolves, SecretsTypes, AloneInv, PairsInv, SyncInv, InSync, Rebuilding, Pairs, HasValue,
               Scanned, Own
<1>13. ASSUME NEW c \in SecretClients, NEW i \in SecretIds,
              \/ \E new \in NewRows : Begin(c, [kind |-> "store", id |-> i, row |-> new])
              \/ Begin(c, [kind |-> "revoke", id |-> i])
              \/ \E v \in SecretValues, agent \in Agents :
                   Begin(c, [kind |-> "session", id |-> i, value |-> v, agent |-> agent])
       PROVE  SecretsIInv'
  <2>1. PICK request \in CallSet : Begin(c, request)
    BY <1>13 DEF CallSet
  <2> QED BY <2>1, <1>3
<1> QED
  BY <1>1, <1>2, <1>4, <1>5, <1>6, <1>7, <1>8, <1>9, <1>10, <1>11, <1>12, <1>13 DEF SecretsNext

\* The invariant holds in every execution.
LEMMA SecretsInvariance == SecretsSpec => []SecretsIInv
<1>1. SecretsIInv /\ [SecretsNext]_secretVars => SecretsIInv'
  BY SecretsStepOK
<1> QED BY <1>1, SecretsInitOK, PTL DEF SecretsSpec

\* Between calls the scanner looks for exactly the long values of the table, whatever
\* overlapped or failed before the last call that ran alone: for any secrets and callers.
THEOREM ScannerIsInStep == SecretsSpec => []ScannerFollowsStore
<1>1. SecretsIInv => ScannerFollowsStore
  <2> SUFFICES ASSUME SecretsIInv, opened, Calm, ~unsettled
               PROVE  /\ InSync
                      /\ given \in Scanned(Pairs) => given \in scanner
    BY DEF ScannerFollowsStore, InSync
  <2>1. InSync
    BY DEF SecretsIInv, SyncInv, Rebuilding, Calm
  <2> QED BY <2>1 DEF InSync
<1> QED BY <1>1, SecretsInvariance, PTL

\* The variables of the secrets model hold values of their types.
THEOREM SecretsTypeCorrect == SecretsSpec => []SecretsTypeOK
<1>1. SecretsIInv => SecretsTypeOK
  BY DEF SecretsIInv, SecretsTypes, SecretsTypeOK, RowSet
<1> QED BY <1>1, SecretsInvariance, PTL

-----------------------------------------------------------------------------
(* The memory store and a reader that goes through its pages.               *)

MemorySpec == MemoryInit /\ [][MemoryNext]_memoryVars

MemoryTypes ==
  /\ memories \subseteq used /\ used \subseteq MemoryIds /\ IsFiniteSet(used)
  /\ created \in [MemoryIds -> Nat] /\ {created[i] : i \in used} = 1..Cardinality(used)
  /\ lapsed \subseteq used \cap Expiring /\ deleting \subseteq used
  /\ reading \in {"idle", "asks", "counted", "done"} /\ offset \in Nat /\ total \in Nat
  /\ there \subseteq MemoryIds /\ moved \in BOOLEAN
  /\ query.partitions \subseteq AllowedPartitions
  /\ \A i \in found : i \in MemoryIds /\ PartitionOf[i] \in query.partitions

\* Until something moves, what matched when the walk began is still stored, and is found or
\* on a page that is still to come; what was counted is what there is.
WalkInv ==
  reading # "idle" /\ ~moved =>
    /\ there \subseteq memories
    /\ \A i \in there : Selected(query, i) /\ Tagged(query, i)
    /\ reading \in {"asks", "counted"} => \A i \in there : i \in found \/ Place(query, i) > offset
    /\ reading = "counted" => total = Cardinality(Rows(query))
    /\ reading = "done" => there \subseteq found

MemoryIInv == MemoryTypes /\ WalkInv

\* The rows of a query are finitely many, and so are those before one of them.
LEMMA PlaceFacts ==
  ASSUME MemoryTypes, NEW q, NEW i
  PROVE  /\ IsFiniteSet(Rows(q)) /\ Cardinality(Rows(q)) \in Nat
         /\ Place(q, i) \in Nat /\ Place(q, i) <= Cardinality(Rows(q))
<1>1. IsFiniteSet(used) /\ Rows(q) \subseteq used
  BY DEF MemoryTypes, Rows
<1>2. IsFiniteSet(Rows(q))
  BY <1>1, FS_Subset
<1>3. Cardinality(Rows(q)) \in Nat
  BY <1>2, FS_CardinalityType
<1> DEFINE before == {j \in Rows(q) : created[j] >= created[i]}
<1>4. before \in SUBSET Rows(q)
  OBVIOUS
<1> HIDE DEF before
<1>5. IsFiniteSet(before) /\ Cardinality(before) <= Cardinality(Rows(q))
  BY <1>2, <1>4, FS_Subset
<1>6. Cardinality(before) \in Nat
  BY <1>5, FS_CardinalityType
<1> QED
  BY <1>2, <1>3, <1>5, <1>6 DEF Place, before

\* The invariant holds of an empty store.
LEMMA MemoryInitOK == MemoryInit => MemoryIInv
<1> SUFFICES ASSUME MemoryInit PROVE MemoryIInv
  OBVIOUS
<1>1. IsFiniteSet({}) /\ Cardinality({}) = 0
  BY FS_EmptySet
<1>2. {created[i] : i \in used} = 1..Cardinality(used)
  BY <1>1 DEF MemoryInit
<1>3. MemoryTypes
  BY <1>1, <1>2 DEF MemoryInit, MemoryTypes
<1> QED
  BY <1>3 DEF MemoryIInv, WalkInv, MemoryInit

\* Every step keeps the types.
LEMMA MemoryTypesStep ==
  ASSUME MemoryTypes, [MemoryNext]_memoryVars
  PROVE  MemoryTypes'
<1>1. CASE UNCHANGED memoryVars
  BY <1>1 DEF memoryVars, MemoryTypes
<1>2. ASSUME NEW i \in MemoryIds, PutItem(i) PROVE MemoryTypes'
  <2> DEFINE n == Cardinality(used) + 1
  <2>1. IsFiniteSet(used') /\ Cardinality(used') = n /\ Cardinality(used) \in Nat
    BY <1>2, FS_AddElement, FS_CardinalityType DEF PutItem, MemoryTypes
  <2>2. /\ i \notin used /\ used' = used \cup {i} /\ memories' = memories \cup {i}
        /\ created' = [created EXCEPT ![i] = n] /\ created \in [MemoryIds -> Nat]
        /\ used \subseteq MemoryIds
    BY <1>2, <2>1 DEF PutItem, MemoryTypes
  <2> HIDE DEF n
  <2>3. n \in Nat /\ n = Cardinality(used) + 1
    BY <2>1 DEF n
  <2>4. created' \in [MemoryIds -> Nat]
    BY <2>2, <2>3
  <2>5. created'[i] = n /\ \A j \in used : created'[j] = created[j]
    BY <2>2
  <2>6. {created'[j] : j \in used'} = {created[j] : j \in used} \cup {n}
    BY <2>2, <2>5
  <2>7. {created'[j] : j \in used'} = 1..Cardinality(used')
    <3>1. {created[j] : j \in used} = 1..Cardinality(used)
      BY DEF MemoryTypes
    <3>2. 1..Cardinality(used) \cup {n} = 1..n
      BY <2>1, <2>3
    <3> QED
      BY <2>1, <2>6, <3>1, <3>2
  <2> QED
    BY <1>2, <2>1, <2>2, <2>4, <2>7 DEF PutItem, walkVars, MemoryTypes
<1>3. ASSUME NEW i \in MemoryIds, LooksToDelete(i) \/ Deletes(i) \/ Lapses(i) PROVE MemoryTypes'
  <2>1. UNCHANGED <<created, used, walkVars>> /\ memories' \subseteq memories /\ moved' \in BOOLEAN
    BY <1>3 DEF LooksToDelete, Deletes, Lapses, Removed, MemoryTypes
  <2>2. lapsed' \subseteq used \cap Expiring /\ deleting' \subseteq used
    BY <1>3 DEF LooksToDelete, Deletes, Lapses, MemoryTypes
  <2> QED
    BY <2>1, <2>2 DEF walkVars, MemoryTypes
<1>4. CASE Gc
  BY <1>4 DEF Gc, Removed, walkVars, MemoryTypes
<1>5. ASSUME NEW q \in Queries, BeginsWalk(q) PROVE MemoryTypes'
  BY <1>5 DEF BeginsWalk, Queries, MemoryTypes
<1>6. CASE Counts
  <2>1. Cardinality(Rows(query)) \in Nat
    BY PlaceFacts
  <2> QED
    BY <1>6, <2>1 DEF Counts, MemoryTypes
<1>7. CASE Fetches
  <2>1. PageLimit \in Nat
    BY MemoryAssumption DEF MemoryAssumption
  <2>2. \A i \in Page : i \in MemoryIds /\ PartitionOf[i] \in query.partitions
    BY DEF Page, Rows, Selected, MemoryTypes
  <2>3. offset' \in Nat /\ reading' \in {"asks", "done"}
    BY <1>7, <2>1 DEF Fetches, MemoryTypes
  <2>4. \A i \in found' : i \in found \/ i \in Page
    BY <1>7 DEF Fetches
  <2> QED
    BY <1>7, <2>2, <2>3, <2>4 DEF Fetches, MemoryTypes
<1> QED
  BY <1>1, <1>2, <1>3, <1>4, <1>5, <1>6, <1>7 DEF MemoryNext

\* Every step keeps what the reader may count on.
LEMMA WalkStep ==
  ASSUME MemoryIInv, [MemoryNext]_memoryVars
  PROVE  WalkInv'
<1> USE DEF MemoryIInv
<1>1. ASSUME UNCHANGED <<memories, created, query, offset, total, reading, found, there>>,
             moved => moved'
      PROVE  WalkInv'
  BY <1>1 DEF WalkInv, Selected, Tagged, Place, Rows
<1>2. CASE UNCHANGED memoryVars
  BY <1>1, <1>2 DEF memoryVars
<1>3. ASSUME NEW i \in MemoryIds, PutItem(i) PROVE WalkInv'
  <2>1. /\ i \notin used /\ memories' = memories \cup {i} /\ UNCHANGED <<query, offset, total>>
        /\ UNCHANGED <<reading, found, there>> /\ moved' = (moved \/ reading = "counted")
        /\ created' = [created EXCEPT ![i] = Cardinality(used')]
        /\ memories \subseteq used /\ created \in [MemoryIds -> Nat] /\ used \subseteq MemoryIds
    BY <1>3 DEF PutItem, walkVars, MemoryTypes
  <2> SUFFICES ASSUME reading # "idle", ~moved, reading # "counted" PROVE WalkInv'
    BY <2>1 DEF WalkInv
  <2>2. ASSUME reading = "asks", NEW k \in there PROVE k \in found \/ Place(query, k)' > offset
    <3> SUFFICES ASSUME k \notin found PROVE Place(query, k)' > offset
      OBVIOUS
    <3> DEFINE before == {j \in Rows(query) : created[j] >= created[k]}
               after  == {j \in Rows(query) : created[j] >= created[k]}'
    <3>1. k \in memories /\ Place(query, k) > offset
      BY <2>2 DEF WalkInv
    <3>2. \A j \in memories : created'[j] = created[j]
      BY <2>1
    <3>3. before \in SUBSET after
      BY <2>1, <3>1, <3>2 DEF Rows, Selected
    <3>4. IsFiniteSet(after)
      <4>1. MemoryTypes'
        BY MemoryTypesStep
      <4>2. IsFiniteSet(used') /\ after \in SUBSET used'
        BY <4>1 DEF MemoryTypes, Rows
      <4> QED
        BY <4>2, FS_Subset
    <3> HIDE DEF before, after
    <3>5. /\ Cardinality(before) <= Cardinality(after)
          /\ Cardinality(after) \in Nat /\ Cardinality(before) \in Nat
      BY <3>3, <3>4, FS_Subset, FS_CardinalityType
    <3>6. Place(query, k) = Cardinality(before) /\ Place(query, k)' = Cardinality(after)
      BY <2>1 DEF Place, before, after
    <3>7. offset \in Nat
      BY DEF MemoryTypes
    <3> QED
      BY <3>1, <3>5, <3>6, <3>7
  <2> QED
    BY <2>1, <2>2 DEF WalkInv, Selected, Tagged
<1>4. ASSUME NEW ids, Removed(ids), UNCHANGED <<created, walkVars>> PROVE WalkInv'
  <2>1. CASE memories \cap ids = {}
    BY <1>1, <1>4, <2>1 DEF Removed, walkVars
  <2>2. CASE memories \cap ids # {}
    BY <1>4, <2>2 DEF Removed, WalkInv
  <2> QED
    BY <2>1, <2>2
<1>5. ASSUME NEW i \in MemoryIds, LooksToDelete(i) \/ Lapses(i) PROVE WalkInv'
  BY <1>1, <1>5 DEF LooksToDelete, Lapses, walkVars
<1>6. ASSUME NEW i \in MemoryIds, Deletes(i) PROVE WalkInv'
  BY <1>4, <1>6 DEF Deletes
<1>7. CASE Gc
  BY <1>4, <1>7 DEF Gc
<1>8. ASSUME NEW q \in Queries, BeginsWalk(q) PROVE WalkInv'
  <2>1. /\ reading' = "asks" /\ query' = q /\ offset' = 0 /\ memories' = memories
        /\ created' = created /\ there' = {i \in memories : Selected(q, i) /\ Tagged(q, i)}
    BY <1>8 DEF BeginsWalk
  <2>2. ASSUME NEW k \in there' PROVE Place(q, k) > 0
    <3> DEFINE before == {j \in Rows(q) : created[j] >= created[k]}
    <3>1. k \in memories /\ Selected(q, k) /\ created[k] \in Nat
      BY <2>1, <2>2 DEF MemoryTypes
    <3>2. k \in before
      BY <3>1 DEF Rows
    <3>3. IsFiniteSet(before)
      <4>1. IsFiniteSet(Rows(q)) /\ before \in SUBSET Rows(q)
        BY PlaceFacts
      <4> QED
        BY <4>1, FS_Subset
    <3> HIDE DEF before
    <3>4. Cardinality(before) # 0 /\ Cardinality(before) \in Nat
      BY <3>2, <3>3, FS_EmptySet, FS_CardinalityType
    <3> QED
      BY <3>4 DEF Place, before
  <2>3. \A k \in there' : Place(query, k)' > offset'
    BY <2>1, <2>2 DEF Place, Rows, Selected
  <2> QED
    BY <2>1, <2>3 DEF WalkInv, Selected, Tagged
<1>9. CASE Counts
  <2>1. /\ reading = "asks" /\ reading' = "counted" /\ total' = Cardinality(Rows(query))
        /\ UNCHANGED <<memories, created, query, offset, found, there, moved>>
    BY <1>9 DEF Counts
  <2> QED
    BY <2>1 DEF WalkInv, Selected, Tagged, Place, Rows
<1>10. CASE Fetches
  <2>1. /\ reading = "counted" /\ UNCHANGED <<memories, created, query, total, there, moved>>
        /\ found' = found \cup {i \in Page : Tagged(query, i)}
        /\ reading' = (IF HasMore THEN "asks" ELSE "done")
        /\ offset' = IF HasMore THEN offset + PageLimit ELSE offset
    BY <1>10 DEF Fetches
  <2>2. PageLimit \in Nat /\ offset \in Nat /\ total \in Nat
    BY MemoryAssumption DEF MemoryAssumption, MemoryTypes
  <2> SUFFICES ASSUME ~moved PROVE WalkInv'
    BY <2>1 DEF WalkInv
  <2>3. /\ there \subseteq memories /\ \A i \in there : Selected(query, i) /\ Tagged(query, i)
        /\ \A i \in there : i \in found \/ Place(query, i) > offset
        /\ total = Cardinality(Rows(query))
    BY <2>1 DEF WalkInv
  <2>4. ASSUME NEW i \in there PROVE i \in found' \/ Place(query, i) > offset + PageLimit
    <3> SUFFICES ASSUME i \notin found, Place(query, i) <= offset + PageLimit PROVE i \in Page
      BY <2>1, <2>2, <2>3, PlaceFacts
    <3>1. Place(query, i) \in Nat /\ Place(query, i) > offset
      BY <2>3, PlaceFacts
    <3>2. Place(query, i) \in offset + 1 .. offset + PageLimit
      BY <2>2, <3>1
    <3> QED
      BY <2>3, <3>2 DEF Page, Rows
  <2>5. ~HasMore => there \subseteq found'
    <3> SUFFICES ASSUME ~HasMore, NEW i \in there PROVE i \in found'
      OBVIOUS
    <3>1. total <= offset + PageLimit
      BY <2>2 DEF HasMore
    <3>2. Place(query, i) \in Nat /\ Place(query, i) <= total
      BY <2>3, PlaceFacts
    <3> QED
      BY <2>2, <2>4, <3>1, <3>2
  <2>6. \A i \in there : Place(query, i)' = Place(query, i)
    BY <2>1 DEF Place, Rows, Selected
  <2> QED
    BY <2>1, <2>3, <2>4, <2>5, <2>6 DEF WalkInv, Selected, Tagged
<1> QED
  BY <1>2, <1>3, <1>5, <1>6, <1>7, <1>8, <1>9, <1>10 DEF MemoryNext

\* The invariant holds in every execution.
LEMMA MemoryInvariance == MemorySpec => []MemoryIInv
<1>1. MemoryIInv /\ [MemoryNext]_memoryVars => MemoryIInv'
  BY MemoryTypesStep, WalkStep DEF MemoryIInv
<1> QED BY <1>1, MemoryInitOK, PTL DEF MemorySpec

\* A reader that follows has_more to the end has been given all that matched, unless
\* something moved, and nothing outside its partitions.
THEOREM WalksMissNothing == MemorySpec => []WalksAreComplete
<1>1. MemoryIInv => WalksAreComplete
  BY DEF MemoryIInv, MemoryTypes, WalkInv, WalksAreComplete
<1> QED BY <1>1, MemoryInvariance, PTL

\* The variables of the memory model hold values of their types.
THEOREM MemoryTypeCorrect == MemorySpec => []MemoryTypeOK
<1>1. MemoryIInv => MemoryTypeOK
  BY DEF MemoryIInv, MemoryTypes, MemoryTypeOK
<1> QED BY <1>1, MemoryInvariance, PTL


-----------------------------------------------------------------------------
(* The parts side by side.                                                  *)

PartSpecs ==
  /\ AgentSpec /\ ThreadsSpec /\ ChatSpec /\ DaemonSpec /\ A2aSpec /\ SecretsSpec
  /\ TriggersSpec /\ MemorySpec

\* Every execution of the eight parts, in whatever order they take their steps, is an
\* execution of each: what is shown of one holds of it beside the others.
LEMMA PartsArePlacedSideBySide == PartsSpec => PartSpecs
<1>0. PartsInit => /\ AgentInit /\ ThreadsInit /\ ChatInit /\ DaemonInit /\ A2aInit
                   /\ SecretsInit /\ TriggersInit /\ MemoryInit
  BY DEF PartsInit
<1>1. [PartsNext]_partsVars => [AgentNext]_agentVars
  BY DEF PartsNext, partsVars, AgentOnly, ThreadsOnly, ChatOnly, DaemonOnly, A2aOnly, SecretsOnly,
         TriggersOnly, MemoryOnly
<1>2. [PartsNext]_partsVars => [ThreadsNext]_threadVars
  BY DEF PartsNext, partsVars, AgentOnly, ThreadsOnly, ChatOnly, DaemonOnly, A2aOnly, SecretsOnly,
         TriggersOnly, MemoryOnly
<1>3. [PartsNext]_partsVars => [ChatNext]_chatVars
  BY DEF PartsNext, partsVars, AgentOnly, ThreadsOnly, ChatOnly, DaemonOnly, A2aOnly, SecretsOnly,
         TriggersOnly, MemoryOnly
<1>4. [PartsNext]_partsVars => [DaemonNext]_lifeVars
  BY DEF PartsNext, partsVars, AgentOnly, ThreadsOnly, ChatOnly, DaemonOnly, A2aOnly, SecretsOnly,
         TriggersOnly, MemoryOnly
<1>5. [PartsNext]_partsVars => [A2aNext]_a2aVars
  BY DEF PartsNext, partsVars, AgentOnly, ThreadsOnly, ChatOnly, DaemonOnly, A2aOnly, SecretsOnly,
         TriggersOnly, MemoryOnly
<1>6. [PartsNext]_partsVars => [SecretsNext]_secretVars
  BY DEF PartsNext, partsVars, AgentOnly, ThreadsOnly, ChatOnly, DaemonOnly, A2aOnly, SecretsOnly,
         TriggersOnly, MemoryOnly
<1>7. [PartsNext]_partsVars => [TriggersNext]_triggerVars
  BY DEF PartsNext, partsVars, AgentOnly, ThreadsOnly, ChatOnly, DaemonOnly, A2aOnly, SecretsOnly,
         TriggersOnly, MemoryOnly
<1>8. [PartsNext]_partsVars => [MemoryNext]_memoryVars
  BY DEF PartsNext, partsVars, AgentOnly, ThreadsOnly, ChatOnly, DaemonOnly, A2aOnly, SecretsOnly,
         TriggersOnly, MemoryOnly
<1> QED
  BY <1>0, <1>1, <1>2, <1>3, <1>4, <1>5, <1>6, <1>7, <1>8, PTL
     DEF PartsSpec, PartSpecs, AgentSpec, ThreadsSpec, ChatSpec, DaemonSpec, A2aSpec, SecretsSpec,
         TriggersSpec, MemorySpec

\* Side by side, the variables of the eight hold values of their types.
THEOREM PartsTypesCorrect == PartsSpec => []PartsTypesOK
BY PartsArePlacedSideBySide, AgentTypeCorrect, ThreadsTypeCorrect, ChatTypeCorrect,
   DaemonTypeCorrect, A2aTypeCorrect, SecretsTypeCorrect, TriggersTypeCorrect, MemoryTypeCorrect,
   PTL
   DEF PartSpecs, PartsTypesOK

PartsSafety ==
  /\ CallsAnswered /\ BudgetIsExact /\ EndIsTold
  /\ SeqsGrow /\ ReportsReachJournal /\ JournalMirrorsSession
  /\ ChatShowsRequests /\ OneDaemonAtATime /\ WorkSurvivesDaemons
  /\ StreamsMirrorRecords /\ ScannerFollowsStore /\ LimitsAreExact /\ WalksAreComplete

\* Side by side, every safety property of a part holds.
THEOREM PartsAreSafe == PartsSpec => []PartsSafety
BY PartsArePlacedSideBySide, EveryCallHasItsResult, BudgetsAreExact, EndsAreTold, SequencesGrow,
   ReportsAreJournalled, JournalsMirrorSessions, RequestsAreShown, OneDaemon, WorkIsTakenUp,
   StreamsMissNothing, ScannerIsInStep, MessageLimitsHold, WalksMissNothing, PTL
   DEF PartSpecs, PartsSafety
=============================================================================
