-------------------------------- MODULE Memory --------------------------------
(***************************************************************************)
(* SqliteMemoryStore: a table of items in partitions, and an agent that     *)
(* pages through it while others put, delete and collect. A query counts    *)
(* and then fetches its page, a deletion looks and then deletes: two        *)
(* statements each, which no transaction joins.                             *)
(*                                                                          *)
(* The reader is external: it asks for the page after the last one for as   *)
(* long as has_more is set. Of an item the model has what queries look at;  *)
(* items are put in the order of their created_at, here a number, an id     *)
(* once, and every row can be read back. The daemon does not use the store  *)
(* yet.                                                                     *)
(***************************************************************************)
EXTENDS Naturals, FiniteSets

CONSTANTS
  MemoryIds, Partitions, Tags,
  PartitionOf, TagsOf, \* [MemoryIds -> Partitions], [MemoryIds -> SUBSET Tags]
  Expiring,            \* items with an expires_at
  AllowedPartitions,   \* AgentContext::allowed_memory_partitions of the reader
  PageLimit

ASSUME MemoryAssumption ==
  /\ PartitionOf \in [MemoryIds -> Partitions] /\ TagsOf \in [MemoryIds -> SUBSET Tags]
  /\ Expiring \subseteq MemoryIds /\ AllowedPartitions \subseteq Partitions
  /\ PageLimit \in Nat \ {0}

VARIABLES
  memories,  \* ids in memory_items
  created,   \* created_at of the ids that have been put
  used,      \* those
  lapsed,    \* those past their expires_at
  deleting,  \* ids whose deletion has looked at the partition
  query,     \* the reader's: [partitions, tags]
  offset, total,
  reading,   \* "idle", "asks", "counted" or "done"
  found,     \* what the pages have given it
  there,     \* history: what matched when the walk began
  moved  \* history: since then an item went, or came between a count and its page

memoryVars == <<memories, created, used, lapsed, deleting, query, offset, total, reading, found, there, moved>>
walkVars == <<query, offset, total, reading, found, there>>

MemoryInit ==
  /\ memories = {} /\ created = [i \in MemoryIds |-> 0] /\ used = {} /\ lapsed = {} /\ deleting = {}
  /\ query = [partitions |-> {}, tags |-> {}] /\ offset = 0 /\ total = 0
  /\ reading = "idle" /\ found = {} /\ there = {} /\ moved = FALSE

\* put, by an agent that may use the partition; the id is the primary key.
PutItem(i) ==
  /\ i \notin used /\ used' = used \cup {i}
  /\ memories' = memories \cup {i} /\ created' = [created EXCEPT ![i] = Cardinality(used')]
  /\ moved' = (moved \/ reading = "counted")
  /\ UNCHANGED <<lapsed, deleting, walkVars>>

Removed(ids) ==
  /\ memories' = memories \ ids
  /\ moved' = (moved \/ memories \cap ids # {})

\* delete, in two statements: the partition of the row, which may turn the agent away, and
\* the deletion. A row that is gone by then is no error.
LooksToDelete(i) ==
  /\ i \in memories \ deleting /\ deleting' = deleting \cup {i}
  /\ UNCHANGED <<memories, created, used, lapsed, walkVars, moved>>

Deletes(i) ==
  /\ i \in deleting /\ deleting' = deleting \ {i}
  /\ Removed({i})
  /\ UNCHANGED <<created, used, lapsed, walkVars>>

Lapses(i) ==
  /\ i \in (Expiring \cap memories) \ lapsed /\ lapsed' = lapsed \cup {i}
  /\ UNCHANGED <<memories, created, used, deleting, walkVars, moved>>

\* gc. Until then queries return what has expired.
Gc ==
  /\ memories \cap lapsed # {} /\ Removed(lapsed)
  /\ UNCHANGED <<created, used, lapsed, deleting, walkVars>>

\* The WHERE clause of a query: one partition, or all the agent may use. The kind and the
\* text it may ask for besides are conditions of the same sort.
Selected(q, i) == PartitionOf[i] \in q.partitions
Rows(q) == {i \in memories : Selected(q, i)}

\* The tags, any of which will do, are looked at when the page is there.
Tagged(q, i) == q.tags = {} \/ q.tags \cap TagsOf[i] # {}

\* A reader that may use no partition, or names one it may not use, is given none, or an error.
Queries == [partitions : {{p} : p \in AllowedPartitions} \cup {AllowedPartitions}, tags : SUBSET Tags]

BeginsWalk(q) ==
  /\ reading \in {"idle", "done"} /\ reading' = "asks"
  /\ query' = q /\ offset' = 0 /\ found' = {}
  /\ there' = {i \in memories : Selected(q, i) /\ Tagged(q, i)} /\ moved' = FALSE
  /\ UNCHANGED <<memories, created, used, lapsed, deleting, total>>

\* SELECT COUNT(*).
Counts ==
  /\ reading = "asks" /\ reading' = "counted" /\ total' = Cardinality(Rows(query))
  /\ UNCHANGED <<memories, created, used, lapsed, deleting, query, offset, found, there, moved>>

\* ORDER BY created_at DESC.
Place(q, i) == Cardinality({j \in Rows(q) : created[j] >= created[i]})

Page == {i \in Rows(query) : Place(query, i) \in offset + 1 .. offset + PageLimit}

\* Mutant of HasMore: there is more as long as a page gives something.
HasMoreIfFound == \E i \in Page : Tagged(query, i)

HasMore == offset + PageLimit < total

\* SELECT ... LIMIT ? OFFSET ?, and what becomes of the page.
Fetches ==
  /\ reading = "counted"
  /\ found' = found \cup {i \in Page : Tagged(query, i)}
  /\ IF HasMore THEN reading' = "asks" /\ offset' = offset + PageLimit
     ELSE reading' = "done" /\ UNCHANGED offset
  /\ UNCHANGED <<memories, created, used, lapsed, deleting, query, total, there, moved>>

MemoryNext ==
  \/ \E i \in MemoryIds : PutItem(i) \/ LooksToDelete(i) \/ Deletes(i) \/ Lapses(i)
  \/ \E q \in Queries : BeginsWalk(q)
  \/ Gc \/ Counts \/ Fetches

-----------------------------------------------------------------------------
MemoryTypeOK ==
  /\ memories \subseteq used /\ used \subseteq MemoryIds
  /\ {created[i] : i \in used} = 1..Cardinality(used)
  /\ lapsed \subseteq used \cap Expiring /\ deleting \subseteq used
  /\ reading \in {"idle", "asks", "counted", "done"} /\ {offset, total} \subseteq Nat
  /\ found \subseteq MemoryIds /\ there \subseteq MemoryIds /\ moved \in BOOLEAN

\* A reader that follows has_more to the end has been given every item that matched when it
\* began, over pages whose every item the tags leave out and items that others put meanwhile;
\* unless one was deleted or collected, which moves the rest up a place, or was put between
\* the count and the page it belongs to. Nothing it was given is outside its partitions.
WalksAreComplete ==
  /\ reading = "done" /\ ~moved => there \subseteq found
  /\ \A i \in found : PartitionOf[i] \in AllowedPartitions
==============================================================================
