------------------------------- MODULE Secrets -------------------------------
(***************************************************************************)
(* CompositeSecretsBroker: the rows of the secrets table and the scanner    *)
(* built out of them. Every write is followed by a rebuild of the whole     *)
(* scanner: the rows are read, the entries kept in Proton Pass are resolved *)
(* by an external command, and the new scanner replaces the old one. No     *)
(* lock is held over those steps, and calls of several tasks interleave.    *)
(*                                                                          *)
(* Encryption is outside: a value is what the row decrypts to. Of the       *)
(* access list a row keeps the agents; skills and servers are checked in    *)
(* the same way, on the same row.                                           *)
(***************************************************************************)
EXTENDS Naturals, FiniteSets

CONSTANTS
  SecretIds,
  Configured,    \* ids with an entry in the configuration
  PassIds,       \* those whose source is pass://
  SecretClients, \* tasks that call the broker
  Agents,
  MaxSecretOps,  \* bound: calls
  MaxDbErrors    \* bound: reads of the rows that fail

ASSUME SecretsAssumption ==
  /\ PassIds \subseteq Configured /\ Configured \subseteq SecretIds
  /\ {MaxSecretOps, MaxDbErrors} \subseteq Nat

VARIABLES
  rows,      \* the table: NoRow, or [value, kind, agents, expires]
  scanner,   \* the <<id, value>> it looks for
  opened,    \* CompositeSecretsBroker::new has returned
  call, spc, \* of each client: its call, and its place in it
  pairs,     \* the pairs it has read
  given,     \* what a tool was given: the first resolution (bound: one)
  secretOps, dbErrors,
  alone,     \* history: no other call has begun since the client's
  unsettled  \* history: the last rebuild was not alone, or one failed since

secretVars == <<rows, scanner, opened, call, spc, pairs, given, secretOps, dbErrors, alone, unsettled>>

\* Short values have fewer than 8 characters; an entry of the configuration has no value yet.
SecretValues == {"short", "long"}
Kinds == {"credential", "session"}
NoRow == [value |-> "absent", kind |-> "credential", agents |-> {}, expires |-> "never"]
NoCall == [kind |-> "none"]
NothingGiven == <<"nobody", "nothing">>
HasRow(i) == rows[i].value # "absent"
HasValue(i) == rows[i].value \in SecretValues

SecretsInit ==
  /\ rows = [i \in SecretIds |-> NoRow] /\ scanner = {} /\ opened = FALSE
  /\ call = [c \in SecretClients |-> NoCall] /\ spc = [c \in SecretClients |-> "idle"]
  /\ pairs = [c \in SecretClients |-> {}] /\ given = NothingGiven
  /\ secretOps = 0 /\ dbErrors = 0
  /\ alone = [c \in SecretClients |-> FALSE] /\ unsettled = FALSE

Calm == \A c \in SecretClients : spc[c] = "idle"
Leaves(c) == spc' = [spc EXCEPT ![c] = "idle"] /\ call' = [call EXCEPT ![c] = NoCall]
Reaches(c, from, to) == spc[c] = from /\ spc' = [spc EXCEPT ![c] = to]

\* sync_entries_to_sqlite: the access list of an entry, into an empty row or over the old one.
Opens(c) ==
  /\ ~opened /\ Calm
  /\ Reaches(c, "idle", "reading")
  /\ call' = [call EXCEPT ![c] = [kind |-> "open"]]
  /\ rows' = [i \in SecretIds |->
                IF i \notin Configured THEN rows[i]
                ELSE [rows[i] EXCEPT !.value = IF @ = "absent" THEN "empty" ELSE @, !.agents = Agents]]
  /\ alone' = [alone EXCEPT ![c] = TRUE]
  /\ UNCHANGED <<scanner, opened, pairs, given, secretOps, dbErrors, unsettled>>

Begin(c, request) ==
  /\ opened /\ secretOps < MaxSecretOps /\ secretOps' = secretOps + 1
  /\ Reaches(c, "idle", "working")
  /\ call' = [call EXCEPT ![c] = request]
  /\ alone' = [d \in SecretClients |-> d = c /\ Calm]
  /\ UNCHANGED <<rows, scanner, opened, pairs, given, dbErrors, unsettled>>

\* Mutant of Rebuilds: a session that was there before needs no new scanner.
RebuildsUnlessSession(c) ==
  spc' = [spc EXCEPT ![c] = IF call[c].kind = "session" THEN "idle" ELSE "reading"]

\* Every write goes on to build_scanner.
Rebuilds(c) == spc' = [spc EXCEPT ![c] = "reading"]

Writing(c, newRows) ==
  /\ rows' = newRows
  /\ Rebuilds(c)
  /\ UNCHANGED <<scanner, opened, pairs, given, secretOps, dbErrors, alone, unsettled>>

Stores(c) ==
  /\ spc[c] = "working" /\ call[c].kind = "store"
  /\ Writing(c, [rows EXCEPT ![call[c].id] = call[c].row])
  /\ UNCHANGED call

\* A row that is not there is no error.
Revokes(c) ==
  /\ spc[c] = "working" /\ call[c].kind = "revoke"
  /\ Writing(c, [rows EXCEPT ![call[c].id] = NoRow])
  /\ UNCHANGED call

\* store_session looks at the row first, and writes later.
LooksAtRow(c) ==
  LET row == rows[call[c].id]
  IN  /\ spc[c] = "working" /\ call[c].kind = "session"
      /\ IF HasRow(call[c].id) /\ row.kind = "session" /\ call[c].agent \in row.agents
         THEN spc' = [spc EXCEPT ![c] = "updating"] /\ UNCHANGED call
         ELSE Leaves(c)
      /\ UNCHANGED <<rows, scanner, opened, pairs, given, secretOps, dbErrors, alone, unsettled>>

\* UPDATE ... WHERE id: a row revoked since stays away, and the call succeeds all the same.
UpdatesRow(c) ==
  LET i == call[c].id
  IN  /\ spc[c] = "updating"
      /\ Writing(c, IF HasRow(i) THEN [rows EXCEPT ![i].value = call[c].value, ![i].expires = "later"]
                    ELSE rows)
      /\ UNCHANGED call

\* all_plaintext_pairs.
Pairs == {<<i, rows[i].value>> : i \in {j \in SecretIds : HasValue(j)}}

ReadsRows(c) ==
  /\ Reaches(c, "reading", "resolving")
  /\ pairs' = [pairs EXCEPT ![c] = Pairs]
  /\ UNCHANGED <<rows, scanner, opened, call, given, secretOps, dbErrors, alone, unsettled>>

\* The error is returned: the row is written and the scanner is the old one.
ReadFails(c) ==
  /\ spc[c] = "reading" /\ dbErrors < MaxDbErrors
  /\ dbErrors' = dbErrors + 1
  /\ Leaves(c)
  /\ unsettled' = TRUE
  /\ UNCHANGED <<rows, scanner, opened, pairs, given, secretOps, alone>>

\* SecretScanner::build leaves short values out.
Scanned(ps) == {p \in ps : p[2] # "short"}

\* Those of Proton Pass that resolve are added; then the scanner is swapped.
Swaps(c, resolved) ==
  /\ spc[c] = "resolving"
  /\ scanner' = Scanned(pairs[c] \cup {<<i, "pass">> : i \in resolved})
  /\ opened' = TRUE
  /\ Leaves(c)
  /\ pairs' = [pairs EXCEPT ![c] = {}]
  /\ unsettled' = ~alone[c]
  /\ UNCHANGED <<rows, given, secretOps, dbErrors, alone>>

\* resolve_handle_for_tool: an entry of Proton Pass by its entry, any other by its row,
\* which must be there with a value, not expired, and open to the agent.
Allowed(i, agent) ==
  IF i \in PassIds THEN agent \in Agents
  ELSE HasValue(i) /\ rows[i].expires # "past" /\ agent \in rows[i].agents

Resolves(i, agent) ==
  /\ opened /\ given = NothingGiven /\ Allowed(i, agent)
  /\ given' = <<i, IF i \in PassIds THEN "pass" ELSE rows[i].value>>
  /\ UNCHANGED <<rows, scanner, opened, call, spc, pairs, secretOps, dbErrors, alone, unsettled>>

Expires(i) ==
  /\ HasRow(i) /\ rows[i].expires = "later"
  /\ rows' = [rows EXCEPT ![i].expires = "past"]
  /\ UNCHANGED <<scanner, opened, call, spc, pairs, given, secretOps, dbErrors, alone, unsettled>>

NewRows == [value : SecretValues, kind : {"credential"}, agents : {{}, Agents}, expires : {"later"}]
             \cup [value : SecretValues, kind : {"session"}, agents : {Agents}, expires : {"never"}]

SecretsNext ==
  \/ \E c \in SecretClients :
       \/ Opens(c) \/ Stores(c) \/ Revokes(c) \/ LooksAtRow(c) \/ UpdatesRow(c)
       \/ ReadsRows(c) \/ ReadFails(c) \/ \E resolved \in SUBSET PassIds : Swaps(c, resolved)
       \/ \E i \in SecretIds :
            \/ \E row \in NewRows : Begin(c, [kind |-> "store", id |-> i, row |-> row])
            \/ Begin(c, [kind |-> "revoke", id |-> i])
            \/ \E v \in SecretValues, agent \in Agents :
                 Begin(c, [kind |-> "session", id |-> i, value |-> v, agent |-> agent])
  \/ \E i \in SecretIds : Expires(i) \/ \E agent \in Agents : Resolves(i, agent)

SecretsSpec == SecretsInit /\ [][SecretsNext]_secretVars

-----------------------------------------------------------------------------
SecretsTypeOK ==
  /\ \A i \in SecretIds : rows[i].value \in SecretValues \cup {"absent", "empty"}
  /\ spc \in [SecretClients -> {"idle", "working", "updating", "reading", "resolving"}]
  /\ opened \in BOOLEAN /\ unsettled \in BOOLEAN

Own(p) == p[2] # "pass"

\* Between calls the scanner looks for exactly the long values of the table: those stored,
\* replaced by a session or expired, and none that was revoked. It does after every call
\* that ran alone, whatever had overlapped or failed before; only calls that overlap, or a
\* read that fails, leave it behind, until the next call. A value in a tool's hands
\* is one the scanner knows as long as the table keeps it.
ScannerFollowsStore ==
  opened /\ Calm /\ ~unsettled =>
    /\ {p \in scanner : Own(p)} = Scanned(Pairs)
    /\ given \in Scanned(Pairs) => given \in scanner
==============================================================================
