------------------------------- MODULE AuditLog -------------------------------
(***************************************************************************)
(* The audit sinks of postgres_audit.rs behind record_audit.  Writers are  *)
(* the handlers that are in record_audit at the same time, of all          *)
(* replicas in the case of Postgres.  The in-memory store appends under    *)
(* its mutex without an await; PostgresAuditStore::append reads the tip    *)
(* with one query and inserts the linked row with another.                 *)
(***************************************************************************)
EXTENDS Naturals, Sequences

CONSTANTS
  Writer,         \* concurrent callers of record_audit
  Entry,          \* contents of an entry: correlation id, identity, outcome, time
  Genesis,        \* prev_hash of the first entry: None
  MaxRows         \* bound: row ids handed out

VARIABLES
  store,          \* the sink main.rs chose: "memory" or "postgres"
  rows,           \* the log; a row's id is its position
  writer          \* append in progress, per caller

vars == <<store, rows, writer>>

ASSUME RowsAssumption == MaxRows \in Nat

NoEntry == "no entry"
Quiet == [pc |-> "idle", entry |-> NoEntry, prev |-> Genesis]

\* AuditEntry::entry_hash, SHA-256 taken to be injective.
EntryHashUnlinked(e, prev) == <<e, Genesis>>    \* mutant: prev is left out
EntryHash(e, prev) == <<e, prev>>

\* The in-memory store keeps prev only as an ingredient of the hash.
\* Row states: "open" while the insert is under way, then "committed" or "void".
Row(e, prev, state) ==
  [entry |-> e, prev |-> prev, hash |-> EntryHash(e, prev), state |-> state]

Committed == {i \in DOMAIN rows : rows[i].state = "committed"}
Newest(ids) == CHOOSE i \in ids : \A j \in ids : j <= i

\* Mutant: the tip is remembered when the insert is issued.
LatestIssued == IF rows = <<>> THEN Genesis ELSE rows[Len(rows)].hash

\* latest_hash: SELECT entry_hash ... ORDER BY id DESC LIMIT 1.
LatestHash == IF Committed = {} THEN Genesis ELSE rows[Newest(Committed)].hash

\* main.rs: Postgres if it is configured and reachable, else the fallback.
Init ==
  /\ store \in {"memory", "postgres"}
  /\ rows = <<>>
  /\ writer = [w \in Writer |-> Quiet]

\* InMemoryAuditStore::append: the caller waits for the mutex; with the mutex
\* it links and pushes the entry at once.
AwaitLock(w, e) ==
  /\ store = "memory" /\ writer[w].pc = "idle"
  /\ writer' = [writer EXCEPT ![w] = [pc |-> "lock", entry |-> e, prev |-> Genesis]]
  /\ UNCHANGED <<store, rows>>

AppendLocked(w) ==
  /\ writer[w].pc = "lock" /\ Len(rows) < MaxRows
  /\ rows' = Append(rows, Row(writer[w].entry, LatestHash, "committed"))
  /\ writer' = [writer EXCEPT ![w] = Quiet]
  /\ UNCHANGED store

\* PostgresAuditStore::append, first query; on error it returns at once.
ReadTip(w, e) ==
  /\ store = "postgres" /\ writer[w].pc = "idle"
  /\ writer' = [writer EXCEPT ![w] =
       [pc |-> "insert", entry |-> e, prev |-> LatestHash]]
  /\ UNCHANGED <<store, rows>>

\* Mutant: the entry is hashed before prev_hash is set.
InsertHashedEarly(w) ==
  /\ writer[w].pc = "insert" /\ Len(rows) < MaxRows
  /\ rows' = Append(rows, [Row(writer[w].entry, Genesis, "open")
                            EXCEPT !.prev = writer[w].prev])
  /\ writer' = [writer EXCEPT ![w].pc = "wait"]
  /\ UNCHANGED store

\* Second query: the sequence hands out the next id.
Insert(w) ==
  /\ writer[w].pc = "insert" /\ Len(rows) < MaxRows
  /\ rows' = Append(rows, Row(writer[w].entry, writer[w].prev, "open"))
  /\ writer' = [writer EXCEPT ![w].pc = "wait"]
  /\ UNCHANGED store

\* The database (external) commits or discards an insert, in any order.
Settle(i, state) ==
  /\ rows[i].state = "open"
  /\ rows' = [rows EXCEPT ![i].state = state]
  /\ UNCHANGED <<store, writer>>

\* append returns: the insert is settled, or the connection failed or the
\* caller was dropped before that.  record_audit only logs an error.
Return(w) ==
  /\ writer[w].pc \in {"lock", "insert", "wait"}
  /\ writer' = [writer EXCEPT ![w] = Quiet]
  /\ UNCHANGED <<store, rows>>

Next ==
  \/ \E w \in Writer, e \in Entry : AwaitLock(w, e) \/ ReadTip(w, e)
  \/ \E w \in Writer : AppendLocked(w) \/ Insert(w) \/ Return(w)
  \/ \E i \in DOMAIN rows, state \in {"committed", "void"} : Settle(i, state)

Spec == Init /\ [][Next]_vars

-----------------------------------------------------------------------------
\* Every variable keeps its type, and each row carries the hash of its fields.
TypeOK ==
  /\ store \in {"memory", "postgres"}
  /\ DOMAIN rows = 1..Len(rows)
  /\ \A i \in DOMAIN rows : \E e \in Entry, state \in {"open", "committed", "void"} :
       rows[i] = Row(e, rows[i].prev, state)
  /\ \A w \in Writer :
       /\ writer[w].pc \in {"idle", "lock", "insert", "wait"}
       /\ writer[w].pc # "idle" => writer[w].entry \in Entry

\* p is the hash of a committed row with an id of at most n, or Genesis.
Known(p, n) == p = Genesis \/ \E j \in Committed : j <= n /\ rows[j].hash = p

\* Appends may overlap and fork the log, but a persisted row never links to one
\* that was discarded or comes later: append reads committed tips only, and its
\* id is handed out after that read.
LinksBackwards == \A i \in Committed : Known(rows[i].prev, i - 1)

\* "Identical linkage semantics": in the log of either store each persisted row
\* links to the persisted row before it.  Appends of PostgresAuditStore that
\* overlap break it.
LinearChain ==
  \A i, j \in Committed :
    i < j /\ (\A k \in Committed : k <= i \/ j <= k) => rows[j].prev = rows[i].hash

\* The log of the in-memory store as the chain of its entries.  Appends of
\* PostgresAuditStore are not claimed to form one.
Fields(r) == [entry |-> r.entry, prev |-> r.prev, hash |-> r.hash]
ChainOf == IF store = "memory" THEN [i \in DOMAIN rows |-> Fields(rows[i])] ELSE <<>>

Chain == INSTANCE AuditChain WITH log <- ChainOf

\* In the in-memory store the rows, in id order, are one hash chain that only
\* grows at its tip, however many callers wait for its mutex or give up.
ImplementsChain == Chain!Spec

=============================================================================
