--------------------------- MODULE AuditLogProofs ---------------------------
(***************************************************************************)
(* The audit log of either store, for any number of writers, entries and   *)
(* rows: a persisted row links to an earlier persisted one, and the        *)
(* in-memory store implements AuditChain.                                  *)
(***************************************************************************)
EXTENDS AuditLog, TLAPS, WellFoundedInduction

Pcs == {"idle", "lock", "insert", "wait"}

\* The log is a sequence and every writer's record has its fields.
Shape ==
  /\ \E S : rows \in Seq(S)
  /\ writer = [w \in Writer |-> writer[w]]
  /\ \A w \in Writer : \E pc \in Pcs : \E e, prev :
       writer[w] = [pc |-> pc, entry |-> e, prev |-> prev]

\* Any row, committed or not, links to a committed one before it, and so will
\* the row of a writer that has read the tip.
Links ==
  /\ \A i \in DOMAIN rows : Known(rows[i].prev, i - 1)
  /\ \A w \in Writer : writer[w].pc = "insert" => Known(writer[w].prev, Len(rows))

IInv == TypeOK /\ Shape /\ Links

-----------------------------------------------------------------------------
\* A bounded set of positions has a last one.
LEMMA MaxExists ==
  ASSUME NEW n \in Nat, NEW S \in SUBSET (1..n), S # {}
  PROVE  \E i \in S : \A j \in S : j <= i
<1> DEFINE T == {n - i : i \in S}
           R == OpToRel(<, Nat)
<1>1. T \subseteq Nat /\ T # {}
  <2>1. \A i \in S : n - i \in Nat
    OBVIOUS
  <2>2. PICK i \in S : TRUE
    BY Zenon
  <2>3. n - i \in T
    OBVIOUS
  <2> QED
    BY <2>1, <2>3
<1>2. IsWellFoundedOn(R, Nat)
  BY NatLessThanWellFounded
<1>4. \A x, y \in Nat : y < x => <<y, x>> \in R
  BY DEF OpToRel
<1> HIDE DEF T, R
<1>3. PICK x \in T : \A y \in T : ~(<<y, x>> \in R)
  BY Zenon, <1>1, <1>2, WFMin
<1>5. PICK i \in S : x = n - i
  BY DEF T
<1>6. ASSUME NEW j \in S PROVE j <= i
  <2>1. n - j \in T
    BY DEF T
  <2>2. ~(n - j < n - i)
    BY Zenon, <2>1, <1>1, <1>3, <1>4, <1>5
  <2> QED
    BY <2>2
<1> QED
  BY <1>6

\* Appending a row of any kind.
LEMMA AppendEffect ==
  ASSUME NEW S, NEW s \in Seq(S), NEW e
  PROVE  /\ \E T : Append(s, e) \in Seq(T)
         /\ Len(s) \in Nat /\ Len(Append(s, e)) = Len(s) + 1
         /\ DOMAIN s = 1..Len(s) /\ DOMAIN Append(s, e) = 1..(Len(s) + 1)
         /\ \A i \in DOMAIN s : Append(s, e)[i] = s[i]
         /\ Append(s, e)[Len(s) + 1] = e
<1> DEFINE T == S \cup {e}
<1>1. s \in Seq(T) /\ e \in T
  OBVIOUS
<1> HIDE DEF T
<1>2. Append(s, e) \in Seq(T)
  BY <1>1
<1> QED
  BY <1>1, <1>2

\* The fields of a row.
LEMMA RowFields ==
  ASSUME NEW e, NEW prev, NEW state
  PROVE  /\ Row(e, prev, state).prev = prev /\ Row(e, prev, state).state = state
         /\ Row(e, prev, state).hash = EntryHash(e, prev)
  BY DEF Row

\* A replaced writer.
LEMMA WriterEffect ==
  ASSUME Shape, NEW w \in Writer, NEW r, writer' = [writer EXCEPT ![w] = r]
  PROVE  /\ writer' = [v \in Writer |-> writer'[v]]
         /\ writer'[w] = r
         /\ \A v \in Writer : v # w => writer'[v] = writer[v]
  BY DEF Shape

\* The tip that latest_hash reads is that of a committed row.
LEMMA LatestKnown ==
  ASSUME Shape
  PROVE  Known(LatestHash, Len(rows))
<1>1. PICK S : rows \in Seq(S)
  BY DEF Shape
<1>2. DOMAIN rows = 1..Len(rows) /\ Len(rows) \in Nat
  BY <1>1
<1>3. CASE Committed = {}
  BY <1>3 DEF LatestHash, Known
<1>4. CASE Committed # {}
  <2>1. Committed \in SUBSET (1..Len(rows))
    BY <1>2 DEF Committed
  <2>2. \E i \in Committed : \A j \in Committed : j <= i
    BY Zenon, <1>2, <1>4, <2>1, MaxExists
  <2>3. Newest(Committed) \in Committed
    BY <2>2 DEF Newest
  <2>5. \A i \in Committed : i <= Len(rows)
    BY <1>2, <2>1
  <2>4. Newest(Committed) <= Len(rows)
    BY <2>5, <2>3
  <2> QED
    BY <1>4, <2>3, <2>4 DEF LatestHash, Known
<1> QED
  BY <1>3, <1>4

-----------------------------------------------------------------------------
\* What a step may do to the log: rows stay where they are, and their links and
\* hashes too; a committed row stays committed.
Kept ==
  /\ Len(rows) \in Nat /\ Len(rows') \in Nat /\ Len(rows) <= Len(rows')
  /\ DOMAIN rows = 1..Len(rows) /\ DOMAIN rows' = 1..Len(rows')
  /\ \A i \in DOMAIN rows :
       /\ rows'[i].prev = rows[i].prev /\ rows'[i].hash = rows[i].hash
       /\ rows[i].state = "committed" => rows'[i].state = "committed"

\* Known in the log after the step.
KnownNext(p, n) == p = Genesis \/ \E j \in Committed' : j <= n /\ rows'[j].hash = p

\* A committed row stays committed, so what is known stays known.
LEMMA KnownStays ==
  ASSUME Kept
  PROVE  \A p : \A n, m \in Nat : n <= m /\ Known(p, n) => KnownNext(p, m)
<1>1. \A j \in Committed : j \in Committed' /\ rows'[j].hash = rows[j].hash /\ j \in Nat
  BY DEF Kept, Committed
<1>2. SUFFICES ASSUME NEW p, NEW n \in Nat, NEW m \in Nat, n <= m, Known(p, n), p # Genesis
               PROVE  \E j \in Committed' : j <= m /\ rows'[j].hash = p
  BY DEF KnownNext
<1>3. PICK j \in Committed : j <= n /\ rows[j].hash = p
  BY <1>2 DEF Known
<1>4. j <= m
  BY <1>1, <1>2, <1>3
<1> QED
  BY <1>1, <1>3, <1>4

\* The links after a step that keeps the log.
LEMMA LinksStay ==
  ASSUME Kept, Links,
         \A i \in DOMAIN rows' : i \notin DOMAIN rows => KnownNext(rows'[i].prev, i - 1),
         \A w \in Writer : writer'[w].pc = "insert" =>
           (writer'[w] = writer[w] \/ KnownNext(writer'[w].prev, Len(rows')))
  PROVE  Links'
<1>1. \A i \in DOMAIN rows' : KnownNext(rows'[i].prev, i - 1)
  <2>1. SUFFICES ASSUME NEW i \in DOMAIN rows' PROVE KnownNext(rows'[i].prev, i - 1)
    OBVIOUS
  <2>2. CASE i \in DOMAIN rows
    <3>1. Known(rows[i].prev, i - 1) /\ rows'[i].prev = rows[i].prev /\ i - 1 \in Nat
          /\ i - 1 <= i - 1
      BY <2>2 DEF Links, Kept
    <3> QED
      BY <3>1, KnownStays
  <2> QED
    BY <2>2
<1>2. \A w \in Writer : writer'[w].pc = "insert" => KnownNext(writer'[w].prev, Len(rows'))
  <2>1. SUFFICES ASSUME NEW w \in Writer, writer'[w].pc = "insert", writer'[w] = writer[w]
                 PROVE  KnownNext(writer'[w].prev, Len(rows'))
    OBVIOUS
  <2>2. Known(writer[w].prev, Len(rows)) /\ Len(rows) \in Nat /\ Len(rows') \in Nat
        /\ Len(rows) <= Len(rows')
    BY <2>1 DEF Links, Kept
  <2> QED
    BY <2>1, <2>2, KnownStays
<1> QED
  BY <1>1, <1>2 DEF Links, Known, KnownNext

-----------------------------------------------------------------------------
\* The log part of TypeOK and Shape.
LogOK ==
  /\ \E S : rows \in Seq(S)
  /\ DOMAIN rows = 1..Len(rows)
  /\ \A i \in DOMAIN rows : \E e \in Entry, state \in {"open", "committed", "void"} :
       rows[i] = Row(e, rows[i].prev, state)

\* The writers' part.
RecordOK(r) ==
  \E pc \in Pcs : \E e, prev :
    r = [pc |-> pc, entry |-> e, prev |-> prev] /\ (pc # "idle" => e \in Entry)

WritersOK ==
  /\ writer = [w \in Writer |-> writer[w]]
  /\ \A w \in Writer : RecordOK(writer[w])

\* TypeOK and Shape are these two parts.
LEMMA Parts ==
  TypeOK /\ Shape <=> store \in {"memory", "postgres"} /\ LogOK /\ WritersOK
<1>1. TypeOK /\ Shape => LogOK
  BY DEF TypeOK, Shape, LogOK
<1>2. TypeOK /\ Shape => WritersOK
  BY DEF TypeOK, Shape, WritersOK, RecordOK
<1>3. WritersOK => \A w \in Writer :
        writer[w].pc \in Pcs /\ (writer[w].pc # "idle" => writer[w].entry \in Entry)
  <2>1. ASSUME NEW r, RecordOK(r)
        PROVE  r.pc \in Pcs /\ (r.pc # "idle" => r.entry \in Entry)
    BY <2>1 DEF RecordOK
  <2> QED
    BY <2>1 DEF WritersOK
<1>4. store \in {"memory", "postgres"} /\ LogOK /\ WritersOK => TypeOK
  BY <1>3 DEF LogOK, TypeOK, Pcs
<1>5. LogOK /\ WritersOK => Shape
  BY DEF LogOK, WritersOK, RecordOK, Shape
<1> QED
  BY <1>1, <1>2, <1>4, <1>5 DEF TypeOK

\* The same in the next state.
LEMMA PartsNext ==
  (TypeOK /\ Shape <=> store \in {"memory", "postgres"} /\ LogOK /\ WritersOK)'
  BY Parts, PTL

\* A step that replaces the record of one writer.
LEMMA WriterStep ==
  ASSUME WritersOK, NEW w \in Writer, NEW pc \in Pcs, NEW e, NEW prev,
         pc # "idle" => e \in Entry,
         writer' = [writer EXCEPT ![w] = [pc |-> pc, entry |-> e, prev |-> prev]]
  PROVE  /\ WritersOK'
         /\ writer'[w].pc = pc /\ writer'[w].prev = prev
         /\ \A v \in Writer : v # w => writer'[v] = writer[v]
<1> DEFINE r == [pc |-> pc, entry |-> e, prev |-> prev]
<1>1. r.pc = pc /\ r.prev = prev
  OBVIOUS
<1>2. RecordOK(r)
  BY Zenon DEF RecordOK
<1>3. writer' = [writer EXCEPT ![w] = r]
  OBVIOUS
<1> HIDE DEF r
<1>4. /\ writer' = [v \in Writer |-> writer'[v]]
      /\ writer'[w] = r
      /\ \A v \in Writer : v # w => writer'[v] = writer[v]
  BY <1>3 DEF WritersOK
<1>5. \A v \in Writer : RecordOK(writer'[v])
  BY <1>2, <1>4 DEF WritersOK
<1>6. WritersOK'
  BY Zenon, <1>4, <1>5 DEF WritersOK, RecordOK
<1> QED
  BY <1>1, <1>4, <1>6

\* A step that appends a row linked to what is known.
LEMMA AppendStep ==
  ASSUME LogOK, NEW e \in Entry, NEW prev, NEW state \in {"open", "committed", "void"},
         Known(prev, Len(rows)), rows' = Append(rows, Row(e, prev, state))
  PROVE  /\ LogOK' /\ Kept
         /\ \A i \in DOMAIN rows' : i \notin DOMAIN rows => KnownNext(rows'[i].prev, i - 1)
<1> DEFINE r == Row(e, prev, state)
<1>1. r.prev = prev /\ r = Row(e, r.prev, state)
  BY RowFields
<1>2. rows' = Append(rows, r)
  OBVIOUS
<1> HIDE DEF r
<1>3. /\ \E T : rows' \in Seq(T)
      /\ Len(rows) \in Nat /\ Len(rows') = Len(rows) + 1
      /\ DOMAIN rows = 1..Len(rows) /\ DOMAIN rows' = 1..(Len(rows) + 1)
      /\ \A i \in DOMAIN rows : rows'[i] = rows[i]
      /\ rows'[Len(rows) + 1] = r
  BY <1>2, AppendEffect DEF LogOK
<1>4. Kept
  BY <1>3 DEF Kept
<1>5. \A i \in DOMAIN rows' : i \in DOMAIN rows \/ i = Len(rows) + 1
  BY <1>3
<1>6. \A i \in DOMAIN rows' : \E en \in Entry, s \in {"open", "committed", "void"} :
        rows'[i] = Row(en, rows'[i].prev, s)
  BY <1>1, <1>3, <1>5 DEF LogOK
<1>7. LogOK'
  <2>1. DOMAIN rows' = 1..Len(rows')
    BY <1>3
  <2> QED
    BY <1>3, <1>6, <2>1 DEF LogOK
<1>8. KnownNext(prev, Len(rows))
  <2>1. Len(rows) <= Len(rows) /\ Len(rows) \in Nat
    BY <1>3
  <2> QED
    BY <1>4, <2>1, KnownStays
<1>9. Len(rows) + 1 - 1 = Len(rows)
  BY <1>3
<1> QED
  BY <1>1, <1>3, <1>4, <1>5, <1>7, <1>8, <1>9

-----------------------------------------------------------------------------
\* Before the first append there are no rows and no writers in append.
LEMMA Initially == Init => IInv
<1> SUFFICES ASSUME Init PROVE IInv
  OBVIOUS
<1>1. rows \in Seq({}) /\ DOMAIN rows = 1..Len(rows) /\ DOMAIN rows = {}
  BY DEF Init
<1>2. LogOK
  <2>1. \E S : rows \in Seq(S)
    BY <1>1
  <2> QED
    BY <1>1, <2>1 DEF LogOK
<1>3. RecordOK(Quiet) /\ Quiet.pc # "insert"
  BY Zenon DEF RecordOK, Quiet, Pcs
<1>4. WritersOK /\ \A w \in Writer : writer[w].pc # "insert"
  BY <1>3 DEF WritersOK, Init
<1>5. Links
  BY <1>1, <1>4 DEF Links
<1> QED
  BY <1>2, <1>4, <1>5, Parts DEF IInv, Init

\* A step that leaves the log alone and gives one writer a new record.
LEMMA WriterOnly ==
  ASSUME IInv, NEW w \in Writer, NEW pc \in Pcs, NEW e, NEW prev,
         pc # "idle" => e \in Entry,
         pc = "insert" => Known(prev, Len(rows)),
         writer' = [writer EXCEPT ![w] = [pc |-> pc, entry |-> e, prev |-> prev]],
         UNCHANGED <<store, rows>>
  PROVE  IInv'
<1>1. LogOK /\ WritersOK /\ store \in {"memory", "postgres"} /\ Links
  BY Parts DEF IInv
<1>2. LogOK'
  BY <1>1 DEF LogOK
<1>3. /\ WritersOK'
      /\ writer'[w].pc = pc /\ writer'[w].prev = prev
      /\ \A v \in Writer : v # w => writer'[v] = writer[v]
  BY Zenon, <1>1, WriterStep
<1>4. Kept
  <2>1. Len(rows) \in Nat
    BY <1>1 DEF LogOK
  <2> QED
    BY <1>1, <2>1 DEF Kept, LogOK
<1>5. pc = "insert" => KnownNext(prev, Len(rows'))
  <2>1. Len(rows) \in Nat /\ Len(rows) <= Len(rows) /\ Len(rows') = Len(rows)
    BY <1>4 DEF Kept
  <2> QED
    BY <1>4, <2>1, KnownStays
<1>6. Links'
  BY <1>1, <1>3, <1>4, <1>5, LinksStay
<1> QED
  BY <1>1, <1>2, <1>3, <1>6, PartsNext DEF IInv

\* A step that appends a known link and takes the writer out of "insert".
LEMMA AppendOnly ==
  ASSUME IInv, NEW w \in Writer, NEW pc \in Pcs \ {"insert"}, NEW e, NEW prev,
         pc # "idle" => e \in Entry,
         writer' = [writer EXCEPT ![w] = [pc |-> pc, entry |-> e, prev |-> prev]],
         NEW f \in Entry, NEW q, NEW state \in {"open", "committed", "void"},
         Known(q, Len(rows)), rows' = Append(rows, Row(f, q, state)),
         UNCHANGED store
  PROVE  IInv'
<1>1. LogOK /\ WritersOK /\ store \in {"memory", "postgres"} /\ Links
  BY Parts DEF IInv
<1>2. /\ LogOK' /\ Kept
      /\ \A i \in DOMAIN rows' : i \notin DOMAIN rows => KnownNext(rows'[i].prev, i - 1)
  BY <1>1, AppendStep
<1>3. /\ WritersOK'
      /\ writer'[w].pc = pc
      /\ \A v \in Writer : v # w => writer'[v] = writer[v]
  BY Zenon, <1>1, WriterStep
<1>4. Links'
  BY <1>1, <1>2, <1>3, LinksStay
<1> QED
  BY <1>1, <1>2, <1>3, <1>4, PartsNext DEF IInv

\* Every step of a writer or of the database keeps the invariant.
LEMMA Inductive == IInv /\ [Next]_vars => IInv'
<1> SUFFICES ASSUME IInv, [Next]_vars PROVE IInv'
  OBVIOUS
<1>1. /\ LogOK /\ WritersOK /\ store \in {"memory", "postgres"} /\ Links /\ Shape
      /\ Known(LatestHash, Len(rows))
  BY Parts, LatestKnown DEF IInv
<1>2. ASSUME NEW w \in Writer, NEW e \in Entry, AwaitLock(w, e) PROVE IInv'
  <2>1. writer' = [writer EXCEPT ![w] = [pc |-> "lock", entry |-> e, prev |-> Genesis]]
    BY <1>2 DEF AwaitLock
  <2>2. "lock" \in Pcs /\ UNCHANGED <<store, rows>>
    BY <1>2 DEF AwaitLock, Pcs
  <2> QED
    BY Zenon, <2>1, <2>2, WriterOnly
<1>3. ASSUME NEW w \in Writer, NEW e \in Entry, ReadTip(w, e) PROVE IInv'
  <2>1. writer' = [writer EXCEPT ![w] = [pc |-> "insert", entry |-> e, prev |-> LatestHash]]
    BY <1>3 DEF ReadTip
  <2>2. "insert" \in Pcs /\ UNCHANGED <<store, rows>>
    BY <1>3 DEF ReadTip, Pcs
  <2> QED
    BY Zenon, <1>1, <2>1, <2>2, WriterOnly
<1>4. ASSUME NEW w \in Writer, Return(w) PROVE IInv'
  <2>1. writer' = [writer EXCEPT ![w] =
                     [pc |-> "idle", entry |-> NoEntry, prev |-> Genesis]]
    BY <1>4 DEF Return, Quiet
  <2>2. "idle" \in Pcs /\ UNCHANGED <<store, rows>>
    BY <1>4 DEF Return, Pcs
  <2> QED
    BY Zenon, <2>1, <2>2, WriterOnly
<1>5. ASSUME NEW w \in Writer, AppendLocked(w) PROVE IInv'
  <2>1. writer' = [writer EXCEPT ![w] =
                     [pc |-> "idle", entry |-> NoEntry, prev |-> Genesis]]
    BY <1>5 DEF AppendLocked, Quiet
  <2>2. "idle" \in Pcs \ {"insert"} /\ UNCHANGED store
        /\ rows' = Append(rows, Row(writer[w].entry, LatestHash, "committed"))
    BY <1>5 DEF AppendLocked, Pcs
  <2>3. writer[w].entry \in Entry
    BY <1>5 DEF IInv, TypeOK, AppendLocked
  <2> QED
    BY Zenon, <1>1, <2>1, <2>2, <2>3, AppendOnly
<1>6. ASSUME NEW w \in Writer, Insert(w) PROVE IInv'
  <2>0. PICK pc \in Pcs : \E e, prev : writer[w] = [pc |-> pc, entry |-> e, prev |-> prev]
    BY <1>1 DEF Shape
  <2>1. PICK e, prev : writer[w] = [pc |-> pc, entry |-> e, prev |-> prev]
    BY Zenon, <2>0
  <2>2. writer' = [writer EXCEPT ![w] = [pc |-> "wait", entry |-> e, prev |-> prev]]
    <3>1. [writer[w] EXCEPT !.pc = "wait"] = [pc |-> "wait", entry |-> e, prev |-> prev]
      BY <2>1
    <3> QED
      BY Zenon, <1>6, <3>1 DEF Insert
  <2>3. e \in Entry /\ Known(prev, Len(rows))
    BY <1>1, <1>6, <2>1 DEF IInv, TypeOK, Links, Insert
  <2>4. "wait" \in Pcs \ {"insert"} /\ UNCHANGED store
        /\ rows' = Append(rows, Row(e, prev, "open"))
    BY <1>6, <2>1 DEF Insert, Pcs
  <2> QED
    BY Zenon, <2>2, <2>3, <2>4, AppendOnly
<1>7. ASSUME NEW i \in DOMAIN rows, NEW state \in {"committed", "void"}, Settle(i, state)
      PROVE  IInv'
  <2>1. PICK S : rows \in Seq(S)
    BY <1>1 DEF LogOK
  <2>2. PICK e \in Entry, s \in {"open", "committed", "void"} :
          rows[i] = Row(e, rows[i].prev, s)
    BY <1>1 DEF LogOK
  <2> DEFINE r == Row(e, rows[i].prev, state)
  <2>3. [rows[i] EXCEPT !.state = state] = r
    <3>1. ASSUME NEW p PROVE [Row(e, p, s) EXCEPT !.state = state] = Row(e, p, state)
      BY DEF Row
    <3> QED
      BY <2>2, <3>1
  <2>4. rows' = [rows EXCEPT ![i] = r]
    BY Zenon, <1>7, <2>3 DEF Settle
  <2>5. r.prev = rows[i].prev /\ r.hash = rows[i].hash /\ r = Row(e, r.prev, state)
    BY <2>2, RowFields
  <2> HIDE DEF r
  <2>6. /\ \E T : rows' \in Seq(T)
        /\ Len(rows') = Len(rows) /\ Len(rows) \in Nat /\ DOMAIN rows = 1..Len(rows)
        /\ DOMAIN rows' = DOMAIN rows
        /\ rows'[i] = r /\ \A j \in DOMAIN rows : j # i => rows'[j] = rows[j]
    <3> DEFINE T == S \cup {r}
    <3>1. rows \in Seq(T) /\ r \in T
      BY <2>1
    <3> HIDE DEF T
    <3>2. rows' \in Seq(T) /\ Len(rows') = Len(rows) /\ DOMAIN rows' = DOMAIN rows
      BY <2>4, <3>1
    <3> QED
      BY <2>1, <2>4, <3>2
  <2>7. Kept
    <3>1. rows[i].state = "open"
      BY <1>7 DEF Settle
    <3> QED
      BY <2>5, <2>6, <3>1 DEF Kept
  <2>8. \A j \in DOMAIN rows' : \E en \in Entry, sn \in {"open", "committed", "void"} :
          rows'[j] = Row(en, rows'[j].prev, sn)
    BY <1>1, <2>5, <2>6 DEF LogOK
  <2>9. LogOK'
    BY <2>6, <2>8 DEF LogOK
  <2>10. UNCHANGED <<store, writer>>
    BY <1>7 DEF Settle
  <2>11. WritersOK'
    BY <1>1, <2>10 DEF WritersOK, RecordOK
  <2>12. Links'
    BY <1>1, <2>6, <2>7, <2>10, LinksStay
  <2> QED
    BY <1>1, <2>9, <2>10, <2>11, <2>12, PartsNext DEF IInv
<1>8. CASE UNCHANGED vars
  BY <1>8 DEF vars, IInv, TypeOK, Shape, Links, Known, Committed
<1> QED
  BY <1>2, <1>3, <1>4, <1>5, <1>6, <1>7, <1>8 DEF Next

\* Every variable keeps its type, and each row of either store carries the hash
\* of its fields.
THEOREM AuditTypeCorrect == Spec => []TypeOK
<1>1. IInv => TypeOK
  BY DEF IInv
<1> QED
  BY <1>1, Initially, Inductive, PTL DEF Spec

\* However many writers overlap, and whichever inserts the database discards, a
\* persisted row links to a persisted row with a smaller id or is a first one.
THEOREM LinksSound == Spec => []LinksBackwards
<1>1. IInv => LinksBackwards
  BY DEF IInv, Links, LinksBackwards, Committed
<1> QED
  BY <1>1, Initially, Inductive, PTL DEF Spec

-----------------------------------------------------------------------------
(* The in-memory store.  A caller waits for the mutex or is done, so every *)
(* row is committed and the tip that append links to is the last row.      *)

MemoryOnly ==
  /\ store = "memory" =>
       /\ \A i \in DOMAIN rows : rows[i].state = "committed"
       /\ \A w \in Writer : writer[w].pc \notin {"insert", "wait"}
  /\ \A w \in Writer : writer[w].pc = "lock" => store = "memory"

\* No step leaves the in-memory discipline.
LEMMA MemoryNext == IInv /\ MemoryOnly /\ [Next]_vars => MemoryOnly'
<1> SUFFICES ASSUME IInv, MemoryOnly, [Next]_vars PROVE MemoryOnly'
  OBVIOUS
<1>0. Shape /\ store' = store
  BY DEF IInv, Next, AwaitLock, ReadTip, AppendLocked, Insert, Return, Settle, vars
<1>1. ASSUME rows' = rows, NEW w \in Writer, NEW r, writer' = [writer EXCEPT ![w] = r],
             store = "memory" => r.pc \notin {"insert", "wait"},
             r.pc = "lock" => store = "memory"
      PROVE  MemoryOnly'
  BY <1>0, <1>1, WriterEffect DEF MemoryOnly
<1>2. ASSUME NEW w \in Writer, NEW e \in Entry, AwaitLock(w, e) PROVE MemoryOnly'
  <2> DEFINE r == [pc |-> "lock", entry |-> e, prev |-> Genesis]
  <2>1. writer' = [writer EXCEPT ![w] = r] /\ r.pc = "lock" /\ rows' = rows /\ store = "memory"
    BY <1>2 DEF AwaitLock
  <2> HIDE DEF r
  <2> QED BY Zenon, <1>1, <2>1
<1>3. ASSUME NEW w \in Writer, NEW e \in Entry, ReadTip(w, e) PROVE MemoryOnly'
  <2> DEFINE r == [pc |-> "insert", entry |-> e, prev |-> LatestHash]
  <2>1. writer' = [writer EXCEPT ![w] = r] /\ r.pc = "insert" /\ rows' = rows
        /\ store = "postgres"
    BY <1>3 DEF ReadTip
  <2> HIDE DEF r
  <2> QED BY Zenon, <1>1, <2>1
<1>4. ASSUME NEW w \in Writer, Return(w) PROVE MemoryOnly'
  <2>1. writer' = [writer EXCEPT ![w] = Quiet] /\ Quiet.pc = "idle" /\ rows' = rows
    BY <1>4 DEF Return, Quiet
  <2> QED BY Zenon, <1>1, <2>1
<1>5. ASSUME NEW w \in Writer, AppendLocked(w) PROVE MemoryOnly'
  <2>1. PICK S : rows \in Seq(S)
    BY <1>0 DEF Shape
  <2>2. Quiet.pc = "idle" /\ writer'[w] = Quiet /\ \A v \in Writer : v # w => writer'[v] = writer[v]
    BY Zenon, <1>0, <1>5, WriterEffect DEF AppendLocked, Quiet
  <2> DEFINE r == Row(writer[w].entry, LatestHash, "committed")
  <2>3. r.state = "committed" /\ rows' = Append(rows, r)
    BY <1>5, RowFields DEF AppendLocked
  <2> HIDE DEF r
  <2>4. \A i \in DOMAIN rows' : (i \in DOMAIN rows /\ rows'[i] = rows[i]) \/ rows'[i] = r
    BY <2>1, <2>3, AppendEffect
  <2> QED BY <1>0, <2>2, <2>3, <2>4 DEF MemoryOnly
<1>6. ASSUME NEW w \in Writer, Insert(w) PROVE MemoryOnly'
  <2>1. store # "memory"
    BY <1>6 DEF Insert, MemoryOnly
  <2>2. \A v \in Writer : v # w => writer'[v] = writer[v]
    BY <1>0, <1>6, WriterEffect DEF Insert
  <2>3. writer'[w].pc = "wait"
    <3>1. PICK pc \in Pcs : \E e, prev : writer[w] = [pc |-> pc, entry |-> e, prev |-> prev]
      BY <1>0 DEF Shape
    <3>2. PICK e, prev : writer[w] = [pc |-> pc, entry |-> e, prev |-> prev]
      BY Zenon, <3>1
    <3>3. [writer[w] EXCEPT !.pc = "wait"].pc = "wait"
      BY <3>2
    <3> QED BY Zenon, <1>0, <1>6, <3>3, WriterEffect DEF Insert
  <2> QED BY <1>0, <2>1, <2>2, <2>3 DEF MemoryOnly
<1>7. ASSUME NEW i \in DOMAIN rows, NEW state, Settle(i, state) PROVE MemoryOnly'
  <2>1. rows[i].state = "open" /\ writer' = writer
    BY <1>7 DEF Settle
  <2>2. store # "memory"
    BY <2>1 DEF MemoryOnly
  <2> QED BY <1>0, <2>1, <2>2 DEF MemoryOnly
<1>8. CASE UNCHANGED vars
  BY <1>8 DEF vars, MemoryOnly
<1> QED
  BY <1>2, <1>3, <1>4, <1>5, <1>6, <1>7, <1>8 DEF Next

\* In the in-memory store the newest committed row is the last one.
LEMMA MemoryTip ==
  ASSUME Shape, MemoryOnly, store = "memory"
  PROVE  LatestHash = Chain!TipHash
<1>1. PICK S : rows \in Seq(S)
  BY DEF Shape
<1>2. Len(rows) \in Nat /\ DOMAIN rows = 1..Len(rows) /\ Committed = DOMAIN rows
  BY <1>1 DEF MemoryOnly, Committed
<1>3. CASE rows = <<>>
  <2>1. Committed = {}
    BY <1>2, <1>3
  <2>2. ChainOf = <<>>
    BY <1>3 DEF ChainOf
  <2> QED BY <2>1, <2>2 DEF LatestHash, Chain!TipHash
<1>4. CASE rows # <<>>
  <2>1. Len(rows) \in Committed /\ \A j \in Committed : j <= Len(rows)
    BY <1>1, <1>2, <1>4
  <2>2. \A i \in Committed : (\A j \in Committed : j <= i) => i = Len(rows)
    BY <1>2, <2>1
  <2>3. Newest(Committed) = Len(rows)
    BY <2>1, <2>2 DEF Newest
  <2>4. LatestHash = rows[Len(rows)].hash
    BY <2>1, <2>3 DEF LatestHash
  <2>5. /\ ChainOf = [i \in 1..Len(rows) |-> Fields(rows[i])] /\ Len(ChainOf) = Len(rows)
        /\ ChainOf # <<>>
    BY <1>2, <2>1 DEF ChainOf
  <2>6. ChainOf[Len(ChainOf)] = Fields(rows[Len(rows)])
    BY <1>2, <2>1, <2>5
  <2> QED BY <2>4, <2>5, <2>6 DEF Chain!TipHash, Fields
<1> QED
  BY <1>3, <1>4

\* Appending under the mutex extends the chain at its tip.
LEMMA AppendExtends ==
  ASSUME IInv, MemoryOnly, NEW w \in Writer, AppendLocked(w)
  PROVE  Chain!Next
<1> DEFINE e == writer[w].entry
           r == Row(e, LatestHash, "committed")
<1>1. PICK S : rows \in Seq(S)
  BY DEF IInv, Shape
<1>2. store = "memory" /\ store' = "memory" /\ rows' = Append(rows, r) /\ e \in Entry
  BY DEF AppendLocked, MemoryOnly, IInv, TypeOK
<1>3. Fields(r) = Chain!Linked(e, Chain!TipHash)
  <2>1. \A p : Fields(Row(e, p, "committed")) = Chain!Linked(e, p)
    BY DEF Fields, Row, EntryHash, Chain!Linked
  <2> QED BY <1>2, <2>1, MemoryTip DEF IInv
<1> HIDE DEF r, e
<1>4. /\ Len(rows) \in Nat /\ DOMAIN rows = 1..Len(rows) /\ DOMAIN rows' = 1..(Len(rows) + 1)
      /\ \A i \in DOMAIN rows : rows'[i] = rows[i]
      /\ rows'[Len(rows) + 1] = r
  BY <1>1, <1>2, AppendEffect
<1>5. /\ ChainOf = [i \in 1..Len(rows) |-> Fields(rows[i])]
      /\ ChainOf' = [i \in 1..(Len(rows) + 1) |-> Fields(rows'[i])]
  BY <1>2, <1>4 DEF ChainOf, Fields
<1>6. ChainOf' = Append(ChainOf, Fields(r))
  <2> DEFINE A == ChainOf
             B == ChainOf'
             n == Len(rows)
             f == Fields(r)
             T == {A[i] : i \in 1..n} \cup {f}
  <2>1. A = [i \in 1..n |-> A[i]] /\ n \in Nat
    BY <1>4, <1>5
  <2>2. \A i \in 1..n : A[i] \in T
    OBVIOUS
  <2>3. B = [i \in 1..(n + 1) |-> IF i <= n THEN A[i] ELSE f]
    BY <1>4, <1>5
  <2>4. f \in T
    OBVIOUS
  <2> HIDE DEF A, B, n, f, T
  <2>5. A \in Seq(T) /\ Len(A) = n
    BY <2>1, <2>2
  <2>6. Append(A, f) = [i \in 1..(n + 1) |-> IF i <= n THEN A[i] ELSE f]
    BY <2>1, <2>4, <2>5
  <2>7. B = Append(A, f)
    BY <2>3, <2>6
  <2> QED BY <2>7 DEF A, B, f
<1> QED
  BY <1>2, <1>3, <1>6 DEF Chain!Next, Chain!Extend

\* However many callers wait for the mutex of the in-memory store or give up,
\* its log is one hash chain that only grows at its tip.
THEOREM ChainImplemented == Spec => ImplementsChain
<1>1. Init => MemoryOnly /\ Chain!Init
  BY DEF Init, MemoryOnly, Quiet, Chain!Init, ChainOf
<1>2. IInv /\ MemoryOnly /\ [Next]_vars => [Chain!Next]_ChainOf
  <2> SUFFICES ASSUME IInv, MemoryOnly, [Next]_vars PROVE Chain!Next \/ ChainOf' = ChainOf
    OBVIOUS
  <2>1. ASSUME UNCHANGED <<store, rows>> PROVE ChainOf' = ChainOf
    BY <2>1 DEF ChainOf, Fields
  <2>2. ASSUME store # "memory", UNCHANGED store PROVE ChainOf' = ChainOf
    BY <2>2 DEF ChainOf
  <2>3. ASSUME NEW w \in Writer, Insert(w) PROVE ChainOf' = ChainOf
    BY <2>2, <2>3 DEF Insert, MemoryOnly
  <2>4. ASSUME NEW i \in DOMAIN rows, NEW state, Settle(i, state) PROVE ChainOf' = ChainOf
    BY <2>2, <2>4 DEF Settle, MemoryOnly
  <2>5. ASSUME NEW w \in Writer, NEW e \in Entry, AwaitLock(w, e) \/ ReadTip(w, e)
        PROVE  ChainOf' = ChainOf
    BY <2>1, <2>5 DEF AwaitLock, ReadTip
  <2>6. ASSUME NEW w \in Writer, Return(w) PROVE ChainOf' = ChainOf
    BY <2>1, <2>6 DEF Return
  <2>7. CASE UNCHANGED vars
    BY <2>1, <2>7 DEF vars
  <2> QED
    BY <2>3, <2>4, <2>5, <2>6, <2>7, AppendExtends DEF Next
<1> QED
  BY <1>1, <1>2, Initially, Inductive, MemoryNext, PTL DEF Spec, ImplementsChain, Chain!Spec

=============================================================================
