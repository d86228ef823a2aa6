---------------------------- MODULE AgentMemory ----------------------------
(***************************************************************************)
(* The agent's memory (agent_memory.rs): a short-term conversation buffer, *)
(* a long-term store searched by cosine similarity and a list of episodes, *)
(* each behind a tokio RwLock, and an embedding provider that is asked     *)
(* over HTTP.  Several callers use it at once.  consolidate takes messages *)
(* out of the buffer, waits for an embedding and then stores the digest,   *)
(* holding the buffer's write lock all the way; remember_fact and recall   *)
(* wait for their embedding without a lock.  A caller may give up (drop    *)
(* its future) at any await.                                               *)
(*                                                                         *)
(* Messages are numbered in the order in which they entered the buffer.    *)
(* The text of a fact or a query is represented by its embedding, roles,   *)
(* tags, metadata and access times are left out.                           *)
(***************************************************************************)
EXTENDS Integers, Sequences, FiniteSets, Functions

CONSTANTS
    Callers,      \* tasks that share the AgentMemorySystem
    max_messages, \* size at which the buffer needs consolidation
    Keeps,        \* values of keep_recent the callers pass
    Limits,       \* values of limit the callers pass to recall
    MinScore,     \* min_score: the square of a cosine, as [num, den]
    Vectors,      \* embeddings the provider may answer
    VersionBit,   \* 2^52 in the code: the time bits below the version nibble
    MaxSaid, MaxEntries, MaxEpisodes, MaxRecalls, MaxNow  \* bounds for TLC

ASSUME MemoryAssumption ==
    /\ Keeps \subseteq Nat /\ Limits \subseteq Nat
    /\ max_messages \in Nat /\ VersionBit \in Nat \ {0}
    /\ MaxSaid \in Nat /\ MaxEntries \in Nat /\ MaxEpisodes \in Nat
    /\ MaxRecalls \in Nat /\ MaxNow \in Nat
    /\ IsFiniteSet(Callers) /\ Vectors \subseteq Seq(Int)

VARIABLES
    messages,  \* ShortTermMemory.messages
    queue,     \* callers at short_term.write(), its holder first
    entries,   \* LongTermMemory.entries
    episodes,  \* EpisodicMemory.episodes, by id
    call,      \* what each caller is doing
    now,       \* SystemTime, in nanoseconds
    said,      \* history: messages that ever entered the buffer
    lost,      \* history: messages of consolidations that did not finish
    cleared,   \* history: messages removed by clear
    recalled   \* history: how often recall has returned each entry

vars == <<messages, queue, entries, episodes, call, now,
          said, lost, cleared, recalled>>

MinOf(S) == CHOOSE x \in S : \A y \in S : x <= y

(***************************************************************************)
(* Similarity.  A cosine is kept as its signed square, a fraction: this    *)
(* orders scores as the code's quotient of roots does.                     *)
(***************************************************************************)
Total(f) ==
    LET sum[i \in 0..Len(f)] == IF i = 0 THEN 0 ELSE sum[i - 1] + f[i]
    IN  sum[Len(f)]

Dot(a, b) == Total([i \in 1..Len(a) |-> a[i] * b[i]])

cosine_similarity(a, b) ==
    IF Len(a) # Len(b) \/ Len(a) = 0
    THEN [num |-> 0, den |-> 1]
    ELSE LET dot == Dot(a, b)
             norms == Dot(a, a) * Dot(b, b)
         IN  IF norms = 0
             THEN [num |-> 0, den |-> 1]
             ELSE [num |-> IF dot < 0 THEN -(dot * dot) ELSE dot * dot,
                   den |-> norms]

AtLeast(s, t) == s.num * t.den >= t.num * s.den

\* Mutant of query: cut before it sorts.
queryUnsorted(vec, limit) ==
    LET hits == {i \in DOMAIN entries :
                    AtLeast(cosine_similarity(vec, entries[i].embedding), MinScore)}
        size == IF Cardinality(hits) < limit THEN Cardinality(hits) ELSE limit
    IN  [k \in 1..size |->
            CHOOSE i \in hits : Cardinality({j \in hits : j < i}) = k - 1]

\* The entries that match, best first, equal scores in order of insertion
\* (the sort is stable), cut to limit.
query(vec, limit) ==
    LET score == [i \in DOMAIN entries |->
                     cosine_similarity(vec, entries[i].embedding)]
        hits == {i \in DOMAIN entries : AtLeast(score[i], MinScore)}
        Before(i, j) == \/ ~AtLeast(score[j], score[i])
                        \/ AtLeast(score[i], score[j]) /\ i < j
        ranked == [i \in hits |-> 1 + Cardinality({j \in hits : Before(j, i)})]
        size == IF Cardinality(hits) < limit THEN Cardinality(hits) ELSE limit
    IN  [k \in 1..size |-> CHOOSE i \in hits : ranked[i] = k]

(***************************************************************************)
(* Identifiers: the current time, in which the four bits above VersionBit  *)
(* are replaced by the UUID version.                                       *)
(***************************************************************************)
uuid_v4_placeholder == <<now % VersionBit, now \div (16 * VersionBit)>>

\* The entry an id stands for: the first one that has it.
EntryOf(id) == MinOf({i \in DOMAIN entries : entries[i].id = id})

\* Mutant of touch_entry: it touches every entry that has the id.
touch_all(results) ==
    [k \in DOMAIN entries |->
        [entries[k] EXCEPT !.access_count = @ +
            Cardinality({r \in DOMAIN results : entries[results[r]].id = entries[k].id})]]

\* access_count after touch_entry for each result.
touch_entry(results) ==
    [k \in DOMAIN entries |->
        [entries[k] EXCEPT !.access_count = @ +
            Cardinality({r \in DOMAIN results : EntryOf(entries[results[r]].id) = k})]]

(***************************************************************************)
(* Calls.  pc: "idle", "short_term" (in queue), "embedding" (at the        *)
(* provider), "long_term" and "episodic" (at those stores' locks, which    *)
(* nobody holds across an await).  n is keep_recent or limit; digest is    *)
(* what a consolidation has taken out of the buffer.                       *)
(***************************************************************************)
Ops == {"none", "add_message", "clear", "consolidate", "remember_fact",
        "recall", "record_episode"}
Called(op, pc, n, id) == [op |-> op, pc |-> pc, n |-> n, digest |-> <<>>,
                          vec |-> <<>>, id |-> id]
NoCall == Called("none", "idle", 0, <<>>)

Pending(op) == Cardinality({c \in Callers : call[c].op = op})
Holds(c) == queue # <<>> /\ Head(queue) = c

\* The call leaves the queue of the buffer's lock, releasing it if held.
Leaves(c) ==
    queue' = IF c \notin Range(queue) THEN queue
             ELSE LET i == CHOOSE i \in DOMAIN queue : queue[i] = c
                  IN  [j \in 1..(Len(queue) - 1) |->
                          IF j < i THEN queue[j] ELSE queue[j + 1]]

\* The call returns, or is dropped, and frees the lock if it has it.
Return(c) == call' = [call EXCEPT ![c] = NoCall] /\ Leaves(c)

AskShortTerm(c, op, n) ==
    /\ call' = [call EXCEPT ![c] = Called(op, "short_term", n, <<>>)]
    /\ queue' = Append(queue, c)
    /\ UNCHANGED <<messages, entries, episodes, now, said, lost, cleared, recalled>>

\* add_message, and its push once the write lock is granted.
CallAddMessage(c) ==
    /\ call[c].pc = "idle"
    /\ said + Pending("add_message") < MaxSaid
    /\ AskShortTerm(c, "add_message", 0)

AddMessage(c) ==
    /\ call[c].op = "add_message" /\ Holds(c)
    /\ messages' = Append(messages, said + 1)
    /\ said' = said + 1
    /\ Return(c)
    /\ UNCHANGED <<entries, episodes, now, lost, cleared, recalled>>

\* clear, through the short_term accessor.
CallClear(c) == call[c].pc = "idle" /\ AskShortTerm(c, "clear", 0)

Clear(c) ==
    /\ call[c].op = "clear" /\ Holds(c)
    /\ messages' = <<>>
    /\ cleared' = cleared \union Range(messages)
    /\ Return(c)
    /\ UNCHANGED <<entries, episodes, now, said, lost, recalled>>

\* consolidate: with the lock granted, either there is nothing to do or the
\* older messages are taken out; the lock stays held during the embedding.
CallConsolidate(c) ==
    /\ call[c].pc = "idle"
    /\ Len(entries) + Pending("consolidate") + Pending("remember_fact") < MaxEntries
    /\ \E keep \in Keeps : AskShortTerm(c, "consolidate", keep)

NeedsConsolidation == Len(messages) >= max_messages

ConsolidateNothing(c) ==
    /\ call[c].op = "consolidate" /\ call[c].pc = "short_term" /\ Holds(c)
    /\ ~NeedsConsolidation \/ Len(messages) <= call[c].n
    /\ Return(c)
    /\ UNCHANGED <<messages, entries, episodes, now, said, lost, cleared, recalled>>

\* Mutants of TruncateOlder: the message at the split stays in the buffer too;
\* the lock is released before the embedding.
TruncateOverlapping(c) ==
    /\ call[c].op = "consolidate" /\ call[c].pc = "short_term" /\ Holds(c)
    /\ NeedsConsolidation /\ Len(messages) > call[c].n
    /\ LET split == Len(messages) - call[c].n
       IN  /\ call' = [call EXCEPT ![c] = [@ EXCEPT !.pc = "embedding",
                                                 !.digest = SubSeq(messages, 1, split)]]
           /\ messages' = SubSeq(messages, split, Len(messages))
    /\ UNCHANGED <<queue, entries, episodes, now, said, lost, cleared, recalled>>

TruncateUnlocked(c) ==
    /\ call[c].op = "consolidate" /\ call[c].pc = "short_term" /\ Holds(c)
    /\ NeedsConsolidation /\ Len(messages) > call[c].n
    /\ LET split == Len(messages) - call[c].n
       IN  /\ call' = [call EXCEPT ![c] = [@ EXCEPT !.pc = "embedding",
                                                 !.digest = SubSeq(messages, 1, split)]]
           /\ messages' = SubSeq(messages, split + 1, Len(messages))
    /\ Leaves(c)
    /\ UNCHANGED <<entries, episodes, now, said, lost, cleared, recalled>>

TruncateOlder(c) ==
    /\ call[c].op = "consolidate" /\ call[c].pc = "short_term" /\ Holds(c)
    /\ NeedsConsolidation /\ Len(messages) > call[c].n
    /\ LET split == Len(messages) - call[c].n
       IN  /\ call' = [call EXCEPT ![c] = [@ EXCEPT !.pc = "embedding",
                                                 !.digest = SubSeq(messages, 1, split)]]
           /\ messages' = SubSeq(messages, split + 1, Len(messages))
    /\ UNCHANGED <<queue, entries, episodes, now, said, lost, cleared, recalled>>

\* remember_fact and recall ask for their embedding first, without a lock.
CallRememberFact(c) ==
    /\ call[c].pc = "idle"
    /\ Len(entries) + Pending("consolidate") + Pending("remember_fact") < MaxEntries
    /\ call' = [call EXCEPT ![c] = Called("remember_fact", "embedding", 0, <<>>)]
    /\ UNCHANGED <<messages, queue, entries, episodes, now, said, lost, cleared, recalled>>

CallRecall(c) ==
    /\ call[c].pc = "idle"
    /\ \A i \in DOMAIN recalled : recalled[i] + Pending("recall") < MaxRecalls
    /\ \E limit \in Limits :
          call' = [call EXCEPT ![c] = Called("recall", "embedding", limit, <<>>)]
    /\ UNCHANGED <<messages, queue, entries, episodes, now, said, lost, cleared, recalled>>

\* The provider answers a vector, which need not have its dimension; the new
\* entry's id is taken before the long-term lock is.
EmbeddingAnswer(c) ==
    /\ call[c].pc = "embedding"
    /\ \E v \in Vectors :
          call' = [call EXCEPT ![c] = [@ EXCEPT !.pc = "long_term", !.vec = v,
                       !.id = IF call[c].op = "recall" THEN <<>>
                              ELSE uuid_v4_placeholder]]
    /\ UNCHANGED <<messages, queue, entries, episodes, now, said, lost, cleared, recalled>>

\* The request fails, is refused, or has no embedding in its answer.
EmbeddingFailed(c) ==
    /\ call[c].pc = "embedding"
    /\ lost' = lost \union Range(call[c].digest)
    /\ Return(c)
    /\ UNCHANGED <<messages, entries, episodes, now, said, cleared, recalled>>

\* The rest of remember_fact and of consolidate.
Insert(c) ==
    /\ call[c].op \in {"remember_fact", "consolidate"} /\ call[c].pc = "long_term"
    /\ entries' = Append(entries, [id |-> call[c].id, content |-> call[c].digest,
                                   embedding |-> call[c].vec, access_count |-> 1])
    /\ recalled' = Append(recalled, 0)
    /\ Return(c)
    /\ UNCHANGED <<messages, episodes, now, said, lost, cleared>>

\* The rest of recall, under the long-term write lock.
Recall(c) ==
    /\ call[c].op = "recall" /\ call[c].pc = "long_term"
    /\ LET results == query(call[c].vec, call[c].n)
       IN  /\ entries' = touch_entry(results)
           /\ recalled' = [i \in DOMAIN recalled |->
                              IF i \in Range(results) THEN recalled[i] + 1
                              ELSE recalled[i]]
    /\ Return(c)
    /\ UNCHANGED <<messages, episodes, now, said, lost, cleared>>

\* record_episode: the id, then the push under the lock.
CallRecordEpisode(c) ==
    /\ call[c].pc = "idle"
    /\ Len(episodes) + Pending("record_episode") < MaxEpisodes
    /\ call' = [call EXCEPT ![c] = Called("record_episode", "episodic", 0, uuid_v4_placeholder)]
    /\ UNCHANGED <<messages, queue, entries, episodes, now, said, lost, cleared, recalled>>

RecordEpisode(c) ==
    /\ call[c].pc = "episodic"
    /\ episodes' = Append(episodes, call[c].id)
    /\ Return(c)
    /\ UNCHANGED <<messages, entries, now, said, lost, cleared, recalled>>

\* Mutant of Drop: the lock stays with the dropped call.
DropKeepingLock(c) ==
    /\ call[c].pc # "idle"
    /\ lost' = lost \union Range(call[c].digest)
    /\ call' = [call EXCEPT ![c] = NoCall]
    /\ UNCHANGED <<messages, queue, entries, episodes, now, said, cleared, recalled>>

\* The caller drops the future at an await; the locks it holds are released.
Drop(c) ==
    /\ call[c].pc # "idle"
    /\ lost' = lost \union Range(call[c].digest)
    /\ Return(c)
    /\ UNCHANGED <<messages, entries, episodes, now, said, cleared, recalled>>

\* External: the clock.
Tick ==
    /\ now < MaxNow
    /\ now' = now + 1
    /\ UNCHANGED <<messages, queue, entries, episodes, call, said, lost, cleared, recalled>>

Init ==
    /\ messages = <<>> /\ queue = <<>> /\ entries = <<>> /\ episodes = <<>>
    /\ call = [c \in Callers |-> NoCall]
    /\ now = 0 /\ said = 0 /\ lost = {} /\ cleared = {} /\ recalled = <<>>

Calls(c) ==
    \/ CallAddMessage(c) \/ CallClear(c) \/ CallConsolidate(c)
    \/ CallRememberFact(c) \/ CallRecall(c) \/ CallRecordEpisode(c)

\* Steps of the calls that use the buffer, up to the release of its lock.
BufferStep(c) ==
    \/ AddMessage(c) \/ Clear(c) \/ ConsolidateNothing(c) \/ TruncateOlder(c)
    \/ Insert(c)

Next ==
    \/ \E c \in Callers :
          \/ Calls(c) \/ BufferStep(c) \/ Recall(c) \/ RecordEpisode(c)
          \/ EmbeddingAnswer(c) \/ EmbeddingFailed(c) \/ Drop(c)
    \/ Tick

Spec == Init /\ [][Next]_vars

\* The runtime polls a call whose lock is free.  Nothing bounds the wait for
\* the provider: the HTTP client has no timeout.
FairSpec == Spec /\ \A c \in Callers : WF_vars(BufferStep(c))

(***************************************************************************)
(* Properties.                                                             *)
(***************************************************************************)
Ids == {<<>>} \union ((0..MaxNow) \X (0..MaxNow))

\* Every variable keeps its type; the callers in the queue are those at the
\* buffer's lock and the one that consolidates, and only the first may have
\* taken messages out.
TypeOK ==
    /\ messages \in Seq(1..MaxSaid) /\ queue \in Seq(Callers)
    /\ DOMAIN recalled = DOMAIN entries
    /\ \A i \in DOMAIN entries :
          entries[i].id \in Ids /\ entries[i].content \in Seq(1..MaxSaid)
          /\ entries[i].embedding \in Vectors /\ entries[i].access_count \in Nat
    /\ episodes \in Seq(Ids)
    /\ \A c \in Callers :
          /\ call[c].op \in Ops /\ call[c].n \in Nat /\ call[c].id \in Ids
          /\ call[c].pc \in {"idle", "short_term", "embedding", "long_term", "episodic"}
          /\ call[c].vec \in Vectors \union {<<>>} /\ call[c].digest \in Seq(1..MaxSaid)
          /\ (c \in Range(queue)) <=>
                (call[c].op \in {"add_message", "clear", "consolidate"})
          /\ call[c].digest # <<>> => Holds(c)
    /\ now \in 0..MaxNow /\ said \in 0..MaxSaid
    /\ lost \subseteq 1..MaxSaid /\ cleared \subseteq 1..MaxSaid

Increasing(s) == \A i, j \in DOMAIN s : i < j => s[i] < s[j]
AllBelow(S, T) == \A x \in S, y \in T : x < y
InHand == UNION {Range(call[c].digest) : c \in Callers}
Stored == UNION {Range(entries[i].content) : i \in DOMAIN entries}

\* However calls of add_message, consolidate and clear overlap, fail or are
\* dropped, every message is in exactly one place: the buffer, the digest of
\* the running consolidation, an entry of the long-term memory, or among those
\* cleared or lost with an unfinished consolidation.
MessagesAccounted ==
    /\ 1..said = Range(messages) \union InHand \union Stored \union lost \union cleared
    /\ Stored \intersect (lost \union cleared) = {}
    /\ lost \intersect cleared = {}
    /\ AllBelow(Stored \union InHand \union lost \union cleared, Range(messages))
    /\ InHand \intersect (Stored \union lost \union cleared) = {}

\* Read in order of insertion, the digests in the long-term memory followed by
\* the running consolidation and the buffer tell the conversation in order:
\* consolidations do not overtake each other while they wait for embeddings.
ConversationOrdered ==
    /\ Increasing(messages)
    /\ AllBelow(Stored, InHand)
    /\ \A i \in DOMAIN entries :
          /\ Increasing(entries[i].content)
          /\ \A j \in DOMAIN entries :
                i < j => AllBelow(Range(entries[i].content), Range(entries[j].content))

\* Each result of a recall is counted once: the access counts of the entries
\* that share an id add up to the times these were returned, also when two
\* entries got the same id and while calls overlap.
AccessesCounted ==
    \A i \in DOMAIN entries :
        LET OfTwins(f) == [j \in DOMAIN entries |->
                              IF entries[j].id = entries[i].id THEN f[j] ELSE 0]
        IN  Total(OfTwins([j \in DOMAIN entries |-> entries[j].access_count - 1]))
                = Total(OfTwins(recalled))

\* What recall returns for any vector and limit: matching entries, best first,
\* and none left out that is better than one returned or that still fits.
RecallsBest ==
    \A v \in Vectors, limit \in 0..MaxEntries :
        LET results == query(v, limit)
            Score(i) == cosine_similarity(v, entries[i].embedding)
            rest == {i \in DOMAIN entries \ Range(results) : AtLeast(Score(i), MinScore)}
        IN  /\ Len(results) <= limit /\ (rest # {} => Len(results) = limit)
            /\ \A r \in DOMAIN results : AtLeast(Score(results[r]), MinScore)
            /\ \A q, r \in DOMAIN results : q < r =>
                  results[q] # results[r] /\ AtLeast(Score(results[q]), Score(results[r]))
            /\ \A r \in DOMAIN results, i \in rest : AtLeast(Score(results[r]), Score(i))

\* A caller at the buffer's lock gets it, whatever other calls fail or are
\* dropped, unless one consolidation waits for its embedding for good.
BufferAvailable ==
    \/ \E d \in Callers : <>[](call[d].op = "consolidate" /\ call[d].pc = "embedding")
    \/ \A c \in Callers : []<>(call[c].pc # "short_term")
=============================================================================
