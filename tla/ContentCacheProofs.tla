------------------------- MODULE ContentCacheProofs -------------------------
(***************************************************************************)
(* Cached questions, solutions and records: for any number of readers and of *)
(* writers, a list under the current version misses no finished write, and *)
(* what stays stale while Redis works was put there by a reader            *)
(* (model_question.hpp, model_solution.hpp).                               *)
(***************************************************************************)
EXTENDS ContentCache, TLAPS, FiniteSetTheorems

\* A leaf that names no prover goes to SMT, to Zenon, and to SMT with more time.
USE SMTT(10), Zenon, SMTT(20)

\* The calls a writer may still have to make.
PutDropBump == <<"put", "drop", "bump">>
DropBump == <<"drop", "bump">>
OnlyBump == <<"bump">>
OnlyDrop == <<"drop">>
Todos == {<<>>, PutDropBump, DropBump, OnlyBump, OnlyDrop}

\* The types of the row, of what Redis holds, and of the threads.
RowType == [at : 0 .. MaxWrites, live : BOOLEAN]
EntryType == [at : 0 .. MaxWrites, by : {"reader", "writer"}]
ListType == [at : 0 .. MaxWrites, by : {"reader"}]
WriterType == [todo : Todos, at : 0 .. MaxWrites]
ReaderPCs == {"idle", "version", "init", "get", "db", "fill"}
Keys == EntryKeys \cup {"list"}
ReaderType == [pc : ReaderPCs, key : Keys, ver : Versions, seen : RowType]

CacheTypes ==
  /\ subject \in {"question", "solution", "record"}
  /\ row \in RowType
  /\ entry \in [EntryKeys -> EntryType \cup {NoEntry}]
  /\ version \in Nat \cup {NoEntry}
  /\ list \in [Versions -> ListType \cup {NoEntry}]
  /\ writer \in [Writers -> WriterType]
  /\ reader \in [Readers -> ReaderType]
  /\ bumped \in 0 .. MaxWrites /\ guessed \in BOOLEAN /\ redisErrors \in 0 .. MaxRedisErrors

\* Writers that have not incremented the version for their commit yet.
ToBump == {w \in Writers : writer[w].todo \in {PutDropBump, DropBump, OnlyBump}}

\* The increments that the version shows.
Increments == IF version = NoEntry THEN 0 ELSE version - 1

\* There is at most one increment per commit.
CountPart ==
  /\ Increments + Cardinality(ToBump) <= row.at
  /\ version # NoEntry => version >= 1

\* Commits come before their calls.
WriterPart ==
  /\ bumped <= row.at
  /\ \A w \in Writers : writer[w].at <= row.at

\* As long as every reader of the list had the version, nothing is stored under a
\* version to come, and what a reader is about to store under the current one was
\* read after the last increment.
ReaderPart ==
  ~guessed =>
    /\ \A v \in Versions : list[v] # NoEntry =>
         /\ version # NoEntry /\ v <= version
         /\ v = version => list[v].at >= bumped
    /\ \A r \in Readers : reader[r].key = "list" /\ reader[r].pc \in {"get", "db", "fill"} =>
         /\ version # NoEntry /\ reader[r].ver <= version
         /\ reader[r].pc = "fill" /\ reader[r].ver = version => reader[r].seen.at >= bumped
    /\ \A r \in Readers : reader[r].pc \in {"version", "init"} => reader[r].key = "list"

\* The mutex of the question writers.
MutexPart ==
  /\ subject = "question" =>
       \A w \in Writers : Writing(w) =>
         /\ writer[w].at = row.at
         /\ \A x \in Writers : Writing(x) => x = w
  /\ subject # "question" => \A w \in Writers : writer[w].todo # PutDropBump

\* What a writer stored is the row, unless a writer is about to replace it.
WrittenPart ==
  /\ subject # "question" /\ entry["detail"] # NoEntry => entry["detail"].by = "reader"
  /\ redisErrors = 0 /\ entry["detail"] # NoEntry /\ entry["detail"].by = "writer" =>
       \/ entry["detail"].at = row.at
       \/ \E w \in Writers : writer[w].todo = PutDropBump

\* The inductive invariant.
CacheInv ==
  CacheTypes /\ CountPart /\ WriterPart /\ ReaderPart /\ MutexPart /\ WrittenPart

-----------------------------------------------------------------------------
\* The calls of a writer, one after the other.
LEMMA TodoCalls ==
  /\ PutDropBump # <<>> /\ DropBump # <<>> /\ OnlyBump # <<>> /\ OnlyDrop # <<>>
  /\ PutDropBump # DropBump /\ PutDropBump # OnlyBump /\ PutDropBump # OnlyDrop
  /\ DropBump # OnlyBump /\ DropBump # OnlyDrop /\ OnlyBump # OnlyDrop
  /\ Len(PutDropBump) # 1 /\ Len(DropBump) # 1 /\ Len(OnlyBump) = 1 /\ Len(OnlyDrop) = 1
  /\ Head(PutDropBump) = "put" /\ Tail(PutDropBump) = DropBump
  /\ Head(DropBump) = "drop" /\ Tail(DropBump) = OnlyBump
  /\ Head(OnlyBump) = "bump" /\ Head(OnlyDrop) = "drop"
BY DEF PutDropBump, DropBump, OnlyBump, OnlyDrop

\* The records of the model and their fields.
LEMMA WriterFields ==
  ASSUME NEW todo \in Todos, NEW at \in 0 .. MaxWrites
  PROVE  /\ Calling(todo, at) \in WriterType
         /\ Calling(todo, at).todo = todo /\ Calling(todo, at).at = at
BY DEF Calling, WriterType

\* A writer in its type has calls to make and the commit they are for.
LEMMA WriterParts ==
  ASSUME NEW c \in WriterType
  PROVE  c.todo \in Todos /\ c.at \in 0 .. MaxWrites
BY DEF WriterType

\* A reader has the key, the version and the row it was given.
LEMMA ReaderFields ==
  ASSUME NEW pc \in ReaderPCs, NEW key \in Keys, NEW ver \in Versions, NEW seen \in RowType
  PROVE  /\ Reading(pc, key, ver, seen) \in ReaderType
         /\ Reading(pc, key, ver, seen).pc = pc /\ Reading(pc, key, ver, seen).key = key
         /\ Reading(pc, key, ver, seen).ver = ver /\ Reading(pc, key, ver, seen).seen = seen
BY DEF Reading, ReaderType

\* A reader in its type.
LEMMA ReaderParts ==
  ASSUME NEW c \in ReaderType
  PROVE  c.pc \in ReaderPCs /\ c.key \in Keys /\ c.ver \in Versions /\ c.seen \in RowType
BY DEF ReaderType

\* The row of a commit.
LEMMA RowFields ==
  ASSUME NEW at \in 0 .. MaxWrites, NEW live \in BOOLEAN
  PROVE  Row(at, live) \in RowType /\ Row(at, live).at = at /\ Row(at, live).live = live
BY DEF Row, RowType

\* What readers and writers store is no missing entry.
LEMMA StoredFields ==
  ASSUME NEW at \in 0 .. MaxWrites
  PROVE  /\ Stored(at, "reader") \in EntryType /\ Stored(at, "reader") \in ListType
         /\ Stored(at, "writer") \in EntryType
         /\ Stored(at, "reader").at = at /\ Stored(at, "writer").at = at
         /\ Stored(at, "reader").by = "reader" /\ Stored(at, "writer").by = "writer"
         /\ Stored(at, "reader") # NoEntry /\ Stored(at, "writer") # NoEntry
<1>1. /\ Stored(at, "reader") \in EntryType /\ Stored(at, "reader") \in ListType
      /\ Stored(at, "writer") \in EntryType
      /\ Stored(at, "reader").at = at /\ Stored(at, "writer").at = at
      /\ Stored(at, "reader").by = "reader" /\ Stored(at, "writer").by = "writer"
  BY DEF Stored, EntryType, ListType
<1>2. /\ Stored(at, "reader") \in [at : Nat, by : {"reader", "writer"}]
      /\ Stored(at, "writer") \in [at : Nat, by : {"reader", "writer"}]
  BY CacheConstants DEF Stored
<1> QED
  BY <1>1, <1>2, CacheConstants

\* The literals of the model are in its types.
LEMMA Constants ==
  /\ <<>> \in Todos /\ PutDropBump \in Todos /\ DropBump \in Todos /\ OnlyBump \in Todos
  /\ OnlyDrop \in Todos
  /\ 0 \in 0 .. MaxWrites /\ 1 \in Versions
  /\ "detail" \in EntryKeys /\ "counts" \in EntryKeys /\ "list" \notin EntryKeys
  /\ "detail" \in Keys /\ "counts" \in Keys /\ "list" \in Keys
  /\ "idle" \in ReaderPCs /\ "version" \in ReaderPCs /\ "init" \in ReaderPCs
  /\ "get" \in ReaderPCs /\ "db" \in ReaderPCs /\ "fill" \in ReaderPCs
  /\ Row(0, TRUE) \in RowType
  /\ NotWriting \in WriterType /\ NotWriting.todo = <<>> /\ NotWriting.at = 0
  /\ NotReading \in ReaderType /\ NotReading.pc = "idle"
<1>1. <<>> \in Todos /\ PutDropBump \in Todos /\ DropBump \in Todos /\ OnlyBump \in Todos
      /\ OnlyDrop \in Todos
  BY DEF Todos
<1>2. 0 \in 0 .. MaxWrites /\ 1 \in Versions
  BY CacheConstants DEF Versions
<1>3. /\ "detail" \in EntryKeys /\ "counts" \in EntryKeys /\ "list" \notin EntryKeys
      /\ "detail" \in Keys /\ "counts" \in Keys /\ "list" \in Keys
  BY DEF EntryKeys, Keys
<1>4. /\ "idle" \in ReaderPCs /\ "version" \in ReaderPCs /\ "init" \in ReaderPCs
      /\ "get" \in ReaderPCs /\ "db" \in ReaderPCs /\ "fill" \in ReaderPCs
  BY DEF ReaderPCs
<1>5. TRUE \in BOOLEAN
  OBVIOUS
<1>6. Row(0, TRUE) \in RowType
  BY <1>2, <1>5 DEF Row, RowType
<1>7. NotWriting \in WriterType /\ NotWriting.todo = <<>> /\ NotWriting.at = 0
  BY <1>1, <1>2, WriterFields DEF NotWriting
<1>8. NotReading \in ReaderType /\ NotReading.pc = "idle"
  <2> DEFINE none == Row(0, TRUE)
  <2>1. none \in RowType /\ NotReading = Reading("idle", "detail", 1, none)
    BY <1>6, Zenon DEF NotReading
  <2> HIDE DEF none
  <2> QED
    BY <1>2, <1>3, <1>4, <2>1, ReaderFields
<1> QED
  BY <1>1, <1>2, <1>3, <1>4, <1>6, <1>7, <1>8, Zenon

\* A call to Redis does its work or fails.
Tried(done) ==
  \/ done /\ UNCHANGED redisErrors
  \/ RedisFails /\ UNCHANGED <<entry, version, bumped>>

\* One cache call: what is left to do, and what the call may have done.
LEMMA CallEffect ==
  ASSUME CacheTypes, NEW w \in Writers, CacheCall(w)
  PROVE  LET c == writer[w] IN
         /\ \/ /\ c.todo = PutDropBump /\ writer'[w] = Calling(DropBump, c.at)
               /\ Tried(PutEntry(w))
            \/ /\ c.todo = DropBump /\ writer'[w] = Calling(OnlyBump, c.at)
               /\ Tried(DropEntry(w))
            \/ /\ c.todo = OnlyBump /\ writer'[w] = NotWriting
               /\ Tried(Bump(w))
            \/ /\ c.todo = OnlyDrop /\ writer'[w] = NotWriting
               /\ Tried(DropEntry(w))
         /\ writer' \in [Writers -> WriterType]
         /\ \A x \in Writers : x # w => writer'[x] = writer[x]
         /\ UNCHANGED <<subject, row, list, reader, guessed>>
<1> DEFINE c == writer[w]
           call == Head(c.todo)
           done == \/ call = "put" /\ PutEntry(w)
                   \/ call = "drop" /\ DropEntry(w)
                   \/ call = "bump" /\ Bump(w)
           next == IF Len(c.todo) = 1 THEN NotWriting ELSE Calling(Tail(c.todo), c.at)
<1>1. /\ c.todo # <<>>
      /\ Tried(done)
      /\ writer' = [writer EXCEPT ![w] = next]
      /\ UNCHANGED <<subject, row, list, reader, guessed>>
  BY DEF CacheCall, Writing, Tried
<1>2. writer \in [Writers -> WriterType] /\ c.todo \in Todos /\ c.at \in 0 .. MaxWrites
  BY WriterParts DEF CacheTypes
<1> HIDE DEF next, c
<1>3. writer'[w] = next /\ \A x \in Writers : x # w => writer'[x] = writer[x]
  BY <1>1, <1>2
<1>4. \/ c.todo = PutDropBump \/ c.todo = DropBump \/ c.todo = OnlyBump \/ c.todo = OnlyDrop
  BY <1>1, <1>2 DEF Todos
<1>5. next \in WriterType
  BY <1>2, <1>4, TodoCalls, Constants, WriterFields, Zenon DEF next
<1>6. writer' \in [Writers -> WriterType]
  BY <1>1, <1>2, <1>5
<1>7. \/ c.todo = PutDropBump /\ next = Calling(DropBump, c.at) /\ call = "put"
      \/ c.todo = DropBump /\ next = Calling(OnlyBump, c.at) /\ call = "drop"
      \/ c.todo = OnlyBump /\ next = NotWriting /\ call = "bump"
      \/ c.todo = OnlyDrop /\ next = NotWriting /\ call = "drop"
  BY <1>4, TodoCalls, Zenon DEF next
<1> HIDE DEF call
<1> QED
  BY <1>1, <1>3, <1>6, <1>7 DEF c, Tried

\* What Calls gives a writer.
LEMMA CallsOf ==
  ASSUME NEW op \in Ops
  PROVE  /\ Calls(op) \in {PutDropBump, DropBump, OnlyBump, OnlyDrop}
         /\ Calls(op) = PutDropBump <=> subject = "question"
BY TodoCalls DEF Ops, Calls, PutDropBump, DropBump, OnlyBump, OnlyDrop

\* A commit: the row moves on and its writer gets its calls.
LEMMA CommitEffect ==
  ASSUME CacheTypes, NEW w \in Writers, NEW op \in Ops, Commit(w, op)
  PROVE  /\ row' \in RowType /\ row'.at = row.at + 1 /\ row.at \in 0 .. MaxWrites
         /\ writer' \in [Writers -> WriterType]
         /\ writer[w].todo = <<>>
         /\ writer'[w].todo = Calls(op) /\ writer'[w].at = row.at + 1
         /\ \A x \in Writers : x # w => writer'[x] = writer[x]
         /\ UNCHANGED <<subject, entry, version, list, reader, bumped, guessed, redisErrors>>
<1> DEFINE new == Calling(Calls(op), row.at + 1)
           live == op # "delete"
<1>0. row.at \in 0 .. MaxWrites /\ writer \in [Writers -> WriterType]
  BY DEF CacheTypes, RowType
<1>1. /\ writer[w].todo = <<>> /\ row.at < MaxWrites
      /\ row' = Row(row.at + 1, live)
      /\ writer' = [writer EXCEPT ![w] = new]
      /\ UNCHANGED <<subject, entry, version, list, reader, bumped, guessed, redisErrors>>
  BY DEF Commit, Writing
<1>2. row.at + 1 \in 0 .. MaxWrites
  BY <1>0, <1>1, CacheConstants
<1>3. Calls(op) \in Todos
  BY CallsOf DEF Todos
<1>4. new \in WriterType /\ new.todo = Calls(op) /\ new.at = row.at + 1
  BY <1>2, <1>3, WriterFields
<1>5. live \in BOOLEAN
  OBVIOUS
<1> HIDE DEF new, live
<1>6. row' \in RowType /\ row'.at = row.at + 1
  BY <1>1, <1>2, <1>5 DEF Row, RowType
<1> QED
  BY <1>0, <1>1, <1>4, <1>6

\* One reader moves.
LEMMA ReaderMoves ==
  ASSUME CacheTypes, NEW r \in Readers, NEW pc \in ReaderPCs, NEW ver \in Versions,
         NEW seen \in RowType, To(r, pc, ver, seen)
  PROVE  /\ reader' \in [Readers -> ReaderType]
         /\ reader'[r].pc = pc /\ reader'[r].key = reader[r].key
         /\ reader'[r].ver = ver /\ reader'[r].seen = seen
         /\ \A x \in Readers : x # r => reader'[x] = reader[x]
<1> DEFINE new == Reading(pc, reader[r].key, ver, seen)
<1>1. reader \in [Readers -> ReaderType] /\ reader[r].key \in Keys
  BY ReaderParts DEF CacheTypes
<1>2. new \in ReaderType /\ new.pc = pc /\ new.key = reader[r].key /\ new.ver = ver
      /\ new.seen = seen
  BY <1>1, ReaderFields
<1>3. reader' = [reader EXCEPT ![r] = new]
  BY DEF To
<1> HIDE DEF new
<1> QED
  BY <1>1, <1>2, <1>3

\* A reader that has its value is done.
LEMMA ReaderEnds ==
  ASSUME CacheTypes, NEW r \in Readers, reader' = [reader EXCEPT ![r] = NotReading]
  PROVE  /\ reader' \in [Readers -> ReaderType]
         /\ reader'[r].pc = "idle"
         /\ \A x \in Readers : x # r => reader'[x] = reader[x]
<1>1. reader \in [Readers -> ReaderType] /\ NotReading \in ReaderType /\ NotReading.pc = "idle"
  BY Constants DEF CacheTypes
<1> QED
  BY <1>1

\* The version fits into its bound: one increment per commit.
LEMMA VersionBound ==
  ASSUME CacheTypes, CountPart
  PROVE  version \in Versions \cup {NoEntry}
<1>1. IsFiniteSet(ToBump)
  BY FS_Subset, CacheConstants DEF ToBump
<1>2. Cardinality(ToBump) \in Nat
  BY <1>1, FS_CardinalityType
<1>3. row.at \in 0 .. MaxWrites
  BY DEF CacheTypes, RowType
<1> QED
  BY <1>2, <1>3, CacheConstants DEF CountPart, CacheTypes, Increments, Versions

\* A failed Redis call is counted.
LEMMA FailureCounts ==
  ASSUME CacheTypes, RedisFails \/ UNCHANGED redisErrors
  PROVE  /\ redisErrors' \in 0 .. MaxRedisErrors
         /\ redisErrors' = 0 => redisErrors = 0 /\ ~RedisFails
BY CacheConstants DEF CacheTypes, RedisFails

\* The writers that have an increment to make can be counted.
LEMMA ToBumpFinite == IsFiniteSet(ToBump) /\ Cardinality(ToBump) \in Nat
<1>1. IsFiniteSet(ToBump)
  BY FS_Subset, CacheConstants DEF ToBump
<1> QED
  BY <1>1, FS_CardinalityType

\* A transaction commits; question writers hold the mutex.
LEMMA CommitInv ==
  ASSUME CacheInv, NEW w \in Writers, NEW op \in Ops, Commit(w, op)
  PROVE  CacheInv'
<1> USE DEF CacheInv
<1>1. /\ row' \in RowType /\ row'.at = row.at + 1 /\ row.at \in 0 .. MaxWrites
      /\ writer' \in [Writers -> WriterType]
      /\ writer[w].todo = <<>>
      /\ writer'[w].todo = Calls(op) /\ writer'[w].at = row.at + 1
      /\ \A x \in Writers : x # w => writer'[x] = writer[x]
      /\ UNCHANGED <<subject, entry, version, list, reader, bumped, guessed, redisErrors>>
  BY CommitEffect
<1>2. CacheTypes'
  BY <1>1 DEF CacheTypes
<1>3. CountPart'
  <2>1. IsFiniteSet(ToBump) /\ Cardinality(ToBump) \in Nat
    BY ToBumpFinite
  <2>2. w \notin ToBump
    BY <1>1, TodoCalls DEF ToBump
  <2>3. ToBump' = ToBump \/ ToBump' = ToBump \cup {w}
    BY <1>1, <2>2 DEF ToBump
  <2>4. Cardinality(ToBump \cup {w}) = Cardinality(ToBump) + 1
    BY <2>1, <2>2, FS_AddElement, Zenon
  <2>5. Cardinality(ToBump') <= Cardinality(ToBump) + 1 /\ Cardinality(ToBump') \in Nat
    <3>1. Cardinality(ToBump') = Cardinality(ToBump)
          \/ Cardinality(ToBump') = Cardinality(ToBump \cup {w})
      BY <2>3, Zenon
    <3> QED
      BY <2>1, <2>4, <3>1
  <2>6. Increments' = Increments
    BY <1>1 DEF Increments
  <2>7. Increments \in Int
    BY DEF Increments, CacheTypes, CountPart
  <2>8. Cardinality(ToBump)' = Cardinality(ToBump')
    OBVIOUS
  <2> QED
    BY <1>1, <2>1, <2>5, <2>6, <2>7 DEF CountPart
<1>4. WriterPart'
  <2>1. bumped \in 0 .. MaxWrites /\ \A x \in Writers : writer[x].at \in 0 .. MaxWrites
    BY WriterParts DEF CacheTypes
  <2> QED
    BY <1>1, <2>1 DEF WriterPart
<1>5. ReaderPart'
  BY <1>1 DEF ReaderPart
<1>6. MutexPart' /\ WrittenPart'
  <2>1. Calls(op) = PutDropBump <=> subject = "question"
    BY CallsOf
  <2>2. subject = "question" => \A x \in Writers : writer[x].todo = <<>>
    BY DEF Commit, MayWrite, Writing
  <2>3. MutexPart'
    BY <1>1, <2>1, <2>2 DEF MutexPart, Writing
  <2>4. WrittenPart'
    BY <1>1, <2>1 DEF WrittenPart, CacheTypes, EntryType, EntryKeys
  <2> QED
    BY <2>3, <2>4
<1> QED
  BY <1>2, <1>3, <1>4, <1>5, <1>6

\* A call of a writer.  The increment makes a version nobody has stored under yet.
LEMMA CallInv ==
  ASSUME CacheInv, NEW w \in Writers, CacheCall(w)
  PROVE  CacheInv'
<1> USE DEF CacheInv
<1> DEFINE c == writer[w]
<1>1. /\ \/ /\ c.todo = PutDropBump /\ writer'[w] = Calling(DropBump, c.at)
            /\ Tried(PutEntry(w))
         \/ /\ c.todo = DropBump /\ writer'[w] = Calling(OnlyBump, c.at)
            /\ Tried(DropEntry(w))
         \/ /\ c.todo = OnlyBump /\ writer'[w] = NotWriting
            /\ Tried(Bump(w))
         \/ /\ c.todo = OnlyDrop /\ writer'[w] = NotWriting
            /\ Tried(DropEntry(w))
      /\ writer' \in [Writers -> WriterType]
      /\ \A x \in Writers : x # w => writer'[x] = writer[x]
      /\ UNCHANGED <<subject, row, list, reader, guessed>>
  BY CallEffect
<1>2. c \in WriterType /\ c.todo \in Todos /\ c.at \in 0 .. MaxWrites
  BY WriterParts DEF CacheTypes
<1>3. /\ Calling(DropBump, c.at).todo = DropBump /\ Calling(DropBump, c.at).at = c.at
      /\ Calling(OnlyBump, c.at).todo = OnlyBump /\ Calling(OnlyBump, c.at).at = c.at
      /\ NotWriting.todo = <<>> /\ NotWriting.at = 0
  BY <1>2, Constants, WriterFields
<1>a. row.at \in 0 .. MaxWrites /\ bumped \in 0 .. MaxWrites
  BY DEF CacheTypes, RowType
<1> HIDE DEF c
<1>4. redisErrors' \in 0 .. MaxRedisErrors /\ (redisErrors' = 0 => redisErrors = 0 /\ ~RedisFails)
  <2>1. RedisFails \/ UNCHANGED redisErrors
    BY <1>1 DEF Tried
  <2> QED
    BY <2>1, FailureCounts
<1>5. entry' \in [EntryKeys -> EntryType \cup {NoEntry}]
  <2>1. Stored(c.at, "writer") \in EntryType
    BY <1>2, StoredFields
  <2>2. entry' = entry \/ \E k, v : v \in EntryType \cup {NoEntry} /\ entry' = [entry EXCEPT ![k] = v]
    BY <1>1, <2>1, Zenon DEF Tried, PutEntry, DropEntry, Bump, c
  <2> QED
    BY <2>2 DEF CacheTypes
<1>6. CASE c.todo = OnlyBump /\ writer'[w] = NotWriting /\ Bump(w)
  <2>1. version' = Incr(version) /\ bumped' = (IF c.at > bumped THEN c.at ELSE bumped)
        /\ entry' = entry
    BY <1>6 DEF Bump, c
  <2>2. version' \in Nat /\ version' >= 1 /\ version' # NoEntry
        /\ (version = NoEntry => version' = 1)
        /\ (version # NoEntry => version' = version + 1)
    BY <2>1, CacheConstants DEF Incr, CacheTypes
  <2>3. bumped' \in 0 .. MaxWrites /\ bumped' <= row.at
    BY <1>2, <1>a, <2>1 DEF WriterPart, c
  <2>4. CacheTypes'
    BY <1>1, <1>4, <1>5, <2>2, <2>3 DEF CacheTypes
  <2>5. CountPart'
    <3>1. w \in ToBump
      BY <1>6 DEF ToBump, c
    <3>2. ToBump' = ToBump \ {w}
      BY <1>1, <1>3, <1>6, TodoCalls DEF ToBump
    <3>3. /\ Cardinality(ToBump \ {w}) = Cardinality(ToBump) - 1
          /\ Cardinality(ToBump) \in Nat
      BY <3>1, ToBumpFinite, FS_RemoveElement
    <3>4. Increments' <= Increments + 1 /\ Increments \in Int /\ Increments' \in Int
      <4>1. Increments' = version' - 1
        BY <2>2 DEF Increments
      <4>2. CASE version = NoEntry
        <5>1. Increments = 0
          BY <4>2 DEF Increments
        <5> QED
          BY <2>2, <4>1, <4>2, <5>1
      <4>3. CASE version # NoEntry
        <5>1. Increments = version - 1 /\ version \in Nat
          BY <4>3 DEF Increments, CacheTypes
        <5> QED
          BY <2>2, <4>1, <4>3, <5>1
      <4> QED
        BY <4>2, <4>3
    <3> QED
      BY <1>1, <1>a, <2>2, <3>2, <3>3, <3>4 DEF CountPart
  <2>6. WriterPart'
    BY <1>1, <1>3, <1>6, <1>a, <2>3 DEF WriterPart
  <2>7. ReaderPart'
    <3> SUFFICES ASSUME ~guessed
                 PROVE  /\ \A v \in Versions : list[v] # NoEntry => v < version'
                        /\ \A r \in Readers :
                             /\ reader[r].pc \in {"version", "init"} => reader[r].key = "list"
                             /\ reader[r].key = "list" /\ reader[r].pc \in {"get", "db", "fill"} =>
                                  reader[r].ver < version'
      <4>1. version' \in Nat /\ (\A v \in Versions : v \in Nat)
            /\ \A r \in Readers : reader[r].ver \in Nat
        BY <2>2, ReaderParts, CacheConstants DEF CacheTypes, Versions
      <4> QED
        BY <1>1, <2>2, <4>1 DEF ReaderPart
    <3>1. (\A v \in Versions : v \in Nat) /\ \A r \in Readers : reader[r].ver \in Nat
      BY ReaderParts, CacheConstants DEF CacheTypes, Versions
    <3>2. version # NoEntry => version \in Nat
      BY DEF CacheTypes
    <3> QED
      BY <2>2, <3>1, <3>2 DEF ReaderPart
  <2>8. MutexPart'
    BY <1>1, <1>3, <1>6, TodoCalls DEF MutexPart, Writing, c
  <2>9. WrittenPart'
    BY <1>1, <1>3, <1>4, <1>6, <2>1, TodoCalls DEF WrittenPart, c
  <2> QED
    BY <2>4, <2>5, <2>6, <2>7, <2>8, <2>9
<1>7. CASE ~(c.todo = OnlyBump /\ writer'[w] = NotWriting /\ Bump(w))
  <2>1. version' = version /\ bumped' = bumped
    BY <1>1, <1>7 DEF Tried, PutEntry, DropEntry
  <2>2. CacheTypes'
    BY <1>1, <1>4, <1>5, <2>1 DEF CacheTypes
  <2>3. CountPart'
    <3>1. ToBump' \in SUBSET ToBump
      BY <1>1, <1>3, TodoCalls, ZenonT(30) DEF ToBump, c
    <3>2. Cardinality(ToBump') \in Nat /\ Cardinality(ToBump') <= Cardinality(ToBump)
          /\ Cardinality(ToBump) \in Nat
      BY <3>1, ToBumpFinite, FS_Subset, FS_CardinalityType
    <3>3. Increments' = Increments /\ Increments \in Int
      BY <2>1 DEF Increments, CacheTypes
    <3> QED
      BY <1>1, <1>a, <2>1, <3>2, <3>3 DEF CountPart
  <2>4. WriterPart'
    BY <1>1, <1>2, <1>3, <1>a, <2>1 DEF WriterPart, c
  <2>5. ReaderPart'
    BY <1>1, <2>1 DEF ReaderPart
  <2>6. MutexPart'
    BY <1>1, <1>3, TodoCalls DEF MutexPart, Writing, c
  <2>7. WrittenPart'
    <3>1. CASE c.todo = PutDropBump /\ PutEntry(w) /\ UNCHANGED redisErrors
      <4>1. subject = "question" /\ c.at = row.at
        BY <3>1, TodoCalls DEF MutexPart, Writing, c
      <4>2. entry' = [entry EXCEPT !["detail"] = NoEntry]
            \/ entry' = [entry EXCEPT !["detail"] = Stored(c.at, "writer")]
        BY <3>1, Zenon DEF PutEntry, c
      <4>3. entry'["detail"] = NoEntry \/ entry'["detail"].at = c.at
        BY <1>2, <4>2, StoredFields, Constants DEF CacheTypes
      <4> QED
        BY <1>1, <4>1, <4>3 DEF WrittenPart
    <3>2. CASE c.todo # PutDropBump /\ DropEntry(w) /\ UNCHANGED redisErrors
      <4>1. entry' = [entry EXCEPT ![DropKey] = NoEntry]
        BY <3>2 DEF DropEntry
      <4>2. entry'["detail"] = NoEntry \/ entry'["detail"] = entry["detail"]
        BY <4>1, Constants DEF CacheTypes
      <4>3. \A x \in Writers : writer[x].todo = PutDropBump => writer'[x].todo = PutDropBump
        BY <1>1, <3>2 DEF c
      <4> QED
        BY <1>1, <3>2, <4>2, <4>3 DEF WrittenPart
    <3>3. CASE RedisFails /\ UNCHANGED <<entry, version, bumped>>
      BY <1>1, <1>4, <3>3 DEF WrittenPart
    <3> QED
      BY <1>1, <1>7, <3>1, <3>2, <3>3, TodoCalls, ZenonT(30) DEF Tried
  <2> QED
    BY <2>2, <2>3, <2>4, <2>5, <2>6, <2>7
<1> QED
  BY <1>6, <1>7

\* A step of one reader that leaves the writers alone keeps the invariant when what
\* it does to the version, the lists and its own place is in order.
LEMMA ReaderKeeps ==
  ASSUME CacheInv, NEW r \in Readers,
         UNCHANGED <<subject, row, writer, bumped>>,
         entry' \in [EntryKeys -> EntryType \cup {NoEntry}],
         \/ entry'["detail"] \in {NoEntry, entry["detail"]}
         \/ entry'["detail"].by = "reader",
         version' = version \/ version' = 1,
         list' \in [Versions -> ListType \cup {NoEntry}],
         reader' \in [Readers -> ReaderType],
         guessed' \in BOOLEAN,
         RedisFails \/ UNCHANGED redisErrors,
         ReaderPart'
  PROVE  CacheInv'
<1> USE DEF CacheInv
<1>1. redisErrors' \in 0 .. MaxRedisErrors /\ (redisErrors' = 0 => redisErrors = 0)
  BY FailureCounts
<1>2. CacheTypes'
  <2>1. version' \in Nat \cup {NoEntry} /\ bumped' = bumped
    BY DEF CacheTypes
  <2> QED
    BY <1>1, <2>1 DEF CacheTypes
<1>3. CountPart'
  <2>1. ToBump' = ToBump
    BY DEF ToBump
  <2>2. Cardinality(ToBump') = Cardinality(ToBump) /\ Cardinality(ToBump) \in Nat
    BY <2>1, ToBumpFinite
  <2>3. CASE version' = version
    BY <2>2, <2>3 DEF CountPart, Increments
  <2>4. CASE version' = 1
    <3>1. version' # NoEntry /\ Increments' = 0
      BY <2>4, CacheConstants DEF Increments
    <3>2. Increments \in Nat /\ row.at \in Nat
      BY CacheConstants DEF Increments, CacheTypes, CountPart, RowType
    <3> QED
      BY <2>2, <2>4, <3>1, <3>2 DEF CountPart
  <2> QED
    BY <2>3, <2>4
<1>4. WriterPart' /\ MutexPart'
  BY DEF WriterPart, MutexPart, Writing
<1>5. WrittenPart'
  BY <1>1 DEF WrittenPart
<1> QED
  BY <1>2, <1>3, <1>4, <1>5

\* The readers up to the database.
LEMMA ReaderFinds ==
  ASSUME CacheInv, NEW r \in Readers,
         ReadVersion(r) \/ InitVersion(r) \/ \E k \in ReadKeys : StartRead(r, k)
  PROVE  CacheInv'
<1> USE DEF CacheInv
<1>0. /\ entry \in [EntryKeys -> EntryType \cup {NoEntry}]
      /\ list \in [Versions -> ListType \cup {NoEntry}]
      /\ guessed \in BOOLEAN
      /\ \A x \in Readers : reader[x].ver \in Versions
  BY ReaderParts DEF CacheTypes
<1>b. version \in Versions \cup {NoEntry} /\ \A v \in Versions : v \in Nat /\ v >= 1
  BY VersionBound, CacheConstants DEF Versions
<1> DEFINE none == Row(0, TRUE)
<1>c. none \in RowType /\ 1 \in Versions /\ "get" \in ReaderPCs /\ "init" \in ReaderPCs
      /\ "version" \in ReaderPCs
  BY Constants, Zenon
<1>1. ASSUME NEW k \in ReadKeys, StartRead(r, k) PROVE CacheInv'
  <2> DEFINE new == Reading(FirstStep(k), k, 1, none)
  <2>1. /\ reader' = [reader EXCEPT ![r] = new]
        /\ UNCHANGED <<subject, row, entry, version, list, writer, bumped, guessed, redisErrors>>
    BY <1>1 DEF StartRead
  <2>2. FirstStep(k) \in ReaderPCs /\ k \in Keys
    BY <1>c DEF FirstStep, ReadKeys, Keys, EntryKeys
  <2> HIDE DEF none
  <2>3. new \in ReaderType /\ new.pc = FirstStep(k) /\ new.key = k
    BY <1>c, <2>2, ReaderFields
  <2> HIDE DEF new
  <2>4. /\ reader' \in [Readers -> ReaderType]
        /\ reader'[r] = new /\ \A x \in Readers : x # r => reader'[x] = reader[x]
    BY <2>1, <2>3 DEF CacheTypes
  <2>5. ReaderPart'
    BY <2>1, <2>3, <2>4, ZenonT(30) DEF ReaderPart, FirstStep
  <2> QED
    BY <1>0, <2>1, <2>4, <2>5, ReaderKeeps
<1>2. CASE ReadVersion(r)
  <2>0. /\ UNCHANGED <<subject, row, entry, version, list, writer, bumped>>
        /\ reader[r].pc = "version"
    BY <1>2, ZenonT(30) DEF ReadVersion
  <2>1. CASE version # NoEntry /\ To(r, "get", version, none) /\ UNCHANGED <<guessed, redisErrors>>
    <3> HIDE DEF none
    <3>1. version \in Versions
      BY <1>b, <2>1
    <3>2. /\ reader' \in [Readers -> ReaderType]
          /\ reader'[r].pc = "get" /\ reader'[r].key = reader[r].key
          /\ reader'[r].ver = version
          /\ \A x \in Readers : x # r => reader'[x] = reader[x]
      BY <1>c, <2>1, <3>1, ReaderMoves
    <3>3. ReaderPart'
      <4> SUFFICES ASSUME ~guessed, NEW x \in Readers
                   PROVE  /\ reader'[x].key = "list" /\ reader'[x].pc \in {"get", "db", "fill"} =>
                               /\ version # NoEntry /\ reader'[x].ver <= version
                               /\ reader'[x].pc = "fill" /\ reader'[x].ver = version =>
                                    reader'[x].seen.at >= bumped
                          /\ reader'[x].pc \in {"version", "init"} => reader'[x].key = "list"
        BY <2>0, <2>1 DEF ReaderPart
      <4>1. CASE x = r
        BY <1>b, <2>1, <3>1, <3>2, <4>1
      <4>2. CASE x # r
        BY <3>2, <4>2 DEF ReaderPart
      <4> QED
        BY <4>1, <4>2
    <3> QED
      BY <1>0, <2>0, <2>1, <3>2, <3>3, ReaderKeeps, Zenon
  <2>2. CASE To(r, "init", 1, none) /\ UNCHANGED <<guessed, redisErrors>>
    <3> HIDE DEF none
    <3>2. /\ reader' \in [Readers -> ReaderType]
          /\ reader'[r].pc = "init" /\ reader'[r].key = reader[r].key
          /\ \A x \in Readers : x # r => reader'[x] = reader[x]
      BY <1>c, <2>2, ReaderMoves
    <3>3. ReaderPart'
      BY <2>0, <2>2, <3>2, ZenonT(30) DEF ReaderPart
    <3> QED
      BY <1>0, <2>0, <2>2, <3>2, <3>3, ReaderKeeps, ZenonT(30)
  <2>3. CASE RedisFails /\ To(r, "get", 1, none) /\ guessed' = TRUE
    <3> HIDE DEF none
    <3>2. reader' \in [Readers -> ReaderType]
      BY <1>c, <2>3, ReaderMoves
    <3>3. ReaderPart' /\ guessed' \in BOOLEAN
      BY <2>3 DEF ReaderPart
    <3> QED
      BY <1>0, <2>0, <2>3, <3>2, <3>3, ReaderKeeps, ZenonT(30)
  <2> QED
    BY <1>2, <2>1, <2>2, <2>3, ZenonT(30) DEF ReadVersion
<1>3. CASE InitVersion(r)
  <2>0. /\ UNCHANGED <<subject, row, entry, list, writer, bumped>>
        /\ reader[r].pc = "init" /\ To(r, "get", 1, none)
    BY <1>3, ZenonT(30) DEF InitVersion
  <2>1. /\ reader' \in [Readers -> ReaderType]
        /\ reader'[r].pc = "get" /\ reader'[r].key = reader[r].key /\ reader'[r].ver = 1
        /\ \A x \in Readers : x # r => reader'[x] = reader[x]
    <3> HIDE DEF none
    <3> QED
      BY <1>c, <2>0, ReaderMoves
  <2>2. CASE version' = 1 /\ guessed' = (guessed \/ version \notin {NoEntry, 1})
             /\ UNCHANGED redisErrors
    <3>1. guessed' \in BOOLEAN
      BY <1>0, <2>2
    <3>2. ~guessed' => ~guessed /\ (version = NoEntry \/ version = 1)
      BY <2>2, ZenonT(30)
    <3>3. 1 # NoEntry
      BY CacheConstants
    <3>4. ReaderPart'
      <4> SUFFICES ASSUME ~guessed'
                   PROVE  /\ \A v \in Versions : list[v] # NoEntry =>
                               v <= 1 /\ (v = 1 => list[v].at >= bumped)
                          /\ \A x \in Readers :
                               reader'[x].key = "list" /\ reader'[x].pc \in {"get", "db", "fill"} =>
                                 /\ reader'[x].ver <= 1
                                 /\ reader'[x].pc = "fill" /\ reader'[x].ver = 1 =>
                                      reader'[x].seen.at >= bumped
                          /\ \A x \in Readers :
                               reader'[x].pc \in {"version", "init"} => reader'[x].key = "list"
        BY <2>0, <2>2, <3>3, ZenonT(30) DEF ReaderPart
      <4>1. ReaderPart /\ ~guessed /\ (version = NoEntry \/ version = 1)
        BY <3>2
      <4>2. \A v \in Versions : list[v] # NoEntry => v <= 1 /\ (v = 1 => list[v].at >= bumped)
        BY <4>1 DEF ReaderPart
      <4>3. \A x \in Readers :
              /\ reader[x].key = "list" /\ reader[x].pc \in {"get", "db", "fill"} =>
                   /\ reader[x].ver <= 1
                   /\ reader[x].pc = "fill" /\ reader[x].ver = 1 => reader[x].seen.at >= bumped
              /\ reader[x].pc \in {"version", "init"} => reader[x].key = "list"
        BY <4>1 DEF ReaderPart
      <4>4. ASSUME NEW x \in Readers
            PROVE  /\ reader'[x].key = "list" /\ reader'[x].pc \in {"get", "db", "fill"} =>
                        /\ reader'[x].ver <= 1
                        /\ reader'[x].pc = "fill" /\ reader'[x].ver = 1 =>
                             reader'[x].seen.at >= bumped
                   /\ reader'[x].pc \in {"version", "init"} => reader'[x].key = "list"
        <5>1. CASE x = r
          BY <2>1, <5>1
        <5>2. CASE x # r
          BY <2>1, <4>3, <5>2
        <5> QED
          BY <5>1, <5>2
      <4> QED
        BY <4>2, <4>4, Zenon
    <3> QED
      BY <1>0, <2>0, <2>1, <2>2, <3>1, <3>4, ReaderKeeps, Zenon
  <2>3. CASE RedisFails /\ guessed' = TRUE /\ UNCHANGED version
    <3>1. ReaderPart' /\ guessed' \in BOOLEAN
      BY <2>3 DEF ReaderPart
    <3> QED
      BY <1>0, <2>0, <2>1, <2>3, <3>1, ReaderKeeps, ZenonT(30)
  <2> QED
    BY <1>3, <2>2, <2>3, Zenon DEF InitVersion
<1> QED
  BY <1>1, <1>2, <1>3

\* The readers from the lookup on.  A list is read from the database after its
\* version was, so it has every write whose increment that version counts.
LEMMA ReaderStores ==
  ASSUME CacheInv, NEW r \in Readers, LookUp(r) \/ ReadRow(r) \/ Fill(r)
  PROVE  CacheInv'
<1> USE DEF CacheInv
<1>0. /\ entry \in [EntryKeys -> EntryType \cup {NoEntry}]
      /\ list \in [Versions -> ListType \cup {NoEntry}]
      /\ guessed \in BOOLEAN /\ row \in RowType
      /\ reader[r].ver \in Versions /\ reader[r].key \in Keys /\ reader[r].seen \in RowType
  BY ReaderParts DEF CacheTypes
<1>b. version \in Versions \cup {NoEntry} /\ \A v \in Versions : v \in Nat /\ v >= 1
  <2>1. \A v \in Versions : v \in Nat /\ v >= 1
    BY CacheConstants DEF Versions
  <2> QED
    BY <2>1, VersionBound
<1>c. Row(0, TRUE) \in RowType /\ "db" \in ReaderPCs /\ "fill" \in ReaderPCs
  BY Constants, Zenon
<1>1. CASE LookUp(r)
  <2> DEFINE none == Row(0, TRUE)
  <2>0. /\ UNCHANGED <<subject, row, entry, version, list, writer, bumped, guessed>>
        /\ reader[r].pc = "get"
        /\ RedisFails \/ UNCHANGED redisErrors
        /\ \/ reader' = [reader EXCEPT ![r] = NotReading]
           \/ To(r, "db", reader[r].ver, reader[r].seen)
           \/ To(r, "db", reader[r].ver, none)
    BY <1>1, Zenon DEF LookUp, To
  <2>3. none \in RowType
    BY <1>c, Zenon
  <2> HIDE DEF none
  <2>1. /\ reader' \in [Readers -> ReaderType]
        /\ \/ reader'[r].pc = "idle"
           \/ /\ reader'[r].pc = "db" /\ reader'[r].key = reader[r].key
              /\ reader'[r].ver = reader[r].ver
        /\ \A x \in Readers : x # r => reader'[x] = reader[x]
    <3>1. CASE reader' = [reader EXCEPT ![r] = NotReading]
      BY <3>1, ReaderEnds, Zenon
    <3>2. CASE To(r, "db", reader[r].ver, reader[r].seen)
      BY <1>0, <1>c, <3>2, ReaderMoves, ZenonT(30)
    <3>3. CASE To(r, "db", reader[r].ver, none)
      BY <1>0, <1>c, <2>3, <3>3, ReaderMoves, ZenonT(30)
    <3> QED
      BY <2>0, <3>1, <3>2, <3>3
  <2>2. ReaderPart'
    BY <2>0, <2>1 DEF ReaderPart
  <2> QED
    BY <1>0, <2>0, <2>1, <2>2, ReaderKeeps
<1>2. CASE ReadRow(r)
  <2>0. /\ UNCHANGED <<subject, row, entry, version, list, writer, bumped, guessed, redisErrors>>
        /\ reader[r].pc = "db" /\ To(r, "fill", reader[r].ver, row)
    BY <1>2, ZenonT(30) DEF ReadRow
  <2>1. /\ reader' \in [Readers -> ReaderType]
        /\ reader'[r].pc = "fill" /\ reader'[r].key = reader[r].key
        /\ reader'[r].ver = reader[r].ver /\ reader'[r].seen = row
        /\ \A x \in Readers : x # r => reader'[x] = reader[x]
    BY <1>0, <1>c, <2>0, ReaderMoves
  <2>2. row.at >= bumped
    BY DEF WriterPart, CacheTypes, RowType
  <2>3. ReaderPart'
    BY <2>0, <2>1, <2>2 DEF ReaderPart
  <2> QED
    BY <1>0, <2>0, <2>1, <2>3, ReaderKeeps, ZenonT(30)
<1>3. CASE Fill(r)
  <2> DEFINE k == reader[r].key
             found == Stored(reader[r].seen.at, "reader")
  <2>0. /\ UNCHANGED <<subject, row, version, writer, bumped, guessed>>
        /\ reader[r].pc = "fill" /\ reader' = [reader EXCEPT ![r] = NotReading]
        /\ RedisFails \/ UNCHANGED redisErrors
        /\ \/ /\ k = "list" /\ list' = [list EXCEPT ![reader[r].ver] = found] /\ entry' = entry
           \/ /\ k # "list" /\ list' = list
              /\ \/ entry' = [entry EXCEPT ![k] = found]
                 \/ entry' = [entry EXCEPT ![k] = NoEntry]
           \/ entry' = entry /\ list' = list
    BY <1>3 DEF Fill
  <2>1. reader[r].seen.at \in 0 .. MaxWrites
    BY <1>0 DEF RowType
  <2>2. found \in EntryType /\ found \in ListType /\ found.at = reader[r].seen.at
        /\ found.by = "reader" /\ found # NoEntry
    BY <2>1, StoredFields, ZenonT(30)
  <2> HIDE DEF found
  <2>3. /\ reader' \in [Readers -> ReaderType]
        /\ reader'[r].pc = "idle"
        /\ \A x \in Readers : x # r => reader'[x] = reader[x]
    BY <2>0, ReaderEnds, ZenonT(30)
  <2>4. entry' \in [EntryKeys -> EntryType \cup {NoEntry}]
    BY <1>0, <2>0, <2>2
  <2>5. list' \in [Versions -> ListType \cup {NoEntry}]
    BY <1>0, <2>0, <2>2
  <2>6. \/ entry'["detail"] \in {NoEntry, entry["detail"]}
        \/ entry'["detail"].by = "reader"
    BY <1>0, <2>0, <2>2, Constants
  <2>7. ReaderPart'
    <3>1. \A v \in Versions :
            \/ list'[v] = list[v]
            \/ k = "list" /\ v = reader[r].ver /\ list'[v].at = reader[r].seen.at
      BY <1>0, <2>0, <2>2, ZenonT(30)
    <3>2. ASSUME ~guessed, NEW v \in Versions, list'[v] # NoEntry
          PROVE  /\ version # NoEntry /\ v <= version
                 /\ v = version => list'[v].at >= bumped
      BY <2>0, <3>1, <3>2, ZenonT(30) DEF ReaderPart
    <3> QED
      BY <2>0, <2>3, <3>2 DEF ReaderPart
  <2> QED
    BY <1>0, <2>0, <2>3, <2>4, <2>5, <2>6, <2>7, ReaderKeeps
<1> QED
  BY <1>1, <1>2, <1>3

\* An expiry takes an entry or a list away.
LEMMA ExpireInv ==
  ASSUME CacheInv, NEW k \in Keys, Expire(k)
  PROVE  CacheInv'
<1> USE DEF CacheInv
<1>1. /\ UNCHANGED <<subject, row, version, writer, reader, bumped, guessed, redisErrors>>
      /\ \/ entry' = [entry EXCEPT ![k] = NoEntry] /\ list' = list
         \/ entry' = entry /\ \E v \in Versions : list' = [list EXCEPT ![v] = NoEntry]
  BY DEF Expire
<1>2. /\ entry' \in [EntryKeys -> EntryType \cup {NoEntry}]
      /\ list' \in [Versions -> ListType \cup {NoEntry}]
  BY <1>1 DEF CacheTypes
<1>3. entry'["detail"] = NoEntry \/ entry'["detail"] = entry["detail"]
  BY <1>1, Constants DEF CacheTypes
<1>4. \A v \in Versions : list'[v] = NoEntry \/ list'[v] = list[v]
  BY <1>1 DEF CacheTypes
<1>5. CacheTypes'
  BY <1>1, <1>2 DEF CacheTypes
<1>6. CountPart' /\ WriterPart' /\ MutexPart'
  <2>1. ToBump' = ToBump /\ Increments' = Increments
    BY <1>1 DEF ToBump, Increments
  <2> QED
    BY <1>1, <2>1 DEF CountPart, WriterPart, MutexPart, Writing
<1>7. ReaderPart'
  BY <1>1, <1>4 DEF ReaderPart
<1>8. WrittenPart'
  BY <1>1, <1>3 DEF WrittenPart
<1> QED
  BY <1>5, <1>6, <1>7, <1>8

\* The invariant of the cache holds in every behaviour.
THEOREM CacheInvariant == CacheSpec => []CacheInv
<1>1. CacheInit => CacheInv
  <2> SUFFICES ASSUME CacheInit PROVE CacheInv
    OBVIOUS
  <2>1. /\ \A w \in Writers : writer[w] = NotWriting /\ writer[w].todo = <<>> /\ writer[w].at = 0
        /\ \A r \in Readers : reader[r].pc = "idle"
        /\ \A v \in Versions : list[v] = NoEntry
        /\ entry["detail"] = NoEntry /\ version = NoEntry
        /\ bumped = 0 /\ redisErrors = 0
    BY Constants DEF CacheInit
  <2>2. row \in RowType /\ row.at = 0
    <3>1. row = Row(0, TRUE)
      BY DEF CacheInit
    <3> QED
      BY <3>1, Constants DEF Row
  <2>12. guessed \in BOOLEAN
    BY ZenonT(30) DEF CacheInit
  <2>3. writer \in [Writers -> WriterType] /\ reader \in [Readers -> ReaderType]
    BY Constants DEF CacheInit
  <2>4. /\ entry \in [EntryKeys -> EntryType \cup {NoEntry}]
        /\ list \in [Versions -> ListType \cup {NoEntry}]
    BY DEF CacheInit
  <2>5. bumped \in 0 .. MaxWrites /\ redisErrors \in 0 .. MaxRedisErrors
    BY <2>1, CacheConstants
  <2>6. CacheTypes
    BY <2>1, <2>2, <2>3, <2>4, <2>5, <2>12, Zenon DEF CacheTypes, CacheInit
  <2>7. ToBump = {}
    BY <2>1, TodoCalls DEF ToBump
  <2>8. Cardinality(ToBump) = 0
    BY <2>7, FS_EmptySet
  <2>9. CountPart
    BY <2>1, <2>2, <2>8 DEF CountPart, Increments
  <2>10. WriterPart /\ MutexPart /\ WrittenPart
    BY <2>1, <2>2, TodoCalls DEF WriterPart, MutexPart, WrittenPart, Writing
  <2>11. ReaderPart
    BY <2>1 DEF ReaderPart
  <2> QED
    BY <2>6, <2>9, <2>10, <2>11 DEF CacheInv
<1>2. CacheInv /\ [CacheNext]_cacheVars => CacheInv'
  <2> SUFFICES ASSUME CacheInv, [CacheNext]_cacheVars PROVE CacheInv'
    OBVIOUS
  <2>1. CASE UNCHANGED cacheVars
    <3>1. ToBump' = ToBump /\ Increments' = Increments
      BY <2>1 DEF ToBump, Increments, cacheVars
    <3> QED
      BY <2>1, <3>1 DEF cacheVars, CacheInv, CacheTypes, CountPart, WriterPart, ReaderPart,
                        MutexPart, WrittenPart, Writing
  <2>2. CASE CacheNext
    BY <2>2, CommitInv, CallInv, ReaderFinds, ReaderStores, ExpireInv
    DEF CacheNext, ReaderStep, Keys
  <2> QED
    BY <2>1, <2>2
<1> QED
  BY <1>1, <1>2, PTL DEF CacheSpec

\* What Redis holds stays in its types; the version in particular never grows past
\* one more than the number of commits, although a reader may set it back.
THEOREM CacheTypesHold == CacheSpec => []CacheTypeOK
<1>1. CacheInv => CacheTypeOK
  <2> SUFFICES ASSUME CacheInv PROVE CacheTypeOK
    OBVIOUS
  <2>1. version \in Versions \cup {NoEntry}
    BY VersionBound DEF CacheInv
  <2>2. WriterType \subseteq [todo : Seq({"put", "drop", "bump"}), at : 0 .. MaxWrites]
    <3>1. Todos \subseteq Seq({"put", "drop", "bump"})
      <4>1. /\ <<>> \in Seq({"put", "drop", "bump"})
            /\ PutDropBump \in Seq({"put", "drop", "bump"})
            /\ DropBump \in Seq({"put", "drop", "bump"})
            /\ OnlyBump \in Seq({"put", "drop", "bump"})
            /\ OnlyDrop \in Seq({"put", "drop", "bump"})
        BY DEF PutDropBump, DropBump, OnlyBump, OnlyDrop
      <4> QED
        BY <4>1 DEF Todos
    <3> QED
      BY <3>1 DEF WriterType
  <2>3. writer \in [Writers -> [todo : Seq({"put", "drop", "bump"}), at : 0 .. MaxWrites]]
    <3> DEFINE W == [todo : Seq({"put", "drop", "bump"}), at : 0 .. MaxWrites]
    <3>1. writer \in [Writers -> WriterType] /\ WriterType \subseteq W
      BY <2>2 DEF CacheInv, CacheTypes
    <3> HIDE DEF W
    <3>2. writer \in [Writers -> W]
      BY <3>1
    <3> QED
      BY <3>2 DEF W
  <2>4. CacheTypes
    BY DEF CacheInv
  <2>5. /\ row \in [at : 0 .. MaxWrites, live : BOOLEAN]
        /\ entry \in [EntryKeys -> [at : 0 .. MaxWrites, by : {"reader", "writer"}] \cup {NoEntry}]
    BY <2>4, Zenon DEF CacheTypes, RowType, EntryType
  <2>6. list \in [Versions -> [at : 0 .. MaxWrites, by : {"reader"}] \cup {NoEntry}]
    BY <2>4, Zenon DEF CacheTypes, ListType
  <2>7. reader \in [Readers -> [pc : {"idle", "version", "init", "get", "db", "fill"},
                                key : EntryKeys \cup {"list"}, ver : Versions,
                                seen : [at : 0 .. MaxWrites, live : BOOLEAN]]]
    BY <2>4, Zenon DEF CacheTypes, ReaderType, ReaderPCs, Keys, RowType
  <2>8. /\ subject \in {"question", "solution", "record"}
        /\ bumped \in 0 .. MaxWrites /\ guessed \in BOOLEAN /\ redisErrors \in 0 .. MaxRedisErrors
    BY <2>4, ZenonT(30) DEF CacheTypes
  <2> QED
    BY <2>1, <2>3, <2>5, <2>6, <2>7, <2>8, Zenon DEF CacheTypeOK
<1> QED
  BY <1>1, CacheInvariant, PTL

\* Once the increment of a write is done, no list under the current version misses
\* that write (unless a reader took 1 for the version).
THEOREM CacheListsAreCurrent == CacheSpec => []ListsAreCurrent
<1>1. CacheInv => ListsAreCurrent
  BY VersionBound DEF CacheInv, ReaderPart, ListsAreCurrent
<1> QED
  BY <1>1, CacheInvariant, PTL

\* Two saves of a question never leave the older one in the cache.
THEOREM CacheStaleOnlyFromReaders == CacheSpec => []StaleOnlyFromReaders
<1>1. CacheInv => StaleOnlyFromReaders
  <2> SUFFICES ASSUME CacheInv, redisErrors = 0, entry["detail"] # NoEntry,
                      \A w \in Writers : ~Writing(w), entry["detail"].at # row.at
               PROVE  entry["detail"].by = "reader"
    BY DEF StaleOnlyFromReaders
  <2>1. entry["detail"] \in EntryType
    BY Constants DEF CacheInv, CacheTypes
  <2>2. entry["detail"].by \in {"reader", "writer"}
    BY <2>1 DEF EntryType
  <2> QED
    BY <2>2, TodoCalls DEF CacheInv, WrittenPart, Writing
<1> QED
  BY <1>1, CacheInvariant, PTL
=============================================================================
