---------------------------- MODULE ContentCache ----------------------------
(***************************************************************************)
(* What Redis holds of the rows in MySQL (oj_cache.hpp and the readers and *)
(* writers of the model classes).  A reader looks in the cache, then reads *)
(* the row, then stores what it read; a writer commits and then makes its  *)
(* cache calls, one after the other; anything may come in between.  Lists  *)
(* are stored under a version that the writers increment.                  *)
(*                                                                         *)
(* A behaviour is about one subject: a question, a solution, or a record   *)
(* with a plain entry (a comment, a user, the verdicts of a user).  Only   *)
(* how recent a value is counts: row.at is the number of commits.  Every   *)
(* Redis call may fail; the code logs the error and goes on.               *)
(***************************************************************************)
EXTENDS Naturals, Sequences, FiniteSets

CONSTANTS
  Writers, Readers,
  MaxWrites,        \* bound: commits
  MaxRedisErrors,   \* bound: failing Redis calls
  NoEntry

ASSUME CacheConstants ==
  /\ IsFiniteSet(Writers)
  /\ MaxWrites \in Nat /\ MaxRedisErrors \in Nat
  /\ NoEntry \notin Nat
  /\ NoEntry \notin [at : Nat, by : {"reader", "writer"}]

VARIABLES
  subject,       \* "question", "solution" or "record"
  row,           \* the committed row
  entry,         \* entry[k]: what is stored under the key k
  version,       \* the version key of the list
  list,          \* list[v]: the list stored under version v
  writer,        \* writer[w]: the cache calls still to make after a commit
  reader,        \* reader[r]: where a read is
  bumped,        \* history: the latest commit whose increment was done
  guessed,       \* history: a reader used version 1 when it was not the version
  redisErrors

cacheVars == <<subject, row, entry, version, list, writer, reader, bumped, guessed, redisErrors>>

\* The keys with an entry of their own: the row itself and the question count.
EntryKeys == {"detail", "counts"}
Versions == 1 .. MaxWrites + 1

Stored(at, by) == [at |-> at, by |-> by]
Row(at, live) == [at |-> at, live |-> live]
Reading(pc, key, ver, seen) == [pc |-> pc, key |-> key, ver |-> ver, seen |-> seen]
NotReading == Reading("idle", "detail", 1, Row(0, TRUE))
Calling(todo, at) == [todo |-> todo, at |-> at]
NotWriting == Calling(<<>>, 0)

CacheInit ==
  /\ subject \in {"question", "solution", "record"}
  /\ row = Row(0, TRUE)
  /\ entry = [k \in EntryKeys |-> NoEntry]
  /\ version = NoEntry
  /\ list = [v \in Versions |-> NoEntry]
  /\ writer = [w \in Writers |-> NotWriting]
  /\ reader = [r \in Readers |-> NotReading]
  /\ bumped = 0 /\ guessed = FALSE /\ redisErrors = 0

RedisFails ==
  /\ redisErrors < MaxRedisErrors
  /\ redisErrors' = redisErrors + 1

-----------------------------------------------------------------------------
\* Writers.

Writing(w) == writer[w].todo # <<>>

\* What a writer calls after its commit, in this order: SaveQuestion and
\* DeleteQuestion, CreateSolution, the toggles and comments on a solution, and
\* the writers of plain records.
Calls(op) ==
  IF op \in {"save", "delete"} THEN <<"put", "drop", "bump">>
  ELSE IF op = "create" THEN <<"bump">>
  ELSE IF op = "touch" THEN <<"drop", "bump">>
  ELSE <<"drop">>

Ops ==
  IF subject = "question" THEN {"save", "delete"}
  ELSE IF subject = "solution" THEN {"create", "touch"} ELSE {"record"}

\* Question writers without _question_mutation_mutex.
BugMayWrite(w) == TRUE

\* _question_mutation_mutex is held from before the transaction to the last call.
MayWrite(w) == subject = "question" => \A x \in Writers : ~Writing(x)

Commit(w, op) ==
  /\ ~Writing(w) /\ MayWrite(w) /\ row.at < MaxWrites
  /\ row' = Row(row.at + 1, op # "delete")
  /\ writer' = [writer EXCEPT ![w] = Calling(Calls(op), row.at + 1)]
  /\ UNCHANGED <<subject, entry, version, list, reader, bumped, guessed, redisErrors>>

\* The key that is deleted, and the one that is overwritten.
DropKey == IF subject = "question" THEN "counts" ELSE "detail"

\* SetDetailedQuestion, or SetQuestionNotFound: "__NULL__" is read as a miss.
PutEntry(w) ==
  /\ entry' = [entry EXCEPT !["detail"] = IF row.live THEN Stored(writer[w].at, "writer") ELSE NoEntry]
  /\ UNCHANGED <<version, bumped>>

\* DeleteStringByAnyKey.
DropEntry(w) ==
  /\ entry' = [entry EXCEPT ![DropKey] = NoEntry]
  /\ UNCHANGED <<version, bumped>>

\* INCR: a missing key counts as 0.
Incr(v) == IF v = NoEntry THEN 1 ELSE v + 1

\* BumpListVersion and BumpSolutionListVersion.
Bump(w) ==
  /\ version' = Incr(version)
  /\ bumped' = IF writer[w].at > bumped THEN writer[w].at ELSE bumped
  /\ UNCHANGED entry

CacheCall(w) ==
  LET call == Head(writer[w].todo)
  IN  /\ Writing(w)
      /\ \/ /\ \/ call = "put" /\ PutEntry(w)
               \/ call = "drop" /\ DropEntry(w)
               \/ call = "bump" /\ Bump(w)
            /\ UNCHANGED redisErrors
         \/ RedisFails /\ UNCHANGED <<entry, version, bumped>>
      /\ writer' = [writer EXCEPT ![w] = IF Len(@.todo) = 1 THEN NotWriting
                                         ELSE Calling(Tail(@.todo), @.at)]
      /\ UNCHANGED <<subject, row, list, reader, guessed>>

-----------------------------------------------------------------------------
\* Readers.

ReadKeys ==
  IF subject = "question" THEN EntryKeys \cup {"list"}
  ELSE IF subject = "solution" THEN {"detail", "list"} ELSE {"detail"}

\* A list reader that does not ask for the version.
BugFirstStep(k) == "get"

FirstStep(k) == IF k = "list" THEN "version" ELSE "get"

StartRead(r, k) ==
  /\ reader[r].pc = "idle" /\ k \in ReadKeys
  /\ reader' = [reader EXCEPT ![r] = Reading(FirstStep(k), k, 1, Row(0, TRUE))]
  /\ UNCHANGED <<subject, row, entry, version, list, writer, bumped, guessed, redisErrors>>

To(r, pc, ver, seen) ==
  reader' = [reader EXCEPT ![r] = Reading(pc, @.key, ver, seen)]

\* GetListVersion: GET; without a key the next call is SET; an error means "1".
ReadVersion(r) ==
  /\ reader[r].pc = "version"
  /\ \/ /\ version # NoEntry /\ To(r, "get", version, Row(0, TRUE))
        /\ UNCHANGED <<guessed, redisErrors>>
     \/ /\ version = NoEntry /\ To(r, "init", 1, Row(0, TRUE))
        /\ UNCHANGED <<guessed, redisErrors>>
     \/ /\ RedisFails /\ To(r, "get", 1, Row(0, TRUE))
        /\ guessed' = TRUE
  /\ UNCHANGED <<subject, row, entry, version, list, writer, bumped>>

\* The SET to "1", which may undo increments made since the GET.
InitVersion(r) ==
  /\ reader[r].pc = "init"
  /\ To(r, "get", 1, Row(0, TRUE))
  /\ \/ /\ version' = 1
        /\ guessed' = (guessed \/ version \notin {NoEntry, 1})
        /\ UNCHANGED redisErrors
     \/ /\ RedisFails
        /\ guessed' = TRUE
        /\ UNCHANGED version
  /\ UNCHANGED <<subject, row, entry, list, writer, bumped>>

\* A hit ends the read; a miss and an error go to the database.
LookUp(r) ==
  LET found == IF reader[r].key = "list" THEN list[reader[r].ver] ELSE entry[reader[r].key]
  IN  /\ reader[r].pc = "get"
      /\ \/ /\ reader' = [reader EXCEPT ![r] =
                 IF found # NoEntry THEN NotReading ELSE Reading("db", @.key, @.ver, @.seen)]
            /\ UNCHANGED redisErrors
         \/ RedisFails /\ To(r, "db", reader[r].ver, Row(0, TRUE))
      /\ UNCHANGED <<subject, row, entry, version, list, writer, bumped, guessed>>

ReadRow(r) ==
  /\ reader[r].pc = "db"
  /\ To(r, "fill", reader[r].ver, row)
  /\ UNCHANGED <<subject, row, entry, version, list, writer, bumped, guessed, redisErrors>>

\* The result goes under the key the lookup used; a missing question is stored
\* as "__NULL__".
Fill(r) ==
  LET k == reader[r].key
      found == Stored(reader[r].seen.at, "reader")
  IN  /\ reader[r].pc = "fill"
      /\ \/ /\ IF k = "list"
               THEN list' = [list EXCEPT ![reader[r].ver] = found] /\ UNCHANGED entry
               ELSE /\ entry' = [entry EXCEPT ![k] =
                         IF k = "counts" \/ reader[r].seen.live THEN found ELSE NoEntry]
                    /\ UNCHANGED list
            /\ UNCHANGED redisErrors
         \/ RedisFails /\ UNCHANGED <<entry, list>>
      /\ reader' = [reader EXCEPT ![r] = NotReading]
      /\ UNCHANGED <<subject, row, version, writer, bumped, guessed>>

\* An entry stored with SET.
BugHasTtl(k) == k = "list"

\* Every entry and every list is stored with SETEX; the version key is not.
HasTtl(k) == k \in EntryKeys \cup {"list"}

Expire(k) ==
  /\ HasTtl(k)
  /\ \/ /\ k # "list" /\ entry[k] # NoEntry
        /\ entry' = [entry EXCEPT ![k] = NoEntry] /\ UNCHANGED list
     \/ /\ k = "list" /\ \E v \in Versions : list[v] # NoEntry /\ list' = [list EXCEPT ![v] = NoEntry]
        /\ UNCHANGED entry
  /\ UNCHANGED <<subject, row, version, writer, reader, bumped, guessed, redisErrors>>

ReaderStep(r) == ReadVersion(r) \/ InitVersion(r) \/ LookUp(r) \/ ReadRow(r) \/ Fill(r)

CacheNext ==
  \/ \E w \in Writers : CacheCall(w) \/ \E op \in Ops : Commit(w, op)
  \/ \E r \in Readers : ReaderStep(r) \/ \E k \in ReadKeys : StartRead(r, k)
  \/ \E k \in EntryKeys \cup {"list"} : Expire(k)

CacheSpec == CacheInit /\ [][CacheNext]_cacheVars

-----------------------------------------------------------------------------
CacheTypeOK ==
  /\ subject \in {"question", "solution", "record"}
  /\ row \in [at : 0 .. MaxWrites, live : BOOLEAN]
  /\ entry \in [EntryKeys -> [at : 0 .. MaxWrites, by : {"reader", "writer"}] \cup {NoEntry}]
  /\ version \in Versions \cup {NoEntry}
  /\ list \in [Versions -> [at : 0 .. MaxWrites, by : {"reader"}] \cup {NoEntry}]
  /\ writer \in [Writers -> [todo : Seq({"put", "drop", "bump"}), at : 0 .. MaxWrites]]
  /\ reader \in [Readers -> [pc : {"idle", "version", "init", "get", "db", "fill"},
                             key : EntryKeys \cup {"list"}, ver : Versions,
                             seen : [at : 0 .. MaxWrites, live : BOOLEAN]]]
  /\ bumped \in 0 .. MaxWrites /\ guessed \in BOOLEAN /\ redisErrors \in 0 .. MaxRedisErrors

\* "Writes increment the version, so that old lists are no longer used"
\* (README): once the increment of a write is done, no list under the current
\* version misses that write, however the readers were interleaved, unless a
\* reader took version 1 for the version (an error, or a SET after an INCR).
ListsAreCurrent ==
  ~guessed /\ version # NoEntry /\ list[version] # NoEntry => list[version].at >= bumped

\* SaveQuestion overwrites the entry of the question instead of deleting it.
\* While Redis works, two saves never leave the older one in the cache: a stale
\* entry that no writer is about to replace came from a reader.
StaleOnlyFromReaders ==
  LET e == entry["detail"]
  IN  redisErrors = 0 /\ e # NoEntry /\ (\A w \in Writers : ~Writing(w)) /\ e.at # row.at
        => e.by = "reader"

Fresh ==
  /\ \A k \in EntryKeys : entry[k] # NoEntry => entry[k].at = row.at
  /\ version # NoEntry /\ list[version] # NoEntry => list[version].at = row.at

\* A stale entry heals: once the writes stop, everything Redis serves is current
\* from some point on, although a slow reader may store an old value after the
\* deletion and a deletion or an increment may fail.
EventuallyFresh == <>[]Fresh
=============================================================================
