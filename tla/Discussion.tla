----------------------------- MODULE Discussion -----------------------------
(***************************************************************************)
(* The interactions on one solution: likes, favourites and comments.       *)
(* Each operation of model_comment.hpp and ModelSolution's toggle is one   *)
(* MySQL transaction: rows are read FOR UPDATE one after the other, whole  *)
(* rows are written back, and the writes show at the commit.  Row 0 is the *)
(* solution, row n the comment with id n (AUTO_INCREMENT, never reused).   *)
(*                                                                         *)
(* A request names a comment it once saw: ControlComment reads it through  *)
(* a cache, so it may be gone by the time the transaction starts.  The     *)
(* author of a comment never changes: that only its author or an admin may *)
(* change it is settled before.  Texts and dates are left out.  The cache  *)
(* calls after a commit touch no row: they are in ContentCache.            *)
(*                                                                         *)
(* A user may delete the account; the foreign keys of the schema take the  *)
(* comments and the comment actions along.                                 *)
(***************************************************************************)
EXTENDS Naturals, Sequences, FiniteSets

CONSTANTS
  Sessions,       \* requests under way, each with a connection of its own
  Users,          \* users without a solution of their own
  Kinds,          \* action_type: like, favorite
  MaxComments,    \* bound: comments ever created
  CountMax,       \* std::numeric_limits<uint32_t>::max()
  Nobody

ASSUME DiscussionConstants ==
  /\ IsFiniteSet(Sessions) /\ IsFiniteSet(Users)
  /\ MaxComments \in Nat /\ CountMax \in Nat

VARIABLES
  accounts,       \* users that have a row
  parentOf,       \* parentOf[c]: parent_id of comment c, 0 for NULL
  authorOf,       \* authorOf[c]: user_id of comment c
  alive,          \* comments that have a row
  count,          \* count[r][k]: like_count and favorite_count of row r
  commentCount,   \* comment_count of the solution
  acts,           \* <<r, u, k>>: rows of solution_actions and comment_actions
  tx,             \* tx[s]: the transaction of s
  held            \* held[s]: the rows s has locked

discussionVars == <<accounts, parentOf, authorOf, alive, count, commentCount, acts, tx, held>>

Solution == 0
Ids == 1 .. Len(parentOf)
Rows == {Solution} \cup 1 .. MaxComments

Counters == [Kinds -> 0 .. CountMax]
Zero == [k \in Kinds |-> 0]

\* next is the locking read to come, or the write; row and comments are what has
\* been read of the row to write.
Tx(op, next, id, user, kind, row, comments) ==
  [op |-> op, next |-> next, id |-> id, user |-> user, kind |-> kind,
   row |-> row, comments |-> comments]

NoTx == Tx("none", "none", 0, Nobody, Nobody, Zero, 0)

DiscussionInit ==
  /\ accounts = Users
  /\ parentOf = <<>> /\ authorOf = <<>> /\ alive = {} /\ commentCount = 0 /\ acts = {}
  /\ count = [r \in Rows |-> Zero]
  /\ tx = [s \in Sessions |-> NoTx]
  /\ held = [s \in Sessions |-> {}]

Children(c) == {d \in alive : parentOf[d] = c}

-----------------------------------------------------------------------------
\* Row locks.

\* The row s asks for next: a comment, the solution, or the first child of the
\* comment it deletes that it has not locked yet.
Wanted(s) ==
  LET rest == Children(tx[s].id) \ held[s]
  IN  IF tx[s].next = "comment" THEN {tx[s].id}
      ELSE IF tx[s].next = "solution" THEN {Solution}
      ELSE IF tx[s].next = "replies" THEN {d \in rest : \A e \in rest : d <= e}
      ELSE {}

WaitsFor(s, t) == s # t /\ Wanted(s) \cap held[t] # {}

\* The transactions that wait for themselves, over others: s is in every set that
\* has whom s waits for and whom its members wait for.
InCycle ==
  {s \in Sessions : \A S \in SUBSET Sessions :
     (\A u \in S \cup {s}, t \in Sessions : WaitsFor(u, t) => t \in S) => s \in S}

\* A SELECT without FOR UPDATE.
BugForUpdate(s, r) == UNCHANGED held

\* FOR UPDATE: waits while another transaction holds the row.
ForUpdate(s, r) ==
  /\ \A t \in Sessions \ {s} : r \notin held[t]
  /\ held' = [held EXCEPT ![s] = @ \cup {r}]

\* An early return that leaves the transaction open.
BugEnd(s) ==
  /\ tx' = [tx EXCEPT ![s] = NoTx]
  /\ UNCHANGED held

\* The end of a transaction, committed or rolled back.
End(s) ==
  /\ tx' = [tx EXCEPT ![s] = NoTx]
  /\ held' = [held EXCEPT ![s] = {}]

-----------------------------------------------------------------------------
\* The requests.

\* A CreateComment that locks the solution before the parent.
BugAfter(op, id, last) ==
  IF last = "begin" THEN IF op \in {"toggle_solution", "create"} THEN "solution" ELSE "comment"
  ELSE IF last = "comment" /\ op = "delete" THEN "solution"
  ELSE IF last = "solution" /\ op = "create" /\ id # 0 THEN "comment"
  ELSE IF last = "solution" /\ op = "delete" THEN "replies"
  ELSE "write"

\* The order in which an operation reads rows FOR UPDATE: what comes after last.
After(op, id, last) ==
  IF last = "begin"
  THEN IF op = "toggle_solution" \/ (op = "create" /\ id = 0) THEN "solution" ELSE "comment"
  ELSE IF last = "comment" /\ op \in {"create", "delete"} THEN "solution"
  ELSE IF last = "solution" /\ op = "delete" THEN "replies"
  ELSE "write"

Begin(s, op, id, user, kind) ==
  /\ tx[s] = NoTx
  /\ tx' = [tx EXCEPT ![s] = Tx(op, After(op, id, "begin"), id, user, kind, Zero, 0)]
  /\ UNCHANGED <<accounts, parentOf, authorOf, alive, count, commentCount, acts, held>>

BeginToggleSolution(s, u, k) == Begin(s, "toggle_solution", Solution, u, k)

BeginToggleComment(s, c, u, k) == Begin(s, "toggle_comment", c, u, k)

BeginEdit(s, c) == Begin(s, "update", c, Nobody, Nobody)

BeginDelete(s, c) == Begin(s, "delete", c, Nobody, Nobody)

\* A reply to a reply that is filed under the reply.
BugRoot(p) == p

\* "If replying to a reply, elevate to top-level parent".
Root(p) == IF p # 0 /\ parentOf[p] > 0 THEN parentOf[p] ELSE p

BeginCreate(s, p, u) ==
  /\ Len(parentOf) + Cardinality({t \in Sessions : tx[t].op = "create"})
       < MaxComments
  /\ Begin(s, "create", Root(p), u, Nobody)

-----------------------------------------------------------------------------
\* The steps of a transaction.

\* The comment row; a row that is gone ends the request.
LockComment(s) ==
  LET t == tx[s]
  IN  /\ t.next = "comment"
      /\ IF t.id \in alive
         THEN /\ ForUpdate(s, t.id)
              /\ tx' = [tx EXCEPT ![s] = Tx(t.op, After(t.op, t.id, "comment"), t.id, t.user,
                                            t.kind, count[t.id], t.comments)]
         ELSE /\ \A u \in Sessions \ {s} : t.id \notin held[u]
              /\ End(s)
      /\ UNCHANGED <<accounts, parentOf, authorOf, alive, count, commentCount, acts>>

\* The solution row: the comment operations lock it after the comment.
LockSolution(s) ==
  LET t == tx[s]
  IN  /\ t.next = "solution"
      /\ ForUpdate(s, Solution)
      /\ tx' = [tx EXCEPT ![s] = Tx(t.op, After(t.op, t.id, "solution"), t.id, t.user,
                                    t.kind, count[Solution], commentCount)]
      /\ UNCHANGED <<accounts, parentOf, authorOf, alive, count, commentCount, acts>>

\* DeleteComment reads the replies FOR UPDATE, while it holds the solution.
LockReply(s) ==
  /\ tx[s].next = "replies"
  /\ \E d \in Wanted(s) : ForUpdate(s, d)
  /\ UNCHANGED <<accounts, parentOf, authorOf, alive, count, commentCount, acts, tx>>

\* A counter that can go no further.
AtLimit(n) == n = CountMax

\* The two toggles: the action row, the counter, and the whole row.  The action
\* of a user who is gone cannot be stored.
CommitToggle(s) ==
  LET t == tx[s]
      act == <<t.id, t.user, t.kind>>
      n == t.row[t.kind]
  IN  /\ t.next = "write" /\ t.op \in {"toggle_solution", "toggle_comment"}
      /\ IF t.user \notin accounts \/ (act \notin acts /\ AtLimit(n))
         THEN UNCHANGED <<acts, count, commentCount>>
         ELSE /\ acts' = IF act \in acts THEN acts \ {act} ELSE acts \cup {act}
              /\ count' = [count EXCEPT ![t.id] = [t.row EXCEPT ![t.kind] =
                   IF act \notin acts THEN n + 1 ELSE IF n > 0 THEN n - 1 ELSE n]]
              /\ commentCount' = IF t.id = Solution THEN t.comments ELSE commentCount
      /\ End(s)
      /\ UNCHANGED <<accounts, parentOf, authorOf, alive>>

\* UpdateComment: the text is new, the counters are written back.
CommitEdit(s) ==
  /\ tx[s].next = "write" /\ tx[s].op = "update"
  /\ count' = [count EXCEPT ![tx[s].id] = tx[s].row]
  /\ End(s)
  /\ UNCHANGED <<accounts, parentOf, authorOf, alive, commentCount, acts>>

\* CreateComment: the new row; a top-level comment is counted.
CommitCreate(s) ==
  LET t == tx[s]
      top == t.id = 0
  IN  /\ t.next = "write" /\ t.op = "create"
      /\ IF t.user \notin accounts \/ (top /\ AtLimit(t.comments))
         THEN UNCHANGED <<parentOf, authorOf, alive, count, commentCount>>
         ELSE /\ parentOf' = Append(parentOf, t.id) /\ authorOf' = Append(authorOf, t.user)
              /\ alive' = alive \cup {Len(parentOf) + 1}
              /\ commentCount' = IF top THEN t.comments + 1 ELSE commentCount
              /\ count' = IF top THEN [count EXCEPT ![Solution] = t.row] ELSE count
      /\ End(s)
      /\ UNCHANGED <<accounts, acts>>

\* What DeleteComment erases: the replies, then the comment.
Erased(c) == Children(c) \cup {c}

\* DeleteComment: the actions of what is erased go with it.
CommitDelete(s) ==
  LET t == tx[s]
      c == t.id
  IN  /\ t.next = "replies" /\ Wanted(s) = {}
      /\ alive' = alive \ Erased(c)
      /\ acts' = {a \in acts : a[1] \notin Erased(c)}
      /\ IF parentOf[c] = 0
         THEN /\ commentCount' = IF t.comments > 0 THEN t.comments - 1 ELSE 0
              /\ count' = [r \in Rows |-> IF r \in Erased(c) THEN Zero
                                          ELSE IF r = Solution THEN t.row ELSE count[r]]
         ELSE /\ count' = [r \in Rows |-> IF r \in Erased(c) THEN Zero ELSE count[r]]
              /\ UNCHANGED commentCount
      /\ End(s)
      /\ UNCHANGED <<accounts, parentOf, authorOf>>

\* DeleteUserByEmail erases the row of the user.  The foreign keys take the
\* comments and comment actions along and refuse while there is a solution
\* action; no counter is touched and no reply follows its parent.
DeleteUser(u) ==
  LET gone == {c \in alive : authorOf[c] = u}
  IN  /\ u \in accounts
      /\ \A k \in Kinds : <<Solution, u, k>> \notin acts
      /\ \A s \in Sessions : held[s] \cap gone = {}
      /\ accounts' = accounts \ {u}
      /\ alive' = alive \ gone
      /\ acts' = {a \in acts : a[1] \notin gone /\ a[2] # u}
      /\ count' = [r \in Rows |-> IF r \in gone THEN Zero ELSE count[r]]
      /\ UNCHANGED <<parentOf, authorOf, commentCount, tx, held>>

\* An exception.
Rollback(s) ==
  /\ tx[s] # NoTx
  /\ End(s)
  /\ UNCHANGED <<accounts, parentOf, authorOf, alive, count, commentCount, acts>>

\* InnoDB rolls back one transaction of a cycle of waits.
DeadlockVictim(s) ==
  /\ s \in InCycle
  /\ Rollback(s)

Request(s) ==
  \/ \E c \in Ids : BeginEdit(s, c) \/ BeginDelete(s, c)
  \/ \E u \in accounts :
       \/ \E p \in {0} \cup Ids : BeginCreate(s, p, u)
       \/ \E k \in Kinds : \/ BeginToggleSolution(s, u, k)
                           \/ \E c \in Ids : BeginToggleComment(s, c, u, k)

LockStep(s) == LockComment(s) \/ LockSolution(s) \/ LockReply(s)

CommitStep(s) == CommitToggle(s) \/ CommitEdit(s) \/ CommitCreate(s) \/ CommitDelete(s)

DiscussionNext ==
  \/ \E s \in Sessions : Request(s) \/ LockStep(s) \/ CommitStep(s) \/ Rollback(s) \/ DeadlockVictim(s)
  \/ \E u \in Users : DeleteUser(u)

DiscussionSpec == DiscussionInit /\ [][DiscussionNext]_discussionVars

-----------------------------------------------------------------------------
DiscussionTypeOK ==
  /\ parentOf \in Seq(0 .. MaxComments) /\ Len(parentOf) <= MaxComments
  /\ accounts \subseteq Users /\ authorOf \in Seq(Users) /\ Len(authorOf) = Len(parentOf)
  /\ alive \subseteq Ids
  /\ count \in [Rows -> Counters] /\ commentCount \in 0 .. CountMax
  /\ acts \subseteq Rows \X Users \X Kinds
  /\ tx \in [Sessions -> [op : {"none", "toggle_solution", "toggle_comment", "update", "delete", "create"},
                          next : {"none", "comment", "solution", "replies", "write"},
                          id : Rows, user : Users \cup {Nobody}, kind : Kinds \cup {Nobody},
                          row : Counters, comments : 0 .. CountMax]]
  /\ held \in [Sessions -> SUBSET Rows]

Likes(r, k) == Cardinality({u \in Users : <<r, u, k>> \in acts})

\* The counters kept in the rows are what a count of the rows would give
\* ("like_count ... number of likes", "comment_count ... number of comments",
\* sql/solutions.sql and sql/solution_comments.sql): the likes and favourites of
\* the solution and of every comment, and the top-level comments.
CountsAreExact ==
  /\ \A r \in {Solution} \cup alive, k \in Kinds : count[r][k] = Likes(r, k)
  /\ commentCount = Cardinality(Children(0))

\* Whole rows are written back after they were read, and yet no counter loses an
\* update: until an account is deleted the counters are exact, and they never
\* fall below the number of rows.
CountsMatchRows ==
  /\ accounts = Users => CountsAreExact
  /\ \A r \in {Solution} \cup alive, k \in Kinds : count[r][k] >= Likes(r, k)
  /\ commentCount >= Cardinality(Children(0))

\* Comments have two levels ("at most two levels: top-level comments and nested
\* ones", control_comment.hpp), and no reply or action outlives its comment,
\* although the parent was looked up before the transaction; the replies to a
\* deleted account's comment are the only ones left behind.
TwoLevels ==
  /\ \A c \in alive : LET p == parentOf[c] IN
       p # 0 => parentOf[p] = 0 /\ (p \in alive \/ authorOf[p] \notin accounts)
  /\ \A a \in acts : a[1] \in {Solution} \cup alive

\* Transactions wait for each other in a cycle only where one of them deletes a
\* comment, holds the solution and waits for a reply: all the other locks are
\* taken in the order comment, solution.
CyclesOnlyAtReplies ==
  InCycle # {} => \E s \in InCycle : tx[s].next = "replies"

\* Every transaction ends and gives its rows back, whatever it waits for.
TransactionsEnd == \A s \in Sessions : []<>(tx[s] = NoTx)
=============================================================================
