-------------------------- MODULE DiscussionProofs --------------------------
(***************************************************************************)
(* Comments, likes and their counters.  For any number of transactions,    *)
(* users and comments, the counters kept beside likes and comments lose no *)
(* update, comments have two levels, and transactions wait for each other in *)
(* a cycle only where a comment is deleted with its replies                *)
(* (model_comment.hpp, control_comment.hpp).                               *)
(***************************************************************************)
EXTENDS Discussion, TLAPS, FiniteSetTheorems, WellFoundedInduction

\* A leaf that names no prover goes to SMT, to Zenon, and to SMT with more time.
USE SMTT(10), Zenon, SMTT(20)

\* The operations, and the steps of a transaction.
TxOps == {"none", "toggle_solution", "toggle_comment", "update", "delete", "create"}
Nexts == {"none", "comment", "solution", "replies", "write"}

\* A transaction.
TxType == [op : TxOps, next : Nexts, id : Rows, user : Users \cup {Nobody},
           kind : Kinds \cup {Nobody}, row : Counters, comments : 0 .. CountMax]

\* The types of the variables.
DiscussionTypes ==
  /\ parentOf \in Seq(0 .. MaxComments)
  /\ accounts \subseteq Users /\ authorOf \in Seq(Users) /\ Len(authorOf) = Len(parentOf)
  /\ alive \subseteq Ids
  /\ count \in [Rows -> Counters] /\ commentCount \in 0 .. CountMax
  /\ acts \subseteq Rows \X Users \X Kinds
  /\ tx \in [Sessions -> TxType]
  /\ held \in [Sessions -> SUBSET Rows]

\* The requests that may still create a comment, within the bound.
Creating == {s \in Sessions : tx[s].op = "create"}

\* ... fit into what is left of it.
BoundPart == Len(parentOf) + Cardinality(Creating) <= MaxComments

\* A row is locked by one transaction.
LockPart == \A s, t \in Sessions : s # t => held[s] \cap held[t] = {}

\* What a request is about: a comment that once was, ...
AboutComment(s) ==
  tx[s].op \in {"toggle_comment", "update", "delete"} => tx[s].id \in Ids

\* ... for a user, who may be gone by now, ...
AboutActor(s) ==
  /\ tx[s].op \in {"toggle_solution", "toggle_comment"} => tx[s].user \in Users /\ tx[s].kind \in Kinds
  /\ tx[s].op = "create" => tx[s].user \in Users

\* ... or the solution; a new comment goes there or under a top-level one.
AboutSolution(s) ==
  /\ tx[s].op = "toggle_solution" => tx[s].id = 0 /\ tx[s].next \in {"solution", "write"}
  /\ tx[s].op = "create" => /\ tx[s].id \in {0} \cup Ids
                            /\ tx[s].id # 0 => parentOf[tx[s].id] = 0
                            /\ tx[s].id = 0 => tx[s].next \in {"solution", "write"}

\* The order in which it locks.
OrderOf(s) ==
  /\ tx[s].op \in {"toggle_comment", "update"} => tx[s].next \in {"comment", "write"}
  /\ tx[s].op = "delete" => tx[s].next \in {"comment", "solution", "replies"}
  /\ tx[s].next = "replies" => tx[s].op = "delete"
  /\ tx[s].op = "none" => tx[s].next = "none"

\* The comment it has locked has a row, ...
HoldsComment(s) ==
  \/ tx[s].op \in {"toggle_comment", "update"} /\ tx[s].next = "write"
  \/ tx[s].op \in {"create", "delete"} /\ tx[s].id # 0 /\ tx[s].next \in {"solution", "write", "replies"}

\* ... and so has the solution it has locked.
HoldsSolution(s) ==
  \/ tx[s].op \in {"toggle_solution", "create"} /\ tx[s].next = "write"
  \/ tx[s].next = "replies"

\* What a transaction knows of the rows it has locked.
ReadPart(s) ==
  /\ HoldsComment(s) => tx[s].id \in held[s] /\ tx[s].id \in alive
  /\ HoldsSolution(s) => /\ Solution \in held[s] /\ tx[s].row = count[Solution]
                         /\ tx[s].comments = commentCount
  /\ tx[s].op \in {"toggle_comment", "update"} /\ tx[s].next = "write" => tx[s].row = count[tx[s].id]

\* All of it, for one transaction, ...
TxOK(s) == AboutComment(s) /\ AboutActor(s) /\ AboutSolution(s) /\ OrderOf(s) /\ ReadPart(s)

\* ... and for every one.
TxPart == \A s \in Sessions : TxOK(s)

\* Replies are filed under top-level comments, deleted ones included.
LevelPart ==
  \A c \in Ids : parentOf[c] # 0 =>
    parentOf[c] \in Ids /\ parentOf[parentOf[c]] = 0

\* A comment without a row has no likes.
UnusedPart == \A r \in Rows : r # Solution /\ r \notin alive => count[r] = Zero

\* The inductive invariant.
DiscussionInv ==
  /\ DiscussionTypes /\ BoundPart /\ LockPart /\ TxPart /\ LevelPart /\ UnusedPart
  /\ TwoLevels /\ CountsMatchRows

-----------------------------------------------------------------------------
\* What does not change while no transaction commits and no account is deleted.
dataVars == <<accounts, parentOf, authorOf, alive, count, commentCount, acts>>

\* The fields of a transaction.
LEMMA TxFields ==
  \A op, next, id, user, kind, counters, comments :
    LET t == Tx(op, next, id, user, kind, counters, comments)
    IN  /\ t.op = op /\ t.next = next /\ t.id = id /\ t.user = user /\ t.kind = kind
        /\ t.row = counters /\ t.comments = comments
BY DEF Tx

\* A transaction in its type.
LEMMA TxTypes ==
  ASSUME NEW op \in TxOps, NEW next \in Nexts, NEW id \in Rows, NEW user \in Users \cup {Nobody},
         NEW kind \in Kinds \cup {Nobody}, NEW counters \in Counters, NEW comments \in 0 .. CountMax
  PROVE  Tx(op, next, id, user, kind, counters, comments) \in TxType
BY DEF Tx, TxType

\* ... has its fields in theirs.
LEMMA TxParts ==
  ASSUME NEW t \in TxType
  PROVE  /\ t.op \in TxOps /\ t.next \in Nexts /\ t.id \in Rows /\ t.user \in Users \cup {Nobody}
         /\ t.kind \in Kinds \cup {Nobody} /\ t.row \in Counters /\ t.comments \in 0 .. CountMax
BY DEF TxType

\* No transaction.
LEMMA NoTxFacts ==
  /\ NoTx \in TxType /\ NoTx.op = "none" /\ NoTx.next = "none"
  /\ Zero \in Counters /\ \A k \in Kinds : Zero[k] = 0
<1>1. Zero \in Counters /\ \A k \in Kinds : Zero[k] = 0
  BY DiscussionConstants DEF Zero, Counters
<1>2. 0 \in Rows /\ 0 \in 0 .. CountMax /\ "none" \in TxOps /\ "none" \in Nexts
  BY DiscussionConstants DEF Rows, Solution, TxOps, Nexts
<1> QED
  BY <1>1, <1>2, TxTypes, TxFields DEF NoTx

\* The ids that are in use.
LEMMA IdFacts ==
  ASSUME DiscussionTypes, BoundPart
  PROVE  /\ Len(parentOf) \in 0 .. MaxComments
         /\ \A c : c \in Ids <=> c \in Nat /\ 1 <= c /\ c <= Len(parentOf)
         /\ \A c \in Ids : c \in Rows /\ c # 0 /\ parentOf[c] \in 0 .. MaxComments
         /\ \A c \in Ids : authorOf[c] \in Users
         /\ Ids \subseteq Rows /\ alive \subseteq Rows /\ 0 \notin alive
         /\ Solution = 0 /\ Solution \in Rows
         /\ IsFiniteSet(alive) /\ IsFiniteSet(Creating) /\ Cardinality(Creating) \in Nat
<1>1. IsFiniteSet(Creating)
  BY DiscussionConstants, FS_Subset DEF Creating
<1>2. Cardinality(Creating) \in Nat
  BY <1>1, FS_CardinalityType
<1>3. Len(parentOf) \in Nat /\ Len(parentOf) <= MaxComments
  BY <1>2, DiscussionConstants DEF DiscussionTypes, BoundPart
<1>4. \A c : c \in Ids <=> c \in Nat /\ 1 <= c /\ c <= Len(parentOf)
  BY <1>3 DEF Ids
<1>5. \A c \in Ids : c \in Rows /\ c # 0 /\ parentOf[c] \in 0 .. MaxComments
  BY <1>3, <1>4, DiscussionConstants DEF Rows, DiscussionTypes
<1>6. \A c \in Ids : authorOf[c] \in Users
  BY <1>3, <1>4 DEF DiscussionTypes
<1>7. IsFiniteSet(Ids)
  BY <1>3, FS_Interval DEF Ids
<1>8. IsFiniteSet(alive)
  BY <1>7, FS_Subset DEF DiscussionTypes
<1> QED
  BY <1>1, <1>2, <1>3, <1>4, <1>5, <1>6, <1>8, DiscussionConstants
  DEF DiscussionTypes, Rows, Solution

\* One transaction moves on.
LEMMA TxMoves ==
  ASSUME DiscussionTypes, NEW s \in Sessions, NEW t \in TxType, tx' = [tx EXCEPT ![s] = t]
  PROVE  /\ tx' \in [Sessions -> TxType] /\ tx'[s] = t
         /\ \A u \in Sessions : u # s => tx'[u] = tx[u]
BY DEF DiscussionTypes

\* The locks of one transaction change.
LEMMA HeldMoves ==
  ASSUME DiscussionTypes, NEW s \in Sessions, NEW h \in SUBSET Rows, held' = [held EXCEPT ![s] = h]
  PROVE  /\ held' \in [Sessions -> SUBSET Rows] /\ held'[s] = h
         /\ \A u \in Sessions : u # s => held'[u] = held[u]
BY DEF DiscussionTypes

\* Rows nobody changes keep what is said about them.
LEMMA DataStays ==
  ASSUME DiscussionInv, UNCHANGED dataVars
  PROVE  /\ LevelPart' /\ UnusedPart' /\ TwoLevels' /\ CountsMatchRows'
         /\ Ids' = Ids /\ Len(parentOf') = Len(parentOf)
         /\ parentOf' \in Seq(0 .. MaxComments)
         /\ accounts' \subseteq Users /\ authorOf' \in Seq(Users) /\ Len(authorOf') = Len(parentOf')
         /\ alive' \subseteq Ids'
         /\ count' \in [Rows -> Counters] /\ commentCount' \in 0 .. CountMax
         /\ acts' \subseteq Rows \X Users \X Kinds
<1>1. /\ accounts' = accounts /\ parentOf' = parentOf /\ authorOf' = authorOf /\ alive' = alive
      /\ count' = count /\ commentCount' = commentCount /\ acts' = acts
  BY DEF dataVars
<1>2. Ids' = Ids
  BY <1>1 DEF Ids
<1>3. LevelPart' /\ UnusedPart'
  BY <1>1, <1>2 DEF DiscussionInv, LevelPart, UnusedPart
<1>4. TwoLevels'
  BY <1>1 DEF DiscussionInv, TwoLevels
<1>5. CountsMatchRows'
  BY <1>1 DEF DiscussionInv, CountsMatchRows, CountsAreExact, Likes, Children
<1> QED
  BY <1>1, <1>2, <1>3, <1>4, <1>5 DEF DiscussionInv, DiscussionTypes

\* A transaction keeps what it knows as long as the rows it has locked stay.
LEMMA OthersKeep ==
  ASSUME DiscussionTypes, BoundPart, NEW u \in Sessions, TxOK(u),
         tx'[u] = tx[u], held'[u] = held[u],
         \A c \in Ids : c \in Ids' /\ parentOf'[c] = parentOf[c],
         \A r \in held[u] : count'[r] = count[r] /\ (r \in alive => r \in alive'),
         Solution \in held[u] => commentCount' = commentCount
  PROVE  TxOK(u)'
<1>1. AboutComment(u)' /\ AboutActor(u)' /\ OrderOf(u)'
  BY DEF TxOK, AboutComment, AboutActor, OrderOf
<1>2. AboutSolution(u)'
  BY DEF TxOK, AboutSolution
<1>3. (HoldsComment(u)' <=> HoldsComment(u)) /\ (HoldsSolution(u)' <=> HoldsSolution(u))
  BY DEF HoldsComment, HoldsSolution
<1>4. /\ HoldsComment(u) => tx[u].id \in held[u] /\ tx[u].id \in alive'
      /\ HoldsSolution(u) => /\ Solution \in held[u] /\ tx[u].row = count'[Solution]
                             /\ tx[u].comments = commentCount'
  BY DEF TxOK, ReadPart
<1>5. tx[u].op \in {"toggle_comment", "update"} /\ tx[u].next = "write" => tx[u].row = count'[tx[u].id]
  BY DEF TxOK, ReadPart, HoldsComment
<1>6. ReadPart(u)'
  BY <1>3, <1>4, <1>5 DEF ReadPart
<1> QED
  BY <1>1, <1>2, <1>6 DEF TxOK

\* A request whose rows are untouched and whose transaction has not begun is fine.
LEMMA NoTxOK ==
  ASSUME NEW s \in Sessions, tx'[s] = NoTx
  PROVE  TxOK(s)'
BY NoTxFacts DEF TxOK, AboutComment, AboutActor, AboutSolution, OrderOf, ReadPart,
   HoldsComment, HoldsSolution

\* Who is about to create a comment, ...
LEMMA CreatingSame ==
  ASSUME DiscussionTypes, NEW s \in Sessions, \A u \in Sessions : u # s => tx'[u] = tx[u],
         tx'[s].op = "create" <=> tx[s].op = "create"
  PROVE  Creating' = Creating
BY DEF Creating

\* ... when a transaction begins, ...
LEMMA CreatingMore ==
  ASSUME DiscussionTypes, NEW s \in Sessions, \A u \in Sessions : u # s => tx'[u] = tx[u],
         tx'[s].op = "create", tx[s].op # "create"
  PROVE  /\ IsFiniteSet(Creating) /\ Cardinality(Creating) \in Nat
         /\ Cardinality(Creating') = Cardinality(Creating) + 1
<1>1. IsFiniteSet(Creating)
  BY DiscussionConstants, FS_Subset DEF Creating
<1>2. Creating' = Creating \cup {s} /\ s \notin Creating
  BY DEF Creating
<1> QED
  BY <1>1, <1>2, FS_AddElement, FS_CardinalityType, Zenon

\* ... and when it ends.
LEMMA CreatingLess ==
  ASSUME DiscussionTypes, NEW s \in Sessions, \A u \in Sessions : u # s => tx'[u] = tx[u],
         tx'[s].op # "create"
  PROVE  /\ IsFiniteSet(Creating) /\ Cardinality(Creating) \in Nat /\ Cardinality(Creating') \in Nat
         /\ Cardinality(Creating') <= Cardinality(Creating)
         /\ tx[s].op = "create" => Cardinality(Creating') = Cardinality(Creating) - 1
<1>1. IsFiniteSet(Creating) /\ IsFiniteSet(Creating')
  BY DiscussionConstants, FS_Subset DEF Creating
<1>2. Creating' = Creating \ {s} /\ (tx[s].op = "create" <=> s \in Creating)
  BY DEF Creating
<1>3. Cardinality(Creating) \in Nat /\ Cardinality(Creating') \in Nat
  BY <1>1, FS_CardinalityType
<1>4. s \in Creating => Cardinality(Creating') = Cardinality(Creating) - 1
  BY <1>1, <1>2, FS_RemoveElement
<1>5. s \notin Creating => Cardinality(Creating') = Cardinality(Creating)
  <2>1. s \notin Creating => Creating' = Creating
    BY <1>2
  <2> QED
    BY <2>1
<1>6. Cardinality(Creating') <= Cardinality(Creating)
  BY <1>3, <1>4, <1>5
<1> QED
  BY <1>1, <1>2, <1>3, <1>4, <1>6

-----------------------------------------------------------------------------
\* A transaction that does not write and takes no lock from another keeps the
\* invariant if what it knows is right.
LEMMA QuietStep ==
  ASSUME DiscussionInv, UNCHANGED dataVars, NEW s \in Sessions,
         tx' \in [Sessions -> TxType], \A u \in Sessions : u # s => tx'[u] = tx[u],
         held' \in [Sessions -> SUBSET Rows], \A u \in Sessions : u # s => held'[u] = held[u],
         \A u \in Sessions : u # s => held'[s] \cap held[u] = {},
         TxOK(s)', Len(parentOf) + Cardinality(Creating') <= MaxComments
  PROVE  DiscussionInv'
<1>1. /\ LevelPart' /\ UnusedPart' /\ TwoLevels' /\ CountsMatchRows'
      /\ Ids' = Ids /\ Len(parentOf') = Len(parentOf)
  BY DataStays
<1>2. DiscussionTypes'
  BY DataStays DEF DiscussionTypes
<1>3. BoundPart'
  BY <1>1 DEF BoundPart
<1>4. LockPart'
  BY DEF DiscussionInv, LockPart
<1>5. ASSUME NEW u \in Sessions, u # s PROVE TxOK(u)'
  <2>1. DiscussionTypes /\ BoundPart /\ TxOK(u)
    BY DEF DiscussionInv, TxPart
  <2>2. tx'[u] = tx[u] /\ held'[u] = held[u]
    BY <1>5
  <2>3. parentOf' = parentOf /\ count' = count /\ alive' = alive /\ commentCount' = commentCount
    BY DEF dataVars
  <2> QED
    BY <1>1, <2>1, <2>2, <2>3, OthersKeep
<1>6. TxPart'
  BY <1>5 DEF TxPart
<1> QED
  BY <1>1, <1>2, <1>3, <1>4, <1>6 DEF DiscussionInv

\* A request begins.
LEMMA BeginKeeps ==
  ASSUME DiscussionInv, NEW s \in Sessions, NEW op \in TxOps, NEW id \in Rows,
         NEW user \in Users \cup {Nobody}, NEW kind \in Kinds \cup {Nobody},
         Begin(s, op, id, user, kind),
         op # "none",
         op \in {"toggle_comment", "update", "delete"} => id \in Ids,
         op \in {"toggle_solution", "toggle_comment"} => user \in Users /\ kind \in Kinds,
         op = "toggle_solution" => id = 0,
         op = "create" => /\ user \in Users /\ id \in {0} \cup Ids
                          /\ id # 0 => parentOf[id] = 0
                          /\ Len(parentOf) + Cardinality(Creating) < MaxComments
  PROVE  DiscussionInv'
<1> DEFINE next == After(op, id, "begin")
           t == Tx(op, next, id, user, kind, Zero, 0)
<1>1. /\ tx[s] = NoTx /\ tx' = [tx EXCEPT ![s] = t] /\ held' = held
      /\ UNCHANGED dataVars
  BY DEF Begin, dataVars
<1>2. /\ next \in {"solution", "comment"} /\ next \in Nexts
      /\ next = "solution" <=> op = "toggle_solution" \/ (op = "create" /\ id = 0)
  BY DEF After, Nexts
<1>3. t \in TxType
  BY <1>2, NoTxFacts, TxTypes, DiscussionConstants
<1>4. t.op = op /\ t.next = next /\ t.id = id /\ t.user = user /\ t.kind = kind
  BY DEF Tx
<1> HIDE DEF t, next
<1>5. DiscussionTypes /\ BoundPart /\ LockPart
  BY DEF DiscussionInv
<1>6. /\ tx' \in [Sessions -> TxType] /\ tx'[s] = t
      /\ \A u \in Sessions : u # s => tx'[u] = tx[u]
  BY <1>1, <1>3, <1>5, TxMoves, Zenon
<1>7. Ids' = Ids /\ parentOf' = parentOf
  BY <1>1 DEF Ids, dataVars
<1>8. TxOK(s)'
  <2>1. AboutComment(s)' /\ AboutActor(s)'
    BY <1>4, <1>6, <1>7 DEF AboutComment, AboutActor
  <2>2. AboutSolution(s)'
    BY <1>2, <1>4, <1>6, <1>7 DEF AboutSolution
  <2>3. OrderOf(s)'
    BY <1>2, <1>4, <1>6 DEF OrderOf
  <2>4. ~HoldsComment(s)' /\ ~HoldsSolution(s)' /\ tx'[s].next # "write"
    BY <1>2, <1>4, <1>6 DEF HoldsComment, HoldsSolution
  <2>5. ReadPart(s)'
    BY <2>4 DEF ReadPart
  <2> QED
    BY <2>1, <2>2, <2>3, <2>5 DEF TxOK
<1>9. Len(parentOf) + Cardinality(Creating') <= MaxComments
  <2>1. tx[s].op = "none"
    BY <1>1, NoTxFacts
  <2>2. CASE op = "create"
    <3>1. Cardinality(Creating) \in Nat /\ Cardinality(Creating') = Cardinality(Creating) + 1
      BY <1>4, <1>5, <1>6, <2>1, <2>2, CreatingMore
    <3>2. Len(parentOf) \in Nat
      BY <1>5 DEF DiscussionTypes
    <3> QED
      BY <2>2, <3>1, <3>2, DiscussionConstants
  <2>3. CASE op # "create"
    <3>1. Creating' = Creating
      BY <1>4, <1>5, <1>6, <2>1, <2>3, CreatingSame
    <3> QED
      BY <1>5, <3>1 DEF BoundPart
  <2> QED
    BY <2>2, <2>3
<1>10. /\ held' \in [Sessions -> SUBSET Rows] /\ \A u \in Sessions : held'[u] = held[u]
       /\ \A u \in Sessions : u # s => held'[s] \cap held[u] = {}
  BY <1>1, <1>5 DEF DiscussionTypes, LockPart
<1> QED
  BY <1>1, <1>6, <1>8, <1>9, <1>10, QuietStep

\* The requests, with what they name.
LEMMA RequestKeeps ==
  ASSUME DiscussionInv, NEW s \in Sessions, Request(s)
  PROVE  DiscussionInv'
<1>1. /\ Ids \subseteq Rows /\ 0 \in Rows /\ accounts \subseteq Users /\ Solution = 0
      /\ \A c \in Ids : c # 0 /\ parentOf[c] \in 0 .. MaxComments
  BY IdFacts DEF DiscussionInv, DiscussionTypes
<1>2. ASSUME NEW c \in Ids, BeginEdit(s, c) \/ BeginDelete(s, c) PROVE DiscussionInv'
  BY <1>1, <1>2, BeginKeeps DEF BeginEdit, BeginDelete, TxOps
<1>3. ASSUME NEW u \in accounts, NEW k \in Kinds, BeginToggleSolution(s, u, k) PROVE DiscussionInv'
  BY <1>1, <1>3, BeginKeeps DEF BeginToggleSolution, TxOps
<1>4. ASSUME NEW u \in accounts, NEW k \in Kinds, NEW c \in Ids, BeginToggleComment(s, c, u, k)
      PROVE  DiscussionInv'
  BY <1>1, <1>4, BeginKeeps DEF BeginToggleComment, TxOps
<1>5. ASSUME NEW u \in accounts, NEW p \in {0} \cup Ids, BeginCreate(s, p, u) PROVE DiscussionInv'
  <2>1. /\ Root(p) \in {0} \cup Ids /\ Root(p) \in Rows
        /\ Root(p) # 0 => parentOf[Root(p)] = 0
    BY <1>1 DEF Root, DiscussionInv, LevelPart
  <2>2. /\ Len(parentOf) + Cardinality(Creating) < MaxComments
        /\ Begin(s, "create", Root(p), u, Nobody)
    BY <1>5 DEF BeginCreate, Creating
  <2> QED
    BY <1>1, <2>1, <2>2, BeginKeeps DEF TxOps
<1> QED
  BY <1>2, <1>3, <1>4, <1>5 DEF Request

\* A lock is granted on a row that no other transaction has locked.
LEMMA ForUpdateFacts ==
  ASSUME DiscussionInv, NEW s \in Sessions, NEW r \in Rows, ForUpdate(s, r)
  PROVE  /\ held' \in [Sessions -> SUBSET Rows] /\ held'[s] = held[s] \cup {r}
         /\ \A u \in Sessions : u # s => held'[u] = held[u]
         /\ \A u \in Sessions : u # s => held'[s] \cap held[u] = {}
<1>1. held[s] \cup {r} \in SUBSET Rows /\ held' = [held EXCEPT ![s] = held[s] \cup {r}]
  BY DEF DiscussionInv, DiscussionTypes, ForUpdate
<1>2. DiscussionTypes
  BY DEF DiscussionInv
<1>3. /\ held' \in [Sessions -> SUBSET Rows] /\ held'[s] = held[s] \cup {r}
      /\ \A u \in Sessions : u # s => held'[u] = held[u]
  BY <1>1, <1>2, HeldMoves, Zenon
<1>4. \A u \in Sessions : u # s => r \notin held[u] /\ held[s] \cap held[u] = {}
  BY DEF DiscussionInv, LockPart, ForUpdate
<1> QED
  BY <1>3, <1>4

\* The end of a transaction: it has no lock, and no transaction is under way.
LEMMA EndFacts ==
  ASSUME DiscussionInv, NEW s \in Sessions, End(s)
  PROVE  /\ tx' \in [Sessions -> TxType] /\ tx'[s] = NoTx
         /\ \A u \in Sessions : u # s => tx'[u] = tx[u] /\ held'[u] = held[u]
         /\ held' \in [Sessions -> SUBSET Rows] /\ held'[s] = {}
         /\ LockPart' /\ TxOK(s)'
         /\ Cardinality(Creating) \in Nat /\ Cardinality(Creating') \in Nat
         /\ Cardinality(Creating') <= Cardinality(Creating)
         /\ tx[s].op = "create" => Cardinality(Creating') = Cardinality(Creating) - 1
<1>1. DiscussionTypes /\ LockPart /\ {} \in SUBSET Rows
  BY DEF DiscussionInv
<1>2. tx' = [tx EXCEPT ![s] = NoTx] /\ held' = [held EXCEPT ![s] = {}]
  BY DEF End
<1>3. /\ tx' \in [Sessions -> TxType] /\ tx'[s] = NoTx
      /\ \A u \in Sessions : u # s => tx'[u] = tx[u]
  BY <1>1, <1>2, NoTxFacts, TxMoves, Zenon
<1>4. /\ held' \in [Sessions -> SUBSET Rows] /\ held'[s] = {}
      /\ \A u \in Sessions : u # s => held'[u] = held[u]
  BY <1>1, <1>2, HeldMoves, Zenon
<1>5. LockPart'
  BY <1>1, <1>4 DEF LockPart
<1>6. TxOK(s)'
  BY <1>3, NoTxOK
<1>7. tx'[s].op # "create"
  BY <1>3, NoTxFacts
<1> QED
  BY <1>1, <1>3, <1>4, <1>5, <1>6, <1>7, CreatingLess

\* A rollback, and a request whose comment is gone.
LEMMA RollbackKeeps ==
  ASSUME DiscussionInv, NEW s \in Sessions, End(s), UNCHANGED dataVars
  PROVE  DiscussionInv'
<1>1. Len(parentOf) + Cardinality(Creating') <= MaxComments
  BY EndFacts, DiscussionConstants DEF DiscussionInv, BoundPart, DiscussionTypes
<1>2. \A u \in Sessions : u # s => held'[s] \cap held[u] = {}
  BY EndFacts
<1> QED
  BY <1>1, <1>2, EndFacts, QuietStep

\* The comment is locked, if it still has a row.
LEMMA LockCommentKeeps ==
  ASSUME DiscussionInv, NEW s \in Sessions, LockComment(s)
  PROVE  DiscussionInv'
<1> DEFINE t == tx[s]
           next == After(t.op, t.id, "comment")
           new == Tx(t.op, next, t.id, t.user, t.kind, count[t.id], t.comments)
<1>1. t.next = "comment" /\ UNCHANGED dataVars
  BY DEF LockComment, dataVars
<1>2. CASE t.id \notin alive
  BY <1>1, <1>2, RollbackKeeps DEF LockComment
<1>3. CASE t.id \in alive
  <2>1. ForUpdate(s, t.id) /\ tx' = [tx EXCEPT ![s] = new]
    BY <1>3 DEF LockComment
  <2>2. DiscussionTypes /\ BoundPart /\ TxOK(s) /\ t \in TxType
    BY DEF DiscussionInv, DiscussionTypes, TxPart
  <2>3. /\ t.op \in TxOps /\ t.id \in Rows /\ t.user \in Users \cup {Nobody}
        /\ t.kind \in Kinds \cup {Nobody} /\ t.comments \in 0 .. CountMax
    BY <2>2, TxParts
  <2>4. /\ t.op \in {"toggle_comment", "update", "delete", "create"}
        /\ t.op = "create" => t.id # 0
    BY <1>1, <2>2, <2>3 DEF TxOK, AboutSolution, OrderOf, TxOps
  <2>5. /\ next \in Nexts /\ next = IF t.op \in {"create", "delete"} THEN "solution" ELSE "write"
    BY DEF After, Nexts
  <2>6. count[t.id] \in Counters
    BY <2>2, <2>3 DEF DiscussionTypes
  <2>7. new \in TxType
    BY <2>3, <2>5, <2>6, TxTypes, ZenonT(30)
  <2>8. /\ new.op = t.op /\ new.next = next /\ new.id = t.id /\ new.user = t.user
        /\ new.kind = t.kind /\ new.row = count[t.id]
    BY DEF Tx
  <2> HIDE DEF new, next
  <2>9. /\ tx' \in [Sessions -> TxType] /\ tx'[s] = new
        /\ \A u \in Sessions : u # s => tx'[u] = tx[u]
    BY <2>1, <2>2, <2>7, TxMoves, Zenon
  <2>10. /\ held' \in [Sessions -> SUBSET Rows] /\ held'[s] = held[s] \cup {t.id}
         /\ \A u \in Sessions : u # s => held'[u] = held[u]
         /\ \A u \in Sessions : u # s => held'[s] \cap held[u] = {}
    BY <2>1, <2>3, ForUpdateFacts
  <2>11. Ids' = Ids /\ parentOf' = parentOf /\ alive' = alive /\ count' = count
    BY <1>1 DEF Ids, dataVars
  <2>12. TxOK(s)'
    <3>1. AboutComment(s)' /\ AboutActor(s)'
      BY <2>2, <2>8, <2>9, <2>11 DEF TxOK, AboutComment, AboutActor
    <3>2. AboutSolution(s)'
      BY <2>2, <2>4, <2>8, <2>9, <2>11 DEF TxOK, AboutSolution
    <3>3. OrderOf(s)'
      BY <2>4, <2>5, <2>8, <2>9 DEF OrderOf
    <3>4. ~HoldsSolution(s)'
      BY <2>4, <2>5, <2>8, <2>9 DEF HoldsSolution
    <3>5. ReadPart(s)'
      BY <1>3, <2>8, <2>9, <2>10, <2>11, <3>4 DEF ReadPart
    <3> QED
      BY <3>1, <3>2, <3>3, <3>5 DEF TxOK
  <2>13. Creating' = Creating
    BY <2>2, <2>8, <2>9, CreatingSame
  <2> QED
    BY <1>1, <2>2, <2>9, <2>10, <2>12, <2>13, QuietStep DEF BoundPart
<1> QED
  BY <1>2, <1>3

\* The solution is locked, and its counters are read.
LEMMA LockSolutionKeeps ==
  ASSUME DiscussionInv, NEW s \in Sessions, LockSolution(s)
  PROVE  DiscussionInv'
<1> DEFINE t == tx[s]
           next == After(t.op, t.id, "solution")
           new == Tx(t.op, next, t.id, t.user, t.kind, count[Solution], commentCount)
<1>1. /\ t.next = "solution" /\ UNCHANGED dataVars
      /\ ForUpdate(s, Solution) /\ tx' = [tx EXCEPT ![s] = new]
  BY DEF LockSolution, dataVars
<1>2. DiscussionTypes /\ BoundPart /\ TxOK(s) /\ t \in TxType
  BY DEF DiscussionInv, DiscussionTypes, TxPart
<1>3. /\ t.op \in TxOps /\ t.id \in Rows /\ t.user \in Users \cup {Nobody}
      /\ t.kind \in Kinds \cup {Nobody}
  BY <1>2, TxParts
<1>4. t.op \in {"toggle_solution", "delete", "create"}
  BY <1>1, <1>2, <1>3 DEF TxOK, OrderOf, TxOps
<1>5. next \in Nexts /\ next = IF t.op = "delete" THEN "replies" ELSE "write"
  BY DEF After, Nexts
<1>6. Solution \in Rows /\ count[Solution] \in Counters /\ commentCount \in 0 .. CountMax
  BY <1>2, IdFacts DEF DiscussionTypes
<1>7. new \in TxType
  BY <1>3, <1>5, <1>6, TxTypes
<1>8. /\ new.op = t.op /\ new.next = next /\ new.id = t.id /\ new.user = t.user
      /\ new.kind = t.kind /\ new.row = count[Solution] /\ new.comments = commentCount
  BY DEF Tx
<1> HIDE DEF new, next
<1>9. /\ tx' \in [Sessions -> TxType] /\ tx'[s] = new
      /\ \A u \in Sessions : u # s => tx'[u] = tx[u]
  BY <1>1, <1>2, <1>7, TxMoves, ZenonT(30)
<1>10. /\ held' \in [Sessions -> SUBSET Rows] /\ held'[s] = held[s] \cup {Solution}
       /\ \A u \in Sessions : u # s => held'[u] = held[u]
       /\ \A u \in Sessions : u # s => held'[s] \cap held[u] = {}
  BY <1>1, <1>6, ForUpdateFacts
<1>11. /\ Ids' = Ids /\ parentOf' = parentOf /\ alive' = alive /\ count' = count
       /\ commentCount' = commentCount
  BY <1>1 DEF Ids, dataVars
<1>12. TxOK(s)'
  <2>1. AboutComment(s)' /\ AboutActor(s)'
    BY <1>2, <1>8, <1>9, <1>11 DEF TxOK, AboutComment, AboutActor
  <2>2. AboutSolution(s)'
    BY <1>2, <1>4, <1>5, <1>8, <1>9, <1>11 DEF TxOK, AboutSolution
  <2>3. OrderOf(s)'
    BY <1>4, <1>5, <1>8, <1>9 DEF OrderOf
  <2>4. HoldsComment(s)' => t.id \in held[s] /\ t.id \in alive
    BY <1>1, <1>2, <1>4, <1>8, <1>9 DEF TxOK, ReadPart, HoldsComment
  <2>5. ReadPart(s)'
    BY <1>4, <1>8, <1>9, <1>10, <1>11, <2>4 DEF ReadPart
  <2> QED
    BY <2>1, <2>2, <2>3, <2>5 DEF TxOK
<1>13. Creating' = Creating
  BY <1>2, <1>8, <1>9, CreatingSame
<1> QED
  BY <1>1, <1>2, <1>9, <1>10, <1>12, <1>13, QuietStep DEF BoundPart

\* DeleteComment locks one reply after the other.
LEMMA LockReplyKeeps ==
  ASSUME DiscussionInv, NEW s \in Sessions, LockReply(s)
  PROVE  DiscussionInv'
<1>1. tx[s].next = "replies" /\ UNCHANGED dataVars /\ tx' = tx
  BY DEF LockReply, dataVars
<1>2. PICK d \in Wanted(s) : ForUpdate(s, d)
  BY DEF LockReply
<1>3. DiscussionTypes /\ BoundPart /\ TxOK(s)
  BY DEF DiscussionInv, TxPart
<1>4. d \in alive
  BY <1>1, <1>2 DEF Wanted, Children
<1>5. d \in Rows
  BY <1>3, <1>4, IdFacts
<1>6. /\ held' \in [Sessions -> SUBSET Rows] /\ held'[s] = held[s] \cup {d}
      /\ \A u \in Sessions : u # s => held'[u] = held[u]
      /\ \A u \in Sessions : u # s => held'[s] \cap held[u] = {}
  BY <1>2, <1>5, ForUpdateFacts
<1>7. /\ Ids' = Ids /\ parentOf' = parentOf /\ alive' = alive /\ count' = count
      /\ commentCount' = commentCount
  BY <1>1 DEF Ids, dataVars
<1>8. TxOK(s)'
  <2>1. AboutComment(s)' /\ AboutActor(s)' /\ OrderOf(s)'
    BY <1>1, <1>3, <1>7 DEF TxOK, AboutComment, AboutActor, OrderOf
  <2>2. AboutSolution(s)'
    BY <1>1, <1>3, <1>7 DEF TxOK, AboutSolution
  <2>3. (HoldsComment(s)' <=> HoldsComment(s)) /\ (HoldsSolution(s)' <=> HoldsSolution(s))
    BY <1>1 DEF HoldsComment, HoldsSolution
  <2>4. ReadPart(s)'
    BY <1>1, <1>3, <1>6, <1>7, <2>3, Zenon DEF TxOK, ReadPart
  <2> QED
    BY <2>1, <2>2, <2>4 DEF TxOK
<1>9. Creating' = Creating /\ tx \in [Sessions -> TxType]
  BY <1>1, <1>3 DEF Creating, DiscussionTypes
<1> QED
  BY <1>1, <1>3, <1>6, <1>8, <1>9, QuietStep DEF BoundPart

-----------------------------------------------------------------------------
\* The commits.

\* A commit keeps the invariant if the rows come out right and no row that another
\* transaction has locked was changed.
LEMMA CommitKeeps ==
  ASSUME DiscussionInv, NEW s \in Sessions, End(s),
         parentOf' \in Seq(0 .. MaxComments), accounts' \subseteq Users,
         authorOf' \in Seq(Users), Len(authorOf') = Len(parentOf'), alive' \subseteq Ids',
         count' \in [Rows -> Counters], commentCount' \in 0 .. CountMax,
         acts' \subseteq Rows \X Users \X Kinds,
         \/ Len(parentOf') = Len(parentOf)
         \/ Len(parentOf') = Len(parentOf) + 1 /\ tx[s].op = "create",
         \A c \in Ids : parentOf'[c] = parentOf[c],
         \A r \in Rows : r \in held[s] \/ (count'[r] = count[r] /\ (r \in alive => r \in alive')),
         commentCount' = commentCount \/ Solution \in held[s],
         LevelPart', UnusedPart', TwoLevels', CountsMatchRows'
  PROVE  DiscussionInv'
<1>1. DiscussionTypes /\ BoundPart /\ LockPart /\ TxPart
  BY DEF DiscussionInv
<1>2. DiscussionTypes'
  BY EndFacts DEF DiscussionTypes
<1>3. Len(parentOf) \in Nat /\ Len(parentOf') \in Nat
  BY <1>1 DEF DiscussionTypes
<1>4. BoundPart'
  BY <1>1, <1>3, EndFacts, DiscussionConstants DEF BoundPart
<1>5. \A c \in Ids : c \in Ids'
  BY <1>3 DEF Ids
<1>6. ASSUME NEW u \in Sessions, u # s PROVE TxOK(u)'
  <2>1. tx'[u] = tx[u] /\ held'[u] = held[u] /\ held[u] \in SUBSET Rows /\ TxOK(u)
    BY <1>1, <1>6, EndFacts DEF DiscussionTypes, TxPart
  <2>2. held[s] \cap held[u] = {}
    BY <1>1, <1>6, ZenonT(30) DEF LockPart
  <2>3. \A r \in held[u] : count'[r] = count[r] /\ (r \in alive => r \in alive')
    BY <2>1, <2>2, Zenon
  <2>4. Solution \in held[u] => commentCount' = commentCount
    BY <2>2
  <2> QED
    BY <1>1, <1>5, <2>1, <2>3, <2>4, OthersKeep, ZenonT(30)
<1>7. TxPart' /\ LockPart'
  BY <1>6, EndFacts DEF TxPart
<1> QED
  BY <1>2, <1>4, <1>7, ZenonT(30) DEF DiscussionInv

\* The users who like a row can be counted, and so can its comments.
LEMMA LikesNat ==
  \A A, r, k : /\ IsFiniteSet({u \in Users : <<r, u, k>> \in A})
               /\ Cardinality({u \in Users : <<r, u, k>> \in A}) \in Nat
<1> SUFFICES ASSUME NEW A, NEW r, NEW k
             PROVE  /\ IsFiniteSet({u \in Users : <<r, u, k>> \in A})
                    /\ Cardinality({u \in Users : <<r, u, k>> \in A}) \in Nat
  BY Zenon
<1>1. IsFiniteSet({u \in Users : <<r, u, k>> \in A})
  BY DiscussionConstants, FS_Subset, Zenon
<1> QED
  BY <1>1, FS_CardinalityType

\* UpdateComment writes the counters back as they are.
LEMMA EditKeeps ==
  ASSUME DiscussionInv, NEW s \in Sessions, CommitEdit(s)
  PROVE  DiscussionInv'
<1>1. tx[s].row = count[tx[s].id]
  BY DEF CommitEdit, DiscussionInv, TxPart, TxOK, ReadPart
<1>2. count' = count
  BY <1>1 DEF CommitEdit, DiscussionInv, DiscussionTypes
<1> QED
  BY <1>2, RollbackKeeps DEF CommitEdit, dataVars

\* What a toggle has read of the row it writes.
LEMMA ToggleReads ==
  ASSUME DiscussionInv, NEW s \in Sessions,
         tx[s].next = "write", tx[s].op \in {"toggle_solution", "toggle_comment"}
  PROVE  /\ tx[s].id \in Rows /\ tx[s].user \in Users /\ tx[s].kind \in Kinds
         /\ tx[s].id \in held[s] /\ tx[s].id \in {Solution} \cup alive
         /\ tx[s].row = count[tx[s].id] /\ count[tx[s].id] \in Counters
         /\ tx[s].id = Solution => tx[s].comments = commentCount
<1>1. DiscussionTypes /\ BoundPart /\ TxOK(s) /\ tx[s] \in TxType
  BY DEF DiscussionInv, DiscussionTypes, TxPart
<1>2. tx[s].id \in Rows /\ Solution = 0 /\ \A c \in Ids : c # 0
  BY <1>1, TxParts, IdFacts
<1>3. count[tx[s].id] \in Counters
  BY <1>1, <1>2 DEF DiscussionTypes
<1>4. tx[s].user \in Users /\ tx[s].kind \in Kinds
  BY <1>1 DEF TxOK, AboutActor
<1>5. CASE tx[s].op = "toggle_solution"
  <2>1. tx[s].id = Solution /\ HoldsSolution(s)
    BY <1>1, <1>2, <1>5 DEF TxOK, AboutSolution, HoldsSolution
  <2> QED
    BY <1>1, <1>2, <1>3, <1>4, <2>1 DEF TxOK, ReadPart
<1>6. CASE tx[s].op = "toggle_comment"
  <2>1. HoldsComment(s) /\ tx[s].id \in Ids
    BY <1>1, <1>6 DEF TxOK, AboutComment, HoldsComment
  <2> QED
    BY <1>1, <1>2, <1>3, <1>4, <1>6, <2>1 DEF TxOK, ReadPart
<1> QED
  BY <1>5, <1>6

\* A toggle: the counter of the row changes with the number of its action rows.
LEMMA ToggleCounts ==
  ASSUME DiscussionInv, NEW id \in {Solution} \cup alive, NEW v \in Users, NEW k \in Kinds,
         NEW n, n = count[id][k], <<id, v, k>> \in acts \/ n # CountMax,
         acts' = IF <<id, v, k>> \in acts THEN acts \ {<<id, v, k>>} ELSE acts \cup {<<id, v, k>>},
         count' = [count EXCEPT ![id] = [count[id] EXCEPT ![k] =
           IF <<id, v, k>> \notin acts THEN n + 1 ELSE IF n > 0 THEN n - 1 ELSE n]],
         UNCHANGED <<accounts, parentOf, authorOf, alive, commentCount>>
  PROVE  /\ count' \in [Rows -> Counters] /\ acts' \subseteq Rows \X Users \X Kinds
         /\ \A r \in Rows : r # id => count'[r] = count[r]
         /\ LevelPart' /\ UnusedPart' /\ TwoLevels' /\ CountsMatchRows'
<1> DEFINE act == <<id, v, k>>
           m == IF act \notin acts THEN n + 1 ELSE IF n > 0 THEN n - 1 ELSE n
           L(r, j) == {u \in Users : <<r, u, j>> \in acts}
           M(r, j) == {u \in Users : <<r, u, j>> \in acts'}
<1>1. DiscussionTypes /\ BoundPart /\ CountsMatchRows /\ TwoLevels /\ UnusedPart /\ LevelPart
  BY DEF DiscussionInv
<1>2. id \in Rows /\ Solution = 0 /\ Solution \in Rows /\ alive \subseteq Rows
  BY <1>1, IdFacts
<1>3. count[id] \in Counters /\ n \in 0 .. CountMax
  BY <1>1, <1>2 DEF DiscussionTypes, Counters
<1>4. \A r, j : IsFiniteSet(L(r, j)) /\ Cardinality(L(r, j)) \in Nat
  BY LikesNat, Zenon
<1>5. Cardinality(L(id, k)) <= n
  BY <1>1, <1>3, <1>4 DEF CountsMatchRows, Likes
<1>6. act \in acts => Cardinality(L(id, k)) >= 1 /\ Cardinality(M(id, k)) = Cardinality(L(id, k)) - 1
  <2> SUFFICES ASSUME act \in acts
               PROVE  /\ Cardinality(L(id, k)) >= 1
                      /\ Cardinality(M(id, k)) = Cardinality(L(id, k)) - 1
    OBVIOUS
  <2>1. M(id, k) = L(id, k) \ {v} /\ v \in L(id, k)
    OBVIOUS
  <2> HIDE DEF L, M
  <2>2. IsFiniteSet(L(id, k) \ {v}) /\ Cardinality(L(id, k) \ {v}) = Cardinality(L(id, k)) - 1
    BY <1>4, <2>1, FS_RemoveElement
  <2>3. Cardinality(L(id, k) \ {v}) \in Nat
    BY <2>2, FS_CardinalityType
  <2> QED
    BY <1>4, <2>1, <2>2, <2>3
<1>7. act \notin acts => Cardinality(M(id, k)) = Cardinality(L(id, k)) + 1
  <2> SUFFICES ASSUME act \notin acts
               PROVE  Cardinality(M(id, k)) = Cardinality(L(id, k)) + 1
    OBVIOUS
  <2>1. M(id, k) = L(id, k) \cup {v} /\ v \notin L(id, k)
    OBVIOUS
  <2> HIDE DEF L, M
  <2> QED
    BY <1>4, <2>1, FS_AddElement, ZenonT(30)
<1>8. \A r, j : r # id \/ j # k => M(r, j) = L(r, j)
  OBVIOUS
<1>9. m \in 0 .. CountMax
  BY <1>3, DiscussionConstants
<1>10. m - n = Cardinality(M(id, k)) - Cardinality(L(id, k))
  <2> HIDE DEF L, M
  <2> QED
    BY <1>3, <1>4, <1>5, <1>6, <1>7
<1> HIDE DEF m
<1>11. /\ count'[id] \in Counters /\ count'[id][k] = m
       /\ \A j \in Kinds : j # k => count'[id][j] = count[id][j]
       /\ \A r \in Rows : r # id => count'[r] = count[r]
       /\ count' \in [Rows -> Counters]
  BY <1>1, <1>2, <1>3, <1>9 DEF m, DiscussionTypes, Counters
<1>12. \A r \in Rows, j \in Kinds :
         /\ count[r][j] \in Nat /\ count'[r][j] \in Nat
         /\ count'[r][j] - count[r][j] = Cardinality(M(r, j)) - Cardinality(L(r, j))
  <2> SUFFICES ASSUME NEW r \in Rows, NEW j \in Kinds
               PROVE  /\ count[r][j] \in Nat /\ count'[r][j] \in Nat
                      /\ count'[r][j] - count[r][j] = Cardinality(M(r, j)) - Cardinality(L(r, j))
    BY ZenonT(30)
  <2> HIDE DEF L, M
  <2>1. count[r][j] \in Nat /\ count'[r][j] \in Nat
    BY <1>1, <1>11, DiscussionConstants DEF DiscussionTypes, Counters
  <2>2. CASE r = id /\ j = k
    BY <1>10, <1>11, <2>1, <2>2
  <2>3. CASE r # id \/ j # k
    <3>1. count'[r][j] = count[r][j]
      BY <1>11, <2>3
    <3> QED
      BY <1>4, <1>8, <2>1, <2>3, <3>1
  <2> QED
    BY <2>2, <2>3
<1>13. \A r, j : Cardinality(M(r, j)) \in Nat
  <2>1. PICK A : A = acts'
    OBVIOUS
  <2>2. \A r, j : M(r, j) = {u \in Users : <<r, u, j>> \in A}
    BY <2>1
  <2>3. \A r, j : Cardinality({u \in Users : <<r, u, j>> \in A}) \in Nat
    BY LikesNat, ZenonT(30)
  <2> HIDE DEF M
  <2> QED
    BY <2>2, <2>3, Zenon
<1>14. /\ \A r, j : Likes(r, j) = Cardinality(L(r, j)) /\ Likes(r, j)' = Cardinality(M(r, j))
       /\ Children(0)' = Children(0)
  BY DEF Likes, Children
<1> HIDE DEF L, M
<1>15. CountsMatchRows'
  <2>1. \A r \in {Solution} \cup alive : r \in Rows
    BY <1>2
  <2>2. accounts = Users => \A r \in {Solution} \cup alive, j \in Kinds : count'[r][j] = Likes(r, j)'
    BY <1>1, <1>4, <1>12, <1>13, <1>14, <2>1 DEF CountsMatchRows, CountsAreExact
  <2>3. \A r \in {Solution} \cup alive, j \in Kinds : count'[r][j] >= Likes(r, j)'
    BY <1>1, <1>4, <1>12, <1>13, <1>14, <2>1 DEF CountsMatchRows
  <2> QED
    BY <1>1, <1>14, <2>2, <2>3 DEF CountsMatchRows, CountsAreExact
<1>16. TwoLevels'
  <2>1. \A a \in acts' : a \in acts \/ a = act
    OBVIOUS
  <2>2. act[1] = id
    OBVIOUS
  <2> QED
    BY <1>1, <2>1, <2>2 DEF TwoLevels
<1>17. UnusedPart' /\ LevelPart'
  BY <1>1, <1>11 DEF UnusedPart, LevelPart, Ids
<1>18. acts' \subseteq Rows \X Users \X Kinds
  BY <1>1, <1>2 DEF DiscussionTypes
<1> QED
  BY <1>11, <1>15, <1>16, <1>17, <1>18

\* The two toggles.
LEMMA ToggleKeeps ==
  ASSUME DiscussionInv, NEW s \in Sessions, CommitToggle(s)
  PROVE  DiscussionInv'
<1> DEFINE id == tx[s].id
           v == tx[s].user
           k == tx[s].kind
<1>1. /\ tx[s].next = "write" /\ tx[s].op \in {"toggle_solution", "toggle_comment"} /\ End(s)
      /\ UNCHANGED <<accounts, parentOf, authorOf, alive>>
  BY DEF CommitToggle
<1>2. /\ id \in Rows /\ v \in Users /\ k \in Kinds
      /\ id \in held[s] /\ id \in {Solution} \cup alive
      /\ tx[s].row = count[id] /\ count[id] \in Counters
      /\ id = Solution => tx[s].comments = commentCount
  BY <1>1, ToggleReads
<1>3. CASE UNCHANGED <<acts, count, commentCount>>
  BY <1>1, <1>3, RollbackKeeps DEF dataVars
<1>4. CASE ~UNCHANGED <<acts, count, commentCount>>
  <2>1. PICK n : n = count[id][k]
    OBVIOUS
  <2>2. /\ <<id, v, k>> \in acts \/ n # CountMax
        /\ acts' = IF <<id, v, k>> \in acts THEN acts \ {<<id, v, k>>} ELSE acts \cup {<<id, v, k>>}
        /\ count' = [count EXCEPT ![id] = [count[id] EXCEPT ![k] =
             IF <<id, v, k>> \notin acts THEN n + 1 ELSE IF n > 0 THEN n - 1 ELSE n]]
        /\ commentCount' = commentCount
    BY <1>2, <1>4, <2>1, Zenon DEF CommitToggle, AtLimit
  <2>3. /\ count' \in [Rows -> Counters] /\ acts' \subseteq Rows \X Users \X Kinds
        /\ \A r \in Rows : r # id => count'[r] = count[r]
        /\ LevelPart' /\ UnusedPart' /\ TwoLevels' /\ CountsMatchRows'
    BY <1>1, <1>2, <2>1, <2>2, ToggleCounts, ZenonT(30)
  <2>4. /\ DiscussionTypes /\ parentOf' = parentOf /\ alive' = alive /\ accounts' = accounts
        /\ authorOf' = authorOf /\ Ids' = Ids
    BY <1>1 DEF DiscussionInv, Ids
  <2> QED
    BY <1>1, <1>2, <2>2, <2>3, <2>4, CommitKeeps, ZenonT(30) DEF DiscussionTypes
<1> QED
  BY <1>3, <1>4

\* A new comment: no action of an earlier comment counts for it.
LEMMA CreateCounts ==
  ASSUME DiscussionInv, NEW p \in {0} \cup alive, p # 0 => parentOf[p] = 0, NEW v \in Users,
         Len(parentOf) < MaxComments, p = 0 => commentCount # CountMax,
         parentOf' = Append(parentOf, p), authorOf' = Append(authorOf, v),
         alive' = alive \cup {Len(parentOf) + 1},
         commentCount' = IF p = 0 THEN commentCount + 1 ELSE commentCount,
         UNCHANGED <<accounts, acts, count>>
  PROVE  /\ parentOf' \in Seq(0 .. MaxComments) /\ Len(parentOf') = Len(parentOf) + 1
         /\ authorOf' \in Seq(Users) /\ Len(authorOf') = Len(parentOf')
         /\ \A c \in Ids : parentOf'[c] = parentOf[c]
         /\ alive' \subseteq Ids' /\ commentCount' \in 0 .. CountMax
         /\ LevelPart' /\ UnusedPart' /\ TwoLevels' /\ CountsMatchRows'
<1> DEFINE new == Len(parentOf) + 1
<1>1. DiscussionTypes /\ BoundPart /\ CountsMatchRows /\ TwoLevels /\ UnusedPart /\ LevelPart
  BY DEF DiscussionInv
<1>2. /\ Len(parentOf) \in Nat /\ Len(authorOf) = Len(parentOf)
      /\ parentOf \in Seq(0 .. MaxComments) /\ authorOf \in Seq(Users)
      /\ commentCount \in 0 .. CountMax
  BY <1>1 DEF DiscussionTypes
<1>3. /\ \A c : c \in Ids <=> c \in Nat /\ 1 <= c /\ c <= Len(parentOf)
      /\ Solution = 0 /\ alive \subseteq Ids /\ IsFiniteSet(alive)
      /\ \A c \in Ids : parentOf[c] \in 0 .. MaxComments
  BY <1>1, IdFacts DEF DiscussionTypes
<1>4. p \in 0 .. MaxComments
  BY <1>1, <1>3, IdFacts, DiscussionConstants
<1>5. /\ parentOf' \in Seq(0 .. MaxComments) /\ Len(parentOf') = new
      /\ \A c \in Ids : parentOf'[c] = parentOf[c]
      /\ parentOf'[new] = p
  BY <1>2, <1>3, <1>4
<1>6. /\ authorOf' \in Seq(Users) /\ Len(authorOf') = new
      /\ \A c \in Ids : authorOf'[c] = authorOf[c]
  BY <1>2, <1>3
<1>7. \A c : c \in Ids' <=> c \in Ids \/ c = new
  BY <1>2, <1>3, <1>5 DEF Ids
<1>8. new \notin Ids /\ new # 0 /\ new \in Rows
  BY <1>2, <1>3, DiscussionConstants DEF Rows
<1>9. alive' \subseteq Ids' /\ \A c : c \in alive' <=> c \in alive \/ c = new
  BY <1>3, <1>7
<1> HIDE DEF new
<1>10. commentCount' \in 0 .. CountMax
  BY <1>2, DiscussionConstants
<1>11. p # 0 => p \in Ids /\ p \in alive
  BY <1>3
<1>12. LevelPart'
  <2>1. ASSUME NEW c \in Ids', parentOf'[c] # 0
        PROVE  parentOf'[c] \in Ids' /\ parentOf'[parentOf'[c]] = 0
    <3>1. CASE c = new
      BY <1>5, <1>7, <1>11, <2>1, <3>1, ZenonT(30)
    <3>2. CASE c \in Ids
      <4>1. parentOf'[c] = parentOf[c] /\ parentOf[c] \in Ids /\ parentOf[parentOf[c]] = 0
        BY <1>1, <1>5, <2>1, <3>2, ZenonT(30) DEF LevelPart
      <4> QED
        BY <1>5, <1>7, <4>1, Zenon
    <3> QED
      BY <1>7, <2>1, <3>1, <3>2, Zenon
  <2> QED
    BY <2>1, Zenon DEF LevelPart
<1>13. UnusedPart'
  BY <1>1, <1>9 DEF UnusedPart
<1>14. \A a \in acts : a[1] # new
  BY <1>1, <1>3, <1>8 DEF TwoLevels
<1>15. TwoLevels'
  <2>1. ASSUME NEW c \in alive', parentOf'[c] # 0
        PROVE  /\ parentOf'[parentOf'[c]] = 0
               /\ parentOf'[c] \in alive' \/ authorOf'[parentOf'[c]] \notin accounts'
    <3>1. CASE c = new
      BY <1>5, <1>9, <1>11, <2>1, <3>1, ZenonT(30)
    <3>2. CASE c \in alive
      <4>1. c \in Ids /\ parentOf'[c] = parentOf[c] /\ parentOf[c] \in Ids
        BY <1>1, <1>3, <1>5, <2>1, <3>2 DEF LevelPart
      <4>2. parentOf[parentOf[c]] = 0 /\ (parentOf[c] \in alive \/ authorOf[parentOf[c]] \notin accounts)
        BY <1>1, <2>1, <3>2, <4>1 DEF TwoLevels
      <4> QED
        BY <1>5, <1>6, <1>9, <4>1, <4>2, ZenonT(30)
    <3> QED
      BY <1>9, <2>1, <3>1, <3>2, ZenonT(30)
  <2>2. \A a \in acts' : a[1] \in {Solution} \cup alive'
    BY <1>1, <1>9 DEF TwoLevels
  <2> QED
    BY <2>1, <2>2, Zenon DEF TwoLevels
<1>16. \A k : Likes(new, k) = 0
  <2>1. \A k : {u \in Users : <<new, u, k>> \in acts} = {}
    BY <1>14
  <2> QED
    BY <2>1, FS_EmptySet, ZenonT(30) DEF Likes
<1>17. \A r, k : Likes(r, k)' = Likes(r, k)
  BY DEF Likes
<1>18. \A k \in Kinds : count[new][k] = 0
  BY <1>1, <1>3, <1>8, NoTxFacts DEF UnusedPart
<1>19. Children(0)' = IF p = 0 THEN Children(0) \cup {new} ELSE Children(0)
  BY <1>3, <1>5, <1>8, <1>9 DEF Children
<1>20. IsFiniteSet(Children(0)) /\ Cardinality(Children(0)) \in Nat /\ new \notin Children(0)
  <2>1. Children(0) \subseteq alive
    BY DEF Children
  <2> QED
    BY <1>3, <1>8, <2>1, FS_Subset, FS_CardinalityType
<1>21. Cardinality(Children(0)') = IF p = 0 THEN Cardinality(Children(0)) + 1 ELSE Cardinality(Children(0))
  <2>1. CASE p = 0
    BY <1>19, <1>20, <2>1, FS_AddElement
  <2>2. CASE p # 0
    BY <1>19, <2>2
  <2> QED
    BY <2>1, <2>2
<1>22. CountsMatchRows'
  <2>1. accounts = Users => \A r \in {Solution} \cup alive', k \in Kinds : count'[r][k] = Likes(r, k)'
    BY <1>1, <1>9, <1>16, <1>17, <1>18 DEF CountsMatchRows, CountsAreExact
  <2>2. \A r \in {Solution} \cup alive', k \in Kinds : count'[r][k] >= Likes(r, k)'
    BY <1>1, <1>9, <1>16, <1>17, <1>18 DEF CountsMatchRows
  <2>3. accounts = Users => commentCount' = Cardinality(Children(0)')
    BY <1>1, <1>2, <1>20, <1>21 DEF CountsMatchRows, CountsAreExact
  <2>4. commentCount' >= Cardinality(Children(0)')
    BY <1>1, <1>2, <1>20, <1>21 DEF CountsMatchRows
  <2> QED
    BY <2>1, <2>2, <2>3, <2>4 DEF CountsMatchRows, CountsAreExact
<1> QED
  BY <1>5, <1>6, <1>9, <1>10, <1>12, <1>13, <1>15, <1>22, Zenon DEF new

\* CreateComment.
LEMMA CreateKeeps ==
  ASSUME DiscussionInv, NEW s \in Sessions, CommitCreate(s)
  PROVE  DiscussionInv'
<1> DEFINE p == tx[s].id
           v == tx[s].user
<1>1. tx[s].next = "write" /\ tx[s].op = "create" /\ End(s) /\ UNCHANGED <<accounts, acts>>
  BY DEF CommitCreate
<1>2. DiscussionTypes /\ BoundPart /\ TxOK(s)
  BY DEF DiscussionInv, TxPart
<1>3. /\ v \in Users
      /\ p # 0 => p \in alive /\ parentOf[p] = 0
      /\ Solution \in held[s] /\ tx[s].row = count[Solution] /\ tx[s].comments = commentCount
  BY <1>1, <1>2 DEF TxOK, AboutActor, AboutSolution, ReadPart, HoldsComment, HoldsSolution
<1>4. CASE UNCHANGED <<parentOf, authorOf, alive, count, commentCount>>
  BY <1>1, <1>4, RollbackKeeps DEF dataVars
<1>5. CASE ~UNCHANGED <<parentOf, authorOf, alive, count, commentCount>>
  <2>1. /\ p = 0 => commentCount # CountMax
        /\ parentOf' = Append(parentOf, p) /\ authorOf' = Append(authorOf, v)
        /\ alive' = alive \cup {Len(parentOf) + 1}
        /\ commentCount' = IF p = 0 THEN commentCount + 1 ELSE commentCount
    BY <1>3, <1>5 DEF CommitCreate, AtLimit
  <2>2. count' = count
    BY <1>2, <1>3, <1>5 DEF CommitCreate, DiscussionTypes
  <2>3. Len(parentOf) < MaxComments
    BY <1>1, <1>2, EndFacts, DiscussionConstants DEF BoundPart, DiscussionTypes
  <2>4. /\ parentOf' \in Seq(0 .. MaxComments) /\ Len(parentOf') = Len(parentOf) + 1
        /\ authorOf' \in Seq(Users) /\ Len(authorOf') = Len(parentOf')
        /\ \A c \in Ids : parentOf'[c] = parentOf[c]
        /\ alive' \subseteq Ids' /\ commentCount' \in 0 .. CountMax
        /\ LevelPart' /\ UnusedPart' /\ TwoLevels' /\ CountsMatchRows'
    <3>1. p \in {0} \cup alive /\ (p # 0 => parentOf[p] = 0)
      BY <1>3
    <3> HIDE DEF p, v
    <3> QED
      BY <1>1, <1>3, <2>1, <2>2, <2>3, <3>1, CreateCounts, ZenonT(30)
  <2>5. \A r \in alive : r \in alive'
    BY <2>1
  <2>6. /\ accounts' \subseteq Users /\ count' \in [Rows -> Counters]
        /\ acts' \subseteq Rows \X Users \X Kinds
    BY <1>1, <1>2, <2>2 DEF DiscussionTypes
  <2> HIDE DEF p, v
  <2> QED
    BY <1>1, <1>3, <2>2, <2>4, <2>5, <2>6, CommitKeeps, ZenonT(30)
<1> QED
  BY <1>4, <1>5

\* Among the replies there is a first one.
LEMMA LeastOf ==
  ASSUME NEW T, T \subseteq Nat, T # {}
  PROVE  \E x \in T : \A y \in T : x <= y
<1>1. PICK R : R = {ss \in Nat \X Nat : ss[1] < ss[2]}
  BY Zenon
<1>2. R = OpToRel(<, Nat)
  BY <1>1 DEF OpToRel
<1>3. IsWellFoundedOn(R, Nat)
  BY <1>2, NatLessThanWellFounded, Zenon
<1>4. \E x \in T : \A y \in T : ~(<<y, x>> \in R)
  BY <1>3, WFMin, ZenonT(30)
<1>5. \A x, y \in T : ~(<<y, x>> \in R) => x <= y
  BY <1>1
<1> QED
  BY <1>4, <1>5, Zenon

\* Rows go, and their actions with them: what is left keeps its likes.
LEMMA LikesAfterErase ==
  ASSUME NEW G, NEW A, A = {a \in acts : a[1] \notin G}
  PROVE  \A r, k : r \notin G =>
           {u \in Users : <<r, u, k>> \in A} = {u \in Users : <<r, u, k>> \in acts}
OBVIOUS

\* DeleteComment: the comment and its replies go, with their likes.
LEMMA DeleteCounts ==
  ASSUME DiscussionInv, NEW c \in alive,
         alive' = alive \ Erased(c), acts' = {a \in acts : a[1] \notin Erased(c)},
         count' = [r \in Rows |-> IF r \in Erased(c) THEN Zero ELSE count[r]],
         commentCount' = IF parentOf[c] # 0 THEN commentCount
                         ELSE IF commentCount > 0 THEN commentCount - 1 ELSE 0,
         UNCHANGED <<accounts, parentOf, authorOf>>
  PROVE  /\ count' \in [Rows -> Counters] /\ acts' \subseteq Rows \X Users \X Kinds
         /\ alive' \subseteq Ids' /\ commentCount' \in 0 .. CountMax
         /\ LevelPart' /\ UnusedPart' /\ TwoLevels' /\ CountsMatchRows'
<1>1. DiscussionTypes /\ BoundPart /\ CountsMatchRows /\ TwoLevels /\ UnusedPart /\ LevelPart
  BY DEF DiscussionInv
<1>2. /\ Solution = 0 /\ Solution \in Rows /\ 0 \notin alive /\ alive \subseteq Rows
      /\ alive \subseteq Ids /\ IsFiniteSet(alive) /\ c \in Ids /\ c # 0
      /\ commentCount \in 0 .. CountMax /\ Ids' = Ids
  BY <1>1, IdFacts DEF DiscussionTypes, Ids
<1>3. /\ Erased(c) \subseteq alive /\ c \in Erased(c)
      /\ \A d : d \in Erased(c) <=> d = c \/ (d \in alive /\ parentOf[d] = c)
  BY DEF Erased, Children
<1>4. count' \in [Rows -> Counters] /\ alive' \subseteq Ids' /\ acts' \subseteq Rows \X Users \X Kinds
  BY <1>1, <1>2, NoTxFacts, ZenonT(30) DEF DiscussionTypes
<1>5. commentCount' \in 0 .. CountMax
  BY <1>2, DiscussionConstants
<1>6. LevelPart'
  BY <1>1, <1>2 DEF LevelPart
<1>7. UnusedPart'
  BY <1>1 DEF UnusedPart
<1>8. TwoLevels'
  <2>1. ASSUME NEW d \in alive', parentOf[d] # 0
        PROVE  /\ parentOf[parentOf[d]] = 0
               /\ parentOf[d] \in alive' \/ authorOf[parentOf[d]] \notin accounts
    <3>1. d \in alive /\ d \notin Erased(c)
      OBVIOUS
    <3>2. parentOf[parentOf[d]] = 0 /\ (parentOf[d] \in alive \/ authorOf[parentOf[d]] \notin accounts)
      BY <1>1, <2>1, <3>1 DEF TwoLevels
    <3>3. parentOf[d] \notin Erased(c)
      BY <1>2, <1>3, <3>1, <3>2
    <3> QED
      BY <3>2, <3>3
  <2>2. \A a \in acts' : a[1] \in {Solution} \cup alive'
    BY <1>1 DEF TwoLevels
  <2> QED
    BY <2>1, <2>2 DEF TwoLevels
<1>9. \A r \in {Solution} \cup alive' :
        /\ r \in {Solution} \cup alive /\ r \notin Erased(c) /\ count'[r] = count[r]
  BY <1>2, <1>3
<1>10. \A r, k : r \notin Erased(c) => Likes(r, k)' = Likes(r, k)
  <2>1. \A r, k : r \notin Erased(c) =>
          {u \in Users : <<r, u, k>> \in acts'} = {u \in Users : <<r, u, k>> \in acts}
    BY LikesAfterErase
  <2> QED
    BY <2>1, ZenonT(30) DEF Likes
<1>11. IsFiniteSet(Children(0)) /\ Cardinality(Children(0)) \in Nat
  <2>1. Children(0) \subseteq alive
    BY DEF Children
  <2> QED
    BY <1>2, <2>1, FS_Subset, FS_CardinalityType
<1>12. CASE parentOf[c] = 0
  <2>1. Children(0)' = Children(0) \ {c} /\ c \in Children(0)
    BY <1>2, <1>3, <1>12 DEF Children
  <2>2. Cardinality(Children(0)') = Cardinality(Children(0)) - 1 /\ IsFiniteSet(Children(0)')
    BY <1>11, <2>1, FS_RemoveElement
  <2>3. Cardinality(Children(0)') \in Nat
    BY <2>2, FS_CardinalityType
  <2>4. accounts = Users => commentCount' = Cardinality(Children(0)')
    BY <1>1, <1>2, <1>11, <1>12, <2>2, <2>3 DEF CountsMatchRows, CountsAreExact
  <2>5. commentCount' >= Cardinality(Children(0)')
    BY <1>1, <1>2, <1>11, <1>12, <2>2, <2>3 DEF CountsMatchRows
  <2>6. CountsMatchRows'
    BY <1>1, <1>9, <1>10, <2>4, <2>5 DEF CountsMatchRows, CountsAreExact
  <2> QED
    BY <1>4, <1>5, <1>6, <1>7, <1>8, <2>6
<1>13. CASE parentOf[c] # 0
  <2>1. \A d \in alive : parentOf[d] # c
    BY <1>1, <1>2, <1>13 DEF LevelPart
  <2>2. Children(0)' = Children(0)
    BY <1>2, <1>3, <1>13, <2>1 DEF Children
  <2>3. CountsMatchRows'
    BY <1>1, <1>9, <1>10, <1>13, <2>2 DEF CountsMatchRows, CountsAreExact
  <2> QED
    BY <1>4, <1>5, <1>6, <1>7, <1>8, <2>3
<1> QED
  BY <1>12, <1>13

\* DeleteComment.
LEMMA DeleteKeeps ==
  ASSUME DiscussionInv, NEW s \in Sessions, CommitDelete(s)
  PROVE  DiscussionInv'
<1>1. PICK c : c = tx[s].id
  OBVIOUS
<1>2. /\ tx[s].next = "replies" /\ Wanted(s) = {} /\ End(s)
      /\ alive' = alive \ Erased(c) /\ acts' = {a \in acts : a[1] \notin Erased(c)}
      /\ UNCHANGED <<accounts, parentOf, authorOf>>
  BY <1>1, ZenonT(30) DEF CommitDelete
<1>3. DiscussionTypes /\ BoundPart /\ TxOK(s)
  BY DEF DiscussionInv, TxPart
<1>4. /\ Solution = 0 /\ Ids \subseteq Rows /\ alive \subseteq Ids /\ 0 \notin alive
      /\ \A d \in Ids : d \in Nat /\ d # 0
  BY <1>3, IdFacts DEF DiscussionTypes
<1>5. tx[s].op = "delete" /\ c \in Ids
  BY <1>1, <1>2, <1>3, Zenon DEF TxOK, AboutComment, OrderOf
<1>6. /\ c \in held[s] /\ c \in alive
      /\ Solution \in held[s] /\ tx[s].row = count[Solution] /\ tx[s].comments = commentCount
  BY <1>1, <1>2, <1>3, <1>4, <1>5, ZenonT(30) DEF TxOK, ReadPart, HoldsComment, HoldsSolution
<1>7. Children(c) \subseteq held[s]
  <2> DEFINE rest == Children(c) \ held[s]
  <2>1. rest \subseteq Nat
    BY <1>4 DEF Children
  <2>2. {d \in rest : \A e \in rest : d <= e} = {}
    BY <1>1, <1>2 DEF Wanted
  <2> HIDE DEF rest
  <2>3. rest = {}
    BY <2>1, <2>2, LeastOf, ZenonT(30)
  <2> QED
    BY <2>3 DEF rest
<1>8. Erased(c) \subseteq held[s] /\ Solution \notin Erased(c) /\ Erased(c) \subseteq Rows
  BY <1>4, <1>5, <1>6, <1>7 DEF Erased, Children
<1>9. commentCount' = IF parentOf[c] # 0 THEN commentCount
                      ELSE IF commentCount > 0 THEN commentCount - 1 ELSE 0
  BY <1>1, <1>6 DEF CommitDelete
<1>10. count' = [r \in Rows |-> IF r \in Erased(c) THEN Zero ELSE count[r]]
  <2>1. CASE parentOf[c] = 0
    <3>1. count' = [r \in Rows |-> IF r \in Erased(c) THEN Zero
                                   ELSE IF r = Solution THEN tx[s].row ELSE count[r]]
      BY <1>1, <2>1 DEF CommitDelete
    <3> QED
      BY <1>6, <3>1
  <2>2. CASE parentOf[c] # 0
    BY <1>1, <2>2 DEF CommitDelete
  <2> QED
    BY <2>1, <2>2
<1>11. /\ count' \in [Rows -> Counters] /\ acts' \subseteq Rows \X Users \X Kinds
       /\ alive' \subseteq Ids' /\ commentCount' \in 0 .. CountMax
       /\ LevelPart' /\ UnusedPart' /\ TwoLevels' /\ CountsMatchRows'
  BY <1>2, <1>6, <1>9, <1>10, DeleteCounts
<1>12. \A r \in Rows : r \in held[s] \/ (count'[r] = count[r] /\ (r \in alive => r \in alive'))
  BY <1>2, <1>8, <1>10
<1>13. /\ parentOf' \in Seq(0 .. MaxComments) /\ accounts' \subseteq Users
       /\ authorOf' \in Seq(Users) /\ Len(authorOf') = Len(parentOf')
       /\ parentOf' = parentOf
  BY <1>2, <1>3 DEF DiscussionTypes
<1> QED
  BY <1>2, <1>6, <1>11, <1>12, <1>13, CommitKeeps

\* The rows left by an account that is deleted.
LEMMA DeleteUserCounts ==
  ASSUME DiscussionInv, NEW u \in accounts, NEW G, G = {c \in alive : authorOf[c] = u},
         accounts' = accounts \ {u}, alive' = alive \ G,
         acts' = {a \in acts : a[1] \notin G /\ a[2] # u},
         count' = [r \in Rows |-> IF r \in G THEN Zero ELSE count[r]],
         UNCHANGED <<parentOf, authorOf, commentCount>>
  PROVE  /\ accounts' \subseteq Users /\ count' \in [Rows -> Counters]
         /\ acts' \subseteq Rows \X Users \X Kinds /\ alive' \subseteq Ids'
         /\ LevelPart' /\ UnusedPart' /\ TwoLevels' /\ CountsMatchRows'
<1>1. DiscussionTypes /\ BoundPart /\ CountsMatchRows /\ TwoLevels /\ UnusedPart /\ LevelPart
  BY DEF DiscussionInv
<1>2. /\ Solution = 0 /\ Solution \in Rows /\ 0 \notin alive /\ alive \subseteq Rows
      /\ alive \subseteq Ids /\ IsFiniteSet(alive) /\ Ids' = Ids
      /\ commentCount \in Nat
  BY <1>1, IdFacts DEF DiscussionTypes, Ids
<1>3. /\ accounts' \subseteq Users /\ u \in Users /\ accounts' # Users
      /\ acts' \subseteq Rows \X Users \X Kinds /\ alive' \subseteq Ids'
  BY <1>1, <1>2, ZenonT(30) DEF DiscussionTypes
<1>4. count' \in [Rows -> Counters]
  BY <1>1, NoTxFacts DEF DiscussionTypes
<1>5. LevelPart'
  BY <1>1, <1>2 DEF LevelPart
<1>6. UnusedPart'
  BY <1>1 DEF UnusedPart
<1>7. TwoLevels'
  <2>1. ASSUME NEW d \in alive', parentOf[d] # 0
        PROVE  /\ parentOf[parentOf[d]] = 0
               /\ parentOf[d] \in alive' \/ authorOf[parentOf[d]] \notin accounts'
    <3>1. d \in alive
      OBVIOUS
    <3>2. parentOf[parentOf[d]] = 0 /\ (parentOf[d] \in alive \/ authorOf[parentOf[d]] \notin accounts)
      BY <1>1, <2>1, <3>1 DEF TwoLevels
    <3> QED
      BY <3>2
  <2>2. \A a \in acts' : a[1] \in {Solution} \cup alive'
    BY <1>1 DEF TwoLevels
  <2> QED
    BY <2>1, <2>2 DEF TwoLevels
<1>8. \A r \in {Solution} \cup alive' : r \in {Solution} \cup alive /\ count'[r] = count[r]
  BY <1>2
<1>9. \A r, k : Likes(r, k) \in Nat /\ Likes(r, k)' \in Nat /\ Likes(r, k)' <= Likes(r, k)
  <2> SUFFICES ASSUME NEW r, NEW k
               PROVE  Likes(r, k) \in Nat /\ Likes(r, k)' \in Nat /\ Likes(r, k)' <= Likes(r, k)
    OBVIOUS
  <2> DEFINE L == {v \in Users : <<r, v, k>> \in acts}
             M == {v \in Users : <<r, v, k>> \in acts'}
  <2>1. M \subseteq L
    OBVIOUS
  <2>2. IsFiniteSet(L) /\ Cardinality(L) \in Nat
    BY LikesNat, ZenonT(30)
  <2>3. Likes(r, k) = Cardinality(L) /\ Likes(r, k)' = Cardinality(M)
    BY DEF Likes
  <2> HIDE DEF L, M
  <2>4. IsFiniteSet(M) /\ Cardinality(M) <= Cardinality(L)
    BY <2>1, <2>2, FS_Subset
  <2> QED
    BY <2>2, <2>3, <2>4, FS_CardinalityType
<1>10. /\ Cardinality(Children(0)) \in Nat /\ Cardinality(Children(0)') \in Nat
       /\ Cardinality(Children(0)') <= Cardinality(Children(0))
  <2>1. Children(0) \subseteq alive /\ Children(0)' \subseteq Children(0)
    BY DEF Children
  <2>2. IsFiniteSet(Children(0))
    BY <1>2, <2>1, FS_Subset
  <2>3. IsFiniteSet(Children(0)') /\ Cardinality(Children(0)') <= Cardinality(Children(0))
    BY <2>1, <2>2, FS_Subset
  <2> QED
    BY <2>2, <2>3, FS_CardinalityType
<1>11. \A r \in {Solution} \cup alive', k \in Kinds : count'[r][k] >= Likes(r, k)'
  <2> SUFFICES ASSUME NEW r \in {Solution} \cup alive', NEW k \in Kinds
               PROVE  count'[r][k] >= Likes(r, k)'
    OBVIOUS
  <2>1. count'[r] = count[r] /\ r \in {Solution} \cup alive /\ r \in Rows
    BY <1>2, <1>8
  <2>2. count[r][k] \in Nat /\ count[r][k] >= Likes(r, k)
    BY <1>1, <2>1, DiscussionConstants DEF CountsMatchRows, DiscussionTypes, Counters
  <2> QED
    BY <1>9, <2>1, <2>2
<1>12. commentCount' >= Cardinality(Children(0)')
  BY <1>1, <1>2, <1>10 DEF CountsMatchRows
<1>13. CountsMatchRows'
  BY <1>3, <1>11, <1>12 DEF CountsMatchRows
<1> QED
  BY <1>3, <1>4, <1>5, <1>6, <1>7, <1>13

\* DeleteUserByEmail: no transaction has locked a row that goes.
LEMMA DeleteUserKeeps ==
  ASSUME DiscussionInv, NEW u \in Users, DeleteUser(u)
  PROVE  DiscussionInv'
<1>1. PICK G : G = {c \in alive : authorOf[c] = u}
  BY Zenon
<1>2. /\ u \in accounts /\ \A s \in Sessions : held[s] \cap G = {}
      /\ accounts' = accounts \ {u} /\ alive' = alive \ G
      /\ acts' = {a \in acts : a[1] \notin G /\ a[2] # u}
      /\ count' = [r \in Rows |-> IF r \in G THEN Zero ELSE count[r]]
      /\ parentOf' = parentOf /\ authorOf' = authorOf /\ commentCount' = commentCount
      /\ tx' = tx /\ held' = held
  BY <1>1 DEF DeleteUser
<1>3. /\ accounts' \subseteq Users /\ count' \in [Rows -> Counters]
      /\ acts' \subseteq Rows \X Users \X Kinds /\ alive' \subseteq Ids'
      /\ LevelPart' /\ UnusedPart' /\ TwoLevels' /\ CountsMatchRows'
  BY <1>1, <1>2, DeleteUserCounts
<1>4. DiscussionTypes /\ BoundPart /\ LockPart /\ TxPart
  BY DEF DiscussionInv
<1>5. DiscussionTypes'
  BY <1>2, <1>3, <1>4 DEF DiscussionTypes
<1>6. BoundPart' /\ LockPart'
  BY <1>2, <1>4 DEF BoundPart, LockPart, Creating
<1>7. ASSUME NEW s \in Sessions PROVE TxOK(s)'
  <2>1. TxOK(s) /\ held[s] \in SUBSET Rows
    BY <1>4 DEF TxPart, DiscussionTypes
  <2>2. \A r \in held[s] : count'[r] = count[r] /\ (r \in alive => r \in alive')
    BY <1>2, <2>1
  <2>3. Ids' = Ids
    BY <1>2 DEF Ids
  <2> QED
    BY <1>2, <1>4, <2>1, <2>2, <2>3, OthersKeep
<1>8. TxPart'
  BY <1>7 DEF TxPart
<1> QED
  BY <1>3, <1>5, <1>6, <1>8 DEF DiscussionInv

-----------------------------------------------------------------------------
\* The invariant holds at the start: no comment, no action, no transaction.
LEMMA DiscussionInitOK == DiscussionInit => DiscussionInv
<1> SUFFICES ASSUME DiscussionInit PROVE DiscussionInv
  OBVIOUS
<1>1. /\ accounts = Users /\ parentOf = <<>> /\ authorOf = <<>> /\ alive = {} /\ commentCount = 0
      /\ acts = {} /\ count = [r \in Rows |-> Zero] /\ tx = [s \in Sessions |-> NoTx]
      /\ held = [s \in Sessions |-> {}]
  BY DEF DiscussionInit
<1>2. Ids = {} /\ Len(parentOf) = 0
  BY <1>1 DEF Ids
<1>3. DiscussionTypes
  BY <1>1, <1>2, NoTxFacts, DiscussionConstants DEF DiscussionTypes
<1>4. Creating = {}
  BY <1>1, NoTxFacts DEF Creating
<1>5. BoundPart
  BY <1>2, <1>4, FS_EmptySet, DiscussionConstants DEF BoundPart
<1>6. LockPart
  BY <1>1 DEF LockPart
<1>7. TxPart
  BY <1>1, NoTxFacts DEF TxPart, TxOK, AboutComment, AboutActor, AboutSolution, OrderOf, ReadPart,
     HoldsComment, HoldsSolution
<1>8. LevelPart /\ UnusedPart /\ TwoLevels
  BY <1>1, <1>2 DEF LevelPart, UnusedPart, TwoLevels
<1>9. CountsMatchRows
  <2>1. \A r, k : Likes(r, k) = 0
    <3>1. \A r, k : {u \in Users : <<r, u, k>> \in acts} = {}
      BY <1>1
    <3> QED
      BY <3>1, FS_EmptySet, Zenon DEF Likes
  <2>2. Cardinality(Children(0)) = 0
    <3>1. Children(0) = {}
      BY <1>1 DEF Children
    <3> QED
      BY <3>1, FS_EmptySet
  <2>3. \A k \in Kinds : count[Solution][k] = 0
    BY <1>1, NoTxFacts DEF Rows
  <2> QED
    BY <1>1, <2>1, <2>2, <2>3 DEF CountsMatchRows, CountsAreExact
<1> QED
  BY <1>3, <1>5, <1>6, <1>7, <1>8, <1>9 DEF DiscussionInv

\* Every step of every request keeps it.
LEMMA DiscussionStep == DiscussionInv /\ [DiscussionNext]_discussionVars => DiscussionInv'
<1> SUFFICES ASSUME DiscussionInv, [DiscussionNext]_discussionVars PROVE DiscussionInv'
  OBVIOUS
<1>1. ASSUME NEW s \in Sessions, Request(s) PROVE DiscussionInv'
  BY <1>1, RequestKeeps
<1>2. ASSUME NEW s \in Sessions, LockStep(s) PROVE DiscussionInv'
  BY <1>2, LockCommentKeeps, LockSolutionKeeps, LockReplyKeeps DEF LockStep
<1>3. ASSUME NEW s \in Sessions, CommitStep(s) PROVE DiscussionInv'
  BY <1>3, ToggleKeeps, EditKeeps, CreateKeeps, DeleteKeeps DEF CommitStep
<1>4. ASSUME NEW s \in Sessions, Rollback(s) \/ DeadlockVictim(s) PROVE DiscussionInv'
  <2>1. End(s) /\ UNCHANGED dataVars
    BY <1>4 DEF DeadlockVictim, Rollback, dataVars
  <2> QED
    BY <2>1, RollbackKeeps
<1>5. ASSUME NEW u \in Users, DeleteUser(u) PROVE DiscussionInv'
  BY <1>5, DeleteUserKeeps
<1>6. CASE UNCHANGED discussionVars
  <2>1. UNCHANGED dataVars /\ tx' = tx /\ held' = held
    BY <1>6 DEF discussionVars, dataVars
  <2>2. DiscussionTypes /\ BoundPart /\ LockPart /\ TxPart
    BY DEF DiscussionInv
  <2>3. /\ LevelPart' /\ UnusedPart' /\ TwoLevels' /\ CountsMatchRows'
        /\ Ids' = Ids /\ Len(parentOf') = Len(parentOf)
    BY <2>1, DataStays
  <2>4. DiscussionTypes'
    BY <2>1, <2>2, DataStays DEF DiscussionTypes
  <2>5. BoundPart' /\ LockPart'
    BY <2>1, <2>2, <2>3 DEF BoundPart, LockPart, Creating
  <2>6. ASSUME NEW s \in Sessions PROVE TxOK(s)'
    <3>1. parentOf' = parentOf /\ count' = count /\ alive' = alive /\ commentCount' = commentCount
      BY <2>1 DEF dataVars
    <3>2. TxOK(s)
      BY <2>2 DEF TxPart
    <3> QED
      BY <2>1, <2>2, <2>3, <3>1, <3>2, OthersKeep
  <2>7. TxPart'
    BY <2>6 DEF TxPart
  <2> QED
    BY <2>3, <2>4, <2>5, <2>7 DEF DiscussionInv
<1> QED
  BY <1>1, <1>2, <1>3, <1>4, <1>5, <1>6 DEF DiscussionNext

\* The invariant of the discussion: rows are locked by one transaction, what a
\* transaction read of the rows it has locked is what they hold, replies are
\* filed under top-level comments, and the counters follow the rows.
THEOREM DiscussionInvariant == DiscussionSpec => []DiscussionInv
<1>1. DiscussionInit => DiscussionInv
  BY DiscussionInitOK
<1>2. DiscussionInv /\ [DiscussionNext]_discussionVars => DiscussionInv'
  BY DiscussionStep
<1> QED
  BY <1>1, <1>2, PTL DEF DiscussionSpec

\* No counter loses an update to a transaction that writes a whole row back.
THEOREM DiscussionCountsMatchRows == DiscussionSpec => []CountsMatchRows
<1>1. DiscussionInv => CountsMatchRows
  BY DEF DiscussionInv
<1> QED
  BY <1>1, DiscussionInvariant, PTL

\* Comments have two levels, and no reply or action outlives its comment unless an
\* account was deleted.
THEOREM DiscussionTwoLevels == DiscussionSpec => []TwoLevels
<1>1. DiscussionInv => TwoLevels
  BY DEF DiscussionInv
<1> QED
  BY <1>1, DiscussionInvariant, PTL

-----------------------------------------------------------------------------
\* What a transaction has not locked: nothing before it has found its comment, and
\* not the solution while it asks for it.
HeldPart ==
  \A s \in Sessions :
    /\ tx[s].next \in {"none", "comment"} => held[s] = {}
    /\ tx[s].next = "solution" => Solution \notin held[s]

\* The other transactions keep their locks.
LEMMA HeldStep ==
  ASSUME NEW s \in Sessions, NEW t, NEW h, DiscussionInv, HeldPart,
         tx' = [tx EXCEPT ![s] = t], held' = [held EXCEPT ![s] = h],
         t.next \in {"none", "comment"} => h = {},
         t.next = "solution" => Solution \notin h
  PROVE  HeldPart'
<1>1. tx \in [Sessions -> TxType] /\ held \in [Sessions -> SUBSET Rows]
  BY DEF DiscussionInv, DiscussionTypes
<1>2. tx'[s] = t /\ held'[s] = h
  BY <1>1
<1>3. ASSUME NEW u \in Sessions, u # s PROVE tx'[u] = tx[u] /\ held'[u] = held[u]
  BY <1>1, <1>3
<1> QED
  BY <1>2, <1>3 DEF HeldPart

\* A transaction that ends has no locks.
LEMMA HeldEnd ==
  ASSUME NEW s \in Sessions, DiscussionInv, HeldPart, End(s)
  PROVE  HeldPart'
<1>1. tx' = [tx EXCEPT ![s] = NoTx] /\ held' = [held EXCEPT ![s] = {}]
  BY DEF End
<1>2. NoTx.next = "none"
  BY NoTxFacts
<1> QED
  BY <1>1, <1>2, HeldStep, Zenon

\* A transaction that begins has none either.
LEMMA HeldBegin ==
  ASSUME NEW s \in Sessions, NEW op, NEW id, NEW user, NEW kind, DiscussionInv, HeldPart,
         Begin(s, op, id, user, kind)
  PROVE  HeldPart'
<1> DEFINE t == Tx(op, After(op, id, "begin"), id, user, kind, Zero, 0)
<1>1. tx[s] = NoTx /\ tx' = [tx EXCEPT ![s] = t] /\ held' = held
  BY DEF Begin
<1>2. NoTx.next = "none"
  BY NoTxFacts
<1>3. held[s] = {}
  BY <1>1, <1>2, Zenon DEF HeldPart
<1>4. held' = [held EXCEPT ![s] = {}]
  BY <1>1, <1>3 DEF DiscussionInv, DiscussionTypes
<1> HIDE DEF t
<1> QED
  BY <1>1, <1>4, HeldStep, ZenonT(30)

\* What follows a locking read.
LEMMA AfterReads ==
  ASSUME NEW op, NEW id
  PROVE  /\ After(op, id, "comment") \in {"solution", "write"}
         /\ After(op, id, "solution") \in {"replies", "write"}
BY DEF After

\* The locking reads keep to the order comment, solution.
LEMMA HeldLock ==
  ASSUME NEW s \in Sessions, DiscussionInv, HeldPart, LockStep(s)
  PROVE  HeldPart'
<1>1. CASE LockComment(s)
  <2>1. CASE tx[s].id \in alive
    <3> DEFINE t == Tx(tx[s].op, After(tx[s].op, tx[s].id, "comment"), tx[s].id, tx[s].user,
                       tx[s].kind, count[tx[s].id], tx[s].comments)
    <3>1. /\ tx[s].next = "comment" /\ tx' = [tx EXCEPT ![s] = t]
          /\ held' = [held EXCEPT ![s] = held[s] \cup {tx[s].id}]
      BY <1>1, <2>1 DEF LockComment, ForUpdate, DiscussionInv, DiscussionTypes
    <3>2. t.next \in {"solution", "write"}
      <4>1. t.next = After(tx[s].op, tx[s].id, "comment")
        BY Zenon DEF Tx
      <4> HIDE DEF t
      <4> QED
        BY <4>1, AfterReads
    <3>3. Solution \notin held[s] \cup {tx[s].id}
      BY <2>1, <3>1 DEF HeldPart, DiscussionInv, DiscussionTypes, Ids, Solution
    <3> HIDE DEF t
    <3> QED
      BY <3>1, <3>2, <3>3, HeldStep, ZenonT(30)
  <2>2. CASE tx[s].id \notin alive
    BY <1>1, <2>2, HeldEnd, ZenonT(30) DEF LockComment
  <2> QED
    BY <2>1, <2>2
<1>2. CASE LockSolution(s)
  <2> DEFINE t == Tx(tx[s].op, After(tx[s].op, tx[s].id, "solution"), tx[s].id, tx[s].user,
                     tx[s].kind, count[Solution], commentCount)
  <2>1. /\ tx' = [tx EXCEPT ![s] = t]
        /\ held' = [held EXCEPT ![s] = held[s] \cup {Solution}]
    BY <1>2 DEF LockSolution, ForUpdate, DiscussionInv, DiscussionTypes
  <2>2. t.next \in {"replies", "write"}
    <3>1. t.next = After(tx[s].op, tx[s].id, "solution")
      BY DEF Tx
    <3> HIDE DEF t
    <3> QED
      BY <3>1, AfterReads
  <2> HIDE DEF t
  <2> QED
    BY <2>1, <2>2, HeldStep, ZenonT(30)
<1>3. CASE LockReply(s)
  <2>1. PICK d : held' = [held EXCEPT ![s] = @ \cup {d}] /\ tx[s].next = "replies" /\ tx' = tx
    BY <1>3, ZenonT(30) DEF LockReply, ForUpdate
  <2>2. held' = [held EXCEPT ![s] = held[s] \cup {d}] /\ tx' = [tx EXCEPT ![s] = tx[s]]
    BY <2>1 DEF DiscussionInv, DiscussionTypes
  <2> QED
    BY <2>1, <2>2, HeldStep, Zenon
<1> QED
  BY <1>1, <1>2, <1>3 DEF LockStep

\* Every step keeps to it.
LEMMA HeldNext == DiscussionInv /\ HeldPart /\ [DiscussionNext]_discussionVars => HeldPart'
<1> SUFFICES ASSUME DiscussionInv, HeldPart, [DiscussionNext]_discussionVars PROVE HeldPart'
  OBVIOUS
<1>1. ASSUME NEW s \in Sessions, Request(s) PROVE HeldPart'
  <2>1. PICK op, id, user, kind : Begin(s, op, id, user, kind)
    BY <1>1, ZenonT(30) DEF Request, BeginEdit, BeginDelete, BeginCreate, BeginToggleSolution, BeginToggleComment
  <2> QED
    BY <2>1, HeldBegin
<1>2. ASSUME NEW s \in Sessions, LockStep(s) PROVE HeldPart'
  BY <1>2, HeldLock
<1>3. ASSUME NEW s \in Sessions, CommitStep(s) \/ Rollback(s) \/ DeadlockVictim(s) PROVE HeldPart'
  <2>1. End(s)
    BY <1>3, Zenon DEF CommitStep, CommitToggle, CommitEdit, CommitCreate, CommitDelete, Rollback, DeadlockVictim
  <2> QED
    BY <2>1, HeldEnd
<1>4. ASSUME NEW u \in Users, DeleteUser(u) PROVE HeldPart'
  BY <1>4, ZenonT(30) DEF DeleteUser, HeldPart
<1>5. CASE UNCHANGED discussionVars
  BY <1>5 DEF discussionVars, HeldPart
<1> QED
  BY <1>1, <1>2, <1>3, <1>4, <1>5 DEF DiscussionNext

\* Whoever a transaction in a cycle waits for, with none at the replies, is in the
\* cycle too: it waits for one row, and one transaction has it.
LEMMA CycleGoesOn ==
  ASSUME LockPart, NEW s \in InCycle, tx[s].next # "replies"
  PROVE  \E t \in InCycle : WaitsFor(s, t)
<1>1. s \in Sessions
  BY DEF InCycle
<1>2. PICK t \in Sessions : WaitsFor(s, t)
  <2>1. ASSUME \A t \in Sessions : ~ WaitsFor(s, t) PROVE FALSE
    <3>1. PICK S \in SUBSET Sessions : S = {}
      BY Zenon
    <3>2. \A u \in S \cup {s}, t \in Sessions : WaitsFor(u, t) => t \in S
      BY <2>1, <3>1
    <3> QED
      BY <3>1, <3>2 DEF InCycle
  <2> QED
    BY <2>1
<1>3. ASSUME NEW u \in Sessions, WaitsFor(s, u) PROVE u = t
  <2>1. \A c, d \in Wanted(s) : c = d
    BY DEF Wanted
  <2> QED
    BY <1>2, <1>3, <2>1 DEF WaitsFor, LockPart
<1>4. ASSUME NEW S \in SUBSET Sessions, \A u \in S \cup {t}, v \in Sessions : WaitsFor(u, v) => v \in S
      PROVE  t \in S
  <2>1. \A u \in (S \cup {t}) \cup {s}, v \in Sessions : WaitsFor(u, v) => v \in S \cup {t}
    BY <1>3, <1>4
  <2>2. S \cup {t} \in SUBSET Sessions
    BY <1>2
  <2>3. s \in S \cup {t}
    BY <2>1, <2>2, ZenonT(30) DEF InCycle
  <2>4. s \in S
    BY <1>2, <2>3 DEF WaitsFor
  <2> QED
    BY <1>2, <1>4, <2>4
<1>5. t \in InCycle
  BY <1>4 DEF InCycle
<1> QED
  BY <1>2, <1>5

\* The locks are taken in the order comment, solution, so that of two transactions
\* in a row that are waited for and wait, one is at the replies.
LEMMA CyclesAtReplies == DiscussionInv /\ HeldPart => CyclesOnlyAtReplies
<1> SUFFICES ASSUME DiscussionInv, HeldPart, NEW s \in InCycle,
                    \A t \in InCycle : tx[t].next # "replies"
             PROVE  FALSE
  BY DEF CyclesOnlyAtReplies
<1>1. LockPart /\ InCycle \subseteq Sessions
  BY DEF DiscussionInv, InCycle
<1>2. PICK t \in InCycle : WaitsFor(s, t)
  BY <1>1, CycleGoesOn
<1>3. PICK u \in InCycle : WaitsFor(t, u)
  BY <1>1, CycleGoesOn
<1>4. PICK v \in InCycle : WaitsFor(u, v)
  BY <1>1, CycleGoesOn
<1>5. tx[t].next = "solution" /\ Solution \in held[u]
  <2>1. held[t] # {} /\ Wanted(t) \cap held[u] # {}
    BY <1>2, <1>3 DEF WaitsFor
  <2>2. tx[t].next \notin {"none", "comment", "replies"}
    BY <1>1, <2>1 DEF HeldPart
  <2> QED
    BY <2>1, <2>2 DEF Wanted
<1>6. tx[u].next \in {"comment", "solution"}
  BY <1>4 DEF WaitsFor, Wanted
<1> QED
  BY <1>1, <1>5, <1>6 DEF HeldPart

\* Transactions on one solution, whatever their number, wait for each other in a
\* cycle only where one of them deletes a comment and waits for a reply: the case
\* that InnoDB has to resolve (model_comment.hpp, DeleteComment).
THEOREM DiscussionCyclesOnlyAtReplies == DiscussionSpec => []CyclesOnlyAtReplies
<1>1. DiscussionInit => HeldPart
  BY NoTxFacts DEF DiscussionInit, HeldPart
<1>2. DiscussionInv /\ HeldPart /\ [DiscussionNext]_discussionVars => HeldPart'
  BY HeldNext
<1>3. DiscussionInv /\ HeldPart => CyclesOnlyAtReplies
  BY CyclesAtReplies
<1> QED
  BY <1>1, <1>2, <1>3, DiscussionInvariant, PTL DEF DiscussionSpec
=============================================================================
