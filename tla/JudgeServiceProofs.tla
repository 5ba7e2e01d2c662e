------------------------- MODULE JudgeServiceProofs -------------------------
(***************************************************************************)
(* What a judge node promises for any number of nodes, deliveries, test    *)
(* cases and failed or late calls: the inbox scripts let one owner at a time *)
(* finish a message (judge_inbox.cpp), and Judger::Run leaves no container *)
(* behind, reports ACCEPTED only for a program that has earned it, and tells *)
(* the status a program deserves when nothing disturbs it (judger.hpp).    *)
(***************************************************************************)
EXTENDS JudgeInbox, Judger, TLAPS

\* A leaf that names no prover goes to SMT, to Zenon, and to SMT with more time.
USE SMTT(10), Zenon, SMTT(20)

\* The inbox of the judge nodes (JudgeInbox).

Replies == {"STARTED", "PROCESSING", "COMPLETED", "CONFLICT"}

\* ClaimScript keeps the hash well formed, starts a claim only on a message
\* that has no stored result and no live lease, and otherwise changes nothing.
LEMMA ClaimScriptFacts ==
  ASSUME NEW h \in HashType, NEW fp \in Bodies, NEW token \in Nat,
         h.state = "completed" <=> h.result # None
  PROVE  /\ ClaimReply(h, fp) \in Replies
         /\ ClaimEffect(h, fp, token) \in HashType
         /\ ClaimReply(h, fp) = "STARTED" =>
              /\ h.result = None
              /\ h.state # "completed"
              /\ ~(h.state = "processing" /\ h.leased)
              /\ ClaimEffect(h, fp, token).state = "processing"
              /\ ClaimEffect(h, fp, token).result = None
         /\ ClaimReply(h, fp) = "COMPLETED" => h.state = "completed"
         /\ ClaimReply(h, fp) # "STARTED" => ClaimEffect(h, fp, token) = h
  BY NoneIsNoValue DEF ClaimReply, ClaimEffect, HashType, Hash, Replies

\* The call of CompleteScript by a worker with a result keeps the hash well
\* formed and never replaces a stored result; when it answers COMPLETED the
\* stored result is the worker's.
LEMMA CompleteCall ==
  ASSUME InboxInv, NEW w \in Workers, work[w].pc = "judged"
  PROVE  LET t == work[w]
             h == inbox[t.msg]
             e == CompleteEffect(h, t.body, t.token, t.result)
         IN  /\ t.msg \in Messages /\ t.body \in Bodies
             /\ t.token \in Nat /\ t.result \in Results
             /\ e \in HashType
             /\ e.state = "completed" <=> e.result # None
             /\ e.leased => e.state = "processing"
             /\ h.state = "completed" => e = h
             /\ e.result = h.result \/ (h.result = None /\ e.result = t.result)
             /\ CompleteReply(h, t.body, t.token, t.result) = "COMPLETED" =>
                  e.state = "completed" /\ e.result = t.result
  <1> DEFINE t == work[w]
             h == inbox[t.msg]
  <1>1. t.msg \in Messages /\ t.body \in Bodies /\ t.token \in Nat /\ t.result \in Results
    BY DEF InboxInv, TypeOK, WorkType
  <1>2. h \in HashType
    BY <1>1 DEF InboxInv, TypeOK
  <1>3. h.state = "completed" <=> h.result # None
    BY <1>1 DEF InboxInv
  <1>4. h.leased => h.state = "processing"
    BY <1>1 DEF InboxInv
  <1> HIDE DEF h, t
  <1>5. LET e == CompleteEffect(h, t.body, t.token, t.result)
        IN  /\ e \in HashType
            /\ e.state = "completed" <=> e.result # None
            /\ e.leased => e.state = "processing"
            /\ h.state = "completed" => e = h
            /\ e.result = h.result \/ (h.result = None /\ e.result = t.result)
            /\ CompleteReply(h, t.body, t.token, t.result) = "COMPLETED" =>
                 e.state = "completed" /\ e.result = t.result
    BY <1>1, <1>2, <1>3, <1>4, NoneIsNoValue DEF CompleteReply, CompleteEffect, HashType, Hash
  <1> QED
    BY <1>1, <1>5 DEF h, t

-----------------------------------------------------------------------------
\* What InboxInv says of one hash and the results reported from it.
HashInv(h, rep) ==
  /\ h.state = "completed" <=> h.result # None
  /\ h.leased => h.state = "processing"
  /\ rep \subseteq {h.result}

\* What InboxInv says of one worker, given the hashes and the tokens drawn.
TaskInv(t, cell, n) ==
  /\ t.pc # "idle" => t.msg \in Messages /\ t.body \in Bodies
  /\ t.pc \in {"judged", "report"} => t.result \in Results
  /\ t.token <= n
  /\ t.pc = "report" =>
       cell[t.msg].state = "completed" /\ cell[t.msg].result = t.result

HashPart ==
  /\ inbox \in [Messages -> HashType]
  /\ reported \in [Messages -> SUBSET Results]
  /\ \A m \in Messages : HashInv(inbox[m], reported[m])

TaskPart ==
  /\ work \in [Workers -> WorkType]
  /\ issued \in Nat
  /\ \A w \in Workers : TaskInv(work[w], inbox, issued)

\* The invariant is a part about the hashes and a part about the workers.
LEMMA InvParts == InboxInv <=> HashPart /\ TaskPart
  BY DEF InboxInv, TypeOK, ReportIsStored, HashPart, TaskPart, HashInv, TaskInv

\* The same in the next state.
LEMMA InvPartsNext == HashPart' /\ TaskPart' => InboxInv'
  BY DEF InboxInv, TypeOK, ReportIsStored, HashPart, TaskPart, HashInv, TaskInv

\* A well-typed task is a value of WorkType.
LEMMA TaskTyped ==
  ASSUME NEW pc \in {"idle", "judging", "judged", "report"},
         NEW m \in Messages \cup {None}, NEW b \in Bodies \cup {None},
         NEW token \in Nat, NEW r \in Results \cup {None}
  PROVE  Task(pc, m, b, token, r) \in WorkType
  BY DEF Task, WorkType

\* The fields of a task.
LEMMA TaskFields ==
  ASSUME NEW pc, NEW m, NEW b, NEW token, NEW r
  PROVE  /\ Task(pc, m, b, token, r).pc = pc
         /\ Task(pc, m, b, token, r).msg = m
         /\ Task(pc, m, b, token, r).body = b
         /\ Task(pc, m, b, token, r).token = token
         /\ Task(pc, m, b, token, r).result = r
  BY DEF Task

\* A worker without a delivery satisfies the invariant.
LEMMA IdleFacts ==
  ASSUME NEW cell, NEW n \in Nat
  PROVE  Idle \in WorkType /\ Idle.pc = "idle" /\ TaskInv(Idle, cell, n)
  <1>1. Idle \in WorkType
    BY TaskTyped DEF Idle
  <1>2. Idle.pc = "idle" /\ Idle.token = 0
    BY TaskFields DEF Idle
  <1> QED
    BY <1>1, <1>2 DEF TaskInv

\* The fields of a worker's record.
LEMMA WorkTyped ==
  ASSUME NEW t \in WorkType
  PROVE  t.token \in Nat /\ t.result \in Results \cup {None}
  BY DEF WorkType

\* Replacing one hash by a good one keeps the part about the hashes.
LEMMA HashUpdate ==
  ASSUME HashPart, NEW m \in Messages, NEW h \in HashType, NEW R \in SUBSET Results,
         inbox' = [inbox EXCEPT ![m] = h],
         reported' = [reported EXCEPT ![m] = R],
         HashInv(h, R)
  PROVE  HashPart'
  <1>1. inbox' \in [Messages -> HashType] /\ reported' \in [Messages -> SUBSET Results]
    BY DEF HashPart
  <1>2. ASSUME NEW n \in Messages PROVE HashInv(inbox'[n], reported'[n])
    <2>1. CASE n = m
      <3>1. inbox'[n] = h /\ reported'[n] = R
        BY <2>1 DEF HashPart
      <3> QED
        BY <3>1
    <2>2. CASE n # m
      <3>1. inbox'[n] = inbox[n] /\ reported'[n] = reported[n]
        BY <2>2 DEF HashPart
      <3> QED
        BY <3>1 DEF HashPart
    <2> QED
      BY <2>1, <2>2
  <1> QED
    BY <1>1, <1>2 DEF HashPart

\* A worker that does not move stays good while tokens only grow and the hash
\* it reports from keeps its result.
LEMMA TaskKept ==
  ASSUME TaskPart, NEW v \in Workers, issued' \in Nat, issued <= issued',
         work[v].pc = "report" =>
           /\ inbox'[work[v].msg].state = inbox[work[v].msg].state
           /\ inbox'[work[v].msg].result = inbox[work[v].msg].result
  PROVE  TaskInv(work[v], inbox', issued')
  <1>1. TaskInv(work[v], inbox, issued) /\ work[v] \in WorkType /\ issued \in Nat
    BY DEF TaskPart
  <1>2. work[v].token \in Nat
    BY <1>1, WorkTyped
  <1>3. work[v].token <= issued'
    BY <1>1, <1>2 DEF TaskInv
  <1> QED
    BY <1>1, <1>3 DEF TaskInv

\* Moving one worker to a good task keeps the part about the workers, as long
\* as no hash that another worker reports from changes its result.
LEMMA TaskUpdate ==
  ASSUME TaskPart, NEW w \in Workers, NEW t \in WorkType,
         issued' \in Nat, issued <= issued',
         work' = [work EXCEPT ![w] = t],
         TaskInv(t, inbox', issued'),
         \A v \in Workers : work[v].pc = "report" =>
           /\ inbox'[work[v].msg].state = inbox[work[v].msg].state
           /\ inbox'[work[v].msg].result = inbox[work[v].msg].result
  PROVE  TaskPart'
  <1>1. work' \in [Workers -> WorkType]
    BY DEF TaskPart
  <1>2. ASSUME NEW v \in Workers PROVE TaskInv(work'[v], inbox', issued')
    <2>1. CASE v = w
      <3>1. work'[v] = t
        BY <2>1 DEF TaskPart
      <3> QED
        BY <3>1
    <2>2. CASE v # w
      <3>1. work'[v] = work[v]
        BY <2>2 DEF TaskPart
      <3>2. TaskInv(work[v], inbox', issued')
        BY TaskKept
      <3> QED
        BY <3>1, <3>2
    <2> QED
      BY <2>1, <2>2
  <1> QED
    BY <1>1, <1>2 DEF TaskPart

\* When no worker moves, the part about the workers is kept on the same terms.
LEMMA TaskSame ==
  ASSUME TaskPart, issued' \in Nat, issued <= issued', work' = work,
         \A v \in Workers : work[v].pc = "report" =>
           /\ inbox'[work[v].msg].state = inbox[work[v].msg].state
           /\ inbox'[work[v].msg].result = inbox[work[v].msg].result
  PROVE  TaskPart'
  <1>1. ASSUME NEW v \in Workers PROVE TaskInv(work'[v], inbox', issued')
    <2>1. TaskInv(work[v], inbox', issued')
      BY TaskKept
    <2> QED
      BY <2>1
  <1> QED
    BY <1>1 DEF TaskPart

\* A step that keeps every completed hash keeps what the workers report.
LEMMA ReportsKept ==
  ASSUME TaskPart,
         \A n \in Messages : inbox[n].state = "completed" =>
           inbox'[n].state = inbox[n].state /\ inbox'[n].result = inbox[n].result,
         NEW v \in Workers, work[v].pc = "report"
  PROVE  /\ inbox'[work[v].msg].state = inbox[work[v].msg].state
         /\ inbox'[work[v].msg].result = inbox[work[v].msg].result
  <1>1. TaskInv(work[v], inbox, issued)
    BY DEF TaskPart
  <1>2. work[v].msg \in Messages /\ inbox[work[v].msg].state = "completed"
    BY <1>1 DEF TaskInv
  <1> QED
    BY <1>2

\* Every step keeps the inductive invariant.
LEMMA InboxInvStep == InboxInv /\ [Next]_vars => InboxInv'
  <1> SUFFICES ASSUME InboxInv, [Next]_vars PROVE HashPart' /\ TaskPart'
    BY InvPartsNext
  <1>a. HashPart /\ TaskPart
    BY InvParts
  <1>b. /\ inbox \in [Messages -> HashType] /\ reported \in [Messages -> SUBSET Results]
        /\ issued \in Nat /\ issued <= issued
        /\ \A m \in Messages : HashInv(inbox[m], reported[m])
    BY <1>a DEF HashPart, TaskPart
  <1>c. /\ work \in [Workers -> WorkType]
        /\ \A w \in Workers : TaskInv(work[w], inbox, issued)
    BY <1>a DEF TaskPart
  <1>1. ASSUME NEW w \in Workers, NEW m \in Messages, NEW b \in Bodies,
               Claim(w, m, b) \/ ClaimReplyLost(w, m, b)
        PROVE  HashPart' /\ TaskPart'
    <2> DEFINE h == inbox[m]
               e == ClaimEffect(h, b, issued + 1)
    <2>1. h \in HashType /\ HashInv(h, reported[m]) /\ issued + 1 \in Nat /\ issued <= issued + 1
      BY <1>b
    <2>2. h.state = "completed" <=> h.result # None
      BY <2>1 DEF HashInv
    <2>3. /\ e \in HashType
          /\ ClaimReply(h, b) = "STARTED" =>
               h.result = None /\ e.state = "processing" /\ e.result = None
          /\ ClaimReply(h, b) = "COMPLETED" => h.state = "completed"
          /\ ClaimReply(h, b) # "STARTED" => e = h
      BY <2>1, <2>2, ClaimScriptFacts
    <2>4. /\ inbox' = [inbox EXCEPT ![m] = e]
          /\ issued' = issued + 1 /\ reported' = reported
      BY <1>1 DEF Claim, ClaimReplyLost
    <2>5. issued' \in Nat /\ issued <= issued'
      BY <2>1, <2>4
    <2>6. HashInv(e, reported[m])
      <3>1. CASE ClaimReply(h, b) = "STARTED"
        BY <2>1, <2>3, <3>1 DEF HashInv
      <3>2. CASE ClaimReply(h, b) # "STARTED"
        BY <2>1, <2>3, <3>2
      <3> QED
        BY <3>1, <3>2
    <2> HIDE DEF e
    <2>7. HashPart'
      <3>1. reported' = [reported EXCEPT ![m] = reported[m]] /\ reported[m] \in SUBSET Results
        BY <1>b, <2>4
      <3> QED
        BY <1>a, <2>3, <2>4, <2>6, <3>1, HashUpdate, Zenon
    <2>8. \A n \in Messages : inbox[n].state = "completed" =>
            inbox'[n].state = inbox[n].state /\ inbox'[n].result = inbox[n].result
      <3> SUFFICES ASSUME NEW n \in Messages, inbox[n].state = "completed"
                   PROVE  inbox'[n] = inbox[n]
        OBVIOUS
      <3>1. CASE n = m
        <4>1. ClaimReply(h, b) # "STARTED"
          BY <2>2, <2>3, <3>1
        <4> QED
          BY <1>b, <2>3, <2>4, <3>1, <4>1
      <3>2. CASE n # m
        BY <1>b, <2>4, <3>2
      <3> QED
        BY <3>1, <3>2
    <2>9. \A v \in Workers : work[v].pc = "report" =>
            /\ inbox'[work[v].msg].state = inbox[work[v].msg].state
            /\ inbox'[work[v].msg].result = inbox[work[v].msg].result
      BY <1>a, <2>8, ReportsKept
    <2>10. TaskPart'
      <3>1. CASE ClaimReplyLost(w, m, b)
        <4>1. work' = work
          BY <3>1 DEF ClaimReplyLost
        <4> QED
          BY <1>a, <2>5, <2>9, <4>1, TaskSame
      <3>2. CASE Claim(w, m, b) /\ ClaimReply(h, b) = "STARTED"
        <4> DEFINE t == Task("judging", m, b, issued + 1, None)
        <4>1. work' = [work EXCEPT ![w] = t]
          BY <3>2 DEF Claim
        <4>2. t \in WorkType
          BY <2>1, TaskTyped
        <4>3. t.pc = "judging" /\ t.msg = m /\ t.body = b /\ t.token = issued'
          BY <2>4, TaskFields
        <4> HIDE DEF t
        <4>4. TaskInv(t, inbox', issued')
          BY <2>5, <4>3 DEF TaskInv
        <4> QED
          BY <1>a, <2>5, <2>9, <4>1, <4>2, <4>4, TaskUpdate, Zenon
      <3>3. CASE Claim(w, m, b) /\ ClaimReply(h, b) = "COMPLETED"
        <4> DEFINE t == Task("report", m, b, 0, h.result)
        <4>1. work' = [work EXCEPT ![w] = t]
          BY <3>3 DEF Claim
        <4>2. h.state = "completed" /\ h.result \in Results
          BY <2>1, <2>2, <2>3, <3>3 DEF HashType
        <4>3. t \in WorkType
          BY <4>2, TaskTyped
        <4>4. t.pc = "report" /\ t.msg = m /\ t.body = b /\ t.token = 0 /\ t.result = h.result
          BY TaskFields
        <4>5. inbox'[m].state = "completed" /\ inbox'[m].result = h.result
          BY <2>8, <4>2
        <4> HIDE DEF t
        <4>6. TaskInv(t, inbox', issued')
          BY <2>5, <4>2, <4>4, <4>5 DEF TaskInv
        <4> QED
          BY <1>a, <2>5, <2>9, <4>1, <4>3, <4>6, TaskUpdate, Zenon
      <3>4. CASE Claim(w, m, b) /\ ClaimReply(h, b) \notin {"STARTED", "COMPLETED"}
        <4>1. work' = [work EXCEPT ![w] = Idle]
          BY <3>4, Zenon DEF Claim
        <4> QED
          BY <1>a, <2>5, <2>9, <4>1, IdleFacts, TaskUpdate, Zenon
      <3> QED
        BY <1>1, <3>1, <3>2, <3>3, <3>4
    <2> QED
      BY <2>7, <2>10
  <1>2. ASSUME NEW w \in Workers, NEW r \in Results, Judge(w, r)
        PROVE  HashPart' /\ TaskPart'
    <2> DEFINE t == Task("judged", work[w].msg, work[w].body, work[w].token, r)
    <2>1. /\ work[w].pc = "judging" /\ work' = [work EXCEPT ![w] = t]
          /\ inbox' = inbox /\ issued' = issued /\ reported' = reported
      BY <1>2, <1>c DEF Judge
    <2>2. HashPart'
      BY <1>a, <2>1 DEF HashPart
    <2>3. work[w] \in WorkType /\ TaskInv(work[w], inbox, issued)
      BY <1>c
    <2>4. work[w].msg \in Messages /\ work[w].body \in Bodies /\ work[w].token <= issued
      BY <2>1, <2>3 DEF TaskInv
    <2>5. t \in WorkType
      BY <2>3, <2>4, WorkTyped, TaskTyped
    <2>6. /\ t.pc = "judged" /\ t.msg = work[w].msg /\ t.body = work[w].body
          /\ t.token = work[w].token /\ t.result = r
      BY TaskFields
    <2> HIDE DEF t
    <2>7. TaskInv(t, inbox', issued')
      BY <2>1, <2>4, <2>6 DEF TaskInv
    <2> QED
      BY <1>a, <1>b, <2>1, <2>2, <2>5, <2>7, TaskUpdate, Zenon
  <1>3. ASSUME NEW w \in Workers, Complete(w) \/ CompleteReplyLost(w)
        PROVE  HashPart' /\ TaskPart'
    <2> DEFINE t == work[w]
               e == CompleteEffect(inbox[t.msg], t.body, t.token, t.result)
    <2>1. /\ t.pc = "judged" /\ inbox' = [inbox EXCEPT ![t.msg] = e]
          /\ issued' = issued /\ reported' = reported
      BY <1>3 DEF Complete, CompleteReplyLost
    <2>2. /\ t.msg \in Messages /\ t.body \in Bodies /\ t.token \in Nat /\ t.result \in Results
          /\ e \in HashType
          /\ e.state = "completed" <=> e.result # None
          /\ e.leased => e.state = "processing"
          /\ inbox[t.msg].state = "completed" => e = inbox[t.msg]
          /\ e.result = inbox[t.msg].result \/ (inbox[t.msg].result = None /\ e.result = t.result)
          /\ CompleteReply(inbox[t.msg], t.body, t.token, t.result) = "COMPLETED" =>
               e.state = "completed" /\ e.result = t.result
      BY <2>1, CompleteCall, ZenonT(30)
    <2>3. \/ work' = [work EXCEPT ![w] = Idle]
          \/ /\ work' = [work EXCEPT ![w] = Task("report", t.msg, t.body, 0, t.result)]
             /\ CompleteReply(inbox[t.msg], t.body, t.token, t.result) = "COMPLETED"
      BY <1>3 DEF Complete, CompleteReplyLost
    <2> HIDE DEF e
    <2>4. HashInv(inbox[t.msg], reported[t.msg]) /\ reported[t.msg] \in SUBSET Results
      BY <1>b, <2>2
    <2>5. reported[t.msg] \subseteq {e.result}
      <3>1. CASE e.result = inbox[t.msg].result
        BY <2>4, <3>1 DEF HashInv
      <3>2. CASE inbox[t.msg].result = None
        <4>1. reported[t.msg] = {}
          BY <2>4, <3>2, NoneIsNoValue DEF HashInv
        <4> QED
          BY <4>1
      <3> QED
        BY <2>2, <3>1, <3>2
    <2>6. HashPart'
      <3>1. HashInv(e, reported[t.msg])
        BY <2>2, <2>5 DEF HashInv
      <3>2. reported' = [reported EXCEPT ![t.msg] = reported[t.msg]]
        BY <1>b, <2>1
      <3> QED
        BY <1>a, <2>1, <2>2, <2>4, <3>1, <3>2, HashUpdate, Zenon
    <2>7. inbox'[t.msg] = e
      BY <1>b, <2>1, <2>2
    <2>8. \A n \in Messages : inbox[n].state = "completed" =>
            inbox'[n].state = inbox[n].state /\ inbox'[n].result = inbox[n].result
      <3> SUFFICES ASSUME NEW n \in Messages, inbox[n].state = "completed"
                   PROVE  inbox'[n] = inbox[n]
        OBVIOUS
      <3>1. CASE n = t.msg
        BY <2>2, <2>7, <3>1
      <3>2. CASE n # t.msg
        BY <1>b, <2>1, <3>2
      <3> QED
        BY <3>1, <3>2
    <2>9. \A v \in Workers : work[v].pc = "report" =>
            /\ inbox'[work[v].msg].state = inbox[work[v].msg].state
            /\ inbox'[work[v].msg].result = inbox[work[v].msg].result
      BY <1>a, <2>8, ReportsKept
    <2>10. issued' \in Nat /\ issued <= issued'
      BY <1>b, <2>1
    <2>11. CASE work' = [work EXCEPT ![w] = Idle]
      BY <1>a, <2>6, <2>9, <2>10, <2>11, IdleFacts, TaskUpdate, Zenon
    <2>12. CASE /\ work' = [work EXCEPT ![w] = Task("report", t.msg, t.body, 0, t.result)]
                /\ CompleteReply(inbox[t.msg], t.body, t.token, t.result) = "COMPLETED"
      <3> DEFINE s == Task("report", t.msg, t.body, 0, t.result)
      <3>1. s \in WorkType
        BY <2>2, TaskTyped
      <3>2. /\ s.pc = "report" /\ s.msg = t.msg /\ s.body = t.body
            /\ s.token = 0 /\ s.result = t.result
        BY TaskFields
      <3>3. work' = [work EXCEPT ![w] = s]
        BY <2>12
      <3> HIDE DEF s
      <3>4. inbox'[t.msg].state = "completed" /\ inbox'[t.msg].result = t.result
        BY <2>2, <2>7, <2>12
      <3>5. TaskInv(s, inbox', issued')
        BY <2>2, <2>10, <3>2, <3>4 DEF TaskInv
      <3> QED
        BY <1>a, <2>6, <2>9, <2>10, <3>1, <3>3, <3>5, TaskUpdate, ZenonT(30)
    <2> QED
      BY <2>3, <2>11, <2>12
  <1>4. ASSUME NEW w \in Workers, Report(w)
        PROVE  HashPart' /\ TaskPart'
    <2> DEFINE t == work[w]
               R == reported[t.msg] \cup {t.result}
    <2>1. /\ t.pc = "report" /\ work' = [work EXCEPT ![w] = Idle]
          /\ inbox' = inbox /\ issued' = issued
          /\ reported' = [reported EXCEPT ![t.msg] = R]
      BY <1>4, <1>b DEF Report
    <2>2. TaskInv(t, inbox, issued)
      BY <1>c
    <2>3. t.msg \in Messages /\ t.result \in Results /\ inbox[t.msg].result = t.result
      BY <2>1, <2>2 DEF TaskInv
    <2>4. inbox' = [inbox EXCEPT ![t.msg] = inbox[t.msg]] /\ inbox[t.msg] \in HashType
      BY <1>b, <2>1, <2>3
    <2>5. HashInv(inbox[t.msg], reported[t.msg]) /\ reported[t.msg] \in SUBSET Results
      BY <1>b, <2>3
    <2>6. HashInv(inbox[t.msg], R) /\ R \in SUBSET Results
      BY <2>3, <2>5 DEF HashInv
    <2> HIDE DEF R
    <2>7. HashPart'
      BY <1>a, <2>1, <2>3, <2>4, <2>6, HashUpdate, Zenon
    <2>8. TaskPart'
      BY <1>a, <1>b, <2>1, IdleFacts, TaskUpdate, Zenon
    <2> QED
      BY <2>7, <2>8
  <1>5. ASSUME NEW w \in Workers, Crash(w)
        PROVE  HashPart' /\ TaskPart'
    <2>1. /\ work' = [work EXCEPT ![w] = Idle]
          /\ inbox' = inbox /\ issued' = issued /\ reported' = reported
      BY <1>5 DEF Crash
    <2>2. HashPart'
      BY <1>a, <2>1 DEF HashPart
    <2>3. TaskPart'
      BY <1>a, <1>b, <2>1, IdleFacts, TaskUpdate, Zenon
    <2> QED
      BY <2>2, <2>3
  <1>6. ASSUME NEW m \in Messages, LeaseExpires(m)
        PROVE  HashPart' /\ TaskPart'
    <2> DEFINE e == LeaseOver(inbox[m])
    <2>1. /\ inbox' = [inbox EXCEPT ![m] = e]
          /\ work' = work /\ issued' = issued /\ reported' = reported
      BY <1>6 DEF LeaseExpires
    <2>2. /\ inbox[m] \in HashType /\ HashInv(inbox[m], reported[m])
          /\ reported[m] \in SUBSET Results /\ reported' = [reported EXCEPT ![m] = reported[m]]
      BY <1>b, <2>1
    <2>3. /\ e \in HashType /\ e.leased = FALSE
          /\ e.state = inbox[m].state /\ e.result = inbox[m].result
      BY <2>2 DEF LeaseOver, Hash, HashType
    <2> HIDE DEF e
    <2>4. HashInv(e, reported[m])
      BY <2>2, <2>3 DEF HashInv
    <2>5. HashPart'
      BY <1>a, <2>1, <2>2, <2>3, <2>4, HashUpdate, ZenonT(30)
    <2>6. \A n \in Messages :
            inbox'[n].state = inbox[n].state /\ inbox'[n].result = inbox[n].result
      BY <1>b, <2>1, <2>3
    <2>7. \A v \in Workers : work[v].pc = "report" =>
            /\ inbox'[work[v].msg].state = inbox[work[v].msg].state
            /\ inbox'[work[v].msg].result = inbox[work[v].msg].result
      BY <1>a, <2>6, ReportsKept
    <2> QED
      BY <1>a, <1>b, <2>1, <2>5, <2>7, TaskSame
  <1>7. ASSUME NEW m \in Messages, KeyExpires(m)
        PROVE  HashPart' /\ TaskPart'
    <2>1. /\ inbox' = [inbox EXCEPT ![m] = NoHash] /\ reported' = [reported EXCEPT ![m] = {}]
          /\ work' = work /\ issued' = issued
      BY <1>7 DEF KeyExpires
    <2>2. NoHash \in HashType /\ HashInv(NoHash, {})
      BY DEF NoHash, Hash, HashType, HashInv
    <2>3. HashPart'
      BY <1>a, <2>1, <2>2, HashUpdate, Zenon
    <2>4. ASSUME NEW v \in Workers, work[v].pc = "report"
          PROVE  /\ inbox'[work[v].msg].state = inbox[work[v].msg].state
                 /\ inbox'[work[v].msg].result = inbox[work[v].msg].result
      <3>1. TaskInv(work[v], inbox, issued)
        BY <1>c
      <3>2. work[v].msg \in Messages /\ inbox[work[v].msg].state = "completed"
        BY <2>4, <3>1 DEF TaskInv
      <3>3. work[v].msg # m
        BY <1>7, <2>4, <3>2 DEF KeyExpires
      <3> QED
        BY <1>b, <2>1, <3>2, <3>3
    <2> QED
      BY <1>a, <1>b, <2>1, <2>3, <2>4, TaskSame
  <1>8. CASE UNCHANGED vars
    BY <1>8, <1>a DEF vars, HashPart, TaskPart
  <1> QED
    BY <1>1, <1>2, <1>3, <1>4, <1>5, <1>6, <1>7, <1>8 DEF Next

\* InboxInv holds in every reachable state: the hash holds a result exactly
\* when the message is completed, everything reported or about to be reported
\* is that result, and a live lease belongs to a message being processed.
THEOREM InboxInvariant == Spec => []InboxInv
  <1>1. Init => InboxInv
    <2> SUFFICES ASSUME Init PROVE HashPart /\ TaskPart
      BY InvParts
    <2>1. NoHash \in HashType /\ HashInv(NoHash, {})
      BY DEF NoHash, Hash, HashType, HashInv
    <2>2. HashPart
      BY <2>1 DEF Init, HashPart
    <2>3. Idle \in WorkType /\ TaskInv(Idle, inbox, 0)
      BY IdleFacts
    <2>4. TaskPart
      BY <2>3 DEF Init, TaskPart
    <2> QED
      BY <2>2, <2>4
  <1> QED
    BY <1>1, InboxInvStep, PTL DEF Spec

\* The results reported for a message agree (JudgeInbox::Complete stores one
\* result and every report carries it).
THEOREM ReportsAgreeAlways == Spec => []ReportsAgree
  <1>1. InboxInv => ReportsAgree
    BY DEF InboxInv, ReportsAgree
  <1> QED
    BY <1>1, InboxInvariant, PTL

\* No second worker starts judging a message while a live lease covers it
\* (JudgeInbox::Claim answers PROCESSING).
THEOREM NoDuplicateJudgingAlways == Spec => NoDuplicateJudging
  <1> DEFINE Dup(w1, w2) ==
        /\ w1 # w2
        /\ work[w1].pc \in {"judging", "judged"}
        /\ work[w1].msg \in Messages
        /\ inbox[work[w1].msg].owner = work[w1].token
        /\ inbox[work[w1].msg].leased
        /\ work[w2].pc = "idle"
        => ~(work'[w2].pc = "judging" /\ work'[w2].msg = work[w1].msg)
  <1>1. InboxInv /\ [Next]_vars => \A w1, w2 \in Workers : Dup(w1, w2)
    <2> SUFFICES ASSUME InboxInv, [Next]_vars, NEW w1 \in Workers, NEW w2 \in Workers,
                        work[w1].msg \in Messages,
                        inbox[work[w1].msg].leased,
                        work[w2].pc = "idle",
                        work'[w2].pc = "judging",
                        work'[w2].msg = work[w1].msg
                 PROVE  FALSE
      OBVIOUS
    <2> USE DEF InboxInv, TypeOK, WorkType, Task, Idle
    <2>1. ASSUME NEW w \in Workers, NEW m \in Messages, NEW b \in Bodies, Claim(w, m, b)
          PROVE  FALSE
      <3>1. w = w2 /\ m = work[w1].msg /\ ClaimReply(inbox[m], b) = "STARTED"
        BY <2>1 DEF Claim
      <3>2. issued + 1 \in Nat /\ inbox[m] \in HashType
        OBVIOUS
      <3> QED
        BY <3>1, <3>2, ClaimScriptFacts
    <2>2. ASSUME NEW w \in Workers, NEW r \in Results,
                 Judge(w, r) \/ Complete(w) \/ CompleteReplyLost(w) \/ Report(w) \/ Crash(w)
          PROVE  FALSE
      BY <2>2 DEF Judge, Complete, CompleteReplyLost, Report, Crash
    <2>3. ASSUME NEW w \in Workers,
                 Complete(w) \/ CompleteReplyLost(w) \/ Report(w) \/ Crash(w)
          PROVE  FALSE
      BY <2>3 DEF Complete, CompleteReplyLost, Report, Crash
    <2>4. ASSUME NEW w \in Workers, NEW m \in Messages, NEW b \in Bodies,
                 ClaimReplyLost(w, m, b) \/ LeaseExpires(m) \/ KeyExpires(m)
          PROVE  FALSE
      BY <2>4 DEF ClaimReplyLost, LeaseExpires, KeyExpires
    <2>5. ASSUME NEW m \in Messages, LeaseExpires(m) \/ KeyExpires(m)
          PROVE  FALSE
      BY <2>5 DEF LeaseExpires, KeyExpires
    <2>6. ASSUME UNCHANGED vars PROVE FALSE
      BY <2>6 DEF vars
    <2> QED
      BY <2>1, <2>2, <2>3, <2>4, <2>5, <2>6 DEF Next
  <1>2. InboxInv /\ [Next]_vars => [\A w1, w2 \in Workers : Dup(w1, w2)]_vars
    BY <1>1
  <1> QED
    BY <1>2, InboxInvariant, PTL DEF Spec, NoDuplicateJudging

\* The inbox implements the write-once register of ResultRegister: a result is
\* decided once per life of the key and every report carries the decided one.
THEOREM ImplementsRegister == Spec => RegisterSpec
  <1> DEFINE D == [m \in Messages |-> inbox[m].result]
  <1>1. Init => Register!Init
    BY DEF Init, Register!Init, NoHash, Hash
  <1>2. InboxInv /\ [Next]_vars => [Register!Next]_(Register!vars)
    <2> SUFFICES ASSUME InboxInv, [Next]_vars
                 PROVE  Register!Next \/ UNCHANGED <<D, reported>>
      BY DEF Register!vars
    <2>a. /\ inbox \in [Messages -> HashType] /\ reported \in [Messages -> SUBSET Results]
          /\ issued \in Nat
          /\ \A m \in Messages : HashInv(inbox[m], reported[m])
          /\ \A w \in Workers : TaskInv(work[w], inbox, issued)
      BY InvParts DEF HashPart, TaskPart
    <2>b. ASSUME inbox' = inbox PROVE D' = D
      BY <2>b
    <2>c. ASSUME NEW m \in Messages, NEW h, inbox' = [inbox EXCEPT ![m] = h]
          PROVE  D' = [D EXCEPT ![m] = h.result]
      <3>1. ASSUME NEW n \in Messages
            PROVE  inbox'[n].result = IF n = m THEN h.result ELSE inbox[n].result
        BY <2>a, <2>c
      <3> QED
        BY <3>1, ZenonT(30)
    <2>d. ASSUME NEW m \in Messages, NEW h, inbox' = [inbox EXCEPT ![m] = h],
                 h.result = inbox[m].result
          PROVE  D' = D
      <3>1. ASSUME NEW n \in Messages PROVE inbox'[n].result = inbox[n].result
        BY <2>a, <2>d
      <3> QED
        BY <3>1
    <2>1. ASSUME NEW w \in Workers, NEW m \in Messages, NEW b \in Bodies,
                 Claim(w, m, b) \/ ClaimReplyLost(w, m, b)
          PROVE  UNCHANGED <<D, reported>>
      <3>1. issued + 1 \in Nat /\ inbox[m] \in HashType
            /\ (inbox[m].state = "completed" <=> inbox[m].result # None)
        BY <2>a DEF HashInv
      <3>2. ClaimEffect(inbox[m], b, issued + 1).result = inbox[m].result
        BY <3>1, ClaimScriptFacts
      <3>3. /\ inbox' = [inbox EXCEPT ![m] = ClaimEffect(inbox[m], b, issued + 1)]
            /\ reported' = reported
        BY <2>1 DEF Claim, ClaimReplyLost
      <3>4. D' = D
        BY <2>d, <3>2, <3>3
      <3> QED
        BY <3>3, <3>4
    <2>2. ASSUME NEW w \in Workers, Complete(w) \/ CompleteReplyLost(w)
          PROVE  Register!Next \/ UNCHANGED <<D, reported>>
      <3> DEFINE t == work[w]
                 e == CompleteEffect(inbox[t.msg], t.body, t.token, t.result)
      <3>1. t.pc = "judged" /\ inbox' = [inbox EXCEPT ![t.msg] = e] /\ reported' = reported
        BY <2>2 DEF Complete, CompleteReplyLost
      <3>2. /\ t.msg \in Messages /\ t.result \in Results
            /\ e.result = inbox[t.msg].result \/ (inbox[t.msg].result = None /\ e.result = t.result)
        BY <3>1, CompleteCall, ZenonT(30)
      <3> HIDE DEF e
      <3>3. CASE e.result = inbox[t.msg].result
        <4>1. D' = D
          BY <2>d, <3>1, <3>2, <3>3
        <4> QED
          BY <3>1, <4>1
      <3>4. CASE inbox[t.msg].result = None /\ e.result = t.result
        <4>0. D' = [D EXCEPT ![t.msg] = e.result]
          BY <2>c, <3>1, <3>2, Zenon
        <4>1. D' = [D EXCEPT ![t.msg] = t.result]
          BY <3>4, <4>0
        <4>2. D[t.msg] = None
          BY <3>2, <3>4
        <4>3. \E m \in Messages, r \in Results : Register!Decide(m, r)
          BY <3>1, <3>2, <4>1, <4>2, Zenon DEF Register!Decide
        <4>4. Register!Next
          BY <4>3 DEF Register!Next
        <4> QED
          BY <4>4
      <3> QED
        BY <3>2, <3>3, <3>4
    <2>3. ASSUME NEW w \in Workers, Report(w)
          PROVE  Register!Next
      <3> DEFINE t == work[w]
      <3>1. /\ t.pc = "report" /\ inbox' = inbox
            /\ reported' = [reported EXCEPT ![t.msg] = @ \cup {t.result}]
        BY <2>3 DEF Report
      <3>2. TaskInv(t, inbox, issued)
        BY <2>a
      <3>3. t.msg \in Messages /\ t.result \in Results /\ inbox[t.msg].result = t.result
        BY <3>1, <3>2 DEF TaskInv
      <3>4. D[t.msg] = t.result /\ D[t.msg] # None
        BY <3>3, NoneIsNoValue
      <3>5. D' = D
        BY <2>b, <3>1
      <3>6. Register!Report(t.msg)
        BY <3>1, <3>4, <3>5, Zenon DEF Register!Report
      <3> QED
        BY <3>3, <3>6 DEF Register!Next
    <2>4. ASSUME NEW w \in Workers, (\E r \in Results : Judge(w, r)) \/ Crash(w)
          PROVE  UNCHANGED <<D, reported>>
      <3>1. inbox' = inbox /\ reported' = reported
        BY <2>4 DEF Judge, Crash
      <3> QED
        BY <2>b, <3>1
    <2>5. ASSUME NEW m \in Messages, LeaseExpires(m)
          PROVE  UNCHANGED <<D, reported>>
      <3>1. inbox' = [inbox EXCEPT ![m] = LeaseOver(inbox[m])] /\ reported' = reported
        BY <2>5 DEF LeaseExpires
      <3>2. LeaseOver(inbox[m]).result = inbox[m].result
        BY DEF LeaseOver, Hash
      <3>3. D' = D
        BY <2>d, <3>1, <3>2
      <3> QED
        BY <3>1, <3>3
    <2>6. ASSUME NEW m \in Messages, KeyExpires(m)
          PROVE  Register!Next \/ UNCHANGED <<D, reported>>
      <3>1. inbox' = [inbox EXCEPT ![m] = NoHash] /\ reported' = [reported EXCEPT ![m] = {}]
        BY <2>6 DEF KeyExpires
      <3>2. NoHash.result = None
        BY DEF NoHash, Hash
      <3>3. CASE inbox[m].result = None
        <4>1. D' = D
          BY <2>d, <3>1, <3>2, <3>3
        <4>2. HashInv(inbox[m], reported[m]) /\ reported[m] \subseteq Results
          BY <2>a
        <4>3. reported[m] = {}
          BY <3>3, <4>2, NoneIsNoValue DEF HashInv
        <4>4. reported' = reported
          <5>1. \A n \in Messages : reported'[n] = reported[n]
            BY <2>a, <3>1, <4>3
          <5>2. reported' \in [Messages -> SUBSET Results]
            BY <2>a, <3>1
          <5> HIDE DEF D
          <5> QED
            BY <2>a, <5>1, <5>2
        <4> QED
          BY <4>1, <4>4
      <3>4. CASE inbox[m].result # None
        <4>1. D' = [D EXCEPT ![m] = None]
          BY <2>c, <3>1, <3>2, ZenonT(30)
        <4>2. D[m] # None
          BY <3>4
        <4>3. Register!Forget(m)
          BY <3>1, <4>1, <4>2 DEF Register!Forget
        <4> QED
          BY <4>3 DEF Register!Next
      <3> QED
        BY <3>3, <3>4
    <2>7. CASE UNCHANGED vars
      BY <2>7 DEF vars
    <2> QED
      BY <2>1, <2>2, <2>3, <2>4, <2>5, <2>6, <2>7, ZenonT(30) DEF Next
  <1> QED
    BY <1>1, <1>2, InboxInvariant, PTL DEF Spec, RegisterSpec, Register!Spec

-----------------------------------------------------------------------------
\* Judger::Run on the event loop (Judger).

\* The steps that use the container b.
Uses(b) == IF b = "compile" THEN {"start", "source", "compile", "errors", "executable"}
           ELSE {"install", "chmod", "input", "run", "output"}

BoxType == [there : {"none", "up", "dead"}, known : BOOLEAN]

\* A container is in the hands of the coroutine until it has been deleted.
BoxPart ==
  /\ box \in [Boxes -> BoxType]
  /\ \A b \in Boxes : box[b].there # "none" => box[b].known \/ b \in orphans
  /\ \A b \in Boxes : at \in Uses(b) => box[b].known
  /\ at \in {"done", "gone"} => \A b \in Boxes : ~box[b].known

\* A box record has the fields it was made of.
LEMMA BoxFields ==
  ASSUME NEW there \in {"none", "up", "dead"}, NEW known \in BOOLEAN
  PROVE  /\ Box(there, known) \in BoxType
         /\ Box(there, known).there = there /\ Box(there, known).known = known
BY DEF Box, BoxType

\* One container changes.
LEMMA OneBox ==
  ASSUME box \in [Boxes -> BoxType], NEW b \in Boxes, NEW c \in BoxType,
         box' = [box EXCEPT ![b] = c]
  PROVE  /\ box' \in [Boxes -> BoxType] /\ box'[b] = c
         /\ \A x \in Boxes : x # b => box'[x] = box[x]
OBVIOUS

\* Creating a container.
LEMMA CreateBoxPart ==
  ASSUME BoxPart, NEW b \in Boxes, NEW o, CreateBox(b, o)
  PROVE  /\ box' \in [Boxes -> BoxType]
         /\ \A x \in Boxes : box'[x].there # "none" => box'[x].known \/ x \in orphans'
         /\ \A x \in Boxes : x # b => box'[x] = box[x]
         /\ Done(o) => box'[b].known
<1>0. box[b].known \in BOOLEAN
  BY DEF BoxPart, BoxType
<1>1. CASE Done(o)
  <2>1. box' = [box EXCEPT ![b] = Box("up", TRUE)] /\ orphans' = orphans
    BY <1>1, Zenon DEF CreateBox, Done
  <2>2. Box("up", TRUE) \in BoxType /\ Box("up", TRUE).known = TRUE
    BY BoxFields, Zenon
  <2> QED
    BY <2>1, <2>2, OneBox, ZenonT(30) DEF BoxPart
<1>2. CASE ~Done(o) /\ UNCHANGED <<box, orphans>>
  BY <1>2 DEF BoxPart
<1>3. CASE o = "failed" /\ box' = [box EXCEPT ![b] = Box("up", @.known)]
           /\ orphans' = orphans \cup {b}
  <2>1. box' = [box EXCEPT ![b] = Box("up", box[b].known)]
    BY <1>3
  <2>2. Box("up", box[b].known) \in BoxType
    BY <1>0, BoxFields
  <2> QED
    BY <1>3, <2>1, <2>2, OneBox DEF BoxPart, Done
<1> QED
  BY <1>1, <1>2, <1>3, Zenon DEF CreateBox

\* An exec, in a container the coroutine knows, changes no owner.
LEMMA DeadBox ==
  ASSUME BoxPart, NEW b \in Boxes, box[b].known,
         box' = [box EXCEPT ![b] = Box("dead", @.known)]
  PROVE  /\ box' \in [Boxes -> BoxType]
         /\ \A x \in Boxes : box'[x].known <=> box[x].known
         /\ \A x \in Boxes : box'[x].there # "none" => box'[x].known \/ x \in orphans
<1>1. box[b].known \in BOOLEAN
  BY DEF BoxPart, BoxType
<1>2. box' = [box EXCEPT ![b] = Box("dead", box[b].known)]
  OBVIOUS
<1>3. Box("dead", box[b].known) \in BoxType /\ Box("dead", box[b].known).known = box[b].known
  BY <1>1, BoxFields, Zenon
<1>4. /\ box' \in [Boxes -> BoxType] /\ box'[b] = Box("dead", box[b].known)
      /\ \A x \in Boxes : x # b => box'[x] = box[x]
  BY <1>2, <1>3, OneBox, Zenon DEF BoxPart
<1> QED
  BY <1>3, <1>4, Zenon DEF BoxPart

\* An exec in a container changes at most whether it is alive.
LEMMA ExecBoxPart ==
  ASSUME BoxPart, NEW b \in Boxes, NEW o, ExecBox(b, o), at \in Uses(b)
  PROVE  /\ box' \in [Boxes -> BoxType]
         /\ \A x \in Boxes : box'[x].known <=> box[x].known
         /\ \A x \in Boxes : box'[x].there # "none" => box'[x].known \/ x \in orphans'
<1>1. box[b].known
  BY DEF BoxPart
<1>2. CASE UNCHANGED box
  BY <1>2 DEF ExecBox, BoxPart
<1>3. CASE box' = [box EXCEPT ![b] = Box("dead", @.known)]
  BY <1>1, <1>3, DeadBox, ZenonT(30) DEF ExecBox
<1> QED
  BY <1>2, <1>3 DEF ExecBox

\* Deleting containers the coroutine knows.
LEMMA DeletedPart ==
  ASSUME BoxPart, NEW bs \in SUBSET Owned, NEW failed,
         box' = Deleted(bs, failed), bs \cap failed \in SUBSET orphans', orphans \in SUBSET orphans'
  PROVE  /\ box' \in [Boxes -> BoxType]
         /\ \A x \in Boxes : box'[x].there # "none" => box'[x].known \/ x \in orphans'
         /\ \A x \in Boxes : IF x \in bs THEN ~box'[x].known ELSE box'[x] = box[x]
<1> SUFFICES ASSUME NEW x \in Boxes
             PROVE  /\ box'[x] \in BoxType
                    /\ box'[x].there # "none" => box'[x].known \/ x \in orphans'
                    /\ IF x \in bs THEN ~box'[x].known ELSE box'[x] = box[x]
  <2>1. box' = [x \in Boxes |-> box'[x]]
    BY DEF Deleted
  <2> QED
    BY <2>1
<1>0. box[x] \in BoxType /\ box[x].there \in {"none", "up", "dead"}
  BY DEF BoxPart, BoxType
<1>1. CASE x \notin bs
  <2>1. box'[x] = box[x]
    BY <1>1 DEF Deleted
  <2> QED
    BY <1>0, <1>1, <2>1 DEF BoxPart
<1>2. CASE x \in bs /\ x \in failed
  <2>1. box'[x] = Box(box[x].there, FALSE)
    BY <1>2 DEF Deleted
  <2>2. Box(box[x].there, FALSE) \in BoxType /\ Box(box[x].there, FALSE).known = FALSE
    BY <1>0, BoxFields, Zenon
  <2> QED
    BY <1>2, <2>1, <2>2, Zenon
<1>3. CASE x \in bs /\ x \notin failed
  <2>1. box'[x] = Box("none", FALSE)
    BY <1>3 DEF Deleted
  <2>2. /\ Box("none", FALSE) \in BoxType /\ Box("none", FALSE).known = FALSE
        /\ Box("none", FALSE).there = "none"
    BY BoxFields, Zenon
  <2> QED
    BY <1>3, <2>1, <2>2, Zenon
<1> QED
  BY <1>1, <1>2, <1>3

\* Destroying one container.
LEMMA DestroyBoxPart ==
  ASSUME BoxPart, NEW b \in Boxes, NEW o, DestroyBox(b, o)
  PROVE  /\ box' \in [Boxes -> BoxType]
         /\ \A x \in Boxes : box'[x].there # "none" => box'[x].known \/ x \in orphans'
         /\ \A x \in Boxes : x # b => box'[x] = box[x]
<1>1. orphans \in SUBSET orphans'
  BY DEF DestroyBox
<1>2. CASE ~(Done(o) \/ o = "failed")
  BY <1>1, <1>2 DEF DestroyBox, BoxPart
<1>3. CASE Done(o) \/ o = "failed"
  <2> DEFINE failed == IF Done(o) THEN {} ELSE {b}
  <2>1. box' = Deleted({b} \cap Owned, failed)
    BY <1>3 DEF DestroyBox
  <2>2. ({b} \cap Owned) \cap failed \in SUBSET orphans'
    BY <1>3 DEF DestroyBox
  <2>3. {b} \cap Owned \in SUBSET Owned
    OBVIOUS
  <2> HIDE DEF failed
  <2> QED
    BY <1>1, <2>1, <2>2, <2>3, DeletedPart, Zenon
<1> QED
  BY <1>2, <1>3

\* Every step of the coroutine keeps track of its containers.
LEMMA StepBoxPart ==
  ASSUME BoxPart, NEW o, JudgerStep(o)
  PROVE  BoxPart'
<1> USE DEF Boxes
<1>1. CASE Create(o)
  <2>1. CreateBox("compile", o) /\ Need(o, box'["compile"].known, "start")
    BY <1>1 DEF Create
  <2>2. at' \in {"start", "return", "dropped"} /\ (at' = "start" => box'["compile"].known)
    BY <2>1 DEF Need, GoOn
  <2> QED
    BY <2>1, <2>2, CreateBoxPart DEF BoxPart, Uses
<1>2. CASE StartAndWriteSource(o)
  <2>1. ExecBox("compile", o) /\ at \in Uses("compile")
    BY <1>2 DEF StartAndWriteSource, Uses
  <2>2. at' \in {"source", "compile", "return", "dropped"}
    BY <1>2 DEF StartAndWriteSource, Need, GoOn
  <2> QED
    BY <2>1, <2>2, ExecBoxPart DEF BoxPart, Uses
<1>3. CASE Compile(o)
  <2>1. ExecBox("compile", o) /\ at \in Uses("compile")
    BY <1>3 DEF Compile, Uses
  <2>2. at' \in {"executable", "errors", "dropped"}
    BY <1>3 DEF Compile, GoOn
  <2> QED
    BY <2>1, <2>2, ExecBoxPart DEF BoxPart, Uses
<1>4. CASE CompileError(o)
  <2>1. CASE at = "errors" /\ ExecBox("compile", o) /\ GoOn(o, "discard")
    <3>1. at \in Uses("compile") /\ at' \in {"discard", "dropped"}
      BY <2>1 DEF GoOn, Uses
    <3> QED
      BY <2>1, <3>1, ExecBoxPart DEF BoxPart, Uses
  <2>2. CASE at = "discard" /\ DestroyBox("compile", o) /\ GoOn(o, "return")
    <3>1. at' \in {"return", "dropped"}
      BY <2>2 DEF GoOn
    <3> QED
      BY <2>2, <3>1, DestroyBoxPart DEF BoxPart, Uses
  <2> QED
    BY <1>4, <2>1, <2>2 DEF CompileError
<1>5. CASE ReadExecutable(o)
  <2>1. ExecBox("compile", o) /\ at \in Uses("compile")
    BY <1>5 DEF ReadExecutable, Uses
  <2>2. at' \in {"drop_compiler", "return", "dropped"}
    BY <1>5 DEF ReadExecutable, Need, GoOn
  <2> QED
    BY <2>1, <2>2, ExecBoxPart DEF BoxPart, Uses
<1>6. CASE DropCompiler(o)
  <2>1. DestroyBox("compile", o) /\ at' \in {"acquire", "dropped"}
    BY <1>6 DEF DropCompiler, GoOn
  <2> QED
    BY <2>1, DestroyBoxPart DEF BoxPart, Uses
<1>7. CASE Acquire(o)
  <2>1. CreateBox("runner", o) /\ at' \in {"install", "return", "dropped"}
        /\ (at' = "install" => Done(o))
    BY <1>7 DEF Acquire, Need, GoOn, Done
  <2> QED
    BY <2>1, CreateBoxPart DEF BoxPart, Uses
<1>8. CASE InstallExecutable(o)
  <2>1. ExecBox("runner", o) /\ at \in Uses("runner")
    BY <1>8 DEF InstallExecutable, Uses
  <2>2. at' \in {"chmod", "input", "return", "dropped"}
    BY <1>8 DEF InstallExecutable, Need, GoOn
  <2> QED
    BY <2>1, <2>2, ExecBoxPart DEF BoxPart, Uses
<1>9. CASE WriteInput(o)
  <2>1. ExecBox("runner", o) /\ at \in Uses("runner")
    BY <1>9 DEF WriteInput, Uses
  <2>2. at' \in {"run", "drop_runner", "dropped"}
    BY <1>9 DEF WriteInput, GoOn
  <2> QED
    BY <2>1, <2>2, ExecBoxPart DEF BoxPart, Uses
<1>10. CASE RunTest(o)
  <2>1. at \in Uses("runner") /\ box["runner"].known
    BY <1>10 DEF RunTest, Uses, BoxPart
  <2>2. at' \in {"output", "input", "drop_runner", "dropped"}
    BY <1>10 DEF RunTest, GoOn, AfterTest
  <2>3. \/ ExecBox("runner", o)
        \/ box' = [box EXCEPT !["runner"] = Box("dead", @.known)] /\ UNCHANGED orphans
    BY <1>10 DEF RunTest
  <2> QED
    BY <2>1, <2>2, <2>3, ExecBoxPart, DeadBox, ZenonT(30) DEF BoxPart, Uses
<1>11. CASE ReadOutput(o)
  <2>1. ExecBox("runner", o) /\ at \in Uses("runner")
    BY <1>11 DEF ReadOutput, Uses
  <2>2. at' \in {"input", "drop_runner", "dropped"}
    BY <1>11 DEF ReadOutput, GoOn, AfterTest
  <2> QED
    BY <2>1, <2>2, ExecBoxPart DEF BoxPart, Uses
<1>12. CASE DropRunner(o)
  <2>1. DestroyBox("runner", o) /\ at' \in {"return", "dropped"}
    BY <1>12 DEF DropRunner, GoOn
  <2> QED
    BY <2>1, DestroyBoxPart DEF BoxPart, Uses
<1> QED
  BY <1>1, <1>2, <1>3, <1>4, <1>5, <1>6, <1>7, <1>8, <1>9, <1>10, <1>11, <1>12 DEF JudgerStep

\* Every step keeps what is known of the containers.
LEMMA NextBoxPart ==
  ASSUME BoxPart, [JudgerNext]_judgerVars
  PROVE  BoxPart'
<1>1. CASE \E o \in Outcomes : JudgerStep(o)
  BY <1>1, StepBoxPart
<1>2. CASE MemoryPeakTimesOut
  <2>1. box["runner"].known \in BOOLEAN /\ "runner" \in Boxes
    BY DEF BoxPart, BoxType, Boxes
  <2>2. box' = [box EXCEPT !["runner"] = Box("dead", box["runner"].known)]
    BY <1>2 DEF MemoryPeakTimesOut
  <2>3. /\ Box("dead", box["runner"].known) \in BoxType
        /\ Box("dead", box["runner"].known).known = box["runner"].known
    BY <2>1, BoxFields
  <2>4. /\ box' \in [Boxes -> BoxType] /\ box'["runner"] = Box("dead", box["runner"].known)
        /\ \A x \in Boxes : x # "runner" => box'[x] = box[x]
    BY <2>1, <2>2, <2>3, OneBox DEF BoxPart
  <2>5. at' = at /\ orphans' = orphans /\ box["runner"].there = "up"
    BY <1>2 DEF MemoryPeakTimesOut
  <2>6. \A x \in Boxes : box'[x].known = box[x].known
    BY <2>1, <2>3, <2>4
  <2>7. box["runner"].known \/ "runner" \in orphans
    BY <2>1, <2>5 DEF BoxPart
  <2>8. \A x \in Boxes : box'[x].there # "none" => box'[x].known \/ x \in orphans'
    BY <2>4, <2>5, <2>6, <2>7 DEF BoxPart
  <2> QED
    BY <2>4, <2>5, <2>6, <2>8 DEF BoxPart
<1>3. CASE Unwind
  <2>1. PICK failed \in SUBSET Owned : box' = Deleted(Owned, failed) /\ orphans' = orphans \cup failed
    BY <1>3 DEF Unwind
  <2>2. /\ box' \in [Boxes -> BoxType]
        /\ \A x \in Boxes : box'[x].there # "none" => box'[x].known \/ x \in orphans'
        /\ \A x \in Boxes : IF x \in Owned THEN ~box'[x].known ELSE box'[x] = box[x]
    <3>1. Owned \in SUBSET Owned /\ Owned \cap failed \in SUBSET orphans'
          /\ orphans \in SUBSET orphans'
      BY <2>1
    <3> QED
      BY <2>1, <3>1, DeletedPart
  <2>3. \A x \in Boxes : ~box'[x].known
    BY <2>2 DEF Owned
  <2>4. at' \in {"done", "gone"}
    BY <1>3 DEF Unwind
  <2> QED
    BY <2>2, <2>3, <2>4 DEF BoxPart, Uses
<1>4. CASE CallBack
  BY <1>4 DEF CallBack, BoxPart, Uses
<1>5. CASE StopAccepting
  BY <1>5 DEF StopAccepting, BoxPart
<1>6. CASE CancelTask
  BY <1>6 DEF CancelTask, BoxPart
<1>7. CASE UNCHANGED judgerVars
  BY <1>7 DEF judgerVars, BoxPart
<1> QED
  BY <1>1, <1>2, <1>3, <1>4, <1>5, <1>6, <1>7 DEF JudgerNext

-----------------------------------------------------------------------------
(***************************************************************************)
(* The verdict.                                                            *)
(***************************************************************************)

\* The steps before the first test.
Early == {"create", "start", "source", "compile", "executable", "drop_compiler",
          "acquire", "install", "chmod"}

TaskType == [tests : Nat \ {0}, compares : BOOLEAN]

ProgramType == [compiles : BOOLEAN, broken : BOOLEAN, did : Seq(Does)]

\* Test i, once run, does not stand against ACCEPTED.
Passed(i) == \/ program.did[i] = "right"
             \/ program.did[i] = "wrong" /\ (i \in unread \/ ~task.compares)

Earned == /\ program.compiles /\ ~program.broken
          /\ Len(program.did) = task.tests
          /\ \A i \in 1 .. task.tests : Passed(i)

\* How far the coroutine is decides what an ACCEPTED so far stands for.
EarnedPart ==
  /\ task \in TaskType /\ program \in ProgramType /\ test \in Nat \ {0}
  /\ at \in Early => program.did = <<>> /\ test = 1 /\ program.compiles
  /\ at \in {"input", "run", "output"} => test <= task.tests /\ program.compiles
  /\ at \in {"input", "run"} => Len(program.did) = test - 1
  /\ at = "output" => /\ Len(program.did) = test /\ ~program.broken
                      /\ program.did[test] \in {"right", "wrong"}
  /\ at \in {"input", "run", "output"} /\ verdict = "ACCEPTED"
       => /\ \A i \in 1 .. (test - 1) : Passed(i)
          /\ test > 1 => ~program.broken
  /\ at \in {"drop_runner", "return", "done"} /\ verdict = "ACCEPTED" => Earned
  /\ at \in {"errors", "discard"} => verdict # "ACCEPTED"
  /\ told = "ACCEPTED" => at = "gone" /\ Earned

\* A program record has the fields it was made of.
LEMMA ProgramFields ==
  ASSUME NEW compiles \in BOOLEAN, NEW broken \in BOOLEAN, NEW did \in Seq(Does)
  PROVE  /\ Program(compiles, broken, did) \in ProgramType
         /\ Program(compiles, broken, did).compiles = compiles
         /\ Program(compiles, broken, did).broken = broken
         /\ Program(compiles, broken, did).did = did
BY DEF Program, ProgramType

\* A step that touches neither the program nor the tests, and that goes on in a
\* place which asks nothing new of them.
LEMMA QuietStep ==
  ASSUME EarnedPart, UNCHANGED <<task, test, program, unread, told>>, at # "gone",
         \/ at \in Early /\ at' \in Early /\ verdict' = verdict
         \/ at' = "dropped"
         \/ at' \in {"return", "drop_runner", "errors", "discard"} /\ verdict' # "ACCEPTED"
  PROVE  EarnedPart'
<1>1. told' # "ACCEPTED"
  BY DEF EarnedPart
<1> QED
  BY <1>1 DEF EarnedPart, Early

\* One more run of the program: the earlier ones stay as they were.
LEMMA RunAppended ==
  ASSUME EarnedPart, at = "run", NEW d \in Does,
         program' = Program(TRUE, program.broken, Append(program.did, d))
  PROVE  /\ program' \in ProgramType /\ program'.compiles /\ program'.broken = program.broken
         /\ Len(program'.did) = test /\ program'.did[test] = d
         /\ \A i \in 1 .. (test - 1) : program'.did[i] = program.did[i]
<1>1. /\ program.did \in Seq(Does) /\ program.broken \in BOOLEAN
      /\ Len(program.did) = test - 1 /\ test \in Nat \ {0}
  BY DEF EarnedPart, ProgramType
<1>2. Append(program.did, d) \in Seq(Does)
  BY <1>1
<1>3. /\ program' \in ProgramType /\ program'.compiles = TRUE
      /\ program'.broken = program.broken /\ program'.did = Append(program.did, d)
  BY <1>1, <1>2, ProgramFields, ZenonT(30)
<1>4. /\ Len(Append(program.did, d)) = test /\ Append(program.did, d)[test] = d
      /\ \A i \in 1 .. (test - 1) : Append(program.did, d)[i] = program.did[i]
  BY <1>1
<1> QED
  BY <1>3, <1>4, Zenon

\* What RunStatus says of a run whose output is to be read, and of the others.
LEMMA StatusOfRun ==
  ASSUME NEW d \in Does, NEW o \in {"ok", "late", "unrun", "failed", "dropped", "abandoned", "refused"}
  PROVE  /\ RunStatus(d, o) # "ACCEPTED"
         /\ RunStatus(d, o) = "OK" /\ o \notin {"dropped", "abandoned"} => d \in {"right", "wrong"}
BY DEF RunStatus, Does

\* Every co_await keeps the relation of the verdict to what the program did.
LEMMA StepEarned ==
  ASSUME EarnedPart, NEW o \in Outcomes, JudgerStep(o)
  PROVE  EarnedPart'
<1>0. o \in {"ok", "late", "unrun", "failed", "dropped", "abandoned", "refused"}
  BY DEF Outcomes
<1>1. CASE Create(o)
  BY <1>1, QuietStep DEF Create, Need, GoOn, Early
<1>2. CASE StartAndWriteSource(o)
  BY <1>2, QuietStep DEF StartAndWriteSource, Need, GoOn, Early
<1>3. CASE Compile(o)
  <2>1. PICK compiles \in BOOLEAN :
          /\ program' = Program(compiles, FALSE, <<>>)
          /\ GoOn(o, IF o = "ok" /\ compiles THEN "executable" ELSE "errors")
          /\ verdict' = IF o = "ok" /\ compiles THEN verdict ELSE "COMPILE_ERROR"
    BY <1>3, Zenon DEF Compile
  <2>2. /\ program' \in ProgramType /\ program'.did = <<>> /\ program'.compiles = compiles
    BY <2>1 DEF Program, ProgramType
  <2>3. /\ at = "compile" /\ UNCHANGED <<task, test, unread, told>>
    BY <1>3 DEF Compile
  <2>4. told' # "ACCEPTED" /\ task' \in TaskType /\ test' \in Nat \ {0} /\ test' = 1
    BY <2>3 DEF EarnedPart, Early
  <2>5. \/ at' = "executable" /\ compiles
        \/ at' = "errors" /\ verdict' # "ACCEPTED"
        \/ at' = "dropped"
    BY <2>1 DEF GoOn
  <2> QED
    BY <2>2, <2>4, <2>5 DEF EarnedPart, Early
<1>4. CASE CompileError(o)
  <2>1. /\ at \in {"errors", "discard"} /\ verdict' = verdict
        /\ at' \in {"discard", "return", "dropped"} /\ UNCHANGED <<task, test, program, unread, told>>
    BY <1>4 DEF CompileError, GoOn
  <2>2. verdict' # "ACCEPTED"
    BY <2>1 DEF EarnedPart
  <2> QED
    BY <2>1, <2>2, QuietStep
<1>5. CASE ReadExecutable(o)
  <2>1. PICK cut \in BOOLEAN :
          /\ Need(o, o = "ok" \/ cut, "drop_compiler")
          /\ program' = Program(TRUE, cut, <<>>)
    BY <1>5, Zenon DEF ReadExecutable
  <2>2. program' \in ProgramType /\ program'.did = <<>> /\ program'.compiles
    BY <2>1 DEF Program, ProgramType
  <2>3. at = "executable" /\ UNCHANGED <<task, test, unread, told>>
    BY <1>5 DEF ReadExecutable
  <2>4. told' # "ACCEPTED" /\ task' \in TaskType /\ test' \in Nat \ {0} /\ test' = 1
    BY <2>3 DEF EarnedPart, Early
  <2>5. \/ at' \in {"drop_compiler", "dropped"}
        \/ at' = "return" /\ verdict' # "ACCEPTED"
    BY <2>1 DEF Need, GoOn
  <2> QED
    BY <2>2, <2>4, <2>5 DEF EarnedPart, Early
<1>6. CASE DropCompiler(o)
  BY <1>6, QuietStep DEF DropCompiler, GoOn, Early
<1>7. CASE Acquire(o)
  BY <1>7, QuietStep DEF Acquire, Need, GoOn, Early
<1>8. CASE InstallExecutable(o)
  <2>1. /\ at \in {"install", "chmod"} /\ UNCHANGED <<task, test, program, unread, told>>
        /\ \/ at' \in {"chmod", "input"} /\ verdict' = verdict
           \/ at' = "return" /\ verdict' # "ACCEPTED"
           \/ at' = "dropped"
    BY <1>8 DEF InstallExecutable, Need, GoOn
  <2>2. CASE at' = "input"
    <3>1. program.did = <<>> /\ test = 1 /\ program.compiles /\ told # "ACCEPTED"
      BY <2>1 DEF EarnedPart, Early
    <3>2. Len(program.did) = test - 1 /\ test <= task.tests
      BY <3>1 DEF EarnedPart, TaskType
    <3> QED
      BY <2>1, <2>2, <3>1, <3>2 DEF EarnedPart, Early
  <2> QED
    BY <2>1, <2>2, QuietStep DEF Early
<1>9. CASE WriteInput(o)
  <2>1. /\ at = "input" /\ UNCHANGED <<task, test, program, unread, told>>
        /\ \/ at' = "run" /\ verdict' = verdict
           \/ at' = "drop_runner" /\ verdict' # "ACCEPTED"
           \/ at' = "dropped"
    BY <1>9 DEF WriteInput, GoOn
  <2>2. CASE at' = "run"
    <3>1. told # "ACCEPTED"
      BY <2>1 DEF EarnedPart
    <3> QED
      BY <2>1, <2>2, <3>1 DEF EarnedPart, Early, Passed
  <2> QED
    BY <2>1, <2>2, QuietStep
<1>10. CASE RunTest(o)
  <2>1. PICK d \in Does :
          /\ program.broken => d = "crash"
          /\ program' = Program(TRUE, program.broken, Append(program.did, d))
          /\ IF RunStatus(d, o) = "OK"
             THEN GoOn(o, "output") /\ UNCHANGED <<verdict, test>>
             ELSE /\ GoOn(o, AfterTest)
                  /\ verdict' = KeepFirst(RunStatus(d, o))
                  /\ test' = test + 1
    BY <1>10, Zenon DEF RunTest, Does
  <2>2. at = "run" /\ UNCHANGED <<task, unread, told>>
    BY <1>10 DEF RunTest
  <2>3. /\ program' \in ProgramType /\ program'.compiles /\ program'.broken = program.broken
        /\ Len(program'.did) = test /\ program'.did[test] = d
        /\ \A i \in 1 .. (test - 1) : program'.did[i] = program.did[i]
    BY <2>1, <2>2, RunAppended, Zenon
  <2>4. /\ told' # "ACCEPTED" /\ test \in Nat \ {0} /\ task' \in TaskType /\ task.tests \in Nat
        /\ test <= task.tests
    BY <2>2 DEF EarnedPart, TaskType
  <2>5. CASE RunStatus(d, o) = "OK"
    <3>1. test' = test /\ verdict' = verdict
          /\ \/ at' = "dropped"
             \/ at' = "output" /\ d \in {"right", "wrong"} /\ ~program.broken
      <4>1. GoOn(o, "output") /\ test' = test /\ verdict' = verdict
        BY <2>1, <2>5
      <4>2. at' = "dropped" \/ (at' = "output" /\ o \notin {"dropped", "abandoned"})
        BY <4>1 DEF GoOn
      <4>3. o \notin {"dropped", "abandoned"} => d \in {"right", "wrong"}
        BY <1>0, <2>5, StatusOfRun
      <4> QED
        BY <2>1, <4>1, <4>2, <4>3
    <3>2. CASE at' = "dropped"
      BY <2>2, <2>3, <2>4, <3>1, <3>2 DEF EarnedPart, Early
    <3>3. CASE at' = "output" /\ d \in {"right", "wrong"} /\ ~program.broken
      <4>1. verdict' = "ACCEPTED" => \A i \in 1 .. (test' - 1) : Passed(i)'
        BY <2>2, <2>3, <2>4, <3>1 DEF EarnedPart, Passed
      <4> QED
        BY <2>2, <2>3, <2>4, <3>1, <3>3, <4>1 DEF EarnedPart, Early
    <3> QED
      BY <3>1, <3>2, <3>3
  <2>6. CASE RunStatus(d, o) # "OK"
    <3>1. test' = test + 1 /\ verdict' # "ACCEPTED"
      BY <1>0, <2>1, <2>6, StatusOfRun DEF KeepFirst
    <3>2. \/ at' \in {"dropped", "drop_runner"}
          \/ at' = "input" /\ test < task.tests
      <4>1. GoOn(o, AfterTest)
        BY <2>1, <2>6
      <4> QED
        BY <4>1 DEF GoOn, AfterTest
    <3> QED
      BY <2>2, <2>3, <2>4, <3>1, <3>2 DEF EarnedPart, Early
  <2> QED
    BY <2>5, <2>6
<1>11. CASE ReadOutput(o)
  <2> DEFINE full == Works("runner", o)
  <2>1. PICK matches \in Matches(program.did[test], full) :
          verdict' = KeepFirst(IF task.compares /\ ~matches THEN "WRONG_ANSWER" ELSE "ACCEPTED")
    BY <1>11 DEF ReadOutput
  <2>2. /\ at = "output" /\ UNCHANGED <<task, program, told>> /\ test' = test + 1
        /\ unread' = IF full THEN unread ELSE unread \cup {test}
    BY <1>11 DEF ReadOutput
  <2>3. \/ at' = "dropped"
        \/ at' = "drop_runner" /\ ~(test < task.tests)
        \/ at' = "input" /\ test < task.tests
    <3>1. GoOn(o, AfterTest)
      BY <1>11 DEF ReadOutput
    <3> QED
      BY <3>1 DEF GoOn, AfterTest
  <2>4. /\ told' # "ACCEPTED" /\ test \in Nat \ {0} /\ task' \in TaskType /\ task.tests \in Nat
        /\ test <= task.tests /\ Len(program.did) = test /\ ~program.broken /\ program.compiles
        /\ program.did[test] \in {"right", "wrong"} /\ program \in ProgramType
    BY <2>2, Zenon DEF EarnedPart, TaskType
  <2>5. ASSUME verdict' = "ACCEPTED", NEW i \in 1 .. test
        PROVE  Passed(i)'
    <3>1. verdict = "ACCEPTED" /\ (task.compares => matches)
      BY <2>1, <2>5 DEF KeepFirst
    <3>2. full => matches = (program.did[test] = "right")
      BY <2>1 DEF Matches
    <3> HIDE DEF full
    <3>3. CASE i = test
      BY <2>2, <2>4, <3>1, <3>2, <3>3, ZenonT(30) DEF Passed
    <3>4. CASE i # test
      <4>1. i \in 1 .. (test - 1)
        BY <2>4, <3>4
      <4>2. Passed(i)
        BY <2>2, <3>1, <4>1 DEF EarnedPart
      <4> QED
        BY <2>2, <4>2 DEF Passed
    <3> QED
      BY <3>3, <3>4
  <2>6. verdict' = "ACCEPTED" /\ at' = "drop_runner" => Earned'
    <3>1. ~(test < task.tests) => test = task.tests
      BY <2>4
    <3> QED
      BY <2>2, <2>3, <2>4, <2>5, <3>1 DEF Earned
  <2>7. verdict' = "ACCEPTED" => \A i \in 1 .. (test' - 1) : Passed(i)'
    <3>1. test' - 1 = test
      BY <2>2, <2>4
    <3> QED
      BY <2>5, <3>1
  <2>8. at' = "input" => Len(program'.did) = test' - 1 /\ test' <= task'.tests
    BY <2>2, <2>3, <2>4
  <2>9. test' \in Nat \ {0}
    BY <2>2, <2>4
  <2> HIDE DEF full
  <2> QED
    BY <2>2, <2>3, <2>4, <2>6, <2>7, <2>8, <2>9 DEF EarnedPart, Early
<1>12. CASE DropRunner(o)
  <2>1. /\ at = "drop_runner" /\ at' \in {"return", "dropped"} /\ verdict' = verdict
        /\ UNCHANGED <<task, test, program, unread, told>>
    BY <1>12 DEF DropRunner, GoOn
  <2> QED
    BY <2>1, Zenon DEF EarnedPart, Early, Earned, Passed
<1> QED
  BY <1>1, <1>2, <1>3, <1>4, <1>5, <1>6, <1>7, <1>8, <1>9, <1>10, <1>11, <1>12 DEF JudgerStep

\* So does every step of the specification.
LEMMA NextEarned ==
  ASSUME EarnedPart, [JudgerNext]_judgerVars
  PROVE  EarnedPart'
<1>1. CASE \E o \in Outcomes : JudgerStep(o)
  BY <1>1, StepEarned
<1>2. CASE MemoryPeakTimesOut
  BY <1>2, ZenonT(30) DEF MemoryPeakTimesOut, EarnedPart, Earned, Passed
<1>3. CASE Unwind
  <2>1. /\ UNCHANGED <<task, test, verdict, program, unread>>
        /\ \/ at = "return" /\ at' = "done" /\ told' = told
           \/ at = "dropped" /\ at' = "gone" /\ told' = "CANCELLED"
    BY <1>3 DEF Unwind
  <2> QED
    BY <2>1, Zenon DEF EarnedPart, Early, Earned, Passed
<1>4. CASE CallBack
  <2>1. /\ UNCHANGED <<task, test, verdict, program, unread>>
        /\ at = "done" /\ at' = "gone" /\ told' \in {"CANCELLED", verdict}
    BY <1>4 DEF CallBack
  <2> QED
    BY <2>1 DEF EarnedPart, Early, Earned, Passed
<1>5. CASE StopAccepting
  BY <1>5, ZenonT(30) DEF StopAccepting, EarnedPart, Earned, Passed
<1>6. CASE CancelTask
  BY <1>6 DEF CancelTask, EarnedPart, Earned, Passed
<1>7. CASE UNCHANGED judgerVars
  BY <1>7, Zenon DEF judgerVars, EarnedPart, Earned, Passed
<1> QED
  BY <1>1, <1>2, <1>3, <1>4, <1>5, <1>6, <1>7 DEF JudgerNext

-----------------------------------------------------------------------------
(***************************************************************************)
(* A run that nothing disturbs.                                            *)
(***************************************************************************)

\* No Docker call has failed or was late, and the loop is open.
Undisturbed == dockerFaults = 0 /\ loop = "open"

\* What each way to run is worth under this task.
Mark == [d \in Does |-> Worth(d)]

\* The verdict is the one of the first n tests: the first of them that is not
\* accepted has decided.
Decided(n) ==
  \/ verdict = "ACCEPTED" /\ \A i \in 1 .. n : Mark[program.did[i]] = "ACCEPTED"
  \/ \E i \in 1 .. n : /\ verdict = Mark[program.did[i]] /\ verdict # "ACCEPTED"
                       /\ \A j \in 1 .. (i - 1) : Mark[program.did[j]] = "ACCEPTED"

\* The program has ended within the wall clock on its first n tests.
InTime(n) == \A i \in 1 .. n : program.did[i] # "wall"

\* It has not, and there are tests left to run.
Outlived == \E i \in 1 .. Len(program.did) : program.did[i] = "wall" /\ i < task.tests

\* What the verdict is when the coroutine is through.
Final ==
  /\ ~program.compiles => verdict = "COMPILE_ERROR"
  /\ program.compiles /\ Outlived => verdict = "SYSTEM_ERROR"
  /\ program.compiles /\ ~Outlived => Decided(Len(program.did))

\* How far an undisturbed coroutine is, and what its verdict is there.
CalmAt ==
  /\ at \in Early \cup {"input", "run", "output"} => ~program.broken
  /\ at \in Early => verdict = "ACCEPTED"
  /\ at \in {"errors", "discard"} => verdict = "COMPILE_ERROR" /\ ~program.compiles
  /\ at \in {"install", "chmod", "run", "output"} => box["runner"].there = "up"
  /\ at \in {"input", "run", "output"} => Decided(test - 1)
  /\ at \in {"run", "output"} => InTime(test - 1)
  /\ at = "input" => IF box["runner"].there = "up" THEN InTime(test - 1)
                     ELSE \E i \in 1 .. (test - 1) : program.did[i] = "wall"
  /\ at \in {"drop_runner", "return", "done"} => Final
  /\ at = "gone" => told = "CANCELLED" \/ (told = verdict /\ Final)

\* The inductive part about undisturbed runs.
CalmPart == dockerFaults \in Nat /\ (Undisturbed => CalmAt)

\* What the runs of a program are worth.
LEMMA MarkFacts ==
  ASSUME task \in TaskType
  PROVE  /\ Mark["right"] = "ACCEPTED"
         /\ Mark["wrong"] = IF task.compares THEN "WRONG_ANSWER" ELSE "ACCEPTED"
         /\ \A d \in Does \ {"right", "wrong"} :
              Mark[d] = RunStatus(d, "ok") /\ Mark[d] # "ACCEPTED" /\ Mark[d] # "OK"
         /\ \A d \in {"right", "wrong"} : RunStatus(d, "ok") = "OK"
<1>1. \A d \in Does : Mark[d] = Worth(d)
  BY DEF Mark
<1>2. \A d \in {"right", "wrong"} : RunStatus(d, "ok") = "OK"
  BY DEF RunStatus
<1>3. task.compares \in BOOLEAN
  BY DEF TaskType
<1>4. Worth("right") = "ACCEPTED"
  BY DEF Worth
<1>5. Worth("wrong") = IF task.compares THEN "WRONG_ANSWER" ELSE "ACCEPTED"
  <2>1. CASE task.compares
    BY <2>1 DEF Worth
  <2>2. CASE ~task.compares
    BY <2>2 DEF Worth
  <2> QED
    BY <2>1, <2>2
<1>6. ASSUME NEW d \in Does \ {"right", "wrong"}
      PROVE  Worth(d) = RunStatus(d, "ok") /\ Worth(d) # "ACCEPTED" /\ Worth(d) # "OK"
  <2>1. CASE d = "crash"
    BY <2>1 DEF Worth, RunStatus
  <2>2. CASE d = "oom"
    BY <2>2 DEF Worth, RunStatus
  <2>3. CASE d \in {"cpu", "wall"}
    BY <2>3 DEF Worth, RunStatus
  <2> QED
    BY <2>1, <2>2, <2>3 DEF Does
<1>7. "right" \in Does /\ "wrong" \in Does
  BY DEF Does
<1> QED
  BY <1>1, <1>2, <1>4, <1>5, <1>6, <1>7

\* Nothing but the task decides what a run is worth.
LEMMA MarkStays == task' = task => Mark' = Mark
BY DEF Mark, Worth

\* The verdict stays decided.
LEMMA DecidedStays ==
  ASSUME NEW n \in Nat, Decided(n), task' = task, verdict' = verdict,
         \A i \in 1 .. n : program'.did[i] = program.did[i]
  PROVE  Decided(n)'
<1>1. Mark' = Mark
  BY MarkStays
<1>2. \A i \in 1 .. n : \A j \in 1 .. (i - 1) : j \in 1 .. n
  OBVIOUS
<1> QED
  BY <1>1, <1>2 DEF Decided

\* One more test: the first that is not accepted decides.
LEMMA DecidedMore ==
  ASSUME NEW n \in Nat, Decided(n), task' = task,
         verdict' = KeepFirst(Mark[program'.did[n + 1]]),
         \A i \in 1 .. n : program'.did[i] = program.did[i]
  PROVE  Decided(n + 1)'
<1>1. Mark' = Mark
  BY MarkStays
<1>2. \A i \in 1 .. (n + 1) : i \in 1 .. n \/ i = n + 1
  OBVIOUS
<1>3. CASE verdict = "ACCEPTED" /\ \A i \in 1 .. n : Mark[program.did[i]] = "ACCEPTED"
  <2>1. verdict' = Mark'[program'.did[n + 1]]
    BY <1>1, <1>3 DEF KeepFirst
  <2>2. \A i \in 1 .. n : Mark'[program'.did[i]] = "ACCEPTED"
    BY <1>1, <1>3
  <2>3. CASE verdict' = "ACCEPTED"
    <3>1. \A i \in 1 .. (n + 1) : Mark'[program'.did[i]] = "ACCEPTED"
      BY <1>2, <2>1, <2>2, <2>3, Zenon
    <3> QED
      BY <2>3, <3>1 DEF Decided
  <2>4. CASE verdict' # "ACCEPTED"
    <3>1. n + 1 \in 1 .. (n + 1) /\ (n + 1) - 1 = n
      OBVIOUS
    <3> QED
      BY <2>1, <2>2, <2>4, <3>1 DEF Decided
  <2> QED
    BY <2>3, <2>4
<1>4. ASSUME NEW i \in 1 .. n, verdict = Mark[program.did[i]], verdict # "ACCEPTED",
             \A j \in 1 .. (i - 1) : Mark[program.did[j]] = "ACCEPTED"
      PROVE  Decided(n + 1)'
  <2>1. i \in 1 .. (n + 1) /\ \A j \in 1 .. (i - 1) : j \in 1 .. n
    OBVIOUS
  <2>2. \A j \in 1 .. (i - 1) : Mark'[program'.did[j]] = "ACCEPTED"
    BY <1>1, <1>4, <2>1
  <2>3. verdict' = verdict
    BY <1>4 DEF KeepFirst
  <2>4. verdict' = Mark'[program'.did[i]] /\ verdict' # "ACCEPTED"
    BY <1>1, <1>4, <2>3
  <2> QED
    BY <2>1, <2>2, <2>4 DEF Decided
<1> QED
  BY <1>3, <1>4 DEF Decided

\* A coroutine that is through has the verdict the submission deserves.
LEMMA FinalIsDeserved ==
  ASSUME EarnedPart, Final
  PROVE  verdict = Deserved
<1> DEFINE did == program.did
           bad == {i \in DOMAIN did : Worth(did[i]) # "ACCEPTED"}
<1>1. did \in Seq(Does) /\ Len(did) \in Nat /\ DOMAIN did = 1 .. Len(did)
  BY DEF EarnedPart, ProgramType
<1>2. \A i \in 1 .. Len(did) : Mark[did[i]] = Worth(did[i])
  BY <1>1 DEF Mark
<1>3. Outlived <=> \E i \in DOMAIN did : did[i] = "wall" /\ i < task.tests
  BY <1>1 DEF Outlived
<1>4. Deserved = IF ~program.compiles THEN "COMPILE_ERROR"
                 ELSE IF Outlived THEN "SYSTEM_ERROR"
                 ELSE IF bad = {} THEN "ACCEPTED"
                 ELSE Worth(did[CHOOSE i \in bad : \A j \in bad : i <= j])
  BY <1>3 DEF Deserved
<1>5. CASE ~program.compiles \/ Outlived
  BY <1>4, <1>5 DEF Final
<1>6. CASE program.compiles /\ ~Outlived
  <2>1. Decided(Len(did))
    BY <1>6 DEF Final
  <2>2. CASE verdict = "ACCEPTED" /\ \A i \in 1 .. Len(did) : Mark[did[i]] = "ACCEPTED"
    <3>1. bad = {}
      BY <1>1, <1>2, <2>2
    <3> QED
      BY <1>4, <1>6, <2>2, <3>1
  <2>3. ASSUME NEW i \in 1 .. Len(did), verdict = Mark[did[i]], verdict # "ACCEPTED",
               \A j \in 1 .. (i - 1) : Mark[did[j]] = "ACCEPTED"
        PROVE  verdict = Deserved
    <3>1. i \in bad /\ bad \subseteq Nat
      BY <1>1, <1>2, <2>3
    <3>2. \A j \in bad : i <= j
      BY <1>1, <1>2, <2>3
    <3>3. verdict = Worth(did[i])
      BY <1>2, <2>3
    <3> HIDE DEF bad
    <3>4. PICK c : c = CHOOSE x \in bad : \A j \in bad : x <= j
      OBVIOUS
    <3>5. c \in bad /\ \A j \in bad : c <= j
      BY <3>1, <3>2, <3>4, ZenonT(30)
    <3>6. c = i
      BY <3>1, <3>2, <3>5
    <3> QED
      BY <1>4, <1>6, <3>1, <3>3, <3>4, <3>6, Zenon
  <2> QED
    BY <2>1, <2>2, <2>3 DEF Decided
<1> QED
  BY <1>5, <1>6

\* A co_await of an undisturbed run: it was undisturbed before, and the call went
\* well unless the coroutine is never resumed.
LEMMA CalmStep ==
  ASSUME CalmPart, NEW o \in Outcomes, JudgerStep(o)
  PROVE  /\ dockerFaults' \in Nat
         /\ Undisturbed' => /\ CalmAt
                            /\ o = "ok" \/ at' = "dropped"
<1>1. \E next : GoOn(o, next)
  BY ZenonT(30) DEF JudgerStep, Create, StartAndWriteSource, Compile, CompileError, ReadExecutable, DropCompiler,
     Acquire, InstallExecutable, WriteInput, RunTest, ReadOutput, DropRunner, Need
<1>2. loop' = loop
  BY Zenon DEF JudgerStep, Create, StartAndWriteSource, Compile, CompileError, ReadExecutable, DropCompiler,
     Acquire, InstallExecutable, WriteInput, RunTest, ReadOutput, DropRunner
<1>3. /\ dockerFaults' = dockerFaults + (IF Faulty(o) THEN 1 ELSE 0)
      /\ o \in {"dropped", "abandoned"} => at' = "dropped"
  BY <1>1 DEF GoOn
<1>4. dockerFaults \in Nat
  BY DEF CalmPart
<1>5. dockerFaults' = 0 => dockerFaults = 0 /\ ~Faulty(o)
  BY <1>3, <1>4
<1> QED
  BY <1>2, <1>3, <1>4, <1>5 DEF CalmPart, Undisturbed, Outcomes, Faulty

\* A test has been run and judged: the coroutine goes on to the next one, or is
\* through.
LEMMA CalmAfterTest ==
  ASSUME EarnedPart, NEW n, n = test, task' = task, test <= task.tests,
         test' = test + 1, Decided(n)', ~program'.broken, program'.compiles,
         Len(program'.did) = test, \A i \in 1 .. (n - 1) : program'.did[i] # "wall",
         at' = AfterTest, box'["runner"].there = "up" <=> program'.did[n] # "wall"
  PROVE  CalmAt'
<1>1. /\ n \in Nat /\ n >= 1 /\ test' - 1 = n /\ Len(program'.did) = n /\ task'.tests \in Nat
      /\ \A i \in 1 .. n : i \in 1 .. (n - 1) \/ i = n
  BY DEF EarnedPart, TaskType
<1>2. CASE at' = "input"
  <2>1. Decided(test - 1)' /\ (InTime(test - 1)' <=> \A i \in 1 .. n : program'.did[i] # "wall")
    BY <1>1 DEF Decided, InTime
  <2>2. IF box'["runner"].there = "up" THEN InTime(test - 1)'
        ELSE \E i \in 1 .. (test' - 1) : program'.did[i] = "wall"
    BY <1>1, <2>1
  <2> QED
    BY <1>2, <2>1, <2>2 DEF CalmAt, Early
<1>3. CASE at' = "drop_runner"
  <2>1. ~(test < task.tests)
    BY <1>3 DEF AfterTest
  <2>2. n = task'.tests
    BY <1>1, <2>1
  <2>3. ~Outlived'
    BY <1>1, <2>2 DEF Outlived
  <2>4. Decided(Len(program.did))'
    BY <1>1 DEF Decided
  <2>5. Final'
    BY <2>3, <2>4 DEF Final
  <2> QED
    BY <1>3, <2>5 DEF CalmAt, Early
<1> QED
  BY <1>2, <1>3 DEF AfterTest

\* The calls before the first test.
LEMMA CalmEarly ==
  ASSUME BoxPart, EarnedPart, CalmAt, JudgerStep("ok"), at \in Early \cup {"errors", "discard"}
  PROVE  CalmAt'
<1>1. CASE Create("ok")
  <2>1. box'["compile"].known
    BY <1>1, CreateBoxPart DEF Create, Boxes, Done
  <2>2. /\ at = "create" /\ at' = "start" /\ verdict' = verdict /\ program' = program
    BY <1>1, <2>1 DEF Create, Need, GoOn
  <2> QED
    BY <2>2, ZenonT(30) DEF CalmAt, Early
<1>2. CASE StartAndWriteSource("ok")
  <2>1. /\ at \in {"start", "source"} /\ at' \in {"source", "compile"}
        /\ verdict' = verdict /\ program' = program
    BY <1>2 DEF StartAndWriteSource, Need, GoOn
  <2> QED
    BY <2>1 DEF CalmAt, Early
<1>3. CASE Compile("ok")
  <2>1. PICK compiles \in BOOLEAN :
          /\ program' = Program(compiles, FALSE, <<>>)
          /\ GoOn("ok", IF compiles THEN "executable" ELSE "errors")
          /\ verdict' = IF compiles THEN verdict ELSE "COMPILE_ERROR"
    BY <1>3, ZenonT(30) DEF Compile
  <2>2. program'.compiles = compiles /\ program'.broken = FALSE
    BY <2>1 DEF Program
  <2>3. at = "compile" /\ at' = IF compiles THEN "executable" ELSE "errors"
    BY <1>3, <2>1 DEF Compile, GoOn
  <2> QED
    BY <2>1, <2>2, <2>3, Zenon DEF CalmAt, Early
<1>4. CASE CompileError("ok")
  <2>1. /\ at \in {"errors", "discard"} /\ at' \in {"discard", "return"}
        /\ verdict' = verdict /\ program' = program
    BY <1>4 DEF CompileError, GoOn
  <2>2. verdict' = "COMPILE_ERROR" /\ ~program'.compiles
    BY <2>1 DEF CalmAt
  <2>3. Final'
    BY <2>2 DEF Final
  <2> QED
    BY <2>1, <2>2, <2>3, ZenonT(30) DEF CalmAt, Early
<1>5. CASE ReadExecutable("ok")
  <2>1. program' = Program(TRUE, FALSE, <<>>) /\ Need("ok", TRUE, "drop_compiler") /\ at = "executable"
    BY <1>5, ZenonT(30) DEF ReadExecutable
  <2>2. at' = "drop_compiler" /\ verdict' = verdict /\ program'.broken = FALSE
    BY <2>1 DEF Need, GoOn, Program
  <2> QED
    BY <2>1, <2>2, Zenon DEF CalmAt, Early
<1>6. CASE DropCompiler("ok")
  <2>1. at = "drop_compiler" /\ at' = "acquire" /\ verdict' = verdict /\ program' = program
    BY <1>6 DEF DropCompiler, GoOn
  <2> QED
    BY <2>1 DEF CalmAt, Early
<1>7. CASE Acquire("ok")
  <2>1. at = "acquire" /\ at' = "install" /\ verdict' = verdict /\ program' = program
    BY <1>7 DEF Acquire, Need, GoOn
  <2>2. box' = [box EXCEPT !["runner"] = Box("up", TRUE)] /\ box \in [Boxes -> BoxType] /\ "runner" \in Boxes
    BY <1>7, ZenonT(30) DEF Acquire, CreateBox, Done, BoxPart, Boxes
  <2>3. box'["runner"].there = "up"
    BY <2>2 DEF Box
  <2> QED
    BY <2>1, <2>3 DEF CalmAt, Early
<1>8. CASE InstallExecutable("ok")
  <2>1. /\ at \in {"install", "chmod"} /\ at' \in {"chmod", "input"} /\ box' = box
        /\ verdict' = verdict /\ program' = program /\ test' = test
    BY <1>8 DEF InstallExecutable, Need, GoOn, ExecBox
  <2>2. test = 1 /\ verdict = "ACCEPTED" /\ box["runner"].there = "up" /\ ~program.broken
    BY <2>1 DEF EarnedPart, CalmAt, Early
  <2>3. Decided(test - 1)' /\ InTime(test - 1)'
    BY <2>1, <2>2 DEF Decided, InTime
  <2> QED
    BY <2>1, <2>2, <2>3 DEF CalmAt, Early
<1> QED
  BY <1>1, <1>2, <1>3, <1>4, <1>5, <1>6, <1>7, <1>8, ZenonT(30)
  DEF JudgerStep, WriteInput, RunTest, ReadOutput, DropRunner, Early

\* What is final stays so.
LEMMA FinalStays ==
  ASSUME EarnedPart, Final, UNCHANGED <<task, program, verdict>>
  PROVE  Final'
<1>1. PICK n \in Nat : n = Len(program.did)
  BY DEF EarnedPart, ProgramType
<1>2. Outlived' <=> Outlived
  BY DEF Outlived
<1>3. Decided(n) => Decided(n)'
  BY DecidedStays
<1>4. Decided(Len(program.did)) => Decided(Len(program.did))'
  BY <1>1, <1>3 DEF Decided
<1> QED
  BY <1>2, <1>4 DEF Final

\* The calls of the tests.
LEMMA CalmTests ==
  ASSUME BoxPart, EarnedPart, CalmAt, JudgerStep("ok"), at \in {"input", "run", "output", "drop_runner"}
  PROVE  CalmAt'
<1>1. PICK n : n = test - 1
  OBVIOUS
<1>2. /\ n \in Nat /\ test = n + 1 /\ test \in Nat \ {0} /\ task \in TaskType /\ task.tests \in Nat
      /\ program.did \in Seq(Does) /\ Len(program.did) \in Nat
  BY <1>1 DEF EarnedPart, TaskType, ProgramType
<1>3. at # "drop_runner" => /\ Decided(n) /\ test <= task.tests /\ program.compiles /\ ~program.broken
  BY <1>1, Zenon DEF CalmAt, EarnedPart
<1>4. CASE WriteInput("ok")
  <2>1. /\ at = "input" /\ UNCHANGED <<task, test, program, box>>
        /\ IF box["runner"].there = "up" THEN at' = "run" /\ verdict' = verdict
           ELSE at' = "drop_runner" /\ verdict' = "SYSTEM_ERROR"
    BY <1>4 DEF WriteInput, ExecBox, GoOn, Works, Done
  <2>2. CASE box["runner"].there = "up"
    <3>1. Decided(n)'
      BY <1>2, <1>3, <2>1, <2>2, DecidedStays
    <3>2. Decided(test - 1)' /\ InTime(test - 1)'
      <4>1. InTime(test - 1)
        BY <2>1, <2>2 DEF CalmAt
      <4> QED
        BY <1>1, <2>1, <3>1, <4>1 DEF Decided, InTime
    <3> QED
      BY <1>3, <2>1, <2>2, <3>2, Zenon DEF CalmAt, Early
  <2>3. CASE box["runner"].there # "up"
    <3>1. PICK i \in 1 .. (test - 1) : program.did[i] = "wall"
      BY <2>1, <2>3 DEF CalmAt
    <3>2. Len(program.did) = test - 1
      BY <2>1 DEF EarnedPart
    <3>3. Outlived'
      BY <1>2, <1>3, <2>1, <3>1, <3>2 DEF Outlived
    <3>4. Final'
      BY <1>3, <2>1, <2>3, <3>3 DEF Final
    <3> QED
      BY <2>1, <2>3, <3>4 DEF CalmAt, Early
  <2> QED
    BY <2>2, <2>3
<1>5. CASE RunTest("ok")
  <2>1. at = "run" /\ task' = task /\ box["runner"].there = "up" /\ InTime(test - 1)
    BY <1>5 DEF RunTest, CalmAt
  <2>2. PICK d \in Does :
          /\ program' = Program(TRUE, program.broken, Append(program.did, d))
          /\ \/ d = "wall" /\ box' = [box EXCEPT !["runner"] = Box("dead", @.known)]
             \/ d # "wall" /\ box' = box
          /\ IF RunStatus(d, "ok") = "OK"
             THEN GoOn("ok", "output") /\ UNCHANGED <<verdict, test>>
             ELSE /\ GoOn("ok", AfterTest)
                  /\ verdict' = KeepFirst(RunStatus(d, "ok"))
                  /\ test' = test + 1
    BY <1>3, <1>5, <2>1, ZenonT(30) DEF RunTest, ExecBox, Done
  <2>3. /\ program'.compiles /\ program'.broken = program.broken
        /\ Len(program'.did) = test /\ program'.did[test] = d
        /\ \A i \in 1 .. (test - 1) : program'.did[i] = program.did[i]
    BY <2>1, <2>2, RunAppended, Zenon
  <2>4. \A i \in 1 .. n : program'.did[i] = program.did[i] /\ program'.did[i] # "wall"
    BY <1>1, <2>1, <2>3, ZenonT(30) DEF InTime
  <2>5. box'["runner"].there = "up" <=> d # "wall"
    <3>1. box \in [Boxes -> BoxType] /\ "runner" \in Boxes
      BY DEF BoxPart, Boxes
    <3>2. CASE d = "wall"
      BY <2>2, <3>1, <3>2 DEF Box
    <3>3. CASE d # "wall"
      BY <2>1, <2>2, <3>3
    <3> QED
      BY <3>2, <3>3
  <2>6. CASE d \in {"right", "wrong"}
    <3>1. at' = "output" /\ verdict' = verdict /\ test' = test
      BY <1>2, <2>2, <2>6, MarkFacts DEF GoOn
    <3>2. Decided(n)'
      BY <1>2, <1>3, <2>1, <2>4, <3>1, DecidedStays
    <3>3. Decided(test - 1)' /\ InTime(test - 1)'
      BY <1>1, <2>4, <3>1, <3>2 DEF Decided, InTime
    <3>4. box'["runner"].there = "up" /\ ~program'.broken
      BY <1>3, <2>1, <2>3, <2>5, <2>6, ZenonT(30)
    <3> QED
      BY <3>1, <3>3, <3>4 DEF CalmAt, Early
  <2>7. CASE d \notin {"right", "wrong"}
    <3>1. /\ Mark[d] = RunStatus(d, "ok") /\ RunStatus(d, "ok") # "OK"
      BY <1>2, <2>7, MarkFacts
    <3>2. at' = AfterTest /\ verdict' = KeepFirst(Mark[d]) /\ test' = test + 1
      BY <2>2, <3>1 DEF GoOn
    <3>3. Decided(n + 1)'
      BY <1>2, <1>3, <2>1, <2>3, <2>4, <3>2, DecidedMore
    <3>4. PICK m : m = n + 1
      OBVIOUS
    <3>5. Decided(m)' /\ m = test /\ \A i \in 1 .. (m - 1) : program'.did[i] # "wall"
      BY <1>2, <2>4, <3>3, <3>4
    <3>6. /\ ~program'.broken /\ program'.compiles /\ Len(program'.did) = test /\ test <= task.tests
          /\ box'["runner"].there = "up" <=> program'.did[m] # "wall"
      BY <1>3, <2>1, <2>3, <2>5, <3>5
    <3> QED
      BY <2>1, <3>2, <3>5, <3>6, CalmAfterTest, ZenonT(30)
  <2> QED
    BY <2>6, <2>7
<1>6. CASE ReadOutput("ok")
  <2>1. /\ at = "output" /\ UNCHANGED <<task, program, box>> /\ test' = test + 1 /\ at' = AfterTest
    BY <1>6 DEF ReadOutput, ExecBox, GoOn
  <2>2. /\ box["runner"].there = "up" /\ InTime(test - 1) /\ Len(program.did) = test
        /\ program.did[test] \in {"right", "wrong"}
    BY <2>1 DEF CalmAt, EarnedPart
  <2>3. Works("runner", "ok")
    BY <2>2 DEF Works, Done
  <2>4. verdict' = KeepFirst(IF task.compares /\ program.did[test] # "right" THEN "WRONG_ANSWER" ELSE "ACCEPTED")
    BY <1>6, <2>3, ZenonT(30) DEF ReadOutput, Matches
  <2>5. Mark[program.did[test]] = IF task.compares /\ program.did[test] # "right" THEN "WRONG_ANSWER" ELSE "ACCEPTED"
    <3>1. CASE program.did[test] = "right"
      BY <1>2, <3>1, MarkFacts
    <3>2. CASE program.did[test] = "wrong"
      BY <1>2, <3>2, MarkFacts
    <3> QED
      BY <2>2, <3>1, <3>2
  <2>6. verdict' = KeepFirst(Mark[program'.did[n + 1]])
    BY <1>2, <2>1, <2>4, <2>5
  <2>7. Decided(n + 1)'
    BY <1>2, <1>3, <2>1, <2>6, DecidedMore
  <2>8. PICK m : m = n + 1
    OBVIOUS
  <2>9. Decided(m)' /\ m = test /\ \A i \in 1 .. (m - 1) : program'.did[i] # "wall"
    BY <1>2, <2>1, <2>2, <2>7, <2>8 DEF InTime
  <2>10. /\ ~program'.broken /\ program'.compiles /\ Len(program'.did) = test /\ test <= task.tests
         /\ box'["runner"].there = "up" <=> program'.did[m] # "wall"
    BY <1>3, <2>1, <2>2, <2>9
  <2> QED
    BY <2>1, <2>9, <2>10, CalmAfterTest
<1>7. CASE DropRunner("ok")
  <2>1. at = "drop_runner" /\ at' = "return" /\ UNCHANGED <<task, program, verdict>>
    BY <1>7 DEF DropRunner, GoOn
  <2>2. Final'
    BY <2>1, FinalStays DEF CalmAt
  <2> QED
    BY <2>1, <2>2 DEF CalmAt, Early
<1> QED
  BY <1>4, <1>5, <1>6, <1>7, ZenonT(30)
  DEF JudgerStep, Create, StartAndWriteSource, Compile, CompileError, ReadExecutable, DropCompiler,
      Acquire, InstallExecutable

\* Every step keeps what is known of an undisturbed run.
LEMMA NextCalm ==
  ASSUME BoxPart, EarnedPart, CalmPart, [JudgerNext]_judgerVars
  PROVE  CalmPart'
<1>1. ASSUME NEW o \in Outcomes, JudgerStep(o) PROVE CalmPart'
  <2>1. SUFFICES ASSUME Undisturbed' PROVE CalmAt'
    BY <1>1, CalmStep DEF CalmPart
  <2>2. CalmAt /\ (o = "ok" \/ at' = "dropped")
    BY <1>1, <2>1, CalmStep
  <2>3. CASE at' = "dropped"
    BY <2>3 DEF CalmAt, Early
  <2>4. CASE o = "ok"
    <3>1. at \in Early \cup {"errors", "discard", "input", "run", "output", "drop_runner"}
      BY <1>1, ZenonT(30) DEF JudgerStep, Create, StartAndWriteSource, Compile, CompileError, ReadExecutable,
         DropCompiler, Acquire, InstallExecutable, WriteInput, RunTest, ReadOutput, DropRunner, Early
    <3> QED
      BY <1>1, <2>2, <2>4, <3>1, CalmEarly, CalmTests
  <2> QED
    BY <2>2, <2>3, <2>4
<1>2. CASE MemoryPeakTimesOut
  BY <1>2 DEF MemoryPeakTimesOut, CalmPart, Undisturbed
<1>3. CASE Unwind
  <2>4. dockerFaults' \in Nat /\ (dockerFaults' = 0 => dockerFaults = 0)
    BY <1>3 DEF Unwind, CalmPart
  <2>5. /\ UNCHANGED <<task, program, verdict, loop>>
        /\ \/ at = "return" /\ at' = "done"
           \/ at = "dropped" /\ at' = "gone" /\ told' = "CANCELLED"
    BY <1>3 DEF Unwind
  <2>6. ASSUME Undisturbed' PROVE CalmAt'
    <3>1. CalmAt
      BY <2>4, <2>5, <2>6 DEF Undisturbed, CalmPart
    <3>2. at = "return" => Final'
      BY <2>5, <3>1, FinalStays DEF CalmAt
    <3> QED
      BY <2>5, <3>2 DEF CalmAt, Early
  <2> QED
    BY <2>4, <2>6 DEF CalmPart
<1>4. CASE CallBack
  <2>1. /\ UNCHANGED <<task, program, verdict, loop, dockerFaults>> /\ at = "done" /\ at' = "gone"
        /\ told' = IF loop = "cancelled" THEN "CANCELLED" ELSE verdict
    BY <1>4 DEF CallBack
  <2>2. ASSUME Undisturbed' PROVE CalmAt'
    <3>1. CalmAt
      BY <2>1, <2>2 DEF Undisturbed, CalmPart
    <3>2. Final'
      BY <2>1, <3>1, FinalStays DEF CalmAt
    <3> QED
      BY <2>1, <3>2 DEF CalmAt, Early
  <2> QED
    BY <2>1, <2>2 DEF CalmPart
<1>5. CASE StopAccepting \/ CancelTask
  BY <1>5 DEF StopAccepting, CancelTask, CalmPart, Undisturbed
<1>6. CASE UNCHANGED judgerVars
  <2>1. UNCHANGED <<task, at, test, verdict, program, box, loop, told, dockerFaults>>
    BY <1>6 DEF judgerVars
  <2>2. ASSUME Undisturbed' PROVE CalmAt'
    <3>1. CalmAt
      BY <2>1, <2>2 DEF Undisturbed, CalmPart
    <3>2. Final => Final'
      BY <2>1, FinalStays
    <3>3. PICK n \in Nat : n = test - 1
      BY DEF EarnedPart
    <3>4. Decided(n) => Decided(n)'
      BY <2>1, DecidedStays
    <3>5. Decided(test - 1) => Decided(test - 1)'
      BY <2>1, <3>3, <3>4, ZenonT(30) DEF Decided
    <3>6. InTime(test - 1) => InTime(test - 1)'
      BY <2>1 DEF InTime
    <3> QED
      BY <2>1, <3>1, <3>2, <3>5, <3>6, ZenonT(30) DEF CalmAt
  <2> QED
    BY <2>1, <2>2 DEF CalmPart
<1> QED
  BY <1>1, <1>2, <1>3, <1>4, <1>5, <1>6 DEF JudgerNext

-----------------------------------------------------------------------------
\* All parts hold when Judger::Run begins.
LEMMA InitParts == JudgerInit => BoxPart /\ EarnedPart /\ CalmPart
<1> SUFFICES ASSUME JudgerInit PROVE BoxPart /\ EarnedPart /\ CalmPart
  OBVIOUS
<1>1. Box("none", FALSE) \in BoxType /\ Box("none", FALSE).there = "none"
  BY DEF Box, BoxType
<1>2. BoxPart
  <2>1. box = [b \in Boxes |-> Box("none", FALSE)] /\ at = "create"
    BY DEF JudgerInit
  <2> QED
    BY <1>1, <2>1, ZenonT(30) DEF BoxPart, Uses
<1>3. program \in ProgramType /\ program.did = <<>> /\ program.compiles
  BY DEF JudgerInit, Program, ProgramType
<1>4. task \in TaskType
  BY JudgerBounds DEF JudgerInit, TaskType
<1>5. EarnedPart
  <2>1. at = "create" /\ test = 1 /\ told = "none"
    BY DEF JudgerInit
  <2>2. test \in Nat \ {0}
    BY <2>1
  <2> QED
    BY <1>3, <1>4, <2>1, <2>2 DEF EarnedPart, Early
<1>6. CalmPart
  <2>1. at = "create" /\ verdict = "ACCEPTED" /\ dockerFaults = 0 /\ ~program.broken
    BY DEF JudgerInit, Program
  <2> QED
    BY <2>1 DEF CalmPart, CalmAt, Early
<1> QED
  BY <1>2, <1>5, <1>6

\* Judger::Run keeps track of its containers and of what its verdict stands for.
THEOREM JudgerInvariant == JudgerSpec => [](BoxPart /\ EarnedPart /\ CalmPart)
<1>1. BoxPart /\ EarnedPart /\ CalmPart /\ [JudgerNext]_judgerVars
        => (BoxPart /\ EarnedPart /\ CalmPart)'
  BY NextBoxPart, NextEarned, NextCalm
<1> QED
  BY InitParts, <1>1, PTL DEF JudgerSpec

\* However many Docker calls fail, on every path out of Judger::Run no container
\* is left, except one of which a create or a delete call failed.
THEOREM JudgerNoContainerLeft == JudgerSpec => []NoContainerLeft
<1>1. BoxPart => NoContainerLeft
  BY DEF BoxPart, NoContainerLeft
<1> QED
  BY JudgerInvariant, <1>1, PTL

\* For any number of tests, ACCEPTED is reported only for a program that has
\* earned it on every test whose output Judger::Run could read and compares.
THEOREM JudgerAcceptedIsEarned == JudgerSpec => []AcceptedIsEarned
<1>1. EarnedPart => AcceptedIsEarned
  BY DEF EarnedPart, Earned, Passed, AcceptedIsEarned
<1> QED
  BY JudgerInvariant, <1>1, PTL

\* For any number of tests: when no Docker call fails or is late and the loop stays
\* open, the status the callback gets is the one the program deserves, or CANCELLED.
THEOREM JudgerUndisturbedVerdict == JudgerSpec => []UndisturbedVerdict
<1>1. EarnedPart /\ CalmPart => UndisturbedVerdict
  BY FinalIsDeserved DEF CalmPart, CalmAt, Undisturbed, UndisturbedVerdict
<1> QED
  BY JudgerInvariant, <1>1, PTL
=============================================================================
