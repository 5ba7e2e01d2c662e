------------------------ MODULE JudgePipelineProofs -------------------------
(***************************************************************************)
(* A published submission is judged or recorded as given up, whatever      *)
(* crashes, expires or is delivered again, for any number of judge nodes   *)
(* (mq_consumer.cpp, judge_inbox.cpp, judge_service.cpp).                  *)
(***************************************************************************)
EXTENDS JudgePipeline, TLAPS, FiniteSetTheorems

\* A leaf that names no prover goes to SMT, to Zenon, and to SMT with more time.
USE SMTT(10), Zenon, SMTT(20)

\* The types of the copies of the message and of the deliveries.
Where == {"gone", "ready", "delayed", "held"}
PCs == {"idle", "claim", "judging", "judged", "report", "ack", "retry", "deadletter"}
CopyType == [at : Where, retries : RetryCounts]
DeliveryType ==
  [pc : PCs, copy : Copies \cup {None}, current : BOOLEAN, token : Nat, result : Results \cup {None}]

\* A delivery on a live channel holds a copy of its own.
HoldPart ==
  /\ \A n \in Nodes : node[n].current =>
       node[n].pc # "idle" /\ node[n].copy \in Copies /\ copy[node[n].copy].at = "held"
  /\ \A n, m \in Nodes : node[n].current /\ node[m].current /\ node[n].copy = node[m].copy => n = m

\* A completed hash and a delivery that is about to be reported have a result.
ResultPart ==
  /\ hash.state = "completed" => hash.result # None
  /\ \A n \in Nodes : node[n].pc \in {"judged", "report"} => node[n].result # None

\* Copy k is not about to be acknowledged.
Kept(k) ==
  /\ copy[k].at # "gone"
  /\ \A n \in Nodes : node[n].current /\ node[n].pc = "ack" => node[n].copy # k

\* The submission has a result, or was given up with a record of it.
Settled == receipt # None \/ deadLettered

\* A published message that is not settled has a copy that stays.
KeptPart == row = "PUBLISHED" => Settled \/ \E k \in Copies : Kept(k)

\* The inductive invariant.
PipelineInv == TypeOK /\ HoldPart /\ ResultPart /\ KeptPart

\* Records have the fields they were made of.
LEMMA DeliveryFields ==
  ASSUME NEW pc \in PCs, NEW k \in Copies \cup {None}, NEW c \in BOOLEAN,
         NEW t \in Nat, NEW r \in Results \cup {None}
  PROVE  /\ Delivery(pc, k, c, t, r) \in DeliveryType
         /\ Delivery(pc, k, c, t, r).pc = pc /\ Delivery(pc, k, c, t, r).copy = k
         /\ Delivery(pc, k, c, t, r).current = c /\ Delivery(pc, k, c, t, r).token = t
         /\ Delivery(pc, k, c, t, r).result = r
BY DEF Delivery, DeliveryType

\* A copy has the place and the retry count it was given.
LEMMA AtFields ==
  ASSUME NEW w \in Where, NEW r \in RetryCounts
  PROVE  At(w, r) \in CopyType /\ At(w, r).at = w /\ At(w, r).retries = r
BY DEF At, CopyType

\* An idle node has no delivery.
LEMMA IdleFields ==
  /\ Idle \in DeliveryType /\ Idle.pc = "idle" /\ Idle.current = FALSE
BY DEF Idle, Delivery, DeliveryType, PCs

\* What the types say of one delivery and one copy.
LEMMA Typed ==
  ASSUME TypeOK
  PROVE  /\ node \in [Nodes -> DeliveryType] /\ copy \in [Copies -> CopyType]
         /\ \A n \in Nodes : /\ node[n].pc \in PCs /\ node[n].copy \in Copies \cup {None}
                             /\ node[n].current \in BOOLEAN /\ node[n].token \in Nat
                             /\ node[n].result \in Results \cup {None}
         /\ \A k \in Copies : copy[k].at \in Where /\ copy[k].retries \in RetryCounts
<1>1. node \in [Nodes -> DeliveryType]
  BY DEF TypeOK, DeliveryType, PCs
<1>2. copy \in [Copies -> CopyType]
  BY DEF TypeOK, CopyType, Where
<1>3. \A n \in Nodes : node[n] \in DeliveryType
  BY <1>1
<1>4. \A k \in Copies : copy[k] \in CopyType
  BY <1>2
<1> QED
  BY <1>1, <1>2, <1>3, <1>4 DEF DeliveryType, CopyType

\* The type invariant from its parts.
LEMMA TypesFrom ==
  ASSUME row \in {"none", "open", "PUBLISHED", "DEAD"}, sends \in 0 .. MaxSends,
         copy \in [Copies -> CopyType], deadLettered \in BOOLEAN,
         node \in [Nodes -> DeliveryType], hash \in HashType,
         receipt \in Results \cup {None}, faults \in 0 .. MaxFaults
  PROVE  TypeOK
BY DEF TypeOK, CopyType, Where, DeliveryType, PCs

\* RandomToken always finds a token: at most one per node is in use, and the one
\* in the hash.
LEMMA FreshTokenType ==
  ASSUME TypeOK
  PROVE  FreshToken \in Nat
<1> DEFINE used == {node[n].token : n \in Nodes} \cup {hash.owner}
           N == Cardinality(Nodes)
<1>1. IsFiniteSet(Nodes) /\ N \in Nat
  BY PipelineConstants, FS_CardinalityType
<1>2. IsFiniteSet({node[n].token : n \in Nodes}) /\ Cardinality({node[n].token : n \in Nodes}) <= N
  <2> DEFINE f == [n \in Nodes |-> node[n].token]
             T == {node[n].token : n \in Nodes}
  <2>1. f \in Surjection(Nodes, T)
    BY DEF Surjection
  <2> HIDE DEF T
  <2>2. IsFiniteSet(T) /\ Cardinality(T) <= Cardinality(Nodes)
    BY <1>1, <2>1, FS_Surjection
  <2> QED
    BY <2>2 DEF T
<1>3. IsFiniteSet(used) /\ Cardinality(used) <= N + 1
  <2> DEFINE T == {node[n].token : n \in Nodes}
  <2> HIDE DEF T
  <2>1. IsFiniteSet(T) /\ Cardinality(T) <= N
    BY <1>2 DEF T
  <2>2. /\ IsFiniteSet(T \cup {hash.owner})
        /\ Cardinality(T \cup {hash.owner}) =
             IF hash.owner \in T THEN Cardinality(T) ELSE Cardinality(T) + 1
    BY <2>1, FS_AddElement
  <2>3. Cardinality(T) \in Nat
    BY <2>1, FS_CardinalityType
  <2>4. Cardinality(T \cup {hash.owner}) <= N + 1
    BY <1>1, <2>1, <2>2, <2>3
  <2> QED
    BY <2>2, <2>4 DEF T
<1>4. \E t \in 1 .. N + 2 : t \notin used
  <2> HIDE DEF used, N
  <2> SUFFICES ASSUME 1 .. N + 2 \subseteq used PROVE FALSE
    OBVIOUS
  <2>1. Cardinality(1 .. N + 2) <= Cardinality(used)
    BY <1>3, FS_Subset, Zenon
  <2>2. Cardinality(1 .. N + 2) = N + 2
    <3>1. 1 \in Int /\ N + 2 \in Int /\ ~(1 > N + 2) /\ (N + 2) - 1 + 1 = N + 2
      BY <1>1
    <3>2. Cardinality(1 .. N + 2) = IF 1 > N + 2 THEN 0 ELSE (N + 2) - 1 + 1
      BY <3>1, FS_Interval
    <3> QED
      BY <3>1, <3>2
  <2>3. Cardinality(used) \in Nat
    BY <1>3, FS_CardinalityType
  <2> QED
    BY <1>1, <1>3, <2>1, <2>2, <2>3
<1>5. \E t \in 1 .. N + 2 : t # hash.owner /\ \A n \in Nodes : node[n].token # t
  BY <1>4
<1>6. FreshToken \in 1 .. N + 2
  BY <1>5 DEF FreshToken
<1> QED
  BY <1>1, <1>6

\* The scripts keep the hash well formed.
HashOK(h) == h \in HashType /\ (h.state = "completed" => h.result # None)

\* Each of the scripts does.
LEMMA ScriptsKeepHash ==
  ASSUME NEW h, HashOK(h), NEW fp \in Bodies, NEW token \in Nat
  PROVE  /\ HashOK(ClaimEffect(h, fp, token))
         /\ ClaimReply(h, fp) = "COMPLETED" => h.state = "completed"
         /\ \A r \in Results : HashOK(CompleteEffect(h, fp, token, r))
         /\ HashOK(LeaseOver(h))
BY NoneIsNoValue
   DEF HashOK, HashType, ClaimEffect, ClaimReply, CompleteEffect, CompleteReply, LeaseOver, Hash

\* A key that is absent is well formed.
LEMMA NoHashOK == HashOK(NoHash)
BY DEF HashOK, HashType, NoHash, Hash

\* One delivery, or one copy, changes.
LEMMA OneDelivery ==
  ASSUME node \in [Nodes -> DeliveryType], NEW n \in Nodes, NEW d \in DeliveryType,
         node' = [node EXCEPT ![n] = d]
  PROVE  /\ node' \in [Nodes -> DeliveryType] /\ node'[n] = d
         /\ \A m \in Nodes : m # n => node'[m] = node[m]
OBVIOUS

\* The other copies stay when one changes.
LEMMA OneCopy ==
  ASSUME copy \in [Copies -> CopyType], NEW k \in Copies, NEW c \in CopyType,
         copy' = [copy EXCEPT ![k] = c]
  PROVE  /\ copy' \in [Copies -> CopyType] /\ copy'[k] = c
         /\ \A j \in Copies : j # k => copy'[j] = copy[j]
OBVIOUS

\* The node goes on with its delivery; copies are left alone.  This is what most
\* steps of a node do.
LEMMA Advance ==
  ASSUME PipelineInv, NEW n \in Nodes, NEW d \in DeliveryType,
         node' = [node EXCEPT ![n] = d],
         node[n].pc # "idle", d.pc # "idle",
         d.copy = node[n].copy, d.current = node[n].current,
         d.pc \in {"judged", "report"} => d.result # None,
         HashOK(hash'), UNCHANGED <<row, sends, copy>>,
         receipt' \in Results \cup {None}, receipt # None => receipt' # None,
         deadLettered' \in BOOLEAN, deadLettered => deadLettered',
         faults' \in 0 .. MaxFaults,
         d.pc = "ack" => receipt' # None \/ deadLettered'
  PROVE  PipelineInv'
<1>1. /\ node \in [Nodes -> DeliveryType] /\ copy \in [Copies -> CopyType]
  BY Typed DEF PipelineInv
<1>2. /\ node' \in [Nodes -> DeliveryType] /\ node'[n] = d
      /\ \A m \in Nodes : m # n => node'[m] = node[m]
  BY <1>1, OneDelivery
<1>3. TypeOK'
  <2>1. row' \in {"none", "open", "PUBLISHED", "DEAD"} /\ sends' \in 0 .. MaxSends
    BY DEF PipelineInv, TypeOK
  <2>2. hash' \in HashType /\ copy' \in [Copies -> CopyType]
    BY <1>1 DEF HashOK
  <2> QED
    BY <1>2, <2>1, <2>2 DEF TypeOK, CopyType, Where, DeliveryType, PCs
<1>4. HoldPart'
  BY <1>2 DEF PipelineInv, HoldPart
<1>5. ResultPart'
  BY <1>2 DEF PipelineInv, ResultPart, HashOK
<1>6. KeptPart'
  <2> SUFFICES ASSUME row = "PUBLISHED", receipt' = None, ~deadLettered'
               PROVE  \E k \in Copies : Kept(k)'
    BY DEF KeptPart, Settled
  <2>1. PICK k \in Copies : Kept(k)
    BY DEF PipelineInv, KeptPart, Settled
  <2>2. Kept(k)'
    BY <1>2, <2>1 DEF Kept
  <2> QED
    BY <2>2
<1> QED
  BY <1>3, <1>4, <1>5, <1>6 DEF PipelineInv

\* The delivery of n ends or its channel dies, and the copy it held goes back to
\* the queue.
LEMMA Requeue ==
  ASSUME PipelineInv, NEW n \in Nodes, NEW d \in DeliveryType,
         node' = [node EXCEPT ![n] = d], ~d.current,
         d.pc \in {"judged", "report"} => d.result # None,
         \/ /\ node[n].current
            /\ copy' = [copy EXCEPT ![node[n].copy] = At("ready", @.retries)]
         \/ ~node[n].current /\ copy' = copy,
         UNCHANGED <<row, sends, deadLettered, hash, receipt>>, faults' \in 0 .. MaxFaults
  PROVE  PipelineInv'
<1>1. /\ node \in [Nodes -> DeliveryType] /\ copy \in [Copies -> CopyType]
      /\ \A k \in Copies : copy[k].retries \in RetryCounts
  BY Typed DEF PipelineInv
<1>2. /\ node' \in [Nodes -> DeliveryType] /\ node'[n] = d
      /\ \A m \in Nodes : m # n => node'[m] = node[m]
  BY <1>1, OneDelivery
<1>3. /\ copy' \in [Copies -> CopyType]
      /\ \A k \in Copies : \/ copy'[k] = copy[k]
                           \/ node[n].current /\ k = node[n].copy /\ copy'[k].at = "ready"
  <2>1. CASE /\ node[n].current
             /\ copy' = [copy EXCEPT ![node[n].copy] = At("ready", @.retries)]
    <3> DEFINE c == node[n].copy
    <3>1. c \in Copies
      BY <2>1 DEF PipelineInv, HoldPart
    <3>2. copy' = [copy EXCEPT ![c] = At("ready", copy[c].retries)]
      BY <2>1
    <3>3. "ready" \in Where
      BY DEF Where
    <3>4. At("ready", copy[c].retries) \in CopyType /\ At("ready", copy[c].retries).at = "ready"
      BY <1>1, <3>1, <3>3, AtFields
    <3>5. /\ copy' \in [Copies -> CopyType] /\ copy'[c] = At("ready", copy[c].retries)
          /\ \A j \in Copies : j # c => copy'[j] = copy[j]
      BY <1>1, <3>1, <3>2, <3>4, OneCopy
    <3> QED
      BY <2>1, <3>4, <3>5
  <2>2. CASE ~node[n].current /\ copy' = copy
    BY <1>1, <2>2
  <2> QED
    BY <2>1, <2>2
<1>4. TypeOK'
  <2>1. row' \in {"none", "open", "PUBLISHED", "DEAD"} /\ sends' \in 0 .. MaxSends
        /\ hash' \in HashType /\ receipt' \in Results \cup {None} /\ deadLettered' \in BOOLEAN
    BY DEF PipelineInv, TypeOK
  <2> QED
    BY <1>2, <1>3, <2>1 DEF TypeOK, CopyType, Where, DeliveryType, PCs
<1>5. HoldPart'
  <2>1. \A m \in Nodes : node'[m].current => m # n /\ node'[m] = node[m]
    BY <1>2
  <2>2. \A m \in Nodes : node'[m].current => copy'[node[m].copy] = copy[node[m].copy]
    BY <1>3, <2>1 DEF PipelineInv, HoldPart
  <2> QED
    BY <2>1, <2>2 DEF PipelineInv, HoldPart
<1>6. ResultPart'
  BY <1>2 DEF PipelineInv, ResultPart
<1>7. KeptPart'
  <2> SUFFICES ASSUME row = "PUBLISHED", ~Settled
               PROVE  \E k \in Copies : Kept(k)'
    BY DEF KeptPart, Settled
  <2>1. PICK k \in Copies : Kept(k)
    BY DEF PipelineInv, KeptPart
  <2>2. Kept(k)'
    BY <1>2, <1>3, <2>1 DEF Kept
  <2> QED
    BY <2>2
<1> QED
  BY <1>4, <1>5, <1>6, <1>7 DEF PipelineInv

\* Goto changes the pc only.
LEMMA GotoDelivery ==
  ASSUME TypeOK, NEW n \in Nodes, NEW pc \in PCs, Goto(n, pc)
  PROVE  \E d \in DeliveryType :
           /\ node' = [node EXCEPT ![n] = d] /\ d.pc = pc
           /\ d.copy = node[n].copy /\ d.current = node[n].current
           /\ d.token = node[n].token /\ d.result = node[n].result
<1> DEFINE d == Delivery(pc, node[n].copy, node[n].current, node[n].token, node[n].result)
<1>1. /\ node[n].copy \in Copies \cup {None} /\ node[n].current \in BOOLEAN
      /\ node[n].token \in Nat /\ node[n].result \in Results \cup {None}
  BY Typed
<1>2. /\ d \in DeliveryType /\ d.pc = pc /\ d.copy = node[n].copy /\ d.current = node[n].current
      /\ d.token = node[n].token /\ d.result = node[n].result
  BY <1>1, DeliveryFields
<1>3. node' = [node EXCEPT ![n] = d]
  BY DEF Goto
<1> QED
  BY <1>2, <1>3, ZenonT(30)

\* A fault within the bound.
LEMMA FaultCounts == TypeOK /\ Fault => faults' \in 0 .. MaxFaults
BY PipelineConstants DEF TypeOK, Fault

\* The message has one of the bodies.
LEMMA TheBodyType == TheBody \in Bodies
BY PipelineConstants DEF TheBody

\* The steps of a node that leave the copies alone.
LEMMA NodeStep ==
  ASSUME PipelineInv, NEW n \in Nodes,
         \/ Claim(n) \/ ClaimFails(n) \/ Complete(n) \/ CompleteFails(n)
         \/ Report(n) \/ ReportFails(n) \/ OutboxUnreadable(n) \/ DeadLetter(n)
         \/ \E r \in Results : Judge(n, r)
  PROVE  PipelineInv'
<1>0. TypeOK /\ HashOK(hash)
  BY DEF PipelineInv, HashOK, ResultPart, TypeOK
<1>a. /\ node[n].pc \in PCs /\ node[n].copy \in Copies \cup {None}
      /\ node[n].current \in BOOLEAN /\ node[n].token \in Nat
      /\ node[n].result \in Results \cup {None}
  BY <1>0, Typed
<1>b. /\ receipt \in Results \cup {None} /\ deadLettered \in BOOLEAN /\ faults \in 0 .. MaxFaults
  BY <1>0 DEF TypeOK
<1>c. /\ "judging" \in PCs /\ "judged" \in PCs /\ "report" \in PCs /\ "ack" \in PCs
      /\ "retry" \in PCs /\ "deadletter" \in PCs
      /\ None \in Results \cup {None} /\ 0 \in Nat
  BY DEF PCs
<1>d. FreshToken \in Nat /\ TheBody \in Bodies
  BY <1>0, FreshTokenType, TheBodyType
<1>e. HashOK(ClaimEffect(hash, TheBody, FreshToken))
  BY <1>0, <1>d, ScriptsKeepHash
<1>1. CASE Claim(n)
  <2> DEFINE reply == ClaimReply(hash, TheBody)
  <2>1. node[n].pc = "claim" /\ hash' = ClaimEffect(hash, TheBody, FreshToken)
        /\ UNCHANGED <<row, sends, copy, deadLettered, receipt, faults>>
    BY <1>1 DEF Claim
  <2>2. PICK d \in DeliveryType :
          /\ node' = [node EXCEPT ![n] = d] /\ d.copy = node[n].copy /\ d.current = node[n].current
          /\ d.pc \in {"judging", "report", "deadletter", "retry"}
          /\ d.pc = "report" => d.result # None
    <3>1. CASE reply = "STARTED"
      <4> DEFINE d == Delivery("judging", node[n].copy, node[n].current, FreshToken, None)
      <4>1. node' = [node EXCEPT ![n] = d]
        BY <1>1, <3>1 DEF Claim
      <4>2. d \in DeliveryType /\ d.pc = "judging" /\ d.copy = node[n].copy /\ d.current = node[n].current
        BY <1>a, <1>c, <1>d, DeliveryFields
      <4> QED
        BY <4>1, <4>2, Zenon
    <3>2. CASE reply = "COMPLETED"
      <4> DEFINE d == Delivery("report", node[n].copy, node[n].current, 0, hash.result)
      <4>1. node' = [node EXCEPT ![n] = d]
        BY <1>1, <3>2 DEF Claim
      <4>2. hash.result \in Results \cup {None} /\ hash.result # None
        BY <1>0, <1>d, <3>2, ScriptsKeepHash DEF HashOK, HashType
      <4>3. /\ d \in DeliveryType /\ d.pc = "report" /\ d.copy = node[n].copy
            /\ d.current = node[n].current /\ d.result = hash.result
        BY <1>a, <1>c, <4>2, DeliveryFields
      <4> QED
        BY <4>1, <4>2, <4>3, Zenon
    <3>3. CASE reply \notin {"STARTED", "COMPLETED"}
      <4>1. PICK pc \in {"deadletter", "retry"} :
              node' = [node EXCEPT ![n] = Delivery(pc, node[n].copy, node[n].current, 0, None)]
        BY <1>1, <3>3, Zenon DEF Claim
      <4> DEFINE d == Delivery(pc, node[n].copy, node[n].current, 0, None)
      <4>2. d \in DeliveryType /\ d.pc = pc /\ d.copy = node[n].copy /\ d.current = node[n].current
        BY <1>a, <1>c, DeliveryFields
      <4> QED
        BY <4>1, <4>2, Zenon
    <3> QED
      BY <3>1, <3>2, <3>3
  <2> QED
    BY <1>b, <1>e, <2>1, <2>2, Advance, Zenon
<1>2. CASE ClaimFails(n)
  <2>1. PICK d \in DeliveryType : /\ node' = [node EXCEPT ![n] = d] /\ d.pc = "retry"
                                  /\ d.copy = node[n].copy /\ d.current = node[n].current
    BY <1>0, <1>2, <1>c, GotoDelivery DEF ClaimFails
  <2>2. HashOK(hash')
    BY <1>0, <1>2, <1>e DEF ClaimFails
  <2>3. node[n].pc = "claim" /\ faults' \in 0 .. MaxFaults
        /\ UNCHANGED <<row, sends, copy, deadLettered, receipt>>
    BY <1>0, <1>2, FaultCounts DEF ClaimFails
  <2> QED
    BY <1>b, <2>1, <2>2, <2>3, Advance, Zenon
<1>3. CASE \E r \in Results : Judge(n, r)
  <2>1. PICK r \in Results : Judge(n, r)
    BY <1>3
  <2> DEFINE d == Delivery("judged", node[n].copy, node[n].current, node[n].token, r)
  <2>2. /\ node' = [node EXCEPT ![n] = d] /\ node[n].pc = "judging"
        /\ UNCHANGED <<row, sends, copy, deadLettered, hash, receipt, faults>>
    BY <2>1 DEF Judge
  <2>3. /\ d \in DeliveryType /\ d.pc = "judged" /\ d.copy = node[n].copy
        /\ d.current = node[n].current /\ d.result = r /\ r # None
    BY <1>a, <1>c, DeliveryFields, NoneIsNoValue
  <2> HIDE DEF d
  <2> QED
    BY <1>0, <1>b, <2>2, <2>3, Advance, Zenon
<1>4. CASE Complete(n) \/ CompleteFails(n)
  <2>1. node[n].pc = "judged" /\ node[n].result \in Results
    BY <1>4, <1>a, Zenon DEF Complete, CompleteFails, PipelineInv, ResultPart
  <2>2. HashOK(CompleteEffect(hash, TheBody, node[n].token, node[n].result))
    BY <1>0, <1>a, <1>d, <2>1, ScriptsKeepHash
  <2>3. HashOK(hash') /\ faults' \in 0 .. MaxFaults
        /\ UNCHANGED <<row, sends, copy, deadLettered, receipt>>
    BY <1>0, <1>4, <1>b, <2>2, FaultCounts, ZenonT(30) DEF Complete, CompleteFails
  <2>4. \E pc \in {"report", "deadletter", "retry"} : Goto(n, pc)
    BY <1>4 DEF Complete, CompleteFails
  <2>5. PICK d \in DeliveryType :
          /\ node' = [node EXCEPT ![n] = d] /\ d.pc \in {"report", "deadletter", "retry"}
          /\ d.copy = node[n].copy /\ d.current = node[n].current /\ d.result = node[n].result
    BY <1>0, <1>c, <2>4, GotoDelivery
  <2> QED
    BY <1>b, <2>1, <2>3, <2>5, Advance, NoneIsNoValue, ZenonT(30)
<1>5. CASE Report(n)
  <2>1. node[n].pc = "report" /\ node[n].result \in Results
    BY <1>5, <1>a DEF Report, PipelineInv, ResultPart
  <2>2. receipt' \in Results /\ UNCHANGED <<row, sends, copy, deadLettered, hash, faults>>
    BY <1>5, <1>b, <2>1 DEF Report
  <2>3. \E pc \in {"ack", "deadletter"} : Goto(n, pc)
    BY <1>5 DEF Report
  <2>4. PICK d \in DeliveryType :
          /\ node' = [node EXCEPT ![n] = d] /\ d.pc \in {"ack", "deadletter"}
          /\ d.copy = node[n].copy /\ d.current = node[n].current
    BY <1>0, <1>c, <2>3, GotoDelivery
  <2>5. receipt' # None
    BY <2>2, NoneIsNoValue
  <2> QED
    BY <1>0, <1>b, <2>1, <2>2, <2>4, <2>5, Advance, Zenon
<1>6. CASE ReportFails(n) \/ OutboxUnreadable(n)
  <2>1. node[n].pc = "report" /\ node[n].result \in Results
    BY <1>6, <1>a DEF ReportFails, OutboxUnreadable, PipelineInv, ResultPart
  <2>2. /\ receipt' \in Results \cup {None} /\ (receipt # None => receipt' = receipt)
        /\ UNCHANGED <<row, sends, copy, deadLettered, hash>> /\ faults' \in 0 .. MaxFaults
    BY <1>0, <1>6, <1>b, <2>1, FaultCounts DEF ReportFails, OutboxUnreadable
  <2>3. \E pc \in {"retry", "deadletter"} : Goto(n, pc)
    BY <1>6 DEF ReportFails, OutboxUnreadable
  <2>4. PICK d \in DeliveryType :
          /\ node' = [node EXCEPT ![n] = d] /\ d.pc \in {"retry", "deadletter"}
          /\ d.copy = node[n].copy /\ d.current = node[n].current
    BY <1>0, <1>c, <2>3, GotoDelivery
  <2> QED
    BY <1>0, <1>b, <2>1, <2>2, <2>4, Advance, ZenonT(30)
<1>7. CASE DeadLetter(n)
  <2>1. /\ node[n].pc = "deadletter" /\ deadLettered' = TRUE
        /\ UNCHANGED <<row, sends, copy, hash, receipt, faults>>
    BY <1>7 DEF DeadLetter
  <2>2. PICK d \in DeliveryType :
          /\ node' = [node EXCEPT ![n] = d] /\ d.pc = "ack"
          /\ d.copy = node[n].copy /\ d.current = node[n].current
    <3>1. Goto(n, "ack") /\ "ack" \in PCs
      BY <1>7, <1>c DEF DeadLetter
    <3> QED
      BY <1>0, <3>1, GotoDelivery
  <2> QED
    BY <1>0, <1>b, <2>1, <2>2, Advance, Zenon
<1> QED
  BY <1>1, <1>2, <1>3, <1>4, <1>5, <1>6, <1>7

\* A delivery that ends, or whose channel dies.
LEMMA DeliveryEnds ==
  ASSUME PipelineInv, NEW n \in Nodes,
         ForwardFails(n) \/ StaleDelivery(n) \/ ChannelLost(n) \/ Crash(n)
  PROVE  PipelineInv'
<1>0. TypeOK
  BY DEF PipelineInv
<1>1. Idle \in DeliveryType /\ ~Idle.current /\ Idle.pc = "idle"
  BY IdleFields
<1>2. CASE ForwardFails(n) \/ Crash(n)
  <2>1. /\ node' = [node EXCEPT ![n] = Idle] /\ faults' \in 0 .. MaxFaults
        /\ UNCHANGED <<row, sends, deadLettered, hash, receipt>>
    BY <1>0, <1>2, FaultCounts DEF ForwardFails, Crash
  <2>2. \/ /\ node[n].current
           /\ copy' = [copy EXCEPT ![node[n].copy] = At("ready", @.retries)]
        \/ ~node[n].current /\ copy' = copy
    BY <1>2 DEF ForwardFails, Crash
  <2> QED
    BY <1>1, <2>1, <2>2, Requeue, Zenon
<1>3. CASE StaleDelivery(n)
  <2>1. faults' \in 0 .. MaxFaults
    BY <1>0, <1>3 DEF StaleDelivery, TypeOK
  <2> QED
    BY <1>1, <1>3, <2>1, Requeue, Zenon DEF StaleDelivery
<1>4. CASE ChannelLost(n)
  <2> DEFINE d == Delivery(node[n].pc, None, FALSE, node[n].token, node[n].result)
  <2>1. /\ node[n].pc \in PCs /\ node[n].token \in Nat /\ node[n].result \in Results \cup {None}
    BY <1>0, Typed
  <2>2. /\ d \in DeliveryType /\ d.pc = node[n].pc /\ d.current = FALSE /\ d.result = node[n].result
    BY <2>1 DEF Delivery, DeliveryType
  <2>3. /\ node' = [node EXCEPT ![n] = d] /\ faults' \in 0 .. MaxFaults /\ node[n].current
        /\ copy' = [copy EXCEPT ![node[n].copy] = At("ready", @.retries)]
        /\ UNCHANGED <<row, sends, deadLettered, hash, receipt>>
    BY <1>0, <1>4, FaultCounts DEF ChannelLost
  <2>4. d.pc \in {"judged", "report"} => d.result # None
    BY <2>2, Zenon DEF PipelineInv, ResultPart
  <2> HIDE DEF d
  <2> QED
    BY <2>2, <2>3, <2>4, Requeue, ZenonT(30)
<1> QED
  BY <1>2, <1>3, <1>4

\* Retry forwards a copy before the delivery is acknowledged.
LEMMA RetryKeeps ==
  ASSUME PipelineInv, NEW n \in Nodes, Retry(n)
  PROVE  PipelineInv'
<1>0. TypeOK
  BY DEF PipelineInv
<1>1. PICK k \in Copies :
        /\ copy[k].at = "gone"
        /\ copy' = [copy EXCEPT ![k] = At("delayed", NextRetry(copy[node[n].copy].retries))]
  BY ZenonT(30) DEF Retry
<1>2. /\ node[n].pc = "retry" /\ node[n].current
      /\ UNCHANGED <<row, sends, deadLettered, hash, receipt, faults>>
  BY DEF Retry
<1>3. node[n].copy \in Copies
  BY <1>2 DEF PipelineInv, HoldPart
<1>4. /\ node \in [Nodes -> DeliveryType] /\ copy \in [Copies -> CopyType]
      /\ copy[node[n].copy].retries \in RetryCounts
  BY <1>0, <1>3, Typed
<1> DEFINE r == NextRetry(copy[node[n].copy].retries)
<1>5. r \in RetryCounts
  BY <1>4, PipelineConstants DEF NextRetry, RetryCounts
<1>6. At("delayed", r) \in CopyType /\ At("delayed", r).at = "delayed"
  <2>1. "delayed" \in Where
    BY DEF Where
  <2> QED
    BY <1>5, <2>1, AtFields
<1>7. /\ copy' \in [Copies -> CopyType] /\ copy'[k] = At("delayed", r)
      /\ \A j \in Copies : j # k => copy'[j] = copy[j]
  BY <1>1, <1>4, <1>6, OneCopy
<1>8. "ack" \in PCs
  BY DEF PCs
<1>9. PICK d \in DeliveryType : /\ node' = [node EXCEPT ![n] = d] /\ d.pc = "ack"
                                /\ d.copy = node[n].copy /\ d.current = node[n].current
  BY <1>0, <1>8, GotoDelivery, ZenonT(30) DEF Retry
<1>10. /\ node' \in [Nodes -> DeliveryType] /\ node'[n] = d
       /\ \A m \in Nodes : m # n => node'[m] = node[m]
  BY <1>4, <1>9, OneDelivery
<1>11. TypeOK'
  BY <1>0, <1>2, <1>7, <1>10 DEF TypeOK, CopyType, Where, DeliveryType, PCs
<1>12. \A m \in Nodes : node'[m].current = node[m].current /\ node'[m].copy = node[m].copy
  BY <1>9, <1>10
<1>13. \A m \in Nodes : node[m].current => node[m].copy # k
  BY <1>1 DEF PipelineInv, HoldPart
<1>14. HoldPart'
  <2>1. \A m \in Nodes : node'[m].current =>
          node'[m].pc # "idle" /\ node'[m].copy \in Copies /\ copy'[node'[m].copy].at = "held"
    BY <1>7, <1>9, <1>10, <1>12, <1>13 DEF PipelineInv, HoldPart
  <2> QED
    BY <2>1, <1>12 DEF PipelineInv, HoldPart
<1>15. ResultPart'
  BY <1>2, <1>9, <1>10 DEF PipelineInv, ResultPart
<1>16. Kept(k)'
  BY <1>6, <1>7, <1>12, <1>13 DEF Kept
<1> QED
  BY <1>11, <1>14, <1>15, <1>16 DEF PipelineInv, KeptPart

\* Ack removes a copy that was not kept.
LEMMA AckKeeps ==
  ASSUME PipelineInv, NEW n \in Nodes, Ack(n)
  PROVE  PipelineInv'
<1>0. TypeOK
  BY DEF PipelineInv
<1>1. /\ node[n].pc = "ack" /\ node[n].current
      /\ copy' = [copy EXCEPT ![node[n].copy] = Gone]
      /\ node' = [node EXCEPT ![n] = Idle]
      /\ UNCHANGED <<row, sends, deadLettered, hash, receipt, faults>>
  BY DEF Ack
<1> DEFINE c == node[n].copy
<1>2. c \in Copies
  BY <1>1 DEF PipelineInv, HoldPart
<1>3. node \in [Nodes -> DeliveryType] /\ copy \in [Copies -> CopyType]
  BY <1>0, Typed
<1>4. Gone \in CopyType
  BY PipelineConstants DEF Gone, At, CopyType, Where, RetryCounts
<1>5. Idle \in DeliveryType /\ ~Idle.current /\ Idle.pc = "idle"
  BY IdleFields
<1>6. /\ copy' \in [Copies -> CopyType]
      /\ \A j \in Copies : j # c => copy'[j] = copy[j]
  BY <1>1, <1>2, <1>3, <1>4, OneCopy
<1>7. /\ node' \in [Nodes -> DeliveryType] /\ node'[n] = Idle
      /\ \A m \in Nodes : m # n => node'[m] = node[m]
  BY <1>1, <1>3, <1>5, OneDelivery
<1>8. TypeOK'
  BY <1>0, <1>1, <1>6, <1>7 DEF TypeOK, CopyType, Where, DeliveryType, PCs
<1>9. \A m \in Nodes : node'[m].current => m # n /\ node'[m] = node[m] /\ node[m].copy # c
  BY <1>1, <1>5, <1>7 DEF PipelineInv, HoldPart
<1>10. HoldPart'
  <2>1. \A m \in Nodes : node'[m].current => copy'[node[m].copy] = copy[node[m].copy]
    BY <1>6, <1>9 DEF PipelineInv, HoldPart
  <2> QED
    BY <1>9, <2>1 DEF PipelineInv, HoldPart
<1>11. ResultPart'
  BY <1>1, <1>5, <1>7 DEF PipelineInv, ResultPart
<1>12. KeptPart'
  <2> SUFFICES ASSUME row = "PUBLISHED", ~Settled
               PROVE  \E k \in Copies : Kept(k)'
    BY <1>1 DEF KeptPart, Settled
  <2>1. PICK k \in Copies : Kept(k)
    BY DEF PipelineInv, KeptPart
  <2>2. Kept(k)'
    BY <1>1, <1>6, <1>9, <2>1 DEF Kept
  <2> QED
    BY <2>2
<1> QED
  BY <1>8, <1>10, <1>11, <1>12 DEF PipelineInv

\* The steps of the publisher and of the broker.
LEMMA BrokerStep ==
  ASSUME PipelineInv,
         \/ Create \/ Send \/ GiveUp
         \/ \E n \in Nodes, k \in Copies : Deliver(n, k)
         \/ \E k \in Copies : DelayOver(k)
  PROVE  PipelineInv'
<1>0. TypeOK
  BY DEF PipelineInv
<1>a. /\ node \in [Nodes -> DeliveryType] /\ copy \in [Copies -> CopyType]
      /\ \A k \in Copies : copy[k].retries \in RetryCounts
  BY <1>0, Typed
<1>b. "ready" \in Where /\ "held" \in Where /\ 0 \in RetryCounts
  BY PipelineConstants DEF Where, RetryCounts
<1>1. CASE Create \/ GiveUp
  <2>1. /\ row' \in {"open", "DEAD"}
        /\ UNCHANGED <<sends, copy, deadLettered, node, hash, receipt, faults>>
    BY <1>1 DEF Create, GiveUp
  <2> QED
    BY <2>1 DEF PipelineInv, TypeOK, HoldPart, ResultPart, KeptPart
<1>2. CASE Send
  <2>1. PICK k \in Copies : copy[k].at = "gone" /\ copy' = [copy EXCEPT ![k] = At("ready", 0)]
    BY <1>2, ZenonT(30) DEF Send
  <2>2. /\ row' \in {"open", "PUBLISHED"} /\ sends < MaxSends /\ sends' = sends + 1
        /\ UNCHANGED <<deadLettered, node, hash, receipt, faults>>
    BY <1>2 DEF Send
  <2>3. At("ready", 0) \in CopyType /\ At("ready", 0).at = "ready"
    BY <1>b, AtFields
  <2>4. /\ copy' \in [Copies -> CopyType] /\ copy'[k] = At("ready", 0)
        /\ \A j \in Copies : j # k => copy'[j] = copy[j]
    BY <1>a, <2>1, <2>3, OneCopy
  <2>5. sends' \in 0 .. MaxSends
    BY <1>0, <2>2, PipelineConstants DEF TypeOK
  <2>6. TypeOK'
    BY <1>0, <2>2, <2>4, <2>5 DEF TypeOK, CopyType, Where
  <2>7. \A m \in Nodes : node[m].current => node[m].copy # k
    BY <2>1 DEF PipelineInv, HoldPart
  <2>8. HoldPart' /\ ResultPart'
    BY <2>2, <2>4, <2>7 DEF PipelineInv, HoldPart, ResultPart
  <2>9. Kept(k)'
    BY <2>2, <2>3, <2>4, <2>7 DEF Kept
  <2> QED
    BY <2>6, <2>8, <2>9 DEF PipelineInv, KeptPart
<1>3. ASSUME NEW n \in Nodes, NEW k \in Copies, Deliver(n, k) PROVE PipelineInv'
  <2> DEFINE d == Delivery("claim", k, TRUE, 0, None)
             c == At("held", copy[k].retries)
  <2>1. /\ node[n].pc = "idle" /\ copy[k].at = "ready"
        /\ copy' = [copy EXCEPT ![k] = c] /\ node' = [node EXCEPT ![n] = d]
        /\ UNCHANGED <<row, sends, deadLettered, hash, receipt, faults>>
    BY <1>3 DEF Deliver
  <2>2. c \in CopyType /\ c.at = "held"
    BY <1>a, <1>b, AtFields
  <2>3. d \in DeliveryType /\ d.pc = "claim" /\ d.current = TRUE /\ d.copy = k
    <3>1. "claim" \in PCs /\ None \in Results \cup {None} /\ 0 \in Nat /\ TRUE \in BOOLEAN
      BY DEF PCs
    <3> QED
      BY <3>1 DEF Delivery, DeliveryType
  <2> HIDE DEF c, d
  <2>4. /\ copy' \in [Copies -> CopyType] /\ copy'[k] = c
        /\ \A j \in Copies : j # k => copy'[j] = copy[j]
    BY <1>a, <2>1, <2>2, OneCopy
  <2>5. /\ node' \in [Nodes -> DeliveryType] /\ node'[n] = d
        /\ \A m \in Nodes : m # n => node'[m] = node[m]
    BY <1>a, <2>1, <2>3, OneDelivery
  <2>6. TypeOK'
    BY <1>0, <2>1, <2>4, <2>5 DEF TypeOK, CopyType, Where, DeliveryType, PCs
  <2>7. \A m \in Nodes : node[m].current => node[m].copy # k
    BY <2>1 DEF PipelineInv, HoldPart
  <2>8. HoldPart'
    <3>1. \A m \in Nodes : node'[m].current =>
            node'[m].pc # "idle" /\ node'[m].copy \in Copies /\ copy'[node'[m].copy].at = "held"
      BY <2>2, <2>3, <2>4, <2>5, <2>7 DEF PipelineInv, HoldPart
    <3> QED
      BY <2>3, <2>5, <2>7, <3>1 DEF PipelineInv, HoldPart
  <2>9. ResultPart'
    BY <2>1, <2>3, <2>5 DEF PipelineInv, ResultPart
  <2>10. KeptPart'
    <3> SUFFICES ASSUME row = "PUBLISHED", ~Settled
                 PROVE  \E j \in Copies : Kept(j)'
      BY <2>1 DEF KeptPart, Settled
    <3>1. PICK j \in Copies : Kept(j)
      BY DEF PipelineInv, KeptPart
    <3>2. Kept(j)'
      BY <2>2, <2>3, <2>4, <2>5, <3>1 DEF Kept
    <3> QED
      BY <3>2
  <2> QED
    BY <2>6, <2>8, <2>9, <2>10 DEF PipelineInv
<1>4. ASSUME NEW k \in Copies, DelayOver(k) PROVE PipelineInv'
  <2> DEFINE c == At("ready", copy[k].retries)
  <2>1. /\ copy[k].at = "delayed" /\ copy' = [copy EXCEPT ![k] = c]
        /\ UNCHANGED <<row, sends, deadLettered, node, hash, receipt, faults>>
    BY <1>4 DEF DelayOver
  <2>2. c \in CopyType /\ c.at = "ready"
    BY <1>a, <1>b, AtFields
  <2> HIDE DEF c
  <2>3. /\ copy' \in [Copies -> CopyType] /\ copy'[k] = c
        /\ \A j \in Copies : j # k => copy'[j] = copy[j]
    BY <1>a, <2>1, <2>2, OneCopy
  <2>4. TypeOK'
    BY <1>0, <2>1, <2>3 DEF TypeOK, CopyType, Where
  <2>5. HoldPart' /\ ResultPart'
    BY <2>1, <2>3, Zenon DEF PipelineInv, HoldPart, ResultPart
  <2>6. KeptPart'
    <3> SUFFICES ASSUME row = "PUBLISHED", ~Settled
                 PROVE  \E j \in Copies : Kept(j)'
      BY <2>1 DEF KeptPart, Settled
    <3>1. PICK j \in Copies : Kept(j)
      BY DEF PipelineInv, KeptPart
    <3>2. Kept(j)'
      BY <2>1, <2>2, <2>3, <3>1 DEF Kept
    <3> QED
      BY <3>2
  <2> QED
    BY <2>4, <2>5, <2>6 DEF PipelineInv
<1> QED
  BY <1>1, <1>2, <1>3, <1>4

\* The lease and the key run out.
LEMMA TimeStep ==
  ASSUME PipelineInv, LeaseExpires \/ KeyExpires
  PROVE  PipelineInv'
<1>0. TypeOK /\ HashOK(hash)
  BY DEF PipelineInv, HashOK, ResultPart, TypeOK
<1>1. HashOK(hash')
  <2>1. 0 \in Nat /\ TheBody \in Bodies
    BY TheBodyType
  <2>2. HashOK(LeaseOver(hash))
    BY <1>0, <2>1, ScriptsKeepHash
  <2> QED
    BY <2>2, NoHashOK DEF LeaseExpires, KeyExpires
<1>2. faults' \in 0 .. MaxFaults /\ UNCHANGED <<row, sends, copy, deadLettered, node, receipt>>
  <2>1. faults \in 0 .. MaxFaults
    BY <1>0 DEF TypeOK
  <2> QED
    BY <1>0, <2>1, FaultCounts DEF LeaseExpires, KeyExpires
<1>3. TypeOK'
  BY <1>0, <1>1, <1>2 DEF TypeOK, HashOK
<1>4. HoldPart' /\ ResultPart'
  BY <1>1, <1>2 DEF PipelineInv, HoldPart, ResultPart, HashOK
<1>5. KeptPart'
  BY <1>2 DEF PipelineInv, KeptPart, Kept, Settled
<1> QED
  BY <1>3, <1>4, <1>5 DEF PipelineInv

\* Every step of the pipeline keeps the invariant.
LEMMA PipelineStep == PipelineInv /\ [Next]_vars => PipelineInv'
<1> SUFFICES ASSUME PipelineInv, [Next]_vars PROVE PipelineInv'
  OBVIOUS
<1>1. CASE Create \/ Send \/ GiveUp \/ \E k \in Copies : DelayOver(k)
  BY <1>1, BrokerStep
<1>2. ASSUME NEW n \in Nodes, Work(n) PROVE PipelineInv'
  BY <1>2, NodeStep, RetryKeeps, AckKeeps, DeliveryEnds, BrokerStep DEF Work
<1>3. ASSUME NEW n \in Nodes, Fails(n) PROVE PipelineInv'
  BY <1>3, NodeStep, DeliveryEnds DEF Fails
<1>4. CASE LeaseExpires \/ KeyExpires
  BY <1>4, TimeStep
<1>5. CASE UNCHANGED vars
  <2>1. TypeOK'
    BY <1>5 DEF vars, PipelineInv, TypeOK
  <2>2. HoldPart' /\ ResultPart'
    BY <1>5 DEF vars, PipelineInv, HoldPart, ResultPart
  <2>3. KeptPart'
    BY <1>5 DEF vars, PipelineInv, KeptPart, Kept, Settled
  <2> QED
    BY <2>1, <2>2, <2>3 DEF PipelineInv
<1> QED
  BY <1>1, <1>2, <1>3, <1>4, <1>5 DEF Next

\* The invariant of the delivery pipeline holds in every behaviour: a delivery
\* on a live channel holds a copy of its own, and unless the submission is settled
\* some copy of a published message is not about to be acknowledged.
THEOREM PipelineInvariant == Spec => []PipelineInv
<1>1. Init => PipelineInv
  <2> SUFFICES ASSUME Init PROVE PipelineInv
    OBVIOUS
  <2>1. Idle \in DeliveryType /\ ~Idle.current /\ Idle.pc = "idle"
    BY IdleFields
  <2>2. Gone \in CopyType
    BY PipelineConstants DEF Gone, At, CopyType, Where, RetryCounts
  <2>3. node \in [Nodes -> DeliveryType] /\ copy \in [Copies -> CopyType]
    BY <2>1, <2>2 DEF Init
  <2>4. hash \in HashType /\ hash.state = "none"
    BY NoHashOK DEF Init, HashOK, NoHash, Hash
  <2>5. TypeOK
    <3>1. row = "none" /\ deadLettered = FALSE /\ receipt = None /\ sends = 0 /\ faults = 0
      BY DEF Init
    <3>2. 0 \in 0 .. MaxSends /\ 0 \in 0 .. MaxFaults
      BY PipelineConstants
    <3> QED
      BY <2>3, <2>4, <3>1, <3>2, TypesFrom, Zenon
  <2>6. HoldPart /\ ResultPart /\ KeptPart
    BY <2>1, <2>4 DEF Init, HoldPart, ResultPart, KeptPart
  <2> QED
    BY <2>5, <2>6 DEF PipelineInv
<1> QED
  BY <1>1, PipelineStep, PTL DEF Spec

\* No submission is lost between the broker and the receipt: for any number of
\* judge nodes, sends, crashes, expired leases and lost keys, a published message
\* keeps a copy at the broker until there is a receipt or a dead letter
\* (mq_consumer.cpp, judge_service.cpp).
THEOREM PipelineNothingSilentlyLost == Spec => []NothingSilentlyLost
<1>1. PipelineInv => NothingSilentlyLost
  BY DEF PipelineInv, TypeOK, KeptPart, Kept, Settled, NothingSilentlyLost
<1> QED
  BY <1>1, PipelineInvariant, PTL
=============================================================================
