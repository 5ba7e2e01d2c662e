---------------------------- MODULE ServerProofs ----------------------------
(***************************************************************************)
(* What the server processes keep and send, each for any number of threads, *)
(* callbacks and failures: a logout holds, a confirmed publish was routed, *)
(* the acknowledged results of a polled task agree and stay visible until  *)
(* they expire, and oj_admin's shutdown keeps every audit record           *)
(* (oj_session.hpp, mq_client.hpp, model_submission.hpp, oj_admin.cpp).    *)
(***************************************************************************)
EXTENDS Sessions, MQProducer, CustomTests, AdminProcess, TLAPS

\* A leaf that names no prover goes to SMT, to Zenon, and to SMT with more time.
USE SMTT(10), Zenon, SMTT(20)

\* Sessions in Redis (Sessions).

PCs == {"idle", "create", "renew", "expire"}

\* No operation in progress began after the logout.
CallPart == call \in [Managers -> [pc : PCs, after : {FALSE}]]

\* Only the operation that makes the session can write all five fields, and no
\* operation that reads or destroys a session overlaps with it.
HashPart ==
  /\ destroyed \in BOOLEAN
  /\ destroyed => created /\ hash # "full"
  /\ created => \A p \in Managers : call[p].pc # "create"
  /\ \A p, q \in Managers : call[p].pc = "create" /\ call[q].pc = "create" => p = q

SessionsInv == CallPart /\ HashPart

\* An operation moves on or ends.
LEMMA CallMoves ==
  ASSUME CallPart, NEW p \in Managers, NEW pc \in PCs,
         call' = [call EXCEPT ![p] = Call(pc, FALSE)]
  PROVE  /\ CallPart'
         /\ \A q \in Managers : call'[q].pc = IF q = p THEN pc ELSE call[q].pc
<1>1. /\ Call(pc, FALSE) \in [pc : PCs, after : {FALSE}]
      /\ Call(pc, FALSE).pc = pc
  BY DEF Call
<1> QED
  BY <1>1, Zenon DEF CallPart

\* Goto and Done in terms of it.
LEMMA GotoMoves ==
  ASSUME CallPart, NEW p \in Managers, NEW pc \in PCs
  PROVE  /\ Goto(p, pc) => call' = [call EXCEPT ![p] = Call(pc, FALSE)]
         /\ Done(p) => call' = [call EXCEPT ![p] = Call("idle", FALSE)]
<1>1. call[p].after = FALSE
  BY Zenon DEF CallPart
<1> QED
  BY <1>1, Zenon DEF Goto, Done, NoCall

\* Every operation keeps the invariant.
LEMMA SessionsStep == SessionsInv /\ [SessionsNext]_sessionVars => SessionsInv'
<1> SUFFICES ASSUME SessionsInv, [SessionsNext]_sessionVars PROVE SessionsInv'
  OBVIOUS
<1> USE DEF SessionsInv
<1>0. "idle" \in PCs /\ "create" \in PCs /\ "renew" \in PCs /\ "expire" \in PCs
  BY DEF PCs
<1>1. ASSUME NEW p \in Managers, CreateSet(p) PROVE SessionsInv'
  <2>1. CASE hash' = "full" /\ Goto(p, "create") /\ UNCHANGED <<local, created>>
    <3>1. CallPart' /\ \A q \in Managers : call'[q].pc = IF q = p THEN "create" ELSE call[q].pc
      BY <1>0, <2>1, GotoMoves, CallMoves, ZenonT(30)
    <3>2. \A q \in Managers : call[q].pc = "idle"
      BY <1>1 DEF CreateSet, NoCall, Call
    <3> QED
      BY <1>1, <2>1, <3>1, <3>2 DEF CreateSet, HashPart
  <2>2. CASE created' = TRUE /\ UNCHANGED <<hash, call>>
    <3>1. \A q \in Managers : call[q].pc = "idle"
      BY <1>1 DEF CreateSet, NoCall, Call
    <3> QED
      BY <1>1, <2>2, <3>1, ZenonT(30) DEF CreateSet, CallPart, HashPart
  <2> QED
    BY <1>1, <2>1, <2>2, Zenon DEF CreateSet
<1>2. ASSUME NEW p \in Managers, CreateExpire(p) PROVE SessionsInv'
  <2>1. CallPart' /\ \A q \in Managers : call'[q].pc = IF q = p THEN "idle" ELSE call[q].pc
    BY <1>0, <1>2, GotoMoves, CallMoves, Zenon DEF CreateExpire
  <2> QED
    BY <1>2, <2>1 DEF CreateExpire, HashPart
<1>3. ASSUME NEW p \in Managers, ReadSession(p) PROVE SessionsInv'
  <2>1. CASE ValidHash /\ call' = [call EXCEPT ![p] = Call("renew", destroyed)]
    <3>1. ~destroyed
      BY <2>1 DEF ValidHash, HashPart
    <3>2. destroyed = FALSE
      BY <1>3, <3>1 DEF ReadSession, HashPart
    <3>3. CallPart' /\ \A q \in Managers : call'[q].pc = IF q = p THEN "renew" ELSE call[q].pc
      BY <1>0, <2>1, <3>2, CallMoves, Zenon
    <3> QED
      BY <1>3, <2>1, <3>3 DEF ReadSession, HashPart
  <2>2. CASE UNCHANGED call
    BY <1>3, <2>2, ZenonT(30) DEF ReadSession, CallPart, HashPart
  <2> QED
    BY <1>3, <2>1, <2>2 DEF ReadSession
<1>4. ASSUME NEW p \in Managers, RenewSet(p) PROVE SessionsInv'
  <2>1. PICK pc \in {"idle", "expire"} :
          CallPart' /\ \A q \in Managers : call'[q].pc = IF q = p THEN pc ELSE call[q].pc
    BY <1>0, <1>4, GotoMoves, CallMoves, ZenonT(30) DEF RenewSet
  <2> QED
    BY <1>4, <2>1 DEF RenewSet, HashPart
<1>5. ASSUME NEW p \in Managers, RenewExpire(p) PROVE SessionsInv'
  <2>1. CallPart' /\ \A q \in Managers : call'[q].pc = IF q = p THEN "idle" ELSE call[q].pc
    BY <1>0, <1>5, GotoMoves, CallMoves, Zenon DEF RenewExpire
  <2> QED
    BY <1>5, <2>1 DEF RenewExpire, HashPart
<1>6. ASSUME NEW p \in Managers, DestroySession(p) PROVE SessionsInv'
  BY <1>6, Zenon DEF DestroySession, Reported, CallPart, HashPart
<1>7. CASE SessionExpires
  BY <1>7, Zenon DEF SessionExpires, CallPart, HashPart
<1>8. CASE UNCHANGED sessionVars
  BY <1>8, Zenon DEF sessionVars, CallPart, HashPart
<1> QED
  BY <1>1, <1>2, <1>3, <1>4, <1>5, <1>6, <1>7, <1>8 DEF SessionsNext

\* The invariant of the sessions, for any number of processes.
THEOREM SessionsInvariant == SessionsSpec => []SessionsInv
<1>1. SessionsInit => SessionsInv
  <2>1. NoCall \in [pc : PCs, after : {FALSE}] /\ NoCall.pc = "idle"
    BY DEF NoCall, Call, PCs
  <2> QED
    BY <2>1, ZenonT(30) DEF SessionsInit, SessionsInv, CallPart, HashPart
<1> QED
  BY <1>1, SessionsStep, PTL DEF SessionsSpec

\* A session whose logout has succeeded is found in Redis by no later GetSession,
\* whichever renewals of other processes were under way.
THEOREM SessionsLogoutSticks == SessionsSpec => []LogoutSticks
<1>1. SessionsInv => LogoutSticks
  BY Zenon DEF SessionsInv, CallPart, LogoutSticks
<1> QED
  BY <1>1, SessionsInvariant, PTL

\* DestroySession returns true only when no complete hash is left or comes back.
THEOREM SessionsDestroyedIsGone == SessionsSpec => []DestroyedIsGone
<1>1. SessionsInv => DestroyedIsGone
  BY DEF SessionsInv, HashPart, DestroyedIsGone
<1> QED
  BY <1>1, SessionsInvariant, PTL

-----------------------------------------------------------------------------
\* The producer with publisher confirms (MQProducer).

\* The types of the publishes and of what the broker sends about them.
PublishStates == {"new", "posted", "sent", "taken", "true", "false", "lost"}
Events == [kind : {"return", "ack", "nack"}, publish : Publishes]

ProducerTypes ==
  /\ publish \in [Publishes -> PublishStates]
  /\ wire \in Seq(Events)
  /\ link \in BOOLEAN /\ returned \in BOOLEAN /\ overlap \in BOOLEAN

\* Without a connection nothing is unanswered.
LinkPart == ~link => Unanswered = {} /\ wire = <<>>

\* As long as publishes do not overlap, everything the broker has sent is about
\* the one that is unanswered: a return comes first and a confirm last.
WirePart ==
  /\ \A j, k \in Unanswered : j = k
  /\ \A i \in 1 .. Len(wire) : publish[wire[i].publish] = "taken"
  /\ \A i \in 1 .. Len(wire) : wire[i].kind # "return" => i = Len(wire)

\* A publish that no queue took has its return ahead of its ack, or in _returned.
ReturnPart ==
  \A k \in Publishes : publish[k] = "taken" /\ routed = {} =>
    returned \/ (wire # <<>> /\ wire[1].kind = "return")

\* The inductive invariant.
ProducerInv ==
  /\ ProducerTypes /\ LinkPart
  /\ ~overlap => WirePart /\ ReturnPart /\ ConfirmedWasRouted

\* One publish moves on.
LEMMA PublishMoves ==
  ASSUME ProducerTypes, NEW k \in Publishes, NEW s \in PublishStates,
         publish' = [publish EXCEPT ![k] = s]
  PROVE  /\ publish' \in [Publishes -> PublishStates]
         /\ \A j \in Publishes : publish'[j] = IF j = k THEN s ELSE publish[j]
BY DEF ProducerTypes

\* An event is about the publish it was made for.
LEMMA EventFields ==
  ASSUME NEW k \in Publishes, NEW kind \in {"return", "ack", "nack"}
  PROVE  /\ Event(kind, k) \in Events
         /\ Event(kind, k).kind = kind /\ Event(kind, k).publish = k
BY DEF Event, Events

\* Every step of the producer keeps the invariant.
LEMMA ProducerStep == ProducerInv /\ [ProducerNext]_producerVars => ProducerInv'
<1> SUFFICES ASSUME ProducerInv, [ProducerNext]_producerVars PROVE ProducerInv'
  OBVIOUS
<1>0. ProducerTypes /\ LinkPart
  BY DEF ProducerInv
<1>a. overlap \in BOOLEAN /\ returned \in BOOLEAN /\ link \in BOOLEAN /\ wire \in Seq(Events)
  BY <1>0 DEF ProducerTypes
<1>b. \A i \in 1 .. Len(wire) : wire[i].publish \in Publishes
  <2>1. \A i \in 1 .. Len(wire) : wire[i] \in Events
    BY <1>a
  <2> QED
    BY <2>1 DEF Events
<1>1. ASSUME NEW k \in Publishes, PublishConfirmed(k) PROVE ProducerInv'
  <2>1. PICK s \in {"posted", "false"} : publish' = [publish EXCEPT ![k] = s]
    BY <1>1, Zenon DEF PublishConfirmed
  <2>2. s \in PublishStates
    BY <2>1 DEF PublishStates
  <2>3. /\ publish' \in [Publishes -> PublishStates]
        /\ \A j \in Publishes : publish'[j] = IF j = k THEN s ELSE publish[j]
    BY <1>0, <2>1, <2>2, PublishMoves, ZenonT(30)
  <2>4. Unanswered' = Unanswered
    BY <1>1, <2>3 DEF PublishConfirmed, Unanswered
  <2>5. ProducerTypes' /\ LinkPart'
    BY <1>0, <1>1, <2>3, <2>4 DEF PublishConfirmed, ProducerTypes, LinkPart
  <2>6. ASSUME ~overlap' PROVE WirePart' /\ ReturnPart' /\ ConfirmedWasRouted'
    <3>1. WirePart /\ ReturnPart /\ ConfirmedWasRouted /\ ~overlap
      BY <1>1, <2>6 DEF PublishConfirmed, ProducerInv
    <3>2. publish[k] = "new" /\ UNCHANGED <<link, routed, returned, wire, overlap>>
      BY <1>1 DEF PublishConfirmed
    <3>4. WirePart'
      BY <2>3, <2>4, <3>1, <3>2, <1>b DEF WirePart
    <3> QED
      BY <2>3, <3>1, <3>2, <3>4 DEF ReturnPart, ConfirmedWasRouted
  <2> QED
    BY <2>5, <2>6 DEF ProducerInv
<1>2. ASSUME NEW k \in Publishes, RunCommand(k) PROVE ProducerInv'
  <2>1. PICK s \in {"sent", "false"} :
          publish' = [publish EXCEPT ![k] = s] /\ (s = "sent" <=> link)
    BY <1>2, Zenon DEF RunCommand
  <2>2. s \in PublishStates
    BY <2>1 DEF PublishStates
  <2>3. /\ publish' \in [Publishes -> PublishStates]
        /\ \A j \in Publishes : publish'[j] = IF j = k THEN s ELSE publish[j]
    BY <1>0, <2>1, <2>2, PublishMoves, Zenon
  <2>4. publish[k] = "posted" /\ UNCHANGED <<link, routed, returned, wire>>
    BY <1>2 DEF RunCommand
  <2>5. Unanswered' = IF link THEN Unanswered \cup {k} ELSE Unanswered
    BY <2>1, <2>3, <2>4 DEF Unanswered
  <2>6. overlap' \in BOOLEAN /\ (~overlap' => ~overlap /\ (link => Unanswered = {}))
    BY <1>2, <1>a DEF RunCommand
  <2>7. ProducerTypes' /\ LinkPart'
    BY <1>0, <2>3, <2>4, <2>5, <2>6 DEF ProducerTypes, LinkPart
  <2>8. ASSUME ~overlap' PROVE WirePart' /\ ReturnPart' /\ ConfirmedWasRouted'
    <3>1. WirePart /\ ReturnPart /\ ConfirmedWasRouted /\ ~overlap
      BY <2>6, <2>8 DEF ProducerInv
    <3>4. WirePart'
      BY <2>3, <2>4, <2>5, <2>6, <2>8, <3>1, <1>b DEF WirePart
    <3> QED
      BY <2>3, <2>4, <3>1, <3>4 DEF ReturnPart, ConfirmedWasRouted
  <2> QED
    BY <2>7, <2>8 DEF ProducerInv
<1>3. ASSUME NEW k \in Publishes, BrokerTakes(k) PROVE ProducerInv'
  <2>1. publish' = [publish EXCEPT ![k] = "taken"] /\ link /\ publish[k] = "sent"
        /\ UNCHANGED <<link, returned, overlap>>
    BY <1>3 DEF BrokerTakes
  <2>2. "taken" \in PublishStates
    BY DEF PublishStates
  <2>3. /\ publish' \in [Publishes -> PublishStates]
        /\ \A j \in Publishes : publish'[j] = IF j = k THEN "taken" ELSE publish[j]
    BY <1>0, <2>1, <2>2, PublishMoves, ZenonT(30)
  <2>4. Unanswered' = Unanswered /\ k \in Unanswered
    BY <2>1, <2>3 DEF Unanswered
  <2>5. Event("return", k) \in Events /\ Event("return", k).kind = "return"
        /\ Event("return", k).publish = k
    BY EventFields
  <2>6. wire' \in Seq(Events)
    BY <1>3, <1>a, <2>5 DEF BrokerTakes
  <2>7. ProducerTypes' /\ LinkPart'
    BY <1>0, <2>1, <2>3, <2>4, <2>6 DEF ProducerTypes, LinkPart
  <2>8. ASSUME ~overlap' PROVE WirePart' /\ ReturnPart' /\ ConfirmedWasRouted'
    <3>1. WirePart /\ ReturnPart /\ ConfirmedWasRouted
      BY <2>1, <2>8 DEF ProducerInv
    <3>2. wire = <<>>
      <4>1. \A i \in 1 .. Len(wire) : wire[i].publish \in Unanswered
        BY <1>b, <3>1 DEF WirePart, Unanswered
      <4>2. \A i \in 1 .. Len(wire) : FALSE
        BY <4>1, <2>4, <2>1, <3>1 DEF WirePart
      <4> QED
        BY <4>2, <1>a
    <3>3. CASE routed' = routed \cup {k} /\ UNCHANGED wire
      BY <2>3, <2>4, <3>1, <3>2, <3>3 DEF WirePart, ReturnPart, ConfirmedWasRouted
    <3>4. CASE wire' = Append(wire, Event("return", k)) /\ UNCHANGED routed
      <4>1. Len(wire') = 1 /\ wire'[1] = Event("return", k)
        BY <3>2, <3>4
      <4>2. WirePart'
        <5>1. \A i \in 1 .. Len(wire') : i = 1 /\ wire'[i] = Event("return", k)
          BY <4>1
        <5>2. publish'[k] = "taken"
          BY <2>3
        <5>3. \A i, j \in Unanswered' : i = j
          BY <2>4, <3>1 DEF WirePart
        <5> QED
          BY <2>5, <4>1, <5>1, <5>2, <5>3 DEF WirePart
      <4>3. wire' # <<>>
        BY <4>1
      <4> QED
        BY <2>1, <2>3, <2>5, <2>8, <3>1, <3>4, <4>1, <4>2, <4>3 DEF ReturnPart, ConfirmedWasRouted
    <3> QED
      BY <1>3, <3>3, <3>4 DEF BrokerTakes
  <2> QED
    BY <2>7, <2>8 DEF ProducerInv
<1>4. ASSUME NEW k \in Publishes, BrokerConfirms(k) PROVE ProducerInv'
  <2>1. PICK kind \in {"ack", "nack"} : wire' = Append(wire, Event(kind, k))
    BY <1>4 DEF BrokerConfirms
  <2>2. link /\ publish[k] = "taken" /\ UNCHANGED <<link, publish, routed, returned, overlap>>
    BY <1>4 DEF BrokerConfirms
  <2>3. Event(kind, k) \in Events /\ Event(kind, k).kind = kind /\ Event(kind, k).publish = k
    BY EventFields
  <2>4. /\ wire' \in Seq(Events) /\ Len(wire') = Len(wire) + 1 /\ wire'[Len(wire) + 1] = Event(kind, k)
        /\ \A i \in 1 .. Len(wire) : wire'[i] = wire[i]
    BY <1>a, <2>1, <2>3
  <2>5. Unanswered' = Unanswered
    BY <2>2 DEF Unanswered
  <2>7. ProducerTypes' /\ LinkPart'
    BY <1>0, <2>2, <2>4, <2>5 DEF ProducerTypes, LinkPart
  <2>8. ASSUME ~overlap' PROVE WirePart' /\ ReturnPart' /\ ConfirmedWasRouted'
    <3>1. WirePart /\ ReturnPart /\ ConfirmedWasRouted
      BY <2>2, <2>8 DEF ProducerInv
    <3>2. \A i \in 1 .. Len(wire) : wire[i].publish = k
      BY <1>b, <2>2, <3>1 DEF WirePart, Unanswered
    <3>3. \A i \in 1 .. Len(wire) : wire[i].kind = "return"
      BY <1>4, <3>2 DEF BrokerConfirms
    <3>4. WirePart'
      BY <1>a, <2>2, <2>3, <2>4, <2>5, <3>1, <3>3 DEF WirePart
    <3>5. ReturnPart'
      <4>1. wire # <<>> => wire'[1] = wire[1] /\ wire' # <<>>
        BY <1>a, <2>4
      <4> QED
        BY <2>2, <4>1, <3>1 DEF ReturnPart
    <3> QED
      BY <2>2, <3>1, <3>4, <3>5 DEF ConfirmedWasRouted
  <2> QED
    BY <2>7, <2>8 DEF ProducerInv
<1>5. CASE OnEvent
  <2> DEFINE e == Head(wire)
  <2>1. wire # <<>> /\ wire' = Tail(wire) /\ UNCHANGED <<link, routed, overlap>>
    BY <1>5 DEF OnEvent
  <2>2. e \in Events /\ e = wire[1]
    BY <1>a, <2>1
  <2>3. /\ wire' \in Seq(Events) /\ Len(wire') = Len(wire) - 1 /\ Len(wire) \in Nat \ {0}
        /\ \A i \in 1 .. Len(wire') : wire'[i] = wire[i + 1]
    BY <1>a, <2>1
  <2>4. e.publish \in Publishes
    BY <2>2 DEF Events
  <2>5. PICK s \in PublishStates :
          /\ \A j \in Publishes : publish'[j] = IF j = e.publish THEN s ELSE publish[j]
          /\ publish' \in [Publishes -> PublishStates]
          /\ e.kind = "return" => s = publish[e.publish] /\ returned'
          /\ e.kind = "ack" => s = AckMeans
          /\ e.kind = "nack" => s = "false"
          /\ returned' \in BOOLEAN
    <3>1. CASE e.kind = "return"
      <4>1. publish' = publish /\ returned' = TRUE
        BY <1>5, <3>1 DEF OnEvent
      <4>2. publish[e.publish] \in PublishStates
        BY <1>0, <2>4 DEF ProducerTypes
      <4> QED
        BY <1>0, <3>1, <4>1, <4>2 DEF ProducerTypes
    <3>2. CASE e.kind = "ack"
      <4>1. publish' = [publish EXCEPT ![e.publish] = AckMeans] /\ returned' = FALSE
        BY <1>5, <3>2 DEF OnEvent
      <4>2. AckMeans \in PublishStates
        BY DEF AckMeans, PublishStates
      <4> HIDE DEF e
      <4>3. /\ publish' \in [Publishes -> PublishStates]
            /\ \A j \in Publishes : publish'[j] = IF j = e.publish THEN AckMeans ELSE publish[j]
        BY <1>0, <2>4, <4>1, <4>2 DEF ProducerTypes
      <4> QED
        BY <3>2, <4>1, <4>2, <4>3, Zenon
    <3>3. CASE e.kind = "nack"
      <4>1. publish' = [publish EXCEPT ![e.publish] = "false"] /\ returned' = returned
        BY <1>5, <3>3 DEF OnEvent
      <4>2. "false" \in PublishStates
        BY DEF PublishStates
      <4> HIDE DEF e
      <4>3. /\ publish' \in [Publishes -> PublishStates]
            /\ \A j \in Publishes : publish'[j] = IF j = e.publish THEN "false" ELSE publish[j]
        BY <1>0, <2>4, <4>1, <4>2 DEF ProducerTypes
      <4> QED
        BY <1>a, <3>3, <4>1, <4>2, <4>3
    <3> QED
      BY <2>2, <3>1, <3>2, <3>3 DEF Events
  <2> HIDE DEF e
  <2>6. Unanswered' \subseteq Unanswered
    <3>1. e.kind \in {"return", "ack", "nack"}
      BY <2>2 DEF Events
    <3> QED
      BY <2>4, <2>5, <3>1 DEF Unanswered, AckMeans
  <2>7. ProducerTypes' /\ LinkPart'
    BY <1>0, <2>1, <2>3, <2>5 DEF ProducerTypes, LinkPart
  <2>8. ASSUME ~overlap' PROVE WirePart' /\ ReturnPart' /\ ConfirmedWasRouted'
    <3>1. WirePart /\ ReturnPart /\ ConfirmedWasRouted
      BY <2>1, <2>8 DEF ProducerInv
    <3>2. publish[e.publish] = "taken" /\ \A j \in Publishes : publish[j] = "taken" => j = e.publish
      <4>1. publish[e.publish] = "taken"
        BY <2>2, <2>3, <3>1 DEF WirePart
      <4> QED
        BY <2>4, <4>1, <3>1 DEF WirePart, Unanswered
    <3>3. CASE e.kind = "return"
      <4>1. publish' = publish
        BY <1>0, <2>5, <3>3 DEF ProducerTypes
      <4>2. WirePart'
        BY <2>3, <2>6, <3>1, <4>1 DEF WirePart
      <4> QED
        BY <2>1, <2>5, <3>1, <3>3, <4>1, <4>2 DEF ReturnPart, ConfirmedWasRouted
    <3>4. CASE e.kind # "return"
      <4>1. Len(wire) = 1
        BY <2>2, <2>3, <3>1, <3>4 DEF WirePart
      <4>2. WirePart'
        BY <2>3, <2>6, <3>1, <4>1 DEF WirePart
      <4>3. s # "taken" /\ (s = "true" => ~returned)
        BY <2>2, <2>5, <3>4 DEF AckMeans, Events
      <4>4. ReturnPart'
        BY <2>5, <3>2, <4>3 DEF ReturnPart
      <4>5. s = "true" => routed # {}
        BY <2>2, <2>4, <3>1, <3>2, <3>4, <4>3 DEF ReturnPart
      <4> QED
        BY <2>1, <2>5, <3>1, <2>8, <4>2, <4>4, <4>5 DEF ConfirmedWasRouted
    <3> QED
      BY <3>3, <3>4
  <2> QED
    BY <2>7, <2>8 DEF ProducerInv
<1>6. CASE LinkFails
  <2>1. /\ link' = FALSE /\ wire' = <<>> /\ returned' = returned /\ overlap' = overlap
        /\ routed \subseteq routed'
    BY <1>6 DEF LinkFails
  <2>2. PICK told \in SUBSET Unanswered :
          publish' = [k \in Publishes |->
            IF k \in told THEN "false" ELSE IF k \in Unanswered THEN "lost" ELSE publish[k]]
    BY <1>6, Zenon DEF LinkFails
  <2>3. /\ publish' \in [Publishes -> PublishStates]
        /\ \A k \in Publishes : publish'[k] \notin {"sent", "taken"}
        /\ \A k \in Publishes : publish'[k] = "true" => publish[k] = "true"
    BY <1>0, <2>2 DEF ProducerTypes, PublishStates, Unanswered
  <2>4. Unanswered' = {}
    BY <2>3 DEF Unanswered
  <2>5. ProducerTypes' /\ LinkPart'
    <3>1. <<>> \in Seq(Events)
      OBVIOUS
    <3> QED
      BY <1>a, <2>1, <2>3, <2>4, <3>1, ZenonT(30) DEF ProducerTypes, LinkPart
  <2>6. ~overlap' => WirePart' /\ ReturnPart'
    BY <2>1, <2>3, <2>4 DEF WirePart, ReturnPart
  <2>7. ~overlap' => ConfirmedWasRouted'
    BY <2>1, <2>3 DEF ProducerInv, ConfirmedWasRouted
  <2> QED
    BY <2>5, <2>6, <2>7 DEF ProducerInv
<1>7. CASE Reconnect
  <2>1. link' = TRUE /\ UNCHANGED <<publish, routed, returned, wire, overlap>> /\ Unanswered' = Unanswered
    BY <1>7 DEF Reconnect, Unanswered
  <2> QED
    BY <2>1 DEF ProducerInv, ProducerTypes, LinkPart, WirePart, ReturnPart, ConfirmedWasRouted
<1>8. CASE UNCHANGED producerVars
  <2>1. UNCHANGED <<link, publish, routed, returned, wire, overlap>> /\ Unanswered' = Unanswered
    BY <1>8 DEF producerVars, Unanswered
  <2> QED
    BY <2>1 DEF ProducerInv, ProducerTypes, LinkPart, WirePart, ReturnPart, ConfirmedWasRouted
<1> QED
  BY <1>1, <1>2, <1>3, <1>4, <1>5, <1>6, <1>7, <1>8 DEF ProducerNext

\* The invariant of the producer holds in every behaviour: as long as publishes do
\* not overlap, the return of an unroutable message is ahead of its ack.
THEOREM ProducerInvariant == ProducerSpec => []ProducerInv
<1>1. ProducerInit => ProducerInv
  <2> SUFFICES ASSUME ProducerInit PROVE ProducerInv
    OBVIOUS
  <2>1. /\ publish \in [Publishes -> PublishStates]
        /\ \A k \in Publishes : publish[k] = "new"
    BY DEF ProducerInit, PublishStates
  <2>2. Unanswered = {} /\ wire = <<>> /\ wire \in Seq(Events) /\ Len(wire) = 0
    BY <2>1 DEF ProducerInit, Unanswered
  <2>3. ProducerTypes /\ LinkPart
    BY <2>1, <2>2, Zenon DEF ProducerInit, ProducerTypes, LinkPart
  <2>4. WirePart /\ ReturnPart /\ ConfirmedWasRouted
    BY <2>1, <2>2 DEF WirePart, ReturnPart, ConfirmedWasRouted
  <2> QED
    BY <2>3, <2>4 DEF ProducerInv
<1> QED
  BY <1>1, ProducerStep, PTL DEF ProducerSpec

\* For any number of publishes, lost links and reconnects: a callback with success
\* means that a queue took the message, unless publishes overlapped (mq_client.hpp).
THEOREM ProducerConfirmedWasRouted == ProducerSpec => []ConfirmedWasRouted
<1>1. ProducerInv => ConfirmedWasRouted
  BY DEF ProducerInv, ConfirmedWasRouted
<1> QED
  BY <1>1, ProducerInvariant, PTL

-----------------------------------------------------------------------------
\* Polled tasks: custom tests and submissions of guests (CustomTests).

\* The types of the state of one polled task.
ReporterPCs == {"idle", "load", "apply", "store", "acked", "retry", "rejected"}
ReporterType == [pc : ReporterPCs, result : TestResults \cup {NoState}]

TaskTypes ==
  /\ taskKind \in {"custom", "guest"}
  /\ creator \in {"start", "write", "second", "wait", "done", "failed"}
  /\ outboxRow \in BOOLEAN
  /\ sender \in {"idle", "look", "recover", "send"}
  /\ claims \in 0 .. MaxClaims
  /\ published \in BOOLEAN
  /\ receipt \in TestResults \cup {NoState}
  /\ state \in TestResults \cup {"QUEUED", NoState}
  /\ reporter \in [Reporters -> ReporterType]
  /\ clock \in {"live", "last", "expired"}
  /\ acked \in SUBSET TestResults
  /\ hidden \in SUBSET {"create", "withdraw", "recover"}
  /\ misread \in BOOLEAN
  /\ taskErrors \in 0 .. MaxTaskErrors

\* A callback has the result of its node, and something to report about.
CallbackPart ==
  \A j \in Reporters : reporter[j].pc # "idle" =>
    published /\ reporter[j].result \in TestResults

\* Until the task expires the receipt decides: a callback that is about to write
\* the state has the result of the receipt, and no other was acknowledged.
ReceiptPart ==
  taskKind = "custom" =>
    /\ \A j \in Reporters : reporter[j].pc = "store" /\ clock # "expired" =>
         receipt = reporter[j].result
    /\ acked # {} /\ clock # "expired" => acked = {receipt}
    /\ \A r, s \in acked : r = s

\* A guest's submission has no row.  Its state is there from before the message is
\* published, as long as the request has not failed and nothing has expired.
GuestPart ==
  taskKind = "guest" =>
    /\ ~outboxRow /\ sender = "idle"
    /\ published => creator \in {"wait", "done", "failed"}
    /\ creator \in {"second", "wait", "done"} /\ clock = "live" => state # NoState
    /\ \A j \in Reporters : reporter[j].pc # "apply"

\* The inductive invariant.
TasksInv ==
  /\ TaskTypes /\ CallbackPart /\ ReceiptPart
  /\ GuestPart /\ GuestIsKnown /\ FinalStaysVisible

-----------------------------------------------------------------------------
\* Reporter makes callbacks.
LEMMA ReporterFields ==
  ASSUME NEW pc \in ReporterPCs, NEW r \in TestResults \cup {NoState}
  PROVE  /\ Reporter(pc, r) \in ReporterType
         /\ Reporter(pc, r).pc = pc /\ Reporter(pc, r).result = r
BY DEF Reporter, ReporterType

\* The callback of one node moves.
LEMMA Moves ==
  ASSUME TaskTypes, NEW j \in Reporters, NEW pc \in ReporterPCs,
         NEW r \in TestResults \cup {NoState},
         reporter' = [reporter EXCEPT ![j] = Reporter(pc, r)]
  PROVE  /\ reporter' \in [Reporters -> ReporterType]
         /\ reporter'[j].pc = pc /\ reporter'[j].result = r
         /\ \A i \in Reporters : i # j => reporter'[i] = reporter[i]
<1> DEFINE new == Reporter(pc, r)
<1>1. new \in ReporterType /\ new.pc = pc /\ new.result = r
  BY ReporterFields
<1> HIDE DEF new
<1>2. reporter \in [Reporters -> ReporterType] /\ reporter' = [reporter EXCEPT ![j] = new]
  BY DEF TaskTypes, new
<1> QED
  BY <1>1, <1>2

\* The callback of one node goes on with its result.
LEMMA StepMoves ==
  ASSUME TaskTypes, NEW j \in Reporters, NEW pc \in ReporterPCs, Step(j, pc)
  PROVE  /\ reporter' \in [Reporters -> ReporterType]
         /\ reporter'[j].pc = pc /\ reporter'[j].result = reporter[j].result
         /\ \A i \in Reporters : i # j => reporter'[i] = reporter[i]
<1>1. reporter[j] \in ReporterType
  BY DEF TaskTypes
<1>2. reporter[j].result \in TestResults \cup {NoState}
  BY <1>1 DEF ReporterType
<1>3. reporter' = [reporter EXCEPT ![j] = Reporter(pc, reporter[j].result)]
  BY DEF Step
<1> QED
  BY <1>2, <1>3, Moves, ZenonT(30)

\* A counter of failing calls stays within its bound.
LEMMA TaskErrorTypes ==
  ASSUME TaskTypes, TaskError \/ UNCHANGED taskErrors
  PROVE  taskErrors' \in 0 .. MaxTaskErrors
BY TaskConstants DEF TaskTypes, TaskError

\* Every step of a task keeps it well-typed.
LEMMA TypesStep ==
  ASSUME TaskTypes, CallbackPart, TasksNext
  PROVE  TaskTypes'
<1>1. CASE CreateOutbox
  BY <1>1 DEF CreateOutbox, TaskTypes
<1>21. CASE GuestConfirmed
  BY <1>21 DEF GuestConfirmed, TaskTypes
<1>22. CASE Tick
  BY <1>22 DEF Tick, TaskTypes
<1>19. CASE GuestPublish
  <2>1. creator' \in {"second", "wait"}
    BY <1>19 DEF GuestPublish, AfterGuest
  <2> QED
    BY <1>19, <2>1 DEF GuestPublish, TaskTypes
<1>2. CASE StateExpires
  BY <1>2 DEF StateExpires, TaskTypes
<1>20. CASE CleanupReceipt
  BY <1>20 DEF CleanupReceipt, TaskTypes
<1>3. ASSUME NEW p \in {"create", "withdraw", "recover"}, NEW v \in {"QUEUED", NoState},
             \/ Write(p, v) /\ UNCHANGED taskErrors
             \/ TaskError /\ UNCHANGED <<state, hidden>>
      PROVE  /\ state' \in TestResults \cup {"QUEUED", NoState}
             /\ hidden' \in SUBSET {"create", "withdraw", "recover"}
             /\ taskErrors' \in 0 .. MaxTaskErrors
  BY <1>3, TaskErrorTypes, Zenon DEF Write, TaskTypes
<1>4. CASE CreateState
  <2>1. /\ state' \in TestResults \cup {"QUEUED", NoState}
        /\ hidden' \in SUBSET {"create", "withdraw", "recover"}
        /\ taskErrors' \in 0 .. MaxTaskErrors
    BY <1>3, <1>4 DEF CreateState
  <2> QED
    BY <1>4, <2>1 DEF CreateState, TaskTypes
<1>5. CASE GuestState
  <2>1. \/ Write("create", "QUEUED") /\ UNCHANGED taskErrors
        \/ TaskError /\ UNCHANGED <<state, hidden>>
    BY <1>5 DEF GuestState
  <2>2. /\ state' \in TestResults \cup {"QUEUED", NoState}
        /\ hidden' \in SUBSET {"create", "withdraw", "recover"}
        /\ taskErrors' \in 0 .. MaxTaskErrors
    BY <1>3, <2>1
  <2>3. creator' \in {"second", "wait", "failed"}
    BY <1>5 DEF GuestState, AfterGuest
  <2> QED
    BY <1>5, <2>2, <2>3 DEF GuestState, TaskTypes
<1>6. CASE GuestWithdraw
  <2>1. /\ state' \in TestResults \cup {"QUEUED", NoState}
        /\ hidden' \in SUBSET {"create", "withdraw", "recover"}
        /\ taskErrors' \in 0 .. MaxTaskErrors
    BY <1>3, <1>6 DEF GuestWithdraw
  <2> QED
    BY <1>6, <2>1 DEF GuestWithdraw, TaskTypes
<1>7. CASE Claim
  <2>1. claims' \in 0 .. MaxClaims
    BY <1>7, TaskConstants DEF Claim, TaskTypes
  <2> QED
    BY <1>7, <2>1 DEF Claim, TaskTypes
<1>8. CASE RecoverLook
  <2>1. taskErrors' \in 0 .. MaxTaskErrors
    BY <1>8, TaskErrorTypes DEF RecoverLook
  <2> QED
    BY <1>8, <2>1 DEF RecoverLook, TaskTypes
<1>9. CASE RecoverState
  <2>1. /\ state' \in TestResults \cup {"QUEUED", NoState}
        /\ hidden' \in SUBSET {"create", "withdraw", "recover"}
        /\ taskErrors' \in 0 .. MaxTaskErrors
    BY <1>3, <1>9 DEF RecoverState
  <2> QED
    BY <1>9, <2>1 DEF RecoverState, TaskTypes
<1>10. CASE Send
  <2>1. published' \in BOOLEAN /\ sender' = "idle"
    BY <1>10, Zenon DEF Send, TaskTypes
  <2>2. UNCHANGED <<taskKind, creator, outboxRow, claims, receipt, state, reporter, clock,
                    acked, hidden, taskErrors, misread>>
    BY <1>10 DEF Send
  <2> QED
    BY <2>1, <2>2 DEF TaskTypes
<1>11. ASSUME NEW j \in Reporters, NEW r \in TestResults, Report(j, r) PROVE TaskTypes'
  <2>1. reporter' = [reporter EXCEPT ![j] = Reporter("load", r)] /\ "load" \in ReporterPCs
    BY <1>11 DEF Report, ReporterPCs
  <2>2. reporter' \in [Reporters -> ReporterType]
    BY <2>1, Moves, Zenon
  <2> QED
    BY <1>11, <2>2, ZenonT(30) DEF Report, TaskTypes
<1>12. ASSUME NEW j \in Reporters, NEW pc \in ReporterPCs, Step(j, pc)
       PROVE  reporter' \in [Reporters -> ReporterType]
  BY <1>12, StepMoves
<1>a. /\ "rejected" \in ReporterPCs /\ "store" \in ReporterPCs /\ "apply" \in ReporterPCs
      /\ "acked" \in ReporterPCs /\ "retry" \in ReporterPCs
  BY DEF ReporterPCs
<1>13. ASSUME NEW j \in Reporters, LoadTask(j) PROVE TaskTypes'
  <2>1. Step(j, "rejected") \/ Step(j, "store") \/ Step(j, "apply")
    BY <1>13 DEF LoadTask
  <2>2. reporter' \in [Reporters -> ReporterType]
    BY <1>12, <1>a, <2>1
  <2> QED
    BY <1>13, <2>2 DEF LoadTask, TaskTypes
<1>14. ASSUME NEW j \in Reporters, ApplyReceipt(j) PROVE TaskTypes'
  <2>1. Step(j, "rejected") \/ Step(j, "store")
    BY <1>14 DEF ApplyReceipt, AfterIdempotent
  <2>2. reporter' \in [Reporters -> ReporterType]
    BY <1>12, <1>a, <2>1
  <2>3. receipt' = receipt \/ receipt' = reporter[j].result
    BY <1>14 DEF ApplyReceipt
  <2>4. reporter[j].result \in TestResults
    BY <1>14 DEF ApplyReceipt, CallbackPart
  <2> QED
    BY <1>14, <2>2, <2>3, <2>4, SMTT(20) DEF ApplyReceipt, TaskTypes
<1>15. ASSUME NEW j \in Reporters, StoreFinal(j) PROVE TaskTypes'
  <2>1. Step(j, "acked")
    BY <1>15 DEF StoreFinal
  <2>2. reporter' \in [Reporters -> ReporterType]
    BY <1>12, <1>a, <2>1
  <2>4. reporter[j].result \in TestResults
    BY <1>15 DEF StoreFinal, CallbackPart
  <2> QED
    BY <1>15, <2>2, <2>4 DEF StoreFinal, TaskTypes
<1>16. ASSUME NEW j \in Reporters, StoreFails(j) PROVE TaskTypes'
  <2>1. Step(j, "retry") /\ acked' = acked
    BY <1>16 DEF StoreFails, AckedAnyway
  <2>2. reporter' \in [Reporters -> ReporterType]
    BY <1>12, <1>a, <2>1
  <2>3. taskErrors' \in 0 .. MaxTaskErrors
    BY <1>16, TaskErrorTypes DEF StoreFails
  <2> QED
    BY <1>16, <2>1, <2>2, <2>3 DEF StoreFails, TaskTypes
<1>17. ASSUME NEW j \in Reporters, CallbackFails(j) PROVE TaskTypes'
  <2>1. Step(j, "retry")
    BY <1>17 DEF CallbackFails
  <2>2. reporter' \in [Reporters -> ReporterType]
    BY <1>12, <1>a, <2>1
  <2>3. taskErrors' \in 0 .. MaxTaskErrors
    BY <1>17, TaskErrorTypes DEF CallbackFails
  <2> QED
    BY <1>17, <2>2, <2>3 DEF CallbackFails, TaskTypes
<1>18. ASSUME NEW j \in Reporters, LoadFails(j) PROVE TaskTypes'
  <2>1. Step(j, "rejected")
    BY <1>18 DEF LoadFails
  <2>2. reporter' \in [Reporters -> ReporterType]
    BY <1>12, <1>a, <2>1
  <2>3. taskErrors' \in 0 .. MaxTaskErrors
    BY <1>18, TaskErrorTypes DEF LoadFails
  <2> QED
    BY <1>18, <2>2, <2>3 DEF LoadFails, TaskTypes
<1> QED
  BY <1>1, <1>2, <1>4, <1>5, <1>6, <1>7, <1>8, <1>9, <1>10, <1>11, <1>13, <1>14, <1>15,
     <1>16, <1>17, <1>18, <1>19, <1>20, <1>21, <1>22
  DEF TasksNext, CallbackStep

\* The parts of the invariant that relate the callbacks, the receipt and the state.
TaskParts == CallbackPart /\ ReceiptPart /\ GuestPart /\ GuestIsKnown /\ FinalStaysVisible

\* The creating request, the publisher and the clock.  Whoever writes over a final
\* state leaves a trace in hidden; the receipt is deleted only after the expiry.
LEMMA OthersKeepParts ==
  ASSUME TaskTypes, TaskParts,
         \/ CreateOutbox \/ CreateState
         \/ GuestState \/ GuestPublish \/ GuestWithdraw \/ GuestConfirmed
         \/ Claim \/ RecoverLook \/ RecoverState \/ Send
         \/ Tick \/ StateExpires \/ CleanupReceipt
  PROVE  TaskParts'
<1> USE DEF TaskParts
<1>0. reporter' = reporter /\ acked' = acked /\ (published => published')
      /\ taskKind' = taskKind /\ misread' = misread
  BY Zenon DEF CreateOutbox, CreateState, GuestState, GuestPublish, GuestWithdraw, GuestConfirmed,
         Claim, RecoverLook, RecoverState, Send, Tick, StateExpires, CleanupReceipt, TaskTypes
<1>1. CallbackPart'
  BY <1>0 DEF CallbackPart
<1>2. ReceiptPart'
  <2>1. clock' # "expired" => clock # "expired" /\ receipt' = receipt
    BY ZenonT(30) DEF CreateOutbox, CreateState, GuestState, GuestPublish, GuestWithdraw, GuestConfirmed,
           Claim, RecoverLook, RecoverState, Send, Tick, StateExpires, CleanupReceipt
  <2> QED
    BY <1>0, <2>1 DEF ReceiptPart
<1>3. clock' = "live" => clock = "live"
  BY Zenon DEF CreateOutbox, CreateState, GuestState, GuestPublish, GuestWithdraw, GuestConfirmed,
         Claim, RecoverLook, RecoverState, Send, Tick, StateExpires, CleanupReceipt
<1>4. GuestIsKnown'
  <2>1. taskKind = "guest" /\ creator' # "failed" => creator # "failed"
    BY Zenon DEF CreateOutbox, CreateState, GuestState, GuestPublish, GuestWithdraw, GuestConfirmed,
           Claim, RecoverLook, RecoverState, Send, Tick, StateExpires, CleanupReceipt,
           GuestAt, GuestOrder
  <2> QED
    BY <1>0, <1>3, <2>1 DEF GuestIsKnown
<1>5. FinalStaysVisible'
  <2>1. ASSUME clock' = "live", state' # state PROVE state \in TestResults => hidden' # {}
    BY <1>3, <2>1, ZenonT(30)
    DEF CreateOutbox, CreateState, GuestState, GuestPublish, GuestWithdraw, GuestConfirmed,
        Claim, RecoverLook, RecoverState, Send, Tick, StateExpires, CleanupReceipt, Write
  <2>2. hidden' = {} => hidden = {}
    BY ZenonT(30) DEF CreateOutbox, CreateState, GuestState, GuestPublish, GuestWithdraw, GuestConfirmed,
           Claim, RecoverLook, RecoverState, Send, Tick, StateExpires, CleanupReceipt, Write
  <2> QED
    BY <1>0, <1>3, <2>1, <2>2 DEF FinalStaysVisible, TaskTypes
<1>6. GuestPart'
  <2> SUFFICES ASSUME taskKind = "guest"
               PROVE  /\ ~outboxRow' /\ sender' = "idle"
                      /\ published' => creator' \in {"wait", "done", "failed"}
                      /\ creator' \in {"second", "wait", "done"} /\ clock' = "live"
                           => state' # NoState
    BY <1>0 DEF GuestPart
  <2>1. CASE GuestState
    BY <2>1, TaskConstants DEF GuestState, GuestPart, GuestAt, GuestOrder, AfterGuest, Write
  <2>2. CASE GuestPublish
    BY <2>2 DEF GuestPublish, GuestPart, GuestAt, GuestOrder, AfterGuest
  <2>3. CASE GuestWithdraw \/ GuestConfirmed
    BY <2>3 DEF GuestWithdraw, GuestConfirmed, GuestPart, GuestAt, GuestOrder
  <2>4. CASE Tick \/ StateExpires \/ CleanupReceipt
    BY <2>4 DEF Tick, StateExpires, CleanupReceipt, GuestPart
  <2>5. CASE CreateOutbox \/ CreateState \/ Claim \/ RecoverLook \/ RecoverState \/ Send
    BY <2>5, ZenonT(30) DEF CreateOutbox, CreateState, Claim, RecoverLook, RecoverState, Send, GuestPart
  <2> QED
    BY <2>1, <2>2, <2>3, <2>4, <2>5
<1> QED
  BY <1>1, <1>2, <1>4, <1>5, <1>6

\* A callback that moves on without touching the receipt or the state.
LEMMA MoveKeepsParts ==
  ASSUME TaskTypes, TaskParts, NEW j \in Reporters, NEW pc \in ReporterPCs,
         NEW r \in TestResults, published,
         reporter' = [reporter EXCEPT ![j] = Reporter(pc, r)],
         UNCHANGED <<taskKind, creator, outboxRow, sender, published, receipt, state, clock,
                     acked, hidden>>,
         misread => misread',
         pc = "store" => taskKind = "guest" \/ clock = "expired" \/ receipt = r,
         pc = "apply" => taskKind = "custom",
         pc = "rejected" /\ taskKind = "guest" =>
           clock # "live" \/ creator = "failed" \/ misread'
  PROVE  TaskParts'
<1> USE DEF TaskParts
<1>1. /\ reporter'[j].pc = pc /\ reporter'[j].result = r
      /\ \A i \in Reporters : i # j => reporter'[i] = reporter[i]
  BY Moves, ZenonT(30)
<1>2. CallbackPart'
  BY <1>1 DEF CallbackPart
<1>3. ReceiptPart'
  BY <1>1 DEF ReceiptPart
<1>4. GuestPart'
  BY <1>1 DEF GuestPart
<1>5. GuestIsKnown'
  BY <1>1 DEF GuestIsKnown
<1>6. FinalStaysVisible'
  BY DEF FinalStaysVisible
<1> QED
  BY <1>2, <1>3, <1>4, <1>5, <1>6

\* The callbacks of the judge nodes.
LEMMA CallbackKeepsParts ==
  ASSUME TaskTypes, TaskParts, NEW j \in Reporters,
         \/ \E r \in TestResults : Report(j, r)
         \/ LoadTask(j) \/ ApplyReceipt(j) \/ StoreFinal(j) \/ StoreFails(j)
         \/ CallbackFails(j) \/ LoadFails(j)
  PROVE  TaskParts'
<1> USE DEF TaskParts
<1>0. /\ "load" \in ReporterPCs /\ "rejected" \in ReporterPCs /\ "store" \in ReporterPCs
      /\ "apply" \in ReporterPCs /\ "acked" \in ReporterPCs /\ "retry" \in ReporterPCs
  BY DEF ReporterPCs
<1>1. ASSUME NEW r \in TestResults, Report(j, r) PROVE TaskParts'
  BY <1>0, <1>1, MoveKeepsParts, ZenonT(30) DEF Report
<1> DEFINE r == reporter[j].result
<1>2. ASSUME reporter[j].pc # "idle" PROVE r \in TestResults /\ published
  BY <1>2, Zenon DEF CallbackPart
<1>3. CASE LoadTask(j)
  <2> DEFINE pc == IF clock = "expired" \/ (taskKind = "guest" /\ state = NoState) THEN "rejected"
                   ELSE IF taskKind = "guest" THEN "store" ELSE "apply"
  <2>1. reporter' = [reporter EXCEPT ![j] = Reporter(pc, r)] /\ reporter[j].pc = "load"
    BY <1>3 DEF LoadTask, Step
  <2>2. r \in TestResults /\ published
    BY <1>2, <2>1
  <2>3. pc \in ReporterPCs
    BY <1>0
  <2>4. pc = "store" => taskKind = "guest"
    OBVIOUS
  <2>5. pc = "apply" => taskKind = "custom"
    BY DEF TaskTypes
  <2>6. pc = "rejected" /\ taskKind = "guest" => clock # "live" \/ creator = "failed"
    BY <2>2 DEF GuestPart
  <2>7. /\ UNCHANGED <<taskKind, creator, outboxRow, sender, published, receipt, state, clock,
                       acked, hidden>>
        /\ misread' = misread
    BY <1>3, ZenonT(30) DEF LoadTask
  <2> HIDE DEF pc, r
  <2> QED
    BY <2>1, <2>2, <2>3, <2>4, <2>5, <2>6, <2>7, MoveKeepsParts, Zenon
<1>4. CASE ApplyReceipt(j)
  <2>1. reporter[j].pc = "apply"
    BY <1>4, ZenonT(30) DEF ApplyReceipt
  <2>2. taskKind = "custom" /\ r \in TestResults /\ published
    BY <1>2, <2>1 DEF GuestPart, TaskTypes
  <2>3. CASE receipt \notin {NoState, r}
    <3>1. reporter' = [reporter EXCEPT ![j] = Reporter("rejected", r)]
      BY <1>4, <2>3, ZenonT(30) DEF ApplyReceipt, Step
    <3>2. /\ UNCHANGED <<taskKind, creator, outboxRow, sender, published, receipt, state, clock,
                         acked, hidden>>
          /\ misread' = misread
      BY <1>4, <2>3, Zenon DEF ApplyReceipt
    <3> HIDE DEF r
    <3> QED
      BY <1>0, <2>2, <3>1, <3>2, MoveKeepsParts, Zenon
  <2>4. CASE receipt = r
    <3>1. reporter' = [reporter EXCEPT ![j] = Reporter("store", r)]
      BY <1>4, <2>4 DEF ApplyReceipt, Step, AfterIdempotent
    <3>2. /\ UNCHANGED <<taskKind, creator, outboxRow, sender, published, receipt, state, clock,
                         acked, hidden>>
          /\ misread' = misread
      BY <1>4, <2>2, <2>4, TaskConstants, ZenonT(30) DEF ApplyReceipt
    <3> HIDE DEF r
    <3> QED
      BY <1>0, <2>2, <2>4, <3>1, <3>2, MoveKeepsParts, ZenonT(30)
  <2>5. CASE receipt = NoState
    <3>1. /\ reporter' = [reporter EXCEPT ![j] = Reporter("store", r)] /\ receipt' = r
          /\ UNCHANGED <<taskKind, creator, outboxRow, sender, published, state, clock,
                         acked, hidden, misread>>
      BY <1>4, <2>5 DEF ApplyReceipt, Step
    <3>2. /\ reporter'[j].pc = "store" /\ reporter'[j].result = r
          /\ \A i \in Reporters : i # j => reporter'[i] = reporter[i]
      BY <1>0, <2>2, <3>1, Moves, ZenonT(30)
    <3>3. clock # "expired" =>
            /\ acked = {}
            /\ \A i \in Reporters : reporter[i].pc # "store"
      BY <2>2, <2>5, TaskConstants DEF ReceiptPart, CallbackPart, TaskTypes
    <3>4. ReceiptPart'
      BY <2>2, <3>1, <3>2, <3>3 DEF ReceiptPart
    <3>5. CallbackPart'
      BY <2>2, <3>1, <3>2 DEF CallbackPart
    <3>6. GuestPart' /\ GuestIsKnown'
      BY <2>2, <3>1 DEF GuestPart, GuestIsKnown
    <3>7. FinalStaysVisible'
      BY <3>1 DEF FinalStaysVisible
    <3> QED
      BY <3>4, <3>5, <3>6, <3>7
  <2> QED
    BY <2>3, <2>4, <2>5
<1>5. CASE StoreFinal(j)
  <2>1. /\ reporter[j].pc = "store" /\ clock = "live" /\ state' = r /\ acked' = acked \cup {r}
        /\ reporter' = [reporter EXCEPT ![j] = Reporter("acked", r)]
        /\ UNCHANGED <<taskKind, creator, outboxRow, sender, published, receipt, clock,
                       hidden, misread>>
    BY <1>5 DEF StoreFinal, Step, TtlPositive
  <2>2. r \in TestResults /\ published
    BY <1>2, <2>1
  <2>3. /\ reporter'[j].pc = "acked" /\ reporter'[j].result = r
        /\ \A i \in Reporters : i # j => reporter'[i] = reporter[i]
    BY <1>0, <2>1, <2>2, Moves, ZenonT(30)
  <2>4. taskKind = "custom" => receipt = r /\ acked' = {r}
    BY <2>1 DEF ReceiptPart
  <2>5. ReceiptPart'
    BY <2>1, <2>3, <2>4 DEF ReceiptPart
  <2>6. CallbackPart'
    BY <2>1, <2>2, <2>3 DEF CallbackPart
  <2>7. GuestPart'
    BY <2>1, <2>2, <2>3, TaskConstants DEF GuestPart
  <2>8. GuestIsKnown'
    BY <2>1, <2>3 DEF GuestIsKnown
  <2>9. FinalStaysVisible'
    BY <2>1 DEF FinalStaysVisible
  <2> QED
    BY <2>5, <2>6, <2>7, <2>8, <2>9
<1>6. CASE StoreFails(j) \/ CallbackFails(j)
  <2>1. /\ reporter' = [reporter EXCEPT ![j] = Reporter("retry", r)] /\ reporter[j].pc # "idle"
        /\ UNCHANGED <<taskKind, creator, outboxRow, sender, published, receipt, state, clock,
                       acked, hidden>>
        /\ misread' = misread
    BY <1>6 DEF StoreFails, CallbackFails, Step, AckedAnyway
  <2>2. r \in TestResults /\ published
    BY <1>2, <2>1
  <2> HIDE DEF r
  <2> QED
    BY <1>0, <2>1, <2>2, MoveKeepsParts, ZenonT(30)
<1>7. CASE LoadFails(j)
  <2>1. /\ reporter' = [reporter EXCEPT ![j] = Reporter("rejected", r)] /\ reporter[j].pc # "idle"
        /\ UNCHANGED <<taskKind, creator, outboxRow, sender, published, receipt, state, clock,
                       acked, hidden>>
        /\ misread' = TRUE
    BY <1>7 DEF LoadFails, Step
  <2>2. r \in TestResults /\ published
    BY <1>2, <2>1
  <2> HIDE DEF r
  <2> QED
    BY <1>0, <2>1, <2>2, MoveKeepsParts, Zenon
<1> QED
  BY <1>1, <1>3, <1>4, <1>5, <1>6, <1>7

\* The invariant of a polled task holds in every behaviour.
THEOREM TasksInvariant == TasksSpec => []TasksInv
<1>1. TasksInit => TasksInv
  <2> SUFFICES ASSUME TasksInit PROVE TasksInv
    OBVIOUS
  <2>1. "idle" \in ReporterPCs
    BY DEF ReporterPCs
  <2>2. \A j \in Reporters : reporter[j].pc = "idle" /\ reporter[j] \in ReporterType
    BY <2>1, ReporterFields DEF TasksInit
  <2>3. reporter \in [Reporters -> ReporterType]
    BY <2>2 DEF TasksInit
  <2>4. taskErrors \in 0 .. MaxTaskErrors /\ claims \in 0 .. MaxClaims
    BY TaskConstants DEF TasksInit
  <2>5. TaskTypes
    BY <2>3, <2>4, Zenon DEF TasksInit, TaskTypes
  <2>6. CallbackPart /\ ReceiptPart /\ GuestPart /\ GuestIsKnown /\ FinalStaysVisible
    BY <2>2 DEF TasksInit, CallbackPart, ReceiptPart, GuestPart, GuestIsKnown, FinalStaysVisible
  <2> QED
    BY <2>5, <2>6 DEF TasksInv
<1>2. TasksInv /\ [TasksNext]_taskVars => TasksInv'
  <2> SUFFICES ASSUME TasksInv, [TasksNext]_taskVars PROVE TasksInv'
    OBVIOUS
  <2> USE DEF TasksInv
  <2>1. CASE UNCHANGED taskVars
    <3>0. TaskTypes'
      BY <2>1 DEF taskVars, TaskTypes
    <3>1. CallbackPart'
      BY <2>1, ZenonT(30) DEF taskVars, CallbackPart
    <3>2. ReceiptPart' /\ GuestPart'
      BY <2>1, ZenonT(30) DEF taskVars, ReceiptPart, GuestPart
    <3>3. GuestIsKnown' /\ FinalStaysVisible'
      BY <2>1, Zenon DEF taskVars, GuestIsKnown, FinalStaysVisible
    <3> QED
      BY <3>0, <3>1, <3>2, <3>3
  <2>2. CASE TasksNext
    <3>1. TaskTypes'
      BY <2>2, TypesStep
    <3>2. TaskParts
      BY DEF TaskParts
    <3>3. TaskParts'
      BY <2>2, <3>2, OthersKeepParts, CallbackKeepsParts DEF TasksNext, CallbackStep
    <3> QED
      BY <3>1, <3>3 DEF TaskParts
  <2> QED
    BY <2>1, <2>2
<1> QED
  BY <1>1, <1>2, PTL DEF TasksSpec

\* Two nodes with different results are never both told PERSISTED or IDEMPOTENT.
THEOREM TasksAcksAgree == TasksSpec => []AcksAgree
<1>1. TasksInv => AcksAgree
  BY DEF TasksInv, ReceiptPart, AcksAgree
<1> QED
  BY <1>1, TasksInvariant, PTL

\* An acknowledged result stays visible until the task expires, unless a QUEUED is
\* written over it or a guest's submission withdrawn.
THEOREM TasksFinalStaysVisible == TasksSpec => []FinalStaysVisible
<1>1. TasksInv => FinalStaysVisible
  BY DEF TasksInv
<1> QED
  BY <1>1, TasksInvariant, PTL

\* A guest's result that comes in time is never rejected as unknown.
THEOREM TasksGuestIsKnown == TasksSpec => []GuestIsKnown
<1>1. TasksInv => GuestIsKnown
  BY DEF TasksInv
<1> QED
  BY <1>1, TasksInvariant, PTL

-----------------------------------------------------------------------------
\* The shutdown of oj_admin and its audit queue (AdminProcess).

\* The records Enqueue has accepted and the worker has not taken.
Waiting == {auditQueue[i] : i \in 1 .. Len(auditQueue)}

AuditorPCs == {"top", "parking", "asleep", "insert", "exit"}

AdminTypes ==
  /\ auditQueue \in Seq(Handlers)
  /\ handler \in [Handlers -> {"new", "accepted", "queued", "refused"}]
  /\ auditor \in [pc : AuditorPCs, record : Handlers \cup {NoRecord}, attempt : Nat]
  /\ stage \in {"serve", "audit", "notify", "join", "database", "done"}

\* An accepted record is somewhere.
RecordPart ==
  \A h \in Handlers : handler[h] = "queued" =>
    \/ h \in Waiting
    \/ auditor.pc = "insert" /\ auditor.record = h
    \/ h \in auditLog \cup givenUp

\* What each stage of main can rely on.
StagePart ==
  /\ stage # "serve" => \A h \in Handlers : handler[h] # "accepted"
  /\ auditor.pc = "exit" => auditQueue = <<>> /\ stage \notin {"serve", "audit"}
  /\ auditing = FALSE => stage \notin {"serve", "audit"}
  /\ auditing \in BOOLEAN
  /\ stage \in {"database", "done"} => auditor.pc = "exit"
  /\ database = IF stage = "done" THEN "down" ELSE "up"

AdminInv == AdminTypes /\ RecordPart /\ StagePart

\* The fields of the worker thread.
LEMMA AuditorFields ==
  ASSUME NEW pc \in AuditorPCs, NEW r \in Handlers \cup {NoRecord}, NEW n \in Nat
  PROVE  /\ Auditor(pc, r, n) \in [pc : AuditorPCs, record : Handlers \cup {NoRecord}, attempt : Nat]
         /\ Auditor(pc, r, n).pc = pc /\ Auditor(pc, r, n).record = r
         /\ Auditor(pc, r, n).attempt = n
BY DEF Auditor

\* The states of the worker without a record.
LEMMA AuditorWithout ==
  ASSUME NEW pc \in AuditorPCs
  PROVE  /\ Auditor(pc, NoRecord, 0)
              \in [pc : AuditorPCs, record : Handlers \cup {NoRecord}, attempt : Nat]
         /\ Auditor(pc, NoRecord, 0).pc = pc
BY AuditorFields

\* The worker at the top of its loop has no record.
LEMMA TopFields ==
  /\ AtTop \in [pc : AuditorPCs, record : Handlers \cup {NoRecord}, attempt : Nat]
  /\ AtTop.pc = "top"
BY AuditorWithout DEF AtTop, AuditorPCs

\* Enqueue and Run keep the order of queue_.
LEMMA QueueGrows ==
  ASSUME AdminTypes, NEW h \in Handlers, auditQueue' = Append(auditQueue, h)
  PROVE  auditQueue' \in Seq(Handlers) /\ Waiting' = Waiting \cup {h}
<1>1. /\ auditQueue' \in Seq(Handlers)
      /\ Len(auditQueue') = Len(auditQueue) + 1
      /\ \A i \in 1 .. Len(auditQueue) : auditQueue'[i] = auditQueue[i]
      /\ auditQueue'[Len(auditQueue) + 1] = h
  BY DEF AdminTypes
<1>2. Len(auditQueue) \in Nat
  BY DEF AdminTypes
<1>3. 1 .. Len(auditQueue') = 1 .. Len(auditQueue) \cup {Len(auditQueue) + 1}
  BY <1>1, <1>2
<1> QED
  BY <1>1, <1>2, <1>3 DEF Waiting

\* What is left in the queue was in it before.
LEMMA QueueShrinks ==
  ASSUME AdminTypes, auditQueue # <<>>, auditQueue' = Tail(auditQueue)
  PROVE  /\ auditQueue' \in Seq(Handlers) /\ Head(auditQueue) \in Handlers
         /\ Waiting = Waiting' \cup {Head(auditQueue)}
<1>1. /\ auditQueue' \in Seq(Handlers) /\ Len(auditQueue') = Len(auditQueue) - 1
      /\ Head(auditQueue) = auditQueue[1] /\ Head(auditQueue) \in Handlers
      /\ \A i \in 1 .. Len(auditQueue') : auditQueue'[i] = auditQueue[i + 1]
      /\ Len(auditQueue) \in Nat \ {0}
  BY DEF AdminTypes
<1>2. \A i \in 1 .. Len(auditQueue) : i = 1 \/ (i - 1 \in 1 .. Len(auditQueue') /\ (i - 1) + 1 = i)
  BY <1>1
<1>3. \A i \in 1 .. Len(auditQueue') : i + 1 \in 1 .. Len(auditQueue)
  BY <1>1
<1>4. ASSUME NEW x \in Waiting PROVE x \in Waiting' \cup {Head(auditQueue)}
  <2>1. PICK i \in 1 .. Len(auditQueue) : x = auditQueue[i]
    BY DEF Waiting
  <2> QED
    BY <1>1, <1>2, <2>1 DEF Waiting
<1>5. ASSUME NEW x \in Waiting' PROVE x \in Waiting
  <2>1. PICK i \in 1 .. Len(auditQueue') : x = auditQueue'[i]
    BY DEF Waiting
  <2> QED
    BY <1>1, <1>3, <2>1 DEF Waiting
<1>6. Head(auditQueue) \in Waiting
  BY <1>1 DEF Waiting
<1> QED
  BY <1>1, <1>4, <1>5, <1>6

\* The invariant holds when oj_admin starts.
LEMMA AdminInitInv == AdminInit => AdminInv
<1> SUFFICES ASSUME AdminInit PROVE AdminInv
  OBVIOUS
<1>1. AdminTypes
  BY TopFields DEF AdminInit, AdminTypes
<1>2. RecordPart
  BY DEF AdminInit, RecordPart
<1>3. StagePart
  BY TopFields DEF AdminInit, StagePart
<1> QED
  BY <1>1, <1>2, <1>3 DEF AdminInv

\* The requests: a record is written only before the executor has stopped.
LEMMA HandlerInv ==
  ASSUME AdminInv, NEW h \in Handlers, Accept(h) \/ WriteAudit(h)
  PROVE  AdminInv'
<1>1. CASE Accept(h)
  <2>1. handler' \in [Handlers -> {"new", "accepted", "queued", "refused"}]
    BY <1>1 DEF Accept, AdminInv, AdminTypes
  <2>2. \A x \in Handlers : handler'[x] = "queued" => handler[x] = "queued"
    BY <1>1 DEF Accept, AdminInv, AdminTypes
  <2>3. Waiting' = Waiting
    BY <1>1 DEF Accept, Waiting
  <2> QED
    BY <1>1, <2>1, <2>2, <2>3 DEF Accept, AdminInv, AdminTypes, RecordPart, StagePart
<1>2. CASE WriteAudit(h)
  <2>1. stage = "serve"
    BY <1>2 DEF WriteAudit, AdminInv, StagePart
  <2>2. CASE /\ auditQueue' = Append(auditQueue, h)
             /\ handler' = [handler EXCEPT ![h] = "queued"]
             /\ auditor' = IF auditor.pc = "asleep" THEN AtTop ELSE auditor
    <3>1. auditQueue' \in Seq(Handlers) /\ Waiting' = Waiting \cup {h}
      BY <2>2, QueueGrows DEF AdminInv
    <3>2. AdminTypes'
      BY <1>2, <2>2, <3>1, TopFields DEF WriteAudit, AdminInv, AdminTypes
    <3>3. RecordPart'
      BY <1>2, <2>2, <3>1 DEF WriteAudit, AdminInv, AdminTypes, RecordPart
    <3>4. auditor'.pc # "exit"
      BY <2>1, <2>2, TopFields DEF AdminInv, StagePart
    <3>5. StagePart'
      BY <1>2, <2>1, <3>4 DEF WriteAudit, AdminInv, StagePart
    <3> QED
      BY <3>2, <3>3, <3>5 DEF AdminInv
  <2>3. CASE handler' = [handler EXCEPT ![h] = "refused"] /\ UNCHANGED <<auditQueue, auditor>>
    <3>1. handler' \in [Handlers -> {"new", "accepted", "queued", "refused"}]
      BY <2>3 DEF AdminInv, AdminTypes
    <3>2. \A x \in Handlers : handler'[x] = "queued" => handler[x] = "queued"
      BY <2>3 DEF AdminInv, AdminTypes
    <3>3. Waiting' = Waiting
      BY <2>3 DEF Waiting
    <3> QED
      BY <1>2, <2>1, <2>3, <3>1, <3>2, <3>3
      DEF WriteAudit, AdminInv, AdminTypes, RecordPart, StagePart
  <2> QED
    BY <1>2, <2>2, <2>3 DEF WriteAudit
<1> QED
  BY <1>1, <1>2

\* The worker moves a record from the queue to its hands, and from there to the
\* table or to the records given up.
LEMMA AuditorInv ==
  ASSUME AdminInv, AuditorStep
  PROVE  AdminInv'
<1>0. "top" \in AuditorPCs /\ "parking" \in AuditorPCs /\ "asleep" \in AuditorPCs
      /\ "insert" \in AuditorPCs /\ "exit" \in AuditorPCs
  BY DEF AuditorPCs
<1>1. CASE /\ TestQueue /\ UNCHANGED auditQueue
    <2>1. PICK pc \in {"exit", "parking"} :
            /\ auditor' = Auditor(pc, NoRecord, 0)
            /\ pc = "exit" => ~auditing /\ auditQueue = <<>>
      <3>1. CASE auditQueue # <<>>
        <4>1. Tail(auditQueue) # auditQueue
          BY <3>1 DEF AdminInv, AdminTypes
        <4> QED
          BY <1>1, <3>1, <4>1 DEF TestQueue, AuditorLeaves
      <3>2. CASE auditQueue = <<>>
        BY <1>1, <3>2 DEF TestQueue, AuditorLeaves
      <3> QED
        BY <3>1, <3>2
    <2>2. AdminTypes' /\ auditor'.pc = pc
      BY <1>0, <1>1, <2>1, AuditorWithout DEF TestQueue, AdminInv, AdminTypes
    <2>3. Waiting' = Waiting
      BY <1>1 DEF Waiting
    <2>4. RecordPart'
      BY <1>1, <2>3 DEF TestQueue, AdminInv, RecordPart
    <2>5. StagePart'
      BY <1>1, <2>1, <2>2 DEF TestQueue, AdminInv, StagePart
    <2> QED
      BY <2>2, <2>4, <2>5 DEF AdminInv
<1>2. CASE /\ TestQueue /\ auditQueue # <<>>
           /\ auditor' = Auditor("insert", Head(auditQueue), 0)
           /\ auditQueue' = Tail(auditQueue)
  <2>1. /\ auditQueue' \in Seq(Handlers) /\ Head(auditQueue) \in Handlers
        /\ Waiting = Waiting' \cup {Head(auditQueue)}
    BY <1>2, QueueShrinks DEF AdminInv
  <2>2. /\ auditor' \in [pc : AuditorPCs, record : Handlers \cup {NoRecord}, attempt : Nat]
        /\ auditor'.pc = "insert" /\ auditor'.record = Head(auditQueue)
    BY <1>0, <1>2, <2>1, AuditorFields
  <2>3. AdminTypes'
    BY <1>2, <2>1, <2>2 DEF TestQueue, AdminInv, AdminTypes
  <2>4. RecordPart'
    BY <1>2, <2>1, <2>2 DEF TestQueue, AdminInv, RecordPart
  <2>5. stage \notin {"database", "done"}
    BY <1>2 DEF TestQueue, AdminInv, StagePart
  <2>6. StagePart'
    BY <1>2, <2>2, <2>5 DEF TestQueue, AdminInv, StagePart
  <2> QED
    BY <2>3, <2>4, <2>6 DEF AdminInv
<1>3. CASE Park
  <2>1. AdminTypes' /\ auditor'.pc = "asleep"
    BY <1>0, <1>3, AuditorWithout DEF Park, AdminInv, AdminTypes
  <2>2. Waiting' = Waiting
    BY <1>3 DEF Park, Waiting
  <2> QED
    BY <1>3, <2>1, <2>2 DEF Park, AdminInv, RecordPart, StagePart
<1>4. CASE InsertAuditLog
  <2>1. stage \notin {"database", "done"} /\ database = "up"
    BY <1>4 DEF InsertAuditLog, AdminInv, StagePart
  <2>2. Waiting' = Waiting
    BY <1>4 DEF InsertAuditLog, Waiting
  <2>3. CASE /\ auditor' = AtTop
             /\ auditLog' \cup givenUp' = auditLog \cup givenUp \cup {auditor.record}
    <3>1. AdminTypes'
      BY <1>4, <2>3, TopFields DEF InsertAuditLog, AdminInv, AdminTypes
    <3> QED
      BY <1>4, <2>1, <2>2, <2>3, <3>1, TopFields
      DEF InsertAuditLog, AdminInv, RecordPart, StagePart
  <2>4. CASE /\ auditor' = Auditor("insert", auditor.record, auditor.attempt + 1)
             /\ UNCHANGED <<auditLog, givenUp>>
    <3>1. auditor.record \in Handlers \cup {NoRecord} /\ auditor.attempt \in Nat
      BY DEF AdminInv, AdminTypes
    <3>2. auditor.attempt + 1 \in Nat
      BY <3>1
    <3>3. /\ auditor' \in [pc : AuditorPCs, record : Handlers \cup {NoRecord}, attempt : Nat]
          /\ auditor'.pc = "insert" /\ auditor'.record = auditor.record
      BY <1>0, <2>4, <3>1, <3>2, AuditorFields
    <3>4. AdminTypes'
      BY <1>4, <3>3 DEF InsertAuditLog, AdminInv, AdminTypes
    <3> QED
      BY <1>4, <2>1, <2>2, <2>4, <3>3, <3>4, ZenonT(30) DEF InsertAuditLog, AdminInv, RecordPart, StagePart
  <2> QED
    BY <1>4, <2>3, <2>4 DEF InsertAuditLog
<1> QED
  BY <1>1, <1>2, <1>3, <1>4 DEF AuditorStep, TestQueue

\* main: every stage begins when the one before has done its work.
LEMMA ShutdownInv ==
  ASSUME AdminInv, ExecutorStopped \/ ShutdownStep
  PROVE  AdminInv'
<1>1. UNCHANGED <<handler, auditQueue, auditLog, givenUp>> /\ Waiting' = Waiting
  BY Zenon DEF ExecutorStopped, ShutdownStep, AuditStop, AuditNotify, AuditJoined, DatabaseStopped,
         Waiting
<1>2. CASE AuditNotify
  <2>1. AdminTypes'
    BY <1>1, <1>2, TopFields DEF AuditNotify, AfterNotify, AdminInv, AdminTypes
  <2>2. auditor'.pc = "insert" \/ auditor'.pc = "exit" <=> auditor.pc = "insert" \/ auditor.pc = "exit"
    BY <1>2, TopFields DEF AuditNotify, AfterNotify
  <2>3. auditor.pc \in {"insert", "exit"} => auditor' = auditor
    BY <1>2 DEF AuditNotify, AfterNotify
  <2>4. RecordPart'
    BY <1>1, <2>3 DEF AdminInv, RecordPart
  <2>5. StagePart'
    BY <1>1, <1>2, <2>2, <2>3 DEF AuditNotify, AdminInv, StagePart
  <2> QED
    BY <2>1, <2>4, <2>5 DEF AdminInv
<1>3. CASE ExecutorStopped \/ AuditStop \/ AuditJoined \/ DatabaseStopped
  <2>1. UNCHANGED auditor
    BY <1>3 DEF ExecutorStopped, AuditStop, AuditJoined, DatabaseStopped
  <2>2. AdminTypes'
    BY <1>1, <1>3, <2>1
    DEF ExecutorStopped, AfterExecutor, AuditStop, AuditJoined, DatabaseStopped, AdminInv, AdminTypes
  <2>3. RecordPart'
    BY <1>1, <2>1 DEF AdminInv, RecordPart
  <2>4. StagePart'
    BY <1>1, <1>3, <2>1, ZenonT(30)
    DEF ExecutorStopped, AfterExecutor, AuditStop, AuditJoined, DatabaseStopped, AdminInv, StagePart
  <2> QED
    BY <2>2, <2>3, <2>4 DEF AdminInv
<1> QED
  BY <1>2, <1>3 DEF ShutdownStep

\* The invariant of oj_admin, for any number of requests.
THEOREM AdminInvariant == AdminSpec => []AdminInv
<1>1. AdminInv /\ [AdminNext]_adminVars => AdminInv'
  <2> SUFFICES ASSUME AdminInv, [AdminNext]_adminVars PROVE AdminInv'
    OBVIOUS
  <2>1. CASE UNCHANGED adminVars
    BY <2>1 DEF adminVars, AdminInv, AdminTypes, RecordPart, StagePart, Waiting
  <2> QED
    BY <2>1, HandlerInv, AuditorInv, ShutdownInv DEF AdminNext
<1> QED
  BY <1>1, AdminInitInv, PTL DEF AdminSpec

\* When main stops the database, every accepted audit record has been inserted
\* or its three attempts have failed.
THEOREM AdminAuditedBeforeExit == AdminSpec => []AuditedBeforeExit
<1>1. AdminInv => AuditedBeforeExit
  BY DEF AdminInv, RecordPart, StagePart, Waiting, AuditedBeforeExit
<1> QED
  BY <1>1, AdminInvariant, PTL

\* No audit record is inserted after main has stopped the database.
THEOREM AdminDatabaseStaysDown == AdminSpec => []DatabaseStaysDown
<1>1. AdminInv => DatabaseStaysDown
  BY DEF AdminInv, StagePart, DatabaseStaysDown
<1> QED
  BY <1>1, AdminInvariant, PTL
=============================================================================
