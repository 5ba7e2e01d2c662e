----------------------------- MODULE JudgeInbox -----------------------------
(***************************************************************************)
(* The idempotent consumer of the judge service: workers that claim a      *)
(* message in Redis, judge it, complete the claim and report the stored    *)
(* result (JudgeConsumer::HandleMessage around JudgeInbox).                *)
(*                                                                         *)
(* A worker is one delivery of a message on some judge node.  The same     *)
(* message can be delivered to several workers at once and again later;    *)
(* leases and keys expire; a worker can crash; and the reply of a script   *)
(* can be lost after the script ran.                                       *)
(***************************************************************************)
EXTENDS InboxScripts

CONSTANTS
  Messages,
  Workers,
  MaxClaims   \* bound on the number of claim tokens drawn

ASSUME MaxClaimsIsNat == MaxClaims \in Nat

VARIABLES
  inbox,      \* inbox[m]: the Redis hash of message m
  work,       \* work[w]: what worker w is doing
  issued,     \* claim tokens drawn so far (RandomToken never repeats)
  reported    \* reported[m]: results sent while the completed key lives

vars == <<inbox, work, issued, reported>>

Task(pc, m, b, token, r) ==
  [pc |-> pc, msg |-> m, body |-> b, token |-> token, result |-> r]

Idle == Task("idle", None, None, 0, None)

WorkType ==
  [pc : {"idle", "judging", "judged", "report"},
   msg : Messages \cup {None},
   body : Bodies \cup {None},
   token : Nat,
   result : Results \cup {None}]

TypeOK ==
  /\ inbox \in [Messages -> HashType]
  /\ work \in [Workers -> WorkType]
  /\ issued \in Nat
  /\ reported \in [Messages -> SUBSET Results]

Init ==
  /\ inbox = [m \in Messages |-> NoHash]
  /\ work = [w \in Workers |-> Idle]
  /\ issued = 0
  /\ reported = [m \in Messages |-> {}]

-----------------------------------------------------------------------------
\* HandleMessage up to the claim: STARTED hands the delivery to a judger,
\* COMPLETED goes straight to FinishDelivery with the stored result, every
\* other reply returns the delivery to the broker.
Claim(w, m, b) ==
  LET reply == ClaimReply(inbox[m], b)
  IN  /\ work[w].pc = "idle"
      /\ issued < MaxClaims
      /\ issued' = issued + 1
      /\ inbox' = [inbox EXCEPT ![m] = ClaimEffect(@, b, issued + 1)]
      /\ work' = [work EXCEPT ![w] =
           IF reply = "STARTED"
           THEN Task("judging", m, b, issued + 1, None)
           ELSE IF reply = "COMPLETED"
           THEN Task("report", m, b, 0, inbox[m].result)
           ELSE Idle]
      /\ UNCHANGED reported

\* ClaimResult::Error after the script ran: the token is owned by nobody.
ClaimReplyLost(w, m, b) ==
  /\ work[w].pc = "idle"
  /\ issued < MaxClaims
  /\ issued' = issued + 1
  /\ inbox' = [inbox EXCEPT ![m] = ClaimEffect(@, b, issued + 1)]
  /\ UNCHANGED <<work, reported>>

\* The judger (or the cancellation in the event loop) produced a result.
Judge(w, r) ==
  /\ work[w].pc = "judging"
  /\ work' = [work EXCEPT ![w] = Task("judged", @.msg, @.body, @.token, r)]
  /\ UNCHANGED <<inbox, issued, reported>>

\* The completion callback: Complete, and FinishDelivery only if it succeeded.
Complete(w) ==
  LET t == work[w]
      reply == CompleteReply(inbox[t.msg], t.body, t.token, t.result)
  IN  /\ t.pc = "judged"
      /\ inbox' = [inbox EXCEPT ![t.msg] =
                     CompleteEffect(@, t.body, t.token, t.result)]
      /\ work' = [work EXCEPT ![w] =
                    IF reply = "COMPLETED"
                    THEN Task("report", t.msg, t.body, 0, t.result) ELSE Idle]
      /\ UNCHANGED <<issued, reported>>

\* CompleteResult::Error after the script ran: the delivery is retried.
CompleteReplyLost(w) ==
  LET t == work[w]
  IN  /\ t.pc = "judged"
      /\ inbox' = [inbox EXCEPT ![t.msg] =
                     CompleteEffect(@, t.body, t.token, t.result)]
      /\ work' = [work EXCEPT ![w] = Idle]
      /\ UNCHANGED <<issued, reported>>

\* FinishDelivery sends the result to the business service.
Report(w) ==
  /\ work[w].pc = "report"
  /\ reported' = [reported EXCEPT ![work[w].msg] = @ \cup {work[w].result}]
  /\ work' = [work EXCEPT ![w] = Idle]
  /\ UNCHANGED <<inbox, issued>>

\* The judge node stops without finishing the delivery.
Crash(w) ==
  /\ work[w].pc # "idle"
  /\ work' = [work EXCEPT ![w] = Idle]
  /\ UNCHANGED <<inbox, issued, reported>>

\* The clock of Redis passes lease_until.
LeaseExpires(m) ==
  /\ inbox[m].state = "processing"
  /\ inbox[m].leased
  /\ inbox' = [inbox EXCEPT ![m] = LeaseOver(@)]
  /\ UNCHANGED <<work, issued, reported>>

\* PEXPIRE removes the key: a processing key outlives its lease by
\* processing_retention_ms; a completed key lives for days, longer than any
\* report (a 5 s RPC) of the result it holds.
KeyExpires(m) ==
  /\ \/ inbox[m].state = "processing" /\ ~inbox[m].leased
     \/ /\ inbox[m].state = "completed"
        /\ \A w \in Workers : ~(work[w].pc = "report" /\ work[w].msg = m)
  /\ inbox' = [inbox EXCEPT ![m] = NoHash]
  /\ reported' = [reported EXCEPT ![m] = {}]
  /\ UNCHANGED <<work, issued>>

Next ==
  \/ \E w \in Workers :
       \/ \E m \in Messages, b \in Bodies : Claim(w, m, b) \/ ClaimReplyLost(w, m, b)
       \/ \E r \in Results : Judge(w, r)
       \/ Complete(w) \/ CompleteReplyLost(w) \/ Report(w) \/ Crash(w)
  \/ \E m \in Messages : LeaseExpires(m) \/ KeyExpires(m)

Spec == Init /\ [][Next]_vars

-----------------------------------------------------------------------------
\* The results sent for a message agree, whoever judged it and however often
\* it was redelivered, as long as its completed key lives (README: the claim
\* token and the completed result prevent writing a result twice).
ReportsAgree ==
  \A m \in Messages : \A r1, r2 \in reported[m] : r1 = r2

\* The result a worker is about to send is the one stored in the inbox, so a
\* retry of the report after a lost answer sends the same payload again.
ReportIsStored ==
  \A w \in Workers : work[w].pc = "report" =>
    /\ inbox[work[w].msg].state = "completed"
    /\ inbox[work[w].msg].result = work[w].result

\* The inductive invariant behind both.
InboxInv ==
  /\ TypeOK
  /\ \A m \in Messages :
       /\ inbox[m].state = "completed" <=> inbox[m].result # None
       /\ inbox[m].leased => inbox[m].state = "processing"
       /\ reported[m] \subseteq {inbox[m].result}
  /\ \A w \in Workers :
       /\ work[w].pc # "idle" => work[w].msg \in Messages /\ work[w].body \in Bodies
       /\ work[w].pc \in {"judged", "report"} => work[w].result \in Results
       /\ work[w].token <= issued
  /\ ReportIsStored

\* While a worker judges a message under a live lease no second worker starts
\* judging it (the claim token keeps a redelivered message from being judged
\* twice).
NoDuplicateJudging ==
  [][\A w1, w2 \in Workers :
       /\ w1 # w2
       /\ work[w1].pc \in {"judging", "judged"}
       /\ work[w1].msg \in Messages
       /\ inbox[work[w1].msg].owner = work[w1].token
       /\ inbox[work[w1].msg].leased
       /\ work[w2].pc = "idle"
       => ~(work'[w2].pc = "judging" /\ work'[w2].msg = work[w1].msg)]_vars

\* The inbox implements the write-once register.
Register ==
  INSTANCE ResultRegister WITH
    decided <- [m \in Messages |-> inbox[m].result]

RegisterSpec == Register!Spec
=============================================================================
