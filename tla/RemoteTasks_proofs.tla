------------------------- MODULE RemoteTasks_proofs -------------------------
(***************************************************************************)
(* What a sender may conclude, for every number of messages, delegations,  *)
(* attempts and restarts: the safety properties of RemoteTasks follow from *)
(* one invariant about what has been posted and accepted (PostedInv), one  *)
(* about identifiers that were posted once (OnceInv), and one about the    *)
(* count of the breaker (BreakerInv).                                      *)
(***************************************************************************)
EXTENDS RemoteTasks, FiniteSetTheorems, TLAPS

USE RemoteTasksAssumption DEF Request, Id

\* The sender of a message, and of a delegated task.
MessagePC == {"idle", "posting", "backoff", "delivered", "undelivered", "local"}
DelegationPC == {"idle", "posting", "polling", "completed", "failed", "timeout", "threw"}

\* Nothing was posted for who is idle or was refused; requests and answers belong
\* to attempts that were made.
PostedInv ==
  /\ \A m \in Message : pc[m] \in MessagePC
  /\ \A d \in Delegation : pc[d] \in DelegationPC /\ attempt[d] <= 1
  /\ \A i \in Id : pc[i] \in {"idle", "local"} <=> attempt[i] = 0
  /\ \A m \in Message : pc[m] = "backoff" => attempt[m] < MaxAttempts
  /\ \A r \in requests \cup answers : r[2] <= attempt[r[1]]

\* One step of a message's sender.
MessageStep(m) == Sends(m) \/ Proceeds(m)

\* One step of a delegated task's client.
DelegationStep(d) == Delegate(d) \/ Waits(d)

\* A step that leaves the senders alone.
ServerStep ==
  \/ \E r \in requests : Accept(r)
  \/ \E i \in Id : Ends(i)
  \/ Restart

LEMMA NextSplits ==
  Next <=> \/ \E m \in Message : MessageStep(m)
           \/ \E d \in Delegation : DelegationStep(d)
           \/ Rest
           \/ ServerStep
  BY DEF Next, MessageStep, DelegationStep, ServerStep

\* The type invariant and what has been posted.
LEMMA PostedStep ==
  ASSUME TypeOK, PostedInv, [Next]_vars
  PROVE  TypeOK' /\ PostedInv'
  <1> USE DEF TypeOK, PostedInv, MessagePC, DelegationPC, PC
  <1>1. CASE \E m \in Message : MessageStep(m)
    <2>1. PICK m \in Message : MessageStep(m)
      BY <1>1
    <2>2. CASE Send(m)
      BY <2>2 DEF Send, Post, server
    <2>3. CASE FallBack(m)
      BY <2>3 DEF FallBack, server
    <2>4. CASE Delivered(m)
      BY <2>4 DEF Delivered, server
    <2>5. CASE BackOff(m)
      BY <2>5 DEF BackOff, server
    <2>6. CASE Retry(m)
      BY <2>6 DEF Retry, Post, server
    <2>7. CASE HandleFailure(m)
      BY <2>7 DEF HandleFailure, server
    <2> QED
      BY <2>1, <2>2, <2>3, <2>4, <2>5, <2>6, <2>7 DEF MessageStep, Sends, Proceeds
  <1>2. CASE \E d \in Delegation : DelegationStep(d)
    <2>1. PICK d \in Delegation : DelegationStep(d)
      BY <1>2
    <2>2. CASE Delegate(d)
      BY <2>2 DEF Delegate, Post, server
    <2>3. CASE Waits(d)
      BY <2>3 DEF Waits, Accepted, Throws, Poll, GiveUp, server
    <2> QED
      BY <2>1, <2>2, <2>3 DEF DelegationStep
  <1>3. CASE Rest
    BY <1>3 DEF Rest, server
  <1>4. CASE ServerStep
    <2>1. CASE \E r \in requests : Accept(r)
      BY <2>1 DEF Accept
    <2>2. CASE \E i \in Id : Ends(i)
      <3>1. PICK i \in Id, result \in {"completed", "failed"} : RunEnds(i, result)
        BY <2>2 DEF Ends
      <3>2. runs' \in [Id -> Nat]
        BY <3>1 DEF RunEnds
      <3>3. ran' \in [Delegation -> SUBSET {"completed", "failed"}]
        BY <3>1 DEF RunEnds
      <3> QED
        BY <3>1, <3>2, <3>3 DEF RunEnds
    <2>3. CASE Restart
      BY <2>3 DEF Restart
    <2> QED
      BY <1>4, <2>1, <2>2, <2>3 DEF ServerStep
  <1>5. CASE UNCHANGED vars
    BY <1>5 DEF vars
  <1> QED
    BY <1>1, <1>2, <1>3, <1>4, <1>5, NextSplits

LEMMA Posted == Spec => [](TypeOK /\ PostedInv)
  <1>1. Init => TypeOK /\ PostedInv
    BY DEF Init, TypeOK, PostedInv, MessagePC, DelegationPC, PC
  <1>2. TypeOK /\ PostedInv /\ [Next]_vars => TypeOK' /\ PostedInv'
    BY PostedStep
  <1> QED
    BY <1>1, <1>2, PTL DEF Spec

\* All variables keep to their types (a2a-transport.ts, a2a-client.ts and
\* a2a-server.ts): no message is attempted more than MaxAttempts times.
THEOREM TypeCorrect == Spec => []TypeOK
  BY Posted, PTL

\* No message is given to the local agent of which a request was ever made: it is
\* never handled on both sides, because a failed delivery is not repeated locally
\* (hybrid-transport.ts:81, a2a-msghub.ts:87).
THEOREM OneDeliveryHolds == Spec => []OneDelivery
  <1>1. TypeOK /\ PostedInv => OneDelivery
    BY DEF TypeOK, PostedInv, OneDelivery
  <1> QED
    BY <1>1, Posted, PTL

\* What is reported as running is running (a2a-server.ts:148, 222).
THEOREM RunningMeansRunHolds == Spec => []RunningMeansRun
  <1>1. Init => RunningMeansRun
    BY DEF Init, RunningMeansRun
  <1>2. TypeOK /\ RunningMeansRun /\ [Next]_vars => RunningMeansRun'
    <2> SUFFICES ASSUME TypeOK, RunningMeansRun, [Next]_vars
                 PROVE  RunningMeansRun'
      OBVIOUS
    <2>1. CASE UNCHANGED <<entry, runs>>
      BY <2>1 DEF RunningMeansRun
    <2>2. CASE ServerStep
      BY <2>2 DEF ServerStep, Accept, Ends, RunEnds, Restart, RunningMeansRun, TypeOK
    <2>3. ServerStep \/ UNCHANGED <<entry, runs>>
      BY NextSplits DEF vars, server, MessageStep, Sends, Proceeds, DelegationStep, Waits, Rest,
         Send, FallBack, Delivered, BackOff, Retry, HandleFailure, Delegate, Accepted, Throws,
         Poll, GiveUp
    <2> QED
      BY <2>1, <2>2, <2>3
  <1> QED
    BY <1>1, <1>2, TypeCorrect, PTL DEF Spec
-----------------------------------------------------------------------------
(***************************************************************************)
(* Identifiers that were posted once                                       *)
(***************************************************************************)

\* An identifier that was posted once is accepted once and run once.
AcceptedOnce(i) ==
  attempt[i] <= 1 =>
    /\ <<i, 1>> \notin requests \/ <<i, 1>> \notin answers
    /\ <<i, 1>> \notin answers => entry[i] = "none"
    /\ entry[i] = "none" => runs[i] = 0
    /\ entry[i] \in {"completed", "failed"} => runs[i] = 0
    /\ runs[i] <= 1
    /\ entry[i] = "none" /\ <<i, 1>> \in answers => restarts > 0

\* Its run, if it is a delegated task, has ended once at most; and what its
\* client made of it.
RanOnce(d) ==
  /\ <<d, 1>> \notin answers => ran[d] = {}
  /\ runs[d] > 0 => ran[d] = {}
  /\ entry[d] \in {"completed", "failed"} => ran[d] = {entry[d]}
  /\ pc[d] \in {"polling", "completed", "failed", "timeout"} => <<d, 1>> \in answers
  /\ pc[d] = "completed" => ran[d] = {"completed"} /\ runs[d] = 0

OnceInv == (\A i \in Id : AcceptedOnce(i)) /\ (\A d \in Delegation : RanOnce(d))

\* The senders do not touch the server's side, and the answers only grow.
LEMMA SendersStep ==
  ASSUME TypeOK, PostedInv, OnceInv,
         UNCHANGED <<answers, server>>,
         NEW j \in Id,
         \/ UNCHANGED <<attempt, requests>>
         \/ Post(j) /\ (attempt[j] = 0 \/ (j \in Message /\ attempt[j] \in 1..(MaxAttempts - 1)))
  PROVE  \A i \in Id : AcceptedOnce(i)'
  BY DEF TypeOK, PostedInv, OnceInv, AcceptedOnce, Post, server

LEMMA OnceStep ==
  ASSUME TypeOK, PostedInv, OnceInv, [Next]_vars
  PROVE  OnceInv'
  <1>1. CASE \E m \in Message : MessageStep(m)
    <2>1. PICK m \in Message : MessageStep(m)
      BY <1>1
    <2>2. UNCHANGED <<answers, server>>
      BY <2>1 DEF MessageStep, Sends, Proceeds, Send, FallBack, Delivered, BackOff, Retry, HandleFailure
    <2>3. \/ UNCHANGED <<attempt, requests>>
          \/ Post(m) /\ (attempt[m] = 0 \/ (m \in Message /\ attempt[m] \in 1..(MaxAttempts - 1)))
      <3>1. CASE FallBack(m) \/ Delivered(m) \/ BackOff(m) \/ HandleFailure(m)
        BY <3>1 DEF FallBack, Delivered, BackOff, HandleFailure
      <3>2. CASE Send(m)
        <4>1. attempt[m] = 0
          BY <3>2 DEF Send, PostedInv
        <4> QED
          BY <3>2, <4>1 DEF Send
      <3>3. CASE Retry(m)
        <4>1. attempt[m] \in 1..(MaxAttempts - 1)
          BY <3>3 DEF Retry, PostedInv, TypeOK
        <4> QED
          BY <3>3, <4>1 DEF Retry
      <3> QED
        BY <2>1, <3>1, <3>2, <3>3 DEF MessageStep, Sends, Proceeds
    <2>4. \A d \in Delegation : pc'[d] = pc[d]
      BY <2>1 DEF MessageStep, Sends, Proceeds, Send, FallBack, Delivered, BackOff, Retry,
         HandleFailure, TypeOK
    <2>5. \A i \in Id : AcceptedOnce(i)'
      <3>1. PICK j \in Id :
              \/ UNCHANGED <<attempt, requests>>
              \/ Post(j) /\ (attempt[j] = 0 \/ (j \in Message /\ attempt[j] \in 1..(MaxAttempts - 1)))
        BY <2>3
      <3> QED
        BY <2>2, <3>1, SendersStep
    <2> QED
      BY <2>2, <2>4, <2>5 DEF OnceInv, RanOnce, server
  <1>2. CASE \E d \in Delegation : DelegationStep(d)
    <2>1. PICK d \in Delegation : DelegationStep(d)
      BY <1>2
    <2>2. UNCHANGED <<answers, server>>
      BY <2>1 DEF DelegationStep, Waits, Delegate, Accepted, Throws, Poll, GiveUp
    <2>3. \/ UNCHANGED <<attempt, requests>>
          \/ Post(d) /\ (attempt[d] = 0 \/ (d \in Message /\ attempt[d] \in 1..(MaxAttempts - 1)))
      <3>1. UNCHANGED <<attempt, requests>> \/ (Post(d) /\ pc[d] = "idle")
        BY <2>1 DEF DelegationStep, Waits, Delegate, Accepted, Throws, Poll, GiveUp
      <3>2. CASE UNCHANGED <<attempt, requests>>
        BY <3>2
      <3>3. CASE Post(d) /\ pc[d] = "idle"
        <4>1. attempt[d] = 0
          BY <3>3 DEF PostedInv
        <4> QED
          BY <3>3, <4>1
      <3> QED
        BY <3>1, <3>2, <3>3
    <2>4. \A i \in Id : AcceptedOnce(i)'
      <3>1. PICK j \in Id :
              \/ UNCHANGED <<attempt, requests>>
              \/ Post(j) /\ (attempt[j] = 0 \/ (j \in Message /\ attempt[j] \in 1..(MaxAttempts - 1)))
        BY <2>3
      <3> QED
        BY <2>2, <3>1, SendersStep
    <2>5. \A e \in Delegation \ {d} : pc'[e] = pc[e]
      BY <2>1 DEF DelegationStep, Waits, Delegate, Accepted, Throws, Poll, GiveUp, TypeOK
    <2>6. RanOnce(d)'
      <3>1. AcceptedOnce(d) /\ RanOnce(d) /\ attempt[d] <= 1 /\ entry[d] \in {"none", "running", "completed", "failed"}
        BY DEF OnceInv, PostedInv, TypeOK
      <3> QED
        BY <2>1, <2>2, <3>1 DEF DelegationStep, Waits, Delegate, Accepted, Throws, Poll, GiveUp,
           RanOnce, AcceptedOnce, TypeOK, server
    <2> QED
      BY <2>2, <2>4, <2>5, <2>6 DEF OnceInv, RanOnce, server
  <1>3. CASE \E r \in requests : Accept(r)
    <2>1. PICK r \in requests : Accept(r)
      BY <1>3
    <2>2. r = <<r[1], r[2]>> /\ r[1] \in Id /\ r[2] \in 1..MaxAttempts /\ r[2] <= attempt[r[1]]
      BY DEF TypeOK, PostedInv
    <2>3. \A i \in Id \ {r[1]} : AcceptedOnce(i)'
      BY <2>1, <2>2 DEF Accept, OnceInv, AcceptedOnce, TypeOK
    <2>4. AcceptedOnce(r[1])'
      BY <2>1, <2>2 DEF Accept, OnceInv, AcceptedOnce, TypeOK
    <2>5. \A d \in Delegation \ {r[1]} : RanOnce(d)'
      BY <2>1, <2>2 DEF Accept, OnceInv, RanOnce, TypeOK
    <2>6. r[1] \in Delegation => RanOnce(r[1])'
      BY <2>1, <2>2 DEF Accept, OnceInv, AcceptedOnce, RanOnce, TypeOK, PostedInv
    <2> QED
      BY <2>3, <2>4, <2>5, <2>6 DEF OnceInv
  <1>4. CASE \E i \in Id : Ends(i)
    <2>1. PICK i \in Id, result \in {"completed", "failed"} : RunEnds(i, result)
      BY <1>4 DEF Ends
    <2>2. \A j \in Id : AcceptedOnce(j)'
      BY <2>1 DEF RunEnds, OnceInv, AcceptedOnce, TypeOK
    <2>3. \A d \in Delegation \ {i} : RanOnce(d)'
      BY <2>1 DEF RunEnds, OnceInv, RanOnce, TypeOK
    <2>4. i \in Delegation => RanOnce(i)'
      BY <2>1 DEF RunEnds, OnceInv, AcceptedOnce, RanOnce, TypeOK, PostedInv
    <2> QED
      BY <2>2, <2>3, <2>4 DEF OnceInv
  <1>5. CASE Restart
    BY <1>5 DEF Restart, OnceInv, AcceptedOnce, RanOnce, TypeOK
  <1>6. CASE Rest \/ UNCHANGED vars
    BY <1>6 DEF Rest, vars, server, OnceInv, AcceptedOnce, RanOnce
  <1> QED
    BY <1>1, <1>2, <1>3, <1>4, <1>5, <1>6, NextSplits DEF ServerStep

LEMMA Once == Spec => []OnceInv
  <1>1. Init => OnceInv
    BY DEF Init, OnceInv, AcceptedOnce, RanOnce
  <1>2. TypeOK /\ PostedInv /\ OnceInv /\ [Next]_vars => OnceInv'
    BY OnceStep
  <1> QED
    BY <1>1, <1>2, Posted, PTL DEF Spec

\* What delegate() reports as completed has been run once, and completed
\* (a2a-client.ts:200), for every number of restarts.
THEOREM CompletionIsTrueHolds == Spec => []CompletionIsTrue
  <1>1. OnceInv => CompletionIsTrue
    BY DEF OnceInv, RanOnce, CompletionIsTrue
  <1> QED
    BY <1>1, Once, PTL

\* A final status only changes for a message that was posted again, or by a
\* restart (a2a-server.ts:148).
THEOREM FinalStatusHolds == Spec => FinalStatus
  <1> DEFINE Final(i) == entry[i] \in {"completed", "failed"}
                           => \/ entry'[i] \in {entry[i], "none"}
                              \/ i \in Message /\ attempt[i] > 1
  <1>1. TypeOK /\ PostedInv /\ OnceInv /\ [Next]_vars => [\A i \in Id : Final(i)]_vars
    <2> SUFFICES ASSUME TypeOK, PostedInv, OnceInv, [Next]_vars, NEW i \in Id
                 PROVE  Final(i)
      OBVIOUS
    <2>1. CASE UNCHANGED entry
      BY <2>1
    <2>2. CASE \E r \in requests : Accept(r)
      BY <2>2 DEF Accept, OnceInv, AcceptedOnce, TypeOK, PostedInv
    <2>3. CASE \E j \in Id : Ends(j)
      <3>1. PICK j \in Id, result \in {"completed", "failed"} : RunEnds(j, result)
        BY <2>3 DEF Ends
      <3>2. CASE j # i
        BY <3>1, <3>2 DEF RunEnds, TypeOK
      <3>3. CASE j = i /\ attempt[i] <= 1
        <4>1. AcceptedOnce(i) /\ runs[i] > 0
          BY <3>1, <3>3 DEF RunEnds, OnceInv
        <4> QED
          BY <3>3, <4>1 DEF AcceptedOnce, TypeOK
      <3>4. CASE attempt[i] > 1
        BY <3>4 DEF PostedInv, TypeOK
      <3>5. attempt[i] \in Nat
        BY DEF TypeOK
      <3> QED
        BY <3>2, <3>3, <3>4, <3>5
    <2>4. CASE Restart
      BY <2>4 DEF Restart
    <2>5. ServerStep \/ UNCHANGED entry
      BY NextSplits DEF vars, server, MessageStep, Sends, Proceeds, DelegationStep, Waits, Rest,
         Send, FallBack, Delivered, BackOff, Retry, HandleFailure, Delegate, Accepted, Throws,
         Poll, GiveUp
    <2> QED
      BY <2>1, <2>2, <2>3, <2>4, <2>5 DEF ServerStep
  <1> QED
    BY <1>1, Posted, Once, PTL DEF Spec, FinalStatus

-----------------------------------------------------------------------------
(***************************************************************************)
(* The breaker                                                             *)
(***************************************************************************)

Undelivered == {x \in Message : pc[x] = "undelivered"}

\* The breaker has counted no more failures than there are messages that were not
\* delivered, and an open one has counted up to the threshold.
BreakerInv ==
  /\ \E U \in SUBSET Undelivered : IsFiniteSet(U) /\ Cardinality(U) = breaker.failures
  /\ breaker.state = "open" => breaker.failures = Threshold
  /\ \A x \in Undelivered : attempt[x] = MaxAttempts
  /\ \A m \in Message : pc[m] = "local"
        => \E U \in SUBSET Undelivered : Cardinality(U) = Threshold

LEMMA BreakerStep ==
  ASSUME TypeOK, PostedInv, BreakerInv, [Next]_vars
  PROVE  BreakerInv'
  <1> USE DEF TypeOK
  <1>1. PICK U \in SUBSET Undelivered : IsFiniteSet(U) /\ Cardinality(U) = breaker.failures
    BY DEF BreakerInv
  <1>2. CASE \E m \in Message : Send(m)
    BY <1>1, <1>2 DEF Send, Post, BreakerInv, Undelivered
  <1>3. CASE \E m \in Message : FallBack(m)
    BY <1>1, <1>3 DEF FallBack, BreakerInv, Undelivered
  <1>4. CASE \E m \in Message : Delivered(m)
    <2>1. Undelivered' = Undelivered
      BY <1>4 DEF Delivered, Undelivered
    <2>2. {} \in SUBSET Undelivered' /\ IsFiniteSet({}) /\ Cardinality({}) = 0
      BY FS_EmptySet
    <2> QED
      BY <1>4, <2>1, <2>2 DEF Delivered, BreakerInv, Undelivered
  <1>5. CASE \E m \in Message : BackOff(m)
    BY <1>1, <1>5 DEF BackOff, BreakerInv, Undelivered
  <1>6. CASE \E m \in Message : Retry(m)
    BY <1>1, <1>6 DEF Retry, Post, BreakerInv, Undelivered
  <1>7. CASE \E m \in Message : HandleFailure(m)
    <2>1. PICK m \in Message : HandleFailure(m)
      BY <1>7
    <2>2. Undelivered' = Undelivered \cup {m} /\ m \notin Undelivered
      BY <2>1 DEF HandleFailure, Undelivered
    <2>3. /\ IsFiniteSet(U \cup {m})
          /\ Cardinality(U \cup {m}) = breaker.failures + 1
      BY <1>1, <2>2, FS_AddElement
    <2>4. \E V \in SUBSET Undelivered' : IsFiniteSet(V) /\ Cardinality(V) = breaker'.failures
      <3>1. CASE breaker.failures < Threshold
        <4>1. breaker'.failures = breaker.failures + 1
          BY <2>1, <3>1 DEF HandleFailure
        <4> QED
          BY <1>1, <2>2, <2>3, <4>1
      <3>2. CASE ~ (breaker.failures < Threshold)
        <4>1. breaker'.failures = breaker.failures
          BY <2>1, <3>2 DEF HandleFailure
        <4> QED
          BY <1>1, <2>2, <4>1
      <3> QED
        BY <3>1, <3>2
    <2> QED
      BY <2>1, <2>2, <2>4 DEF HandleFailure, BreakerInv, Undelivered
  <1>8. CASE \E d \in Delegation : DelegationStep(d)
    <2>1. UNCHANGED breaker /\ (\A m \in Message : pc'[m] = pc[m] /\ attempt'[m] = attempt[m])
      BY <1>8 DEF DelegationStep, Waits, Delegate, Post, Accepted, Throws, Poll, GiveUp
    <2>2. Undelivered' = Undelivered
      BY <2>1 DEF Undelivered
    <2> QED
      BY <2>1, <2>2 DEF BreakerInv, Undelivered
  <1>9. CASE Rest
    BY <1>1, <1>9 DEF Rest, BreakerInv, Undelivered
  <1>10. CASE ServerStep \/ UNCHANGED vars
    <2>1. UNCHANGED <<pc, attempt, breaker>>
      BY <1>10 DEF ServerStep, Accept, Ends, RunEnds, Restart, vars
    <2> QED
      BY <2>1 DEF BreakerInv, Undelivered
  <1> QED
    BY <1>2, <1>3, <1>4, <1>5, <1>6, <1>7, <1>8, <1>9, <1>10, NextSplits
       DEF MessageStep, Sends, Proceeds

\* Local delivery is for when Threshold messages have failed for good
\* (a2a-transport.ts:249).
THEOREM FallbackMeansFailuresHolds == Spec => []FallbackMeansFailures
  <1>1. Init => BreakerInv
    <2>1. {} \in SUBSET Undelivered /\ IsFiniteSet({}) /\ Cardinality({}) = 0
      BY FS_EmptySet
    <2> QED
      BY <2>1 DEF Init, BreakerInv, Undelivered
  <1>2. TypeOK /\ PostedInv /\ BreakerInv /\ [Next]_vars => BreakerInv'
    BY BreakerStep
  <1>3. BreakerInv => FallbackMeansFailures
    BY DEF BreakerInv, Undelivered, FallbackMeansFailures
  <1> QED
    BY <1>1, <1>2, <1>3, Posted, PTL DEF Spec

-----------------------------------------------------------------------------
(***************************************************************************)
(* Everything that happens for an identifier uses something up             *)
(***************************************************************************)

\* The requests of one identifier are as many as attempts at most.
LEMMA RequestsOfFinite ==
  ASSUME TypeOK, NEW i \in Id
  PROVE  IsFiniteSet(RequestsOf(i)) /\ Cardinality(RequestsOf(i)) \in Nat
  <1>1. IsFiniteSet(1..MaxAttempts)
    BY FS_Interval
  <1>2. IsFiniteSet({i} \X (1..MaxAttempts))
    BY <1>1, FS_Singleton, FS_Product
  <1>3. RequestsOf(i) \subseteq {i} \X (1..MaxAttempts)
    BY DEF TypeOK, RequestsOf
  <1>4. IsFiniteSet(RequestsOf(i))
    BY <1>2, <1>3, FS_Subset
  <1> QED
    BY <1>4, FS_CardinalityType

\* What its sender may still do is a number.
LEMMA SenderLeftType ==
  ASSUME TypeOK, NEW i \in Id
  PROVE  SenderLeft(i) \in Nat
  <1>1. attempt[i] \in 0..MaxAttempts
    BY DEF TypeOK
  <1> QED
    BY <1>1 DEF SenderLeft

\* A sender that moves has fewer moves left, one fewer request for each post.
LEMMA SenderMoves ==
  ASSUME TypeOK, TypeOK', PostedInv, NEW i \in Id,
         UNCHANGED runs,
         SenderLeft(i)' < SenderLeft(i),
         requests' = requests \/ Post(i)
  PROVE  StepsLeft(i)' < StepsLeft(i)
  <1>1. /\ SenderLeft(i) \in Nat /\ SenderLeft(i)' \in Nat
        /\ runs[i] \in Nat
        /\ IsFiniteSet(RequestsOf(i)) /\ Cardinality(RequestsOf(i)) \in Nat
    <2>1. attempt'[i] \in 0..MaxAttempts
      BY DEF TypeOK
    <2>2. SenderLeft(i)' \in Nat
      BY <2>1 DEF SenderLeft
    <2> QED
      BY <2>2, SenderLeftType, RequestsOfFinite DEF TypeOK
  <1>2. PICK k \in 0..1 : Cardinality(RequestsOf(i)') = Cardinality(RequestsOf(i)) + k
    <2>1. CASE requests' = requests
      BY <2>1, <1>1 DEF RequestsOf
    <2>2. CASE Post(i)
      <3> DEFINE r == <<i, attempt[i] + 1>>
      <3>1. RequestsOf(i)' = RequestsOf(i) \cup {r}
        BY <2>2 DEF Post, RequestsOf
      <3>2. Cardinality(RequestsOf(i) \cup {r})
              = IF r \in RequestsOf(i) THEN Cardinality(RequestsOf(i))
                                        ELSE Cardinality(RequestsOf(i)) + 1
        BY <1>1, FS_AddElement
      <3> QED
        BY <1>1, <3>1, <3>2
    <2> QED
      BY <2>1, <2>2
  <1>3. StepsLeft(i)' = 3 * SenderLeft(i)' + 2 * Cardinality(RequestsOf(i)') + runs[i]
    BY DEF StepsLeft
  <1> QED
    BY <1>1, <1>2, <1>3 DEF StepsLeft

\* A step that concerns another identifier.
LEMMA OthersRest ==
  ASSUME TypeOK, NEW j \in Id, NEW i \in Id \ {j},
         UNCHANGED runs,
         \E p \in PC : pc' = [pc EXCEPT ![j] = p],
         UNCHANGED <<attempt, requests>> \/ Post(j)
  PROVE  UNCHANGED <<pc[i], attempt[i], RequestsOf(i), runs[i]>>
  BY DEF TypeOK, Post, RequestsOf

\* Retries, late requests and runs are paid for by the attempts that are left
\* (a2a-transport.ts:171, a2a-client.ts:118).
THEOREM OnlySettlesHolds == Spec => OnlySettles
  <1> DEFINE Settling(i) == \/ UNCHANGED <<pc[i], attempt[i], RequestsOf(i), runs[i]>>
                            \/ StepsLeft(i)' < StepsLeft(i)
  <1>1. TypeOK /\ TypeOK' /\ PostedInv /\ [Next]_vars => [\A i \in Id : Settling(i)]_vars
    <2> SUFFICES ASSUME TypeOK, TypeOK', PostedInv, Next, NEW i \in Id
                 PROVE  Settling(i)
      BY DEF vars
    <2>0. attempt[i] \in 0..MaxAttempts /\ attempt'[i] \in 0..MaxAttempts
      BY DEF TypeOK
    <2>1. CASE (\E m \in Message : MessageStep(m)) \/ (\E d \in Delegation : DelegationStep(d))
      <3>1. PICK j \in Id : \/ j \in Message /\ MessageStep(j)
                            \/ j \in Delegation /\ DelegationStep(j)
        BY <2>1
      <3>2. UNCHANGED runs
        BY <3>1 DEF MessageStep, Sends, Proceeds, Send, FallBack, Delivered, BackOff, Retry,
           HandleFailure, DelegationStep, Waits, Delegate, Accepted, Throws, Poll, GiveUp, server
      <3>3. \E p \in PC : pc' = [pc EXCEPT ![j] = p]
        BY <3>1 DEF MessageStep, Sends, Proceeds, Send, FallBack, Delivered, BackOff, Retry,
           HandleFailure, DelegationStep, Waits, Delegate, Accepted, Throws, Poll, GiveUp, PC
      <3>4. UNCHANGED <<attempt, requests>> \/ Post(j)
        BY <3>1 DEF MessageStep, Sends, Proceeds, Send, FallBack, Delivered, BackOff, Retry,
           HandleFailure, DelegationStep, Waits, Delegate, Accepted, Throws, Poll, GiveUp
      <3>5. CASE i # j
        BY <3>2, <3>3, <3>4, <3>5, OthersRest
      <3>6. CASE i = j
        <4>1. SenderLeft(i)' < SenderLeft(i)
          <5>1. CASE Send(i) \/ FallBack(i)
            BY <2>0, <5>1 DEF Send, FallBack, Post, TypeOK, PostedInv, SenderLeft
          <5>2. CASE Delivered(i) \/ BackOff(i) \/ HandleFailure(i)
            BY <2>0, <5>2 DEF Delivered, BackOff, HandleFailure, TypeOK, SenderLeft
          <5>3. CASE Retry(i) /\ i \in Message
            BY <2>0, <5>3 DEF Retry, Post, TypeOK, PostedInv, SenderLeft
          <5>4. CASE Delegate(i)
            BY <2>0, <5>4 DEF Delegate, Post, TypeOK, PostedInv, SenderLeft
          <5>5. CASE Waits(i)
            BY <2>0, <5>5 DEF Waits, Accepted, Throws, Poll, GiveUp, TypeOK, SenderLeft
          <5> QED
            BY <3>1, <3>6, <5>1, <5>2, <5>3, <5>4, <5>5
               DEF MessageStep, Sends, Proceeds, DelegationStep
        <4> QED
          BY <3>2, <3>4, <3>6, <4>1, SenderMoves
      <3> QED
        BY <3>5, <3>6
    <2>2. CASE Rest
      BY <2>2 DEF Rest, server, RequestsOf
    <2>3. CASE \E r \in requests : Accept(r)
      <3>1. PICK r \in requests : Accept(r)
        BY <2>3
      <3>2. r[1] \in Id
        BY DEF TypeOK
      <3>3. CASE r[1] # i
        BY <3>1, <3>2, <3>3 DEF Accept, TypeOK, RequestsOf
      <3>4. CASE r[1] = i
        <4>1. RequestsOf(i)' = RequestsOf(i) \ {r} /\ r \in RequestsOf(i)
          BY <3>1, <3>4 DEF Accept, RequestsOf
        <4>2. Cardinality(RequestsOf(i)') = Cardinality(RequestsOf(i)) - 1
          BY <4>1, RequestsOfFinite, FS_RemoveElement
        <4>3. runs'[i] = runs[i] + 1 /\ SenderLeft(i)' = SenderLeft(i) /\ runs[i] \in Nat
          BY <3>1, <3>4 DEF Accept, SenderLeft, TypeOK
        <4>4. SenderLeft(i) \in Nat /\ Cardinality(RequestsOf(i)) \in Nat
          BY SenderLeftType, RequestsOfFinite
        <4> QED
          BY <4>2, <4>3, <4>4 DEF StepsLeft
      <3> QED
        BY <3>3, <3>4
    <2>4. CASE (\E j \in Id : Ends(j)) \/ Restart
      <3>1. UNCHANGED <<pc, attempt, requests>> /\ runs[i] \in Nat /\ runs'[i] \in 0..runs[i]
        BY <2>4 DEF Ends, RunEnds, Restart, TypeOK
      <3>2. UNCHANGED <<pc[i], attempt[i], RequestsOf(i), SenderLeft(i)>>
        BY <3>1 DEF RequestsOf, SenderLeft
      <3>3. SenderLeft(i) \in Nat /\ Cardinality(RequestsOf(i)) \in Nat
        BY SenderLeftType, RequestsOfFinite
      <3>4. CASE runs'[i] = runs[i]
        BY <3>2, <3>4
      <3>5. CASE runs'[i] < runs[i]
        <4>1. Cardinality(RequestsOf(i)') = Cardinality(RequestsOf(i))
          BY <3>2
        <4>2. StepsLeft(i)' = 3 * SenderLeft(i) + 2 * Cardinality(RequestsOf(i)) + runs'[i]
          BY <3>2, <4>1 DEF StepsLeft
        <4> QED
          BY <3>1, <3>3, <3>5, <4>2 DEF StepsLeft
      <3> QED
        BY <3>1, <3>4, <3>5
    <2> HIDE DEF Settling
    <2> QED
      BY <2>1, <2>2, <2>3, <2>4, NextSplits DEF ServerStep
  <1> QED
    BY <1>1, Posted, PTL DEF Spec, OnlySettles

\* For one message or delegation this happens at most 6 * MaxAttempts + 3 times,
\* whatever the network and the server do.
THEOREM SettlingIsBounded ==
  Spec => [](\A i \in Id : StepsLeft(i) \in 0 .. 6 * MaxAttempts + 3)
  <1> DEFINE Bounded == \A i \in Id : StepsLeft(i) <= 6 * MaxAttempts + 3
             Settling == \A i \in Id : \/ UNCHANGED <<pc[i], attempt[i], RequestsOf(i), runs[i]>>
                                       \/ StepsLeft(i)' < StepsLeft(i)
  <1>1. ASSUME NEW i \in Id, TypeOK
        PROVE  StepsLeft(i) \in Nat
    <2>1. SenderLeft(i) \in Nat /\ Cardinality(RequestsOf(i)) \in Nat /\ runs[i] \in Nat
      BY <1>1, SenderLeftType, RequestsOfFinite DEF TypeOK
    <2> QED
      BY <2>1 DEF StepsLeft
  <1>2. ASSUME NEW i \in Id, TypeOK'
        PROVE  StepsLeft(i)' \in Nat
    <2>1. SenderLeft(i)' \in Nat
      <3>1. attempt'[i] \in 0..MaxAttempts
        BY <1>2 DEF TypeOK
      <3> QED
        BY <3>1 DEF SenderLeft
    <2>2. Cardinality(RequestsOf(i)') \in Nat
      <3>1. IsFiniteSet(1..MaxAttempts)
        BY FS_Interval
      <3>2. IsFiniteSet({i} \X (1..MaxAttempts))
        BY <3>1, FS_Singleton, FS_Product
      <3>3. RequestsOf(i)' \in SUBSET ({i} \X (1..MaxAttempts))
        BY <1>2 DEF TypeOK, RequestsOf
      <3> QED
        BY <3>2, <3>3, FS_Subset, FS_CardinalityType
    <2>3. runs'[i] \in Nat
      BY <1>2 DEF TypeOK
    <2> QED
      BY <2>1, <2>2, <2>3 DEF StepsLeft
  <1>3. Init => Bounded
    <2> SUFFICES ASSUME Init, NEW i \in Id
                 PROVE  StepsLeft(i) <= 6 * MaxAttempts + 3
      OBVIOUS
    <2>1. SenderLeft(i) = 2 * MaxAttempts + 1 /\ runs[i] = 0
      BY DEF Init, SenderLeft
    <2>2. RequestsOf(i) = {} /\ Cardinality({}) = 0
      BY FS_EmptySet DEF Init, RequestsOf
    <2> QED
      BY <2>1, <2>2 DEF StepsLeft
  <1>4. Bounded /\ TypeOK /\ TypeOK' /\ [Settling]_vars => Bounded'
    <2> SUFFICES ASSUME Bounded, TypeOK, TypeOK', [Settling]_vars, NEW i \in Id
                 PROVE  StepsLeft(i)' <= 6 * MaxAttempts + 3
      OBVIOUS
    <2>1. StepsLeft(i) \in Nat /\ StepsLeft(i)' \in Nat /\ StepsLeft(i) <= 6 * MaxAttempts + 3
      BY <1>1, <1>2
    <2>2. CASE StepsLeft(i)' < StepsLeft(i)
      BY <2>1, <2>2
    <2>3. CASE UNCHANGED <<pc[i], attempt[i], RequestsOf(i), runs[i]>>
      <3>1. StepsLeft(i)' = StepsLeft(i)
        BY <2>3 DEF StepsLeft, SenderLeft
      <3> QED
        BY <2>1, <3>1
    <2>4. CASE UNCHANGED vars
      <3>1. StepsLeft(i)' = StepsLeft(i)
        BY <2>4 DEF vars, server, StepsLeft, SenderLeft, RequestsOf
      <3> QED
        BY <2>1, <3>1
    <2> QED
      BY <2>2, <2>3, <2>4
  <1>5. TypeOK /\ Bounded => \A i \in Id : StepsLeft(i) \in 0 .. 6 * MaxAttempts + 3
    BY <1>1
  <1>6. Spec => [][Settling]_vars
    BY OnlySettlesHolds DEF OnlySettles
  <1> HIDE DEF Bounded, Settling
  <1> QED
    BY <1>3, <1>4, <1>5, <1>6, Posted, PTL DEF Spec

=============================================================================
