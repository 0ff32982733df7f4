---------------------------- MODULE RemoteTasks ----------------------------
(***************************************************************************)
(* Messages and tasks for an agent on another machine: the A2A transport   *)
(* with its retries and circuit breaker, its fallback to local delivery,   *)
(* the A2A client that delegates a task and polls for its end, and the A2A *)
(* server that runs what it is sent, with a network between them that      *)
(* loses and delays, and a server that may be restarted.                   *)
(*                                                                         *)
(* The location registry says throughout that the agent is remote and what *)
(* its URL is.  All that is modelled concerns one such agent: breakers are *)
(* kept for each agent, and tasks for each identifier.                     *)
(***************************************************************************)
EXTENDS Naturals, FiniteSets

CONSTANTS
    Message,       \* messages for the agent; each has an identifier
    Delegation,    \* tasks delegated to it; the server chooses the identifier
    MaxAttempts,   \* retryCount + 1
    Threshold,     \* CIRCUIT_BREAKER_THRESHOLD
    MaxRestarts    \* bound: restarts of the server

ASSUME RemoteTasksAssumption ==
    /\ Message \cap Delegation = {}
    /\ MaxAttempts \in Nat \ {0}
    /\ Threshold \in Nat \ {0}
    /\ MaxRestarts \in Nat

VARIABLES
    pc,          \* how far the sender is with each of them
    attempt,     \* requests made for it
    breaker,     \* the transport's circuit breaker for the agent
    requests,    \* requests on their way to the server
    answers,     \* answers (202) on their way back
    entry,       \* status in the server's map of tasks, or none
    runs,        \* runs of the server's orchestrator under an identifier
    restarts,    \* restarts of the server so far
    ran          \* history: how the run of a delegated task has ended

vars == <<pc, attempt, breaker, requests, answers, entry, runs, restarts, ran>>

Id == Message \cup Delegation

Request == Id \X (1..MaxAttempts)

PC == {"idle", "posting", "backoff", "polling",
       "delivered", "undelivered", "local",
       "completed", "failed", "timeout", "threw"}

TypeOK ==
    /\ pc \in [Id -> PC]
    /\ attempt \in [Id -> 0..MaxAttempts]
    /\ breaker \in [state: {"closed", "open", "half-open"},
                    failures: 0..Threshold, rested: BOOLEAN]
    /\ requests \in SUBSET Request
    /\ answers \in SUBSET Request
    /\ entry \in [Id -> {"none", "running", "completed", "failed"}]
    /\ runs \in [Id -> Nat]
    /\ restarts \in 0..MaxRestarts
    /\ ran \in [Delegation -> SUBSET {"completed", "failed"}]

Init ==
    /\ pc = [i \in Id |-> "idle"]
    /\ attempt = [i \in Id |-> 0]
    /\ breaker = [state |-> "closed", failures |-> 0, rested |-> FALSE]
    /\ requests = {}
    /\ answers = {}
    /\ entry = [i \in Id |-> "none"]
    /\ runs = [i \in Id |-> 0]
    /\ restarts = 0
    /\ ran = [d \in Delegation |-> {}]

server == <<entry, runs, restarts, ran>>

\* fetch() is called for i once more.
Post(i) ==
    /\ attempt' = [attempt EXCEPT ![i] = @ + 1]
    /\ requests' = requests \cup {<<i, attempt[i] + 1>>}

-----------------------------------------------------------------------------
(***************************************************************************)
(* The transport                                                           *)
(***************************************************************************)

\* send(): the breaker lets the message through, and is half open from now on if
\* it was open.
Send(m) ==
    /\ pc[m] = "idle"
    /\ breaker.state = "open" => breaker.rested
    /\ breaker' = [state    |-> IF breaker.state = "open" THEN "half-open" ELSE breaker.state,
                   failures |-> breaker.failures,
                   rested   |-> FALSE]
    /\ pc' = [pc EXCEPT ![m] = "posting"]
    /\ Post(m)
    /\ UNCHANGED <<answers, server>>

\* send() throws because the breaker is open, and whoever called the transport,
\* HybridTransport or A2AMsgHub, delivers the message locally.
FallBack(m) ==
    /\ pc[m] = "idle"
    /\ breaker.state = "open" /\ ~ breaker.rested
    /\ pc' = [pc EXCEPT ![m] = "local"]
    /\ UNCHANGED <<attempt, breaker, requests, answers, server>>

\* The answer is ok.  The breaker is closed, whatever happened to it meanwhile.
Delivered(m) ==
    /\ pc[m] = "posting"
    /\ <<m, attempt[m]>> \in answers
    /\ pc' = [pc EXCEPT ![m] = "delivered"]
    /\ breaker' = [state |-> "closed", failures |-> 0, rested |-> FALSE]
    /\ UNCHANGED <<attempt, requests, answers, server>>

\* Mutant: a failure counts again after each attempt.
BackOffCounts(m) ==
    /\ pc[m] = "posting"
    /\ attempt[m] < MaxAttempts
    /\ pc' = [pc EXCEPT ![m] = "backoff"]
    /\ LET n == IF breaker.failures < Threshold THEN breaker.failures + 1 ELSE Threshold
       IN  breaker' = [state    |-> IF n = Threshold THEN "open" ELSE breaker.state,
                       failures |-> n,
                       rested   |-> FALSE]
    /\ UNCHANGED <<attempt, requests, answers, server>>

\* Mutant: one attempt too many.
BackOffOnceMore(m) ==
    /\ pc[m] = "posting"
    /\ attempt[m] <= MaxAttempts
    /\ pc' = [pc EXCEPT ![m] = "backoff"]
    /\ UNCHANGED <<attempt, breaker, requests, answers, server>>

\* The attempt fails: another status, a network error, or a2aTimeoutMs have passed
\* - the request may still be on its way, or even its answer.
BackOff(m) ==
    /\ pc[m] = "posting"
    /\ attempt[m] < MaxAttempts
    /\ pc' = [pc EXCEPT ![m] = "backoff"]
    /\ UNCHANGED <<attempt, breaker, requests, answers, server>>

\* Mutant: the attempts never end.
RetryForever(m) ==
    /\ pc[m] = "backoff"
    /\ pc' = [pc EXCEPT ![m] = "posting"]
    /\ UNCHANGED <<attempt, requests, breaker, answers, server>>

\* The delay is over: the same message is posted again, without another look at
\* the breaker.
Retry(m) ==
    /\ pc[m] = "backoff"
    /\ pc' = [pc EXCEPT ![m] = "posting"]
    /\ Post(m)
    /\ UNCHANGED <<breaker, answers, server>>

\* The last attempt fails: _handleFailure().  send() returns that the message was
\* not delivered; it does not throw, so nobody falls back.  (Only the comparison
\* with the threshold matters of the count, which is kept below it.)
HandleFailure(m) ==
    /\ pc[m] = "posting"
    /\ attempt[m] = MaxAttempts
    /\ pc' = [pc EXCEPT ![m] = "undelivered"]
    /\ LET n == IF breaker.failures < Threshold THEN breaker.failures + 1 ELSE Threshold
       IN  breaker' = [state    |-> IF n = Threshold THEN "open" ELSE breaker.state,
                       failures |-> n,
                       rested   |-> FALSE]
    /\ UNCHANGED <<attempt, requests, answers, server>>

\* resetAfterMs have passed since the last failure.
Rest ==
    /\ breaker.state = "open" /\ ~ breaker.rested
    /\ breaker' = [breaker EXCEPT !.rested = TRUE]
    /\ UNCHANGED <<pc, attempt, requests, answers, server>>

-----------------------------------------------------------------------------
(***************************************************************************)
(* The client                                                              *)
(***************************************************************************)

\* delegate(): one request, no breaker and no retries.
Delegate(d) ==
    /\ pc[d] = "idle"
    /\ pc' = [pc EXCEPT ![d] = "posting"]
    /\ Post(d)
    /\ UNCHANGED <<breaker, answers, server>>

Accepted(d) ==
    /\ pc[d] = "posting"
    /\ <<d, 1>> \in answers
    /\ pc' = [pc EXCEPT ![d] = "polling"]
    /\ UNCHANGED <<attempt, breaker, requests, answers, server>>

\* fetch() fails, or the answer is not ok: delegate() throws.
Throws(d) ==
    /\ pc[d] \in {"posting", "polling"}
    /\ pc' = [pc EXCEPT ![d] = "threw"]
    /\ UNCHANGED <<attempt, breaker, requests, answers, server>>

\* Mutant: what is not running has been completed.
PollNotRunning(d) ==
    /\ pc[d] = "polling"
    /\ entry[d] # "running"
    /\ pc' = [pc EXCEPT ![d] = IF entry[d] = "failed" THEN "failed" ELSE "completed"]
    /\ UNCHANGED <<attempt, breaker, requests, answers, server>>

\* A poll that ends the loop: the task has ended, or the server does not know it
\* (404), which is taken for a failure.
Poll(d) ==
    /\ pc[d] = "polling"
    /\ entry[d] # "running"
    /\ pc' = [pc EXCEPT ![d] = IF entry[d] = "completed" THEN "completed" ELSE "failed"]
    /\ UNCHANGED <<attempt, breaker, requests, answers, server>>

\* timeoutMs have passed.
GiveUp(d) ==
    /\ pc[d] = "polling"
    /\ pc' = [pc EXCEPT ![d] = "timeout"]
    /\ UNCHANGED <<attempt, breaker, requests, answers, server>>

-----------------------------------------------------------------------------
(***************************************************************************)
(* The network and the server                                              *)
(***************************************************************************)

\* POST /a2a/tasks/send.  (A request that is lost is one that is never accepted;
\* an answer that is lost, one that nobody waits for any more.)  A task in the map
\* under the same identifier is replaced; the run that belongs to it goes on.
Accept(r) ==
    /\ r \in requests
    /\ requests' = requests \ {r}
    /\ answers' = answers \cup {r}
    /\ entry' = [entry EXCEPT ![r[1]] = "running"]
    /\ runs' = [runs EXCEPT ![r[1]] = @ + 1]
    /\ UNCHANGED <<pc, attempt, breaker, restarts, ran>>

\* Mutant: a run that throws is logged only.
RunEndsQuietly(i, result) ==
    /\ runs[i] > 0
    /\ runs' = [runs EXCEPT ![i] = @ - 1]
    /\ ran' = [d \in Delegation |-> IF d = i THEN ran[d] \cup {result} ELSE ran[d]]
    /\ entry' = IF result = "completed" THEN [entry EXCEPT ![i] = result] ELSE entry
    /\ UNCHANGED <<pc, attempt, breaker, requests, answers, restarts>>

\* Mutant: persisting a result throws, and the error is handled as the run's.
RunEndsTwice(i, result) ==
    /\ runs[i] > 0
    /\ runs' = [runs EXCEPT ![i] = IF result = "completed" THEN @ ELSE @ - 1]
    /\ ran' = [d \in Delegation |-> IF d = i THEN ran[d] \cup {result} ELSE ran[d]]
    /\ entry' = [entry EXCEPT ![i] = result]
    /\ UNCHANGED <<pc, attempt, breaker, requests, answers, restarts>>

\* A run returns or throws.  Its result is written to the task that the map has
\* under the identifier now.  _persistTaskState() finds no row with this identifier:
\* run() has given the row one of its own.
RunEnds(i, result) ==
    /\ runs[i] > 0
    /\ runs' = [runs EXCEPT ![i] = @ - 1]
    /\ ran' = [d \in Delegation |-> IF d = i THEN ran[d] \cup {result} ELSE ran[d]]
    /\ entry' = [entry EXCEPT ![i] = result]
    /\ UNCHANGED <<pc, attempt, breaker, requests, answers, restarts>>

\* The server's process is started again, with an empty map.
Restart ==
    /\ restarts < MaxRestarts
    /\ restarts' = restarts + 1
    /\ entry' = [i \in Id |-> "none"]
    /\ runs' = [i \in Id |-> 0]
    /\ UNCHANGED <<pc, attempt, breaker, requests, answers, ran>>

-----------------------------------------------------------------------------

Sends(m) == Send(m) \/ FallBack(m)

\* What a sender that has begun does next.
Proceeds(m) == Delivered(m) \/ BackOff(m) \/ Retry(m) \/ HandleFailure(m)

Waits(d) == Accepted(d) \/ Throws(d) \/ Poll(d) \/ GiveUp(d)

Ends(i) == \E result \in {"completed", "failed"} : RunEnds(i, result)

Next ==
    \/ \E m \in Message : Sends(m) \/ Proceeds(m)
    \/ \E d \in Delegation : Delegate(d) \/ Waits(d)
    \/ Rest
    \/ \E r \in requests : Accept(r)
    \/ \E i \in Id : Ends(i)
    \/ Restart

Spec == Init /\ [][Next]_vars

\* Every fetch has a timeout, every delay and every poll an end; runs end.
FairSpec ==
    /\ Spec
    /\ \A m \in Message : WF_vars(Proceeds(m))
    /\ \A d \in Delegation : WF_vars(Waits(d))
    /\ \A i \in Id : WF_vars(Ends(i))

-----------------------------------------------------------------------------
(***************************************************************************)
(* Properties                                                              *)
(***************************************************************************)

\* The local agent never gets a message that may have reached the remote one: who
\* is refused by the breaker has made no request (hybrid-transport.ts:81).  This is
\* the other side of FallsBackOnFailure.
OneDelivery ==
    \A m \in Message :
       pc[m] = "local" => \A r \in requests \cup answers : r[1] # m

\* A message whose last attempt to reach the remote agent fails is delivered
\* locally ("Remote agent: try A2A, fallback to local on failure",
\* hybrid-transport.ts:79).
FallsBackOnFailure ==
    [][\A m \in Message :
          pc[m] = "posting" /\ attempt[m] = MaxAttempts /\ pc'[m] # "posting"
            => pc'[m] \in {"delivered", "local"}]_vars

\* Messages are delivered locally only after so many others were not delivered at
\* all, each with all of its attempts (a2a-transport.ts:249).
FallbackMeansFailures ==
    \A m \in Message :
       pc[m] = "local" =>
          /\ \E U \in SUBSET {x \in Message : pc[x] = "undelivered"} : Cardinality(U) = Threshold
          /\ \A x \in Message : pc[x] = "undelivered" => attempt[x] = MaxAttempts

\* A delegation that is answered completed has been run, once, to a completed end:
\* neither a run that failed nor one that was forgotten is taken for it, whatever
\* the order of polls, ends and restarts (a2a-client.ts:200, a2a-server.ts:228).
CompletionIsTrue ==
    \A d \in Delegation : pc[d] = "completed" => ran[d] = {"completed"}

\* A delegation that is answered failed was not completed, also when the server was
\* restarted between the end of the run and the poll ("Task state is persisted to
\* the QOS database so it survives server restarts", docs/protocols/a2a.md:77).
CompletedIsNotForgotten ==
    \A d \in Delegation : pc[d] = "failed" => "completed" \notin ran[d]

\* No task is reported as running when nothing runs it, also when a retry has
\* replaced the task of the first run (a2a-server.ts:148, 222).
RunningMeansRun == \A i \in Id : entry[i] = "running" => runs[i] > 0

\* A status that has been final changes only for a message that was accepted more
\* than once, because an attempt was given up too early, or by a restart.
FinalStatus ==
    [][\A i \in Id :
          entry[i] \in {"completed", "failed"}
            => \/ entry'[i] \in {entry[i], "none"}
               \/ i \in Message /\ attempt[i] > 1]_vars

\* At last every send and every delegation that was begun has settled, and nothing
\* is reported as running for ever, although nobody hears of requests that arrive
\* after their sender has given up.
EverythingSettles ==
    <>[](\A i \in Id : /\ pc[i] \notin {"posting", "backoff", "polling"}
                       /\ entry[i] # "running")

\* What may still happen for an identifier: the moves of its sender, each of which
\* may be a request; the requests that may yet be accepted; and the runs.
SenderLeft(i) ==
    CASE pc[i] = "idle"    -> 2 * MaxAttempts + 1
      [] pc[i] = "posting" -> 2 * (MaxAttempts - attempt[i]) + 2
      [] pc[i] = "backoff" -> 2 * (MaxAttempts - attempt[i]) + 1
      [] pc[i] = "polling" -> 1
      [] OTHER             -> 0

RequestsOf(i) == {r \in requests : r[1] = i}

StepsLeft(i) == 3 * SenderLeft(i) + 2 * Cardinality(RequestsOf(i)) + runs[i]

\* Retries, late requests and runs do not feed each other: whatever moves for an
\* identifier uses up something that nothing gives back (a2a-transport.ts:171).
\* This is why everything settles as soon as every part of it keeps going.
OnlySettles ==
    [][\A i \in Id : \/ UNCHANGED <<pc[i], attempt[i], RequestsOf(i), runs[i]>>
                     \/ StepsLeft(i)' < StepsLeft(i)]_vars

=============================================================================
