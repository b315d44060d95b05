------------------------ MODULE RuntimeManagerProofs ------------------------
(***************************************************************************)
(* Safety of the runtime manager for any number of services.               *)
(***************************************************************************)
EXTENDS RuntimeManager, FiniteSetTheorems, TLAPS

Before == pc \in {"history", "start", "round", "poll"}

\* The starts made were of services 1, 2, ..., and those not stopped yet are
\* the first of them; the stops made so far took the others from the end.
CallsNest ==
  /\ Len(started) <= ServiceCount
  /\ \A i \in 1..Len(started) : started[i] = i
  /\ \E n \in 0..ServiceCount :
       /\ Len(started) <= n
       /\ Len(calls) = 2 * n - Len(started)
       /\ \A i \in 1..n : calls[i] = <<"start", i>>
       /\ \A i \in (n + 1)..Len(calls) : calls[i] = <<"stop", 2 * n + 1 - i>>
       /\ Before => n = Len(started)

\* How far the process has come tells what it has started.
Progress ==
  /\ pc = "history" => /\ started = <<>> /\ calls = <<>> /\ index = 1 /\ ~historyOpen
                      /\ startedCount = 0 /\ activeCount = 0
  /\ pc = "start" => index = Len(started) + 1
  /\ pc \in {"history", "start"} => completed = {}
  /\ pc \in {"round", "poll"} => Len(started) = ServiceCount
  /\ pc \in {"stopped", "exit"} => started = <<>>
  /\ pc = "exit" => ~historyOpen

\* lastError is set exactly when something failed, and the final state tells.
ErrorIsKept ==
  /\ Before => ~failure /\ ~error
  /\ pc \in {"stop", "stopped"} => (error <=> failure)
  /\ pc = "history" => published = "none"
  /\ pc = "stopped" => state = IF failure THEN "Failed" ELSE "Stopped"
  /\ LastStatusIsTrue

IInv ==
  /\ TypeOK
  /\ calls \in Seq({"start", "stop"} \X Services)
  /\ Progress
  /\ CallsNest
  /\ ErrorIsKept
  /\ CountsAgree
-----------------------------------------------------------------------------
\* The unsigned difference activeCount never runs below zero.
LEMMA CompletedFits ==
  ASSUME NEW C \in SUBSET Services
  PROVE  Cardinality(C) \in 0..ServiceCount
<1>1. IsFiniteSet(Services) /\ Cardinality(Services) = ServiceCount
  BY FS_Interval, ServiceAssumption DEF Services
<1>2. IsFiniteSet(C) /\ Cardinality(C) <= ServiceCount
  BY <1>1, FS_Subset
<1> QED
  BY <1>2, FS_CardinalityType, ServiceAssumption

LEMMA InitIInv == Init => IInv
<1> SUFFICES ASSUME Init PROVE IInv
  OBVIOUS
<1>1. TypeOK /\ calls \in Seq({"start", "stop"} \X Services)
  BY ServiceAssumption DEF Init, TypeOK, Services
<1>2. Progress /\ ErrorIsKept
  BY Zenon DEF Init, Progress, ErrorIsKept, Before, LastStatusIsTrue
<1>3. CallsNest
  BY ServiceAssumption DEF Init, CallsNest, Before
<1>4. CountsAgree
  BY FS_EmptySet DEF Init, CountsAgree
<1> QED
  BY <1>1, <1>2, <1>3, <1>4 DEF IInv

\* A step that touches neither the calls nor the started services keeps the
\* nesting, also when it leaves the phase in which nothing is stopped.
LEMMA NestingKept ==
  ASSUME CallsNest, UNCHANGED <<calls, started>>, Before' => Before
  PROVE  CallsNest'
BY DEF CallsNest

LEMMA SubSeqElements ==
  ASSUME NEW S, NEW s \in Seq(S), NEW m \in Nat, m < Len(s)
  PROVE  Len(SubSeq(s, 1, m)) = m /\ \A i \in 1..m : SubSeq(s, 1, m)[i] = s[i]
OBVIOUS

\* The nesting after a call, from the number of starts made so far.
LEMMA NestingMade ==
  ASSUME NEW n \in 0..ServiceCount, Len(started') \in Nat, Len(started') <= n,
         \A i \in 1..Len(started') : started'[i] = i,
         Len(calls') = 2 * n - Len(started'),
         \A i \in 1..n : calls'[i] = <<"start", i>>,
         \A i \in (n + 1)..Len(calls') : calls'[i] = <<"stop", 2 * n + 1 - i>>,
         Before' => n = Len(started')
  PROVE  CallsNest'
<1>1. Len(started') <= ServiceCount
  BY ServiceAssumption
<1> QED
  BY <1>1, Zenon DEF CallsNest

LEMMA StepIInv == IInv /\ [Next]_vars => IInv'
<1> SUFFICES ASSUME IInv, [Next]_vars PROVE IInv'
  OBVIOUS
<1> USE ServiceAssumption DEF IInv
<1>1. CASE OpenHistory
  <2>1. TypeOK' /\ calls' \in Seq({"start", "stop"} \X Services)
    BY <1>1 DEF OpenHistory, TypeOK, Services
  <2>2. Progress'
    BY <1>1 DEF OpenHistory, Progress, TypeOK
  <2>3. CallsNest'
    BY <1>1, NestingKept DEF OpenHistory, Before
  <2>4. ErrorIsKept'
    <3>1. CASE pc' = "start" /\ UNCHANGED <<failure, error>>
      BY <1>1, <3>1 DEF OpenHistory, ErrorIsKept, Before, LastStatusIsTrue
    <3>2. CASE pc' = "exit" /\ UNCHANGED <<published, calls>>
      BY <1>1, <3>2, Zenon DEF OpenHistory, Progress, ErrorIsKept, Before, LastStatusIsTrue
    <3> QED
      BY <1>1, <3>1, <3>2, Zenon DEF OpenHistory
  <2>5. CountsAgree'
    BY <1>1, FS_EmptySet DEF OpenHistory, Progress, CountsAgree
  <2> QED
    BY <2>1, <2>2, <2>3, <2>4, <2>5
<1>2. CASE StartService
  <2>1. TypeOK' /\ calls' \in Seq({"start", "stop"} \X Services)
    <3>1. index \in Services /\ Len(started) = index - 1
      BY <1>2 DEF StartService, TypeOK, Services, Progress
    <3>2. started' \in Seq(Services) /\ Len(started') = index
      BY <1>2, <3>1 DEF StartService, TypeOK
    <3>3. calls' \in Seq({"start", "stop"} \X Services)
      BY <1>2, <3>1 DEF StartService
    <3> QED
      BY <1>2, <3>1, <3>2, <3>3 DEF StartService, TypeOK, Services
  <2>2. Progress'
    BY <1>2 DEF StartService, Progress, TypeOK
  <2>3. CallsNest'
    <3> DEFINE n == Len(started)
    <3>1. /\ n \in Nat /\ index = n + 1 /\ n + 1 <= ServiceCount
          /\ Len(calls) = n /\ \A i \in 1..n : calls[i] = <<"start", i>>
          /\ \A i \in 1..n : started[i] = i
      <4>1. Before /\ n \in Nat /\ index = n + 1 /\ n + 1 <= ServiceCount
        BY <1>2 DEF StartService, Before, Progress, TypeOK
      <4>2. PICK m \in 0..ServiceCount :
              /\ Len(calls) = 2 * m - n
              /\ \A i \in 1..m : calls[i] = <<"start", i>>
              /\ m = n
        BY <4>1 DEF CallsNest
      <4> QED
        BY <4>1, <4>2 DEF CallsNest
    <3>2. /\ Len(started') = n + 1 /\ \A i \in 1..(n + 1) : started'[i] = i
          /\ Len(calls') = n + 1 /\ \A i \in 1..(n + 1) : calls'[i] = <<"start", i>>
      BY <1>2, <3>1 DEF StartService, TypeOK
    <3>3. n + 1 \in 0..ServiceCount /\ Len(calls') = 2 * (n + 1) - Len(started')
      BY <3>1, <3>2
    <3>4. \A i \in (n + 2)..Len(calls') : calls'[i] = <<"stop", 2 * (n + 1) + 1 - i>>
      BY <3>1, <3>2
    <3> DEFINE m == n + 1
    <3>5. /\ m \in 0..ServiceCount /\ Len(started') \in Nat /\ Len(started') <= m
          /\ Before' => m = Len(started')
      BY <3>1, <3>2, <3>3
    <3>6. /\ \A i \in 1..Len(started') : started'[i] = i
          /\ Len(calls') = 2 * m - Len(started')
          /\ \A i \in 1..m : calls'[i] = <<"start", i>>
          /\ \A i \in (m + 1)..Len(calls') : calls'[i] = <<"stop", 2 * m + 1 - i>>
      BY <3>1, <3>2, <3>3, <3>4
    <3> HIDE DEF m, n
    <3> QED
      BY <3>5, <3>6, NestingMade, Zenon
  <2>4. ErrorIsKept'
    BY <1>2, Zenon DEF StartService, ErrorIsKept, Before, LastStatusIsTrue, Publish
  <2>5. CountsAgree'
    <3>1. completed' = {} /\ Len(started') \in Nat
      BY <1>2, <2>1 DEF StartService, Progress, TypeOK
    <3> QED
      BY <1>2, <3>1, FS_EmptySet DEF StartService, CountsAgree
  <2> QED
    BY <2>1, <2>2, <2>3, <2>4, <2>5
<1>3. CASE StartServiceFails
  <2>1. TypeOK' /\ calls' \in Seq({"start", "stop"} \X Services)
    BY <1>3 DEF StartServiceFails, TypeOK, Services
  <2>2. Progress'
    BY <1>3 DEF StartServiceFails, Progress, TypeOK
  <2>3. CallsNest'
    BY <1>3, NestingKept DEF StartServiceFails, Before
  <2>4. ErrorIsKept'
    BY <1>3, Zenon DEF StartServiceFails, ErrorIsKept, Before, LastStatusIsTrue, Publish
  <2>5. CountsAgree'
    BY <1>3 DEF StartServiceFails, CountsAgree
  <2> QED
    BY <2>1, <2>2, <2>3, <2>4, <2>5
<1>4. CASE EnterRun
  <2>1. TypeOK' /\ calls' \in Seq({"start", "stop"} \X Services)
    BY <1>4 DEF EnterRun, TypeOK, Services
  <2>2. Progress'
    BY <1>4 DEF EnterRun, Progress, TypeOK
  <2>3. CallsNest'
    BY <1>4, NestingKept DEF EnterRun, Before
  <2>4. ErrorIsKept'
    BY <1>4, Zenon DEF EnterRun, ErrorIsKept, Before, LastStatusIsTrue, Publish
  <2>5. CountsAgree'
    BY <1>4 DEF EnterRun, CountsAgree
  <2> QED
    BY <2>1, <2>2, <2>3, <2>4, <2>5
<1>5. CASE BeginRound
  <2>1. TypeOK' /\ calls' \in Seq({"start", "stop"} \X Services)
    BY <1>5 DEF BeginRound, TypeOK, Services
  <2>2. Progress'
    BY <1>5 DEF BeginRound, Progress, TypeOK
  <2>3. CallsNest'
    BY <1>5, NestingKept DEF BeginRound, Before
  <2>4. ErrorIsKept'
    BY <1>5, Zenon DEF BeginRound, ErrorIsKept, Before, LastStatusIsTrue, Publish
  <2>5. CountsAgree'
    BY <1>5 DEF BeginRound, CountsAgree
  <2> QED
    BY <2>1, <2>2, <2>3, <2>4, <2>5
<1>6. CASE SkipCompleted
  <2>1. TypeOK' /\ calls' \in Seq({"start", "stop"} \X Services)
    BY <1>6 DEF SkipCompleted, TypeOK, Services, statusVars
  <2>2. Progress'
    BY <1>6 DEF SkipCompleted, Progress, TypeOK, statusVars
  <2>3. CallsNest'
    BY <1>6, NestingKept DEF SkipCompleted, Before, statusVars
  <2>4. ErrorIsKept'
    BY <1>6, Zenon DEF SkipCompleted, ErrorIsKept, Before, LastStatusIsTrue, Publish, statusVars
  <2>5. CountsAgree'
    BY <1>6 DEF SkipCompleted, CountsAgree, statusVars
  <2> QED
    BY <2>1, <2>2, <2>3, <2>4, <2>5
<1>7. CASE PollService
  <2>1. TypeOK' /\ calls' \in Seq({"start", "stop"} \X Services)
    <3>1. completed' \subseteq Services /\ Len(started) = ServiceCount
      BY <1>7 DEF PollService, TypeOK, Progress
    <3>2. Cardinality(completed') \in 0..ServiceCount
      BY <3>1, CompletedFits
    <3>3. activeCount' \in 0..ServiceCount
      BY <1>7, <3>1, <3>2 DEF PollService, TypeOK
    <3> QED
      BY <1>7, <3>1, <3>3 DEF PollService, TypeOK, Services
  <2>2. Progress'
    BY <1>7 DEF PollService, Progress, TypeOK
  <2>3. CallsNest'
    BY <1>7, NestingKept DEF PollService, Before
  <2>4. ErrorIsKept'
    BY <1>7, Zenon DEF PollService, ErrorIsKept, Before, LastStatusIsTrue, Publish
  <2>5. CountsAgree'
    BY <1>7 DEF PollService, CountsAgree
  <2> QED
    BY <2>1, <2>2, <2>3, <2>4, <2>5
<1>8. CASE PollFails
  <2>1. TypeOK' /\ calls' \in Seq({"start", "stop"} \X Services)
    BY <1>8 DEF PollFails, TypeOK, Services
  <2>2. Progress'
    BY <1>8 DEF PollFails, Progress, TypeOK
  <2>3. CallsNest'
    BY <1>8, NestingKept DEF PollFails, Before
  <2>4. ErrorIsKept'
    BY <1>8, Zenon DEF PollFails, ErrorIsKept, Before, LastStatusIsTrue, Publish
  <2>5. CountsAgree'
    BY <1>8 DEF PollFails, CountsAgree
  <2> QED
    BY <2>1, <2>2, <2>3, <2>4, <2>5
<1>9. CASE LoopCallback
  <2>1. TypeOK' /\ calls' \in Seq({"start", "stop"} \X Services)
    BY <1>9 DEF LoopCallback, TypeOK, Services
  <2>2. Progress'
    BY <1>9 DEF LoopCallback, Progress, TypeOK
  <2>3. CallsNest'
    BY <1>9, NestingKept DEF LoopCallback, Before
  <2>4. ErrorIsKept'
    <3>1. CASE pc' = "round" /\ UNCHANGED <<error, failure>>
      BY <1>9, <3>1, Zenon DEF LoopCallback, ErrorIsKept, Before, LastStatusIsTrue
    <3>2. CASE pc' = "stop" /\ error' /\ failure'
      BY <1>9, <3>2, Zenon DEF LoopCallback, ErrorIsKept, Before, LastStatusIsTrue
    <3> QED
      BY <1>9, <3>1, <3>2, Zenon DEF LoopCallback
  <2>5. CountsAgree'
    BY <1>9 DEF LoopCallback, CountsAgree
  <2> QED
    BY <2>1, <2>2, <2>3, <2>4, <2>5
<1>10. CASE StopService
  <2>1. TypeOK' /\ calls' \in Seq({"start", "stop"} \X Services)
    <3>1. Last(started) \in Services /\ Front(started) \in Seq(Services)
      BY <1>10 DEF StopService, TypeOK, Last, Front
    <3> QED
      BY <1>10, <3>1 DEF StopService, TypeOK, statusVars
  <2>2. Progress'
    BY <1>10 DEF StopService, Progress, TypeOK, statusVars
  <2>3. CallsNest'
    <3> DEFINE k == Len(started)
    <3>1. /\ k \in Nat \ {0} /\ k <= ServiceCount
          /\ \A i \in 1..k : started[i] = i
      BY <1>10 DEF StopService, CallsNest, TypeOK
    <3>2. /\ Len(started') = k - 1 /\ \A i \in 1..(k - 1) : started'[i] = i
      <4>1. started' = SubSeq(started, 1, k - 1)
        BY <1>10 DEF StopService, Front
      <4>2. k - 1 \in Nat /\ k - 1 < Len(started) /\ started \in Seq(Services)
        BY <3>1 DEF TypeOK
      <4>3. /\ Len(SubSeq(started, 1, k - 1)) = k - 1
            /\ \A i \in 1..(k - 1) : SubSeq(started, 1, k - 1)[i] = started[i]
        BY <4>2, SubSeqElements, Zenon
      <4> QED
        BY <3>1, <4>1, <4>3
    <3>8. Last(started) = k
      BY <3>1 DEF Last
    <3>3. PICK n \in 0..ServiceCount :
            /\ k <= n /\ Len(calls) = 2 * n - k
            /\ \A i \in 1..n : calls[i] = <<"start", i>>
            /\ \A i \in (n + 1)..Len(calls) : calls[i] = <<"stop", 2 * n + 1 - i>>
      BY DEF CallsNest
    <3>4. /\ Len(calls') = Len(calls) + 1 /\ Len(calls) \in Nat
          /\ \A i \in 1..Len(calls) : calls'[i] = calls[i]
          /\ calls'[Len(calls) + 1] = <<"stop", k>>
      BY <1>10, <3>8 DEF StopService
    <3> HIDE DEF k
    <3>5. /\ k - 1 <= n /\ Len(calls') = 2 * n - (k - 1)
          /\ \A i \in 1..n : calls'[i] = <<"start", i>>
      <4>1. n <= Len(calls) /\ n \in Nat
        BY <3>1, <3>3, ServiceAssumption
      <4> QED
        BY <3>1, <3>3, <3>4, <4>1, SMTT(30)
    <3>6. \A i \in (n + 1)..Len(calls') : calls'[i] = <<"stop", 2 * n + 1 - i>>
      <4>1. ASSUME NEW i \in (n + 1)..Len(calls) PROVE calls'[i] = <<"stop", 2 * n + 1 - i>>
        BY <3>3, <3>4, <4>1
      <4>2. Len(calls) + 1 = 2 * n + 1 - k
        BY <3>1, <3>3
      <4>3. calls'[Len(calls) + 1] = <<"stop", 2 * n + 1 - (Len(calls) + 1)>>
        BY <3>1, <3>4, <4>2
      <4>4. \A i \in (n + 1)..Len(calls') : i \in (n + 1)..Len(calls) \/ i = Len(calls) + 1
        BY <3>4
      <4> QED
        BY <4>1, <4>3, <4>4
    <3>7. ~Before'
      BY <1>10 DEF StopService, Before
    <3>9. /\ Len(started') \in Nat /\ Len(started') <= n
          /\ \A i \in 1..Len(started') : started'[i] = i
          /\ Len(calls') = 2 * n - Len(started')
      BY <3>1, <3>2, <3>3, <3>5
    <3> QED
      BY <3>3, <3>5, <3>6, <3>7, <3>9, NestingMade, Zenon
  <2>4. ErrorIsKept'
    BY <1>10, Zenon DEF StopService, ErrorIsKept, Before, LastStatusIsTrue, Publish, statusVars
  <2>5. CountsAgree'
    BY <1>10 DEF StopService, CountsAgree, statusVars
  <2> QED
    BY <2>1, <2>2, <2>3, <2>4, <2>5
<1>11. CASE FinishStop
  <2>1. TypeOK' /\ calls' \in Seq({"start", "stop"} \X Services)
    BY <1>11 DEF FinishStop, TypeOK, Services
  <2>2. Progress'
    BY <1>11 DEF FinishStop, Progress, TypeOK
  <2>3. CallsNest'
    BY <1>11, NestingKept DEF FinishStop, Before
  <2>4. ErrorIsKept'
    BY <1>11, Zenon DEF FinishStop, ErrorIsKept, Before, LastStatusIsTrue, Publish
  <2>5. CountsAgree'
    BY <1>11 DEF FinishStop, CountsAgree
  <2> QED
    BY <2>1, <2>2, <2>3, <2>4, <2>5
<1>12. CASE Exit
  <2>1. TypeOK' /\ calls' \in Seq({"start", "stop"} \X Services)
    BY <1>12 DEF Exit, TypeOK, Services, statusVars
  <2>2. Progress'
    BY <1>12 DEF Exit, Progress, TypeOK, statusVars
  <2>3. CallsNest'
    BY <1>12, NestingKept DEF Exit, Before, statusVars
  <2>4. ErrorIsKept'
    BY <1>12, Zenon DEF Exit, ErrorIsKept, Before, LastStatusIsTrue, Publish, statusVars
  <2>5. CountsAgree'
    BY <1>12 DEF Exit, CountsAgree, statusVars
  <2> QED
    BY <2>1, <2>2, <2>3, <2>4, <2>5
<1>13. CASE RequestStop
  <2>1. TypeOK' /\ calls' \in Seq({"start", "stop"} \X Services)
    BY <1>13 DEF RequestStop, TypeOK, Services, statusVars
  <2>2. Progress'
    BY <1>13 DEF RequestStop, Progress, TypeOK, statusVars
  <2>3. CallsNest'
    BY <1>13, NestingKept DEF RequestStop, Before, statusVars
  <2>4. ErrorIsKept'
    BY <1>13, Zenon DEF RequestStop, ErrorIsKept, Before, LastStatusIsTrue, Publish, statusVars
  <2>5. CountsAgree'
    BY <1>13 DEF RequestStop, CountsAgree, statusVars
  <2> QED
    BY <2>1, <2>2, <2>3, <2>4, <2>5
<1>14. CASE UNCHANGED vars
  <2>1. TypeOK' /\ calls' \in Seq({"start", "stop"} \X Services) /\ Progress' /\ CountsAgree'
    BY <1>14 DEF vars, statusVars, TypeOK, Progress, CountsAgree
  <2>2. CallsNest'
    BY <1>14, NestingKept DEF vars, Before
  <2>3. ErrorIsKept'
    BY <1>14, Zenon DEF vars, statusVars, ErrorIsKept, Before, LastStatusIsTrue
  <2> QED
    BY <2>1, <2>2, <2>3
<1> QED
  BY <1>1, <1>2, <1>3, <1>4, <1>5, <1>6, <1>7, <1>8, <1>9, <1>10, <1>11, <1>12, <1>13, <1>14 DEF Next, Process

LEMMA InductiveInvariant == Spec => []IInv
BY InitIInv, StepIInv, PTL DEF Spec
-----------------------------------------------------------------------------
\* The counters never run below zero or past the number of services.
THEOREM TypeCorrect == Spec => []TypeOK
<1>1. IInv => TypeOK
  BY DEF IInv
<1> QED
  BY <1>1, InductiveInvariant, PTL

\* A process that ended has stopped what it started, in reverse order.
THEOREM EndCorrect == Spec => []EndsClean
<1>1. IInv => EndsClean
  <2> SUFFICES ASSUME IInv, pc = "exit" PROVE EndsClean
    BY DEF EndsClean
  <2>1. Len(started) = 0 /\ ~historyOpen
    BY DEF IInv, Progress
  <2>2. PICK n \in 0..ServiceCount :
          /\ Len(calls) = 2 * n - Len(started)
          /\ \A i \in 1..n : calls[i] = <<"start", i>>
          /\ \A i \in (n + 1)..Len(calls) : calls[i] = <<"stop", 2 * n + 1 - i>>
    BY Zenon DEF IInv, CallsNest
  <2>3. n \in Nat /\ Len(calls) = 2 * n
    BY <2>1, <2>2, ServiceAssumption
  <2>4. ASSUME NEW i \in 1..n
        PROVE  calls[i][1] = "start" /\ calls[2 * n + 1 - i] = <<"stop", calls[i][2]>>
    <3> DEFINE j == 2 * n + 1 - i
    <3>1. j \in (n + 1)..Len(calls) /\ 2 * n + 1 - j = i
      BY <2>3
    <3> HIDE DEF j
    <3>2. calls[i] = <<"start", i>> /\ calls[j] = <<"stop", i>>
      BY <2>2, <3>1
    <3> QED
      BY <3>2 DEF j
  <2> QED
    BY <2>1, <2>3, <2>4 DEF EndsClean
<1> QED
  BY <1>1, InductiveInvariant, PTL

\* The last publication tells how the runtime ended up to the stop of its last
\* service, and the counters agree with the services they count.
THEOREM StatusCorrect == Spec => []StatusIsTrue
<1>1. IInv => StatusIsTrue
  BY DEF IInv, ErrorIsKept, StatusIsTrue
<1> QED
  BY <1>1, InductiveInvariant, PTL
=============================================================================
