---------------------------- MODULE PipelineProofs ---------------------------
(***************************************************************************)
(* Proofs about Pipeline, for every limit, number of retries, duration and *)
(* calendar the assumptions allow.                                         *)
(***************************************************************************)
EXTENDS Pipeline, TLAPS

-----------------------------------------------------------------------------
(***************************************************************************)
(* The tables of states and Lambdas                                        *)
(***************************************************************************)

LEMMA WorkingStates ==
    Working = {"Ingestion", "Normalization", "Analytics", "Delivery", "NotifyFailure"}
  BY DEF Working, Invokes

LEMMA TasksOf ==
    /\ Tasks("Ingestion") = {"ingestion"}
    /\ Tasks("Normalization") = {"normalization_hn", "normalization_x"}
    /\ Tasks("Analytics") = {"analytics"}
    /\ Tasks("Delivery") = {"delivery"}
    /\ Tasks("NotifyFailure") = {"notification"}
    /\ \A s \in Ends : Tasks(s) = {}
  BY WorkingStates DEF Tasks, Invokes, Ends

LEMMA FollowingOf ==
    /\ Following["Ingestion"] = "Normalization"
    /\ Following["Normalization"] = "Analytics"
    /\ Following["Analytics"] = "Delivery"
    /\ Following["Delivery"] = "Succeeded"
    /\ Following["NotifyFailure"] = "PipelineFailed"
  BY DEF Following

\* A notification is only pending in its own state, and a step never there.
LEMMA TaskStates ==
    ASSUME NEW s \in Working, NEW f \in Tasks(s)
    PROVE  /\ f \in Lambdas
           /\ f = "notification" <=> s = "NotifyFailure"
  BY WorkingStates, TasksOf DEF Lambdas, Steps

LEMMA Numbers ==
    /\ \A f \in Lambdas : Limit(f) \in Nat /\ Retries(f) \in Nat
    /\ \A f \in Lambdas, d \in Nat :
         Capped(f, d) \in Nat /\ Capped(f, d) <= Limit(f)
    /\ \A f \in Lambdas, n \in Nat : n < Retries(f) => Waits[n + 1] \in Nat
  BY PipelineAssumption DEF Limit, Retries, Capped

LEMMA NextStates ==
    \A s \in Working : Following[s] \in Working \cup Ends
  BY WorkingStates, FollowingOf DEF Ends

-----------------------------------------------------------------------------
(***************************************************************************)
(* Types and shape                                                         *)
(***************************************************************************)

\* The attempts under way are those of the current state's tasks, and a state
\* of the machine waits for one of them.
Shape ==
    /\ \A f \in Lambdas : task[f].phase # "off" <=> f \in Tasks(state)
    /\ state \in Working => \E f \in Tasks(state) : task[f].phase # "ok"

LEMMA TargetIsDay ==
    ASSUME TypeOK PROVE Target \in Days
  BY PipelineAssumption DEF TypeOK, Target

LEMMA LaunchedIsAttempt ==
    ASSUME TypeOK, NEW f \in Lambdas, NEW t \in Nat, NEW dur \in Nat,
           NEW n \in Nat, NEW d \in Days \cup {NoDate}
    PROVE  /\ Launched(f, t, dur, n, d) \in Attempt
           /\ Launched(f, t, dur, n, d).phase = "running"
           /\ Launched(f, t, dur, n, d).until <= t + Limit(f)
           /\ Launched(f, t, dur, n, d).tries = n
           /\ Launched(f, t, dur, n, d).day = Given(f, d)
  <1>1. Given(f, d) \in Days \cup {NoDate}
    BY TargetIsDay DEF Given
  <1>2. Capped(f, dur) \in Nat /\ Capped(f, dur) <= Limit(f) /\ Limit(f) \in Nat
    BY Numbers
  <1> QED
    BY <1>1, <1>2 DEF Launched, Attempt

\* What entering a state does to the tasks.
LEMMA EnterEffect ==
    ASSUME TypeOK, NEW s \in Working \cup Ends, NEW t \in Nat,
           NEW d \in Days \cup {NoDate}, Enter(s, t, d)
    PROVE  /\ state' = s /\ now' = t
           /\ task' \in [Lambdas -> Attempt]
           /\ Shape'
           /\ \A f \in Lambdas : task'[f].tries = 0
           /\ \A f \in Tasks(s) : /\ task'[f].phase = "running"
                                  /\ task'[f].until <= t + Limit(f)
                                  /\ task'[f].day = Given(f, d)
           /\ \A f \in Lambdas \ Tasks(s) : task'[f].day = task[f].day
  <1>1. PICK lasts \in [Tasks(s) -> Durations \cup NotifierDurations] :
          task' = [f \in Lambdas |->
                     IF f \in Tasks(s) THEN Launched(f, t, lasts[f], 0, d)
                                       ELSE Off(task[f].day)]
    BY DEF Enter
  <1>2. \A f \in Lambdas :
          /\ Off(task[f].day) \in Attempt
          /\ Off(task[f].day).phase = "off"
          /\ Off(task[f].day).tries = 0
          /\ Off(task[f].day).day = task[f].day
    BY DEF Off, Attempt, TypeOK
  <1>3. \A f \in Tasks(s) : lasts[f] \in Nat
    BY PipelineAssumption
  <1>4. \A f \in Lambdas : f \in Tasks(s) =>
          /\ task'[f] \in Attempt
          /\ task'[f].phase = "running"
          /\ task'[f].until <= t + Limit(f)
          /\ task'[f].tries = 0
          /\ task'[f].day = Given(f, d)
    BY <1>1, <1>3, LaunchedIsAttempt
  <1>5. \A f \in Lambdas : f \notin Tasks(s) => task'[f] = Off(task[f].day)
    BY <1>1
  <1>6. state' = s /\ now' = t
    BY DEF Enter
  <1>7. \A f \in Tasks(s) : f \in Lambdas
    BY WorkingStates, TasksOf DEF Lambdas, Steps
  <1>8. s \in Working => Tasks(s) # {}
    BY WorkingStates, TasksOf
  <1>9. Shape'
    BY <1>2, <1>4, <1>5, <1>6, <1>7, <1>8 DEF Shape, Tasks
  <1>10. task' \in [Lambdas -> Attempt]
    BY <1>1, <1>2, <1>4, <1>5
  <1> QED
    BY <1>2, <1>4, <1>5, <1>6, <1>7, <1>9, <1>10

\* What is known of the task that is heard of next.
LEMMA DueFacts ==
    ASSUME TypeOK, Shape, NEW f \in Lambdas, Due(f)
    PROVE  /\ state \in Working /\ f \in Tasks(state)
           /\ task[f] \in Attempt
           /\ task[f].until \in 0 .. ExecTimeout
           /\ task[f].phase \in {"running", "waiting"}
           /\ f = "notification" <=> state = "NotifyFailure"
  <1>1. state \in Working /\ task[f].phase \in {"running", "waiting"}
        /\ task[f].until <= ExecTimeout
    BY DEF Due, Pending
  <1>2. f \in Tasks(state)
    BY <1>1 DEF Shape
  <1> QED
    BY <1>1, <1>2, TaskStates, PipelineAssumption DEF TypeOK, Attempt

LEMMA RetryEffect ==
    ASSUME TypeOK, Shape, NEW f \in Lambdas, Due(f), NEW left \in SUBSET Lambdas,
           Retry(f, left)
    PROVE  /\ state' = state /\ now' = task[f].until
           /\ task' \in [Lambdas -> Attempt]
           /\ Shape'
           /\ \A g \in Lambdas : task'[g].tries <= Retries(g)
           /\ \A g \in Lambdas \ {f} : task'[g] = task[g]
           /\ task'[f].day = task[f].day
           /\ strays' = strays \cup left
  <1> DEFINE a == Waiting(task[f], Waits[task[f].tries + 1])
  <1>1. task[f] \in Attempt /\ task[f].tries \in Nat /\ task[f].until \in Nat
    BY DEF TypeOK, Attempt
  <1>2. task[f].tries < Retries(f) /\ Retries(f) \in Nat
    BY Numbers DEF Retry
  <1>3. Waits[task[f].tries + 1] \in Nat
    BY <1>1, <1>2, Numbers
  <1>4. task' = [task EXCEPT ![f] = a]
    BY <1>1 DEF Retry, TypeOK
  <1>5. a \in Attempt /\ a.phase = "waiting" /\ a.tries = task[f].tries + 1
        /\ a.day = task[f].day
    BY <1>1, <1>3 DEF Attempt, Waiting
  <1>6. task'[f] = a /\ \A g \in Lambdas \ {f} : task'[g] = task[g]
    BY <1>4 DEF TypeOK
  <1>7. task' \in [Lambdas -> Attempt]
    BY <1>4, <1>5 DEF TypeOK
  <1>8. a.tries <= Retries(f)
    BY <1>1, <1>2, <1>5
  <1>9. Shape'
    <2>1. f \in Tasks(state) /\ state' = state
      BY DueFacts DEF Retry
    <2>2. \A g \in Lambdas : task'[g].phase # "off" <=> g \in Tasks(state')
      BY <1>5, <1>6, <2>1 DEF Shape
    <2>3. task'[f].phase # "ok"
      BY <1>5, <1>6
    <2> QED
      BY <2>1, <2>2, <2>3 DEF Shape, Tasks
  <1> QED
    BY <1>5, <1>6, <1>7, <1>8, <1>9 DEF Retry, TypeOK

LEMMA GiveUpEffect ==
    ASSUME TypeOK, Shape, NEW f \in Lambdas, Due(f), NEW left \in SUBSET Lambdas,
           GiveUp(f, left)
    PROVE  LET next == IF f = "notification" THEN "PipelineFailed" ELSE "NotifyFailure"
           IN  /\ next \in Working \cup Ends
               /\ Enter(next, task[f].until, date)
               /\ strays' \in SUBSET Lambdas
  BY WorkingStates DEF GiveUp, Ends, TypeOK

\* The first four conjuncts of TypeOK, and Shape.
TaskTypes ==
    /\ state \in Working \cup Ends
    /\ now \in 0 .. ExecTimeout
    /\ task \in [Lambdas -> Attempt]
    /\ \A f \in Lambdas : task[f].tries <= Retries(f)
    /\ Shape

LEMMA EnterTypes ==
    ASSUME TypeOK, NEW s \in Working \cup Ends, NEW t \in 0 .. ExecTimeout,
           NEW d \in Days \cup {NoDate}, Enter(s, t, d)
    PROVE  TaskTypes'
  <1>1. t \in Nat /\ \A f \in Lambdas : 0 <= Retries(f)
    BY PipelineAssumption, Numbers
  <1> QED
    BY <1>1, EnterEffect DEF TaskTypes

LEMMA GiveUpTypes ==
    ASSUME TypeOK, Shape, NEW f \in Lambdas, Due(f), NEW left \in SUBSET Lambdas,
           GiveUp(f, left)
    PROVE  TaskTypes' /\ strays' \in SUBSET Lambdas
  <1>1. task[f].until \in 0 .. ExecTimeout
    BY DueFacts
  <1>2. date \in Days \cup {NoDate}
    BY DEF TypeOK
  <1> QED
    BY <1>1, <1>2, GiveUpEffect, EnterTypes

LEMMA RetryOrGiveUpTypes ==
    ASSUME TypeOK, Shape, NEW f \in Lambdas, Due(f), NEW left \in SUBSET Lambdas,
           RetryOrGiveUp(f, left)
    PROVE  TaskTypes' /\ strays' \in SUBSET Lambdas
  <1>1. CASE Retry(f, left)
    <2>1. task[f].until \in 0 .. ExecTimeout
      BY DueFacts
    <2> QED
      BY <1>1, <2>1, RetryEffect DEF TaskTypes, TypeOK
  <1>2. CASE GiveUp(f, left)
    BY <1>2, GiveUpTypes
  <1> QED
    BY <1>1, <1>2 DEF RetryOrGiveUp

LEMMA InitTypes == Init => TypeOK /\ Shape
  <1> SUFFICES ASSUME Init PROVE TypeOK /\ Shape
    OBVIOUS
  <1>1. today \in Days /\ today - 1 \in Days
    BY DEF Init
  <1>2. Target \in Days
    BY <1>1, PipelineAssumption DEF Target
  <1>3. \A g \in Lambdas : Off(NoDate) \in Attempt /\ Off(NoDate).phase = "off"
                           /\ Off(NoDate).tries = 0
    BY DEF Off, Attempt
  <1>4. PICK dur \in Nat :
          task = [f \in Lambdas |->
                    IF f = "ingestion" THEN Launched(f, 0, dur, 0, NoDate) ELSE Off(NoDate)]
    BY PipelineAssumption DEF Init
  <1> DEFINE a == Launched("ingestion", 0, dur, 0, NoDate)
  <1>5. "ingestion" \in Lambdas
    BY DEF Lambdas, Steps
  <1>6. a \in Attempt /\ a.phase = "running" /\ a.tries = 0
    BY <1>2, <1>5, Numbers DEF Launched, Attempt, Given
  <1>7. /\ task \in [Lambdas -> Attempt]
        /\ task["ingestion"] = a
        /\ \A f \in Lambdas \ {"ingestion"} : task[f] = Off(NoDate)
    BY <1>3, <1>4, <1>5, <1>6
  <1>8. state = "Ingestion" /\ "Ingestion" \in Working
    BY WorkingStates DEF Init
  <1>9. Shape
    BY <1>3, <1>6, <1>7, <1>8, TasksOf DEF Shape
  <1>10. \A f \in Lambdas : task[f].tries <= Retries(f)
    BY <1>3, <1>6, <1>7, Numbers
  <1>11. now \in 0 .. ExecTimeout /\ date \in Days \cup {NoDate} /\ strays \in SUBSET Lambdas
    BY PipelineAssumption DEF Init
  <1>12. transient \in BOOLEAN /\ announced \in BOOLEAN
    BY Zenon DEF Init
  <1>13. state \in Working \cup Ends
    BY <1>8
  <1>14. today \in {d \in Days : d - 1 \in Days}
    BY <1>1
  <1> QED
    BY <1>7, <1>9, <1>10, <1>11, <1>12, <1>13, <1>14 DEF TypeOK

LEMMA NextTypes == TypeOK /\ Shape /\ [Next]_vars => TypeOK' /\ Shape'
  <1> SUFFICES ASSUME TypeOK, Shape, [Next]_vars PROVE TypeOK' /\ Shape'
    OBVIOUS
  <1>1. ASSUME TaskTypes', date' \in Days \cup {NoDate},
               today' \in {d \in Days : d - 1 \in Days}, strays' \in SUBSET Lambdas,
               transient' \in BOOLEAN, announced' \in BOOLEAN
        PROVE  TypeOK' /\ Shape'
    BY <1>1 DEF TaskTypes, TypeOK
  <1>2. UNCHANGED today => today' \in {d \in Days : d - 1 \in Days}
    BY DEF TypeOK
  <1>3. ASSUME NEW f \in Lambdas, Returns(f) PROVE TypeOK' /\ Shape'
    <2>1. Due(f) /\ task[f].phase = "running"
      BY <1>3 DEF Returns, Answers
    <2>2. date' \in Days \cup {NoDate}
      BY <1>3 DEF Returns, TypeOK, Attempt
    <2>3. announced' \in BOOLEAN
      BY <1>3 DEF Returns, Sent, TypeOK
    <2>4. TaskTypes'
      <3>1. CASE Enter(Following[state], task[f].until, date')
        BY <2>1, <2>2, <3>1, DueFacts, NextStates, EnterTypes
      <3>2. CASE /\ \E g \in Tasks(state) \ {f} : task[g].phase # "ok"
                 /\ task' = [task EXCEPT ![f] = Finished(@)]
                 /\ now' = task[f].until
                 /\ UNCHANGED state
        <4>1. Finished(task[f]) \in Attempt /\ Finished(task[f]).phase = "ok"
              /\ Finished(task[f]).tries = task[f].tries
          BY <2>1, DueFacts DEF Finished, Attempt
        <4>2. /\ task' \in [Lambdas -> Attempt]
              /\ task'[f] = Finished(task[f])
              /\ \A g \in Lambdas \ {f} : task'[g] = task[g]
          BY <3>2, <4>1 DEF TypeOK
        <4>3. Shape'
          BY <2>1, <3>2, <4>1, <4>2, DueFacts, TaskStates DEF Shape, Tasks
        <4> QED
          BY <2>1, <3>2, <4>1, <4>2, <4>3, DueFacts DEF TaskTypes, TypeOK
      <3> QED
        BY <1>3, <3>1, <3>2 DEF Returns
    <2> QED
      BY <1>1, <1>2, <1>3, <2>2, <2>3, <2>4 DEF Returns, TypeOK
  <1>4. ASSUME NEW f \in Lambdas, Raises(f) \/ TimesOut(f) PROVE TypeOK' /\ Shape'
    <2>1. PICK left \in SUBSET Lambdas :
            Due(f) /\ (RetryOrGiveUp(f, left) \/ GiveUp(f, left))
      BY <1>4 DEF Raises, TimesOut, Answers, RunsOn
    <2>2. TaskTypes' /\ strays' \in SUBSET Lambdas
      BY <2>1, RetryOrGiveUpTypes, GiveUpTypes
    <2> QED
      BY <1>1, <1>2, <1>4, <2>2 DEF Raises, TimesOut, TypeOK
  <1>5. ASSUME NEW f \in Lambdas, AwsError(f) PROVE TypeOK' /\ Shape'
    <2>1. TaskTypes' /\ strays' \in SUBSET Lambdas
      BY <1>5, RetryOrGiveUpTypes DEF AwsError, Answers
    <2> QED
      BY <1>1, <1>2, <1>5, <2>1 DEF AwsError, TypeOK
  <1>6. ASSUME NEW f \in Lambdas, Resume(f) PROVE TypeOK' /\ Shape'
    <2>1. Due(f)
      BY <1>6 DEF Resume
    <2>2. PICK dur \in Nat :
            task' = [task EXCEPT ![f] = Launched(f, @.until, dur, @.tries, date)]
      BY <1>6, PipelineAssumption DEF Resume, Lasting
    <2> DEFINE a == Launched(f, task[f].until, dur, task[f].tries, date)
    <2>3. a \in Attempt /\ a.phase = "running" /\ a.tries = task[f].tries
      BY LaunchedIsAttempt DEF TypeOK, Attempt
    <2>4. /\ task' \in [Lambdas -> Attempt]
          /\ task'[f] = a
          /\ \A g \in Lambdas \ {f} : task'[g] = task[g]
      BY <2>2, <2>3 DEF TypeOK
    <2>5. Shape'
      BY <1>6, <2>1, <2>3, <2>4, DueFacts DEF Shape, Resume, Tasks
    <2>6. TaskTypes'
      BY <1>6, <2>1, <2>3, <2>4, <2>5, DueFacts DEF TaskTypes, TypeOK, Resume
    <2> QED
      BY <1>1, <1>2, <1>6, <2>6 DEF Resume, TypeOK
  <1>7. CASE ExecutionTimesOut
    <2>1. \A f \in Lambdas : Off(task[f].day) \in Attempt /\ Off(task[f].day).phase = "off"
                            /\ Off(task[f].day).tries = 0
      BY DEF Off, Attempt, TypeOK
    <2>2. state' = "TimedOut" /\ "TimedOut" \in Ends /\ Tasks("TimedOut") = {}
          /\ "TimedOut" \notin Working
      BY <1>7, TasksOf, WorkingStates DEF ExecutionTimesOut, Ends
    <2>3. /\ task' \in [Lambdas -> Attempt]
          /\ \A f \in Lambdas : task'[f] = Off(task[f].day)
      BY <1>7, <2>1 DEF ExecutionTimesOut
    <2>4. Shape'
      BY <2>1, <2>2, <2>3 DEF Shape, Tasks
    <2>5. TaskTypes'
      BY <1>7, <2>1, <2>2, <2>3, <2>4, Numbers, PipelineAssumption
         DEF TaskTypes, ExecutionTimesOut
    <2> QED
      BY <1>1, <1>2, <1>7, <2>5 DEF ExecutionTimesOut, TypeOK
  <1>8. ASSUME UNCHANGED <<state, now, task, date, transient, announced>>,
               today' \in {d \in Days : d - 1 \in Days}, strays' \in SUBSET Lambdas
        PROVE  TypeOK' /\ Shape'
    BY <1>8 DEF TypeOK, Shape, Tasks
  <1>9. ASSUME NEW f \in Lambdas, StrayEnds(f) PROVE TypeOK' /\ Shape'
    BY <1>2, <1>8, <1>9 DEF StrayEnds, TypeOK
  <1>10. CASE Midnight
    <2>1. today \in Days /\ today + 1 \in Days /\ (today + 1) - 1 = today
      BY <1>10, PipelineAssumption DEF Midnight, TypeOK
    <2> QED
      BY <1>8, <1>10, <2>1 DEF Midnight, TypeOK
  <1>11. CASE UNCHANGED vars
    BY <1>2, <1>8, <1>11 DEF vars, TypeOK
  <1> QED
    BY <1>3, <1>4, <1>5, <1>6, <1>7, <1>9, <1>10, <1>11 DEF Next, Advance

\* The type invariant, for every choice of the numbers in the state machine.
THEOREM PipelineTypes == Spec => []TypeOK
  BY InitTypes, NextTypes, PTL DEF Spec

LEMMA ShapeInvariance == Spec => [](TypeOK /\ Shape)
  BY InitTypes, NextTypes, PTL DEF Spec

-----------------------------------------------------------------------------
(***************************************************************************)
(* Strays                                                                  *)
(***************************************************************************)

\* What a failure leaves running beside the task that failed.
LEMMA Cancelled ==
    ASSUME TypeOK, Shape, NEW f \in Lambdas, Due(f),
           NEW g \in Lambdas \ {f}, task[g].phase = "running"
    PROVE  g \in Branches
  <1>1. state \in Working /\ f \in Tasks(state) /\ g \in Tasks(state)
    BY DueFacts DEF Shape
  <1> QED
    BY <1>1, WorkingStates, TasksOf DEF Branches

\* NotifyFailure is not followed by a step, and strays come from giving up.
LEMMA NextStrays ==
    ASSUME OwnLimitsFirst
    PROVE  TypeOK /\ Shape /\ OnlyACancelledBranchRunsOn /\ [Next]_vars
             => OnlyACancelledBranchRunsOn'
  <1> DEFINE AStep(s) == s \in Working \ {"NotifyFailure"}
             Goal == strays' \subseteq Branches /\ (AStep(state') => strays' = {})
  <1> SUFFICES ASSUME TypeOK, Shape, OnlyACancelledBranchRunsOn, [Next]_vars,
                      ~transient', state' # "TimedOut"
               PROVE  Goal
    BY DEF OnlyACancelledBranchRunsOn, Working
  <1>0. ASSUME ~transient, state # "TimedOut"
        PROVE  strays \subseteq Branches /\ (AStep(state) => strays = {})
    BY <1>0 DEF OnlyACancelledBranchRunsOn
  <1>1. ASSUME NEW f \in Lambdas, Due(f), ~transient, GiveUp(f, {}) PROVE Goal
    <2>1. state' \in {"PipelineFailed", "NotifyFailure"}
      BY <1>1 DEF GiveUp, Enter
    <2>2. ~AStep(state')
      BY <2>1, WorkingStates
    <2>3. state # "TimedOut"
      BY <1>1, DueFacts, WorkingStates
    <2>4. strays' = strays \cup {g \in Lambdas \ {f} : task[g].phase = "running"}
      BY <1>1 DEF GiveUp
    <2> QED
      BY <1>0, <1>1, <2>2, <2>3, <2>4, Cancelled
  <1>2. ASSUME NEW f \in Lambdas, Returns(f) PROVE Goal
    <2>1. Due(f) /\ UNCHANGED <<strays, transient>>
      BY <1>2 DEF Returns, Answers
    <2>2. state \in Working /\ state # "TimedOut"
      BY <2>1, DueFacts, WorkingStates
    <2>3. state' \in {state, Following[state]}
      BY <1>2 DEF Returns, Enter
    <2>4. AStep(state') => AStep(state)
      BY <2>2, <2>3, WorkingStates, FollowingOf
    <2> QED
      BY <1>0, <2>1, <2>2, <2>4
  <1>3. ASSUME NEW f \in Lambdas, Raises(f) \/ TimesOut(f) PROVE Goal
    <2>1. Due(f) /\ UNCHANGED transient
      BY <1>3 DEF Raises, TimesOut, Answers
    <2>2. RunsOn(f) = {}
      BY DEF RunsOn, OwnLimitsFirst, LambdaLimit, Limit
    <2>3. CASE GiveUp(f, {})
      BY <1>1, <2>1, <2>3
    <2>4. CASE f = "notification" /\ Retry(f, {})
      <3>1. state' = state /\ strays' = strays /\ state # "TimedOut"
        BY <2>1, <2>4, DueFacts, WorkingStates DEF Retry
      <3> QED
        BY <1>0, <2>1, <3>1
    <2> QED
      BY <1>3, <2>2, <2>3, <2>4 DEF Raises, TimesOut, RetryOrGiveUp
  <1>4. ASSUME NEW f \in Lambdas, AwsError(f) PROVE Goal
    BY <1>4 DEF AwsError
  <1>5. ASSUME UNCHANGED <<state, transient>>, strays' \in SUBSET strays PROVE Goal
    BY <1>0, <1>5
  <1>6. ASSUME NEW f \in Lambdas, Resume(f) \/ StrayEnds(f) PROVE Goal
    BY <1>5, <1>6 DEF Resume, StrayEnds
  <1>7. CASE ExecutionTimesOut
    BY <1>7 DEF ExecutionTimesOut
  <1>8. CASE Midnight \/ UNCHANGED vars
    BY <1>5, <1>8 DEF Midnight, vars
  <1> QED
    BY <1>2, <1>3, <1>4, <1>6, <1>7, <1>8 DEF Next, Advance

\* Where every Lambda's own limit comes first, and AWS itself does not fail, a
\* step runs alone, and only a cancelled branch outlives its attempt.
THEOREM StepsRunAlone ==
    ASSUME OwnLimitsFirst
    PROVE  Spec => []OnlyACancelledBranchRunsOn
  <1>1. Init => OnlyACancelledBranchRunsOn
    BY DEF Init, OnlyACancelledBranchRunsOn
  <1> QED
    BY <1>1, NextStrays, ShapeInvariance, PTL DEF Spec

-----------------------------------------------------------------------------
(***************************************************************************)
(* One day                                                                 *)
(***************************************************************************)

\* The steps that have returned when a state is entered.
Behind == [Ingestion     |-> {},
           Normalization |-> {"ingestion"},
           Analytics     |-> {"ingestion", "normalization_hn", "normalization_x"},
           Delivery      |-> Steps \ {"delivery"},
           Succeeded     |-> Steps]

\* Up to the end of Ingestion the date is ingestion's own affair; from then on
\* it is $.ingestion.date, which every step behind and under way was given.
\* After a failure what was given stays.
DayInv ==
    /\ state = "Ingestion" =>
         date = NoDate /\ \A f \in Steps \ {"ingestion"} : task[f].day = NoDate
    /\ state \in DOMAIN Behind \ {"Ingestion"} =>
         /\ date \in Days
         /\ \A f \in Steps : task[f].day \in {NoDate, date}
         /\ \A f \in Behind[state] \cup Tasks(state) : task[f].day = date
    /\ state = "Ingestion" => task["ingestion"].day \in Days
    /\ \A f, g \in Steps :
         task[f].day # NoDate /\ task[g].day # NoDate => task[f].day = task[g].day

LEMMA BehindOf ==
    /\ DOMAIN Behind = {"Ingestion", "Normalization", "Analytics", "Delivery", "Succeeded"}
    /\ Behind["Ingestion"] = {}
    /\ Behind["Normalization"] = {"ingestion"}
    /\ Behind["Analytics"] = {"ingestion", "normalization_hn", "normalization_x"}
    /\ Behind["Delivery"] = Steps \ {"delivery"}
    /\ Behind["Succeeded"] = Steps
  BY DEF Behind

\* Where neither the state, the date nor any day given changes, DayInv stays.
LEMMA SameDays ==
    ASSUME DayInv, UNCHANGED <<state, date>>,
           \A f \in Steps : task'[f].day = task[f].day
    PROVE  DayInv'
  <1>1. "ingestion" \in Steps
    BY DEF Steps
  <1>2. \A s \in DOMAIN Behind : Behind[s] \cup Tasks(s) \subseteq Steps
    BY BehindOf, TasksOf DEF Steps, Ends
  <1> QED
    BY <1>1, <1>2 DEF DayInv, Tasks

\* Nor where the execution leaves the steps and none is given another.
LEMMA LeavingDays ==
    ASSUME DayInv, state' \in {"NotifyFailure", "PipelineFailed", "TimedOut"},
           \A f \in Steps : task'[f].day = task[f].day
    PROVE  DayInv'
  BY BehindOf DEF DayInv

LEMMA NextDays == TypeOK /\ Shape /\ DayInv /\ [Next]_vars => DayInv'
  <1> SUFFICES ASSUME TypeOK, Shape, DayInv, [Next]_vars PROVE DayInv'
    OBVIOUS
  <1> USE DEF TypeOK
  <1>1. Steps \subseteq Lambdas /\ "notification" \notin Steps
    BY DEF Lambdas, Steps
  <1>2. ASSUME NEW f \in Lambdas, NEW left \in SUBSET Lambdas, Due(f), GiveUp(f, left)
        PROVE  DayInv'
    <2> DEFINE next == IF f = "notification" THEN "PipelineFailed" ELSE "NotifyFailure"
    <2>1. /\ next \in Working \cup Ends
          /\ Enter(next, task[f].until, date)
          /\ task[f].until \in Nat
          /\ \A g \in Steps : g \notin Tasks(next)
      BY <1>1, <1>2, GiveUpEffect, DueFacts, TasksOf, PipelineAssumption DEF Ends
    <2>2. state' = next /\ \A g \in Steps : task'[g].day = task[g].day
      BY <1>1, <2>1, EnterEffect
    <2> QED
      BY <2>2, LeavingDays
  <1>3. ASSUME NEW f \in Lambdas, NEW left \in SUBSET Lambdas, Due(f),
               RetryOrGiveUp(f, left), UNCHANGED date
        PROVE  DayInv'
    <2>1. CASE Retry(f, left)
      BY <1>1, <1>3, <2>1, RetryEffect, SameDays
    <2> QED
      BY <1>2, <1>3, <2>1 DEF RetryOrGiveUp
  <1>4. ASSUME NEW f \in Lambdas, Returns(f) PROVE DayInv'
    <2>1. /\ Due(f) /\ f \in Tasks(state) /\ state \in Working
          /\ task[f].until \in Nat
          /\ f = "notification" <=> state = "NotifyFailure"
      BY <1>4, DueFacts, PipelineAssumption DEF Returns, Answers
    <2>2. CASE UNCHANGED state
      <3>1. CASE state = "NotifyFailure"
        <4>1. FALSE
          BY <1>4, <2>1, <2>2, <3>1, TasksOf, FollowingOf DEF Returns, Enter
        <4> QED
          BY <4>1
      <3>2. CASE state # "NotifyFailure"
        <4>1. Following[state] # state
          BY <2>1, WorkingStates, FollowingOf
        <4>2. /\ \E g \in Tasks(state) \ {f} : task[g].phase # "ok"
              /\ task' = [task EXCEPT ![f] = Finished(@)]
          BY <1>4, <2>2, <4>1 DEF Returns, Enter
        <4>3. f # "ingestion"
          BY <2>1, <4>2, WorkingStates, TasksOf
        <4>4. \A g \in Steps : task'[g].day = task[g].day
          BY <1>1, <4>2 DEF Finished
        <4> QED
          BY <1>4, <2>2, <4>3, <4>4, SameDays DEF Returns
      <3> QED
        BY <3>1, <3>2
    <2>3. CASE state' # state
      <3> DEFINE s == Following[state]
      <3>1. Enter(s, task[f].until, date') /\ s \in Working \cup Ends
        BY <1>4, <2>1, <2>3, NextStates DEF Returns
      <3>2. date' \in Days \cup {NoDate}
        BY <1>4 DEF Returns, Attempt
      <3>3. /\ state' = s
            /\ \A g \in Tasks(s) : task'[g].day = Given(g, date')
            /\ \A g \in Lambdas \ Tasks(s) : task'[g].day = task[g].day
        BY <2>1, <3>1, <3>2, EnterEffect
      <3>4. CASE state = "Ingestion"
        <4>1. f = "ingestion" /\ s = "Normalization"
          BY <2>1, <3>4, TasksOf, FollowingOf
        <4>2. date' = task["ingestion"].day /\ date' \in Days
          BY <1>4, <3>4, <4>1 DEF Returns, DayInv
        <4>3. \A g \in Tasks(s) : g \in Steps /\ task'[g].day = date'
          BY <3>3, <4>1, TasksOf DEF Given, Steps
        <4>4. task'["ingestion"].day = date'
          BY <3>3, <4>1, <4>2, TasksOf DEF Lambdas, Steps
        <4>5. \A g \in Steps : task'[g].day \in {NoDate, date'}
          BY <1>1, <3>3, <3>4, <4>3, <4>4 DEF DayInv
        <4> QED
          BY <3>3, <4>1, <4>2, <4>3, <4>4, <4>5, BehindOf DEF DayInv, Tasks
      <3>5. CASE state \in {"Normalization", "Analytics", "Delivery"}
        <4>1. f # "ingestion" /\ date' = date
          BY <1>4, <2>1, <3>5, TasksOf DEF Returns
        <4>2. /\ s \in {"Analytics", "Delivery", "Succeeded"}
              /\ \A g \in Tasks(s) : g \in Steps /\ g # "ingestion"
          BY <3>5, FollowingOf, TasksOf DEF Steps, Ends
        <4>3. \A g \in Tasks(s) : task'[g].day = date'
          BY <1>1, <3>3, <4>2 DEF Given
        <4>4. \A g \in Steps : g \notin Tasks(s) => task'[g].day = task[g].day
          BY <1>1, <3>3
        <4>5. /\ date \in Days
              /\ \A g \in Steps : task[g].day \in {NoDate, date}
              /\ \A g \in Behind[state] \cup Tasks(state) : task[g].day = date
          BY <3>5, BehindOf DEF DayInv
        <4>6. \A g \in Steps : task'[g].day \in {NoDate, date'}
          BY <4>1, <4>3, <4>4, <4>5
        <4>7. Behind[s] = Behind[state] \cup Tasks(state) /\ Behind[s] \subseteq Steps
          BY <3>5, FollowingOf, BehindOf, TasksOf DEF Steps
        <4>8. \A g \in Behind[s] \cup Tasks(s) : task'[g].day = date'
          BY <4>1, <4>3, <4>4, <4>5, <4>7
        <4> QED
          BY <3>3, <4>1, <4>2, <4>5, <4>6, <4>8, BehindOf DEF DayInv, Tasks
      <3>6. CASE state = "NotifyFailure"
        <4>1. s = "PipelineFailed" /\ \A g \in Steps : g \notin Tasks(s)
          BY <3>6, FollowingOf, TasksOf DEF Ends
        <4> QED
          BY <1>1, <3>3, <4>1, LeavingDays
      <3> QED
        BY <2>1, <3>4, <3>5, <3>6, WorkingStates
    <2> QED
      BY <2>2, <2>3
  <1>5. ASSUME NEW f \in Lambdas, Raises(f) \/ TimesOut(f) PROVE DayInv'
    <2>1. /\ Due(f) /\ UNCHANGED date
          /\ \E left \in SUBSET Lambdas : RetryOrGiveUp(f, left) \/ GiveUp(f, left)
      BY <1>5 DEF Raises, TimesOut, Answers, RunsOn
    <2> QED
      BY <1>2, <1>3, <2>1
  <1>6. ASSUME NEW f \in Lambdas, AwsError(f) PROVE DayInv'
    BY <1>3, <1>6 DEF AwsError, Answers
  <1>7. ASSUME NEW f \in Lambdas, Resume(f) PROVE DayInv'
    <2>1. /\ f \in Tasks(state) /\ state \in Working
          /\ f = "notification" <=> state = "NotifyFailure"
      BY <1>7, DueFacts DEF Resume
    <2>2. PICK dur \in Nat :
            task' = [task EXCEPT ![f] = Launched(f, @.until, dur, @.tries, date)]
      BY <1>7, PipelineAssumption DEF Resume, Lasting
    <2> DEFINE a == Launched(f, task[f].until, dur, task[f].tries, date)
    <2>3. a.day = Given(f, date)
      BY LaunchedIsAttempt DEF Attempt
    <2>4. task'[f] = a /\ \A g \in Lambdas \ {f} : task'[g] = task[g]
      BY <2>2
    <2>5. CASE f = "ingestion"
      <3>1. state = "Ingestion"
        BY <2>1, <2>5, WorkingStates, TasksOf
      <3>2. task'["ingestion"].day \in Days
        BY <2>3, <2>4, <2>5, TargetIsDay DEF Given
      <3> QED
        BY <1>1, <1>7, <2>4, <2>5, <3>1, <3>2, BehindOf DEF DayInv, Resume
    <2>6. CASE f = "notification"
      BY <1>1, <1>7, <2>4, <2>6, SameDays DEF Resume
    <2>7. CASE f \notin {"ingestion", "notification"}
      <3>1. state \in {"Normalization", "Analytics", "Delivery"}
        BY <2>1, <2>7, WorkingStates, TasksOf
      <3>2. task[f].day = date /\ a.day = date
        BY <2>1, <2>3, <2>7, <3>1, BehindOf DEF DayInv, Given
      <3>3. \A g \in Steps : task'[g].day = task[g].day
        BY <1>1, <2>4, <3>2
      <3> QED
        BY <1>7, <3>3, SameDays DEF Resume
    <2> QED
      BY <2>5, <2>6, <2>7
  <1>8. CASE ExecutionTimesOut
    <2>1. \A g \in Steps : task'[g].day = task[g].day
      BY <1>1, <1>8 DEF ExecutionTimesOut, Off
    <2> QED
      BY <1>8, <2>1, LeavingDays DEF ExecutionTimesOut
  <1>9. ASSUME UNCHANGED <<state, task, date>> PROVE DayInv'
    BY <1>9, SameDays
  <1>10. ASSUME NEW f \in Lambdas, StrayEnds(f) PROVE DayInv'
    BY <1>9, <1>10 DEF StrayEnds
  <1>11. CASE Midnight \/ UNCHANGED vars
    BY <1>9, <1>11 DEF Midnight, vars
  <1> QED
    BY <1>4, <1>5, <1>6, <1>7, <1>8, <1>10, <1>11 DEF Next, Advance

\* All the invocations an execution goes on from work on the date ingestion
\* resolved, whatever was retried and whenever midnight came.
THEOREM OneDayThroughout == Spec => []OneDay
  <1>1. Init => DayInv
    <2> SUFFICES ASSUME Init PROVE DayInv
      OBVIOUS
    <2>1. TypeOK
      BY InitTypes
    <2>2. Target \in Days /\ "ingestion" \in Lambdas
      BY <2>1, TargetIsDay DEF Lambdas, Steps
    <2>3. PICK dur \in Nat :
            task = [f \in Lambdas |->
                      IF f = "ingestion" THEN Launched(f, 0, dur, 0, NoDate) ELSE Off(NoDate)]
      BY PipelineAssumption DEF Init
    <2>4. task["ingestion"].day = Target
      BY <2>2, <2>3 DEF Launched, Given
    <2>5. \A f \in Steps \ {"ingestion"} : task[f].day = NoDate
      BY <2>3 DEF Off, Lambdas
    <2> QED
      BY <2>2, <2>4, <2>5, BehindOf DEF DayInv, Init
  <1>2. TypeOK /\ DayInv => OneDay
    BY PipelineAssumption, BehindOf DEF DayInv, OneDay
  <1> QED
    BY <1>1, <1>2, NextDays, ShapeInvariance, PTL DEF Spec

-----------------------------------------------------------------------------
(***************************************************************************)
(* The limits fit                                                          *)
(***************************************************************************)

\* When the tasks of a step have ended, if nothing was retried.
StepDeadline == [Ingestion     |-> TaskTimeout,
                 Normalization |-> 2 * TaskTimeout,
                 Analytics     |-> 3 * TaskTimeout,
                 Delivery      |-> 4 * TaskTimeout]

\* When the n-th retry of NotifyFailure has ended.
NotifyDeadline(n) ==
    4 * TaskTimeout + (IF n = 0 THEN NotifyTimeout
                       ELSE IF n = 1 THEN 2 * NotifyTimeout + Waits[1]
                       ELSE 3 * NotifyTimeout + Waits[1] + Waits[2])

InTime(s) ==
    /\ s \in DOMAIN StepDeadline => \A f \in Tasks(s) :
         task[f].phase # "waiting" /\ task[f].until <= StepDeadline[s]
    /\ s = "NotifyFailure" =>
         /\ task["notification"].until <= NotifyDeadline(task["notification"].tries)
         /\ task["notification"].phase = "waiting" =>
              task["notification"].until + NotifyTimeout
                <= NotifyDeadline(task["notification"].tries)

TimeInv == ~transient => state # "TimedOut" /\ InTime(state)

LEMMA Deadlines ==
    /\ DOMAIN StepDeadline = {"Ingestion", "Normalization", "Analytics", "Delivery"}
    /\ StepDeadline["Ingestion"] = TaskTimeout
    /\ StepDeadline["Normalization"] = 2 * TaskTimeout
    /\ StepDeadline["Analytics"] = 3 * TaskTimeout
    /\ StepDeadline["Delivery"] = 4 * TaskTimeout
  BY DEF StepDeadline

LEMMA StepsInTime ==
    ASSUME NEW s \in DOMAIN StepDeadline
    PROVE  /\ StepDeadline[s] \in Nat
           /\ StepDeadline[s] <= 4 * TaskTimeout
           /\ Following[s] \in DOMAIN StepDeadline =>
                StepDeadline[Following[s]] = StepDeadline[s] + TaskTimeout
           /\ Following[s] # "NotifyFailure" /\ Following[s] # "TimedOut"
           /\ \A f \in Tasks(s) : f # "notification"
           /\ \A f \in Tasks(s) : Limit(f) = TaskTimeout
  BY Deadlines, FollowingOf, TasksOf, PipelineAssumption DEF Limit

LEMMA NotifyInTime ==
    ASSUME LimitsFit, NEW n \in 0 .. 2
    PROVE  /\ NotifyDeadline(n) \in Nat
           /\ NotifyDeadline(n) < ExecTimeout
           /\ n < 2 => NotifyDeadline(n + 1) = NotifyDeadline(n) + Waits[n + 1] + NotifyTimeout
           /\ NotifyDeadline(0) = 4 * TaskTimeout + NotifyTimeout
  <1>1. Waits[1] \in Nat /\ Waits[2] \in Nat /\ TaskTimeout \in Nat
        /\ NotifyTimeout \in Nat /\ ExecTimeout \in Nat
    BY PipelineAssumption DEF LimitsFit
  <1>2. CASE n = 0
    BY <1>1, <1>2 DEF LimitsFit, NotifyDeadline
  <1>3. CASE n = 1
    BY <1>1, <1>3 DEF LimitsFit, NotifyDeadline
  <1>4. CASE n = 2
    BY <1>1, <1>4 DEF LimitsFit, NotifyDeadline
  <1> QED
    BY <1>2, <1>3, <1>4

\* An attempt that is heard of in time is heard of before the execution's limit.
LEMMA InTimeFits ==
    ASSUME LimitsFit, TypeOK, Shape, InTime(state), state \in Working
    PROVE  \A f \in Tasks(state) : task[f].until < ExecTimeout
  <1>1. CASE state = "NotifyFailure"
    <2>1. task["notification"].tries \in 0 .. 2
      <3>1. "notification" \in Lambdas /\ Retries("notification") = 2
        BY DEF Lambdas, Retries, LimitsFit
      <3>2. task["notification"].tries \in Nat /\ task["notification"].tries <= 2
        BY <3>1 DEF TypeOK, Attempt
      <3> QED
        BY <3>2
    <2>2. "notification" \in Lambdas /\ task["notification"].until \in Nat
      BY DEF TypeOK, Attempt, Lambdas
    <2>3. task["notification"].until <= NotifyDeadline(task["notification"].tries)
      BY <1>1 DEF InTime
    <2>4. /\ NotifyDeadline(task["notification"].tries) \in Nat
          /\ NotifyDeadline(task["notification"].tries) < ExecTimeout
      BY <2>1, NotifyInTime
    <2> QED
      BY <1>1, <2>2, <2>3, <2>4, TasksOf, PipelineAssumption
  <1>2. CASE state # "NotifyFailure"
    <2>1. state \in DOMAIN StepDeadline
      BY <1>2, WorkingStates, Deadlines
    <2>2. 4 * TaskTimeout < ExecTimeout
      BY PipelineAssumption DEF LimitsFit
    <2>3. \A f \in Tasks(state) : task[f].until \in Nat
      BY TaskStates DEF TypeOK, Attempt
    <2> QED
      BY <2>1, <2>2, <2>3, StepsInTime, PipelineAssumption DEF InTime
  <1> QED
    BY <1>1, <1>2

\* A state that is entered when a task of the state before it is heard of in
\* time is in time itself.
LEMMA EnterInTime ==
    ASSUME LimitsFit, TypeOK, Shape, InTime(state), NEW f \in Lambdas, Due(f),
           NEW d \in Days \cup {NoDate}, NEW s \in Working \cup Ends,
           Enter(s, task[f].until, d), s # "TimedOut",
           \/ s = Following[state]
           \/ f # "notification" /\ s = "NotifyFailure"
           \/ s = "PipelineFailed"
    PROVE  state' # "TimedOut" /\ InTime(state)'
  <1>1. /\ state \in Working /\ f \in Tasks(state) /\ task[f].until \in Nat
        /\ f = "notification" <=> state = "NotifyFailure"
    BY DueFacts, PipelineAssumption
  <1>2. /\ state' = s
        /\ \A g \in Tasks(s) : /\ task'[g].phase = "running" /\ task'[g].tries = 0
                               /\ task'[g].until <= task[f].until + Limit(g)
                               /\ task'[g].until \in Nat /\ Limit(g) \in Nat
    <2>1. \A g \in Tasks(s) : g \in Lambdas
      BY WorkingStates, TasksOf DEF Lambdas, Steps
    <2> QED
      BY <1>1, <2>1, EnterEffect, Numbers DEF Attempt
  <1>3. CASE s \in DOMAIN StepDeadline
    <2>1. state \in DOMAIN StepDeadline /\ s = Following[state]
      BY <1>1, <1>3, WorkingStates, FollowingOf, Deadlines
    <2>2. task[f].until <= StepDeadline[state]
      BY <1>1, <2>1 DEF InTime
    <2>3. StepDeadline[s] = StepDeadline[state] + TaskTimeout
          /\ StepDeadline[state] \in Nat
      BY <1>3, <2>1, StepsInTime
    <2>4. \A g \in Tasks(s) : Limit(g) = TaskTimeout
      BY <1>3, StepsInTime
    <2>5. s # "NotifyFailure"
      BY <1>3, Deadlines
    <2> QED
      BY <1>1, <1>2, <2>2, <2>3, <2>4, <2>5, PipelineAssumption DEF InTime, Tasks
  <1>4. CASE s = "NotifyFailure"
    <2>1. state \in DOMAIN StepDeadline
      BY <1>1, <1>4, WorkingStates, FollowingOf, Deadlines
    <2>2. /\ task[f].until <= StepDeadline[state]
          /\ StepDeadline[state] \in Nat /\ StepDeadline[state] <= 4 * TaskTimeout
      BY <1>1, <2>1, StepsInTime DEF InTime
    <2>3. Limit("notification") = NotifyTimeout /\ "notification" \in Tasks(s)
      BY <1>4, TasksOf DEF Limit
    <2>4. NotifyDeadline(0) = 4 * TaskTimeout + NotifyTimeout
      BY NotifyInTime
    <2>5. task'["notification"].until <= NotifyDeadline(0)
      BY <1>1, <1>2, <2>2, <2>3, <2>4, PipelineAssumption
    <2>6. s \notin DOMAIN StepDeadline
      BY <1>4, Deadlines
    <2>7. task'["notification"].tries = 0 /\ task'["notification"].phase = "running"
      BY <1>2, <2>3
    <2> QED
      BY <1>2, <1>4, <2>5, <2>6, <2>7 DEF InTime, NotifyDeadline
  <1>5. CASE s \notin DOMAIN StepDeadline /\ s # "NotifyFailure"
    BY <1>2, <1>5 DEF InTime
  <1> QED
    BY <1>3, <1>4, <1>5

\* A retry is in time: only NotifyFailure retries what is not an AWS-side error.
LEMMA RetryInTime ==
    ASSUME LimitsFit, TypeOK, Shape, InTime(state), Due("notification"),
           NEW left \in SUBSET Lambdas, Retry("notification", left)
    PROVE  state' # "TimedOut" /\ InTime(state)'
  <1> DEFINE a == task["notification"]
  <1>1. "notification" \in Lambdas /\ Retries("notification") = 2
    BY DEF Lambdas, Retries, LimitsFit
  <1>2. state = "NotifyFailure" /\ state' = state /\ a \in Attempt
    BY <1>1, DueFacts DEF Retry
  <1>3. a.tries \in 0 .. 1 /\ a.until \in Nat
    BY <1>1, <1>2 DEF Retry, Attempt
  <1>4. a.until <= NotifyDeadline(a.tries)
    BY <1>2 DEF InTime
  <1>5. task'["notification"] = Waiting(a, Waits[a.tries + 1])
    BY <1>1 DEF Retry, TypeOK
  <1>6. /\ task'["notification"].until = a.until + Waits[a.tries + 1]
        /\ task'["notification"].tries = a.tries + 1
    BY <1>5 DEF Waiting
  <1>7. Waits[a.tries + 1] \in Nat /\ NotifyTimeout \in Nat
    <2>1. a.tries \in Nat /\ a.tries < Retries("notification")
      BY <1>1, <1>3
    <2>2. Waits[a.tries + 1] \in Nat
      BY <1>1, <2>1, Numbers
    <2>3. NotifyTimeout \in Nat
      BY PipelineAssumption
    <2> QED
      BY <2>2, <2>3
  <1>8. /\ NotifyDeadline(a.tries) \in Nat
        /\ NotifyDeadline(a.tries + 1)
             = NotifyDeadline(a.tries) + Waits[a.tries + 1] + NotifyTimeout
    BY <1>3, NotifyInTime
  <1>9. task'["notification"].until + NotifyTimeout <= NotifyDeadline(a.tries + 1)
    BY <1>3, <1>4, <1>6, <1>7, <1>8
  <1>10. task'["notification"].until <= NotifyDeadline(a.tries + 1)
    BY <1>3, <1>4, <1>6, <1>7, <1>8
  <1>11. state' \notin DOMAIN StepDeadline
    BY <1>2, Deadlines
  <1> QED
    BY <1>2, <1>6, <1>9, <1>10, <1>11 DEF InTime, NotifyDeadline

LEMMA NextInTime ==
    ASSUME LimitsFit
    PROVE  TypeOK /\ Shape /\ TimeInv /\ [Next]_vars => TimeInv'
  <1> SUFFICES ASSUME TypeOK, Shape, TimeInv, [Next]_vars, ~transient'
               PROVE  state' # "TimedOut" /\ InTime(state)'
    BY DEF TimeInv, InTime
  <1>1. ASSUME ~transient PROVE state # "TimedOut" /\ InTime(state)
    BY <1>1 DEF TimeInv
  <1>2. ASSUME NEW f \in Lambdas, NEW left \in SUBSET Lambdas, Due(f), ~transient,
               GiveUp(f, left)
        PROVE  state' # "TimedOut" /\ InTime(state)'
    <2> DEFINE next == IF f = "notification" THEN "PipelineFailed" ELSE "NotifyFailure"
    <2>1. next \in Working \cup Ends /\ Enter(next, task[f].until, date)
      BY <1>2, GiveUpEffect
    <2>2. date \in Days \cup {NoDate} /\ next # "TimedOut"
      BY DEF TypeOK
    <2> QED
      BY <1>1, <1>2, <2>1, <2>2, EnterInTime
  <1>3. ASSUME NEW f \in Lambdas, Returns(f) PROVE state' # "TimedOut" /\ InTime(state)'
    <2>1. /\ ~transient /\ Due(f)
          /\ f \in Tasks(state) /\ state \in Working
          /\ f = "notification" <=> state = "NotifyFailure"
      BY <1>3, DueFacts DEF Returns, Answers
    <2>2. date' \in Days \cup {NoDate}
      BY <1>3 DEF Returns, TypeOK, Attempt
    <2>3. CASE Enter(Following[state], task[f].until, date')
      <3>1. Following[state] \in Working \cup Ends /\ Following[state] # "TimedOut"
        BY <2>1, NextStates, WorkingStates, FollowingOf
      <3> QED
        BY <1>1, <2>1, <2>2, <2>3, <3>1, EnterInTime
    <2>4. CASE /\ \E g \in Tasks(state) \ {f} : task[g].phase # "ok"
               /\ task' = [task EXCEPT ![f] = Finished(@)]
               /\ UNCHANGED state
      <3>1. state \in DOMAIN StepDeadline /\ state # "NotifyFailure"
        BY <2>1, <2>4, WorkingStates, TasksOf, Deadlines
      <3>2. \A g \in Tasks(state) :
              /\ task'[g].until = task[g].until
              /\ task'[g].phase \in {task[g].phase, "ok"}
        BY <2>1, <2>4, TaskStates DEF Finished, TypeOK
      <3> QED
        BY <1>1, <2>1, <2>4, <3>1, <3>2 DEF InTime, Tasks
    <2> QED
      BY <1>3, <2>3, <2>4 DEF Returns
  <1>4. ASSUME NEW f \in Lambdas, Raises(f) \/ TimesOut(f)
        PROVE  state' # "TimedOut" /\ InTime(state)'
    <2>1. Due(f) /\ ~transient
      BY <1>4 DEF Raises, TimesOut, Answers
    <2>2. PICK left \in SUBSET Lambdas :
            GiveUp(f, left) \/ (f = "notification" /\ Retry(f, left))
      <3>1. {} \in SUBSET Lambdas /\ RunsOn(f) \in SUBSET Lambdas
        BY DEF RunsOn
      <3>2. CASE Raises(f)
        BY <3>1, <3>2 DEF Raises, RetryOrGiveUp
      <3>3. CASE TimesOut(f)
        BY <3>1, <3>3 DEF TimesOut, RetryOrGiveUp
      <3> QED
        BY <1>4, <3>2, <3>3
    <2>3. CASE GiveUp(f, left)
      BY <1>2, <2>1, <2>3
    <2>4. CASE f = "notification" /\ Retry(f, left)
      BY <1>1, <2>1, <2>4, RetryInTime
    <2> QED
      BY <2>2, <2>3, <2>4
  <1>5. ASSUME NEW f \in Lambdas, AwsError(f) PROVE state' # "TimedOut" /\ InTime(state)'
    BY <1>5 DEF AwsError
  <1>6. ASSUME NEW f \in Lambdas, Resume(f) PROVE state' # "TimedOut" /\ InTime(state)'
    <2>1. /\ Due(f) /\ ~transient /\ task[f].phase = "waiting" /\ UNCHANGED state
          /\ f \in Tasks(state) /\ state \in Working /\ task[f] \in Attempt
      BY <1>6, DueFacts DEF Resume
    <2>2. f = "notification" /\ state = "NotifyFailure" /\ state' \notin DOMAIN StepDeadline
      BY <1>1, <2>1, WorkingStates, TasksOf, Deadlines DEF InTime
    <2>3. PICK dur \in Nat :
            task' = [task EXCEPT ![f] = Launched(f, @.until, dur, @.tries, date)]
      BY <1>6, PipelineAssumption DEF Resume, Lasting
    <2>4. task'[f] = Launched(f, task[f].until, dur, task[f].tries, date)
      BY <2>3 DEF TypeOK
    <2>5. task[f].until \in Nat /\ task[f].tries \in Nat /\ date \in Days \cup {NoDate}
      BY <2>1 DEF Attempt, TypeOK
    <2>6. /\ task'[f] \in Attempt
          /\ task'[f].phase = "running" /\ task'[f].tries = task[f].tries
          /\ task'[f].until <= task[f].until + NotifyTimeout
      <3> DEFINE a == Launched(f, task[f].until, dur, task[f].tries, date)
      <3>1. /\ a \in Attempt /\ a.phase = "running" /\ a.tries = task[f].tries
            /\ a.until <= task[f].until + Limit(f)
        BY <2>5, LaunchedIsAttempt
      <3> QED
        BY <2>2, <2>4, <3>1 DEF Limit
    <2>7. task[f].until + NotifyTimeout <= NotifyDeadline(task[f].tries)
      BY <1>1, <2>1, <2>2 DEF InTime
    <2>8. task[f].tries \in 0 .. 2
      <3>1. Retries("notification") = 2
        BY DEF Retries, LimitsFit
      <3> QED
        BY <2>2, <2>5, <3>1 DEF TypeOK
    <2>9. NotifyDeadline(task[f].tries) \in Nat
      BY <2>8, NotifyInTime
    <2>10. task'[f].until <= NotifyDeadline(task[f].tries)
      BY <2>5, <2>6, <2>7, <2>9, PipelineAssumption DEF Attempt
    <2> QED
      BY <2>1, <2>2, <2>6, <2>10 DEF InTime, NotifyDeadline
  <1>7. CASE ExecutionTimesOut
    <2>1. ~transient /\ state \in Working
      BY <1>7 DEF ExecutionTimesOut
    <2>2. PICK g \in Tasks(state) : task[g].phase # "ok"
      BY <2>1 DEF Shape
    <2>3. g \in Lambdas /\ task[g].phase # "off" /\ task[g] \in Attempt
      BY <2>1, TaskStates DEF Shape, TypeOK
    <2>4. task[g].until >= ExecTimeout /\ task[g].until \in Nat
      BY <1>7, <2>2, <2>3 DEF ExecutionTimesOut, Pending, Attempt
    <2>5. task[g].until < ExecTimeout
      BY <1>1, <2>1, InTimeFits
    <2> QED
      BY <2>4, <2>5, PipelineAssumption
  <1>8. ASSUME UNCHANGED <<state, task, transient>>
        PROVE  state' # "TimedOut" /\ InTime(state)'
    BY <1>1, <1>8 DEF InTime, Tasks, NotifyDeadline
  <1>9. ASSUME NEW f \in Lambdas, StrayEnds(f) PROVE state' # "TimedOut" /\ InTime(state)'
    BY <1>8, <1>9 DEF StrayEnds
  <1>10. CASE Midnight \/ UNCHANGED vars
    BY <1>8, <1>10 DEF Midnight, vars
  <1> QED
    BY <1>3, <1>4, <1>5, <1>6, <1>7, <1>9, <1>10 DEF Next, Advance

LEMMA InitInTime == Init => TimeInv
  <1> SUFFICES ASSUME Init PROVE TimeInv
    OBVIOUS
  <1>1. TypeOK /\ state = "Ingestion"
    BY InitTypes DEF Init
  <1>2. PICK dur \in Nat :
          task = [f \in Lambdas |->
                    IF f = "ingestion" THEN Launched(f, 0, dur, 0, NoDate) ELSE Off(NoDate)]
    BY PipelineAssumption DEF Init
  <1>3. "ingestion" \in Lambdas /\ Limit("ingestion") = TaskTimeout
    BY DEF Lambdas, Steps, Limit
  <1>4. task["ingestion"] = Launched("ingestion", 0, dur, 0, NoDate)
    BY <1>2, <1>3
  <1>5. task["ingestion"].phase = "running" /\ task["ingestion"].until <= 0 + TaskTimeout
    BY <1>1, <1>3, <1>4, LaunchedIsAttempt
  <1> QED
    BY <1>1, <1>5, TasksOf, Deadlines, PipelineAssumption DEF TimeInv, InTime

LEMMA TimeInvariance ==
    ASSUME LimitsFit
    PROVE  Spec => []TimeInv
  BY InitInTime, NextInTime, ShapeInvariance, PTL DEF Spec

\* If the limits fit into that of the execution, only an execution that met an
\* AWS-side error, and retried, can be cut off by it.
THEOREM LimitsSuffice ==
    ASSUME LimitsFit
    PROVE  Spec => []OnlyRetriesCutOff
  <1>1. TimeInv => OnlyRetriesCutOff
    BY DEF TimeInv, OnlyRetriesCutOff
  <1> QED
    BY <1>1, TimeInvariance, PTL

-----------------------------------------------------------------------------
(***************************************************************************)
(* How an execution ends                                                   *)
(***************************************************************************)

\* The step leads to PipelineFailed or TimedOut, and not from NotifyFailure.
EndsUnannounced ==
    /\ state' \in {"PipelineFailed", "TimedOut"} /\ state' # state
    /\ state # "NotifyFailure"

\* PipelineFailed is entered from NotifyFailure only.
LEMMA FailedFromNotify ==
    ASSUME TypeOK, Shape, [Next]_vars, state' = "PipelineFailed", state' # state
    PROVE  state = "NotifyFailure"
  <1>1. ASSUME NEW f \in Lambdas, NEW left \in SUBSET Lambdas, Due(f), GiveUp(f, left)
        PROVE  state = "NotifyFailure"
    <2>1. f = "notification"
      BY <1>1 DEF GiveUp, Enter
    <2> QED
      BY <1>1, <2>1, DueFacts
  <1>2. ASSUME NEW f \in Lambdas, Returns(f) PROVE state = "NotifyFailure"
    <2>1. state \in Working /\ Following[state] = "PipelineFailed"
      BY <1>2, DueFacts DEF Returns, Answers, Enter
    <2> QED
      BY <2>1, WorkingStates, FollowingOf
  <1>3. ASSUME NEW f \in Lambdas, Raises(f) \/ TimesOut(f) \/ AwsError(f)
        PROVE  state = "NotifyFailure"
    <2>1. PICK left \in SUBSET Lambdas :
            Due(f) /\ (RetryOrGiveUp(f, left) \/ GiveUp(f, left))
      BY <1>3 DEF Raises, TimesOut, AwsError, Answers, RunsOn
    <2>2. ~Retry(f, left)
      BY DEF Retry
    <2> QED
      BY <1>1, <2>1, <2>2 DEF RetryOrGiveUp
  <1>4. ASSUME NEW f \in Lambdas, Resume(f) \/ StrayEnds(f) PROVE FALSE
    BY <1>4 DEF Resume, StrayEnds
  <1>5. CASE ExecutionTimesOut \/ Midnight \/ UNCHANGED vars
    BY <1>5 DEF ExecutionTimesOut, Midnight, vars
  <1> QED
    BY <1>2, <1>3, <1>4, <1>5 DEF Next, Advance

\* The part of FailuresRouteToNotify that the code keeps: if the limits fit into
\* that of the execution, one that met no AWS-side error ends in PipelineFailed
\* or TimedOut only after NotifyFailure.
THEOREM FailuresWithoutRetriesRoute ==
    ASSUME LimitsFit
    PROVE  Spec => [][EndsUnannounced => transient']_vars
  <1>1. TypeOK /\ Shape /\ TimeInv' /\ [Next]_vars => [EndsUnannounced => transient']_vars
    <2> SUFFICES ASSUME TypeOK, Shape, TimeInv', [Next]_vars, EndsUnannounced
                 PROVE  transient'
      OBVIOUS
    <2>1. state' = "TimedOut"
      BY FailedFromNotify DEF EndsUnannounced
    <2> QED
      BY <2>1 DEF TimeInv
  <1> QED
    BY <1>1, TimeInvariance, ShapeInvariance, PTL DEF Spec
=============================================================================
