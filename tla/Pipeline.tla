------------------------------- MODULE Pipeline ------------------------------
(***************************************************************************)
(* One execution of the Step Functions state machine                       *)
(* (modules/orchestration/templates/pipeline.asl.json): ingestion, the two *)
(* normalizations in parallel, analytics, delivery, and the route a caught *)
(* failure takes to NotifyFailure and PipelineFailed.                      *)
(*                                                                         *)
(* Time is in seconds since the execution started.  When an attempt of a   *)
(* task is made it is given the moment it ends, and the clock jumps from   *)
(* one such moment to the next.  Transitions and Pass states take no time. *)
(* A Lambda that runs on after its attempt was given up is a stray.        *)
(***************************************************************************)
EXTENDS Naturals, FiniteSets

CONSTANTS
    ExecTimeout,    \* TimeoutSeconds of the state machine (1800)
    TaskTimeout,    \* TimeoutSeconds of a pipeline task (360)
    NotifyTimeout,  \* TimeoutSeconds of NotifyFailure (60)
    LambdaTimeout,  \* the time limit of a pipeline Lambda itself (300)
    NotifierTimeout,\* that of the notification Lambda (30)
    TaskRetries,    \* MaxAttempts of a pipeline task's retrier (3)
    NotifyRetries,  \* MaxAttempts of NotifyFailure's retrier (2)
    Waits,          \* Waits[n]: the wait before the n-th retry (5, 10, 20)
    Durations,      \* how long the invocation of a pipeline Lambda may take; one
                    \* beyond TaskTimeout stands for an answer that never comes
    NotifierDurations,  \* the same of the notification Lambda
    Days,           \* calendar days, as consecutive numbers
    NoDate,         \* the date is not set
    Input           \* what "date" in the execution's input parses to, or NoDate

Steps == {"ingestion", "normalization_hn", "normalization_x", "analytics", "delivery"}
Lambdas == Steps \cup {"notification"}

\* The Lambdas a state invokes, and the state that follows it.
Invokes == [Ingestion     |-> {"ingestion"},
            Normalization |-> {"normalization_hn", "normalization_x"},
            Analytics     |-> {"analytics"},
            Delivery      |-> {"delivery"},
            NotifyFailure |-> {"notification"}]

Following == [Ingestion     |-> "Normalization",
              Normalization |-> "Analytics",
              Analytics     |-> "Delivery",
              Delivery      |-> "Succeeded",
              NotifyFailure |-> "PipelineFailed"]

Working == DOMAIN Invokes
Ends == {"Succeeded", "PipelineFailed", "TimedOut"}

Tasks(s) == IF s \in Working THEN Invokes[s] ELSE {}

Limit(f) == IF f = "notification" THEN NotifyTimeout ELSE TaskTimeout
LambdaLimit(f) == IF f = "notification" THEN NotifierTimeout ELSE LambdaTimeout
Retries(f) == IF f = "notification" THEN NotifyRetries ELSE TaskRetries
Lasting(f) == IF f = "notification" THEN NotifierDurations ELSE Durations

ASSUME PipelineAssumption ==
    /\ ExecTimeout \in Nat /\ TaskTimeout \in Nat /\ NotifyTimeout \in Nat
    /\ LambdaTimeout \in Nat /\ NotifierTimeout \in Nat
    /\ TaskRetries \in Nat /\ NotifyRetries \in Nat
    /\ Waits \in [1 .. TaskRetries + NotifyRetries -> Nat]
    /\ Durations \subseteq Nat /\ Durations # {}
    /\ NotifierDurations \subseteq Nat /\ NotifierDurations # {}
    /\ Days \subseteq Nat
    /\ NoDate \notin Nat
    /\ Input \in Days \cup {NoDate}

VARIABLES
    state,      \* the current state of the state machine
    now,        \* the clock
    task,       \* task[f]: the current or last attempt of task f, see Attempt
    date,       \* $.ingestion.date
    today,      \* the calendar day
    strays,     \* Lambdas of which an abandoned invocation may still be running
    transient,  \* whether a transient AWS-side error has occurred
    announced   \* whether a message was posted to Discord

vars == <<state, now, task, date, today, strays, transient, announced>>

\* until: when the attempt, or the wait for the next one, ends
\* day:   the date it works on
Attempt == [phase : {"off", "running", "waiting", "ok"},
            began : Nat, until : Nat, tries : Nat, day : Days \cup {NoDate}]

TypeOK ==
    /\ state \in Working \cup Ends
    /\ now \in 0 .. ExecTimeout
    /\ task \in [Lambdas -> Attempt]
    /\ date \in Days \cup {NoDate}
    /\ today \in {d \in Days : d - 1 \in Days}
    /\ strays \in SUBSET Lambdas
    /\ transient \in BOOLEAN
    /\ announced \in BOOLEAN
    /\ \A f \in Lambdas : task[f].tries <= Retries(f)

-----------------------------------------------------------------------------
(***************************************************************************)
(* Attempts                                                                *)
(***************************************************************************)

\* parse_target_date: an absent or unparsable date means yesterday.
Target == IF Input \in Days THEN Input ELSE today - 1

\* Mutant of Given: every Lambda defaults to yesterday by itself.
GivenAfresh(f, d) == IF f = "notification" THEN NoDate ELSE Target

\* The date an invocation of f works on, when $.ingestion.date is d.
Given(f, d) == IF f = "ingestion" THEN Target
               ELSE IF f = "notification" THEN NoDate ELSE d

\* States.Timeout ends an attempt that reaches its limit.
Capped(f, duration) == IF duration < Limit(f) THEN duration ELSE Limit(f)

\* The n-th retry (0: the first attempt) of f, made at time t.
Launched(f, t, duration, n, d) ==
    [phase |-> "running", began |-> t, until |-> t + Capped(f, duration),
     tries |-> n, day |-> Given(f, d)]

\* Attempt a has failed and is repeated after a wait; or it has returned.
Waiting(a, wait) ==
    [phase |-> "waiting", began |-> a.began, until |-> a.until + wait,
     tries |-> a.tries + 1, day |-> a.day]

Finished(a) ==
    [phase |-> "ok", began |-> a.began, until |-> a.until, tries |-> a.tries, day |-> a.day]

\* No attempt is under way; d is the date the last one worked on.
Off(d) == [phase |-> "off", began |-> 0, until |-> 0, tries |-> 0, day |-> d]

\* State s is entered at time t, with $.ingestion.date = d: its tasks are
\* launched, and there are no others.
Enter(s, t, d) ==
    /\ state' = s
    /\ now' = t
    /\ \E lasts \in [Tasks(s) -> Durations \cup NotifierDurations] :
         /\ \A f \in Tasks(s) : lasts[f] \in Lasting(f)
         /\ task' = [f \in Lambdas |->
                       IF f \in Tasks(s) THEN Launched(f, t, lasts[f], 0, d)
                                         ELSE Off(task[f].day)]

Pending == {f \in Lambdas : task[f].phase \in {"running", "waiting"}}

\* f is the task that is heard of next, before the execution reaches its limit.
Due(f) ==
    /\ state \in Working
    /\ f \in Pending
    /\ \A g \in Pending : task[f].until <= task[g].until
    /\ task[f].until <= ExecTimeout

HitLimit(f) == task[f].until - task[f].began = Limit(f)

\* The Lambda of f returns or raises in time.
Answers(f) == Due(f) /\ task[f].phase = "running" /\ ~HitLimit(f)

\* Mutant of Retry: MaxAttempts is not applied.
RetryForever(f, left) ==
    /\ task' = [task EXCEPT ![f] = Waiting(@, Waits[1])]
    /\ now' = task[f].until
    /\ strays' = strays \cup left
    /\ UNCHANGED state

\* The retrier of f has an attempt left: it waits.  An invocation in left runs on.
Retry(f, left) ==
    /\ task[f].tries < Retries(f)
    /\ task' = [task EXCEPT ![f] = Waiting(@, Waits[@.tries + 1])]
    /\ now' = task[f].until
    /\ strays' = strays \cup left
    /\ UNCHANGED state

\* Mutant of GiveUp: Catch leads to the following state.
GiveUpGoesOn(f, left) ==
    /\ Enter(Following[state], task[f].until, date)
    /\ strays' = strays \cup left \cup {g \in Lambdas \ {f} : task[g].phase = "running"}

\* Mutant of GiveUp: the Catch of NotifyFailure leads to NotifyFailure, too.
GiveUpNotifiesAgain(f, left) ==
    /\ Enter("NotifyFailure", task[f].until, date)
    /\ strays' = strays \cup left \cup {g \in Lambdas \ {f} : task[g].phase = "running"}

\* Catch routes the failure of a task to NotifyFailure, and that of
\* NotifyFailure to PipelineFailed.  The other branch of Normalization is
\* cancelled, which does not stop its Lambda.
GiveUp(f, left) ==
    /\ Enter(IF f = "notification" THEN "PipelineFailed" ELSE "NotifyFailure",
             task[f].until, date)
    /\ strays' = strays \cup left \cup {g \in Lambdas \ {f} : task[g].phase = "running"}

RetryOrGiveUp(f, left) ==
    Retry(f, left) \/ (task[f].tries = Retries(f) /\ GiveUp(f, left))

-----------------------------------------------------------------------------
(***************************************************************************)
(* Actions                                                                 *)
(***************************************************************************)

Init ==
    /\ state = "Ingestion"
    /\ now = 0
    /\ today \in {d \in Days : d - 1 \in Days}
    /\ \E duration \in Durations :
         task = [f \in Lambdas |->
                   IF f = "ingestion" THEN Launched(f, 0, duration, 0, NoDate)
                                    ELSE Off(NoDate)]
    /\ date = NoDate
    /\ strays = {}
    /\ transient = FALSE
    /\ announced = FALSE

\* Whether Discord took a post: send_discord turns every error into False, and
\* the notification Lambda returns 200 with either.
Sent == BOOLEAN

\* The Lambda returns; of ingestion's result the state machine keeps the date.
\* The last task to return takes the execution to the following state.
Returns(f) ==
    /\ Answers(f)
    /\ date' = IF f = "ingestion" THEN task[f].day ELSE date
    /\ IF \A g \in Tasks(state) \ {f} : task[g].phase = "ok"
       THEN Enter(Following[state], task[f].until, date')
       ELSE /\ task' = [task EXCEPT ![f] = Finished(@)]
            /\ now' = task[f].until
            /\ UNCHANGED state
    /\ announced' \in IF f = "notification" THEN Sent ELSE {announced}
    /\ UNCHANGED <<today, strays, transient>>

\* Mutant of Raises: every task is retried on States.ALL.
RaisesRetried(f) ==
    /\ Answers(f)
    /\ RetryOrGiveUp(f, {})
    /\ UNCHANGED <<date, today, transient, announced>>

\* The Lambda raises or is stopped by its own limit: of all tasks, only
\* NotifyFailure is retried.
Raises(f) ==
    /\ Answers(f)
    /\ IF f = "notification" THEN RetryOrGiveUp(f, {}) ELSE GiveUp(f, {})
    /\ UNCHANGED <<date, today, transient, announced>>

\* The invocation of f that may run on when its attempt has timed out: none if
\* the Lambda has reached its own limit by then.
RunsOn(f) == IF LambdaLimit(f) <= Limit(f) THEN {} ELSE {f}

\* The attempt takes TimeoutSeconds: States.Timeout is handled like an error
\* of the Lambda.
TimesOut(f) ==
    /\ Due(f)
    /\ task[f].phase = "running"
    /\ HitLimit(f)
    /\ IF f = "notification" THEN RetryOrGiveUp(f, RunsOn(f)) ELSE GiveUp(f, RunsOn(f))
    /\ UNCHANGED <<date, today, transient, announced>>

\* A transient AWS-side error ends the attempt; the invocation may never have
\* begun or may still be running.
AwsError(f) ==
    /\ Answers(f)
    /\ \E left \in SUBSET {f} : RetryOrGiveUp(f, left)
    /\ transient' = TRUE
    /\ UNCHANGED <<date, today, announced>>

\* The wait is over and the task is attempted again, with the same payload.
Resume(f) ==
    /\ Due(f)
    /\ task[f].phase = "waiting"
    /\ \E duration \in Lasting(f) :
         task' = [task EXCEPT ![f] =
                    Launched(f, @.until, duration, @.tries, date)]
    /\ now' = task[f].until
    /\ UNCHANGED <<state, date, today, strays, transient, announced>>

\* The execution has run for TimeoutSeconds: it ends at once, in no state of
\* the machine, and what was running runs on.
ExecutionTimesOut ==
    /\ state \in Working
    /\ \A f \in Pending : task[f].until >= ExecTimeout
    /\ state' = "TimedOut"
    /\ now' = ExecTimeout
    /\ task' = [f \in Lambdas |-> Off(task[f].day)]
    /\ strays' = strays \cup {f \in Lambdas : task[f].phase = "running"}
    /\ UNCHANGED <<date, today, transient, announced>>

\* An abandoned invocation comes to its end.
StrayEnds(f) ==
    /\ f \in strays
    /\ strays' = strays \ {f}
    /\ UNCHANGED <<state, now, task, date, today, transient, announced>>

Midnight ==
    /\ state \in Working
    /\ today + 1 \in Days
    /\ today' = today + 1
    /\ UNCHANGED <<state, now, task, date, strays, transient, announced>>

\* What Step Functions does by itself.
Advance ==
    \/ \E f \in Lambdas : \/ Returns(f) \/ Raises(f) \/ TimesOut(f)
                          \/ AwsError(f) \/ Resume(f)
    \/ ExecutionTimesOut

Next == Advance \/ Midnight \/ \E f \in Lambdas : StrayEnds(f)

Spec == Init /\ [][Next]_vars

\* Step Functions keeps its timers.
FairSpec == Spec /\ WF_vars(Advance)

-----------------------------------------------------------------------------
(***************************************************************************)
(* Properties                                                              *)
(***************************************************************************)

\* All steps operate on the same day, even across midnight
\* (ORCHESTRATION_HANDOFF.md:42): whatever attempts were made and repeated,
\* the invocations the execution went on from worked on one date, and a
\* successful execution made them all.
OneDay ==
    /\ \A f, g \in Steps :
         task[f].day # NoDate /\ task[g].day # NoDate => task[f].day = task[g].day
    /\ state = "Succeeded" => \A f \in Steps : task[f].day # NoDate

Branches == {"normalization_hn", "normalization_x"}

\* What is left running: unless AWS itself failed or the execution was cut off,
\* only the branch that was cancelled beside the one that failed, and that not
\* while a step runs.  Tasks that time out leave nothing (OwnLimitsFirst).
OnlyACancelledBranchRunsOn ==
    ~transient /\ state # "TimedOut" =>
        /\ strays \subseteq Branches
        /\ state \in Working \ {"NotifyFailure"} => strays = {}

\* A Lambda reaches its own limit no later than its attempt times out.
OwnLimitsFirst == LambdaTimeout <= TaskTimeout /\ NotifierTimeout <= NotifyTimeout

\* The limits of the four steps and of the three notification attempts, with
\* the waits between these, leave something of the execution's limit.
LimitsFit ==
    /\ NotifyRetries = 2
    /\ 4 * TaskTimeout + 3 * NotifyTimeout + Waits[1] + Waits[2] < ExecTimeout

\* The limit of the execution leaves room for every task to use up its own and
\* for the notification to be tried three times (LimitsFit): only an execution
\* that retried after an AWS-side error can be cut off.
OnlyRetriesCutOff == state = "TimedOut" => transient

\* Failures anywhere route to NotifyFailure (pipeline.asl.json:2): an
\* execution that ends without success comes from that state.
FailuresRouteToNotify ==
    [][state' \in {"PipelineFailed", "TimedOut"} /\ state' # state
         => state = "NotifyFailure"]_vars

\* "Even if Discord is down the execution still terminates in the
\* PipelineFailed state rather than hanging" (ORCHESTRATION_HANDOFF.md:77-78),
\* whether the notification returns, raises, reaches a limit or meets an error
\* of AWS, at each of its attempts: it never succeeds after all, and only
\* retries after AWS-side errors may have left it too little time.
FailureEnds ==
    state = "NotifyFailure" ~> \/ state = "PipelineFailed"
                               \/ state = "TimedOut" /\ transient

=============================================================================
