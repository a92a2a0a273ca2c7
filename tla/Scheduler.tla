------------------------------ MODULE Scheduler ------------------------------
(***************************************************************************)
(* The scheduler service: tasks at a time and the next settlement are jobs *)
(* of gocron, tasks at a height wait on a list that a poller goes through. *)
(* Stop holds the mutex while gocron waits for the jobs that run; every job*)
(* takes that mutex, a settlement's before its function and a task's after.*)
(* Every other critical section is one step, so only Stop is seen to hold  *)
(* the mutex.                                                              *)
(***************************************************************************)
EXTENDS Naturals

CONSTANTS
    Timed,       \* bound: calls of ScheduleTaskAtTime
    Settlement,  \* bound: calls of ScheduleNextSettlement
    Height,      \* bound: calls of ScheduleTaskAtHeight
    NoJob,       \* a nil job
    MaxStarts,   \* bound: starts of the service
    MaxHeight    \* bound: the height of the chain

ASSUME SchedulerAssumption ==
    /\ NoJob \notin Settlement
    /\ Timed \cap Settlement = {} /\ Timed \cap Height = {} /\ Settlement \cap Height = {}
    /\ MaxStarts \in Nat
    /\ MaxHeight \in Nat

Task == Timed \cup Settlement \cup Height

VARIABLES
    started,    \* blockCancel is set, and gocron runs
    stopping,   \* Stop holds the mutex and waits for gocron
    at,         \* how far each call, and the job or list entry it makes, has come
    begun,      \* how often each function was called
    job,        \* the job of the next settlement
    cancelled,  \* settlements whose context is cancelled
    starts,     \* starts so far
    poller,     \* the poller of each start: "none" "ask" "got"
    seen,       \* the height each poller got
    height,     \* the height of the chain
    target,     \* the height each task waits for
    overlapped, \* history: two calls of ScheduleNextSettlement were under way at once
    late,       \* history: a settlement was scheduled while a job was past its look
                \* at its context
    before      \* history: jobs that Stop has found

jobs == <<at, begun, job, cancelled>>
polling == <<starts, poller, seen>>
chain == <<height, target>>
history == <<overlapped, late, before>>
vars == <<started, stopping, jobs, polling, chain, history>>

Init ==
    /\ started = FALSE
    /\ stopping = FALSE
    /\ at = [x \in Task |-> "none"]
    /\ begun = [x \in Task |-> 0]
    /\ job = NoJob
    /\ cancelled = {}
    /\ starts = 0
    /\ poller = [g \in 1..MaxStarts |-> "none"]
    /\ seen = [g \in 1..MaxStarts |-> 0]
    /\ height = 0
    /\ target = [x \in Height |-> 0]
    /\ overlapped = FALSE
    /\ late = FALSE
    /\ before = {}

\* The mutex is free.
Free == ~stopping

\* gocron starts the jobs whose time has come.
Firing == started /\ ~stopping

\* A job that gocron has started and that has not returned.
Running(x) == at[x] \in {"fired", "passed", "settling", "running"}

Goes(x, from, to) ==
    /\ at[x] = from
    /\ at' = [at EXCEPT ![x] = to]

Begins(x) == begun' = [begun EXCEPT ![x] = @ + 1]

-----------------------------------------------------------------------------
(* Tasks at a time.                                                         *)

\* The time has passed: the task runs in a goroutine of its own.
TaskIsDue(x) ==
    /\ Goes(x, "none", "over")
    /\ Begins(x)
    /\ UNCHANGED <<started, stopping, job, cancelled, polling, chain, history>>

ScheduleTaskAtTime(x) ==
    /\ Free
    /\ Goes(x, "none", "scheduled")
    /\ UNCHANGED <<started, stopping, begun, job, cancelled, polling, chain, history>>

\* gocron refuses the job, or the time is zero.
TaskRefused(x) ==
    /\ Free
    /\ Goes(x, "none", "over")
    /\ UNCHANGED <<started, stopping, begun, job, cancelled, polling, chain, history>>

FireTask(x) ==
    /\ Firing
    /\ Goes(x, "scheduled", "running")
    /\ Begins(x)
    /\ UNCHANGED <<started, stopping, job, cancelled, polling, chain, history>>

\* The task returns, and its job takes the mutex before it ends.
TaskEnds(x) ==
    /\ Free
    /\ Goes(x, "running", "over")
    /\ UNCHANGED <<started, stopping, begun, job, cancelled, polling, chain, history>>

-----------------------------------------------------------------------------
(* The next settlement.                                                     *)

\* Faulty variant: a nil job is cancelled too.
CancelJobUnchecked ==
    /\ cancelled' = cancelled \cup {job}
    /\ job' = NoJob

\* Faulty variant: the job is forgotten and not cancelled.
CancelJobForgets ==
    /\ cancelled' = cancelled
    /\ job' = NoJob

\* The job there is will find its context cancelled.
CancelJob ==
    /\ cancelled' = IF job = NoJob THEN cancelled ELSE cancelled \cup {job}
    /\ job' = NoJob

CancelNextSettlement ==
    /\ Free
    /\ CancelJob
    /\ UNCHANGED <<started, stopping, at, begun, polling, chain, history>>

\* ScheduleNextSettlement cancels the settlement there is and lets the mutex go...
AskSettlement(x) ==
    /\ Free
    /\ Goes(x, "none", "asked")
    /\ CancelJob
    /\ overlapped' = (overlapped \/ \E y \in Settlement : at[y] = "asked")
    /\ UNCHANGED <<started, stopping, begun, polling, chain, late, before>>

\* ... and settles at once when the time has passed, ...
SettleNow(x) ==
    /\ Goes(x, "asked", "over")
    /\ Begins(x)
    /\ UNCHANGED <<started, stopping, job, cancelled, polling, chain, history>>

\* ... or takes the mutex again for a job.
ScheduleSettlement(x) ==
    /\ Free
    /\ Goes(x, "asked", "scheduled")
    /\ job' = x
    /\ late' = (late \/ \E y \in Settlement : at[y] = "passed")
    /\ UNCHANGED <<started, stopping, begun, cancelled, polling, chain, overlapped, before>>

\* gocron refuses the job.
SettlementRefused(x) ==
    /\ Free
    /\ Goes(x, "asked", "over")
    /\ UNCHANGED <<started, stopping, begun, job, cancelled, polling, chain, history>>

FireSettlement(x) ==
    /\ Firing
    /\ Goes(x, "scheduled", "fired")
    /\ UNCHANGED <<started, stopping, begun, job, cancelled, polling, chain, history>>

\* The job looks at its context.
LookAtContext(x) ==
    /\ Goes(x, "fired", IF x \in cancelled THEN "over" ELSE "passed")
    /\ UNCHANGED <<started, stopping, begun, job, cancelled, polling, chain, history>>

\* It forgets the job there is, its own or not, and settles.
Settle(x) ==
    /\ Free
    /\ Goes(x, "passed", "settling")
    /\ Begins(x)
    /\ job' = NoJob
    /\ UNCHANGED <<started, stopping, cancelled, polling, chain, history>>

SettleEnds(x) ==
    /\ Goes(x, "settling", "over")
    /\ UNCHANGED <<started, stopping, begun, job, cancelled, polling, chain, history>>

-----------------------------------------------------------------------------
(* Tasks at a height.                                                       *)

\* ScheduleTaskAtHeight asks for the height: the task runs now...
HeightIsReached(x) ==
    /\ \E h \in 1..height : target' = [target EXCEPT ![x] = h]
    /\ Goes(x, "none", "over")
    /\ Begins(x)
    /\ UNCHANGED <<started, stopping, job, cancelled, polling, height, history>>

\* ... or later, ...
AskHeight(x) ==
    /\ \E h \in (height + 1)..MaxHeight : target' = [target EXCEPT ![x] = h]
    /\ Goes(x, "none", "asked")
    /\ UNCHANGED <<started, stopping, begun, job, cancelled, polling, height, history>>

\* ... or the explorer does not tell.
HeightUnknown(x) ==
    /\ Goes(x, "none", "over")
    /\ UNCHANGED <<started, stopping, begun, job, cancelled, polling, chain, history>>

ListTask(x) ==
    /\ Free
    /\ Goes(x, "asked", "listed")
    /\ UNCHANGED <<started, stopping, begun, job, cancelled, polling, chain, history>>

\* The poller asks for the height; a failed call is tried again.
PollHeight(g) ==
    /\ poller[g] = "ask"
    /\ started /\ g = starts
    /\ poller' = [poller EXCEPT ![g] = "got"]
    /\ seen' = [seen EXCEPT ![g] = height]
    /\ UNCHANGED <<started, stopping, jobs, starts, chain, history>>

\* Faulty variant: a task that runs stays on the list.
RunTasksKeeping(g) ==
    /\ Free
    /\ poller[g] = "got"
    /\ poller' = [poller EXCEPT ![g] = "ask"]
    /\ seen' = [seen EXCEPT ![g] = 0]
    /\ begun' = [x \in Task |->
           IF x \in Height /\ at[x] = "listed" /\ target[x] <= seen[g] THEN begun[x] + 1 ELSE begun[x]]
    /\ UNCHANGED <<started, stopping, at, job, cancelled, starts, chain, history>>

\* Faulty variant: a task is run past its height.
RunTasksPast(g) ==
    LET reached == {x \in Height : at[x] = "listed" /\ target[x] < seen[g]}
    IN  /\ Free
        /\ poller[g] = "got"
        /\ poller' = [poller EXCEPT ![g] = "ask"]
        /\ seen' = [seen EXCEPT ![g] = 0]
        /\ at' = [x \in Task |-> IF x \in reached THEN "over" ELSE at[x]]
        /\ begun' = [x \in Task |-> IF x \in reached THEN begun[x] + 1 ELSE begun[x]]
        /\ UNCHANGED <<started, stopping, job, cancelled, starts, chain, history>>

\* The tasks whose height is reached run and leave the list.
RunTasks(g) ==
    LET reached == {x \in Height : at[x] = "listed" /\ target[x] <= seen[g]}
    IN  /\ Free
        /\ poller[g] = "got"
        /\ poller' = [poller EXCEPT ![g] = "ask"]
        /\ seen' = [seen EXCEPT ![g] = 0]
        /\ at' = [x \in Task |-> IF x \in reached THEN "over" ELSE at[x]]
        /\ begun' = [x \in Task |-> IF x \in reached THEN begun[x] + 1 ELSE begun[x]]
        /\ UNCHANGED <<started, stopping, job, cancelled, starts, chain, history>>

\* The poller of a service that was stopped ends.
PollerEnds(g) ==
    /\ poller[g] = "ask"
    /\ ~(started /\ g = starts)
    /\ poller' = [poller EXCEPT ![g] = "none"]
    /\ UNCHANGED <<started, stopping, jobs, starts, seen, chain, history>>

Mine ==
    /\ height < MaxHeight
    /\ height' = height + 1
    /\ UNCHANGED <<started, stopping, jobs, polling, target, history>>

-----------------------------------------------------------------------------
(* Start and stop.                                                          *)

\* A second call finds the service started and does nothing.
Start ==
    /\ Free
    /\ ~started
    /\ starts < MaxStarts
    /\ started' = TRUE
    /\ starts' = starts + 1
    /\ poller' = [poller EXCEPT ![starts + 1] = "ask"]
    /\ UNCHANGED <<stopping, jobs, seen, chain, history>>

\* Stop takes the mutex; gocron starts no job any more.
Stop ==
    /\ Free
    /\ stopping' = TRUE
    /\ before' = {x \in Timed \cup Settlement : at[x] = "scheduled" \/ Running(x)}
    /\ UNCHANGED <<started, jobs, polling, chain, overlapped, late>>

\* Faulty variant: the jobs are not cleared.
StopEndsKeeping ==
    /\ stopping
    /\ \A x \in Timed \cup Settlement : ~Running(x)
    /\ stopping' = FALSE
    /\ started' = FALSE
    /\ at' = [x \in Task |-> IF x \in Height /\ at[x] = "listed" THEN "over" ELSE at[x]]
    /\ job' = NoJob
    /\ UNCHANGED <<begun, cancelled, polling, chain, history>>

\* When no job runs any more, the jobs, the list and the poller's context go.
StopEnds ==
    /\ stopping
    /\ \A x \in Timed \cup Settlement : ~Running(x)
    /\ stopping' = FALSE
    /\ started' = FALSE
    /\ at' = [x \in Task |-> IF at[x] = "scheduled" \/ (x \in Height /\ at[x] = "listed")
                             THEN "over" ELSE at[x]]
    /\ job' = NoJob
    /\ UNCHANGED <<begun, cancelled, polling, chain, history>>

-----------------------------------------------------------------------------
TaskNext(x) ==
    \/ TaskIsDue(x)
    \/ ScheduleTaskAtTime(x)
    \/ TaskRefused(x)
    \/ FireTask(x)
    \/ TaskEnds(x)

SettlementNext(x) ==
    \/ AskSettlement(x)
    \/ SettleNow(x)
    \/ ScheduleSettlement(x)
    \/ SettlementRefused(x)
    \/ FireSettlement(x)
    \/ LookAtContext(x)
    \/ Settle(x)
    \/ SettleEnds(x)

HeightNext(x) ==
    \/ HeightIsReached(x)
    \/ AskHeight(x)
    \/ HeightUnknown(x)
    \/ ListTask(x)

PollerNext(g) ==
    \/ PollHeight(g)
    \/ RunTasks(g)
    \/ PollerEnds(g)

Next ==
    \/ \E x \in Timed : TaskNext(x)
    \/ \E x \in Settlement : SettlementNext(x)
    \/ CancelNextSettlement
    \/ \E x \in Height : HeightNext(x)
    \/ \E g \in 1..MaxStarts : PollerNext(g)
    \/ Mine
    \/ Start
    \/ Stop
    \/ StopEnds

Spec == Init /\ [][Next]_vars

\* The poller runs, and the explorer answers it in the end.
FairSpec ==
    /\ Spec
    /\ \A g \in 1..MaxStarts : WF_vars(PollHeight(g)) /\ WF_vars(RunTasks(g))

-----------------------------------------------------------------------------
(* Properties.                                                              *)

\* Every variable has its type; gocron runs when the service is started, and each
\* start has one poller.
TypeOK ==
    /\ started \in BOOLEAN
    /\ stopping \in BOOLEAN
    /\ \A x \in Timed : at[x] \in {"none", "scheduled", "running", "over"}
    /\ \A x \in Settlement :
           at[x] \in {"none", "asked", "scheduled", "fired", "passed", "settling", "over"}
    /\ \A x \in Height : at[x] \in {"none", "asked", "listed", "over"}
    /\ DOMAIN at = Task
    /\ begun \in [Task -> Nat]
    /\ job \in Settlement \cup {NoJob}
    /\ cancelled \subseteq Settlement
    /\ starts \in 0..MaxStarts
    /\ poller \in [1..MaxStarts -> {"none", "ask", "got"}]
    /\ seen \in [1..MaxStarts -> 0..MaxHeight]
    /\ height \in 0..MaxHeight
    /\ target \in [Height -> 0..MaxHeight]
    /\ overlapped \in BOOLEAN
    /\ late \in BOOLEAN
    /\ before \subseteq Timed \cup Settlement

\* No function is called twice: not by a job that fires once, nor by the pollers of
\* two starts that go through one list.
CalledOnce == \A x \in Task : begun[x] <= 1

\* A settlement whose job may still get past its look at its context.
Pending(x) == at[x] \in {"scheduled", "fired"} /\ x \notin cancelled

\* The one settlement that may still come is the one WhenNextSettlement tells of and
\* CancelNextSettlement cancels, unless calls of ScheduleNextSettlement overlapped or
\* one came as an earlier job was past its look at its context; and what
\* WhenNextSettlement tells of is still to come.
OneSettlement ==
    /\ ~overlapped /\ ~late => \A x \in Settlement : Pending(x) => x = job
    /\ job # NoJob => at[job] \in {"scheduled", "fired", "passed"} /\ job \notin cancelled

\* When Stop has returned, none of the jobs it found runs or ever will.
QuietAfterStop ==
    ~stopping => \A x \in before : at[x] = "over"

\* A task on the list whose height is reached is run, as long as the service is
\* neither stopped nor being stopped.
ListedRuns == \A x \in Height :
    at[x] = "listed" /\ target[x] <= height /\ started
        ~> at[x] # "listed" \/ ~started \/ stopping
=============================================================================
