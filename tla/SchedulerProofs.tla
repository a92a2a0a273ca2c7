--------------------------- MODULE SchedulerProofs ---------------------------
(***************************************************************************)
(* Theorems about Scheduler: type correctness, that no function is called  *)
(* twice, that the settlement to come is the one the service knows of,     *)
(* that nothing of before a stop runs after it, that no task runs before   *)
(* its height and that a started service has a poller, for any number of   *)
(* tasks, starts and blocks.                                               *)
(***************************************************************************)
EXTENDS Scheduler, TLAPS

-----------------------------------------------------------------------------
(* Type correctness.                                                        *)

LEMMA InitType == Init => TypeOK
<1> SUFFICES ASSUME Init PROVE TypeOK
  OBVIOUS
<1> USE SchedulerAssumption DEF Init, Task
<1>1. at = [x \in Task |-> "none"] /\ Timed \cap Settlement = {}
  BY DEF Task
<1>2. /\ \A x \in Timed : at[x] = "none"
      /\ \A x \in Settlement : at[x] = "none"
      /\ \A x \in Height : at[x] = "none"
      /\ DOMAIN at = Task
  BY <1>1
<1>3. begun \in [Task -> Nat] /\ starts \in 0..MaxStarts /\ height \in 0..MaxHeight
  OBVIOUS
<1>4. /\ poller \in [1..MaxStarts -> {"none", "ask", "got"}]
      /\ seen \in [1..MaxStarts -> 0..MaxHeight]
      /\ target \in [Height -> 0..MaxHeight]
  OBVIOUS
<1> QED
  BY <1>2, <1>3, <1>4 DEF TypeOK

LEMMA TimedType == ASSUME TypeOK, NEW x \in Timed, TaskNext(x) PROVE TypeOK'
<1> USE SchedulerAssumption DEF TypeOK, Task, Goes, polling, chain, history
<1>1. CASE TaskIsDue(x)
  BY <1>1 DEF TaskIsDue, Begins
<1>2. CASE ScheduleTaskAtTime(x) \/ TaskRefused(x) \/ TaskEnds(x)
  BY <1>2 DEF ScheduleTaskAtTime, TaskRefused, TaskEnds
<1>3. CASE FireTask(x)
  BY <1>3 DEF FireTask, Begins
<1> QED
  BY <1>1, <1>2, <1>3 DEF TaskNext

LEMMA SettlementType == ASSUME TypeOK, NEW x \in Settlement, SettlementNext(x) PROVE TypeOK'
<1> USE SchedulerAssumption DEF TypeOK, Task, Goes, polling, chain, history
<1>1. CASE AskSettlement(x)
  BY <1>1 DEF AskSettlement, CancelJob
<1>2. CASE SettleNow(x)
  BY <1>2 DEF SettleNow, Begins
<1>3. CASE ScheduleSettlement(x)
  BY <1>3 DEF ScheduleSettlement
<1>4. CASE SettlementRefused(x) \/ FireSettlement(x) \/ LookAtContext(x) \/ SettleEnds(x)
  BY <1>4 DEF SettlementRefused, FireSettlement, LookAtContext, SettleEnds
<1>5. CASE Settle(x)
  BY <1>5 DEF Settle, Begins
<1> QED
  BY <1>1, <1>2, <1>3, <1>4, <1>5 DEF SettlementNext

LEMMA HeightType == ASSUME TypeOK, NEW x \in Height, HeightNext(x) PROVE TypeOK'
<1> USE SchedulerAssumption DEF TypeOK, Task, Goes, polling, chain, history
<1>1. CASE HeightIsReached(x)
  BY <1>1 DEF HeightIsReached, Begins
<1>2. CASE AskHeight(x)
  BY <1>2 DEF AskHeight
<1>3. CASE HeightUnknown(x)
  BY <1>3 DEF HeightUnknown
<1>4. CASE ListTask(x)
  BY <1>4 DEF ListTask
<1> QED
  BY <1>1, <1>2, <1>3, <1>4 DEF HeightNext

LEMMA PollerType == ASSUME TypeOK, NEW g \in 1..MaxStarts, PollerNext(g) PROVE TypeOK'
<1> USE SchedulerAssumption DEF TypeOK, Task, jobs, chain, history
<1>1. CASE PollHeight(g)
  BY <1>1 DEF PollHeight
<1>2. CASE RunTasks(g)
  BY <1>2 DEF RunTasks
<1>3. CASE PollerEnds(g)
  BY <1>3 DEF PollerEnds
<1> QED
  BY <1>1, <1>2, <1>3 DEF PollerNext

\* The steps that are not of one call or one poller.
Others == CancelNextSettlement \/ Mine \/ Start \/ Stop \/ StopEnds

LEMMA OthersType == ASSUME TypeOK, Others PROVE TypeOK'
<1> USE SchedulerAssumption DEF TypeOK, Task, jobs, polling, chain, history
<1>1. CASE CancelNextSettlement
  BY <1>1 DEF CancelNextSettlement, CancelJob
<1>2. CASE Mine
  BY <1>2 DEF Mine
<1>3. CASE Start
  BY <1>3 DEF Start
<1>4. CASE Stop
  BY <1>4 DEF Stop
<1>5. CASE StopEnds
  BY <1>5 DEF StopEnds
<1> QED
  BY <1>1, <1>2, <1>3, <1>4, <1>5 DEF Others

LEMMA NextType == TypeOK /\ [Next]_vars => TypeOK'
<1> SUFFICES ASSUME TypeOK, [Next]_vars PROVE TypeOK'
  OBVIOUS
<1>1. CASE UNCHANGED vars
  BY <1>1 DEF TypeOK, vars, jobs, polling, chain, history
<1> QED
  BY <1>1, TimedType, SettlementType, HeightType, PollerType, OthersType DEF Next, Others

\* Every variable keeps its type, whatever calls, jobs, polls, starts and stops do to
\* each other.
THEOREM SchedulerTypeCorrect == Spec => []TypeOK
<1>1. Init => TypeOK
  BY InitType
<1>2. TypeOK /\ [Next]_vars => TypeOK'
  BY NextType
<1> QED
  BY <1>1, <1>2, PTL DEF Spec

-----------------------------------------------------------------------------
(* No function is called twice.                                             *)

\* What has yet to be called has not been called.
Uncalled == \A x \in Task :
    at[x] \in {"none", "asked", "scheduled", "fired", "passed", "listed"} => begun[x] = 0

CInv == TypeOK /\ CalledOnce /\ Uncalled

LEMMA NextCInv == CInv /\ [Next]_vars => CalledOnce' /\ Uncalled'
<1> SUFFICES ASSUME CInv, [Next]_vars PROVE CalledOnce' /\ Uncalled'
  OBVIOUS
<1> USE SchedulerAssumption
    DEF CInv, TypeOK, Task, CalledOnce, Uncalled, Goes, Begins, polling, chain, history
<1>1. ASSUME NEW x \in Timed, TaskNext(x) PROVE CalledOnce' /\ Uncalled'
  <2>1. CASE TaskIsDue(x) \/ FireTask(x)
    <3>1. begun[x] = 0 /\ begun' = [begun EXCEPT ![x] = @ + 1]
      BY <2>1 DEF TaskIsDue, FireTask
    <3>2. \E a \in {"over", "running"} : at' = [at EXCEPT ![x] = a]
      BY <2>1 DEF TaskIsDue, FireTask
    <3> QED
      BY <3>1, <3>2
  <2>2. CASE ScheduleTaskAtTime(x) \/ TaskRefused(x) \/ TaskEnds(x)
    BY <2>2 DEF ScheduleTaskAtTime, TaskRefused, TaskEnds
  <2> QED
    BY <1>1, <2>1, <2>2 DEF TaskNext
<1>2. ASSUME NEW x \in Settlement, SettlementNext(x) PROVE CalledOnce' /\ Uncalled'
  <2>1. CASE SettleNow(x) \/ Settle(x)
    <3>1. begun[x] = 0 /\ begun' = [begun EXCEPT ![x] = @ + 1]
      BY <2>1 DEF SettleNow, Settle
    <3>2. \E a \in {"over", "settling"} : at' = [at EXCEPT ![x] = a]
      BY <2>1 DEF SettleNow, Settle
    <3> QED
      BY <3>1, <3>2
  <2>2. CASE AskSettlement(x) \/ ScheduleSettlement(x) \/ SettlementRefused(x) \/ FireSettlement(x)
    BY <2>2 DEF AskSettlement, ScheduleSettlement, SettlementRefused, FireSettlement
  <2>3. CASE LookAtContext(x) \/ SettleEnds(x)
    BY <2>3 DEF LookAtContext, SettleEnds
  <2> QED
    BY <1>2, <2>1, <2>2, <2>3 DEF SettlementNext
<1>3. ASSUME NEW x \in Height, HeightNext(x) PROVE CalledOnce' /\ Uncalled'
  <2>1. CASE HeightIsReached(x)
    <3>1. begun[x] = 0 /\ begun' = [begun EXCEPT ![x] = @ + 1] /\ at' = [at EXCEPT ![x] = "over"]
      BY <2>1 DEF HeightIsReached
    <3> QED
      BY <3>1
  <2>2. CASE AskHeight(x) \/ HeightUnknown(x) \/ ListTask(x)
    BY <2>2 DEF AskHeight, HeightUnknown, ListTask
  <2> QED
    BY <1>3, <2>1, <2>2 DEF HeightNext
<1>4. ASSUME NEW g \in 1..MaxStarts, RunTasks(g) PROVE CalledOnce' /\ Uncalled'
  BY <1>4 DEF RunTasks
<1>5. ASSUME NEW g \in 1..MaxStarts, PollHeight(g) \/ PollerEnds(g)
      PROVE  CalledOnce' /\ Uncalled'
  BY <1>5 DEF PollHeight, PollerEnds, jobs
<1>6. CASE Others
  BY <1>6 DEF Others, CancelNextSettlement, Mine, Start, Stop, StopEnds, jobs
<1>7. CASE UNCHANGED vars
  BY <1>7 DEF vars, jobs
<1> QED
  BY <1>1, <1>2, <1>3, <1>4, <1>5, <1>6, <1>7 DEF Next, PollerNext, Others

\* No job, list entry or goroutine calls the function it was given a second time.
THEOREM EachCalledOnce == Spec => []CalledOnce
<1>1. Init => CInv
  BY InitType DEF Init, CInv, CalledOnce, Uncalled, Task
<1>2. CInv /\ [Next]_vars => CInv'
  BY NextType, NextCInv DEF CInv
<1>3. CInv => CalledOnce
  BY DEF CInv
<1> QED
  BY <1>1, <1>2, <1>3, PTL DEF Spec

-----------------------------------------------------------------------------
(* The settlement to come is the one the service knows of.                  *)

\* Between the two critical sections of ScheduleNextSettlement there is no job, ...
AskedAlone ==
    ~overlapped => \A x \in Settlement : at[x] = "asked" =>
        /\ job = NoJob
        /\ \A y \in Settlement : at[y] = "asked" => y = x

\* ... and a job past its look at its context finds itself or none.
PassedIsJob ==
    ~overlapped /\ ~late => \A x \in Settlement : at[x] = "passed" => job \in {x, NoJob}

\* A context that is cancelled is that of a job that was made.
CancelledWasJob == \A x \in cancelled : at[x] \notin {"none", "asked"}

SettlementParts == OneSettlement /\ AskedAlone /\ PassedIsJob /\ CancelledWasJob

SInv == TypeOK /\ SettlementParts

LEMMA SettlementSInv ==
    ASSUME SInv, NEW x \in Settlement, SettlementNext(x)
    PROVE  SettlementParts'
<1> USE SchedulerAssumption
    DEF SInv, SettlementParts, TypeOK, Task, OneSettlement, Pending, AskedAlone, PassedIsJob,
        CancelledWasJob, Goes, polling, chain, history
<1>1. CASE AskSettlement(x)
  BY <1>1 DEF AskSettlement, CancelJob
<1>2. CASE SettleNow(x) \/ SettlementRefused(x) \/ SettleEnds(x)
  BY <1>2 DEF SettleNow, SettlementRefused, SettleEnds
<1>3. CASE ScheduleSettlement(x)
  <2> USE <1>3 DEF ScheduleSettlement
  <2>1. x \notin cancelled
    BY <1>3
  <2>2. OneSettlement'
    BY <2>1
  <2>3. AskedAlone'
    OBVIOUS
  <2>4. PassedIsJob' /\ CancelledWasJob'
    OBVIOUS
  <2> QED
    BY <2>2, <2>3, <2>4
<1>4. CASE FireSettlement(x)
  BY <1>4 DEF FireSettlement
<1>5. CASE LookAtContext(x)
  BY <1>5 DEF LookAtContext
<1>6. CASE Settle(x)
  BY <1>6 DEF Settle
<1> QED
  BY <1>1, <1>2, <1>3, <1>4, <1>5, <1>6 DEF SettlementNext

LEMMA NextSInv == SInv /\ [Next]_vars => SettlementParts'
<1> SUFFICES ASSUME SInv, [Next]_vars PROVE SettlementParts'
  OBVIOUS
<1> USE SchedulerAssumption
    DEF SInv, SettlementParts, TypeOK, Task, OneSettlement, Pending, AskedAlone, PassedIsJob,
        CancelledWasJob, Goes, polling, chain, history
<1>1. ASSUME NEW x \in Timed, TaskNext(x) PROVE SettlementParts'
  BY <1>1 DEF TaskNext, TaskIsDue, ScheduleTaskAtTime, TaskRefused, FireTask, TaskEnds
<1>2. ASSUME NEW x \in Height, HeightNext(x) PROVE SettlementParts'
  BY <1>2 DEF HeightNext, HeightIsReached, AskHeight, HeightUnknown, ListTask
<1>3. ASSUME NEW g \in 1..MaxStarts, PollerNext(g) PROVE SettlementParts'
  BY <1>3 DEF PollerNext, RunTasks, PollHeight, PollerEnds, jobs
<1>4. CASE CancelNextSettlement
  BY <1>4 DEF CancelNextSettlement, CancelJob
<1>5. CASE Mine \/ Start \/ Stop
  BY <1>5 DEF Mine, Start, Stop, jobs
<1>6. CASE StopEnds
  BY <1>6 DEF StopEnds, Running
<1>7. CASE UNCHANGED vars
  BY <1>7 DEF vars, jobs
<1> QED
  BY <1>1, <1>2, <1>3, <1>4, <1>5, <1>6, <1>7, SettlementSInv DEF Next

\* The settlement that may still come is the one the service tells of and cancels,
\* unless calls of ScheduleNextSettlement overlap or one comes behind a job's look at
\* its context.
THEOREM OneSettlementToCome == Spec => []OneSettlement
<1>1. Init => SInv
  BY InitType DEF Init, SInv, SettlementParts, OneSettlement, Pending, AskedAlone, PassedIsJob,
                  CancelledWasJob, Task
<1>2. SInv /\ [Next]_vars => SInv'
  BY NextType, NextSInv DEF SInv
<1>3. SInv => OneSettlement
  BY DEF SInv, SettlementParts
<1> QED
  BY <1>1, <1>2, <1>3, PTL DEF Spec

-----------------------------------------------------------------------------
(* Nothing of before a stop runs after it.                                  *)

\* What Stop has found is a job, or was one.
FoundIsJob == \A x \in before : at[x] = "over" \/ at[x] = "scheduled" \/ Running(x)

QInv == TypeOK /\ QuietAfterStop /\ FoundIsJob

LEMMA NextQInv == QInv /\ [Next]_vars => QuietAfterStop' /\ FoundIsJob'
<1> SUFFICES ASSUME QInv, [Next]_vars PROVE QuietAfterStop' /\ FoundIsJob'
  OBVIOUS
<1> USE SchedulerAssumption
    DEF QInv, TypeOK, Task, QuietAfterStop, FoundIsJob, Running, Goes, polling, chain, history
<1>1. ASSUME NEW x \in Timed, TaskNext(x) PROVE QuietAfterStop' /\ FoundIsJob'
  <2>1. CASE TaskIsDue(x) \/ ScheduleTaskAtTime(x) \/ TaskRefused(x)
    BY <2>1 DEF TaskIsDue, ScheduleTaskAtTime, TaskRefused
  <2>2. CASE FireTask(x)
    BY <2>2 DEF FireTask
  <2>3. CASE TaskEnds(x)
    BY <2>3 DEF TaskEnds
  <2> QED
    BY <1>1, <2>1, <2>2, <2>3 DEF TaskNext
<1>2. ASSUME NEW x \in Settlement, SettlementNext(x) PROVE QuietAfterStop' /\ FoundIsJob'
  <2>1. CASE SettleNow(x)
    BY <2>1 DEF SettleNow
  <2>2. CASE AskSettlement(x) \/ ScheduleSettlement(x) \/ SettlementRefused(x)
    BY <2>2 DEF AskSettlement, ScheduleSettlement, SettlementRefused
  <2>3. CASE LookAtContext(x)
    BY <2>3 DEF LookAtContext
  <2>4. CASE FireSettlement(x)
    BY <2>4 DEF FireSettlement
  <2>5. CASE Settle(x)
    BY <2>5 DEF Settle
  <2>6. CASE SettleEnds(x)
    BY <2>6 DEF SettleEnds
  <2> QED
    BY <1>2, <2>1, <2>2, <2>3, <2>4, <2>5, <2>6 DEF SettlementNext
<1>3. ASSUME NEW x \in Height, HeightNext(x) PROVE QuietAfterStop' /\ FoundIsJob'
  <2>1. CASE HeightIsReached(x) \/ HeightUnknown(x)
    BY <2>1 DEF HeightIsReached, HeightUnknown
  <2>2. CASE AskHeight(x) \/ ListTask(x)
    BY <2>2 DEF AskHeight, ListTask
  <2> QED
    BY <1>3, <2>1, <2>2 DEF HeightNext
<1>4. ASSUME NEW g \in 1..MaxStarts, PollerNext(g) PROVE QuietAfterStop' /\ FoundIsJob'
  BY <1>4 DEF PollerNext, RunTasks, PollHeight, PollerEnds, jobs
<1>5. CASE CancelNextSettlement \/ Mine \/ Start
  BY <1>5 DEF CancelNextSettlement, Mine, Start, jobs
<1>6. CASE Stop
  BY <1>6 DEF Stop, jobs
<1>7. CASE StopEnds
  BY <1>7 DEF StopEnds
<1>8. CASE UNCHANGED vars
  BY <1>8 DEF vars, jobs
<1> QED
  BY <1>1, <1>2, <1>3, <1>4, <1>5, <1>6, <1>7, <1>8 DEF Next

\* When Stop has returned, no job it found runs or ever will, after a new start
\* either.
THEOREM QuietOnceStopped == Spec => []QuietAfterStop
<1>1. Init => QInv
  BY InitType DEF Init, QInv, QuietAfterStop, FoundIsJob
<1>2. QInv /\ [Next]_vars => QInv'
  BY NextType, NextQInv DEF QInv
<1>3. QInv => QuietAfterStop
  BY DEF QInv
<1> QED
  BY <1>1, <1>2, <1>3, PTL DEF Spec
-----------------------------------------------------------------------------
(* Tasks at a height.                                                       *)

\* No task was called before its height was reached, ...
NoneEarly == \A x \in Height : begun[x] > 0 => target[x] <= height

\* ... for no poller knows of a height that the chain does not have.
SeenIsMined == \A g \in 1..MaxStarts : seen[g] <= height

\* A service that is started has its poller, and it is not that of an earlier start:
\* only the poller of a service that was stopped ends.
HasPoller == started => starts \in 1..MaxStarts /\ poller[starts] # "none"

HInv == CInv /\ NoneEarly /\ SeenIsMined /\ HasPoller

LEMMA NextHInv == HInv /\ [Next]_vars => NoneEarly' /\ SeenIsMined' /\ HasPoller'
<1> SUFFICES ASSUME HInv, [Next]_vars PROVE NoneEarly' /\ SeenIsMined' /\ HasPoller'
  OBVIOUS
<1> USE SchedulerAssumption
    DEF HInv, CInv, TypeOK, Task, Uncalled, NoneEarly, SeenIsMined, HasPoller, Goes, Begins,
        polling, chain, history
<1>1. ASSUME NEW x \in Timed \cup Settlement, TaskNext(x) \/ SettlementNext(x)
      PROVE  NoneEarly' /\ SeenIsMined' /\ HasPoller'
  <2>1. /\ UNCHANGED <<started, starts, poller, seen, height, target>>
        /\ UNCHANGED begun \/ begun' = [begun EXCEPT ![x] = @ + 1]
    BY <1>1 DEF TaskNext, TaskIsDue, ScheduleTaskAtTime, TaskRefused, FireTask, TaskEnds,
         SettlementNext, AskSettlement, SettleNow, ScheduleSettlement, SettlementRefused,
         FireSettlement, LookAtContext, Settle, SettleEnds
  <2>2. \A y \in Height : begun'[y] = begun[y]
    BY <1>1, <2>1
  <2> QED
    BY <2>1, <2>2
<1>2. ASSUME NEW x \in Height, HeightNext(x) PROVE NoneEarly' /\ SeenIsMined' /\ HasPoller'
  <2>1. CASE HeightIsReached(x)
    <3>1. PICK h \in 1..height : target' = [target EXCEPT ![x] = h]
      BY <2>1 DEF HeightIsReached
    <3> QED
      BY <2>1, <3>1 DEF HeightIsReached
  <2>2. CASE AskHeight(x)
    <3>1. begun[x] = 0 /\ \E h \in (height + 1)..MaxHeight : target' = [target EXCEPT ![x] = h]
      BY <2>2 DEF AskHeight
    <3> QED
      BY <2>2, <3>1 DEF AskHeight
  <2>3. CASE HeightUnknown(x) \/ ListTask(x)
    BY <2>3 DEF HeightUnknown, ListTask
  <2> QED
    BY <1>2, <2>1, <2>2, <2>3 DEF HeightNext
<1>3. ASSUME NEW g \in 1..MaxStarts, PollerNext(g) PROVE NoneEarly' /\ SeenIsMined' /\ HasPoller'
  <2>1. CASE PollHeight(g)
    BY <2>1 DEF PollHeight, jobs
  <2>2. CASE RunTasks(g)
    <3>1. \A x \in Height : begun'[x] = begun[x] \/ target[x] <= seen[g]
      BY <2>2 DEF RunTasks
    <3>2. UNCHANGED <<started, starts, height, target>>
      BY <2>2 DEF RunTasks
    <3>3. seen' = [seen EXCEPT ![g] = 0] /\ poller' = [poller EXCEPT ![g] = "ask"]
      BY <2>2 DEF RunTasks
    <3>4. NoneEarly'
      BY <3>1, <3>2
    <3> QED
      BY <3>2, <3>3, <3>4
  <2>3. CASE PollerEnds(g)
    BY <2>3 DEF PollerEnds, jobs
  <2> QED
    BY <1>3, <2>1, <2>2, <2>3 DEF PollerNext
<1>4. CASE Others \/ UNCHANGED vars
  BY <1>4 DEF Others, CancelNextSettlement, Mine, Start, Stop, StopEnds, jobs, vars
<1> QED
  BY <1>1, <1>2, <1>3, <1>4 DEF Next, Others

LEMMA HeightInvariant == Spec => []HInv
<1>1. Init => HInv
  BY SchedulerAssumption, InitType
     DEF Init, HInv, CInv, CalledOnce, Uncalled, Task, NoneEarly, SeenIsMined, HasPoller
<1>2. HInv /\ [Next]_vars => HInv'
  BY NextType, NextCInv, NextHInv DEF HInv, CInv
<1> QED
  BY <1>1, <1>2, PTL DEF Spec

\* A task at a height is never called before the chain has that height, not by the
\* poller of an earlier start either, which goes through the list with what it asked
\* for before the service was stopped.
THEOREM NoTaskBeforeItsHeight == Spec => []NoneEarly
<1>1. HInv => NoneEarly
  BY DEF HInv
<1> QED
  BY <1>1, HeightInvariant, PTL

\* A service that is started has a poller of its own that goes through the list,
\* whatever stops and starts follow each other: what ListedRuns needs of the state.
THEOREM StartedIsPolled == Spec => []HasPoller
<1>1. HInv => HasPoller
  BY DEF HInv
<1> QED
  BY <1>1, HeightInvariant, PTL
=============================================================================
