----------------------------- MODULE Scheduler ------------------------------
(***************************************************************************)
(* The task scheduler of keryxflow/agent/scheduler.py.                     *)
(*                                                                         *)
(* One loop walks the dict of tasks and awaits each that is due;           *)
(* run_task_now() runs a task from another coroutine; tasks are added,     *)
(* removed, enabled and disabled while either waits.  A dict that changed  *)
(* its size ends the walk with a RuntimeError, which the loop logs before  *)
(* it sleeps.  After a run the next one is computed from the clock; for a  *)
(* day of the month that the next month lacks, the computation raises.     *)
(*                                                                         *)
(* Time is counted in slots.  Whether a task ever succeeded stands for its *)
(* run_count; its status and the other counters, which nothing reads, and  *)
(* the history are left out.                                               *)
(***************************************************************************)
EXTENDS Integers, Sequences, FiniteSetsExt

CONSTANTS
    Tasks,        \* task objects
    Plans,        \* frequencies with a day (from 0; of a month from 1) and a time
    Callers,      \* coroutines that call run_task_now()
    HourSlots,    \* slots of an hour
    DaySlots,     \* slots of a day
    WeekDays,     \* days of a week
    Months,       \* the lengths of the months, in days
    LastSlot,     \* bound: the clock stops there
    MaxCalls      \* bound: calls to the scheduler

Gone == "gone"   \* what is left of an entry of the dict

ASSUME PlanAssumption ==
    /\ Gone \notin Tasks
    /\ {HourSlots, DaySlots, WeekDays} \subseteq Nat \ {0} /\ {LastSlot, MaxCalls} \subseteq Nat
    /\ Months \in Seq(Nat \ {0}) /\ Months # <<>>
    /\ DaySlots % HourSlots = 0
    /\ Plans \subseteq [freq : {"once", "hourly", "daily", "weekly", "monthly"},
                        day : Nat, at : 0 .. DaySlots - 1]
    /\ \A p \in Plans : p.freq = "monthly" => p.day # 0

VARIABLES
    slot,      \* the clock
    table,     \* _tasks: the entries of the dict, in order, Gone where one was deleted
    tasks,     \* task -> what its object holds
    walk,      \* the loop and its walk over the dict
    jobs,      \* runner -> the task whose callback it awaits, or NoJob
    calls      \* bound

schedVars == <<slot, table, tasks, walk, jobs, calls>>

Loop == "loop"
Runners == {Loop} \cup Callers
Never == -1
NoJob == Gone
NoPlan == [freq |-> "none", day |-> 0, at |-> 0]
NewTask == [plan |-> NoPlan, next |-> Never, enabled |-> FALSE, ran |-> FALSE, asked |-> 0]
LoopOff == [stage |-> "off", now |-> 0, pos |-> 0, left |-> 0, size |-> 0]

SchedInit ==
    /\ slot = 0 /\ table = <<>> /\ calls = 0
    /\ tasks = [t \in Tasks |-> NewTask]
    /\ walk = LoopOff
    /\ jobs = [r \in Runners |-> NoJob]

Listed(t) == \E i \in DOMAIN table : table[i] = t
TableSize == Cardinality({i \in DOMAIN table : table[i] # Gone})

-----------------------------------------------------------------------------
(* The calendar.                                                            *)
MonthLength(m) == Months[1 + (m % Len(Months))]
FirstDay[m \in Nat] == IF m = 0 THEN 0 ELSE FirstDay[m - 1] + MonthLength(m - 1)
MonthStart(m) == FirstDay[m]
MonthAt(u) == CHOOSE m \in 0 .. u \div DaySlots :
                  /\ MonthStart(m) <= u \div DaySlots
                  /\ u \div DaySlots < MonthStart(m) + MonthLength(m)
SlotOf(day, at) == day * DaySlots + at
Earlier(a, b) == IF a < b THEN a ELSE b

(* _calculate_next_run(), one operator for each frequency.                  *)
NextHour(u) == (u \div HourSlots) * HourSlots + HourSlots

(* Mutated form of NextDaily: a time that is just now is taken again.       *)
NextDailyNow(p, u) ==
    LET today == SlotOf(u \div DaySlots, p.at)
    IN  IF today < u THEN today + DaySlots ELSE today

NextDaily(p, u) ==
    LET today == SlotOf(u \div DaySlots, p.at)
    IN  IF today <= u THEN today + DaySlots ELSE today

NextWeekly(p, u) ==
    LET today == u \div DaySlots
        away == p.day - (today % WeekDays)
        ahead == IF away < 0 THEN away + WeekDays ELSE away
        found == SlotOf(today + ahead, p.at)
    IN  IF found <= u THEN found + WeekDays * DaySlots ELSE found

DayTried(p, u) == Earlier(p.day, MonthLength(MonthAt(u)))
TriedMonthly(p, u) == SlotOf(MonthStart(MonthAt(u)) + DayTried(p, u) - 1, p.at)

NextMonthly(p, u) ==
    IF TriedMonthly(p, u) <= u
    THEN SlotOf(MonthStart(MonthAt(u) + 1) + DayTried(p, u) - 1, p.at)
    ELSE TriedMonthly(p, u)

(* replace(month=...) raises when that month has no such day.               *)
Computes(p) ==
    \/ p.freq # "monthly" \/ TriedMonthly(p, slot) > slot
    \/ DayTried(p, slot) <= MonthLength(MonthAt(slot) + 1)

NextRun(k) ==
    CASE k.plan.freq = "once" ->
             IF k.ran THEN Never ELSE IF k.next = Never THEN slot ELSE k.next
      [] k.plan.freq = "hourly" -> NextHour(slot)
      [] k.plan.freq = "daily" -> NextDaily(k.plan, slot)
      [] k.plan.freq = "weekly" -> NextWeekly(k.plan, slot)
      [] k.plan.freq = "monthly" -> NextMonthly(k.plan, slot)

(* `asked`, when that was, is history; a task to be run once has none.      *)
Rescheduled(k) ==
    [k EXCEPT !.next = NextRun(k), !.asked = IF k.plan.freq = "once" THEN 0 ELSE slot]

-----------------------------------------------------------------------------
(* The callers' operations: each is one synchronous step.                   *)
IsCall == calls < MaxCalls /\ calls' = calls + 1

AddTask(t, p) ==
    /\ IsCall /\ tasks[t] = NewTask /\ Computes(p)
    /\ table' = Append(table, t)
    /\ tasks' = [tasks EXCEPT ![t] = Rescheduled([@ EXCEPT !.plan = p, !.enabled = TRUE])]
    /\ UNCHANGED <<slot, walk, jobs>>

RemoveTask(t) ==
    /\ IsCall /\ Listed(t)
    /\ table' = [i \in DOMAIN table |-> IF table[i] = t THEN Gone ELSE table[i]]
    /\ UNCHANGED <<slot, tasks, walk, jobs>>

EnableTask(t) ==
    /\ IsCall /\ Listed(t)
    /\ tasks' = [tasks EXCEPT ![t] =
                    IF Computes(@.plan) THEN Rescheduled([@ EXCEPT !.enabled = TRUE])
                    ELSE [@ EXCEPT !.enabled = TRUE]]
    /\ UNCHANGED <<slot, table, walk, jobs>>

DisableTask(t) ==
    /\ IsCall /\ Listed(t)
    /\ tasks' = [tasks EXCEPT ![t].enabled = FALSE]
    /\ UNCHANGED <<slot, table, walk, jobs>>

StartLoop ==
    /\ IsCall /\ walk.stage = "off"
    /\ walk' = [walk EXCEPT !.stage = "wake"]
    /\ UNCHANGED <<slot, table, tasks, jobs>>

(* stop(): the loop's task is cancelled where it waits; an execution that   *)
(* is cut short counts neither as a run nor as a failure.                   *)
StopLoop ==
    /\ IsCall /\ walk.stage # "off"
    /\ walk' = LoopOff
    /\ jobs' = [jobs EXCEPT ![Loop] = NoJob]
    /\ UNCHANGED <<slot, table, tasks>>

TimePasses ==
    /\ slot < LastSlot /\ slot' = slot + 1
    /\ UNCHANGED <<table, tasks, walk, jobs, calls>>

-----------------------------------------------------------------------------
(* _run_loop(): the clock is read once for the walk.                        *)
LoopWakes ==
    /\ walk.stage = "wake"
    /\ walk' = [stage |-> "scan", now |-> slot, pos |-> 0, left |-> TableSize,
                size |-> TableSize]
    /\ UNCHANGED <<slot, table, tasks, jobs, calls>>

(* What the iterator still yields; a changed size makes it raise at once,   *)
(* and it raises after as many entries as there were when it began.         *)
Ahead == {i \in DOMAIN table : /\ i > walk.pos /\ table[i] # Gone
                               /\ Cardinality({j \in walk.pos + 1 .. i : table[j] # Gone})
                                      <= walk.left}
DueAhead == {i \in Ahead : LET k == tasks[table[i]]
                           IN  k.enabled /\ k.next # Never /\ walk.now >= k.next}

Begins(r, t) == jobs' = [jobs EXCEPT ![r] = t]

ScanTakes ==
    /\ walk.stage = "scan" /\ jobs[Loop] = NoJob
    /\ walk.size = TableSize /\ DueAhead # {}
    /\ LET i == Min(DueAhead)
           passed == Cardinality({j \in walk.pos + 1 .. i : table[j] # Gone})
       IN  /\ walk' = [walk EXCEPT !.pos = i, !.left = @ - passed]
           /\ Begins(Loop, table[i])
    /\ UNCHANGED <<slot, table, tasks, calls>>

ScanEnds ==
    /\ walk.stage = "scan" /\ jobs[Loop] = NoJob
    /\ (walk.size # TableSize \/ DueAhead = {})
    /\ walk' = [walk EXCEPT !.stage = "wake"]
    /\ UNCHANGED <<slot, table, tasks, jobs, calls>>

(* run_task_now()                                                           *)
RunTaskNow(c, t) ==
    /\ IsCall /\ jobs[c] = NoJob /\ Listed(t)
    /\ Begins(c, t)
    /\ UNCHANGED <<slot, table, tasks, walk>>

-----------------------------------------------------------------------------
(* _execute_task() after the callback; the event it publishes last changes  *)
(* nothing here, and the loop may wait after it as well.                    *)
TaskSucceeds(r) ==
    LET t == jobs[r] IN
    /\ t # NoJob /\ Computes(tasks[t].plan)
    /\ tasks' = [tasks EXCEPT ![t] = Rescheduled([@ EXCEPT !.ran = TRUE])]
    /\ jobs' = [jobs EXCEPT ![r] = NoJob]
    /\ UNCHANGED <<slot, table, walk, calls>>

TaskFails(r) ==
    LET t == jobs[r] IN
    /\ t # NoJob /\ Computes(tasks[t].plan)
    /\ tasks' = [tasks EXCEPT ![t] = Rescheduled(@)]
    /\ jobs' = [jobs EXCEPT ![r] = NoJob]
    /\ UNCHANGED <<slot, table, walk, calls>>

(* The computation raises, in the handler of the failure too: the task      *)
(* counts as failed, its next run stays due, and the loop's walk is over.   *)
TaskRaises(r) ==
    LET t == jobs[r] IN
    /\ t # NoJob /\ ~Computes(tasks[t].plan)
    /\ \E ran \in {tasks[t].ran, TRUE} : tasks' = [tasks EXCEPT ![t].ran = ran]
    /\ jobs' = [jobs EXCEPT ![r] = NoJob]
    /\ walk' = IF r = Loop THEN [walk EXCEPT !.stage = "wake"] ELSE walk
    /\ UNCHANGED <<slot, table, calls>>

-----------------------------------------------------------------------------
SchedStep ==
    \/ LoopWakes \/ ScanTakes \/ ScanEnds
    \/ TaskSucceeds(Loop) \/ TaskFails(Loop) \/ TaskRaises(Loop)

SchedNext ==
    \/ SchedStep \/ StartLoop \/ StopLoop \/ TimePasses
    \/ \E t \in Tasks, p \in Plans : AddTask(t, p)
    \/ \E t \in Tasks : RemoveTask(t) \/ EnableTask(t) \/ DisableTask(t)
    \/ \E c \in Callers : \/ TaskSucceeds(c) \/ TaskFails(c) \/ TaskRaises(c)
                          \/ \E t \in Tasks : RunTaskNow(c, t)

SchedSpec == SchedInit /\ [][SchedNext]_schedVars

-----------------------------------------------------------------------------
TaskState == [plan : Plans \cup {NoPlan}, next : Nat \cup {Never}, enabled : BOOLEAN,
              ran : BOOLEAN, asked : Nat]

SchedTypeOK ==
    /\ slot \in Nat /\ calls \in Nat
    /\ table \in Seq(Tasks \cup {Gone})
    /\ tasks \in [Tasks -> TaskState]
    /\ walk \in [stage : {"off", "wake", "scan"}, now : Nat, pos : Nat,
                 left : Int, size : Nat]
    /\ jobs \in [Runners -> Tasks \cup {NoJob}]

(* What the frequencies mean, apart from how the next run is found.         *)
DayOfMonth(u) == 1 + u \div DaySlots - MonthStart(MonthAt(u))

OccursAt(p, u) ==
    CASE p.freq = "hourly" -> u % HourSlots = 0
      [] p.freq = "daily" -> u % DaySlots = p.at
      [] p.freq = "weekly" -> (u % DaySlots) = p.at /\ (u \div DaySlots) % WeekDays = p.day
      [] p.freq = "monthly" -> u % DaySlots = p.at /\ DayOfMonth(u) = p.day

(* Whatever runs a task, and however runs of the loop and of callers        *)
(* overlap: the next run of a periodic task is the first occurrence after   *)
(* the moment it was computed, provided the week and every month have its   *)
(* day; and a task to be run once that succeeded is never due again         *)
(* (scheduler.py:437).                                                      *)
Regular(p) ==
    /\ p.freq = "weekly" => p.day < WeekDays
    /\ p.freq = "monthly" => \A i \in DOMAIN Months : p.day <= Months[i]

NextIsNextOccurrence ==
    \A t \in Tasks :
        LET k == tasks[t]
        IN  k.plan # NoPlan =>
            IF k.plan.freq = "once" THEN k.ran => k.next = Never
            ELSE Regular(k.plan) =>
                     /\ k.next > k.asked /\ OccursAt(k.plan, k.next)
                     /\ \A u \in k.asked + 1 .. k.next - 1 : ~OccursAt(k.plan, u)
=============================================================================
