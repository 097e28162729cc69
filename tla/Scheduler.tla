----------------------------- MODULE Scheduler -----------------------------
(***************************************************************************)
(* The task scheduler of kernel/scheduler.c: the three task queues, the    *)
(* current task, blocking and waking, the scheduler timer and the system   *)
(* calls yield, fork, exit and sleep.                                      *)
(*                                                                         *)
(* A system call runs with interrupts off from the int 0x80 until it       *)
(* returns or switches to another task, so it is one action; a task that   *)
(* blocks inside a call is resumed later, in the middle of that call, and  *)
(* "call" records where.  The timer interrupts only a task that is outside *)
(* the kernel, or the idle task.                                           *)
(*                                                                         *)
(* The queue operations of the file are operators on the record "sched",   *)
(* because the handlers of ipc.c call several of them in a row.            *)
(***************************************************************************)
EXTENDS Lists

CONSTANTS
    MaxPid,         \* task_create asserts pid < 64
    PidBits,        \* width of the int that BITTEST and BITSET shift: 32
    MaxPort,        \* bound: port numbers are 0 .. MaxPort - 1
    MsgIds,         \* bound: the kernel-heap blocks messages are copied into
    Sizes,          \* message and buffer sizes
    SleepTimes,     \* arguments of sleep()
    SLEEP_INFINITE, \* 0xFFFFFFFF in scheduler.h
    Horizon         \* bound: the clock stops there (the timer does not)

ASSUME SchedulerAssumption ==
    /\ MaxPid \in Nat /\ MaxPid >= 2
    /\ PidBits \in Nat \ {0}
    /\ MaxPort \in Nat
    /\ Sizes \subseteq Nat
    /\ SLEEP_INFINITE \in Nat \ {0}
    /\ SleepTimes \subseteq Nat
    /\ Horizon \in Nat

VARIABLES
    sched,          \* the queues, the current task and the wait conditions
    next_pid_value,
    now,            \* timer_timestamp()
    call,           \* per task: the system call it is blocked in
    halted          \* "no", or why the machine went down

schedVars == <<sched, next_pid_value, now, call, halted>>

Pid == 0 .. MaxPid - 1
PortNo == 0 .. MaxPort - 1
INVALID_PORT == -1
NoMsg == -1

(* scheduler_start creates these two first. *)
kernel_task == 0
idle_task == 1

SchedState ==
    [ready_queue : Seq(Pid), sleeping_queue : Seq(Pid), exited_queue : Seq(Pid),
     current_task : Pid,
     wait_cansend_port : [Pid -> Int], sleep_deadline : [Pid -> Nat]]

(* "user": not in the kernel.  "opening": msgsend waits for the port to    *)
(* open.  "sent": msgsend waits for the receipt of its message.            *)
Amounts == {0} \cup Sizes \cup SleepTimes
CallOps == {"user", "sleep", "opening", "sent", "recv", "wait"}
Calls == [op : CallOps, port : PortNo \cup {INVALID_PORT}, size : Amounts,
          msg : MsgIds \cup {NoMsg}]

InUser == [op |-> "user", port |-> INVALID_PORT, size |-> 0, msg |-> NoMsg]

(* "reboot": scheduler_timer found no task to run.  The others are failed  *)
(* assertions and panics: "pid" in task_create, "check" in                 *)
(* scheduler_perform_checks, "wake" in task_wake, "heap" in kmalloc.       *)
Halts == {"no", "reboot", "pid", "check", "wake", "heap"}
-----------------------------------------------------------------------------
(* Operations on the queues. *)

Ready(s) == Range(s.ready_queue)
Sleeping(s) == Range(s.sleeping_queue)
Exited(s) == Range(s.exited_queue)

(* Faulty: does not look among the sleepers. *)
task_get_awake(s, pid) == pid \in {idle_task, s.current_task} \cup Ready(s)

(* task_get finds a task anywhere but in the exited queue. *)
task_get(s, pid) == pid \in {idle_task, s.current_task} \cup Ready(s) \cup Sleeping(s)

(* The sleepers that task_switch_next may resume at time ts. *)
Due(s, ts) == {t \in Sleeping(s) : s.sleep_deadline[t] # 0 /\ ts >= s.sleep_deadline[t]}

(* Faulty: the task switched to stays on its queue. *)
switch_keeps_ready(s, ts) ==
    [s EXCEPT !.current_task = IF list_empty(s.ready_queue) THEN idle_task
                               ELSE Head(s.ready_queue)]

task_switch_next(s, ts) ==
    IF Due(s, ts) # {}
    THEN LET next_task == Head(Filter(s.sleeping_queue, Due(s, ts)))
         IN  [s EXCEPT !.sleeping_queue = list_remove(@, next_task),
                       !.current_task = next_task]
    ELSE IF ~list_empty(s.ready_queue)
         THEN [s EXCEPT !.ready_queue = Tail(@),
                        !.current_task = Head(s.ready_queue)]
         ELSE [s EXCEPT !.current_task = idle_task]

(* task_block and the SYSCALL_BLOCK it issues.  The test on timeout is the *)
(* code's: a finite timeout leaves no deadline, an infinite one sets it.   *)
(* The canrecv_port argument is left out: it is stored and never read.     *)
sleep_deadline(timeout, ts) == IF timeout # SLEEP_INFINITE THEN 0 ELSE ts + timeout

(* Faulty: the port of an earlier wait is not cleared. *)
block_keeps_port(s, cansend_port, timeout, ts) ==
    LET t == s.current_task
    IN  task_switch_next(
            [s EXCEPT !.wait_cansend_port[t] = IF cansend_port = INVALID_PORT THEN @
                                               ELSE cansend_port,
                      !.sleep_deadline[t] = sleep_deadline(timeout, ts),
                      !.sleeping_queue = list_append(@, t)], ts)

task_block(s, cansend_port, timeout, ts) ==
    LET t == s.current_task
    IN  task_switch_next(
            [s EXCEPT !.wait_cansend_port[t] = cansend_port,
                      !.sleep_deadline[t] = sleep_deadline(timeout, ts),
                      !.sleeping_queue = list_append(@, t)], ts)

(* Faulty: the task stays among the sleepers. *)
wake_keeps_sleeper(s, pid) ==
    IF pid \in Sleeping(s) THEN [s EXCEPT !.ready_queue = list_append(@, pid)] ELSE s

(* task_wake, once its assert(t) has passed.  A task that is not asleep is *)
(* ready, current or idle, and is left alone.                              *)
task_wake(s, pid) ==
    IF pid \in Sleeping(s)
    THEN [s EXCEPT !.sleeping_queue = list_remove(@, pid),
                   !.ready_queue = list_append(@, pid)]
    ELSE s

(* Faulty: stops at the first task it finds. *)
wake_first_waiting(s, port_number) ==
    LET waiting == Filter(s.sleeping_queue,
                          {t \in Sleeping(s) : s.wait_cansend_port[t] = port_number})
    IN  IF list_empty(waiting) THEN s ELSE task_wake(s, Head(waiting))

wake_tasks_waiting_for_port(s, port_number) ==
    LET waiting == {t \in Sleeping(s) : s.wait_cansend_port[t] = port_number}
    IN  [s EXCEPT !.sleeping_queue = Filter(@, Sleeping(s) \ waiting),
                  !.ready_queue = @ \o Filter(s.sleeping_queue, waiting)]

(* scheduler_perform_checks: neither the current nor the idle task is on a *)
(* queue, and no pid is met twice.  BITTEST and BITSET shift an int, so    *)
(* two pids that agree modulo PidBits share a bit.                         *)
scheduler_perform_checks(s) ==
    LET all == s.ready_queue \o s.sleeping_queue \o s.exited_queue
    IN  /\ {s.current_task, idle_task} \cap Range(all) = {}
        /\ \A i, j \in 1 .. Len(all) : i # j => all[i] % PidBits # all[j] % PidBits
-----------------------------------------------------------------------------
SchedTypeOK ==
    /\ sched \in SchedState
    /\ next_pid_value \in 2 .. MaxPid
    /\ now \in 0 .. Horizon
    /\ call \in [Pid -> Calls]
    /\ halted \in Halts

(* scheduler_start: empty queues, zeroed tasks, and kernel_task runs. *)
scheduler_start ==
    [ready_queue |-> << >>, sleeping_queue |-> << >>, exited_queue |-> << >>,
     current_task |-> kernel_task,
     wait_cansend_port |-> [t \in Pid |-> 0],
     sleep_deadline |-> [t \in Pid |-> 0]]

SchedInit ==
    /\ sched = scheduler_start
    /\ next_pid_value = 2
    /\ now = 0
    /\ call = [t \in Pid |-> InUser]
    /\ halted = "no"

Current == sched.current_task

(* The current task is outside the kernel and makes a system call. *)
Calling == halted = "no" /\ Current # idle_task /\ call[Current] = InUser

(* The current task was switched to inside the system call op. *)
Resuming(op) == halted = "no" /\ Current # idle_task /\ call[Current].op = op

Enter(op, port, size, msg) ==
    call' = [call EXCEPT ![Current] = [op |-> op, port |-> port, size |-> size, msg |-> msg]]

Return == call' = [call EXCEPT ![Current] = InUser]

(* task_switch: the checks run on the queues as they are at the switch. *)
Switch(s) ==
    /\ sched' = s
    /\ halted' = IF scheduler_perform_checks(s) THEN "no" ELSE "check"

(* assert, panic and reboot end in abort() or reboot(): nothing else runs. *)
Halt(why) == halted' = why /\ UNCHANGED <<sched, next_pid_value, now, call>>

syscall_yield ==
    /\ Calling
    /\ Switch(task_switch_next([sched EXCEPT !.ready_queue = list_append(@, Current)], now))
    /\ UNCHANGED <<next_pid_value, now, call>>

(* Faulty: one pid too many. *)
fork_off_by_one ==
    /\ Calling
    /\ next_pid_value <= MaxPid
    /\ sched' = [sched EXCEPT !.ready_queue = list_append(@, next_pid_value)]
    /\ next_pid_value' = next_pid_value + 1
    /\ UNCHANGED <<now, call, halted>>

syscall_fork ==
    /\ Calling
    /\ \/ /\ next_pid_value = MaxPid
          /\ Halt("pid")
       \/ /\ next_pid_value < MaxPid
          /\ sched' = [sched EXCEPT !.ready_queue = list_append(@, next_pid_value)]
          /\ next_pid_value' = next_pid_value + 1
          /\ UNCHANGED <<now, call, halted>>

syscall_exit ==
    /\ Calling
    /\ Switch(task_switch_next([sched EXCEPT !.exited_queue = list_append(@, Current)], now))
    /\ UNCHANGED <<next_pid_value, now, call>>

syscall_sleep(millis) ==
    /\ Calling
    /\ Enter("sleep", INVALID_PORT, millis, NoMsg)
    /\ Switch(task_block(sched, INVALID_PORT, millis, now))
    /\ UNCHANGED <<next_pid_value, now>>

sleep_resumed ==
    /\ Resuming("sleep")
    /\ Return
    /\ UNCHANGED <<sched, next_pid_value, now, halted>>
-----------------------------------------------------------------------------
(* The timer interrupt. *)
Interruptible == halted = "no" /\ (Current = idle_task \/ call[Current] = InUser)

Tick(ts) == IF ts < Horizon THEN ts + 1 ELSE ts

(* A tick on which no timer is due: irq_handler only advances the clock. *)
timer_tick ==
    /\ Interruptible
    /\ now < Horizon
    /\ now' = now + 1
    /\ UNCHANGED <<sched, next_pid_value, call, halted>>

(* Faulty: the interrupted task is forgotten, or goes to the front. *)
preempted_dropped(s) == [s EXCEPT !.exited_queue = << >>]

preempted_first(s) ==
    [s EXCEPT !.ready_queue = IF s.current_task # idle_task
                              THEN <<s.current_task>> \o @ ELSE @,
              !.exited_queue = << >>]

(* The queues once the interrupted task is queued and the exited tasks are *)
(* collected.                                                              *)
Preempted(s) ==
    [s EXCEPT !.ready_queue = IF s.current_task # idle_task
                              THEN list_append(@, s.current_task) ELSE @,
              !.exited_queue = << >>]

(* The code looks for a sleeper with a deadline and then sets may_wakeup   *)
(* to false, as it was.                                                    *)
may_wakeup(s) == FALSE

moretasks(s) == ~list_empty(s.ready_queue) \/ (~list_empty(s.sleeping_queue) /\ may_wakeup(s))

(* The tick on which scheduler_timer, scheduled every 50 ms, is due. *)
scheduler_timer ==
    /\ Interruptible
    /\ now' = Tick(now)
    /\ UNCHANGED <<next_pid_value, call>>
    /\ LET s == Preempted(sched)
       IN  \/ /\ ~scheduler_perform_checks(sched)
              /\ halted' = "check"
              /\ UNCHANGED sched
           \/ /\ scheduler_perform_checks(sched)
              /\ ~moretasks(s)
              /\ halted' = "reboot"
              /\ sched' = s
           \/ /\ scheduler_perform_checks(sched)
              /\ moretasks(s)
              /\ Switch(task_switch_next(s, Tick(now)))
-----------------------------------------------------------------------------
(* The tasks that were created and have not exited, the idle task apart. *)
Live(s) == ({s.current_task} \cup Ready(s) \cup Sleeping(s)) \ {idle_task}

Queued(s) == Ready(s) \cup Sleeping(s) \cup Exited(s)

(* Of the n tasks created so far, none is on a queue twice or on two       *)
(* queues, and the idle task is on none.                                   *)
QueuesOK(s, n) ==
    /\ IsInjective(s.ready_queue)
    /\ IsInjective(s.sleeping_queue)
    /\ IsInjective(s.exited_queue)
    /\ Ready(s) \cap Sleeping(s) = {}
    /\ Ready(s) \cap Exited(s) = {}
    /\ Sleeping(s) \cap Exited(s) = {}
    /\ idle_task \notin Queued(s)
    /\ Queued(s) \cup {s.current_task} \subseteq 0 .. n - 1

(* The task that runs is on no queue. *)
Placed(s) == s.current_task \notin Queued(s)
=============================================================================
