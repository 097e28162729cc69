-------------------------------- MODULE Ipc --------------------------------
(***************************************************************************)
(* The ports of kernel/ipc.c on top of the scheduler: portopen, msgsend,   *)
(* msgrecv and msgwait, called by any number of tasks in any order, with   *)
(* the scheduler's own system calls and the timer between them.  (msgpeek  *)
(* only reads.)                                                            *)
(*                                                                         *)
(* A message is the kernel-heap block msgsend copied it into (reused once  *)
(* msgrecv has freed it), its sender and its length; contents, checksums   *)
(* and the reply port take no part in the kernel's control flow.           *)
(***************************************************************************)
EXTENDS Scheduler

CONSTANT FirstDynamicPort       \* 32: well-known port numbers are below

ASSUME IpcAssumption == FirstDynamicPort \in 0 .. MaxPort

VARIABLES
    receiver,           \* per port number: the receiver's pid, or INVALID_PID
    queue,              \* per port number: the messages not yet received
    reserved_ports,
    next_port_value

portVars == <<receiver, queue, reserved_ports, next_port_value>>
vars == <<sched, next_pid_value, now, call, halted,
          receiver, queue, reserved_ports, next_port_value>>

INVALID_PID == -1
ReservedPort == 0 .. FirstDynamicPort - 1
Messages == [id : MsgIds, sender : Pid, len : Amounts]

(* Whether port_get finds a port of this number. *)
port_get(p) == receiver[p] # INVALID_PID

(* The blocks that hold a message. *)
Allocated == UNION {{m.id : m \in Range(queue[p])} : p \in PortNo}

TypeOK ==
    /\ SchedTypeOK
    /\ receiver \in [PortNo -> Pid \cup {INVALID_PID}]
    /\ queue \in [PortNo -> Seq(Messages)]
    /\ reserved_ports \subseteq ReservedPort
    /\ next_port_value \in FirstDynamicPort .. MaxPort

Init ==
    /\ SchedInit
    /\ receiver = [p \in PortNo |-> INVALID_PID]
    /\ queue = [p \in PortNo |-> << >>]
    /\ reserved_ports = {}
    /\ next_port_value = FirstDynamicPort
-----------------------------------------------------------------------------
Opened(p) ==
    /\ receiver' = [receiver EXCEPT ![p] = Current]
    /\ queue' = [queue EXCEPT ![p] = << >>]
    /\ UNCHANGED schedVars

(* portopen(-1) *)
syscall_portopen_any ==
    /\ Calling
    /\ next_port_value < MaxPort
    /\ Opened(next_port_value)
    /\ next_port_value' = next_port_value + 1
    /\ UNCHANGED reserved_ports

(* portopen(p) for a well-known port; the call fails when p is taken. *)
syscall_portopen(p) ==
    /\ Calling
    /\ p \notin reserved_ports
    /\ Opened(p)
    /\ reserved_ports' = reserved_ports \cup {p}
    /\ UNCHANGED next_port_value
-----------------------------------------------------------------------------
(* The wait for the port to open, the first half of msgsend. *)
await_open(p, len) ==
    /\ ~port_get(p)
    /\ Enter("opening", p, len, NoMsg)
    /\ Switch(task_block(sched, p, SLEEP_INFINITE, now))
    /\ UNCHANGED <<next_pid_value, now, portVars>>

kmalloc_fails ==
    /\ MsgIds \subseteq Allocated
    /\ Halt("heap")
    /\ UNCHANGED portVars

(* Faulty: the receiver is not woken. *)
enqueue_silently(p, len) ==
    /\ port_get(p)
    /\ \E m \in MsgIds \ Allocated :
          /\ queue' = [queue EXCEPT ![p] =
                          list_append(@, [id |-> m, sender |-> Current, len |-> len])]
          /\ Enter("sent", p, len, m)
          /\ Switch(task_block(sched, INVALID_PORT, SLEEP_INFINITE, now))
    /\ UNCHANGED <<next_pid_value, now, receiver, reserved_ports, next_port_value>>

(* The second half: queue a copy, wake the receiver, wait for the receipt. *)
enqueue(p, len) ==
    /\ port_get(p)
    /\ \E m \in MsgIds \ Allocated :
          /\ queue' = [queue EXCEPT ![p] =
                          list_append(@, [id |-> m, sender |-> Current, len |-> len])]
          /\ \/ /\ task_get(sched, receiver[p])
                /\ Enter("sent", p, len, m)
                /\ Switch(task_block(task_wake(sched, receiver[p]),
                                     INVALID_PORT, SLEEP_INFINITE, now))
                /\ UNCHANGED <<next_pid_value, now>>
             \/ /\ ~task_get(sched, receiver[p])
                /\ Halt("wake")
    /\ UNCHANGED <<receiver, reserved_ports, next_port_value>>

send(p, len) == await_open(p, len) \/ (port_get(p) /\ kmalloc_fails) \/ enqueue(p, len)

syscall_msgsend(p, len) == Calling /\ send(p, len)

msgsend_resumed ==
    /\ Resuming("opening")
    /\ LET c == call[Current] IN send(c.port, c.size)

(* task_block has returned, and msgsend returns 0 without looking. *)
msgsend_returns ==
    /\ Resuming("sent")
    /\ Return
    /\ UNCHANGED <<sched, next_pid_value, now, halted, portVars>>
-----------------------------------------------------------------------------
(* Faulty: the senders that wait for the port sleep on. *)
await_silently(p, size) ==
    /\ list_empty(queue[p])
    /\ Enter("recv", p, size, NoMsg)
    /\ Switch(task_block(sched, INVALID_PORT, SLEEP_INFINITE, now))
    /\ UNCHANGED <<next_pid_value, now, portVars>>

(* msgrecv with nothing to receive: wake the senders that wait for the     *)
(* port, then wait for a message.                                          *)
await_message(p, size) ==
    /\ list_empty(queue[p])
    /\ Enter("recv", p, size, NoMsg)
    /\ Switch(task_block(wake_tasks_waiting_for_port(sched, p),
                         INVALID_PORT, SLEEP_INFINITE, now))
    /\ UNCHANGED <<next_pid_value, now, portVars>>

(* Faulty: the sender is not woken. *)
dequeue_silently(p, size) ==
    /\ ~list_empty(queue[p])
    /\ size >= Head(queue[p]).len
    /\ queue' = [queue EXCEPT ![p] = Tail(@)]
    /\ Return
    /\ UNCHANGED <<sched, next_pid_value, now, halted,
                   receiver, reserved_ports, next_port_value>>

(* Faulty: takes the newest message, list_tail for list_head. *)
dequeue_newest(p, size) ==
    LET last == queue[p][Len(queue[p])]
    IN  /\ ~list_empty(queue[p])
        /\ size >= last.len
        /\ queue' = [queue EXCEPT ![p] = SubSeq(@, 1, Len(@) - 1)]
        /\ task_get(sched, last.sender)
        /\ sched' = task_wake(sched, last.sender)
        /\ Return
        /\ UNCHANGED <<next_pid_value, now, halted, receiver, reserved_ports, next_port_value>>

(* msgrecv with a message that fits the buffer: take it, wake its sender. *)
dequeue(p, size) ==
    /\ ~list_empty(queue[p])
    /\ size >= Head(queue[p]).len
    /\ queue' = [queue EXCEPT ![p] = Tail(@)]
    /\ \/ /\ task_get(sched, Head(queue[p]).sender)
          /\ sched' = task_wake(sched, Head(queue[p]).sender)
          /\ Return
          /\ UNCHANGED <<next_pid_value, now, halted>>
       \/ /\ ~task_get(sched, Head(queue[p]).sender)
          /\ Halt("wake")
    /\ UNCHANGED <<receiver, reserved_ports, next_port_value>>

(* Result 3: the message and its sender stay where they are. *)
insufficient_buffer(p, size) ==
    /\ ~list_empty(queue[p])
    /\ size < Head(queue[p]).len
    /\ Return
    /\ UNCHANGED <<sched, next_pid_value, now, halted, portVars>>

receive(p, size) == await_message(p, size) \/ dequeue(p, size) \/ insufficient_buffer(p, size)

(* Results 1 and 2, no such port and not its receiver, change nothing. *)
syscall_msgrecv(p, size) == Calling /\ receiver[p] = Current /\ receive(p, size)

msgrecv_resumed ==
    /\ Resuming("recv")
    /\ LET c == call[Current] IN receive(c.port, c.size)
-----------------------------------------------------------------------------
(* msgwait blocks as msgrecv does, but wakes no sender first. *)
wait_message(p) ==
    \/ /\ list_empty(queue[p])
       /\ Enter("wait", p, 0, NoMsg)
       /\ Switch(task_block(sched, INVALID_PORT, SLEEP_INFINITE, now))
       /\ UNCHANGED <<next_pid_value, now, portVars>>
    \/ /\ ~list_empty(queue[p])
       /\ Return
       /\ UNCHANGED <<sched, next_pid_value, now, halted, portVars>>

syscall_msgwait(p) == Calling /\ receiver[p] = Current /\ wait_message(p)

msgwait_resumed == Resuming("wait") /\ wait_message(call[Current].port)
-----------------------------------------------------------------------------
(* The machine comes up again with nothing of its former state. *)
boot ==
    /\ halted # "no"
    /\ sched' = scheduler_start
    /\ next_pid_value' = 2
    /\ now' = 0
    /\ call' = [t \in Pid |-> InUser]
    /\ halted' = "no"
    /\ receiver' = [p \in PortNo |-> INVALID_PID]
    /\ queue' = [p \in PortNo |-> << >>]
    /\ reserved_ports' = {}
    /\ next_port_value' = FirstDynamicPort

SchedulerCalls ==
    /\ \/ syscall_yield
       \/ syscall_fork
       \/ syscall_exit
       \/ \E millis \in SleepTimes : syscall_sleep(millis)
    /\ UNCHANGED portVars

PortCalls ==
    \/ syscall_portopen_any
    \/ \E p \in ReservedPort : syscall_portopen(p)
    \/ \E p \in PortNo, len \in Sizes : syscall_msgsend(p, len)
    \/ \E p \in PortNo, size \in Sizes : syscall_msgrecv(p, size)
    \/ \E p \in PortNo : syscall_msgwait(p)

(* A task goes on inside the system call it was blocked in. *)
Resume ==
    \/ sleep_resumed /\ UNCHANGED portVars
    \/ msgsend_resumed
    \/ msgsend_returns
    \/ msgrecv_resumed
    \/ msgwait_resumed

Interrupt == (timer_tick \/ scheduler_timer) /\ UNCHANGED portVars

Next == SchedulerCalls \/ PortCalls \/ Resume \/ Interrupt \/ boot

Spec == Init /\ [][Next]_vars

(* A task that is switched to inside a system call runs on with interrupts *)
(* off; the timer keeps interrupting whatever runs outside the kernel.     *)
Fairness ==
    /\ WF_vars(Resume)
    /\ WF_vars(scheduler_timer /\ UNCHANGED portVars)

FairSpec == Spec /\ Fairness
-----------------------------------------------------------------------------
(* Properties. *)

(* What scheduler_perform_checks is there for ("current task and idle task *)
(* should not be on any queue", "tasks should only belong to one queue"):  *)
(* no task is queued twice, on one queue or on two, and the task that runs *)
(* and the idle task are not queued at all.                                *)
OneQueuePerTask == QueuesOK(sched, next_pid_value) /\ Placed(sched)

(* The assertions of scheduler_perform_checks fail only once more tasks    *)
(* were created since boot than an int has bits.                           *)
ChecksFailOnlyOnWrap == halted = "check" => next_pid_value > PidBits

(* No lost wakeup in msgrecv and msgwait: a task does not sleep on a port  *)
(* that has a message for it, whatever ran between its look at the queue   *)
(* and now.                                                                *)
NoLostMessageWakeup ==
    \A t \in Sleeping(sched) :
        call[t].op \in {"recv", "wait"} => list_empty(queue[call[t].port])

(* No lost wakeup in msgsend: a sender sleeps only while the message it    *)
(* last sent is still in a queue; whoever took it has woken the sender.    *)
BlockedSenderHasMessage ==
    \A t \in Sleeping(sched) : call[t].op = "sent" =>
        \E m \in Range(queue[call[t].port]) : m.sender = t /\ m.id = call[t].msg

(* No sender is left asleep waiting for a port to open while that port's   *)
(* receiver sleeps in msgrecv on it.                                       *)
NoSenderLeftWaiting ==
    \A t, r \in Sleeping(sched) :
        ~(call[t].op = "opening" /\ call[r].op = "recv" /\ call[t].port = call[r].port)

(* No task is lost: one that is current, ready or asleep stays so until it *)
(* calls exit itself or the machine goes down; and scheduler_timer reboots *)
(* only when every task there is sleeps.                                   *)
NoTaskLost ==
    [][/\ boot \/ \A t \in Live(sched) : t \in Live(sched') \/ (t = Current /\ t \in Exited(sched'))
       /\ halted = "no" /\ halted' = "reboot" => Live(sched) \subseteq Sleeping(sched)]_vars

(* port.h: "sender is blocked until receiver successfully received         *)
(* message": the sender of a message that is still queued is inside        *)
(* msgsend for that very message.                                          *)
SendIsSynchronous ==
    halted = "no" =>
        \A p \in PortNo : \A m \in Range(queue[p]) :
            call[m.sender].op = "sent" /\ call[m.sender].msg = m.id

Owners == {receiver[p] : p \in PortNo} \ {INVALID_PID}

(* For a task that has opened no port the promise of port.h holds: as long *)
(* as its message is queued it is asleep in msgsend for that message.      *)
(* (While no clock reaches the deadline that an unlimited wait is given.)  *)
ClientSendIsSynchronous ==
    halted = "no" /\ now < SLEEP_INFINITE =>
        \A p \in PortNo : \A m \in Range(queue[p]) :
            m.sender \notin Owners =>
                /\ m.sender \in Sleeping(sched)
                /\ call[m.sender].op = "sent" /\ call[m.sender].msg = m.id

(* The assert(t) of task_wake fails only after a task that owned a port    *)
(* has exited: clients that come and go never bring the machine down.      *)
(* (Before the clock reaches the deadline of an unlimited wait.)           *)
WakeFailsOnlyAfterOwnerExit ==
    halted = "wake" /\ now < SLEEP_INFINITE => Owners \ Live(sched) # {}

Tasks == Pid \ {idle_task}

(* Round robin: a task in the ready queue is eventually switched to.       *)
ReadyRuns ==
    \A t \in Tasks : t \in Ready(sched) ~> (Current = t \/ halted # "no")

(* A receiver blocked in msgrecv returns once its port has a message.      *)
ReceiveCompletes ==
    \A t \in Tasks :
        (call[t].op = "recv" /\ ~list_empty(queue[call[t].port]))
            ~> (call[t].op # "recv" \/ halted # "no")

(* A sender returns from msgsend once its message has been received.       *)
SendCompletes ==
    \A t \in Tasks :
        (call[t].op = "sent" /\ call[t].msg \notin Allocated)
            ~> (call[t].op # "sent" \/ halted # "no")

(* A sender that waits for a port gets through once the port's receiver    *)
(* is inside msgrecv on it.                                                *)
OpenCompletes ==
    \A t \in Tasks :
        (call[t].op = "opening" /\ \E r \in Tasks : call[r].op = "recv"
                                                 /\ call[r].port = call[t].port)
            ~> (call[t].op # "opening" \/ halted # "no")

(* scheduler.c, syscall_sleep_handler: "Sleep current task for specified   *)
(* number of milliseconds": a sleep that ends within the modelled time     *)
(* does return.                                                            *)
SleepEnds ==
    \A t \in Tasks :
        (call[t].op = "sleep" /\ now + call[t].size <= Horizon)
            ~> (call[t].op # "sleep" \/ halted # "no")
-----------------------------------------------------------------------------
(* The inductive invariant: the safety properties above and what they rest *)
(* on.                                                                     *)

(* A port is open once its number is handed out, and only then has a queue. *)
PortsOK ==
    \A p \in PortNo :
        /\ port_get(p) <=> p \in reserved_ports \/ p \in FirstDynamicPort .. next_port_value - 1
        /\ ~port_get(p) => queue[p] = << >>

(* A task blocked on a port names one, and a receiver stays the port's     *)
(* receiver while it is blocked.                                           *)
CallsOK ==
    \A t \in Pid :
        /\ call[t].op \in {"opening", "sent", "recv", "wait"} => call[t].port \in PortNo
        /\ call[t].op \in {"recv", "wait"} => receiver[call[t].port] = t

(* A sender that waits for a port is found by wake_tasks_waiting_for_port. *)
WaitsOK ==
    \A t \in Sleeping(sched) :
        call[t].op = "opening" => sched.wait_cansend_port[t] = call[t].port

IInv ==
    /\ TypeOK
    /\ OneQueuePerTask
    /\ ChecksFailOnlyOnWrap
    /\ PortsOK
    /\ CallsOK
    /\ WaitsOK
    /\ NoLostMessageWakeup
    /\ BlockedSenderHasMessage
    /\ NoSenderLeftWaiting
=============================================================================
