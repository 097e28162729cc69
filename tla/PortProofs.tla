---------------------------- MODULE PortProofs ----------------------------
(***************************************************************************)
(* What the ports promise their users, from the invariant of IpcProofs:    *)
(* that a client's send ends with its receipt, and that the ports implement *)
(* the channels of Channel.                                                *)
(*                                                                         *)
(* What port.h promises a sender, "sender is blocked until receiver        *)
(* successfully received message", holds of every task that has opened no  *)
(* port, and the receipt of a message never finds such a sender gone: for  *)
(* any number of tasks, ports, messages and sizes, as long as no clock     *)
(* reaches the deadline of an unlimited wait.                              *)
(*                                                                         *)
(* A task is Held when it sleeps and neither the clock nor the opening of  *)
(* a port wakes it.  What is left is task_wake, which msgsend calls for    *)
(* the owner of a port and msgrecv for the sender of the message it takes; *)
(* message blocks are not shared, so that this is the sender's only one.   *)
(***************************************************************************)
EXTENDS IpcChannel, IpcProofs

-----------------------------------------------------------------------------
(* Senders. *)

Held(s, t) ==
    /\ t \in Sleeping(s)
    /\ s.wait_cansend_port[t] = INVALID_PORT
    /\ s.sleep_deadline[t] >= SLEEP_INFINITE

(* A block holds one message, which is on one queue once. *)
BlocksUnshared ==
    /\ \A p \in PortNo : IsInjective(queue[p])
    /\ \A p, o \in PortNo : \A m \in Range(queue[p]), k \in Range(queue[o]) :
           m.id = k.id => p = o /\ m = k

SentBy(t, m) == Held(sched, t) /\ call[t].op = "sent" /\ call[t].msg = m.id

SendersHeld ==
    halted = "no" /\ now < SLEEP_INFINITE =>
        \A p \in PortNo : \A m \in Range(queue[p]) :
            m.sender \notin Owners => SentBy(m.sender, m)

SendInv ==
    /\ IInv
    /\ BlocksUnshared
    /\ SendersHeld
    /\ WakeFailsOnlyAfterOwnerExit
-----------------------------------------------------------------------------
(* The queue operations leave a held task held. *)

LEMMA SwitchHeld ==
    ASSUME NEW s \in SchedState, NEW n \in 2 .. MaxPid, NEW ts \in Nat, QueuesOK(s, n),
           ts < SLEEP_INFINITE, NEW t \in Pid, Held(s, t)
    PROVE  Held(task_switch_next(s, ts), t)
<1> DEFINE u == task_switch_next(s, ts)
<1>0. SLEEP_INFINITE \in Nat /\ s.sleep_deadline \in [Pid -> Nat]
  BY SchedulerAssumption, SchedParts
<1>1. t \notin Due(s, ts)
  BY <1>0 DEF Held, Due
<1>2. /\ Sleeping(u) = Sleeping(s) \ {u.current_task}
      /\ u.wait_cansend_port = s.wait_cansend_port
      /\ u.current_task \in Ready(s) \cup Sleeping(s) \cup {idle_task}
  BY SwitchNextFacts
<1>3. /\ u.sleep_deadline = s.sleep_deadline
      /\ u.current_task # t
  <2>1. CASE Due(s, ts) # {}
    <3> DEFINE f == Filter(s.sleeping_queue, Due(s, ts))
    <3>1. s.sleeping_queue \in Seq(Pid)
      BY SchedParts
    <3>2. f \in Seq(Pid) /\ Range(f) = Due(s, ts)
      BY <3>1, FilterFacts DEF Due, Sleeping
    <3>3. f # << >>
      BY <2>1, <3>2, EmptyFacts
    <3>4. Head(f) \in Due(s, ts)
      BY <3>2, <3>3, TailFacts
    <3> HIDE DEF f
    <3>5. u = [s EXCEPT !.sleeping_queue = list_remove(s.sleeping_queue, Head(f)),
                        !.current_task = Head(f)]
      BY <2>1 DEF task_switch_next, f
    <3> HIDE DEF u
    <3> QED
      BY <1>1, <3>4, <3>5 DEF SchedState
  <2>2. CASE Due(s, ts) = {} /\ s.ready_queue # << >>
    <3>1. u = [s EXCEPT !.ready_queue = Tail(s.ready_queue),
                        !.current_task = Head(s.ready_queue)]
      BY <2>2 DEF task_switch_next, list_empty
    <3> HIDE DEF u
    <3>2. Head(s.ready_queue) \in Ready(s)
      BY <2>2, SchedParts, TailFacts DEF Ready
    <3>3. t \notin Ready(s)
      BY DEF Held, QueuesOK
    <3> QED
      BY <3>1, <3>2, <3>3 DEF SchedState
  <2>3. CASE Due(s, ts) = {} /\ s.ready_queue = << >>
    <3>1. u = [s EXCEPT !.current_task = idle_task]
      BY <2>3 DEF task_switch_next, list_empty
    <3> HIDE DEF u
    <3>2. t # idle_task
      BY DEF Held, QueuesOK, Queued
    <3> QED
      BY <3>1, <3>2 DEF SchedState
  <2> QED
    BY <2>1, <2>2, <2>3
<1> HIDE DEF u
<1>4. Held(u, t)
  BY <1>2, <1>3 DEF Held
<1> QED
  BY <1>4 DEF u

(* The queues on which task_block switches: the caller is among the        *)
(* sleepers, with its wait conditions.                                     *)
Blocked(s, port, deadline) ==
    [s EXCEPT !.wait_cansend_port[s.current_task] = port,
              !.sleep_deadline[s.current_task] = deadline,
              !.sleeping_queue = list_append(@, s.current_task)]

LEMMA BlockedFacts ==
    ASSUME NEW s \in SchedState, NEW n \in Nat, QueuesOK(s, n), Placed(s),
           s.current_task # idle_task,
           NEW port \in Int, NEW deadline \in Nat
    PROVE  LET c == s.current_task
               v == Blocked(s, port, deadline)
           IN  /\ v \in SchedState /\ QueuesOK(v, n)
               /\ Sleeping(v) = Sleeping(s) \cup {c}
               /\ v.wait_cansend_port = [s.wait_cansend_port EXCEPT ![c] = port]
               /\ v.sleep_deadline = [s.sleep_deadline EXCEPT ![c] = deadline]
<1> DEFINE c == s.current_task
           w == [s.wait_cansend_port EXCEPT ![c] = port]
           d == [s.sleep_deadline EXCEPT ![c] = deadline]
           q == list_append(s.sleeping_queue, c)
           v == Blocked(s, port, deadline)
<1>1. /\ c \in Pid /\ c \notin Queued(s) /\ c # idle_task
      /\ s.wait_cansend_port \in [Pid -> Int]
      /\ s.sleep_deadline \in [Pid -> Nat]
      /\ s.sleeping_queue \in Seq(Pid)
  BY SchedParts DEF Placed
<1>2. /\ q \in Seq(Pid)
      /\ Range(q) = Sleeping(s) \cup {c}
      /\ IsInjective(q)
  BY <1>1, AppendFacts DEF Sleeping, QueuesOK, Queued
<1>3. w \in [Pid -> Int] /\ d \in [Pid -> Nat]
  BY <1>1
<1>4. /\ v \in SchedState
      /\ v.ready_queue = s.ready_queue
      /\ v.sleeping_queue = q
      /\ v.exited_queue = s.exited_queue
      /\ v.current_task = c
      /\ v.wait_cansend_port = w
      /\ v.sleep_deadline = d
  <2>1. v = [s EXCEPT !.wait_cansend_port = w, !.sleep_deadline = d, !.sleeping_queue = q]
    BY DEF SchedState, Blocked
  <2> HIDE DEF v, w, d, q
  <2> QED
    BY <1>2, <1>3, <2>1 DEF SchedState
<1> HIDE DEF v, w, d, q
<1>5. /\ Ready(v) = Ready(s)
      /\ Sleeping(v) = Sleeping(s) \cup {c}
      /\ Exited(v) = Exited(s)
  BY <1>2, <1>4 DEF Ready, Sleeping, Exited
<1>6. QueuesOK(v, n)
  BY <1>1, <1>2, <1>4, <1>5 DEF QueuesOK, Queued
<1> QED
  BY <1>4, <1>5, <1>6 DEF v, w, d

(* task_block: others stay held, and so is the caller that waits for       *)
(* nothing in particular.                                                  *)
LEMMA BlockHeld ==
    ASSUME NEW s \in SchedState, NEW n \in 2 .. MaxPid, NEW ts \in Nat,
           QueuesOK(s, n), Placed(s), s.current_task # idle_task, ts < SLEEP_INFINITE,
           NEW port \in Int, NEW timeout \in Nat, NEW t \in Pid,
           \/ Held(s, t)
           \/ t = s.current_task /\ port = INVALID_PORT /\ timeout = SLEEP_INFINITE
    PROVE  Held(task_block(s, port, timeout, ts), t)
<1> DEFINE c == s.current_task
           d == sleep_deadline(timeout, ts)
           v == Blocked(s, port, d)
<1>1. /\ d \in Nat /\ SLEEP_INFINITE \in Nat /\ n \in Nat
      /\ timeout = SLEEP_INFINITE => d >= SLEEP_INFINITE
  BY SchedulerAssumption DEF sleep_deadline
<1> HIDE DEF d
<1>2. /\ v \in SchedState /\ QueuesOK(v, n)
      /\ Sleeping(v) = Sleeping(s) \cup {c}
      /\ v.wait_cansend_port = [s.wait_cansend_port EXCEPT ![c] = port]
      /\ v.sleep_deadline = [s.sleep_deadline EXCEPT ![c] = d]
  BY <1>1, BlockedFacts
<1> HIDE DEF v
<1>3. /\ s.wait_cansend_port \in [Pid -> Int] /\ s.sleep_deadline \in [Pid -> Nat]
      /\ c \in Pid
  BY SchedParts
<1>4. Held(s, t) => t # c
  BY DEF Held, Placed, Queued
<1>5. Held(v, t)
  BY <1>1, <1>2, <1>3, <1>4 DEF Held
<1>6. Held(task_switch_next(v, ts), t)
  BY <1>2, <1>5, SwitchHeld
<1> QED
  BY <1>6 DEF task_block, v, d, Blocked

LEMMA WakeHeld ==
    ASSUME NEW s \in SchedState, NEW n \in Nat, QueuesOK(s, n), Placed(s),
           NEW pid \in Pid, NEW t \in Pid \ {pid}, Held(s, t)
    PROVE  Held(task_wake(s, pid), t)
<1> DEFINE u == task_wake(s, pid)
<1>1. /\ Sleeping(u) = Sleeping(s) \ {pid}
      /\ u.wait_cansend_port = s.wait_cansend_port
  BY WakeFacts
<1>2. u.sleep_deadline = s.sleep_deadline
  BY DEF task_wake, SchedState
<1> HIDE DEF u
<1>3. Held(u, t)
  BY <1>1, <1>2 DEF Held
<1> QED
  BY <1>3 DEF u

LEMMA WakePortHeld ==
    ASSUME NEW s \in SchedState, NEW n \in Nat, QueuesOK(s, n), Placed(s),
           NEW port \in PortNo, NEW t \in Pid, Held(s, t)
    PROVE  Held(wake_tasks_waiting_for_port(s, port), t)
<1> DEFINE u == wake_tasks_waiting_for_port(s, port)
<1>1. /\ Sleeping(u) = {x \in Sleeping(s) : s.wait_cansend_port[x] # port}
      /\ u.wait_cansend_port = s.wait_cansend_port
  BY WakePortFacts
<1>2. u.sleep_deadline = s.sleep_deadline
  BY DEF wake_tasks_waiting_for_port, SchedState
<1>3. port # INVALID_PORT
  BY SchedulerAssumption DEF PortNo, INVALID_PORT
<1> HIDE DEF u
<1>4. Held(u, t)
  BY <1>1, <1>2, <1>3 DEF Held
<1> QED
  BY <1>4 DEF u

(* A state of the scheduler with the same sleepers and waits. *)
LEMMA SameHeld ==
    ASSUME NEW s, NEW u, Sleeping(u) = Sleeping(s),
           u.wait_cansend_port = s.wait_cansend_port, u.sleep_deadline = s.sleep_deadline,
           NEW t, Held(s, t)
    PROVE  Held(u, t)
BY DEF Held
-----------------------------------------------------------------------------
(* Steps. *)

SendOK == BlocksUnshared /\ SendersHeld /\ WakeFailsOnlyAfterOwnerExit

(* The running task is not held; a step that rewrites its entry leaves the *)
(* calls of held tasks alone.                                              *)
LEMMA CallsOfHeld ==
    ASSUME IInv, NEW c, call' = call \/ call' = [call EXCEPT ![Current] = c],
           NEW t \in Pid, Held(sched, t)
    PROVE  call'[t] = call[t] /\ t # Current
<1>1. t # Current
  BY Basics DEF Held
<1> QED
  BY <1>1, Basics

(* Messages, their senders and blocks. *)
LEMMA MessageFacts ==
    ASSUME IInv, NEW p \in PortNo, NEW m \in Range(queue[p])
    PROVE  m \in Messages /\ m.sender \in Pid /\ m.id \in Allocated
<1>1. queue[p] \in Seq(Messages)
  BY Basics
<1>2. m \in Messages
  BY <1>1, LenProperties DEF Range
<1> QED
  BY <1>2 DEF Messages, Allocated

(* A step that moves no message and leaves held tasks held. *)
LEMMA QuietSend ==
    ASSUME SendInv, UNCHANGED queue, Owners \subseteq Owners',
           halted = "no", halted' # "wake", now' < SLEEP_INFINITE => now < SLEEP_INFINITE,
           ASSUME now' < SLEEP_INFINITE, NEW t \in Pid, Held(sched, t)
           PROVE  Held(sched', t) /\ call'[t] = call[t]
    PROVE  SendOK'
<1>1. BlocksUnshared'
  BY DEF SendInv, BlocksUnshared
<1>2. SendersHeld'
  <2> SUFFICES ASSUME now' < SLEEP_INFINITE,
                      NEW p \in PortNo, NEW m \in Range(queue[p]), m.sender \notin Owners'
               PROVE  SentBy(m.sender, m)'
    BY DEF SendersHeld
  <2>1. SentBy(m.sender, m)
    BY DEF SendInv, SendersHeld
  <2>2. m.sender \in Pid
    BY MessageFacts DEF SendInv
  <2>3. Held(sched', m.sender) /\ call'[m.sender] = call[m.sender]
    BY <2>1, <2>2 DEF SentBy
  <2> QED
    BY <2>1, <2>3 DEF SentBy, Held
<1>3. WakeFailsOnlyAfterOwnerExit'
  BY DEF WakeFailsOnlyAfterOwnerExit
<1> QED
  BY <1>1, <1>2, <1>3 DEF SendOK

(* The current task blocks on queues v in which all held tasks still are.  *)
LEMMA BlockQuiet ==
    ASSUME SendInv, halted = "no", Current # idle_task,
           NEW v \in SchedState, QueuesOK(v, next_pid_value), Placed(v),
           v.current_task = Current,
           \A t \in Pid : Held(sched, t) => Held(v, t),
           NEW port \in Int, NEW timeout \in Nat,
           Switch(task_block(v, port, timeout, now)),
           NEW c, call' = [call EXCEPT ![Current] = c],
           UNCHANGED <<now, receiver, queue>>
    PROVE  SendOK'
<1>1. IInv
  BY DEF SendInv
<1>2. sched' = task_block(v, port, timeout, now) /\ halted' # "wake"
  BY DEF Switch
<1>3. ASSUME now' < SLEEP_INFINITE, NEW t \in Pid, Held(sched, t)
      PROVE  Held(sched', t) /\ call'[t] = call[t]
  <2>1. Held(sched', t)
    BY <1>1, <1>2, <1>3, Basics, BlockHeld
  <2> QED
    BY <1>1, <1>3, <2>1, CallsOfHeld
<1>4. Owners \subseteq Owners'
  BY DEF Owners
<1> QED
  BY <1>2, <1>3, <1>4, QuietSend

(* The scheduler's queues stay as they are. *)
LEMMA SameSchedQuiet ==
    ASSUME SendInv, halted = "no", halted' # "wake", UNCHANGED <<sched, now, queue>>,
           Owners \subseteq Owners',
           NEW c, call' = call \/ call' = [call EXCEPT ![Current] = c]
    PROVE  SendOK'
<1>1. ASSUME now' < SLEEP_INFINITE, NEW t \in Pid, Held(sched, t)
      PROVE  Held(sched', t) /\ call'[t] = call[t]
  BY <1>1, CallsOfHeld DEF SendInv
<1> QED
  BY <1>1, QuietSend

LEMMA SchedulerCallsSend ==
    ASSUME SendInv, SchedulerCalls
    PROVE  SendOK'
<1>0. /\ IInv /\ halted = "no" /\ Current # idle_task /\ UNCHANGED <<receiver, queue>>
      /\ Owners \subseteq Owners'
  BY DEF SendInv, SchedulerCalls, portVars, Owners, syscall_yield, syscall_fork, syscall_exit,
         syscall_sleep, Calling
<1>1. /\ Current \in Pid /\ Current \notin Queued(sched) /\ Current < next_pid_value
  BY <1>0, Basics DEF Placed, QueuesOK, Current
<1>2. CASE syscall_yield
  <2> DEFINE v == [sched EXCEPT !.ready_queue = list_append(@, Current)]
  <2>1. /\ v \in SchedState /\ QueuesOK(v, next_pid_value)
        /\ Sleeping(v) = Sleeping(sched)
        /\ v.wait_cansend_port = sched.wait_cansend_port
    BY <1>0, <1>1, Basics, ReadyAppendFacts
  <2>2. v.sleep_deadline = sched.sleep_deadline
    BY <1>0, Basics DEF SchedState
  <2>3. /\ sched' = task_switch_next(v, now) /\ halted' # "wake"
        /\ UNCHANGED <<now, call>>
    BY <1>2 DEF syscall_yield, Switch
  <2> HIDE DEF v
  <2>4. ASSUME now' < SLEEP_INFINITE, NEW t \in Pid, Held(sched, t)
        PROVE  Held(sched', t) /\ call'[t] = call[t]
    <3>1. Held(v, t)
      BY <2>1, <2>2, <2>4, SameHeld
    <3> QED
      BY <1>0, <2>1, <2>3, <2>4, <3>1, Basics, SwitchHeld
  <2> QED
    BY <1>0, <2>3, <2>4, QuietSend
<1>3. CASE syscall_fork
  <2>1. CASE Halt("pid")
    BY <1>0, <2>1, SameSchedQuiet DEF Halt
  <2>2. CASE /\ next_pid_value < MaxPid
             /\ sched' = [sched EXCEPT !.ready_queue = list_append(@, next_pid_value)]
             /\ UNCHANGED <<now, call, halted>>
    <3>1. /\ Sleeping(sched') = Sleeping(sched)
          /\ sched'.wait_cansend_port = sched.wait_cansend_port
          /\ sched'.sleep_deadline = sched.sleep_deadline
      BY <1>0, <2>2, Basics DEF Sleeping, SchedState
    <3>2. ASSUME NEW t \in Pid, Held(sched, t)
          PROVE  Held(sched', t)
      BY <3>1, <3>2, SameHeld
    <3> QED
      BY <1>0, <2>2, <3>2, QuietSend
  <2> QED
    BY <1>3, <2>1, <2>2 DEF syscall_fork
<1>4. CASE syscall_exit
  <2> DEFINE v == [sched EXCEPT !.exited_queue = list_append(@, Current)]
  <2>1. /\ v \in SchedState /\ QueuesOK(v, next_pid_value)
        /\ Sleeping(v) = Sleeping(sched)
        /\ v.wait_cansend_port = sched.wait_cansend_port
    BY <1>0, <1>1, Basics, ExitedAppendFacts
  <2>2. v.sleep_deadline = sched.sleep_deadline
    BY <1>0, Basics DEF SchedState
  <2>3. /\ sched' = task_switch_next(v, now) /\ halted' # "wake"
        /\ UNCHANGED <<now, call>>
    BY <1>4 DEF syscall_exit, Switch
  <2> HIDE DEF v
  <2>4. ASSUME now' < SLEEP_INFINITE, NEW t \in Pid, Held(sched, t)
        PROVE  Held(sched', t) /\ call'[t] = call[t]
    <3>1. Held(v, t)
      BY <2>1, <2>2, <2>4, SameHeld
    <3> QED
      BY <1>0, <2>1, <2>3, <2>4, <3>1, Basics, SwitchHeld
  <2> QED
    BY <1>0, <2>3, <2>4, QuietSend
<1>5. ASSUME NEW millis \in SleepTimes, syscall_sleep(millis)
      PROVE  SendOK'
  <2>1. millis \in Nat /\ INVALID_PORT \in Int
    BY SchedulerAssumption DEF INVALID_PORT
  <2>2. /\ Switch(task_block(sched, INVALID_PORT, millis, now)) /\ now' = now
        /\ call' = [call EXCEPT ![Current] =
                       [op |-> "sleep", port |-> INVALID_PORT, size |-> millis, msg |-> NoMsg]]
    BY <1>5 DEF syscall_sleep, Enter
  <2> QED
    BY <1>0, <2>1, <2>2, Basics, BlockQuiet DEF Current
<1> QED
  BY <1>2, <1>3, <1>4, <1>5 DEF SchedulerCalls
(* A message in a block that held none. *)
LEMMA AppendUnshared ==
    ASSUME IInv, BlocksUnshared, NEW p \in PortNo, NEW m \in Messages, m.id \notin Allocated,
           queue' = [queue EXCEPT ![p] = list_append(@, m)]
    PROVE  /\ BlocksUnshared'
           /\ Range(queue'[p]) = Range(queue[p]) \cup {m}
           /\ \A o \in PortNo \ {p} : queue'[o] = queue[o]
<1>1. queue[p] \in Seq(Messages) /\ m \notin Range(queue[p])
  BY Basics, MessageFacts
<1>2. /\ queue'[p] = list_append(queue[p], m)
      /\ \A o \in PortNo \ {p} : queue'[o] = queue[o]
  BY Basics
<1>3. /\ Range(queue'[p]) = Range(queue[p]) \cup {m}
      /\ IsInjective(queue'[p])
  BY <1>1, <1>2, AppendFacts DEF BlocksUnshared
<1>4. ASSUME NEW a \in PortNo, NEW o \in PortNo,
             NEW x \in Range(queue'[a]), NEW y \in Range(queue'[o]), x.id = y.id
      PROVE  a = o /\ x = y
  <2>1. x \in Range(queue[a]) \/ (a = p /\ x = m)
    BY <1>2, <1>3
  <2>2. y \in Range(queue[o]) \/ (o = p /\ y = m)
    BY <1>2, <1>3
  <2>3. ~(x \in Range(queue[a]) /\ y = m) /\ ~(y \in Range(queue[o]) /\ x = m)
    BY <1>4, MessageFacts
  <2>4. x \in Range(queue[a]) /\ y \in Range(queue[o]) => a = o /\ x = y
    BY <1>4 DEF BlocksUnshared
  <2> QED
    BY <2>1, <2>2, <2>3, <2>4
<1>5. \A o \in PortNo : IsInjective(queue'[o])
  BY <1>2, <1>3 DEF BlocksUnshared
<1> QED
  BY <1>2, <1>3, <1>4, <1>5 DEF BlocksUnshared

(* msgsend wakes an owner of a port, and the sender is held. *)
LEMMA EnqueueSend ==
    ASSUME SendInv, halted = "no", Current # idle_task, NEW p \in PortNo,
           NEW len \in Amounts, enqueue(p, len)
    PROVE  SendOK'
<1>0. IInv /\ BlocksUnshared
  BY DEF SendInv
<1>1. PICK id \in MsgIds \ Allocated :
          /\ queue' = [queue EXCEPT ![p] =
                          list_append(@, [id |-> id, sender |-> Current, len |-> len])]
          /\ \/ /\ task_get(sched, receiver[p])
                /\ Enter("sent", p, len, id)
                /\ Switch(task_block(task_wake(sched, receiver[p]),
                                     INVALID_PORT, SLEEP_INFINITE, now))
                /\ UNCHANGED <<next_pid_value, now>>
             \/ /\ ~task_get(sched, receiver[p])
                /\ Halt("wake")
  BY DEF enqueue
<1> DEFINE m == [id |-> id, sender |-> Current, len |-> len]
           v == task_wake(sched, receiver[p])
<1>2. m \in Messages /\ m.id = id /\ m.sender = Current
  BY <1>0, Basics DEF Messages
<1>3. queue' = [queue EXCEPT ![p] = list_append(@, m)]
  BY <1>1
<1> HIDE DEF m
<1>4. /\ BlocksUnshared'
      /\ Range(queue'[p]) = Range(queue[p]) \cup {m}
      /\ \A o \in PortNo \ {p} : queue'[o] = queue[o]
  BY <1>0, <1>2, <1>3, AppendUnshared
<1>5. /\ receiver[p] \in Pid /\ receiver[p] \in Owners /\ Owners' = Owners
  BY <1>0, Basics DEF enqueue, port_get, Owners
<1>6. CASE Halt("wake")
  <2>1. ~task_get(sched, receiver[p])
    BY <1>1, <1>6 DEF Halt, Switch
  <2>2. receiver[p] \notin Live(sched)
    BY <2>1 DEF task_get, Live
  <2>3. sched' = sched /\ halted' = "wake"
    BY <1>6 DEF Halt
  <2> QED
    BY <1>4, <1>5, <2>2, <2>3 DEF SendOK, SendersHeld, WakeFailsOnlyAfterOwnerExit
<1>7. CASE /\ Enter("sent", p, len, id)
           /\ Switch(task_block(v, INVALID_PORT, SLEEP_INFINITE, now))
           /\ now' = now
  <2>1. /\ v \in SchedState /\ QueuesOK(v, next_pid_value) /\ Placed(v)
        /\ v.current_task = Current
    BY <1>0, <1>5, Basics, WakeFacts DEF Current
  <2>2. \A t \in Pid \ {receiver[p]} : Held(sched, t) => Held(v, t)
    BY <1>0, <1>5, Basics, WakeHeld
  <2> HIDE DEF v
  <2>3. sched' = task_block(v, INVALID_PORT, SLEEP_INFINITE, now) /\ halted' # "wake"
    BY <1>7 DEF Switch
  <2>4. /\ INVALID_PORT \in Int /\ SLEEP_INFINITE \in Nat
        /\ now \in Nat /\ next_pid_value \in 2 .. MaxPid /\ Current \in Pid
    BY <1>0, Basics, SchedulerAssumption DEF INVALID_PORT
  <2>5. /\ call'[Current].op = "sent" /\ call'[Current].msg = id
        /\ \A t \in Pid \ {Current} : call'[t] = call[t]
    BY <1>0, <1>7, Basics DEF Enter
  <2>6. ASSUME now < SLEEP_INFINITE
        PROVE  /\ Held(sched', Current)
               /\ \A t \in Pid \ {receiver[p]} : Held(sched, t) => Held(sched', t)
    BY <2>1, <2>2, <2>3, <2>4, <2>6, BlockHeld
  <2>7. SendersHeld'
    <3> SUFFICES ASSUME now' < SLEEP_INFINITE, NEW o \in PortNo,
                        NEW k \in Range(queue'[o]), k.sender \notin Owners'
                 PROVE  SentBy(k.sender, k)'
      BY DEF SendersHeld
    <3>1. now < SLEEP_INFINITE
      BY <1>7
    <3>2. CASE k = m
      BY <1>2, <2>5, <2>6, <3>1, <3>2 DEF SentBy, Held
    <3>3. CASE k \in Range(queue[o])
      <4>1. SentBy(k.sender, k) /\ k.sender \in Pid
        BY <1>0, <1>5, <3>1, <3>3, MessageFacts DEF SendInv, SendersHeld
      <4>2. k.sender # receiver[p] /\ k.sender # Current
        BY <1>0, <1>5, <4>1, Basics DEF SentBy, Held
      <4>3. Held(sched', k.sender) /\ call'[k.sender] = call[k.sender]
        BY <2>5, <2>6, <3>1, <4>1, <4>2 DEF SentBy
      <4> QED
        BY <4>1, <4>3 DEF SentBy, Held
    <3> QED
      BY <1>4, <3>2, <3>3
  <2> QED
    BY <1>4, <2>3, <2>7 DEF SendOK, WakeFailsOnlyAfterOwnerExit
<1> QED
  BY <1>1, <1>6, <1>7

LEMMA SendSend ==
    ASSUME SendInv, halted = "no", Current # idle_task, NEW p \in PortNo,
           NEW len \in Amounts, send(p, len)
    PROVE  SendOK'
<1>0. IInv
  BY DEF SendInv
<1>1. CASE await_open(p, len)
  <2>1. /\ Switch(task_block(sched, p, SLEEP_INFINITE, now))
        /\ call' = [call EXCEPT ![Current] =
                       [op |-> "opening", port |-> p, size |-> len, msg |-> NoMsg]]
        /\ UNCHANGED <<now, receiver, queue>>
    BY <1>1 DEF await_open, Enter, portVars
  <2>2. p \in Int /\ SLEEP_INFINITE \in Nat
    BY SchedulerAssumption DEF PortNo
  <2> QED
    BY <1>0, <2>1, <2>2, Basics, BlockQuiet DEF Current
<1>2. CASE kmalloc_fails
  <2>1. UNCHANGED <<sched, now, queue, receiver, call>> /\ halted' # "wake"
    BY <1>2 DEF kmalloc_fails, Halt, portVars
  <2> QED
    BY <2>1, SameSchedQuiet DEF Owners
<1>3. CASE enqueue(p, len)
  BY <1>3, EnqueueSend
<1> QED
  BY <1>1, <1>2, <1>3 DEF send
(* msgrecv wakes the sender of the message it takes, which has no other. *)
LEMMA DequeueSend ==
    ASSUME SendInv, halted = "no", NEW p \in PortNo, NEW size, dequeue(p, size)
    PROVE  SendOK'
<1> DEFINE hd == Head(queue[p])
<1>0. IInv /\ BlocksUnshared
  BY DEF SendInv
<1>1. /\ queue[p] # << >> /\ queue[p] \in Seq(Messages)
      /\ queue' = [queue EXCEPT ![p] = Tail(@)]
      /\ receiver' = receiver
  BY <1>0, Basics DEF dequeue, list_empty
<1>2. \/ /\ sched' = task_wake(sched, hd.sender) /\ Return
         /\ UNCHANGED <<now, halted>>
      \/ ~task_get(sched, hd.sender) /\ Halt("wake")
  BY DEF dequeue
<1>3. /\ hd \in Range(queue[p]) /\ hd.sender \in Pid
      /\ Range(queue[p]) = Range(Tail(queue[p])) \cup {hd}
      /\ IsInjective(Tail(queue[p])) /\ hd \notin Range(Tail(queue[p]))
  BY <1>0, <1>1, TailFacts, MessageFacts DEF BlocksUnshared
<1> HIDE DEF hd
<1>4. /\ queue'[p] = Tail(queue[p])
      /\ \A o \in PortNo \ {p} : queue'[o] = queue[o]
  BY <1>0, <1>1, Basics
<1>5. \A o \in PortNo : Range(queue'[o]) \subseteq Range(queue[o])
  BY <1>3, <1>4
<1>6. BlocksUnshared'
  <2>1. \A o \in PortNo : IsInjective(queue'[o])
    BY <1>0, <1>3, <1>4 DEF BlocksUnshared
  <2> QED
    BY <1>0, <1>5, <2>1 DEF BlocksUnshared
<1>7. Owners' = Owners
  BY <1>1 DEF Owners
<1>8. CASE ~task_get(sched, hd.sender) /\ Halt("wake")
  <2>1. sched' = sched /\ halted' = "wake" /\ now' = now
    BY <1>8 DEF Halt
  <2>2. hd.sender \notin Live(sched) /\ hd.sender \notin Sleeping(sched)
    BY <1>8 DEF task_get, Live
  <2>3. now < SLEEP_INFINITE => hd.sender \in Owners
    BY <1>3, <2>2 DEF SendInv, SendersHeld, SentBy, Held
  <2> QED
    BY <1>6, <1>7, <2>1, <2>2, <2>3 DEF SendOK, SendersHeld, WakeFailsOnlyAfterOwnerExit
<1>9. CASE /\ sched' = task_wake(sched, hd.sender) /\ Return
           /\ UNCHANGED <<now, halted>>
  <2>1. SendersHeld'
    <3> SUFFICES ASSUME now' < SLEEP_INFINITE, NEW o \in PortNo,
                        NEW k \in Range(queue'[o]), k.sender \notin Owners'
                 PROVE  SentBy(k.sender, k)'
      BY DEF SendersHeld
    <3>1. k \in Range(queue[o]) /\ now < SLEEP_INFINITE /\ k.sender \notin Owners
      BY <1>5, <1>7, <1>9
    <3>2. SentBy(k.sender, k) /\ k.sender \in Pid
      BY <1>0, <3>1, MessageFacts DEF SendInv, SendersHeld
    <3>3. k.sender # hd.sender
      <4> SUFFICES ASSUME k.sender = hd.sender PROVE FALSE
        OBVIOUS
      <4>1. SentBy(hd.sender, hd)
        BY <1>3, <3>1 DEF SendInv, SendersHeld
      <4>2. k.id = hd.id
        BY <3>2, <4>1 DEF SentBy
      <4>3. o = p /\ k = hd
        BY <1>0, <1>3, <3>1, <4>2 DEF BlocksUnshared
      <4> QED
        BY <1>3, <1>4, <4>3
    <3>4. Held(sched', k.sender)
      BY <1>0, <1>3, <1>9, <3>2, <3>3, Basics, WakeHeld DEF SentBy
    <3>5. call'[k.sender] = call[k.sender]
      BY <1>0, <1>9, <3>2, CallsOfHeld DEF SentBy, Return
    <3> QED
      BY <3>2, <3>4, <3>5 DEF SentBy, Held
  <2> QED
    BY <1>6, <1>9, <2>1 DEF SendOK, WakeFailsOnlyAfterOwnerExit
<1> QED
  BY <1>2, <1>8, <1>9

LEMMA ReceiveSend ==
    ASSUME SendInv, halted = "no", Current # idle_task, NEW p \in PortNo, NEW size,
           receive(p, size)
    PROVE  SendOK'
<1>0. IInv
  BY DEF SendInv
<1>1. CASE await_message(p, size)
  <2> DEFINE v == wake_tasks_waiting_for_port(sched, p)
  <2>1. /\ Switch(task_block(v, INVALID_PORT, SLEEP_INFINITE, now))
        /\ call' = [call EXCEPT ![Current] =
                       [op |-> "recv", port |-> p, size |-> size, msg |-> NoMsg]]
        /\ UNCHANGED <<now, receiver, queue>>
    BY <1>1 DEF await_message, Enter, portVars
  <2>2. INVALID_PORT \in Int /\ SLEEP_INFINITE \in Nat
    BY SchedulerAssumption DEF INVALID_PORT
  <2>3. /\ v \in SchedState /\ QueuesOK(v, next_pid_value) /\ Placed(v)
        /\ v.current_task = Current
    BY <1>0, Basics, WakePortFacts DEF Current
  <2>4. \A t \in Pid : Held(sched, t) => Held(v, t)
    BY <1>0, Basics, WakePortHeld
  <2> HIDE DEF v
  <2> QED
    BY <2>1, <2>2, <2>3, <2>4, BlockQuiet
<1>2. CASE dequeue(p, size)
  BY <1>2, DequeueSend
<1>3. CASE insufficient_buffer(p, size)
  <2>1. UNCHANGED <<sched, now, halted, receiver, queue>>
        /\ call' = [call EXCEPT ![Current] = InUser]
    BY <1>3 DEF insufficient_buffer, Return, portVars
  <2> QED
    BY <2>1, SameSchedQuiet DEF Owners
<1> QED
  BY <1>1, <1>2, <1>3 DEF receive

LEMMA WaitSend ==
    ASSUME SendInv, halted = "no", Current # idle_task, NEW p \in PortNo, wait_message(p)
    PROVE  SendOK'
<1>0. IInv /\ UNCHANGED <<now, receiver, queue>>
  BY DEF SendInv, wait_message, portVars
<1>1. CASE /\ Enter("wait", p, 0, NoMsg)
           /\ Switch(task_block(sched, INVALID_PORT, SLEEP_INFINITE, now))
  <2>1. call' = [call EXCEPT ![Current] =
                   [op |-> "wait", port |-> p, size |-> 0, msg |-> NoMsg]]
    BY <1>1 DEF Enter
  <2>2. INVALID_PORT \in Int /\ SLEEP_INFINITE \in Nat
    BY SchedulerAssumption DEF INVALID_PORT
  <2> QED
    BY <1>0, <1>1, <2>1, <2>2, Basics, BlockQuiet DEF Current
<1>2. CASE Return /\ UNCHANGED <<sched, now, halted>>
  BY <1>0, <1>2, SameSchedQuiet DEF Owners, Return
<1> QED
  BY <1>1, <1>2 DEF wait_message

(* A port is opened once: nobody stops being an owner. *)
LEMMA OpenSend ==
    ASSUME SendInv, NEW p \in PortNo, ~port_get(p), Calling, Opened(p)
    PROVE  SendOK'
<1>1. IInv /\ queue[p] = << >> /\ receiver[p] = INVALID_PID
  BY DEF SendInv, IInv, PortsOK, port_get
<1>2. queue' = queue /\ UNCHANGED <<sched, now, call, halted>> /\ halted = "no"
  BY <1>1, Basics DEF Opened, schedVars, Calling
<1>3. Owners \subseteq Owners'
  BY <1>1, Basics DEF Owners, Opened
<1> QED
  BY <1>2, <1>3, SameSchedQuiet

LEMMA PortCallsSend ==
    ASSUME SendInv, PortCalls
    PROVE  SendOK'
<1>0. IInv /\ TypeOK /\ PortsOK
  BY DEF SendInv, IInv
<1>1. CASE syscall_portopen_any
  <2>1. next_port_value \in PortNo /\ next_port_value \notin ReservedPort
    BY <1>0, <1>1, SchedulerAssumption, IpcAssumption
    DEF syscall_portopen_any, TypeOK, PortNo, ReservedPort
  <2>2. next_port_value \notin FirstDynamicPort .. next_port_value - 1
    BY <1>0, SchedulerAssumption, IpcAssumption DEF TypeOK
  <2>3. ~port_get(next_port_value)
    BY <1>0, <2>1, <2>2 DEF PortsOK, TypeOK
  <2> QED
    BY <1>1, <2>1, <2>3, OpenSend DEF syscall_portopen_any
<1>2. ASSUME NEW p \in ReservedPort, syscall_portopen(p)
      PROVE  SendOK'
  <2>1. p \in PortNo /\ p \notin FirstDynamicPort .. next_port_value - 1
    BY <1>0, SchedulerAssumption, IpcAssumption DEF TypeOK, PortNo, ReservedPort
  <2>2. ~port_get(p)
    BY <1>0, <1>2, <2>1 DEF PortsOK, syscall_portopen
  <2> QED
    BY <1>2, <2>1, <2>2, OpenSend DEF syscall_portopen
<1>3. ASSUME NEW p \in PortNo, NEW len \in Sizes, syscall_msgsend(p, len)
      PROVE  SendOK'
  BY <1>3, SendSend DEF syscall_msgsend, Calling, Amounts
<1>4. ASSUME NEW p \in PortNo, NEW size \in Sizes, syscall_msgrecv(p, size)
      PROVE  SendOK'
  BY <1>4, ReceiveSend DEF syscall_msgrecv, Calling
<1>5. ASSUME NEW p \in PortNo, syscall_msgwait(p)
      PROVE  SendOK'
  BY <1>5, WaitSend DEF syscall_msgwait, Calling
<1> QED
  BY <1>1, <1>2, <1>3, <1>4, <1>5 DEF PortCalls

LEMMA ResumeSend ==
    ASSUME SendInv, Resume
    PROVE  SendOK'
<1>0. /\ IInv /\ call[Current] \in Calls
      /\ call[Current].op \in {"opening", "recv", "wait"} => call[Current].port \in PortNo
  BY Basics DEF SendInv, IInv, CallsOK
<1>1. call[Current].size \in Amounts
  BY <1>0 DEF Calls
<1>2. CASE (sleep_resumed /\ UNCHANGED portVars) \/ msgsend_returns
  <2>1. UNCHANGED <<sched, now, halted, receiver, queue>> /\ halted = "no"
        /\ call' = [call EXCEPT ![Current] = InUser]
    BY <1>2 DEF sleep_resumed, msgsend_returns, Resuming, Return, portVars
  <2> QED
    BY <2>1, SameSchedQuiet DEF Owners
<1>3. CASE msgsend_resumed
  BY <1>0, <1>1, <1>3, SendSend DEF msgsend_resumed, Resuming
<1>4. CASE msgrecv_resumed
  BY <1>0, <1>4, ReceiveSend DEF msgrecv_resumed, Resuming
<1>5. CASE msgwait_resumed
  BY <1>0, <1>5, WaitSend DEF msgwait_resumed, Resuming
<1> QED
  BY <1>2, <1>3, <1>4, <1>5 DEF Resume

LEMMA InterruptSend ==
    ASSUME SendInv, Interrupt
    PROVE  SendOK'
<1>0. /\ IInv /\ halted = "no" /\ UNCHANGED <<receiver, queue, call>>
      /\ Owners \subseteq Owners' /\ SLEEP_INFINITE \in Nat /\ now \in Nat
  BY Basics, SchedulerAssumption
  DEF SendInv, Interrupt, portVars, timer_tick, scheduler_timer, Interruptible, Owners
<1>1. CASE timer_tick
  <2>1. UNCHANGED <<sched, halted>> /\ now' = now + 1
    BY <1>1 DEF timer_tick
  <2>2. now' < SLEEP_INFINITE => now < SLEEP_INFINITE
    BY <1>0, <2>1
  <2> QED
    BY <1>0, <2>1, <2>2, QuietSend
<1>2. CASE scheduler_timer
  <2> DEFINE s == Preempted(sched)
             ts == Tick(now)
  <2>1. /\ now' = ts /\ ts \in Nat /\ halted' # "wake"
        /\ now' < SLEEP_INFINITE => now < SLEEP_INFINITE
    BY <1>0, <1>2, SchedulerAssumption DEF scheduler_timer, Tick, Switch
  <2>2. /\ s \in SchedState /\ QueuesOK(s, next_pid_value)
        /\ Sleeping(s) = Sleeping(sched)
        /\ s.wait_cansend_port = sched.wait_cansend_port
    BY <1>0, Basics, PreemptedFacts
  <2>3. s.sleep_deadline = sched.sleep_deadline
    BY <1>0, Basics DEF Preempted, SchedState
  <2>4. sched' = sched \/ sched' = s \/ sched' = task_switch_next(s, ts)
    BY <1>2 DEF scheduler_timer, Switch
  <2> HIDE DEF s, ts
  <2>5. ASSUME now' < SLEEP_INFINITE, NEW t \in Pid, Held(sched, t)
        PROVE  Held(sched', t) /\ call'[t] = call[t]
    <3>1. Held(s, t)
      BY <2>2, <2>3, <2>5, SameHeld
    <3>2. Held(task_switch_next(s, ts), t)
      BY <1>0, <2>1, <2>2, <2>5, <3>1, Basics, SwitchHeld
    <3> QED
      BY <1>0, <2>4, <2>5, <3>1, <3>2
  <2> QED
    BY <1>0, <2>1, <2>5, QuietSend
<1> QED
  BY <1>1, <1>2 DEF Interrupt

(* No message is left when the machine starts. *)
LEMMA NoMessagesSend ==
    ASSUME queue = [p \in PortNo |-> << >>], halted = "no"
    PROVE  SendOK
<1>1. \A p \in PortNo : Range(queue[p]) = {} /\ IsInjective(queue[p])
  BY EmptyFacts
<1> QED
  BY <1>1 DEF SendOK, BlocksUnshared, SendersHeld, WakeFailsOnlyAfterOwnerExit
-----------------------------------------------------------------------------
(* The theorems. *)

(* SendInv holds in every state. *)
THEOREM SendInvariance == Spec => []SendInv
<1>1. Init => SendOK
  BY NoMessagesSend DEF Init, SchedInit
<1>2. ASSUME SendInv, [Next]_vars
      PROVE  SendOK'
  <2>1. CASE UNCHANGED vars
    BY <1>2, <2>1 DEF vars, SendInv, SendOK, BlocksUnshared, SendersHeld, SentBy, Held, Owners,
                      WakeFailsOnlyAfterOwnerExit
  <2>2. CASE boot
    <3>1. queue' = [p \in PortNo |-> << >>] /\ halted' = "no"
      BY <2>2 DEF boot
    <3>2. \A p \in PortNo : Range(queue'[p]) = {} /\ IsInjective(queue'[p])
      BY <3>1, EmptyFacts
    <3> QED
      BY <3>1, <3>2 DEF SendOK, BlocksUnshared, SendersHeld, WakeFailsOnlyAfterOwnerExit
  <2> QED
    BY <1>2, <2>1, <2>2, SchedulerCallsSend, PortCallsSend, ResumeSend, InterruptSend DEF Next
<1>3. IInv /\ SendOK <=> SendInv
  BY DEF SendInv, SendOK
<1>4. IInv /\ SendOK /\ [Next]_vars => SendOK'
  BY <1>2, <1>3
<1>5. Spec => []SendOK
  BY <1>1, <1>4, Invariance, PTL DEF Spec
<1> QED
  BY <1>3, <1>5, Invariance, PTL

(* A task without a port is asleep in msgsend for as long as its message   *)
(* is queued (port.h:11-12, ipc.c syscall_msgsend_handler).                *)
THEOREM ClientSendsAreSynchronous == Spec => []ClientSendIsSynchronous
<1>1. SendInv => ClientSendIsSynchronous
  BY DEF SendInv, SendersHeld, SentBy, Held, ClientSendIsSynchronous
<1> QED
  BY <1>1, SendInvariance, PTL

(* The assertion of task_wake fails only after a task that owned a port    *)
(* has exited (scheduler.c task_wake, called in ipc.c).                    *)
THEOREM WakesFailOnlyAfterOwnerExit == Spec => []WakeFailsOnlyAfterOwnerExit
<1>1. SendInv => WakeFailsOnlyAfterOwnerExit
  BY DEF SendInv
<1> QED
  BY <1>1, SendInvariance, PTL

-----------------------------------------------------------------------------
(***************************************************************************)
(* The ports of Ipc implement the channels of Channel, for any number of   *)
(* tasks, ports, messages and sizes and any clock.  IInv supplies what a   *)
(* step alone does not know: that a port that is opened had no receiver    *)
(* and no messages, and that a task resumed in msgrecv is still the        *)
(* receiver of its port.                                                   *)
(***************************************************************************)

LEMMA InitMaps == Init => Chan!Init
BY DEF Init, SchedInit, InUser, Chan!Init, chanOwner, chanInbox, chanReceiving

(* Going down loses every channel. *)
LEMMA DownMaps == ASSUME ~ Up' PROVE Chan!Crash
BY DEF Chan!Crash, Chan!Init, chanOwner, chanInbox, chanReceiving

(* A machine that is down can only boot, and shows the same channels. *)
LEMMA BootMaps ==
    ASSUME Next, ~ Up
    PROVE  UNCHANGED Chan!chanVars
<1>1. boot
  BY DEF Up, Next, SchedulerCalls, syscall_yield, syscall_fork, syscall_exit, syscall_sleep,
         PortCalls, syscall_portopen_any, syscall_portopen, syscall_msgsend, syscall_msgrecv,
         syscall_msgwait, Calling, Resume, sleep_resumed, msgsend_resumed, msgsend_returns,
         msgrecv_resumed, msgwait_resumed, Resuming, Interrupt, timer_tick, scheduler_timer,
         Interruptible
<1>2. /\ chanOwner = [p \in PortNo |-> INVALID_PID] /\ chanInbox = [p \in PortNo |-> << >>]
      /\ chanReceiving = [t \in Pid |-> INVALID_PORT]
  BY DEF Up, chanOwner, chanInbox, chanReceiving
<1>3. /\ chanOwner' = [p \in PortNo |-> INVALID_PID] /\ chanInbox' = [p \in PortNo |-> << >>]
      /\ chanReceiving' = [t \in Pid |-> INVALID_PORT]
  BY <1>1 DEF boot, InUser, Up, chanOwner, chanInbox, chanReceiving
<1> QED
  BY <1>2, <1>3 DEF Chan!chanVars

(* While the machine stays up the channels show the ports as they are. *)
LEMMA Shown ==
    ASSUME IInv, Up
    PROVE  /\ chanOwner = receiver /\ chanInbox = queue
           /\ chanReceiving = [t \in Pid |-> IF call[t].op = "recv" THEN call[t].port
                                             ELSE INVALID_PORT]
BY Basics DEF chanOwner, chanInbox, chanReceiving

LEMMA ShownNext ==
    ASSUME IInv', Up'
    PROVE  /\ chanOwner' = receiver' /\ chanInbox' = queue'
           /\ chanReceiving' = [t \in Pid |-> IF call'[t].op = "recv" THEN call'[t].port
                                              ELSE INVALID_PORT]
<1>1. receiver' \in [PortNo -> Pid \cup {INVALID_PID}] /\ queue' \in [PortNo -> Seq(Messages)]
  BY DEF IInv, TypeOK
<1> QED
  BY <1>1 DEF chanOwner, chanInbox, chanReceiving

(* A step that moves no message and starts or ends no receive. *)
LEMMA QuietStep ==
    ASSUME IInv, IInv', Up, Up', UNCHANGED <<receiver, queue>>,
           \A t \in Pid :
              /\ call[t].op = "recv" => call'[t].op = "recv" /\ call'[t].port = call[t].port
              /\ call[t].op # "recv" => call'[t].op # "recv"
    PROVE  UNCHANGED Chan!chanVars
<1>1. UNCHANGED chanReceiving
  BY Shown, ShownNext
<1>2. UNCHANGED <<chanOwner, chanInbox>>
  BY DEF chanOwner, chanInbox
<1> QED
  BY <1>1, <1>2 DEF Chan!chanVars

(* The caller enters or leaves a call other than msgrecv. *)
LEMMA QuietCall ==
    ASSUME IInv, IInv', Up, Up', UNCHANGED <<receiver, queue>>,
           call[Current].op # "recv", NEW c \in Calls, c.op # "recv",
           call' = [call EXCEPT ![Current] = c]
    PROVE  UNCHANGED Chan!chanVars
BY Basics, QuietStep

LEMMA SchedulerCallsMap ==
    ASSUME IInv, IInv', Up, Up', SchedulerCalls
    PROVE  UNCHANGED Chan!chanVars
<1>1. UNCHANGED <<receiver, queue>>
  BY DEF SchedulerCalls, portVars
<1>2. CASE syscall_yield \/ syscall_fork \/ syscall_exit
  <2>1. UNCHANGED call
    BY <1>2 DEF syscall_yield, syscall_fork, syscall_exit, Halt
  <2> QED
    BY <1>1, <2>1, QuietStep
<1>3. ASSUME NEW millis \in SleepTimes, syscall_sleep(millis)
      PROVE  UNCHANGED Chan!chanVars
  <2> DEFINE c == [op |-> "sleep", port |-> INVALID_PORT, size |-> millis, msg |-> NoMsg]
  <2>1. c \in Calls /\ c.op # "recv"
    BY DEF Calls, CallOps, Amounts
  <2>2. call[Current].op # "recv" /\ call' = [call EXCEPT ![Current] = c]
    BY <1>3 DEF syscall_sleep, Calling, InUser, Enter
  <2> QED
    BY <1>1, <2>1, <2>2, QuietCall
<1> QED
  BY <1>2, <1>3 DEF SchedulerCalls

(* portopen: the port had no receiver and no messages. *)
LEMMA OpenMaps ==
    ASSUME IInv, IInv', Up, Up', NEW p \in PortNo, Calling, Opened(p), ~ port_get(p)
    PROVE  Chan!Open(Current, p)
<1>1. queue[p] = << >>
  BY DEF IInv, PortsOK
<1>2. UNCHANGED <<queue, call>>
  BY <1>1, Basics DEF Opened, schedVars
<1>3. call[Current].op # "recv" /\ Current \in Pid
  BY Basics DEF Calling, InUser
<1> QED
  BY <1>2, <1>3, Shown, ShownNext DEF Chan!Open, Opened, port_get

LEMMA SendMaps ==
    ASSUME IInv, IInv', Up, Up', NEW p \in PortNo, NEW n \in Amounts,
           call[Current].op # "recv", send(p, n)
    PROVE  Chan!Next \/ UNCHANGED Chan!chanVars
<1>1. CASE await_open(p, n)
  <2> DEFINE c == [op |-> "opening", port |-> p, size |-> n, msg |-> NoMsg]
  <2>1. c \in Calls /\ c.op # "recv"
    BY DEF Calls, CallOps
  <2>2. call' = [call EXCEPT ![Current] = c] /\ UNCHANGED <<receiver, queue>>
    BY <1>1 DEF await_open, Enter, portVars
  <2> QED
    BY <2>1, <2>2, QuietCall
<1>2. CASE kmalloc_fails
  BY <1>2 DEF kmalloc_fails, Halt, Up
<1>3. CASE enqueue(p, n)
  <2>1. PICK m \in MsgIds :
           /\ queue' = [queue EXCEPT ![p] =
                           Append(@, [id |-> m, sender |-> Current, len |-> n])]
           /\ Enter("sent", p, n, m)
    BY <1>3, Zenon DEF enqueue, Halt, Up, list_append
  <2> DEFINE msg == [id |-> m, sender |-> Current, len |-> n]
  <2>2. msg \in Messages /\ Current \in Pid
    BY Basics DEF Messages
  <2>3. receiver' = receiver /\ receiver[p] # INVALID_PID
    BY <1>3 DEF enqueue, port_get
  <2>4. chanReceiving' = chanReceiving /\ chanReceiving[Current] = INVALID_PORT
    <3>1. call' = [call EXCEPT ![Current] = [op |-> "sent", port |-> p, size |-> n, msg |-> m]]
      BY <2>1 DEF Enter
    <3>2. \A t \in Pid : call'[t].op = "recv" => t # Current /\ call'[t] = call[t]
      BY <2>2, <3>1, Basics
    <3>3. \A t \in Pid : call[t].op = "recv" => call'[t] = call[t]
      BY <2>2, <3>1, Basics
    <3> QED
      BY <2>2, <3>2, <3>3, Shown, ShownNext
  <2>5. Chan!Send(p, msg)
    BY <2>1, <2>2, <2>3, <2>4, Shown, ShownNext DEF Chan!Send
  <2> QED
    BY <2>2, <2>5 DEF Chan!Next
<1> QED
  BY <1>1, <1>2, <1>3 DEF send

(* msgrecv: the first look at an empty queue blocks, and a task that is    *)
(* woken to an empty queue blocks again unseen.                            *)
LEMMA ReceiveMaps ==
    ASSUME IInv, IInv', Up, Up', NEW p \in PortNo, NEW n \in Amounts, receiver[p] = Current,
           call[Current].op = "recv" => call[Current].port = p, receive(p, n)
    PROVE  Chan!Next \/ UNCHANGED Chan!chanVars
<1>0. /\ Current \in Pid /\ receiver' = receiver
      /\ chanReceiving[Current] \in {INVALID_PORT, p}
  BY Basics, Shown DEF receive, await_message, dequeue, insufficient_buffer, portVars
<1>1. CASE await_message(p, n)
  <2>1. /\ queue' = queue /\ queue[p] = << >>
        /\ call' = [call EXCEPT ![Current] =
                       [op |-> "recv", port |-> p, size |-> n, msg |-> NoMsg]]
    BY <1>1 DEF await_message, list_empty, portVars, Enter
  <2>2. CASE call[Current].op = "recv"
    BY <1>0, <2>1, <2>2, Basics, QuietStep
  <2>3. CASE call[Current].op # "recv"
    <3>1. /\ chanReceiving' = [chanReceiving EXCEPT ![Current] = p]
          /\ chanReceiving[Current] = INVALID_PORT
      BY <1>0, <2>1, <2>3, Basics, Shown, ShownNext
    <3>2. Chan!Block(Current, p)
      BY <1>0, <2>1, <3>1, Shown, ShownNext DEF Chan!Block
    <3> QED
      BY <1>0, <3>2 DEF Chan!Next
  <2> QED
    BY <2>2, <2>3
<1>2. ASSUME call' = [call EXCEPT ![Current] = InUser]
      PROVE  chanReceiving' = [chanReceiving EXCEPT ![Current] = INVALID_PORT]
  BY <1>0, <1>2, Basics, Shown, ShownNext DEF InUser
<1>3. CASE dequeue(p, n)
  <2>1. /\ call' = [call EXCEPT ![Current] = InUser]
        /\ queue[p] # << >> /\ queue' = [queue EXCEPT ![p] = Tail(@)]
    BY <1>3 DEF dequeue, Return, Halt, Up, list_empty
  <2>2. Chan!Receive(Current, p)
    BY <1>0, <1>2, <2>1, Shown, ShownNext DEF Chan!Receive, Chan!Returns
  <2> QED
    BY <1>0, <2>2 DEF Chan!Next
<1>4. CASE insufficient_buffer(p, n)
  <2>1. call' = [call EXCEPT ![Current] = InUser] /\ queue[p] # << >> /\ queue' = queue
    BY <1>4 DEF insufficient_buffer, Return, list_empty, portVars
  <2>2. Chan!Reject(Current, p)
    BY <1>0, <1>2, <2>1, Shown, ShownNext DEF Chan!Reject, Chan!Returns
  <2> QED
    BY <1>0, <2>2 DEF Chan!Next
<1> QED
  BY <1>1, <1>3, <1>4 DEF receive

(* msgwait moves nothing. *)
LEMMA WaitMaps ==
    ASSUME IInv, IInv', Up, Up', NEW p \in PortNo, call[Current].op # "recv", wait_message(p)
    PROVE  UNCHANGED Chan!chanVars
<1>1. UNCHANGED <<receiver, queue>>
  BY DEF wait_message, portVars
<1>2. InUser \in Calls /\ [op |-> "wait", port |-> p, size |-> 0, msg |-> NoMsg] \in Calls
  BY DEF InUser, Calls, CallOps, Amounts
<1>3. \E c \in Calls : c.op # "recv" /\ call' = [call EXCEPT ![Current] = c]
  BY <1>2 DEF wait_message, Enter, Return, InUser
<1> QED
  BY <1>1, <1>3, QuietCall

LEMMA PortCallsMap ==
    ASSUME IInv, IInv', Up, Up', PortCalls
    PROVE  Chan!Next \/ UNCHANGED Chan!chanVars
<1>1. Current \in Pid /\ (Calling => call[Current].op # "recv")
  BY Basics DEF Calling, InUser
<1>2. Sizes \subseteq Amounts
  BY DEF Amounts
<1>3. CASE syscall_portopen_any
  <2>1. next_port_value \in PortNo /\ ~ port_get(next_port_value)
    BY <1>3, IpcAssumption, SchedulerAssumption
    DEF syscall_portopen_any, IInv, TypeOK, PortsOK, ReservedPort, PortNo
  <2>2. Chan!Open(Current, next_port_value)
    BY <1>3, <2>1, OpenMaps DEF syscall_portopen_any
  <2> QED
    BY <1>1, <2>1, <2>2 DEF Chan!Next
<1>4. ASSUME NEW p \in ReservedPort, syscall_portopen(p)
      PROVE  Chan!Next
  <2>1. p \in PortNo /\ ~ port_get(p)
    BY <1>4, IpcAssumption, SchedulerAssumption
    DEF syscall_portopen, IInv, TypeOK, PortsOK, ReservedPort, PortNo
  <2>2. Chan!Open(Current, p)
    BY <1>4, <2>1, OpenMaps DEF syscall_portopen
  <2> QED
    BY <1>1, <2>1, <2>2 DEF Chan!Next
<1>5. ASSUME NEW p \in PortNo, NEW n \in Sizes, syscall_msgsend(p, n)
      PROVE  Chan!Next \/ UNCHANGED Chan!chanVars
  BY <1>1, <1>2, <1>5, SendMaps DEF syscall_msgsend
<1>6. ASSUME NEW p \in PortNo, NEW n \in Sizes, syscall_msgrecv(p, n)
      PROVE  Chan!Next \/ UNCHANGED Chan!chanVars
  BY <1>1, <1>2, <1>6, ReceiveMaps DEF syscall_msgrecv
<1>7. ASSUME NEW p \in PortNo, syscall_msgwait(p)
      PROVE  UNCHANGED Chan!chanVars
  BY <1>1, <1>7, WaitMaps DEF syscall_msgwait
<1> QED
  BY <1>3, <1>4, <1>5, <1>6, <1>7 DEF PortCalls

LEMMA ResumeMaps ==
    ASSUME IInv, IInv', Up, Up', Resume
    PROVE  Chan!Next \/ UNCHANGED Chan!chanVars
<1>1. /\ call[Current].op \in {"opening", "recv", "wait"} => call[Current].port \in PortNo
      /\ call[Current].op = "recv" => receiver[call[Current].port] = Current
      /\ call[Current] \in Calls
  BY Basics DEF IInv, CallsOK
<1>2. call[Current].size \in Amounts /\ InUser \in Calls /\ InUser.op # "recv"
  BY <1>1 DEF InUser, Calls, CallOps, Amounts
<1>3. CASE (sleep_resumed /\ UNCHANGED portVars) \/ msgsend_returns
  <2>1. /\ call[Current].op # "recv" /\ call' = [call EXCEPT ![Current] = InUser]
        /\ UNCHANGED <<receiver, queue>>
    BY <1>3 DEF sleep_resumed, msgsend_returns, Resuming, Return, portVars
  <2> QED
    BY <1>2, <2>1, QuietCall
<1>4. CASE msgsend_resumed
  BY <1>1, <1>2, <1>4, SendMaps DEF msgsend_resumed, Resuming
<1>5. CASE msgrecv_resumed
  BY <1>1, <1>2, <1>5, ReceiveMaps DEF msgrecv_resumed, Resuming
<1>6. CASE msgwait_resumed
  BY <1>1, <1>2, <1>6, WaitMaps DEF msgwait_resumed, Resuming
<1> QED
  BY <1>3, <1>4, <1>5, <1>6 DEF Resume

LEMMA InterruptMaps ==
    ASSUME IInv, IInv', Up, Up', Interrupt
    PROVE  UNCHANGED Chan!chanVars
<1>1. UNCHANGED <<receiver, queue, call>>
  BY DEF Interrupt, timer_tick, scheduler_timer, portVars
<1> QED
  BY <1>1, QuietStep

LEMMA StepMaps == IInv /\ IInv' /\ [Next]_vars => [Chan!Next]_(Chan!chanVars)
<1> SUFFICES ASSUME IInv, IInv', [Next]_vars
             PROVE  Chan!Next \/ UNCHANGED Chan!chanVars
  OBVIOUS
<1>1. CASE UNCHANGED vars
  BY <1>1 DEF vars, Up, chanOwner, chanInbox, chanReceiving, Chan!chanVars
<1>2. CASE Next /\ ~ Up
  BY <1>2, BootMaps
<1>3. CASE Next /\ ~ Up'
  BY <1>3, DownMaps DEF Chan!Next
<1>4. CASE Next /\ Up /\ Up'
  <2>1. ~ boot
    BY <1>4 DEF boot, Up
  <2> QED
    BY <1>4, <2>1, SchedulerCallsMap, PortCallsMap, ResumeMaps, InterruptMaps DEF Next
<1> QED
  BY <1>1, <1>2, <1>3, <1>4

(* The ports of ipc.c are the channels of port.h: reliable, in order, with *)
(* one receiver, and a receive returns only with a message.                *)
THEOREM PortsAreChannels == Spec => ImplementsChannel
BY InitMaps, StepMaps, Invariance, PTL DEF Spec, ImplementsChannel, Chan!Spec

=============================================================================
