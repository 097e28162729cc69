------------------------------ MODULE Machine ------------------------------
(***************************************************************************)
(* The processor under the kernel: interrupts and their controllers        *)
(* (kernel/pic.c, idt.c), the saving and loading of task contexts          *)
(* (scheduler.c, context.asm), the ports a task may use (gdt.c), the table *)
(* of timers (Timer) and the start of the first user task, which           *)
(* jump_to_usermode does with interrupts enabled.  Which task is next is   *)
(* left open here: Scheduler models the choice.                            *)
(*                                                                         *)
(* Interrupt handlers and system calls run with interrupts disabled and    *)
(* are single steps; the code of init in ring 0 is interruptible and takes *)
(* one step per assignment to the saved context.                           *)
(***************************************************************************)
EXTENDS Timer, FiniteSets, FiniteSetsExt

CONSTANTS
  Children,    \* user tasks init may create
  Irqs,        \* the interrupt requests the devices make, 0 among them
  Ports,       \* hardware ports
  DEBUG_PORT,  \* the port every task may use
  Periods,     \* periods of further timers
  MaxTicks,    \* bound on time
  MaxTimerId   \* bound on the timers ever scheduled

ASSUME MachineAssumption ==
  /\ Irqs \subseteq 0 .. 15 /\ 0 \in Irqs
  /\ DEBUG_PORT \in Ports
  /\ MaxTicks \in Nat /\ MaxTimerId \in Nat /\ Periods \subseteq Nat \ {0}

VARIABLES
  cpu,        \* running task and its registers
  ctx,        \* task->context of every task
  live,       \* tasks created
  iomap,      \* ports open to every task: the clear bits of task->iomap
  tss_iomap,  \* the copy in the task state segment
  in_service, \* the in-service registers of the two interrupt controllers
  warned,     \* requests without a handler that were reported: warn_unhandled
  timers,     \* the table of timers
  status,     \* "run", or "fault" after a call of a null callback
  hit,        \* history: init was switched away from inside jump_to_usermode
  scheduled,  \* history: ids scheduled, not unscheduled and not expired
  misplaced   \* history: a timer other than the last one was removed

vars == <<cpu, ctx, live, iomap, tss_iomap, in_service, warned, timers, status,
          hit, scheduled, misplaced>>

Tasks == {"kernel_task", "idle_task", "init"} \cup Children

\* The steps of init in ring 0: load_elf, then jump_to_usermode.
LoadElf == "load_elf"
StartSteps == <<"cs", "ds", "stack", "esp", "eflags", "eip", "switch">>
User == "user"

\* The steps at which the saved context is already in use.
Window == {StartSteps[i] : i \in 2 .. Len(StartSteps)}

----------------------------------------------------------------------------
(* Contexts. *)

Context(ring, ds, stack, pc, intr) ==
  [ring |-> ring, ds |-> ds, stack |-> stack, pc |-> pc, intr |-> intr]

KernelContext(pc) == Context(0, 0, "kernel", pc, TRUE)

\* Faulty: the stack of an interrupted user task is taken to be the kernel's.
save_kernel_stack(c) ==
  Context(c.ring, c.ds, "kernel", c.pc, c.intr)

\* The registers pushed at the interrupt become the context of the task; the
\* stack pointer is regs->esp less the pushed words in ring 0 and the pushed
\* useresp in ring 3, in both cases the one before the interrupt.
save_task_state(c) == Context(c.ring, c.ds, c.stack, c.pc, c.intr)

\* context.asm: iret loads code segment, stack, flags and instruction pointer.
switch_context(t, c) ==
  [task |-> t, ring |-> c.ring, ds |-> c.ds, stack |-> c.stack,
   pc |-> c.pc, intr |-> c.intr]

task_switch(t, ctxs) ==
  /\ cpu' = switch_context(t, ctxs[t])
  /\ tss_iomap' = iomap[t]

Saved == [ctx EXCEPT ![cpu.task] = save_task_state(cpu)]

----------------------------------------------------------------------------
(* The interrupt controllers.  The second one is cascaded on line 2 of the  *)
(* first; a request is delivered when no request of its priority or a       *)
(* higher one is in service.                                                *)

Line(irq) == IF irq < 8 THEN irq ELSE 2

Delivered(irq) ==
  /\ \A s \in in_service[0] : Line(irq) < s
  /\ irq >= 8 => \A s \in in_service[1] : irq < s

Acknowledged(irq) ==
  [in_service EXCEPT ![0] = @ \cup {Line(irq)},
                     ![1] = IF irq < 8 THEN @ ELSE @ \cup {irq}]

\* A non-specific end of interrupt ends the service of the highest priority.
EndService(S) == IF S = {} THEN S ELSE S \ {Min(S)}

\* Faulty: the end of interrupt goes to one controller only.
eoi_one(p, irq) ==
  IF irq > 8 THEN [p EXCEPT ![1] = EndService(@)]
  ELSE [p EXCEPT ![0] = EndService(@)]

eoi(p, irq) ==
  [p EXCEPT ![1] = IF irq > 8 THEN EndService(@) ELSE @,
            ![0] = EndService(@)]

\* What an external interrupt needs.
CanInterrupt(irq) == status = "run" /\ cpu.intr /\ Delivered(irq)

\* A request no handler is installed for is reported once and acknowledged.
irq_stub(irq) ==
  /\ irq # 0
  /\ CanInterrupt(irq)
  /\ warned' = warned \cup {irq}
  /\ in_service' = eoi(Acknowledged(irq), irq)
  /\ UNCHANGED <<cpu, ctx, live, iomap, tss_iomap, timers, status, hit, scheduled, misplaced>>

----------------------------------------------------------------------------
(* The timer interrupt. *)

\* Timers that expired: their callback ran and they are not recurring.
Expired(r) == {e.id : e \in {x \in Range(r.called) : ~x.recurring}}

\* Whether removing an id takes another timer than the last one.
NotLast(tt, id) ==
  IndicesOf(tt, id) # {} /\ FirstIndex(IndicesOf(tt, id)) # tt.count - 1

TimerResult(r) ==
  /\ timers.now < MaxTicks
  /\ timers' = r.tt
  /\ scheduled' = scheduled \ Expired(r)
  /\ misplaced' = (misplaced \/ \E id \in Expired(r) : NotLast(timers, id))
  /\ in_service' = eoi(Acknowledged(0), 0)
  /\ status' = IF r.fault THEN "fault" ELSE "run"
  /\ UNCHANGED <<live, iomap, warned>>

\* No callback switches: the interrupted code goes on.
timer_returns ==
  /\ CanInterrupt(0)
  /\ LET r == irq_handler(timers)
     IN  /\ ~r.left
         /\ TimerResult(r)
  /\ UNCHANGED <<cpu, ctx, tss_iomap, hit>>

\* scheduler_timer saves the context of the interrupted task and switches.
timer_switches(t) ==
  /\ CanInterrupt(0)
  /\ LET r == irq_handler(timers)
     IN  /\ r.left
         /\ TimerResult(r)
  /\ ctx' = Saved
  /\ hit' = (hit \/ (cpu.ring = 0 /\ cpu.pc \in Window))
  /\ task_switch(t, Saved)

\* Kernel code adds and removes timers, interrupts disabled.
schedule(period, recurring) ==
  /\ status = "run" /\ cpu.task = "kernel_task"
  /\ CanSchedule(timers) /\ timers.next_id < MaxTimerId
  /\ timers' = timer_schedule(timers, "driver", period, recurring)
  /\ scheduled' = scheduled \cup {timers.next_id}
  /\ UNCHANGED <<cpu, ctx, live, iomap, tss_iomap, in_service, warned, status, hit, misplaced>>

unschedule(id) ==
  /\ status = "run" /\ cpu.task = "kernel_task"
  /\ timers' = timer_unschedule(timers, id)
  /\ scheduled' = scheduled \ {id}
  /\ misplaced' = (misplaced \/ NotLast(timers, id))
  /\ UNCHANGED <<cpu, ctx, live, iomap, tss_iomap, in_service, warned, status, hit>>

----------------------------------------------------------------------------
(* The start of init. *)

\* kernel_task forks init, which goes on in ring 0 where kernel_task was.
start_init ==
  /\ status = "run"
  /\ cpu.task = "kernel_task" /\ cpu.pc = "start"
  /\ live' = live \cup {"init"}
  /\ ctx' = [Saved EXCEPT !["init"] = [save_task_state(cpu) EXCEPT !.pc = LoadElf]]
  /\ iomap' = [iomap EXCEPT !["init"] = {DEBUG_PORT}]
  /\ cpu' = [cpu EXCEPT !.pc = "dispatch"]
  /\ UNCHANGED <<tss_iomap, in_service, warned, timers, status, hit, scheduled, misplaced>>

Running(t, pc) == status = "run" /\ cpu.task = t /\ cpu.ring = 0 /\ cpu.pc = pc

load_elf ==
  /\ Running("init", LoadElf)
  /\ cpu' = [cpu EXCEPT !.pc = StartSteps[1]]
  /\ UNCHANGED <<ctx, live, iomap, tss_iomap, in_service, warned, timers, status,
                 hit, scheduled, misplaced>>

\* The assignment of each step to task->context.
Assign(c, step) ==
  CASE step = "cs"     -> [c EXCEPT !.ring = 3]
    [] step = "ds"     -> [c EXCEPT !.ds = 3]
    [] step = "stack"  -> c
    [] step = "esp"    -> [c EXCEPT !.stack = "user"]
    [] step = "eflags" -> [c EXCEPT !.intr = TRUE]
    [] step = "eip"    -> [c EXCEPT !.pc = User]

jump_to_usermode(i) ==
  /\ i < Len(StartSteps)
  /\ Running("init", StartSteps[i])
  /\ ctx' = [ctx EXCEPT !["init"] = Assign(@, StartSteps[i])]
  /\ cpu' = [cpu EXCEPT !.pc = StartSteps[i + 1]]
  /\ UNCHANGED <<live, iomap, tss_iomap, in_service, warned, timers, status,
                 hit, scheduled, misplaced>>

jump_to_usermode_switch ==
  /\ Running("init", "switch")
  /\ cpu' = switch_context("init", ctx["init"])
  /\ UNCHANGED <<ctx, live, iomap, tss_iomap, in_service, warned, timers, status,
                 hit, scheduled, misplaced>>

----------------------------------------------------------------------------
(* System calls of user tasks that touch this state.  syscall_handler saves *)
(* the context before it calls the handler.                                 *)

Calling == status = "run" /\ cpu.pc = User

syscall_fork(child) ==
  /\ Calling
  /\ child \in Children \ live
  /\ live' = live \cup {child}
  /\ ctx' = [Saved EXCEPT ![child] = save_task_state(cpu)]
  /\ iomap' = [iomap EXCEPT ![child] = {DEBUG_PORT}]
  /\ UNCHANGED <<cpu, tss_iomap, in_service, warned, timers, status, hit, scheduled, misplaced>>

\* exec rewrites the registers the interrupt pushed; the segments stay as they
\* are, and a return to ring 0 does not load a stack pointer.
syscall_exec ==
  /\ Calling
  /\ ctx' = Saved
  /\ cpu' = [cpu EXCEPT !.stack = IF cpu.ring = 3 THEN "user" ELSE @,
                        !.intr = TRUE, !.pc = User]
  /\ UNCHANGED <<live, iomap, tss_iomap, in_service, warned, timers, status, hit,
                 scheduled, misplaced>>

syscall_yield(t) ==
  /\ Calling
  /\ ctx' = Saved
  /\ task_switch(t, Saved)
  /\ UNCHANGED <<live, iomap, in_service, warned, timers, status, hit, scheduled, misplaced>>

syscall_hwportopen(port) ==
  /\ Calling
  /\ ctx' = Saved
  /\ iomap' = [iomap EXCEPT ![cpu.task] = @ \cup {port}]
  /\ tss_iomap' = iomap'[cpu.task]
  /\ UNCHANGED <<cpu, live, in_service, warned, timers, status, hit, scheduled, misplaced>>

----------------------------------------------------------------------------
(* scheduler_start has scheduled the scheduler's timer and switched to      *)
(* kernel_task.                                                             *)

SchedulerPeriod == 2

Init ==
  /\ cpu = switch_context("kernel_task", KernelContext("start"))
  /\ ctx = [t \in Tasks |-> KernelContext(IF t = "idle_task" THEN "idle" ELSE "start")]
  /\ live = {"kernel_task", "idle_task"}
  /\ iomap = [t \in Tasks |-> {DEBUG_PORT}]
  /\ tss_iomap = {DEBUG_PORT}
  /\ in_service = [p \in {0, 1} |-> {}]
  /\ warned = {}
  /\ timers = timer_schedule(timers_init, "scheduler_timer", SchedulerPeriod, TRUE)
  /\ status = "run"
  /\ hit = FALSE
  /\ scheduled = {0}
  /\ misplaced = FALSE

Next ==
  \/ \E irq \in Irqs : irq_stub(irq)
  \/ timer_returns
  \/ \E t \in live : timer_switches(t)
  \/ \E period \in Periods, recurring \in BOOLEAN : schedule(period, recurring)
  \/ \E id \in 1 .. timers.next_id - 1 : unschedule(id)
  \/ start_init
  \/ load_elf
  \/ \E i \in 1 .. Len(StartSteps) : jump_to_usermode(i)
  \/ jump_to_usermode_switch
  \/ \E child \in Children : syscall_fork(child)
  \/ syscall_exec
  \/ \E t \in live : syscall_yield(t)
  \/ \E port \in Ports : syscall_hwportopen(port)

Spec == Init /\ [][Next]_vars

----------------------------------------------------------------------------
(* Properties. *)

InUserMode(c) == c.ring = 3 /\ c.ds = 3 /\ c.stack = "user" /\ c.intr

\* User code runs, and is resumed, in ring 3, on its user stack and with
\* interrupts enabled, and the ports it can reach are exactly its own: the
\* ones it asked for with hwportopen (scheduler.c task_switch, save_task_state,
\* jump_to_usermode).  The only way out is a timer interrupt that switches away
\* from init while jump_to_usermode is assigning to the saved context
\* (scheduler.c:638-652): the rest of the assignments then complete a kernel
\* context, and init enters its program in ring 0.
UserCodeConfined ==
  /\ ~hit /\ cpu.pc = User => InUserMode(cpu)
  /\ ~hit => \A t \in live \ {cpu.task} : ctx[t].pc = User => InUserMode(ctx[t])
  /\ tss_iomap = iomap[cpu.task]

\* Outside the handlers interrupts are enabled and no request is in service, so
\* that the next timer interrupt is delivered whatever task runs and whether or
\* not the handler before returned (pic.c irq_stub).  Request 8 is the
\* exception: the second controller is not told that it ended (pic.c:79).
InterruptsAcknowledged ==
  /\ cpu.intr
  /\ in_service[0] = {}
  /\ in_service[1] \subseteq {8}

\* As long as only the last timer of the table is ever removed, the table holds
\* the timers that were scheduled and neither removed nor expired, each once,
\* and no null callback is called.  Removing any other timer drops the last one
\* and revives what is left beyond it (timer.c:109).  The scheduler's own timer
\* stays first and is never late, whatever is scheduled and removed after it.
TimersAsScheduled ==
  /\ ~misplaced => /\ status = "run"
                   /\ {e.id : e \in Entries(timers)} = scheduled
                   /\ Cardinality(scheduled) = timers.count
  /\ timers.slots[0].callback = "scheduler_timer"
  /\ timers.now - timers.slots[0].last_triggered < SchedulerPeriod
=============================================================================
