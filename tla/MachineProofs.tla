--------------------------- MODULE MachineProofs ---------------------------
(***************************************************************************)
(* User code stays in user mode and interrupts stay acknowledged, for any  *)
(* children, ports, interrupt requests and timers.                         *)
(***************************************************************************)
EXTENDS Machine, TLAPS

----------------------------------------------------------------------------
(* The inductive invariant. *)

Rings == {0, 3}
Stacks == {"kernel", "user"}
Pcs == {"start", "dispatch", "idle", LoadElf, "cs", User} \cup
       {"ds", "stack", "esp", "eflags", "eip", "switch"}

Contexts == [ring : Rings, ds : Rings, stack : Stacks, pc : Pcs, intr : {TRUE}]

Registers == [task : Tasks, ring : Rings, ds : Rings, stack : Stacks, pc : Pcs,
              intr : {TRUE}]

StateOK ==
  /\ cpu \in Registers /\ ctx \in [Tasks -> Contexts]
  /\ live \subseteq Tasks /\ cpu.task \in live
  /\ iomap \in [Tasks -> SUBSET Ports]

ServiceOK ==
  /\ in_service \in [{0, 1} -> SUBSET (0 .. 15)]
  /\ in_service[0] = {} /\ in_service[1] \subseteq {8}

(* Registers or a context belong to user code or to code of ring 0. *)
ModeOK(c) == IF c.pc = User THEN InUserMode(c) ELSE c.ring = 0

(* What jump_to_usermode has assigned when it stands at pc. *)
Built(pc, c) ==
  /\ pc \in Window => c.ring = 3
  /\ pc \in Window \ {"ds"} => c.ds = 3
  /\ pc \in {"eflags", "eip", "switch"} => c.stack = "user"
  /\ pc = "switch" => c.pc = User

(* No context that is not in use was saved half way through its assembly. *)
ModesOK ==
  /\ ModeOK(cpu)
  /\ \A t \in Tasks \ {cpu.task} : ModeOK(ctx[t]) /\ ctx[t].pc \notin Window
  /\ cpu.task = "init" => Built(cpu.pc, ctx["init"])

MachineInv ==
  /\ StateOK /\ ServiceOK
  /\ tss_iomap = iomap[cpu.task]
  /\ hit \in BOOLEAN
  /\ ~hit => ModesOK

----------------------------------------------------------------------------
(* Lemmas. *)

(* The steps of jump_to_usermode, spelled out. *)
LEMMA Steps ==
  /\ Len(StartSteps) = 7
  /\ StartSteps[1] = "cs" /\ StartSteps[2] = "ds" /\ StartSteps[3] = "stack"
  /\ StartSteps[4] = "esp" /\ StartSteps[5] = "eflags" /\ StartSteps[6] = "eip"
  /\ StartSteps[7] = "switch"
  /\ Window = {"ds", "stack", "esp", "eflags", "eip", "switch"}
<1>1. /\ Len(StartSteps) = 7
      /\ StartSteps[1] = "cs" /\ StartSteps[2] = "ds" /\ StartSteps[3] = "stack"
      /\ StartSteps[4] = "esp" /\ StartSteps[5] = "eflags" /\ StartSteps[6] = "eip"
      /\ StartSteps[7] = "switch"
  BY DEF StartSteps
<1>2. 2 .. 7 = {2, 3, 4, 5, 6, 7}
  OBVIOUS
<1>3. Window = {StartSteps[i] : i \in {2, 3, 4, 5, 6, 7}}
  BY <1>1, <1>2 DEF Window
<1> QED
  BY <1>1, <1>3

(* The end of the service of the only request in service leaves none. *)
LEMMA EndOfOne ==
  ASSUME NEW x \in Int
  PROVE  EndService({x}) = {}
<1>1. Min({x}) = x
  BY DEF Min
<1> QED
  BY <1>1 DEF EndService

(* A delivered request is the only one of its controllers in service, and   *)
(* its end leaves none, but for request 8.                                  *)
LEMMA Served ==
  ASSUME ServiceOK, NEW irq \in 0 .. 15, Delivered(irq)
  PROVE  LET p == eoi(Acknowledged(irq), irq)
         IN  /\ p \in [{0, 1} -> SUBSET (0 .. 15)]
             /\ p[0] = {} /\ p[1] \subseteq {8}
<1> DEFINE q == Acknowledged(irq)
           p == eoi(q, irq)
<1>1. /\ q \in [{0, 1} -> SUBSET (0 .. 15)]
      /\ q[0] = {Line(irq)} /\ Line(irq) \in Int
      /\ q[1] = IF irq < 8 THEN in_service[1] ELSE in_service[1] \cup {irq}
  BY DEF ServiceOK, Acknowledged, Line
<1>2. irq >= 8 => in_service[1] = {}
  BY DEF ServiceOK, Delivered
<1>3. p = [q EXCEPT ![1] = IF irq > 8 THEN EndService(q[1]) ELSE q[1],
                    ![0] = EndService(q[0])]
  BY <1>1 DEF eoi
<1>4. EndService(q[0]) = {}
  BY <1>1, EndOfOne
<1>5. CASE irq > 8
  <2>1. q[1] = {irq}
    BY <1>1, <1>2, <1>5
  <2>2. EndService(q[1]) = {}
    BY <2>1, EndOfOne
  <2> QED
    BY <1>1, <1>3, <1>4, <1>5, <2>2
<1>6. CASE ~(irq > 8)
  <2>1. q[1] \subseteq {8}
    BY <1>1, <1>2, <1>6 DEF ServiceOK
  <2> QED
    BY <1>1, <1>3, <1>4, <1>6, <2>1
<1> QED
  BY <1>5, <1>6
(* The registers of the running task make a context like them. *)
LEMMA SavedFacts ==
  ASSUME StateOK
  PROVE  /\ save_task_state(cpu) \in Contexts
         /\ Saved \in [Tasks -> Contexts]
         /\ Saved[cpu.task] = save_task_state(cpu)
         /\ \A t \in Tasks \ {cpu.task} : Saved[t] = ctx[t]
         /\ save_task_state(cpu).pc = cpu.pc
         /\ ModeOK(cpu) => ModeOK(save_task_state(cpu))
<1>1. save_task_state(cpu) \in Contexts
  BY DEF StateOK, Registers, Contexts, save_task_state, Context
<1>2. cpu.task \in Tasks
  BY DEF StateOK
<1>3. ModeOK(cpu) => ModeOK(save_task_state(cpu))
  BY DEF ModeOK, InUserMode, save_task_state, Context
<1> QED
  BY <1>1, <1>2, <1>3 DEF StateOK, Saved, save_task_state, Context

(* A switch away from a task that is not in the middle of                   *)
(* jump_to_usermode resumes a task in the mode it was interrupted in.       *)
LEMMA SwitchKeeps ==
  ASSUME MachineInv, NEW t \in live, ctx' = Saved, task_switch(t, Saved),
         live' = live, iomap' = iomap
  PROVE  /\ StateOK' /\ tss_iomap' = iomap'[cpu'.task]
         /\ ModesOK /\ cpu.pc \notin Window => ModesOK'
<1>1. StateOK /\ t \in Tasks
  BY DEF MachineInv, StateOK
<1>2. Saved[t] \in Contexts
  BY <1>1, SavedFacts
<1>3. /\ cpu' \in Registers /\ cpu'.task = t /\ cpu'.pc = Saved[t].pc
      /\ ModeOK(Saved[t]) => ModeOK(cpu')
  BY <1>1, <1>2 DEF task_switch, switch_context, Contexts, Registers, ModeOK, InUserMode
<1>4. StateOK'
  BY <1>1, <1>3, SavedFacts DEF StateOK
<1>5. tss_iomap' = iomap'[cpu'.task]
  BY <1>3 DEF task_switch
<1>6. ASSUME ModesOK, cpu.pc \notin Window
      PROVE  ModesOK'
  <2>1. \A u \in Tasks : ModeOK(Saved[u]) /\ Saved[u].pc \notin Window
    BY <1>1, <1>6, SavedFacts DEF ModesOK
  <2>2. ModeOK(cpu') /\ cpu'.pc \notin Window
    BY <1>1, <1>3, <2>1
  <2>3. Built(cpu'.pc, ctx'["init"])
    BY <2>2, Steps DEF Built
  <2> QED
    BY <2>1, <2>2, <2>3 DEF ModesOK, ModeOK, InUserMode
<1> QED
  BY <1>4, <1>5, <1>6

(* User code runs outside jump_to_usermode. *)
LEMMA UserOutsideWindow == User \notin Window
  BY Steps DEF User

----------------------------------------------------------------------------
(* One lemma per group of actions. *)

(* What the timer interrupt does to the interrupt controllers. *)
LEMMA TimerServed ==
  ASSUME MachineInv, CanInterrupt(0), NEW r, TimerResult(r)
  PROVE  ServiceOK'
<1>1. Delivered(0) /\ ServiceOK /\ 0 \in 0 .. 15
  BY DEF CanInterrupt, MachineInv
<1>2. in_service' = eoi(Acknowledged(0), 0)
  BY DEF TimerResult
<1> QED
  BY <1>1, <1>2, Served DEF ServiceOK

LEMMA IrqStep ==
  ASSUME MachineInv, NEW irq \in Irqs, irq_stub(irq)
  PROVE  MachineInv'
<1>1. Delivered(irq) /\ ServiceOK /\ irq \in 0 .. 15
  BY MachineAssumption DEF irq_stub, CanInterrupt, MachineInv
<1>2. in_service' = eoi(Acknowledged(irq), irq)
  BY DEF irq_stub
<1>3. ServiceOK'
  BY <1>1, <1>2, Served DEF ServiceOK
<1>4. UNCHANGED <<cpu, ctx, live, iomap, tss_iomap, hit>>
  BY DEF irq_stub
<1> QED
  BY <1>3, <1>4 DEF MachineInv, StateOK, ModesOK, ModeOK, InUserMode, Built

LEMMA TimerReturnsStep ==
  ASSUME MachineInv, timer_returns
  PROVE  MachineInv'
<1>1. CanInterrupt(0) /\ TimerResult(irq_handler(timers))
  BY DEF timer_returns
<1>2. ServiceOK'
  BY <1>1, TimerServed
<1>3. UNCHANGED <<cpu, ctx, live, iomap, tss_iomap, hit>>
  BY <1>1 DEF timer_returns, TimerResult
<1> QED
  BY <1>2, <1>3 DEF MachineInv, StateOK, ModesOK, ModeOK, InUserMode, Built

LEMMA TimerSwitchesStep ==
  ASSUME MachineInv, NEW t \in live, timer_switches(t)
  PROVE  MachineInv'
<1>1. CanInterrupt(0) /\ TimerResult(irq_handler(timers))
  BY DEF timer_switches
<1>2. ServiceOK'
  BY <1>1, TimerServed
<1>3. /\ ctx' = Saved /\ task_switch(t, Saved) /\ live' = live /\ iomap' = iomap
      /\ hit' = (hit \/ (cpu.ring = 0 /\ cpu.pc \in Window))
  BY <1>1 DEF timer_switches, TimerResult
<1>4. ASSUME ~hit'
      PROVE  ModesOK'
  <2>1. ModesOK
    BY <1>3, <1>4 DEF MachineInv
  <2>2. cpu.pc \in Window => cpu.ring = 0
    BY <2>1, UserOutsideWindow DEF ModesOK, ModeOK
  <2>3. cpu.pc \notin Window
    BY <1>3, <1>4, <2>2
  <2> QED
    BY <1>3, <2>1, <2>3, SwitchKeeps
<1>5. hit' \in BOOLEAN
  BY <1>3
<1> QED
  BY <1>2, <1>3, <1>4, <1>5, SwitchKeeps DEF MachineInv
LEMMA TimerTableStep ==
  ASSUME MachineInv,
         \/ \E period \in Periods, recurring \in BOOLEAN : schedule(period, recurring)
         \/ \E id \in 1 .. timers.next_id - 1 : unschedule(id)
  PROVE  MachineInv'
<1>1. UNCHANGED <<cpu, ctx, live, iomap, tss_iomap, in_service, hit>>
  BY DEF schedule, unschedule
<1> QED
  BY <1>1 DEF MachineInv, StateOK, ServiceOK, ModesOK, ModeOK, InUserMode, Built

LEMMA StartInitStep ==
  ASSUME MachineInv, start_init
  PROVE  MachineInv'
<1> DEFINE c == [save_task_state(cpu) EXCEPT !.pc = LoadElf]
<1>1. /\ StateOK /\ cpu.task = "kernel_task" /\ cpu.pc = "start"
      /\ live' = live \cup {"init"} /\ ctx' = [Saved EXCEPT !["init"] = c]
      /\ iomap' = [iomap EXCEPT !["init"] = {DEBUG_PORT}]
      /\ cpu' = [cpu EXCEPT !.pc = "dispatch"]
      /\ UNCHANGED <<tss_iomap, in_service, hit>>
  BY DEF start_init, MachineInv
<1>2. "init" \in Tasks
  BY DEF Tasks
<1>3. c \in Contexts /\ c.pc = LoadElf /\ c.ring = cpu.ring
  BY <1>1, SavedFacts DEF Contexts, Pcs, save_task_state, Context
<1>4. /\ cpu' \in Registers /\ cpu'.task = cpu.task /\ cpu'.ring = cpu.ring
      /\ cpu'.pc = "dispatch"
  BY <1>1 DEF StateOK, Registers, Pcs
<1>5. StateOK'
  BY <1>1, <1>2, <1>3, <1>4, SavedFacts, MachineAssumption DEF StateOK
<1>6. tss_iomap' = iomap'[cpu'.task]
  BY <1>1, <1>4 DEF MachineInv, StateOK
<1>7. ASSUME ~hit'
      PROVE  ModesOK'
  <2>1. ModesOK
    BY <1>1, <1>7 DEF MachineInv
  <2>2. cpu.ring = 0
    BY <1>1, <2>1 DEF ModesOK, ModeOK, User
  <2>3. ModeOK(cpu')
    BY <1>4, <2>2 DEF ModeOK, User
  <2>4. ModeOK(c) /\ c.pc \notin Window
    BY <1>3, <2>2, Steps DEF ModeOK, User, LoadElf
  <2>5. \A t \in Tasks \ {cpu.task} : ctx'[t] = IF t = "init" THEN c ELSE ctx[t]
    BY <1>1, <1>2, SavedFacts
  <2>6. \A t \in Tasks \ {cpu'.task} : ModeOK(ctx'[t]) /\ ctx'[t].pc \notin Window
    BY <1>4, <2>1, <2>4, <2>5 DEF ModesOK
  <2>7. cpu'.task # "init"
    BY <1>1, <1>4
  <2> QED
    BY <2>3, <2>6, <2>7 DEF ModesOK, ModeOK, InUserMode
<1> QED
  BY <1>1, <1>5, <1>6, <1>7 DEF MachineInv, ServiceOK

LEMMA LoadElfStep ==
  ASSUME MachineInv, load_elf
  PROVE  MachineInv'
<1>1. /\ StateOK /\ cpu.ring = 0 /\ cpu' = [cpu EXCEPT !.pc = "cs"]
      /\ UNCHANGED <<ctx, live, iomap, tss_iomap, in_service, hit>>
  BY Steps DEF load_elf, Running, MachineInv
<1>2. /\ cpu' \in Registers /\ cpu'.task = cpu.task /\ cpu'.ring = 0 /\ cpu'.pc = "cs"
  BY <1>1 DEF StateOK, Registers, Pcs
<1>3. Built("cs", ctx["init"])
  BY Steps DEF Built
<1>4. ModeOK(cpu')
  BY <1>2 DEF ModeOK, User
<1>5. ModesOK => ModesOK'
  BY <1>1, <1>2, <1>3, <1>4 DEF ModesOK, ModeOK, InUserMode, Built
<1> QED
  BY <1>1, <1>2, <1>5 DEF MachineInv, StateOK, ServiceOK

(* Each assignment adds what the next step relies on. *)
LEMMA BuildStep ==
  ASSUME NEW c \in Contexts, NEW step, NEW next,
         \/ step = "cs" /\ next = "ds"
         \/ step = "ds" /\ next = "stack"
         \/ step = "stack" /\ next = "esp"
         \/ step = "esp" /\ next = "eflags"
         \/ step = "eflags" /\ next = "eip"
         \/ step = "eip" /\ next = "switch"
  PROVE  Assign(c, step) \in Contexts /\ (Built(step, c) => Built(next, Assign(c, step)))
<1> USE Steps DEF Contexts, Rings, Stacks, Pcs, Built, User
<1>1. CASE step = "cs" /\ next = "ds"
  <2>1. Assign(c, step) = [c EXCEPT !.ring = 3]
    BY <1>1 DEF Assign
  <2>2. Assign(c, step) \in Contexts /\ Assign(c, step).ring = 3
    BY <2>1
  <2>3. Built(next, Assign(c, step))
    BY <1>1, <2>2
  <2> QED
    BY <2>2, <2>3
<1>2. CASE step = "ds" /\ next = "stack"
  <2>1. Assign(c, step) = [c EXCEPT !.ds = 3]
    BY <1>2 DEF Assign
  <2> QED
    BY <1>2, <2>1
<1>3. CASE step = "stack" /\ next = "esp"
  <2>1. Assign(c, step) = c
    BY <1>3 DEF Assign
  <2> QED
    BY <1>3, <2>1
<1>4. CASE step = "esp" /\ next = "eflags"
  <2>1. Assign(c, step) = [c EXCEPT !.stack = "user"]
    BY <1>4 DEF Assign
  <2> QED
    BY <1>4, <2>1
<1>5. CASE step = "eflags" /\ next = "eip"
  <2>1. Assign(c, step) = [c EXCEPT !.intr = TRUE]
    BY <1>5 DEF Assign
  <2> QED
    BY <1>5, <2>1
<1>6. CASE step = "eip" /\ next = "switch"
  <2>1. Assign(c, step) = [c EXCEPT !.pc = User]
    BY <1>6 DEF Assign
  <2> QED
    BY <1>6, <2>1
<1> QED
  BY <1>1, <1>2, <1>3, <1>4, <1>5, <1>6

(* Each assignment adds to what Built says; the program counter that it     *)
(* moves to is still one of ring 0.                                         *)
LEMMA JumpStep ==
  ASSUME MachineInv, NEW i \in 1 .. Len(StartSteps), jump_to_usermode(i)
  PROVE  MachineInv'
<1> DEFINE c == Assign(ctx["init"], StartSteps[i])
           pc == StartSteps[i + 1]
<1>1. i \in {1, 2, 3, 4, 5, 6}
  BY Steps DEF jump_to_usermode
<1>2. /\ StateOK /\ cpu.task = "init" /\ cpu.ring = 0 /\ cpu.pc = StartSteps[i]
      /\ ctx' = [ctx EXCEPT !["init"] = c] /\ cpu' = [cpu EXCEPT !.pc = pc]
      /\ UNCHANGED <<live, iomap, tss_iomap, in_service, hit>>
  BY DEF jump_to_usermode, Running, MachineInv
<1>3. ctx["init"] \in Contexts /\ "init" \in Tasks
  BY <1>2 DEF StateOK, Tasks
<1>4. c \in Contexts /\ (Built(StartSteps[i], ctx["init"]) => Built(pc, c))
  <2>1. \/ StartSteps[i] = "cs" /\ pc = "ds"
        \/ StartSteps[i] = "ds" /\ pc = "stack"
        \/ StartSteps[i] = "stack" /\ pc = "esp"
        \/ StartSteps[i] = "esp" /\ pc = "eflags"
        \/ StartSteps[i] = "eflags" /\ pc = "eip"
        \/ StartSteps[i] = "eip" /\ pc = "switch"
    BY <1>1, Steps
  <2> QED
    BY <1>3, <2>1, BuildStep
<1>5. pc \in Pcs \ {User}
  BY <1>1, Steps DEF Pcs, User
<1>6. /\ cpu' \in Registers /\ cpu'.task = "init" /\ cpu'.ring = 0 /\ cpu'.pc = pc
  BY <1>2, <1>5 DEF StateOK, Registers
<1>7. ctx' \in [Tasks -> Contexts] /\ ctx'["init"] = c
      /\ \A t \in Tasks \ {"init"} : ctx'[t] = ctx[t]
  BY <1>2, <1>3, <1>4 DEF StateOK
<1>8. ModeOK(cpu')
  BY <1>5, <1>6 DEF ModeOK
<1>9. ASSUME ModesOK
      PROVE  ModesOK'
  <2>1. Built(cpu'.pc, ctx'["init"])
    BY <1>2, <1>4, <1>6, <1>7, <1>9 DEF ModesOK
  <2>2. \A t \in Tasks \ {cpu'.task} : ModeOK(ctx'[t]) /\ ctx'[t].pc \notin Window
    BY <1>2, <1>6, <1>7, <1>9 DEF ModesOK
  <2> QED
    BY <1>8, <2>1, <2>2 DEF ModesOK, ModeOK, InUserMode, Built
<1> QED
  BY <1>2, <1>6, <1>7, <1>9 DEF MachineInv, StateOK, ServiceOK

(* At the last step the context is a complete one of user code. *)
LEMMA JumpSwitchStep ==
  ASSUME MachineInv, jump_to_usermode_switch
  PROVE  MachineInv'
<1>1. /\ StateOK /\ cpu.task = "init" /\ cpu.pc = "switch"
      /\ cpu' = switch_context("init", ctx["init"])
      /\ UNCHANGED <<ctx, live, iomap, tss_iomap, in_service, hit>>
  BY DEF jump_to_usermode_switch, Running, MachineInv
<1>2. ctx["init"] \in Contexts /\ "init" \in Tasks
  BY <1>1 DEF StateOK
<1>3. /\ cpu' \in Registers /\ cpu'.task = "init" /\ cpu'.pc = ctx["init"].pc
      /\ InUserMode(ctx["init"]) => InUserMode(cpu')
  BY <1>1, <1>2 DEF switch_context, Contexts, Registers, InUserMode
<1>4. ASSUME ModesOK
      PROVE  ModesOK'
  <2>1. InUserMode(ctx["init"]) /\ ctx["init"].pc = User
    BY <1>1, <1>2, <1>4, Steps DEF ModesOK, Built, InUserMode, Contexts
  <2>2. ModeOK(cpu') /\ cpu'.pc = User
    BY <1>3, <2>1 DEF ModeOK
  <2>3. Built(cpu'.pc, ctx'["init"])
    BY <2>2, Steps DEF Built, User
  <2>4. \A t \in Tasks \ {cpu'.task} : ModeOK(ctx'[t]) /\ ctx'[t].pc \notin Window
    BY <1>1, <1>3, <1>4 DEF ModesOK
  <2> QED
    BY <2>2, <2>3, <2>4 DEF ModesOK, ModeOK, InUserMode, Built
<1> QED
  BY <1>1, <1>3, <1>4 DEF MachineInv, StateOK, ServiceOK
LEMMA ForkStep ==
  ASSUME MachineInv, NEW child \in Children, syscall_fork(child)
  PROVE  MachineInv'
<1> DEFINE c == save_task_state(cpu)
<1>1. /\ StateOK /\ cpu.pc = User /\ child \in Tasks \ {cpu.task}
      /\ live' = live \cup {child} /\ ctx' = [Saved EXCEPT ![child] = c]
      /\ iomap' = [iomap EXCEPT ![child] = {DEBUG_PORT}]
      /\ UNCHANGED <<cpu, tss_iomap, in_service, hit>>
  BY DEF syscall_fork, Calling, MachineInv, StateOK, Tasks
<1>2. StateOK'
  BY <1>1, SavedFacts, MachineAssumption DEF StateOK
<1>3. tss_iomap' = iomap'[cpu'.task]
  BY <1>1 DEF MachineInv, StateOK
<1>4. ASSUME ModesOK
      PROVE  ModesOK'
  <2>1. ModeOK(c) /\ c.pc \notin Window
    BY <1>1, <1>4, SavedFacts, UserOutsideWindow DEF ModesOK
  <2>2. \A t \in Tasks \ {cpu.task} : ctx'[t] = IF t = child THEN c ELSE ctx[t]
    BY <1>1, SavedFacts
  <2>3. \A t \in Tasks \ {cpu'.task} : ModeOK(ctx'[t]) /\ ctx'[t].pc \notin Window
    BY <1>1, <1>4, <2>1, <2>2 DEF ModesOK
  <2>4. Built(cpu'.pc, ctx'["init"])
    BY <1>1, Steps DEF Built, User
  <2>5. ModeOK(cpu')
    BY <1>1, <1>4 DEF ModesOK
  <2> QED
    BY <2>3, <2>4, <2>5 DEF ModesOK, ModeOK, InUserMode, Built
<1> QED
  BY <1>1, <1>2, <1>3, <1>4 DEF MachineInv, ServiceOK

(* The calls that save the context and go on in the calling task. *)
LEMMA CallReturns ==
  ASSUME MachineInv, Calling, ctx' = Saved, cpu' \in Registers,
         cpu'.task = cpu.task, cpu'.pc = User, ModeOK(cpu) => ModeOK(cpu'),
         UNCHANGED <<live, in_service, hit>>, iomap' \in [Tasks -> SUBSET Ports],
         tss_iomap' = iomap'[cpu.task]
  PROVE  MachineInv'
<1>1. StateOK /\ StateOK'
  BY SavedFacts DEF MachineInv, StateOK
<1>2. ASSUME ModesOK
      PROVE  ModesOK'
  <2>1. \A t \in Tasks \ {cpu'.task} : ModeOK(ctx'[t]) /\ ctx'[t].pc \notin Window
    BY <1>1, <1>2, SavedFacts DEF ModesOK
  <2>2. Built(cpu'.pc, ctx'["init"])
    BY Steps DEF Built, User
  <2>3. ModeOK(cpu')
    BY <1>2 DEF ModesOK
  <2> QED
    BY <2>1, <2>2, <2>3 DEF ModesOK, ModeOK, InUserMode, Built
<1> QED
  BY <1>1, <1>2 DEF MachineInv, ServiceOK

LEMMA ExecStep ==
  ASSUME MachineInv, syscall_exec
  PROVE  MachineInv'
<1>1. /\ StateOK /\ Calling /\ ctx' = Saved
      /\ cpu' = [cpu EXCEPT !.stack = IF cpu.ring = 3 THEN "user" ELSE @,
                            !.intr = TRUE, !.pc = User]
      /\ UNCHANGED <<live, iomap, tss_iomap, in_service, hit>>
  BY DEF syscall_exec, MachineInv
<1>2. /\ cpu' \in Registers /\ cpu'.task = cpu.task /\ cpu'.pc = User
      /\ cpu'.ring = cpu.ring /\ cpu'.ds = cpu.ds /\ cpu'.intr
      /\ cpu.ring = 3 => cpu'.stack = "user"
  BY <1>1 DEF StateOK, Registers, Stacks, Pcs, User
<1>3. ModeOK(cpu) => ModeOK(cpu')
  BY <1>1, <1>2 DEF ModeOK, InUserMode, Calling
<1> QED
  BY <1>1, <1>2, <1>3, CallReturns DEF MachineInv, StateOK

LEMMA PortOpenStep ==
  ASSUME MachineInv, NEW port \in Ports, syscall_hwportopen(port)
  PROVE  MachineInv'
<1>1. /\ Calling /\ ctx' = Saved /\ iomap' = [iomap EXCEPT ![cpu.task] = @ \cup {port}]
      /\ tss_iomap' = iomap'[cpu.task] /\ UNCHANGED <<cpu, live, in_service, hit>>
  BY DEF syscall_hwportopen
<1>2. iomap' \in [Tasks -> SUBSET Ports]
  BY <1>1 DEF MachineInv, StateOK
<1>3. cpu' \in Registers /\ cpu'.task = cpu.task /\ cpu'.pc = User
  BY <1>1 DEF MachineInv, StateOK, Calling
<1>4. ModeOK(cpu) => ModeOK(cpu')
  BY <1>1
<1> QED
  BY <1>1, <1>2, <1>3, <1>4, CallReturns

LEMMA YieldStep ==
  ASSUME MachineInv, NEW t \in live, syscall_yield(t)
  PROVE  MachineInv'
<1>1. /\ cpu.pc = User /\ ctx' = Saved /\ task_switch(t, Saved)
      /\ UNCHANGED <<live, iomap, in_service, hit>>
  BY DEF syscall_yield, Calling
<1>2. cpu.pc \notin Window
  BY <1>1, UserOutsideWindow
<1> QED
  BY <1>1, <1>2, SwitchKeeps DEF MachineInv, ServiceOK

----------------------------------------------------------------------------
(* The theorems. *)

(* MachineInv holds in every state the machine reaches. *)
THEOREM MachineInvariance == Spec => []MachineInv
<1>1. ASSUME Init
      PROVE  MachineInv
  <2>1. StateOK
    BY <1>1, MachineAssumption
    DEF Init, StateOK, switch_context, KernelContext, Context, Registers, Contexts,
        Rings, Stacks, Pcs, Tasks
  <2>2. ServiceOK
    BY <1>1 DEF Init, ServiceOK
  <2>3. ModesOK
    BY <1>1, Steps
    DEF Init, ModesOK, ModeOK, switch_context, KernelContext, Context, User
  <2>4. tss_iomap = iomap[cpu.task]
    BY <1>1 DEF Init, switch_context, KernelContext, Context, Tasks
  <2> QED
    BY <1>1, <2>1, <2>2, <2>3, <2>4 DEF Init, MachineInv
<1>2. ASSUME MachineInv, [Next]_vars
      PROVE  MachineInv'
  <2>1. CASE UNCHANGED vars
    BY <1>2, <2>1
    DEF vars, MachineInv, StateOK, ServiceOK, ModesOK, ModeOK, InUserMode, Built
  <2>2. CASE Next
    BY <1>2, <2>2, IrqStep, TimerReturnsStep, TimerSwitchesStep, TimerTableStep,
       StartInitStep, LoadElfStep, JumpStep, JumpSwitchStep, ForkStep, ExecStep,
       YieldStep, PortOpenStep
    DEF Next
  <2> QED
    BY <1>2, <2>1, <2>2
<1> QED
  BY <1>1, <1>2, PTL DEF Spec

(* User code runs, and is resumed, in ring 3 on its own stack with its own  *)
(* ports (scheduler.c task_switch, save_task_state, jump_to_usermode),      *)
(* unless the timer switched away from init inside jump_to_usermode.        *)
THEOREM UserCodeIsConfined == Spec => []UserCodeConfined
<1>1. ASSUME MachineInv
      PROVE  UserCodeConfined
  BY <1>1 DEF MachineInv, StateOK, ModesOK, ModeOK, UserCodeConfined
<1> QED
  BY <1>1, MachineInvariance, PTL

(* Every handler leaves its request ended and interrupts enabled (pic.c     *)
(* irq_stub), but for request 8 on the second controller (pic.c:79).        *)
THEOREM InterruptsAreAcknowledged == Spec => []InterruptsAcknowledged
<1>1. ASSUME MachineInv
      PROVE  InterruptsAcknowledged
  BY <1>1 DEF MachineInv, StateOK, ServiceOK, Registers, InterruptsAcknowledged
<1> QED
  BY <1>1, MachineInvariance, PTL
=============================================================================
