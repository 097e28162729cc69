------------------------------ MODULE Services ------------------------------
(***************************************************************************)
(* The system as its programs see it: the kernel task, the logger, the     *)
(* block driver, the file server and the programs that use them, each a    *)
(* task that calls the others through the stubs rpcgen writes.  Messages   *)
(* travel over ports as Channel describes them; what Channel leaves open,  *)
(* when a send returns, is modelled here as ipc.c does it: a sender sleeps *)
(* until anything wakes it, the receiver of its message or a message that  *)
(* arrives on one of its own ports.                                        *)
(*                                                                         *)
(* A task is in one step at a time; `next' is the step that follows the    *)
(* remote call it is in.  A sector of the disk stands for its contents.    *)
(***************************************************************************)
EXTENDS Integers, Sequences, FiniteSets, SequencesExt, FiniteSetsExt, Functions

CONSTANTS
  Clients,     \* programs that read a file, "init" among them
  Names,       \* the file names they open
  FileSectors, \* length of the file, in sectors
  ClusterSize, \* sectors per cluster
  Widths,      \* the lengths they read, in sectors
  SectorLimit, \* sectors one disk_read, and one reply, may carry (7 in the code)
  MaxFaults    \* bound on the things that go wrong

ASSUME ServicesAssumption ==
  /\ "init" \in Clients /\ "/init.c" \in Names
  /\ FileSectors \in Nat \ {0} /\ ClusterSize \in Nat \ {0}
  /\ Widths \subseteq Nat \ {0} /\ SectorLimit \in Nat \ {0} /\ MaxFaults \in Nat

VARIABLES
  alive,   \* tasks created and not exited
  opened,  \* ports that were opened
  net,     \* queue: the messages in every port, oldest first;
           \* woken: tasks asleep in msgsend that something woke
  step,    \* per task: what it does next
  next,    \* per task: the step after the remote call it is in
  call,    \* per task: the call it makes
  val,     \* per task: the result of its last call
  req,     \* the request the file server serves
  job,     \* the read it is in the middle of
  procs,   \* its proc_infos: open files per task
  win,     \* the sector in the FAT driver's window
  file,    \* per client: what it knows of its file
  failed,  \* history: the sectors that could not be read
  causes,  \* history: what else happened that the servers do not survive
  status   \* "up", "rebooted", or "panic" for a failed kernel assertion

callVars == <<step, next, call, net>>
vfsVars  == <<req, job, procs, win>>
history  == <<failed, causes>>
vars == <<alive, opened, callVars, val, vfsVars, file, history, status>>

Servers == {"kernel", "logger", "blk", "vfs"}
Tasks == Servers \cup Clients
Port(t) == <<t, "port">>      \* the well-known port of a server
AckPort(t) == <<t, "ack">>    \* pcb.ack_port
Ports == {Port(t) : t \in Servers} \cup {AckPort(t) : t \in Tasks}

\* The sectors of the file are 1, 2 ...; the others of the volume are these.
Boot == -1
Dir == -2
Fat == -3
None == -4  \* no sector
Junk == 0   \* what a buffer held before

Result(ret, data) == [ret |-> ret, data |-> data]
OK == Result(0, << >>)
Fail == Result(-1, << >>)
\* Not yet at the bound on what goes wrong.
MayFail == Cardinality(failed) + Cardinality(causes) < MaxFaults
NoJob == [fd |-> 0, left |-> 0, got |-> << >>]

----------------------------------------------------------------------------
(* Messages. *)

Call(server, code, arg) == [server |-> server, code |-> code, arg |-> arg]
NoCall == Call("kernel", "none", 0)
Message(t, c) == [from |-> t, code |-> c.code, arg |-> c.arg, about |-> c]
NoRequest == Message("kernel", NoCall)

\* oneway functions have no result
OneWay(c) == c.code \in {"trace", "reboot"}
TwoWay(c) == c # NoCall /\ ~OneWay(c)

\* task_wake concerns tasks that sleep
Wake(t) == {u \in {t} : step[u] = "sent"}

(* Faulty: the sender goes on at once. *)
msgsend_async(n, t, p, m) ==
  [queue |-> [n.queue EXCEPT ![p] = Append(@, m)],
   woken |-> n.woken \cup Wake(p[1]) \cup {t}]

(* What syscall_msgsend_handler does to the ports of n: the receiver is    *)
(* woken, whatever it sleeps for, and the sender is put to sleep.          *)
msgsend(n, t, p, m) ==
  [queue |-> [n.queue EXCEPT ![p] = Append(@, m)],
   woken |-> (n.woken \ {t}) \cup (Wake(p[1]) \ {t})]

(* Faulty: the sender sleeps on. *)
msgrecv_silent(n, p) == [n EXCEPT !.queue[p] = Tail(@)]

(* What syscall_msgrecv_handler does: the sender is woken. *)
msgrecv(n, p) ==
  [queue |-> [n.queue EXCEPT ![p] = Tail(@)],
   woken |-> n.woken \cup Wake(Head(n.queue[p]).from)]

\* task_wake asserts that the task exists.
Received(p) == status' = IF Head(net.queue[p]).from \in alive THEN status ELSE "panic"

(* A stub begins, with the ports as in n: the message is sent, unless the  *)
(* port is not open yet; the caller goes on with s when the call is over.  *)
Calls(t, server, code, arg, s, n) ==
  LET c == Call(server, code, arg)
      open == Port(server) \in opened
  IN  /\ call' = [call EXCEPT ![t] = c]
      /\ next' = [next EXCEPT ![t] = s]
      /\ step' = [step EXCEPT ![t] = IF open THEN "sent" ELSE "send"]
      /\ net' = IF open THEN msgsend(n, t, Port(server), Message(t, c)) ELSE n

Goes(t, s, n) ==
  step' = [step EXCEPT ![t] = s] /\ net' = n /\ UNCHANGED <<call, next>>

trace(t, s, n) == Calls(t, "logger", "trace", 0, s, n)

\* panic: __log, then abort, which asks the kernel to reboot
panic(t, n) == trace(t, "abort", n)

(* The port a sender waits for is open now. *)
port_is_open(t) ==
  /\ step[t] = "send" /\ Port(call[t].server) \in opened
  /\ Goes(t, "sent", msgsend(net, t, Port(call[t].server), Message(t, call[t])))
  /\ UNCHANGED <<alive, opened, val, vfsVars, file, history, status>>

\* The call is over.
Over(t, n) ==
  /\ step' = [step EXCEPT ![t] = next[t]]
  /\ call' = [call EXCEPT ![t] = NoCall]
  /\ next' = [next EXCEPT ![t] = "dispatch"]
  /\ net' = [n EXCEPT !.woken = @ \ {t}]

(* The sender is awake again: a server that has replied takes the next     *)
(* request, and a oneway call is over.                                     *)
msgsend_returns(t) ==
  /\ step[t] = "sent" /\ t \in net.woken /\ ~TwoWay(call[t])
  /\ Over(t, net)
  /\ UNCHANGED <<alive, opened, val, vfsVars, file, history, status>>

(* The sender is awake again and its call has a result: the stub takes     *)
(* whatever arrives on the ack port first.                                 *)
receive_result(t) ==
  /\ step[t] = "sent" /\ t \in net.woken /\ TwoWay(call[t])
  /\ net.queue[AckPort(t)] # << >>
  /\ Received(AckPort(t))
  /\ val' = [val EXCEPT ![t] = Head(net.queue[AckPort(t)]).arg]
  /\ Over(t, msgrecv(net, AckPort(t)))
  /\ UNCHANGED <<alive, opened, vfsVars, file, history>>

\* rpc_dispatch receives a request of the given kind.
request(t) == Head(net.queue[Port(t)])
Dispatches(t, code) ==
  /\ step[t] = "dispatch"
  /\ net.queue[Port(t)] # << >> /\ request(t).code = code
  /\ Received(Port(t))
Taken(t) == msgrecv(net, Port(t))

Reply(t, m, v) == [from |-> t, code |-> "null", arg |-> v, about |-> m.about]

(* rpc_dispatch sends the result of request m to its reply port. *)
rpc_reply(t, m, v, n) == msgsend(n, t, AckPort(m.from), Reply(t, m, v))

(* A handler that calls nobody: request and reply in one step. *)
Answers(t, v) == Goes(t, "sent", rpc_reply(t, request(t), v, Taken(t)))

----------------------------------------------------------------------------
(* The kernel task. *)

handle_kernel_get_task_info ==
  /\ Dispatches("kernel", "get_task_info")
  /\ Answers("kernel", IF request("kernel").arg \in alive THEN OK ELSE Fail)
  /\ UNCHANGED <<alive, opened, val, vfsVars, file, history>>

handle_kernel_reboot ==
  /\ step["kernel"] = "dispatch"
  /\ net.queue[Port("kernel")] # << >> /\ request("kernel").code = "reboot"
  /\ status' = "rebooted"
  /\ UNCHANGED <<alive, opened, callVars, val, vfsVars, file, history>>

----------------------------------------------------------------------------
(* The logger asks the kernel who the sender is; oneway, so no reply. *)

logger_main ==
  /\ step["logger"] = "start"
  /\ opened' = opened \cup {Port("logger")}
  /\ Goes("logger", "dispatch", net)
  /\ UNCHANGED <<alive, val, vfsVars, file, history, status>>

handle_logger_trace ==
  /\ Dispatches("logger", "trace")
  /\ Calls("logger", "kernel", "get_task_info", request("logger").from, "dispatch",
           Taken("logger"))
  /\ UNCHANGED <<alive, opened, val, vfsVars, file, history>>

----------------------------------------------------------------------------
(* The block driver. *)

(* No port is refused: syscall_hwportopen_handler always returns 0. *)
openports ==
  step["blk"] = "openports" /\ trace("blk", "identify", net) /\ UNCHANGED <<opened, causes>>

(* A drive is detected, or the driver panics. *)
identify ==
  /\ step["blk"] = "identify"
  /\ \/ trace("blk", "dispatch", net) /\ UNCHANGED causes
     \/ MayFail /\ panic("blk", net) /\ causes' = causes \cup {"no drive"}
  /\ UNCHANGED opened

blk_main ==
  /\ \/ /\ step["blk"] = "start"
        /\ opened' = opened \cup {Port("blk")}
        /\ trace("blk", "openports", net)
        /\ UNCHANGED causes
     \/ openports
     \/ identify
  /\ UNCHANGED <<alive, val, vfsVars, file, failed, status>>

handle_blkimpl_read_sector ==
  /\ Dispatches("blk", "read_sector")
  /\ \/ Answers("blk", OK) /\ UNCHANGED failed
     \/ /\ MayFail
        /\ Answers("blk", Fail)
        /\ failed' = failed \cup {request("blk").arg}
  /\ UNCHANGED <<alive, opened, val, vfsVars, file, causes>>

----------------------------------------------------------------------------
(* The file server: one that calls the driver answers in a later step. *)

\* The marshaller asserts that the blob fits into what is left of the
\* 4096 bytes of snd_buf.
Fits(v) == Len(v.data) <= SectorLimit

Replies(v) ==
  IF Fits(v)
    THEN /\ Goes("vfs", "sent", rpc_reply("vfs", req, v, net))
         /\ req' = NoRequest
    ELSE panic("vfs", net) /\ UNCHANGED req

vfs_main ==
  /\ \/ step["vfs"] = "start" /\ trace("vfs", "port_open", net) /\ UNCHANGED <<opened, win>>
     \/ /\ step["vfs"] = "port_open"
        /\ opened' = opened \cup {Port("vfs")}
        /\ Calls("vfs", "blk", "read_sector", Boot, "mounted", net)
        /\ UNCHANGED win
     \/ /\ step["vfs"] = "mounted"
        /\ IF val["vfs"] = OK THEN Goes("vfs", "dispatch", net) /\ win' = Boot
                              ELSE panic("vfs", net) /\ UNCHANGED win
        /\ UNCHANGED opened
  /\ UNCHANGED <<alive, val, req, job, procs, file, history, status>>

\* The window is loaded with sector s, then the server goes on with t.
move_window(s, t, n) ==
  IF win = s
    THEN Goes("vfs", t, n) /\ val' = [val EXCEPT !["vfs"] = OK]
    ELSE Calls("vfs", "blk", "read_sector", s, t, n) /\ UNCHANGED val

NewProc == [known |-> TRUE, next_fd |-> 0, pos |-> << >>]

(* Faulty: proc_infos is searched without comparing pids, so that every    *)
(* task shares the descriptors of the first.                               *)
procinfo_shared(t) ==
  IF \E c \in Clients : procs[c].known THEN CHOOSE c \in Clients : procs[c].known ELSE t

(* The entry of proc_infos that belongs to a task. *)
procinfo_get(t) == t

handle_vfs_open ==
  /\ Dispatches("vfs", "open")
  /\ req' = request("vfs")
  /\ LET p == procinfo_get(request("vfs").from)
     IN  procs' = [procs EXCEPT ![p] = IF @.known THEN @ ELSE NewProc]
  /\ IF request("vfs").arg.mode = "O_RDONLY"
        THEN move_window(Dir, "open_fn", Taken("vfs"))
        ELSE /\ Calls("vfs", "kernel", "get_task_info", request("vfs").from, "bad_mode",
                      Taken("vfs"))
             /\ UNCHANGED val
  /\ UNCHANGED <<alive, opened, job, win, file, history>>

(* Another mode is traced, with the name of the sender, and then fails the *)
(* assertion of open_fn.                                                   *)
open_bad_mode ==
  /\ \/ /\ step["vfs"] = "bad_mode"
        /\ IF val["vfs"] = OK THEN trace("vfs", "mode_assert", net) ELSE panic("vfs", net)
     \/ step["vfs"] = "mode_assert" /\ panic("vfs", net)
  /\ UNCHANGED <<alive, opened, val, vfsVars, file, history, status>>

(* f_open has searched the directory.                                      *)
open_fn ==
  LET p  == procinfo_get(req.from)
      fd == procs[p].next_fd
      found == val["vfs"] = OK /\ req.arg.name = "/init.c"
  IN  /\ step["vfs"] = "open_fn"
      /\ win' = IF val["vfs"] = OK THEN Dir ELSE None
      /\ procs' = IF found
                     THEN [procs EXCEPT ![p].next_fd = fd + 1,
                                        ![p].pos = (fd :> 0) @@ @]
                     ELSE procs
      /\ Replies(IF found THEN Result(fd, << >>) ELSE Fail)
      /\ UNCHANGED <<alive, opened, val, job, file, history, status>>

(* A task the server does not know fails an assertion; a descriptor it     *)
(* does not know makes read_fn return -1, and the size of -1 bytes that    *)
(* handle_vfs_read then reports fails the assertion of the marshaller.     *)
handle_vfs_read ==
  LET r == request("vfs")
      p == procinfo_get(r.from)
  IN  /\ Dispatches("vfs", "read")
      /\ req' = request("vfs")
      /\ IF procs[p].known /\ r.arg.fd \in DOMAIN procs[p].pos
            THEN /\ job' = [fd |-> r.arg.fd, got |-> << >>,
                            left |-> Min({r.arg.size, FileSectors - procs[p].pos[r.arg.fd]})]
                 /\ Goes("vfs", "f_read", Taken("vfs"))
            ELSE panic("vfs", Taken("vfs")) /\ UNCHANGED job
      /\ UNCHANGED <<alive, opened, val, procs, win, file, history>>

Position == procs[procinfo_get(req.from)].pos[job.fd]

\* The sectors one disk_read is asked for: what is left of the cluster.
Run == Min({job.left, ClusterSize - (Position % ClusterSize)})

(* disk_read refuses more than SectorLimit sectors, an error which         *)
(* vfs.c:266 turns into a failed assertion; otherwise it asks the driver   *)
(* for one sector, whatever the count is.                                  *)
disk_read_asks ==
  IF Run > SectorLimit
    THEN panic("vfs", net)
    ELSE Calls("vfs", "blk", "read_sector", Position + 1, "disk_read", net)

(* The loop of f_read: the next cluster is looked up in the FAT, then      *)
(* whole sectors go from the disk to the caller's buffer.                  *)
f_read ==
  /\ step["vfs"] = "f_read" /\ job.left > 0
  /\ IF Position > 0 /\ Position % ClusterSize = 0 /\ win # Fat
       THEN Calls("vfs", "blk", "read_sector", Fat, "get_fat", net)
       ELSE disk_read_asks
  /\ UNCHANGED <<alive, opened, val, vfsVars, file, history, status>>

get_fat ==
  /\ step["vfs"] = "get_fat"
  /\ IF val["vfs"] = OK THEN Goes("vfs", "f_read", net) /\ win' = Fat
                        ELSE panic("vfs", net) /\ win' = None
  /\ UNCHANGED <<alive, opened, val, req, procs, job, file, history, status>>

(* The driver has answered, and disk_read reports success for all sectors. *)
disk_read ==
  /\ step["vfs"] = "disk_read"
  /\ IF val["vfs"] = OK
       THEN /\ job' = [job EXCEPT !.left = @ - Run,
                                  !.got = @ \o [i \in 1 .. Run |-> IF i = 1 THEN Position + 1
                                                                          ELSE Junk]]
            /\ procs' = [procs EXCEPT ![procinfo_get(req.from)].pos[job.fd] = @ + Run]
            /\ Goes("vfs", "f_read", net)
       ELSE panic("vfs", net) /\ UNCHANGED <<job, procs>>
  /\ UNCHANGED <<alive, opened, val, req, win, file, history, status>>

read_fn ==
  /\ step["vfs"] = "f_read" /\ job.left = 0
  /\ Replies(Result(Len(job.got), job.got))
  /\ job' = NoJob
  /\ UNCHANGED <<alive, opened, val, procs, win, file, history, status>>

handle_vfs_close ==
  LET r == request("vfs")
      p == procinfo_get(r.from)
  IN  /\ Dispatches("vfs", "close")
      /\ IF procs[p].known /\ r.arg.fd \in DOMAIN procs[p].pos
            THEN /\ procs' = [procs EXCEPT ![p].pos = RestrictDomain(@, LAMBDA d : d # r.arg.fd)]
                 /\ Answers("vfs", OK)
            ELSE panic("vfs", Taken("vfs")) /\ UNCHANGED procs
      /\ UNCHANGED <<alive, opened, val, req, win, job, file, history>>

----------------------------------------------------------------------------
(* Programs: init starts the servers and then reads a file, as any other   *)
(* program may once init has started it.                                   *)

Child == [fork_logger |-> "logger", fork_blk |-> "blk", fork_vfs |-> "vfs"]
AfterFork == [fork_logger |-> "fork_blk", fork_blk |-> "fork_vfs", fork_vfs |-> "begin"]

fork_exec ==
  /\ step["init"] \in DOMAIN Child
  /\ LET child == Child[step["init"]]
     IN  /\ alive' = alive \cup {child}
         /\ step' = [step EXCEPT !["init"] = AfterFork[@], ![child] = "start"]
  /\ UNCHANGED <<opened, next, call, net, val, vfsVars, file, history, status>>

fork_client(c) ==
  /\ step[c] = "unborn" /\ c \in Clients
  /\ "vfs" \in alive /\ "init" \in alive
  /\ alive' = alive \cup {c}
  /\ step' = [step EXCEPT ![c] = "begin"]
  /\ UNCHANGED <<opened, next, call, net, val, vfsVars, file, history, status>>

(* test_fat_read, from one remote call to the next.  A read asks for a     *)
(* number of sectors the program chooses.                                  *)
client_begin(c) ==
  /\ step[c] = "begin" /\ trace(c, "open", net)
  /\ UNCHANGED <<alive, opened, val, vfsVars, file, history, status>>

client_open(c) ==
  /\ step[c] = "open"
  /\ \E name \in IF c = "init" THEN {"/init.c"} ELSE Names :
        Calls(c, "vfs", "open", [name |-> name, mode |-> "O_RDONLY"], "opened", net)
  /\ UNCHANGED <<alive, opened, val, vfsVars, file, history, status>>

client_opened(c) ==
  /\ step[c] = "opened"
  /\ file' = [file EXCEPT ![c].fd = val[c].ret]
  /\ trace(c, IF val[c] = Fail THEN "exit" ELSE "read", net)
  /\ val' = [val EXCEPT ![c] = OK]
  /\ UNCHANGED <<alive, opened, vfsVars, history, status>>

client_read(c) ==
  /\ step[c] = "read"
  /\ \E n \in IF c = "init" THEN {1} ELSE Widths :
        /\ n > SectorLimit => MayFail
        /\ Calls(c, "vfs", "read", [fd |-> file[c].fd, size |-> n], "have_read", net)
        /\ causes' = IF n > SectorLimit THEN causes \cup {"wide read"} ELSE causes
  /\ UNCHANGED <<alive, opened, val, vfsVars, file, failed, status>>

client_have_read(c) ==
  /\ step[c] = "have_read"
  /\ CASE val[c] = Fail  -> panic(c, net) /\ UNCHANGED file
       [] val[c].ret = 0 -> /\ Calls(c, "vfs", "close", [fd |-> file[c].fd], "closed", net)
                            /\ file' = [file EXCEPT ![c].closed = TRUE]
       [] OTHER          -> /\ Goes(c, "read", net)
                            /\ file' = [file EXCEPT
                                          ![c].firsts = @ \cup {Len(file[c].data) + 1},
                                          ![c].data = @ \o val[c].data]
  /\ val' = [val EXCEPT ![c] = OK]
  /\ UNCHANGED <<alive, opened, vfsVars, history, status>>

client_closed(c) ==
  /\ step[c] = "closed"
  /\ IF val[c].ret = 0 THEN trace(c, "exit", net) ELSE panic(c, net)
  /\ val' = [val EXCEPT ![c] = OK]
  /\ UNCHANGED <<alive, opened, vfsVars, file, history, status>>

(* A program other than init opens a file for writing, or names a          *)
(* descriptor it does not have.                                            *)
client_misuse(c) ==
  /\ c # "init" /\ MayFail
  /\ \/ /\ step[c] = "open"
        /\ Calls(c, "vfs", "open", [name |-> "/init.c", mode |-> "O_WRONLY"], "opened", net)
     \/ /\ step[c] = "read"
        /\ \/ Calls(c, "vfs", "read", [fd |-> file[c].fd + 1, size |-> 1], "have_read", net)
           \/ Calls(c, "vfs", "close", [fd |-> file[c].fd + 1], "closed", net)
  /\ causes' = causes \cup {"misuse"}
  /\ UNCHANGED <<alive, opened, val, vfsVars, file, failed, status>>

exit(c) ==
  /\ step[c] = "exit"
  /\ alive' = alive \ {c}
  /\ step' = [step EXCEPT ![c] = "exited"]
  /\ UNCHANGED <<opened, next, call, net, val, vfsVars, file, history, status>>

abort(t) ==
  /\ step[t] = "abort"
  /\ Calls(t, "kernel", "reboot", 0, "stopped", net)
  /\ UNCHANGED <<alive, opened, val, vfsVars, file, history, status>>

----------------------------------------------------------------------------
Init ==
  /\ alive = {"kernel", "init"}
  /\ opened = {Port("kernel")}
  /\ net = [queue |-> [p \in Ports |-> << >>], woken |-> {}]
  /\ step = [t \in Tasks |-> CASE t = "kernel" -> "dispatch"
                             [] t = "init"   -> "fork_logger"
                             [] OTHER        -> "unborn"]
  /\ next = [t \in Tasks |-> "dispatch"]
  /\ call = [t \in Tasks |-> NoCall]
  /\ req = NoRequest
  /\ val = [t \in Tasks |-> OK]
  /\ procs = [c \in Clients |-> [known |-> FALSE, next_fd |-> 0, pos |-> << >>]]
  /\ win = None /\ job = NoJob
  /\ file = [c \in Clients |-> [fd |-> 0, data |-> << >>, firsts |-> {}, closed |-> FALSE]]
  /\ failed = {} /\ causes = {}
  /\ status = "up"

Stub(t) == port_is_open(t) \/ msgsend_returns(t) \/ receive_result(t)

KernelTask == msgsend_returns("kernel") \/ handle_kernel_get_task_info \/ handle_kernel_reboot
Logger == receive_result("logger") \/ logger_main \/ handle_logger_trace
BlockDriver == port_is_open("blk") \/ msgsend_returns("blk") \/ blk_main
                 \/ handle_blkimpl_read_sector \/ abort("blk")
FileServer == Stub("vfs") \/ vfs_main \/ handle_vfs_open \/ open_bad_mode \/ open_fn \/ handle_vfs_read
                \/ f_read \/ get_fat \/ disk_read \/ read_fn \/ handle_vfs_close
                \/ abort("vfs")
Client(c) == Stub(c) \/ client_begin(c) \/ client_open(c) \/ client_opened(c)
               \/ client_read(c) \/ client_have_read(c) \/ client_closed(c)
               \/ client_misuse(c) \/ exit(c) \/ abort(c) \/ fork_client(c)

Next ==
  /\ status = "up"
  /\ \/ KernelTask \/ Logger \/ BlockDriver \/ FileServer \/ fork_exec
     \/ \E c \in Clients : Client(c)

(* As long as some task can run, one is run (the scheduler idles only when *)
(* no task is ready).  No task is promised its turn: the programs make     *)
(* finitely many calls, so that none can be passed over for ever.          *)
Fairness == WF_vars(Next)

Spec == Init /\ [][Next]_vars /\ Fairness

----------------------------------------------------------------------------
(* Properties. *)

(* A program gets the file it reads, whatever the others do meanwhile: the *)
(* answer on its ack port is the answer to the call it waits for, every    *)
(* read continues where the last one ended, its first sector is the file's *)
(* (the others are not: disk_read fetches one sector whatever the count    *)
(* is), and the end is reported at the end (gen_server.c's reply, vfs.c's  *)
(* proc_infos and descriptors, f_read).                                    *)
ProgramsGetTheirFile ==
  /\ \A t \in Tasks : TwoWay(call[t]) /\ net.queue[AckPort(t)] # << >> =>
        Head(net.queue[AckPort(t)]).about = call[t]
  /\ \A c \in Clients :
        /\ \A i \in file[c].firsts : file[c].data[i] = i
        /\ \A i \in 1 .. Len(file[c].data) : file[c].data[i] \in {i, Junk}
        /\ file[c].closed => Len(file[c].data) = FileSectors

(* The machine goes down only for a cause: no drive is detected; a program *)
(* opens a file for writing or names one it did not open; a program asks   *)
(* for more sectors than disk_read (diskio.c:62) or the reply buffer       *)
(* (gen_server.c:146, 475) takes; or the disk does not deliver a sector,   *)
(* which is survived while a directory is searched but not while a volume  *)
(* is mounted or a file is read, where vfs.c:266 turns the error into a    *)
(* failed assertion.  So a read within the limit never brings it down,     *)
(* whatever clusters it crosses, and nothing two programs do at a time     *)
(* does.  No receiver finds the sender of a message gone (task_wake's      *)
(* assertion).                                                             *)
GoesDownForACause ==
  /\ status # "panic"
  /\ status = "rebooted" => causes # {} \/ failed \ {Dir} # {}

(* Nobody waits for ever: every program that is started gets all its calls *)
(* answered and exits, or the machine reboots.  The servers call each      *)
(* other (vfs the driver, all of them the logger, the logger the kernel)   *)
(* and never in a circle.  (Only init starts programs, so that none is     *)
(* started once all have exited.)                                          *)
EveryProgramEnds == <>(status # "up" \/ Clients \cap alive = {})
=============================================================================
