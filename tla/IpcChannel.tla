----------------------------- MODULE IpcChannel -----------------------------
(* The ports of Ipc implement Channel.  A machine that is down holds no    *)
(* channel, so that coming up again changes nothing.                       *)
EXTENDS Ipc

Up == halted = "no"

chanOwner == [p \in PortNo |-> IF Up THEN receiver[p] ELSE INVALID_PID]
chanInbox == [p \in PortNo |-> IF Up THEN queue[p] ELSE << >>]
chanReceiving ==
    [t \in Pid |-> IF Up /\ call[t].op = "recv" THEN call[t].port ELSE INVALID_PORT]

Chan == INSTANCE Channel WITH
    Port <- PortNo, Task <- Pid, Message <- Messages,
    Nobody <- INVALID_PID, NoPort <- INVALID_PORT,
    owner <- chanOwner, inbox <- chanInbox, receiving <- chanReceiving

(* Every step of ipc.c is a step of the channels of port.h, or none that   *)
(* they can see: one receiver per port, and messages leave its queue in    *)
(* the order they were sent, one at a time and only when the receiver      *)
(* takes them; no receive returns without one.                             *)
ImplementsChannel == Chan!Spec
=============================================================================
