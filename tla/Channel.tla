------------------------------ MODULE Channel ------------------------------
(***************************************************************************)
(* What ports promise the tasks that use them (common/port.h): reliable    *)
(* one-way channels with a single receiver and many senders, and a receive *)
(* that blocks.  Nothing is said of when a send returns: see               *)
(* SendIsSynchronous in Ipc.                                               *)
(***************************************************************************)
EXTENDS Integers, Sequences

CONSTANTS Port, Task, Message, Nobody, NoPort

VARIABLES
    owner,      \* per port: the task that opened it
    inbox,      \* per port: what was sent and not yet received, oldest first
    receiving   \* per task: the port on which it is blocked in a receive

chanVars == <<owner, inbox, receiving>>

Init ==
    /\ owner = [p \in Port |-> Nobody]
    /\ inbox = [p \in Port |-> << >>]
    /\ receiving = [t \in Task |-> NoPort]

(* A port is opened once, and starts empty. *)
Open(t, p) ==
    /\ receiving[t] = NoPort
    /\ owner[p] = Nobody
    /\ owner' = [owner EXCEPT ![p] = t]
    /\ UNCHANGED <<inbox, receiving>>

Send(p, m) ==
    /\ receiving[m.sender] = NoPort
    /\ owner[p] # Nobody
    /\ inbox' = [inbox EXCEPT ![p] = Append(@, m)]
    /\ UNCHANGED <<owner, receiving>>

Block(t, p) ==
    /\ receiving[t] = NoPort
    /\ owner[p] = t
    /\ inbox[p] = << >>
    /\ receiving' = [receiving EXCEPT ![t] = p]
    /\ UNCHANGED <<owner, inbox>>

(* A receive returns only when there is a message, and takes the oldest. *)
Returns(t, p) ==
    /\ receiving[t] \in {NoPort, p}
    /\ owner[p] = t
    /\ inbox[p] # << >>
    /\ receiving' = [receiving EXCEPT ![t] = NoPort]
    /\ UNCHANGED owner

Receive(t, p) == Returns(t, p) /\ inbox' = [inbox EXCEPT ![p] = Tail(@)]

(* The buffer was too small: the message stays. *)
Reject(t, p) == Returns(t, p) /\ UNCHANGED inbox

(* The machine goes down with all it holds. *)
Crash == Init'

Next ==
    \/ \E t \in Task, p \in Port :
          \/ Open(t, p)
          \/ Block(t, p)
          \/ Receive(t, p)
          \/ Reject(t, p)
    \/ \E p \in Port, m \in Message : Send(p, m)
    \/ Crash

Spec == Init /\ [][Next]_chanVars
=============================================================================
