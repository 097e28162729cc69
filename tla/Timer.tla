------------------------------- MODULE Timer -------------------------------
(***************************************************************************)
(* The table of timers of kernel/timer.c.  A table is a record             *)
(*   slots    the array timers[MAX_TIMERS], stale entries included         *)
(*   count    timer_count                                                  *)
(*   next_id  next_timer_id                                                *)
(*   now      ticks; current_timestamp is TICKS_PER_MS times as much       *)
(* and periods are counted in ticks.  The callback of a timer is a model   *)
(* value; the ones in NoReturn never come back to the interrupt handler.   *)
(***************************************************************************)
EXTENDS Naturals, Sequences, SequencesExt

CONSTANTS
  MAX_TIMERS,   \* the length of the array
  NoReturn      \* the callbacks that switch to another task

ASSUME MaxTimersAssumption == MAX_TIMERS \in Nat /\ MAX_TIMERS >= 2

NULL == "NULL"

\* The array starts out zeroed.
ZeroTimer == [id |-> 0, callback |-> NULL, period |-> 0,
              recurring |-> FALSE, last_triggered |-> 0]

timers_init == [slots |-> [i \in 0 .. MAX_TIMERS - 1 |-> ZeroTimer],
                count |-> 0, next_id |-> 0, now |-> 0]

Entries(tt) == {tt.slots[i] : i \in 0 .. tt.count - 1}

\* The assertion of timer_schedule.
CanSchedule(tt) == tt.count < MAX_TIMERS - 1

\* The new entry keeps the last_triggered of whatever was in its slot.
timer_schedule(tt, callback, period, recurring) ==
  [tt EXCEPT !.slots[tt.count] =
               [id |-> tt.next_id, callback |-> callback, period |-> period,
                recurring |-> recurring, last_triggered |-> @.last_triggered],
             !.count = @ + 1,
             !.next_id = @ + 1]

\* The indices of the entries that carry an id.
IndicesOf(tt, id) == {i \in 0 .. tt.count - 1 : tt.slots[i].id = id}

FirstIndex(S) == CHOOSE i \in S : \A j \in S : i <= j

\* The freed slot receives the entry one past the last one.
timer_unschedule(tt, id) ==
  IF IndicesOf(tt, id) = {}
  THEN tt
  ELSE [tt EXCEPT !.slots[FirstIndex(IndicesOf(tt, id))] = tt.slots[tt.count],
                  !.count = @ - 1]

Due(tt, i) == tt.now >= tt.slots[i].last_triggered + tt.slots[i].period

\* First loop of irq_handler: the due timers are marked as triggered.
MarkTriggered(tt) ==
  [tt EXCEPT !.slots = [i \in DOMAIN tt.slots |->
     IF i < tt.count /\ Due(tt, i)
     THEN [tt.slots[i] EXCEPT !.last_triggered = tt.now]
     ELSE tt.slots[i]]]

\* The copies the first loop takes, in the order of the table.
Triggered(tt) ==
  SelectSeq([k \in 1 .. tt.count |-> [entry |-> tt.slots[k - 1], due |-> Due(tt, k - 1)]],
            LAMBDA e : e.due)

\* Faulty: a recurring timer is unscheduled as well.
unschedule_all(acc, e) ==
  IF acc.left \/ acc.fault THEN acc
  ELSE IF e.entry.callback = NULL THEN [acc EXCEPT !.fault = TRUE]
  ELSE IF e.entry.callback \in NoReturn
       THEN [acc EXCEPT !.left = TRUE, !.called = Append(@, e.entry),
                        !.tt = timer_unschedule(@, e.entry.id)]
  ELSE [acc EXCEPT !.called = Append(@, e.entry),
                   !.tt = timer_unschedule(@, e.entry.id)]

\* One round of the second loop.  A callback that does not return leaves the
\* handler for good; a null pointer is called into a fault.
CallBack(acc, e) ==
  IF acc.left \/ acc.fault THEN acc
  ELSE IF e.entry.callback = NULL THEN [acc EXCEPT !.fault = TRUE]
  ELSE IF e.entry.callback \in NoReturn
       THEN [acc EXCEPT !.left = TRUE, !.called = Append(@, e.entry)]
  ELSE [acc EXCEPT !.called = Append(@, e.entry),
                   !.tt = IF e.entry.recurring THEN @
                          ELSE timer_unschedule(@, e.entry.id)]

Advance(tt) == [tt EXCEPT !.now = @ + 1]

\* The interrupt handler, up to the callback that does not return:
\*   tt      the table afterwards
\*   called  the entries whose callback ran, in order
\*   left    whether a callback switched to another task
\*   fault   whether a null callback was called
irq_handler(tt0) ==
  LET tt == Advance(tt0)
  IN  FoldLeft(CallBack,
               [tt |-> MarkTriggered(tt), called |-> <<>>, left |-> FALSE, fault |-> FALSE],
               Triggered(tt))
=============================================================================
