------------------------------ MODULE Condition ------------------------------
(***************************************************************************)
(* Mutexes and condition variables of the C threads library                *)
(* (Libc/threads.subproj/cprocs.c, cthreads.h, cthreads_sync.c): waiters   *)
(* queue on the condition under its spin lock, spin for a while, then wait *)
(* for a message on a port of their own.  A condition is used with one of  *)
(* two families of routines, the plain ones or the ones with a timeout,    *)
(* which wake each other's waiters in different ways.                      *)
(*                                                                         *)
(* A step is what one holder of a condition's spin lock does, except where *)
(* somebody who does not take that lock could see the difference: a waiter *)
(* that times out empties the queue before it fills it again, and          *)
(* condition_signal looks at queue.head without the lock.                  *)
(***************************************************************************)
EXTENDS Queues, FiniteSets, SequencesExt

CONSTANTS
  Threads,   \* cprocs
  Conds,     \* condition variables
  Timed,     \* those used with the _timeout routines
  Mutexes,
  None

ASSUME ConditionAssumption ==
  Timed \subseteq Conds /\ None \notin Threads \union Mutexes

VARIABLES
  mutex,   \* mutex[m]: who holds it
  queue,   \* queue[c]: the waiters, c->queue
  held,    \* held[c]: who keeps c->lock between two steps
  state,   \* state[t]: p->state
  port,    \* port[t]: messages on p->wait_port, whose backlog is 1
  pc,      \* pc[t]: where in the library t is; "run" when it is not
  on,      \* on[t]: the condition of t's call
  with,    \* with[t]: the mutex of t's wait
  todo     \* todo[t]: waiters t has taken off the queue and not yet dealt with

vars == <<mutex, queue, held, state, port, pc, on, with, todo>>

Init ==
  /\ mutex = [m \in Mutexes |-> None]
  /\ queue = [c \in Conds |-> <<>>]
  /\ held = [c \in Conds |-> None]
  /\ state = [t \in Threads |-> "RUNNING"]
  /\ port = [t \in Threads |-> 0]
  /\ pc = [t \in Threads |-> "run"]
  /\ on = [t \in Threads |-> None]
  /\ with = [t \in Threads |-> None]
  /\ todo = [t \in Threads |-> <<>>]

Goto(t, l) == pc' = [pc EXCEPT ![t] = l]

\* The call returns.
Back(t) ==
  /\ Goto(t, "run")
  /\ on' = [on EXCEPT ![t] = None]
  /\ with' = [with EXCEPT ![t] = None]

-----------------------------------------------------------------------------
\* Mutexes: a try, and a yield until it succeeds.
mutex_lock(t, m) ==
  /\ pc[t] = "run"
  /\ mutex[m] = None
  /\ mutex' = [mutex EXCEPT ![m] = t]
  /\ UNCHANGED <<queue, held, state, port, pc, on, with, todo>>

mutex_unlock(t, m) ==
  /\ pc[t] = "run"
  /\ mutex[m] = t
  /\ mutex' = [mutex EXCEPT ![m] = None]
  /\ UNCHANGED <<queue, held, state, port, pc, on, with, todo>>

-----------------------------------------------------------------------------
\* Waiting, with or without a timeout: the caller holds the mutex and gives it
\* up only once it is on the queue.
Enqueue(t, c, m, s, l) ==
  /\ pc[t] = "run" /\ mutex[m] = t /\ held[c] = None
  /\ state' = [state EXCEPT ![t] = s]
  /\ queue' = [queue EXCEPT ![c] = Append(@, t)]
  /\ on' = [on EXCEPT ![t] = c]
  /\ with' = [with EXCEPT ![t] = m]
  /\ Goto(t, l)
  /\ UNCHANGED <<mutex, held, port, todo>>

condition_wait(t, c, m) ==
  c \notin Timed /\ Enqueue(t, c, m, "SPINNING", "unlock")

condition_wait_timeout(t, c, m) ==
  c \in Timed /\ Enqueue(t, c, m, "BLOCKED", "unlock")

WaitUnlock(t) ==
  /\ pc[t] = "unlock"
  /\ mutex' = [mutex EXCEPT ![with[t]] = None]
  /\ Goto(t, IF on[t] \in Timed THEN "receive" ELSE "spin")
  /\ UNCHANGED <<queue, held, state, port, on, with, todo>>

\* Busy-waiting and yielding: the state is read without the lock.
Spin(t) ==
  /\ pc[t] = "spin" /\ state[t] = "RUNNING"
  /\ Goto(t, "relock")
  /\ UNCHANGED <<mutex, queue, held, state, port, on, with, todo>>

\* Tired of yielding: look again under the lock, and block.
Block(t) ==
  /\ pc[t] = "spin" /\ held[on[t]] = None
  /\ IF state[t] = "RUNNING"
     THEN Goto(t, "relock") /\ UNCHANGED state
     ELSE Goto(t, "receive") /\ state' = [state EXCEPT ![t] = "BLOCKED"]
  /\ UNCHANGED <<mutex, queue, held, port, on, with, todo>>

\* msg_receive returns a message.  Only a timed waiter sets its own state.
Receive(t) ==
  /\ pc[t] = "receive" /\ port[t] > 0
  /\ port' = [port EXCEPT ![t] = @ - 1]
  /\ state' = IF on[t] \in Timed THEN [state EXCEPT ![t] = "RUNNING"] ELSE state
  /\ Goto(t, "relock")
  /\ UNCHANGED <<mutex, queue, held, on, with, todo>>

\* As below, if no signaller ever told.
ClaimedNot(t) == FALSE

\* Has a signaller claimed the waiter, so that a message is coming?
Claimed(t) == state[t] = "EATING"

\* msg_receive times out; a waiter that has been claimed receives again.
TimeOut(t) ==
  /\ pc[t] = "receive" /\ on[t] \in Timed /\ port[t] = 0
  /\ ~Claimed(t)
  /\ Goto(t, "timed_out")
  /\ UNCHANGED <<mutex, queue, held, state, port, on, with, todo>>

\* As below, but a claimed waiter tests again instead of receiving.
TakeQueueAgain(t) ==
  /\ pc[t] = "timed_out" /\ held[on[t]] = None /\ ~Claimed(t)
  /\ held' = [held EXCEPT ![on[t]] = t]
  /\ todo' = [todo EXCEPT ![t] = queue[on[t]]]
  /\ queue' = [queue EXCEPT ![on[t]] = <<>>]
  /\ Goto(t, "requeue")
  /\ UNCHANGED <<mutex, state, port, on, with>>

\* The same test under the lock; then the queue is copied and emptied ...
TakeQueue(t) ==
  /\ pc[t] = "timed_out" /\ held[on[t]] = None
  /\ IF Claimed(t)
     THEN Goto(t, "receive") /\ UNCHANGED <<queue, held, todo>>
     ELSE /\ held' = [held EXCEPT ![on[t]] = t]
          /\ todo' = [todo EXCEPT ![t] = queue[on[t]]]
          /\ queue' = [queue EXCEPT ![on[t]] = <<>>]
          /\ Goto(t, "requeue")
  /\ UNCHANGED <<mutex, state, port, on, with>>

\* ... and everybody else is put back.
Requeue(t) ==
  /\ pc[t] = "requeue"
  /\ queue' = [queue EXCEPT ![on[t]] = Without(todo[t], {t})]
  /\ todo' = [todo EXCEPT ![t] = <<>>]
  /\ state' = [state EXCEPT ![t] = "RUNNING"]
  /\ held' = [held EXCEPT ![on[t]] = None]
  /\ Goto(t, "relock")
  /\ UNCHANGED <<mutex, port, on, with>>

Relock(t) ==
  /\ pc[t] = "relock" /\ mutex[with[t]] = None
  /\ mutex' = [mutex EXCEPT ![with[t]] = t]
  /\ Back(t)
  /\ UNCHANGED <<queue, held, state, port, todo>>

-----------------------------------------------------------------------------
\* Waking: queue.head is tested without the lock, and the call is over if
\* nobody seems to wait.
Call(t, c, l) ==
  /\ pc[t] = "run"
  /\ IF queue[c] = <<>> THEN UNCHANGED <<pc, on>>
     ELSE Goto(t, l) /\ on' = [on EXCEPT ![t] = c]
  /\ UNCHANGED <<mutex, queue, held, state, port, with, todo>>

condition_signal(t, c) == Call(t, c, "signal")

condition_broadcast(t, c) == Call(t, c, "broadcast")

\* Under the lock the waiters ps leave the queue for t's hands, the rest stay.
\* The timed routines claim them, last first for a broadcast (it sends on the
\* way back from a recursion).
Take(t, ps, rest) ==
  LET timed == on[t] \in Timed IN
  /\ held[on[t]] = None
  /\ queue' = [queue EXCEPT ![on[t]] = rest]
  /\ todo' = [todo EXCEPT ![t] = IF timed THEN Reverse(ps) ELSE ps]
  /\ state' = IF timed
              THEN [u \in Threads |-> IF u \in Range(ps) THEN "EATING" ELSE state[u]]
              ELSE state
  /\ IF ps = <<>> THEN Back(t)
     ELSE Goto(t, IF timed THEN "send" ELSE "continue") /\ UNCHANGED <<on, with>>
  /\ UNCHANGED <<mutex, held, port>>

\* As below, trusting the test of queue.head.
FirstTrusting(q) == IF q = <<>> THEN <<None>> ELSE <<Head(q)>>

\* The first waiter of q, if another signal has not been faster.
First(q) == IF q = <<>> THEN <<>> ELSE <<Head(q)>>

cond_signal(t) ==
  /\ pc[t] = "signal"
  /\ LET q == queue[on[t]] IN
     Take(t, First(q), IF q = <<>> THEN <<>> ELSE Tail(q))

cond_broadcast(t) ==
  /\ pc[t] = "broadcast"
  /\ Take(t, queue[on[t]], <<>>)

\* On to the next waiter, or back to the caller.
Advance(t, l) ==
  /\ todo' = [todo EXCEPT ![t] = Tail(@)]
  /\ IF Len(todo[t]) = 1 THEN Back(t) ELSE Goto(t, l) /\ UNCHANGED <<on, with>>

\* A waiter that only spins sees its state; one that is blocked gets a message.
cproc_continue(t) ==
  /\ pc[t] = "continue" /\ held[on[t]] = None
  /\ state' = [state EXCEPT ![Head(todo[t])] = "RUNNING"]
  /\ IF state[Head(todo[t])] = "BLOCKED"
     THEN Goto(t, "send") /\ UNCHANGED <<todo, on, with>>
     ELSE Advance(t, "continue")
  /\ UNCHANGED <<mutex, queue, held, port>>

\* msg_send with no patience: a port that is full already holds a wake-up.
Send(t) ==
  /\ pc[t] = "send"
  /\ port' = [port EXCEPT ![Head(todo[t])] = 1]
  /\ Advance(t, IF on[t] \in Timed THEN "send" ELSE "continue")
  /\ UNCHANGED <<mutex, queue, held, state>>

-----------------------------------------------------------------------------
\* A step of the library inside a call of t.
Inside(t) ==
  \/ WaitUnlock(t) \/ Spin(t) \/ Block(t) \/ Receive(t)
  \/ TimeOut(t) \/ TakeQueue(t) \/ Requeue(t) \/ Relock(t)
  \/ cond_signal(t) \/ cond_broadcast(t) \/ cproc_continue(t) \/ Send(t)

\* Callers that keep to the rule of waiting with the mutex held, and signal
\* with or without it.
Caller(t) ==
  \/ \E m \in Mutexes : mutex_lock(t, m) \/ mutex_unlock(t, m)
  \/ \E c \in Conds, m \in Mutexes :
       condition_wait(t, c, m) \/ condition_wait_timeout(t, c, m)
  \/ \E c \in Conds : condition_signal(t, c) \/ condition_broadcast(t, c)

Next == \E t \in Threads : Inside(t) \/ Caller(t)

\* Every thread inside the library keeps running, and a receive with a message
\* on its port returns.  c->lock is kept for a few instructions at a time, so
\* who spins for it gets it, though others come and go.  A mutex may be kept for
\* ever and nobody is obliged to time out: Relock and TimeOut are not fair.
Progress(t) ==
  \/ WaitUnlock(t) \/ Spin(t) \/ Block(t) \/ Receive(t) \/ Requeue(t)
  \/ cond_signal(t) \/ cond_broadcast(t) \/ cproc_continue(t) \/ Send(t)

Fairness ==
  \A t \in Threads : WF_vars(Progress(t)) /\ SF_vars(TakeQueue(t))

Spec == Init /\ [][Next]_vars /\ Fairness

-----------------------------------------------------------------------------
\* The state of the library has its type: a wait port never holds two messages.
TypeOK ==
  /\ mutex \in [Mutexes -> Threads \union {None}]
  /\ queue \in [Conds -> Seq(Threads)]
  /\ held \in [Conds -> Threads \union {None}]
  /\ state \in [Threads -> {"RUNNING", "SPINNING", "BLOCKED", "EATING"}]
  /\ port \in [Threads -> {0, 1}]
  /\ pc \in [Threads -> {"run", "unlock", "spin", "receive", "timed_out", "requeue",
                        "relock", "signal", "broadcast", "continue", "send"}]
  /\ on \in [Threads -> Conds \union {None}]
  /\ with \in [Threads -> Mutexes \union {None}]
  /\ todo \in [Threads -> Seq(Threads)]

Waiting(t) ==
  /\ with[t] # None
  /\ pc[t] \in {"unlock", "spin", "receive", "timed_out", "requeue"}

\* The places of t in q.
Places(q, t) == {i \in DOMAIN q : q[i] = t}

\* The things that will wake t: places on queues, signallers that have taken it
\* off one, a message, and the state it is about to look at.
Wakers(t) ==
  (UNION {{<<"queue", c, i>> : i \in Places(queue[c], t)} : c \in Conds})
  \union (UNION {{<<"todo", u, i>> : i \in Places(todo[u], t)} : u \in Threads})
  \union {<<"port", t, i>> : i \in 1..port[t]}
  \union (IF pc[t] \in {"unlock", "spin"} /\ state[t] = "RUNNING"
          THEN {<<"state", t, 1>>} ELSE {})

\* No wake-up is lost and none is left over: a thread that waits has exactly one
\* thing that will wake it, and one that has stopped waiting has none, so no
\* message stays behind on its wait port to end its next wait, and it is on no
\* queue for a later signal to be spent on.  This is what the second look under
\* the lock in condition_wait and CPROC_EATING in condition_wait_timeout are for.
\* When a wait is over, condition_wait's ASSERT(p->state == CPROC_RUNNING) holds,
\* with a timeout or without.
OneWakeup ==
  \A t \in Threads :
    /\ Cardinality(Wakers(t)) = IF Waiting(t) THEN 1 ELSE 0
    /\ pc[t] = "relock" => state[t] = "RUNNING"

\* A waiter that a signal or a broadcast has taken off the queue gets as far as
\* asking for its mutex, whatever it was doing at that moment.
TakenWakes ==
  \A t, u \in Threads :
    (pc[u] \in {"continue", "send"} /\ t \in Range(todo[u])) ~> (pc[t] = "relock")
=============================================================================
