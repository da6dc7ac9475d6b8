----------------------------- MODULE ThreadCall -----------------------------
(***************************************************************************)
(* Thread-based callouts: kern/thread_call.c, with the system timer of     *)
(* machdep/i386/machine_clock.c that drives the delayed ones.              *)
(*                                                                         *)
(* One action is one stretch of code under thread_call_lock, at splsched.  *)
(* Where a routine releases the lock and goes on at splsched (the wake-ups *)
(* of _call_thread_wake, the loop of _delayed_call_interrupt) its          *)
(* processor stays busy: with one processor nothing comes in between, with *)
(* several the others do.                                                  *)
(*                                                                         *)
(* A callout is known by its key, the pair {function, argument}.  Callout  *)
(* threads are interchangeable and only counted.                           *)
(***************************************************************************)
EXTENDS CalloutParams, Queues, SequencesExt

CONSTANTS
  Cpus,            \* the processors (NCPUS of them)
  Master,          \* the processor that takes the clock interrupt
  External,        \* entries that clients allocate
  Reenters,        \* may clients use an entry that is in transit?
  Internal,        \* entries of internal_call_storage
  Keys,            \* {function, argument} pairs
  MaxCalls,        \* bound on callouts that are scheduled or running at once
  MaxTime          \* the clock stops counting here (it goes on ticking)

ASSUME CallAssumption ==
  /\ Master \in Cpus /\ IsFiniteSet(Cpus)
  /\ External \cap Internal = {}
  /\ Reenters \in BOOLEAN
  /\ Keys # {}
  /\ MaxCalls \in Nat /\ MaxTime \in Nat

Calls == External \cup Internal

VARIABLES
  status,            \* call->status; "FREED": an external entry not allocated
  key,               \* call->func and call->spec
  deadline,          \* call->deadline
  free,              \* internal_call_free_queue
  pending, delayed,  \* pending_call_queue and delayed_call_queue
  transit,           \* intransit_call_queue of the handler on each processor
  active_call_num, call_thread_num,
  ready, idle,       \* callout threads that are runnable, that wait
  activator,         \* the activate thread: "run", "create" or "wait"
  pc,                \* what each processor does at splsched
  activate,          \* wake_activate_thread, per processor
  is_set, expire_time, now   \* the system timer and the clock

entries == <<status, key, deadline, free, pending, delayed, transit>>
workers == <<active_call_num, call_thread_num, ready, idle, activator>>
timer == <<is_set, expire_time, now>>
vars == <<entries, workers, pc, activate, timer>>

pending_call_num == Len(pending)

Init ==
  /\ status = [c \in Calls |-> IF c \in External THEN "FREED" ELSE "IDLE"]
  /\ key = [c \in Calls |-> CHOOSE k \in Keys : TRUE]
  /\ deadline = [c \in Calls |-> 0]
  /\ free = Internal
  /\ pending = <<>> /\ delayed = <<>>
  /\ transit = [p \in Cpus |-> <<>>]
  /\ active_call_num = 0 /\ call_thread_num = 0
  /\ ready = 0 /\ idle = 0 /\ activator = "run"
  /\ pc = [p \in Cpus |-> "free"]
  /\ activate = [p \in Cpus |-> FALSE]
  /\ is_set = FALSE /\ expire_time = 0 /\ now = 0

-----------------------------------------------------------------------------
(* Queues.                                                                 *)

InTransit == UNION {Range(transit[p]) : p \in Cpus}
Scheduled == Range(pending) \cup Range(delayed) \cup InTransit

\* The clients keep the number of callouts within the bound.
Room ==
  Len(pending) + Len(delayed) + Cardinality(InTransit) + active_call_num < MaxCalls

\* As below, at the end of the queue.
insert_last(q, c, d) == Append(q, c)

\* Where _delayed_call_enqueue puts an entry due at d: right after the first
\* entry due at d or, if there is none, before the first entry due later.
delayed_insert(q, c, d) ==
  LET same == {i \in DOMAIN q : deadline[q[i]] = d}
      later == {i \in DOMAIN q : deadline[q[i]] > d}
      at == IF same # {} THEN Min(same) + 1
            ELSE IF later # {} THEN Min(later) ELSE Len(q) + 1
  IN  InsertAt(q, at, c)

\* As below, leaking the entries.
ReleaseNone(S) == UNCHANGED free

\* thread_call_release: an internal entry goes back to the pool.
Release(S) == free' = free \cup (S \cap Internal)

\* The entries of key k on queue q, and those a cancellation takes: the first
\* or all.
Matching(q, k) == {i \in DOMAIN q : key[q[i]] = k}
Removed(q, k, all) ==
  IF all THEN {q[i] : i \in Matching(q, k)}
  ELSE IF Matching(q, k) = {} THEN {} ELSE {q[Min(Matching(q, k))]}

-----------------------------------------------------------------------------
(* _call_thread_wake                                                       *)

\* As below, comparing with the callouts that were there before.
MakePendingLate(p, c) ==
  /\ pending' = Append(pending, c)
  /\ pc' = [pc EXCEPT ![p] = "wake"]
  /\ activate' = [activate EXCEPT ![p] =
                    call_thread_num < active_call_num + pending_call_num]

\* c is put on the pending queue and the lock released; processor p is left
\* with the wake-ups to do.
MakePending(p, c) ==
  /\ pending' = Append(pending, c)
  /\ pc' = [pc EXCEPT ![p] = "wake"]
  /\ activate' = [activate EXCEPT ![p] =
                    call_thread_num < active_call_num + pending_call_num + 1]

\* After the wake-ups: back to the loop of _delayed_call_interrupt, or done.
AfterWake(p) == IF transit[p] = <<>> THEN "free" ELSE "transit"

\* thread_wakeup_one(&pending_call_num)
WakeThread(p) ==
  /\ pc[p] = "wake"
  /\ IF idle > 0 THEN idle' = idle - 1 /\ ready' = ready + 1
                 ELSE UNCHANGED <<idle, ready>>
  /\ pc' = [pc EXCEPT ![p] = IF activate[p] THEN "activate" ELSE AfterWake(p)]
  /\ UNCHANGED <<entries, active_call_num, call_thread_num, activator, activate,
                 timer>>

\* thread_wakeup_one(&call_thread_num)
WakeActivator(p) ==
  /\ pc[p] = "activate"
  /\ activator' = IF activator = "wait" THEN "run" ELSE activator
  /\ pc' = [pc EXCEPT ![p] = AfterWake(p)]
  /\ activate' = [activate EXCEPT ![p] = FALSE]
  /\ UNCHANGED <<entries, active_call_num, call_thread_num, ready, idle, timer>>

-----------------------------------------------------------------------------
(* Scheduling a callout.                                                   *)

SetTimer(d) == is_set' = TRUE /\ expire_time' = d

\* As below, arming the timer only when it is not armed.
delay_if_unset(c, k, d) ==
  /\ status' = [status EXCEPT ![c] = "DELAYED"]
  /\ key' = [key EXCEPT ![c] = k]
  /\ deadline' = [deadline EXCEPT ![c] = d]
  /\ delayed' = delayed_insert(delayed, c, d)
  /\ IF ~is_set THEN SetTimer(d) ELSE UNCHANGED <<is_set, expire_time>>

\* Entry c is put on the delayed queue; the timer is set if it comes first.
delay(c, k, d) ==
  /\ status' = [status EXCEPT ![c] = "DELAYED"]
  /\ key' = [key EXCEPT ![c] = k]
  /\ deadline' = [deadline EXCEPT ![c] = d]
  /\ delayed' = delayed_insert(delayed, c, d)
  /\ IF Head(delayed') = c THEN SetTimer(d) ELSE UNCHANGED <<is_set, expire_time>>

\* The pool has internal_call_num (768) entries and the kernel panics when
\* they run out: clients are assumed to leave one.
thread_call_func(p, k, unique) ==
  /\ pc[p] = "free" /\ Room
  /\ unique => Matching(pending, k) = {}
  /\ \E c \in free :
       /\ free' = free \ {c}
       /\ status' = [status EXCEPT ![c] = "PENDING"]
       /\ key' = [key EXCEPT ![c] = k]
       /\ MakePending(p, c)
  /\ UNCHANGED <<deadline, delayed, transit, workers, timer>>

thread_call_func_delayed(p, k, d) ==
  /\ pc[p] = "free" /\ Room
  /\ \E c \in free :
       /\ free' = free \ {c}
       /\ delay(c, k, d)
  /\ UNCHANGED <<pending, transit, workers, pc, activate, now>>

\* One matching entry of the pending queue or else of the delayed one; with
\* cancel_all every matching entry of both.
thread_call_func_cancel(p, k, all) ==
  LET P == Removed(pending, k, all)
      D == IF ~all /\ P # {} THEN {} ELSE Removed(delayed, k, all)
  IN  /\ pc[p] = "free"
      /\ P \cup D # {}
      /\ pending' = Without(pending, P)
      /\ delayed' = Without(delayed, D)
      /\ status' = [c \in Calls |-> IF c \in P \cup D THEN "IDLE" ELSE status[c]]
      /\ Release(P \cup D)
      /\ UNCHANGED <<key, deadline, transit, workers, pc, activate, timer>>

-----------------------------------------------------------------------------
(* External entries.  One in transit is idle, and nothing in the code      *)
(* stops its client from using it then; a client that leaves it alone      *)
(* until its callout has run (~Reenters) never does.                       *)

Usable(c) == c \in InTransit => Reenters

thread_call_allocate(p, c) ==
  /\ pc[p] = "free" /\ status[c] = "FREED"
  /\ status' = [status EXCEPT ![c] = "IDLE"]
  /\ deadline' = [deadline EXCEPT ![c] = 0]
  /\ UNCHANGED <<key, free, pending, delayed, transit, workers, pc, activate,
                 timer>>

\* A client frees an entry that it finds idle (the code panics otherwise).
thread_call_free(p, c) ==
  /\ pc[p] = "free" /\ status[c] = "IDLE" /\ Usable(c)
  /\ status' = [status EXCEPT ![c] = "FREED"]
  /\ UNCHANGED <<key, deadline, free, pending, delayed, transit, workers, pc,
                 activate, timer>>

\* thread_call_enter, thread_call_enter_spec.  No effect unless idle.
thread_call_enter(p, c, k) ==
  /\ pc[p] = "free" /\ Room
  /\ status[c] = "IDLE" /\ Usable(c)
  /\ status' = [status EXCEPT ![c] = "PENDING"]
  /\ key' = [key EXCEPT ![c] = k]
  /\ MakePending(p, c)
  /\ UNCHANGED <<deadline, free, delayed, transit, workers, timer>>

\* thread_call_enter_delayed, thread_call_enter_spec_delayed.
thread_call_enter_delayed(p, c, k, d) ==
  /\ pc[p] = "free" /\ Room
  /\ status[c] = "IDLE" /\ Usable(c)
  /\ delay(c, k, d)
  /\ UNCHANGED <<free, pending, transit, workers, pc, activate, now>>

thread_call_cancel(p, c) ==
  /\ pc[p] = "free"
  /\ \/ /\ status[c] = "PENDING"
        /\ pending' = Without(pending, {c})
        /\ UNCHANGED delayed
     \/ /\ status[c] = "DELAYED"
        /\ delayed' = Without(delayed, {c})
        /\ UNCHANGED pending
  /\ status' = [status EXCEPT ![c] = "IDLE"]
  /\ UNCHANGED <<key, deadline, free, transit, workers, pc, activate, timer>>

-----------------------------------------------------------------------------
(* Callout threads.                                                        *)

\* The loop of _call_thread_continue, with r other threads ready and a other
\* callouts active: run the next callout, wait, or terminate.
Continue(r, a) ==
  \/ /\ pending_call_num > 0
     /\ pending' = Tail(pending)
     /\ status' = [status EXCEPT ![Head(pending)] = "IDLE"]
     /\ Release({Head(pending)})
     /\ active_call_num' = a + 1 /\ ready' = r
     /\ UNCHANGED <<idle, call_thread_num>>
  \/ /\ pending_call_num = 0 /\ call_thread_num - a <= CallThreadMin
     /\ idle' = idle + 1
     /\ active_call_num' = a /\ ready' = r
     /\ UNCHANGED <<pending, status, free, call_thread_num>>
  \/ /\ pending_call_num = 0 /\ call_thread_num - a > CallThreadMin
     /\ call_thread_num' = call_thread_num - 1
     /\ active_call_num' = a /\ ready' = r
     /\ UNCHANGED <<pending, status, free, idle>>

\* A thread that was created or woken looks at the queue.
_call_thread_continue(p) ==
  /\ pc[p] = "free"
  /\ ready > 0
  /\ Continue(ready - 1, active_call_num)
  /\ UNCHANGED <<key, deadline, delayed, transit, activator, pc, activate, timer>>

\* A callout returns and its thread looks at the queue again.
CalloutReturns(p) ==
  /\ pc[p] = "free"
  /\ active_call_num > 0
  /\ Continue(ready, active_call_num - 1)
  /\ UNCHANGED <<key, deadline, delayed, transit, activator, pc, activate, timer>>

\* As below, waiting after each thread it creates.
_call_activate_thread_sleepy(p) ==
  /\ pc[p] = "free"
  /\ \/ /\ activator = "run"
        /\ IF call_thread_num < active_call_num + pending_call_num
             THEN /\ call_thread_num' = call_thread_num + 1
                  /\ activator' = "create"
             ELSE activator' = "wait" /\ UNCHANGED call_thread_num
        /\ UNCHANGED ready
     \/ /\ activator = "create"
        /\ activator' = "wait"
        /\ ready' = ready + 1
        /\ UNCHANGED call_thread_num
  /\ UNCHANGED <<entries, active_call_num, idle, pc, activate, timer>>

\* The activate thread creates one thread at a time while they are short.
_call_activate_thread(p) ==
  /\ pc[p] = "free"
  /\ \/ /\ activator = "run"
        /\ IF call_thread_num < active_call_num + pending_call_num
             THEN /\ call_thread_num' = call_thread_num + 1
                  /\ activator' = "create"
             ELSE activator' = "wait" /\ UNCHANGED call_thread_num
        /\ UNCHANGED ready
     \/ /\ activator = "create"
        /\ activator' = "run"
        /\ ready' = ready + 1
        /\ UNCHANGED call_thread_num
  /\ UNCHANGED <<entries, active_call_num, idle, pc, activate, timer>>

-----------------------------------------------------------------------------
(* The timer.                                                              *)

\* A clock interrupt.  If the timer has expired its handler is entered.
system_timer_dispatch(p) ==
  /\ p = Master /\ pc[p] = "free"
  /\ now' = IF now < MaxTime THEN now + 1 ELSE now
  /\ IF is_set /\ expire_time <= now'
       THEN is_set' = FALSE /\ pc' = [pc EXCEPT ![p] = "expire"]
       ELSE UNCHANGED <<is_set, pc>>
  /\ UNCHANGED <<entries, workers, activate, expire_time>>

\* As below, with the first entry that is not due.
DueRunAndNext(q) ==
  LET notDue == {i \in DOMAIN q : deadline[q[i]] > now}
  IN  IF notDue = {} THEN Len(q) ELSE Min(notDue)

\* The entries that _delayed_call_interrupt takes: the longest run of due
\* entries at the head of the delayed queue.
DueRun(q) ==
  LET notDue == {i \in DOMAIN q : deadline[q[i]] > now}
  IN  IF notDue = {} THEN Len(q) ELSE Min(notDue) - 1

\* The timer is set again for the entry that is now first.
Rearm(q) ==
  IF q # <<>> THEN SetTimer(deadline[Head(q)]) ELSE UNCHANGED <<is_set, expire_time>>

\* The due entries leave the delayed queue, idle; the first one is made
\* pending before the lock is released.
_delayed_call_interrupt(p) ==
  LET n == DueRun(delayed)
      due == SubSeq(delayed, 1, n)
      rest == SubSeq(delayed, n + 1, Len(delayed))
  IN  /\ pc[p] = "expire"
      /\ delayed' = rest
      /\ Rearm(rest)
      /\ \/ /\ n = 0
            /\ pc' = [pc EXCEPT ![p] = "free"]
            /\ UNCHANGED <<status, pending, transit, activate>>
         \/ /\ n > 0
            /\ status' = [c \in Calls |->
                            IF c = Head(due) THEN "PENDING"
                            ELSE IF c \in Range(due) THEN "IDLE" ELSE status[c]]
            /\ transit' = [transit EXCEPT ![p] = Tail(due)]
            /\ MakePending(p, Head(due))
      /\ UNCHANGED <<key, deadline, free, workers, now>>

\* The next entry in transit, after the lock was taken again.
NextInTransit(p) ==
  LET c == Head(transit[p])
  IN  /\ pc[p] = "transit"
      /\ transit' = [transit EXCEPT ![p] = Tail(@)]
      /\ status' = [status EXCEPT ![c] = "PENDING"]
      /\ MakePending(p, c)
      /\ UNCHANGED <<key, deadline, free, delayed, workers, timer>>

-----------------------------------------------------------------------------
\* What a processor does once it is at splsched, and the threads and
\* interrupts that the kernel runs by itself.
Busy(p) ==
  WakeThread(p) \/ WakeActivator(p) \/ _delayed_call_interrupt(p) \/ NextInTransit(p)

Client(p) ==
  \/ \E k \in Keys, b \in BOOLEAN :
       thread_call_func(p, k, b) \/ thread_call_func_cancel(p, k, b)
  \/ \E k \in Keys, d \in 0..MaxTime : thread_call_func_delayed(p, k, d)
  \/ \E c \in External :
       thread_call_allocate(p, c) \/ thread_call_free(p, c) \/ thread_call_cancel(p, c)
  \/ \E c \in External, k \in Keys :
       \/ thread_call_enter(p, c, k)
       \/ \E d \in 0..MaxTime : thread_call_enter_delayed(p, c, k, d)

Next == \E p \in Cpus :
          \/ Busy(p) \/ Client(p) \/ CalloutReturns(p)
          \/ _call_thread_continue(p) \/ _call_activate_thread(p)
          \/ system_timer_dispatch(p)

Spec == Init /\ [][Next]_vars

-----------------------------------------------------------------------------
(* Fairness.  A processor finishes what it does at splsched, the scheduler *)
(* runs the callout threads and the activate thread when they are          *)
(* runnable, and the clock ticks.  A callout need not ever return.         *)

FairSpec ==
  /\ Spec
  /\ \A p \in Cpus : WF_vars(Busy(p))
  /\ SF_vars(\E p \in Cpus : _call_thread_continue(p))
  /\ SF_vars(\E p \in Cpus : _call_activate_thread(p))
  /\ SF_vars(system_timer_dispatch(Master))

-----------------------------------------------------------------------------
(* Properties.                                                             *)

TypeOK ==
  /\ status \in [Calls -> {"FREED", "IDLE", "PENDING", "DELAYED"}]
  /\ key \in [Calls -> Keys]
  /\ deadline \in [Calls -> 0..MaxTime]
  /\ free \subseteq Internal
  /\ pending \in Seq(Calls) /\ delayed \in Seq(Calls)
  /\ transit \in [Cpus -> Seq(Calls)]
  /\ active_call_num \in Nat /\ call_thread_num \in Nat
  /\ ready \in Nat /\ idle \in Nat
  /\ activator \in {"run", "create", "wait"}
  /\ pc \in [Cpus -> {"free", "wake", "activate", "expire", "transit"}]
  /\ activate \in [Cpus -> BOOLEAN]
  /\ is_set \in BOOLEAN /\ expire_time \in 0..MaxTime /\ now \in 0..MaxTime

\* An entry is on at most one queue, the one its status names, and only once;
\* an internal one is in the pool exactly when it is on none.  With the types:
\* the counts of active and existing call threads never go below zero.
QueuesMatchStatus ==
  /\ TypeOK
  /\ IsInjective(pending) /\ IsInjective(delayed)
  /\ \A c \in Calls :
       /\ status[c] = "PENDING" <=> c \in Range(pending)
       /\ status[c] = "DELAYED" <=> c \in Range(delayed)
       /\ c \in InTransit => status[c] = "IDLE"
  /\ free = Internal \ Scheduled

\* thread_call_enter: "There is no effect if the entry is not idle": an entry
\* that is still to be run is not scheduled a second time, so that no entry is
\* linked into two queues, nor twice into one.
ScheduledOnce ==
  /\ IsInjective(pending) /\ IsInjective(delayed)
  /\ Range(pending) \cap Range(delayed) = {}
  /\ InTransit \cap (Range(pending) \cup Range(delayed)) = {}

\* Whatever is cancelled and rescheduled, the timer goes off no later than the
\* first delayed entry is due, or its handler is already running: no delayed
\* callout is forgotten.
TimerCoversDelayed ==
  /\ \A i, j \in DOMAIN delayed :
       i < j => deadline[delayed[i]] <= deadline[delayed[j]]
  /\ delayed # <<>> =>
       \/ is_set /\ expire_time <= deadline[Head(delayed)]
       \/ \E p \in Cpus : pc[p] = "expire"

\* The supply of callout threads, as CalloutSupply specifies it.
Wakes == Cardinality({p \in Cpus : pc[p] = "wake"})
Activations ==
  Cardinality({p \in Cpus : pc[p] \in {"wake", "activate"} /\ activate[p]})

Supply == INSTANCE CalloutSupply WITH
            NCPUS <- Cardinality(Cpus),
            pending <- pending_call_num, active <- active_call_num,
            threads <- call_thread_num, wakes <- Wakes,
            activations <- Activations

\* The callout threads are managed as CalloutSupply says.
ImplementsSupply == Supply!Spec

\* A pending callout never waits for a callout to return, between any two steps
\* of _call_thread_wake, the callout threads and the activate thread: a thread
\* is about to look at the queue, or is being created, or a wake-up is coming.
CalloutAttended == Supply!CalloutAttended

\* A callout runs only when it is due: an entry leaves the delayed queue for
\* the pending one after its deadline, on whichever processor and however often
\* its deadline was changed.
NeverEarly ==
  [][\A c \in Calls :
       /\ status[c] = "DELAYED"
       /\ status'[c] = "PENDING" \/ c \in InTransit'
       => deadline[c] <= now]_vars

\* A pending callout is started or cancelled even if no callout that has
\* started ever returns; a delayed one becomes pending or is cancelled.
EventuallyRuns ==
  \A c \in Calls :
    /\ status[c] = "PENDING" ~> status[c] # "PENDING"
    /\ status[c] = "DELAYED" ~> status[c] # "DELAYED"
=============================================================================
