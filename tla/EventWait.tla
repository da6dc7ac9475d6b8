------------------------------ MODULE EventWait ------------------------------
(***************************************************************************)
(* Waiting, waking, timing out, suspending and resuming threads:           *)
(* kern/sched_prim.c, kern/thread.c and the timeouts of kern/mach_clock.c. *)
(*                                                                         *)
(* One action is one stretch of code under the locks it takes, at          *)
(* splsched.  A routine that releases its locks and goes on at splsched    *)
(* leaves its processor with a step to do (pc): with one processor nothing *)
(* comes in between, with several the others do.  The kernel is not        *)
(* preemptive: a thread leaves its processor only in thread_block, but     *)
(* interrupts come in wherever the spl is low.                             *)
(*                                                                         *)
(* Left out: priorities and quanta (any runnable thread may be chosen),    *)
(* stacks and swapping, halting.                                           *)
(***************************************************************************)
EXTENDS Queues, SequencesExt

CONSTANTS
  Threads,
  Cpus,        \* the processors (NCPUS of them)
  Events,      \* events that threads wait for
  Waiters,     \* the threads that wait for events
  Timed,       \* those that set timeouts
  Held,        \* the threads that are held and suspended
  None,        \* no event (event 0), no thread
  MaxHolds     \* bound on suspend_count and user_stop_count

ASSUME WaitAssumption ==
  /\ Waiters \subseteq Threads /\ Timed \subseteq Waiters /\ Held \subseteq Threads
  /\ Threads \cap Events = {} /\ None \notin Threads \cup Events
  /\ Threads \cap {"idle", "other"} = {}
  /\ MaxHolds \in Nat \ {0}

VARIABLES
  state,            \* the part of {R, W, S, N} that thread->state holds
  wait_event,       \* an event or, for &thread->wake_active, the thread
  wait_result,      \* the result of a wait, until the thread has seen it
  wait_queue,       \* the threads with a wait_event, in order of arrival
  suspend_count, user_stop_count, wake_active,
  set, call,        \* timer.set; is timer.call on a queue?
  asked,            \* did the thread set a timeout for the wait it is in?
  phase, target,    \* where a thread is in its own code (see Phases)
  runq,             \* the threads on a run queue
  cpu,              \* the thread on a processor, or "idle" or "other"
  next_thread,      \* the thread an idle processor was given
  pc,               \* what a processor still has to do at splsched
  service           \* the timer its callout thread serves

waits == <<state, wait_event, wait_result, wait_queue>>
holds == <<suspend_count, user_stop_count, wake_active>>
timers == <<set, call, asked>>
places == <<runq, next_thread>>
vars == <<waits, holds, timers, phase, target, places, cpu, pc, service>>

\* "run": anything; "asserted": between assert_wait and thread_block; the rest
\* is thread_dowait(target): "hold" before it takes the lock, "sleep" between
\* assert_wait and thread_block, "loop" after that, "wake" at its thread_wakeup.
Phases == {"run", "asserted", "hold", "sleep", "loop", "wake"}

Free == [op |-> "free"]

Init ==
  /\ state = [t \in Threads |-> {"R"}]
  /\ wait_event = [t \in Threads |-> None]
  /\ wait_result = [t \in Threads |-> None]
  /\ wait_queue = <<>>
  /\ suspend_count = [t \in Threads |-> 0]
  /\ user_stop_count = [t \in Threads |-> 0]
  /\ wake_active = [t \in Threads |-> FALSE]
  /\ set = [t \in Threads |-> FALSE]
  /\ call = [t \in Threads |-> FALSE]
  /\ asked = [t \in Threads |-> FALSE]
  /\ phase = [t \in Threads |-> "run"]
  /\ target = [t \in Threads |-> None]
  /\ runq = Threads
  /\ cpu = [p \in Cpus |-> "other"]
  /\ next_thread = [p \in Cpus |-> None]
  /\ pc = [p \in Cpus |-> Free]
  /\ service = [p \in Cpus |-> Free]

\* Thread u is running on p, in phase ph.
Current(p, u, ph) == pc[p] = Free /\ cpu[p] = u /\ phase[u] = ph

\* Interrupts may come in on p.
LowSpl(p) ==
  pc[p] = Free /\ (cpu[p] \in Threads => phase[cpu[p]] \notin {"sleep", "loop"})

-----------------------------------------------------------------------------
(* Run queues and timers.                                                  *)

IdleCpus == {p \in Cpus : cpu[p] = "idle" /\ next_thread[p] = None}

\* thread_setrun of each thread in S: to an idle processor if there is one,
\* else to a run queue.  g says what each idle processor is given.
thread_setrun(S) ==
  \E g \in [IdleCpus -> S \cup {None}] :
    LET given == {p \in IdleCpus : g[p] # None}
        D == {g[p] : p \in given}
    IN  /\ \A p, q \in given : g[p] = g[q] => p = q
        /\ D = S \/ given = IdleCpus
        /\ next_thread' = [p \in Cpus |-> IF p \in given THEN g[p] ELSE next_thread[p]]
        /\ runq' = runq \cup (S \ D)

rem_runq(t) == runq' = runq \ {t}

\* As below, without cancelling the callout.
reset_timeout_keep(S) ==
  /\ set' = [t \in Threads |-> set[t] /\ t \notin S]
  /\ UNCHANGED call

\* reset_timeout_check of the threads in S.
reset_timeout(S) ==
  /\ set' = [t \in Threads |-> set[t] /\ t \notin S]
  /\ call' = [t \in Threads |-> call[t] /\ ~(t \in S /\ set[t])]

-----------------------------------------------------------------------------
(* Waking.                                                                 *)

\* As below, for every thread that is asleep.
Runs_asleep(t) == "W" \in state[t] /\ "R" \notin state[t]

\* A thread in one of these states is asleep and may run when its wait ends.
Runs(t) == state[t] \in {{"W"}, {"W", "N"}, {"W", "S", "N"}}

\* As below, leaving the threads on the wait queue.
End_queued(S, r) ==
  LET W == {t \in S : "W" \in state[t]}
  IN  /\ state' = [t \in Threads |->
                     IF t \notin W THEN state[t]
                     ELSE (state[t] \ {"W"}) \cup (IF Runs(t) THEN {"R"} ELSE {})]
      /\ wait_result' = [t \in Threads |-> IF t \in W THEN r ELSE wait_result[t]]
      /\ asked' = [t \in Threads |-> asked[t] /\ t \notin W]
      /\ reset_timeout(S)
      /\ thread_setrun({t \in S : Runs(t)})
      /\ UNCHANGED <<wait_queue, wait_event>>

\* The threads in S, off the wait queue, no longer wait.
End(S, r) ==
  LET W == {t \in S : "W" \in state[t]}
  IN  /\ wait_queue' = Without(wait_queue, S)
      /\ wait_event' = [t \in Threads |-> IF t \in S THEN None ELSE wait_event[t]]
      /\ state' = [t \in Threads |->
                     IF t \notin W THEN state[t]
                     ELSE (state[t] \ {"W"}) \cup (IF Runs(t) THEN {"R"} ELSE {})]
      /\ wait_result' = [t \in Threads |-> IF t \in W THEN r ELSE wait_result[t]]
      /\ asked' = [t \in Threads |-> asked[t] /\ t \notin W]
      /\ reset_timeout(S)
      /\ thread_setrun({t \in S : Runs(t)})

\* thread_wakeup_prim(e, one, r): the first thread that waits for e, or all.
WakeupPrim(e, one, r) ==
  LET q == Without(wait_queue, {t \in Threads : wait_event[t] # e})
  IN  End(IF one /\ q # <<>> THEN {Head(q)} ELSE Range(q), r)

\* By a thread or from an interrupt.
thread_wakeup_prim(p, e, one, r) ==
  /\ LowSpl(p)
  /\ WakeupPrim(e, one, r)
  /\ UNCHANGED <<holds, phase, target, cpu, pc, service>>

\* clear_wait, up to where it has the event and no lock.
ClearStart(p, t, r) ==
  IF wait_event[t] # None
    THEN /\ pc' = [pc EXCEPT ![p] =
                     [op |-> "clear", thread |-> t, event |-> wait_event[t],
                      result |-> r]]
         /\ UNCHANGED <<waits, timers, places>>
    ELSE End({t}, r) /\ UNCHANGED pc

clear_wait(p, t, r, interrupt_only) ==
  /\ LowSpl(p)
  /\ ~(interrupt_only /\ "N" \in state[t])
  /\ ClearStart(p, t, r)
  /\ UNCHANGED <<holds, phase, target, cpu, service>>

\* The rest of clear_wait, unless someone else did the job.
ClearFinish(p) ==
  /\ pc[p].op = "clear"
  /\ pc' = [pc EXCEPT ![p] = Free]
  /\ IF wait_event[pc[p].thread] = pc[p].event
       THEN End({pc[p].thread}, pc[p].result)
       ELSE UNCHANGED <<waits, timers, places>>
  /\ UNCHANGED <<holds, phase, target, cpu, service>>

-----------------------------------------------------------------------------
(* Waiting.                                                                *)

\* u waits for e; bits is {W}, with N if the wait is not interruptible.
AssertWait(u, e, bits) ==
  /\ wait_event' = [wait_event EXCEPT ![u] = e]
  /\ wait_queue' = IF e = None THEN wait_queue ELSE Append(wait_queue, u)
  /\ state' = [state EXCEPT ![u] = @ \cup bits]
  /\ asked' = [asked EXCEPT ![u] = FALSE]

\* The kernel panics if an event is asserted already.
assert_wait(p, u, e, interruptible) ==
  /\ Current(p, u, "run") /\ u \in Waiters /\ wait_event[u] = None
  /\ AssertWait(u, e, IF interruptible THEN {"W"} ELSE {"W", "N"})
  /\ phase' = [phase EXCEPT ![u] = "asserted"]
  /\ UNCHANGED <<wait_result, holds, set, call, target, places, cpu, pc, service>>

\* set_timeout: no effect on a callout that is scheduled already.
set_timeout(u) ==
  /\ set' = [set EXCEPT ![u] = TRUE]
  /\ call' = [call EXCEPT ![u] = TRUE]

\* Between assert_wait and thread_block, once for a wait.
thread_set_timeout(p, u) ==
  /\ u \in Timed /\ Current(p, u, "asserted") /\ ~asked[u]
  /\ "W" \in state[u]
  /\ set_timeout(u)
  /\ asked' = [asked EXCEPT ![u] = TRUE]
  /\ UNCHANGED <<waits, holds, phase, target, places, cpu, pc, service>>

-----------------------------------------------------------------------------
(* Switching threads.                                                      *)

\* Thread n runs again, interruptible from now on, and sees its wait's result.
Resumes(n) ==
  /\ state' = [state EXCEPT ![n] = @ \ {"N"}]
  /\ wait_result' = [wait_result EXCEPT ![n] = None]

\* Processor p goes to n: a thread from a run queue, a thread that is not
\* modelled, or the idle thread.
SwitchTo(p, n) ==
  /\ cpu' = [cpu EXCEPT ![p] = n]
  /\ IF n \in Threads
       THEN runq' = runq \ {n} /\ Resumes(n)
       ELSE UNCHANGED <<runq, state, wait_result>>

\* The threads to choose from or, if there is none, the idle thread.
choose_pset_thread == IF runq = {} THEN {"idle"} ELSE runq

\* What thread_select may return (apart from the current thread).  A callout
\* thread is runnable too when a timeout is over.
thread_select ==
  choose_pset_thread \cup {n \in {"other"} : \E t \in Threads : call[t]}

\* After thread_block: a thread in thread_dowait goes round its loop.
Unblocked(u) == phase' = [phase EXCEPT ![u] = IF @ = "sleep" THEN "loop" ELSE "run"]

\* thread_block: the processor takes another thread, and is left with the old
\* one to dispatch.
thread_block(p, u) ==
  /\ \E ph \in {"run", "asserted", "sleep"} : Current(p, u, ph)
  /\ \E n \in thread_select :
       /\ n = "idle" => state[u] # {"R"}
       /\ SwitchTo(p, n)
  /\ pc' = [pc EXCEPT ![p] = [op |-> "dispatch", thread |-> u]]
  /\ Unblocked(u)
  /\ UNCHANGED <<wait_event, wait_queue, holds, timers, target, next_thread,
                 service>>

\* thread_block when thread_select returns the current thread.
thread_block_same(p, u) ==
  /\ \E ph \in {"asserted", "sleep"} : Current(p, u, ph)
  /\ state[u] = {"R"}
  /\ Unblocked(u)
  /\ Resumes(u)
  /\ UNCHANGED <<wait_event, wait_queue, holds, timers, target, places, cpu, pc, service>>

\* As below, a suspended thread in an interruptible wait not counting as
\* stopped.
Stops_awake(s) == s = {"R", "S"}

\* The states in which thread_dispatch finds a thread suspended.
Stops(s) == s \in {{"R", "S"}, {"R", "W", "S"}}

\* If u stops and someone waits for that, p has them to wake.
Suspended(p, u) ==
  IF Stops(state[u]) /\ wake_active[u]
    THEN /\ wake_active' = [wake_active EXCEPT ![u] = FALSE]
         /\ pc' = [pc EXCEPT ![p] = [op |-> "stopped", thread |-> u]]
    ELSE /\ pc' = [pc EXCEPT ![p] = Free]
         /\ UNCHANGED wake_active

\* The old thread stops, waits, or goes back to a run queue.  The kernel
\* panics if it is not marked running.
thread_dispatch(p) ==
  LET u == pc[p].thread
  IN  /\ pc[p].op = "dispatch" /\ "R" \in state[u]
      /\ IF Stops(state[u]) \/ "W" \in state[u]
           THEN state' = [state EXCEPT ![u] = @ \ {"R"}] /\ UNCHANGED places
           ELSE thread_setrun({u}) /\ UNCHANGED state
      /\ Suspended(p, u)
      /\ UNCHANGED <<wait_event, wait_result, wait_queue, suspend_count,
                     user_stop_count, timers, phase, target, cpu, service>>

\* It wakes those who wait for it to stop, its lock released.
WakeSuspenders(p) ==
  /\ pc[p].op = "stopped"
  /\ WakeupPrim(pc[p].thread, FALSE, "AWAKENED")
  /\ pc' = [pc EXCEPT ![p] = Free]
  /\ UNCHANGED <<holds, phase, target, cpu, service>>

\* The idle thread runs the thread it was given or, if it finds the run queues
\* not empty, what thread_select returns.
idle_thread(p) ==
  /\ pc[p] = Free /\ cpu[p] = "idle"
  /\ \/ /\ next_thread[p] # None
        /\ cpu' = [cpu EXCEPT ![p] = next_thread[p]]
        /\ Resumes(next_thread[p])
        /\ next_thread' = [next_thread EXCEPT ![p] = None]
        /\ UNCHANGED runq
     \/ /\ next_thread[p] = None
        /\ \E n \in thread_select \ {"idle"} : SwitchTo(p, n)
        /\ UNCHANGED next_thread
  /\ UNCHANGED <<wait_event, wait_queue, holds, timers, phase, target, pc,
                 service>>

\* A thread that is not modelled blocks.
other_block(p) ==
  /\ pc[p] = Free /\ cpu[p] = "other" /\ service[p] = Free
  /\ \E n \in thread_select \ {"other"} : SwitchTo(p, n)
  /\ UNCHANGED <<wait_event, wait_queue, holds, timers, phase, target,
                 next_thread, pc, service>>

-----------------------------------------------------------------------------
(* Timeouts.  A callout thread takes the callout off its queue and, with   *)
(* interrupts enabled in between, marks the timer unset and clears the     *)
(* wait.                                                                   *)

CalloutStart(p, t) ==
  /\ pc[p] = Free /\ cpu[p] = "other" /\ service[p] = Free
  /\ call[t]
  /\ call' = [call EXCEPT ![t] = FALSE]
  /\ service' = [service EXCEPT ![p] = [op |-> "service", thread |-> t]]
  /\ UNCHANGED <<waits, holds, set, asked, phase, target, places, cpu, pc>>

\* As below, leaving the timer marked set.
service_timer_set(p) ==
  /\ pc[p] = Free /\ service[p].op = "service"
  /\ service' = [service EXCEPT ![p].op = "timeout"]
  /\ UNCHANGED <<waits, holds, timers, phase, target, places, cpu, pc>>

service_timer(p) ==
  /\ pc[p] = Free /\ service[p].op = "service"
  /\ set' = [set EXCEPT ![service[p].thread] = FALSE]
  /\ service' = [service EXCEPT ![p].op = "timeout"]
  /\ UNCHANGED <<waits, holds, call, asked, phase, target, places, cpu, pc>>

\* As below, for an interruptible wait only.
thread_timeout_interruptible(p) ==
  LET t == service[p].thread
  IN  /\ pc[p] = Free /\ service[p].op = "timeout"
      /\ IF "N" \in state[t] THEN UNCHANGED <<waits, timers, places, pc>>
                             ELSE ClearStart(p, t, "TIMED_OUT")
      /\ service' = [service EXCEPT ![p] = Free]
      /\ UNCHANGED <<holds, phase, target, cpu>>

thread_timeout(p) ==
  /\ pc[p] = Free /\ service[p].op = "timeout"
  /\ ClearStart(p, service[p].thread, "TIMED_OUT")
  /\ service' = [service EXCEPT ![p] = Free]
  /\ UNCHANGED <<holds, phase, target, cpu>>

-----------------------------------------------------------------------------
(* Suspending and resuming.                                                *)

\* thread_hold of t, after which u goes on to thread_dowait (or, if it holds
\* itself, has an AST make it block).
Hold(u, t) ==
  /\ suspend_count' = [suspend_count EXCEPT ![t] = @ + 1]
  /\ state' = [state EXCEPT ![t] = @ \cup {"S"}]
  /\ IF t = u THEN UNCHANGED <<phase, target>>
              ELSE /\ phase' = [phase EXCEPT ![u] = "hold"]
                   /\ target' = [target EXCEPT ![u] = t]

\* As below, running or not.
Release_always(t) ==
  /\ suspend_count' = [suspend_count EXCEPT ![t] = @ - 1]
  /\ IF suspend_count[t] = 1 /\ "W" \notin state[t]
       THEN /\ state' = [state EXCEPT ![t] = (@ \ {"S"}) \cup {"R"}]
            /\ thread_setrun({t})
       ELSE /\ state' = [state EXCEPT ![t] = IF suspend_count[t] = 1 THEN @ \ {"S"} ELSE @]
            /\ UNCHANGED places

\* The tail of thread_release and thread_resume: the last hold is gone.
Release(t) ==
  /\ suspend_count' = [suspend_count EXCEPT ![t] = @ - 1]
  /\ IF suspend_count[t] = 1 /\ state[t] \cap {"W", "R"} = {}
       THEN /\ state' = [state EXCEPT ![t] = (@ \ {"S"}) \cup {"R"}]
            /\ thread_setrun({t})
       ELSE /\ state' = [state EXCEPT ![t] = IF suspend_count[t] = 1 THEN @ \ {"S"} ELSE @]
            /\ UNCHANGED places

\* A hold of the kernel's own (task_suspend, ...).
thread_hold(p, u, t) ==
  /\ Current(p, u, "run") /\ t \in Held
  /\ suspend_count[t] < MaxHolds
  /\ Hold(u, t)
  /\ UNCHANGED <<wait_event, wait_result, wait_queue, user_stop_count,
                 wake_active, timers, places, cpu, pc, service>>

\* Who releases has held: not the hold that thread_suspend counts on.
thread_release(p, u, t) ==
  /\ Current(p, u, "run")
  /\ suspend_count[t] > (IF user_stop_count[t] > 0 THEN 1 ELSE 0)
  /\ Release(t)
  /\ UNCHANGED <<wait_event, wait_result, wait_queue, user_stop_count,
                 wake_active, timers, phase, target, cpu, pc, service>>

\* The first stop of several holds the thread.
thread_suspend(p, u, t) ==
  /\ Current(p, u, "run") /\ t \in Held
  /\ user_stop_count[t] < MaxHolds
  /\ user_stop_count[t] = 0 => suspend_count[t] < MaxHolds
  /\ user_stop_count' = [user_stop_count EXCEPT ![t] = @ + 1]
  /\ IF user_stop_count[t] = 0 THEN Hold(u, t)
                               ELSE UNCHANGED <<suspend_count, state, phase, target>>
  /\ UNCHANGED <<wait_event, wait_result, wait_queue, wake_active, timers,
                 places, cpu, pc, service>>

thread_resume(p, u, t) ==
  /\ Current(p, u, "run")
  /\ user_stop_count[t] > 0
  /\ user_stop_count' = [user_stop_count EXCEPT ![t] = @ - 1]
  /\ IF user_stop_count[t] = 1 THEN Release(t)
                               ELSE UNCHANGED <<suspend_count, state, places>>
  /\ UNCHANGED <<wait_event, wait_result, wait_queue, wake_active, timers,
                 phase, target, cpu, pc, service>>

\* Is t stopped, or held no longer?
Stopped(t) == state[t] \in {{"S"}, {"W", "S"}} \/ "S" \notin state[t]

\* As below, waking nobody.
PullOff_silent(u, t) ==
  /\ rem_runq(t)
  /\ state' = [state EXCEPT ![t] = {"S"}]
  /\ wake_active' = [wake_active EXCEPT ![t] = FALSE]
  /\ phase' = [phase EXCEPT ![u] = "run"]
  /\ target' = [target EXCEPT ![u] = None]
  /\ UNCHANGED <<wait_event, wait_result, wait_queue, asked, next_thread>>

\* u stops t where it stands, on a run queue; if others wait for t to stop, u
\* has them to wake.
PullOff(u, t) ==
  /\ rem_runq(t)
  /\ state' = [state EXCEPT ![t] = {"S"}]
  /\ wake_active' = [wake_active EXCEPT ![t] = FALSE]
  /\ phase' = [phase EXCEPT ![u] = IF wake_active[t] THEN "wake" ELSE "run"]
  /\ target' = [target EXCEPT ![u] = IF wake_active[t] THEN t ELSE None]
  /\ UNCHANGED <<wait_event, wait_result, wait_queue, asked, next_thread>>

\* One round of thread_dowait's loop, by u for t: done; or t is pulled off its
\* run queue; or u goes to sleep until t stops.
thread_dowait(p, u, t) ==
  /\ \E ph \in {"hold", "loop"} : Current(p, u, ph)
  /\ target[u] = t
  /\ \/ /\ Stopped(t)
        /\ phase' = [phase EXCEPT ![u] = "run"]
        /\ target' = [target EXCEPT ![u] = None]
        /\ UNCHANGED <<waits, wake_active, asked, places>>
     \/ /\ state[t] = {"R", "S"} /\ t \in runq
        /\ PullOff(u, t)
     \/ /\ ~Stopped(t) /\ ~(state[t] = {"R", "S"} /\ t \in runq)
        /\ wake_active' = [wake_active EXCEPT ![t] = TRUE]
        /\ AssertWait(u, t, {"W"})
        /\ phase' = [phase EXCEPT ![u] = "sleep"]
        /\ UNCHANGED <<wait_result, target, places>>
  /\ UNCHANGED <<suspend_count, user_stop_count, set, call, cpu, pc, service>>

\* thread_dowait's own wake-up of the others that wait for t.
DowaitWake(p, u) ==
  /\ Current(p, u, "wake")
  /\ WakeupPrim(target[u], FALSE, "AWAKENED")
  /\ phase' = [phase EXCEPT ![u] = "run"]
  /\ target' = [target EXCEPT ![u] = None]
  /\ UNCHANGED <<holds, cpu, pc, service>>

-----------------------------------------------------------------------------
\* What a processor goes on with by itself.
Proceed(p) ==
  \/ ClearFinish(p) \/ thread_dispatch(p) \/ WakeSuspenders(p)
  \/ service_timer(p) \/ thread_timeout(p)
  \/ \E u \in Threads : \/ DowaitWake(p, u)
                        \/ \E t \in Threads : thread_dowait(p, u, t)

\* A thread blocks.  It must, once it has asserted a wait; otherwise a quantum
\* that ends or an AST makes it.
Block(p) == \E u \in Threads : thread_block(p, u) \/ thread_block_same(p, u)

\* What the rest of the kernel asks for.
Client(p) ==
  \/ \E e \in Events, one \in BOOLEAN : thread_wakeup_prim(p, e, one, "AWAKENED")
  \/ \E t \in Threads : \/ clear_wait(p, t, "INTERRUPTED", TRUE)
                        \/ clear_wait(p, t, "AWAKENED", FALSE)
  \/ \E u \in Threads :
       \/ thread_set_timeout(p, u)
       \/ \E e \in Events \cup {None}, b \in BOOLEAN : assert_wait(p, u, e, b)
       \/ \E t \in Threads : \/ thread_hold(p, u, t) \/ thread_release(p, u, t)
                             \/ thread_suspend(p, u, t) \/ thread_resume(p, u, t)

Next == \E p \in Cpus :
          \/ Proceed(p) \/ Block(p) \/ Client(p) \/ idle_thread(p) \/ other_block(p)
          \/ \E t \in Threads : CalloutStart(p, t)

Spec == Init /\ [][Next]_vars

-----------------------------------------------------------------------------
(* Fairness.  A processor does not stay at splsched; quanta end; the       *)
(* scheduler gets to every runnable thread, and the clock and the callout  *)
(* threads to every timeout.  Nobody need wake or resume anybody.          *)

Runs_on(p, n) ==
  /\ Block(p) \/ idle_thread(p) \/ other_block(p)
  /\ cpu'[p] = n

FairSpec ==
  /\ Spec
  /\ \A p \in Cpus : WF_vars(Proceed(p)) /\ SF_vars(Block(p)) /\ WF_vars(other_block(p))
  /\ \A n \in Threads \cup {"other"} : SF_vars(\E p \in Cpus : Runs_on(p, n))
  /\ \A t \in Threads : SF_vars(\E p \in Cpus : CalloutStart(p, t))

-----------------------------------------------------------------------------
(* Properties.                                                             *)

Ops(ops) == {[op |-> o, thread |-> t] : o \in ops, t \in Threads}

TypeOK ==
  /\ state \in [Threads -> SUBSET {"R", "W", "S", "N"}]
  /\ wait_event \in [Threads -> Events \cup Threads \cup {None}]
  /\ wait_result \in [Threads -> {None, "AWAKENED", "TIMED_OUT", "INTERRUPTED"}]
  /\ wait_queue \in Seq(Threads)
  /\ suspend_count \in [Threads -> 0..MaxHolds]
  /\ user_stop_count \in [Threads -> 0..MaxHolds]
  /\ wake_active \in [Threads -> BOOLEAN]
  /\ set \in [Threads -> BOOLEAN] /\ call \in [Threads -> BOOLEAN]
  /\ asked \in [Threads -> BOOLEAN]
  /\ phase \in [Threads -> Phases]
  /\ target \in [Threads -> Threads \cup {None}]
  /\ runq \subseteq Threads
  /\ cpu \in [Cpus -> Threads \cup {"idle", "other"}]
  /\ next_thread \in [Cpus -> Threads \cup {None}]
  /\ pc \in [Cpus -> {Free} \cup Ops({"dispatch", "stopped"}) \cup
                   [op : {"clear"}, thread : Threads, event : Events \cup Threads,
                    result : {"AWAKENED", "TIMED_OUT", "INTERRUPTED"}]]
  /\ service \in [Cpus -> {Free} \cup Ops({"service", "timeout"})]

\* The places where thread t is, as one that can run.
Places(t) ==
  (IF t \in runq THEN {<<"runq", 0>>} ELSE {})
  \cup {<<"cpu", p>> : p \in {q \in Cpus : cpu[q] = t}}
  \cup {<<"next", p>> : p \in {q \in Cpus : next_thread[q] = t}}
  \cup {<<"old", p>> : p \in {q \in Cpus : pc[q] = [op |-> "dispatch", thread |-> t]}}

\* A thread marked TH_RUN is in exactly one place: on a run queue, on one
\* processor, given to an idle one, or being switched away from.  Any other
\* thread is in none: no thread runs twice, none is runnable and forgotten.
OnePlace ==
  \A t \in Threads :
    /\ "R" \in state[t] <=> Places(t) # {}
    /\ \A a, b \in Places(t) : a = b

\* thread_timeout: "assert(thread->timer.set == TELT_UNSET)": when a timeout is
\* delivered, the thread has not set its timer again.
TimeoutAssertion ==
  \A p \in Cpus : service[p].op = "timeout" => ~set[service[p].thread]

\* assert_wait, thread_wakeup and thread_dispatch never panic, and remqueue
\* never takes off a thread that is not on: the wait queue holds, once each,
\* the threads with a wait_event, all of them waiting; a thread that goes about
\* its business waits for nothing; a thread switched away from is marked TH_RUN.
\* Nor does the assertion of thread_timeout fail, and counts and phases keep
\* their types.
NoPanic ==
  /\ TypeOK
  /\ TimeoutAssertion
  /\ \A i, j \in DOMAIN wait_queue : wait_queue[i] = wait_queue[j] => i = j
  /\ Range(wait_queue) = {t \in Threads : wait_event[t] # None}
  /\ \A t \in Threads :
       /\ wait_event[t] # None => "W" \in state[t]
       /\ \A p \in Cpus :
            /\ cpu[p] = t /\ phase[t] \in {"run", "hold", "wake"} => "W" \notin state[t]
            /\ pc[p] = [op |-> "dispatch", thread |-> t] => "R" \in state[t]

\* A thread that has stopped stays stopped until its last hold is released,
\* whoever wakes it, times it out or interrupts it.
StaysStopped ==
  [][\A t \in Threads :
       /\ "S" \in state[t] /\ state[t] \cap {"R", "N"} = {}
       /\ "R" \in state'[t]
       => suspend_count'[t] = 0]_vars

\* No suspender is forgotten: who sleeps in thread_dowait has wake_active set
\* in its target, or the wake-up is on its way.
SuspenderRemembered ==
  \A u, t \in Threads :
    wait_event[u] = t =>
      \/ wake_active[t]
      \/ \E p \in Cpus : pc[p] = [op |-> "stopped", thread |-> t]
      \/ \E v \in Threads : phase[v] = "wake" /\ target[v] = t

\* A wait ends only with a result it can have.  THREAD_TIMED_OUT goes to a wait
\* for which a timeout was set, never to a later one, and THREAD_INTERRUPTED not
\* to one that is uninterruptible (clear_wait: "interrupt_only Don't wake up the
\* thread if it isn't interruptible").
EndsAsAllowed ==
  [][\A t \in Threads :
       "W" \in state[t] /\ "W" \notin state'[t] =>
         /\ wait_result'[t] = "TIMED_OUT" => asked[t]
         /\ wait_result'[t] = "INTERRUPTED" => "N" \notin state[t]]_vars

\* A wait with a timeout ends, though nobody wakes the thread.
TimedWaitEnds ==
  \A t \in Threads :
    "W" \in state[t] /\ asked[t] ~> ~("W" \in state[t] /\ asked[t])

\* Who waits in thread_dowait gets on, unless its target is released, or
\* sleeps in a wait that is not interruptible.
SuspendReturns ==
  \A u, t \in Threads :
    wait_event[u] = t ~>
      wait_event[u] # t \/ "S" \notin state[t] \/ {"W", "N"} \subseteq state[t]
=============================================================================
