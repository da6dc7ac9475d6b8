---------------------------- MODULE CalloutSupply ----------------------------
(***************************************************************************)
(* What the callout module (kern/thread_call.c) promises about threads: a  *)
(* callout that is pending always has a thread on its way to it, even if   *)
(* every callout that has started blocks for ever.  Only the numbers       *)
(* count here: which callout is which, and when it is due, is in           *)
(* ThreadCall, which implements this specification.                        *)
(***************************************************************************)
EXTENDS CalloutParams

CONSTANT NCPUS   \* each processor may be in the middle of one wake-up

VARIABLES
  pending,      \* callouts that are pending
  active,       \* callouts that have started and not returned
  ready,        \* callout threads about to look at the pending queue
  idle,         \* callout threads that wait to be woken
  threads,      \* callout threads that exist or are being created
  activator,    \* the thread that creates callout threads
  wakes,        \* wake-ups of a callout thread on their way
  activations   \* wake-ups of the activator on their way

counts == <<pending, active, ready, idle, threads, activator, wakes, activations>>

Init ==
  /\ pending = 0 /\ active = 0 /\ ready = 0 /\ idle = 0 /\ threads = 0
  /\ activator = "run"
  /\ wakes = 0 /\ activations = 0

\* n callouts are pending: are there too few threads for them?
Short(n) == threads < active + n

\* A callout becomes pending.  Whoever made it so now owes a wake-up of a
\* callout thread and, if threads are short, one of the activator.
Post ==
  /\ wakes < NCPUS /\ activations < NCPUS
  /\ pending' = pending + 1
  /\ wakes' = wakes + 1
  /\ activations' = IF Short(pending + 1) THEN activations + 1 ELSE activations
  /\ UNCHANGED <<active, ready, idle, threads, activator>>

\* Pending callouts are cancelled.
Withdraw ==
  /\ \E n \in 1..pending : pending' = pending - n
  /\ UNCHANGED <<active, ready, idle, threads, activator, wakes, activations>>

Wake ==
  /\ wakes > 0
  /\ wakes' = wakes - 1
  /\ IF idle > 0 THEN idle' = idle - 1 /\ ready' = ready + 1
                 ELSE UNCHANGED <<idle, ready>>
  /\ UNCHANGED <<pending, active, threads, activator, activations>>

Activate ==
  /\ activations > 0
  /\ activations' = activations - 1
  /\ activator' = IF activator = "wait" THEN "run" ELSE activator
  /\ UNCHANGED <<pending, active, ready, idle, threads, wakes>>

\* A callout thread that is not in a callout (r ready, a active ones besides
\* it) takes a pending callout, waits, or goes away.
Continue(r, a) ==
  \/ /\ pending > 0
     /\ pending' = pending - 1 /\ active' = a + 1 /\ ready' = r
     /\ UNCHANGED <<idle, threads>>
  \/ /\ pending = 0 /\ threads - a <= CallThreadMin
     /\ idle' = idle + 1 /\ active' = a /\ ready' = r
     /\ UNCHANGED <<pending, threads>>
  \/ /\ pending = 0 /\ threads - a > CallThreadMin
     /\ threads' = threads - 1 /\ active' = a /\ ready' = r
     /\ UNCHANGED <<pending, idle>>

Work ==
  /\ \/ ready > 0 /\ Continue(ready - 1, active)
     \/ active > 0 /\ Continue(ready, active - 1)
  /\ UNCHANGED <<activator, wakes, activations>>

Supply ==
  /\ activator = "run"
  /\ IF Short(pending) THEN threads' = threads + 1 /\ activator' = "create"
                       ELSE activator' = "wait" /\ UNCHANGED threads
  /\ UNCHANGED <<pending, active, ready, idle, wakes, activations>>

\* The thread exists; the activator looks again.
Create ==
  /\ activator = "create"
  /\ activator' = "run"
  /\ ready' = ready + 1
  /\ UNCHANGED <<pending, active, idle, threads, wakes, activations>>

Next == Post \/ Withdraw \/ Wake \/ Activate \/ Work \/ Supply \/ Create

Spec == Init /\ [][Next]_counts

-----------------------------------------------------------------------------
CountsOK ==
  /\ pending \in Nat /\ active \in Nat /\ ready \in Nat /\ idle \in Nat
  /\ threads \in Nat /\ wakes \in Nat /\ activations \in Nat
  /\ activator \in {"run", "create", "wait"}

\* call_thread_num counts every callout thread, the one being created too.
ThreadsCounted ==
  threads = ready + idle + active + (IF activator = "create" THEN 1 ELSE 0)

\* There are threads enough, or the activator is going to look.
Supplied == Short(pending) => activator # "wait" \/ activations > 0

\* No wake-up is lost: a thread stays idle only when the threads on their way
\* and the wake-ups on theirs are enough for what is pending.
WakesSuffice == idle > 0 => pending <= ready + wakes

\* No more than call_thread_min threads are kept idle.
IdleBounded == idle <= CallThreadMin

SupplyInv ==
  CountsOK /\ ThreadsCounted /\ Supplied /\ WakesSuffice /\ IdleBounded

\* A pending callout never waits for a callout to return: a thread is about to
\* look at the queue, or is being created, or a wake-up is on its way.
CalloutAttended ==
  pending > 0 => ready > 0 \/ wakes > 0 \/ activator # "wait" \/ activations > 0
=============================================================================
