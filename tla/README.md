# Darwin 0.1: a TLA+ verification of the kernel's core

This directory holds TLA+ models of the Mach kernel of Darwin 0.1
(`src/kernel`) and of the threads library above it (`src/Libc`), the TLC configurations that check them on small instances, and
TLAPS proofs of the results that hold for every instance.  `PROJECT.json` maps
each definition to the lines it stands for and lists components, runs, mutants,
findings, hazards and theorems.

## 1. Inventory

The repository is a whole operating system.  Most of its 6 million lines are
imported (4.4BSD, GNU tools, Apache, Perl, ...).  Its own core logic, and the
place where concurrency makes it hard, is the Mach kernel: `kernel/kern`,
`kernel/ipc` and `kernel/vm`.  Kernels are built for one processor by default
(`conf/MASTER`: `cpus 1`); `multi2` to `multi64` select more, and the code is
written for both.  Every model takes the processors or threads as a constant, so
the same text answers for both builds.

| component | state | operations | hard because | correct when |
|---|---|---|---|---|
| sleep locks, `kern/lock.c` | `struct lock`: `want_write`, `want_upgrade`, `waiting`, `read_count`, `thread`, `recursion_depth`, `can_sleep` | read, write, try, upgrade, downgrade, done, set and clear recursion | a writer and an upgrade compete; one release must wake the right sleepers; an upgrade gives up its read hold before it waits | many readers or one writer; no sleeper without a reason; an upgrade sees no other write; a claim is served |
| callouts, `kern/thread_call.c` | entries, pending and delayed queues, pool, thread counts, system timer | func, func_delayed, enter, enter_delayed, cancel, timer interrupt, callout threads, activate thread | callouts block, so threads must be created on demand; wake-ups are sent after the lock is dropped; a cancel leaves the timer armed | queue and status agree; no callout early, none forgotten, none waits for another to return |
| waits, `kern/sched_prim.c`; suspension, `kern/thread.c`; timeouts, `kern/mach_clock.c` | `state`, `wait_event`, `suspend_count`, `user_stop_count`, `wake_active`, `timer`; wait and run queues; processors | assert_wait, thread_set_timeout, thread_block, clear_wait, thread_wakeup, hold, dowait, release, suspend, resume | a wait may end before the thread blocks; a timeout races a wake-up; locks are dropped between reading and acting; a thread is switched away from while others act on it | no panic; a runnable thread is in one place; a stopped thread stays stopped; no suspender forgotten; a timeout ends only its own wait |
| halting and termination, `kern/thread.c`, `kern/task.c` | `AST_HALT`, `TH_HALTED`, reaper queue | thread_halt, thread_abort, task_terminate | halt cycles, halting what is in a wait | cycles are broken, the halted thread is at a clean point |
| ports and rights, `ipc/ipc_right.c`, `ipc_port.c`, `ipc_object.c`, `ipc_notify.c` | ports with `ip_srights`, `ip_sorights`, `ip_mscount`, requests; entries with types and user references; spaces | copyin, undo, copyout, dealloc, delta, rename, destroy, requests, notifications, space death | counts in many spaces against one port, port death in the middle of anything and noticed later by each entry, the limit of user references | counts equal rights, references equal pointers, one receiver; no-senders true and not lost; a task can account for its user references |
| message queues, `ipc/ipc_mqueue.c`, `ipc_pset.c` | queues of ports and sets, `ip_msgcount`, `ip_qlimit`, `ip_seqno`, blocked senders and receivers | send, receive, set membership, change of limit, loss of the receive right, death | hand-over to a waiting receiver, timeouts against delivery, messages counted out after the queue is unlocked | order kept, nothing lost or counted twice, nobody asleep for nothing |
| processors and sets, `kern/processor.c`, `kern/machine.c` | assignment, action queue | assign, shutdown, action thread | a processor moves while threads are given to it | no thread stays on a processor that left |
| virtual memory, `vm/` | maps, objects with shadows, pages, pageout | fault, copy, collapse, pageout | object locks dropped and taken again, busy pages | a collapse loses no page, busy pages are not touched |
| allocators, `kern/zalloc.c` | zones, free lists | alloc, free, collect | growing a zone while others wait | no waiter for ever |
| bootstrap server, `system_cmds/mach_init.tproj` | bootstraps, servers, services | check_in, register, look_up, subset; server and port death | notifications out of order with requests | one receiver per service, restart on demand |
| C threads, `Libc/threads.subproj` | mutexes, conditions, wait ports; cthread records, requests, pool of cprocs | lock, wait, wait with timeout, signal, broadcast; fork, join, detach, exit | waiters spin before they block, timeouts race signals, records are signalled after they are unlocked and may be reused | each waiter is woken once, no message is left over; every cthread gets a cproc, is freed once, and main leaves last |

How they interact.  `lock.c` sleeps and wakes with `thread_sleep` and
`thread_wakeup` of `sched_prim.c`.  Callout threads wait and are woken the same
way, and the timeouts of `mach_clock.c` are callouts: an entry that runs
`service_timer`, which calls `thread_timeout`, which calls `clear_wait`.  The
clock interrupt drives the callouts.  IPC blocks with `thread_will_wait` and
`thread_block`, and is woken with `thread_go` or `clear_wait`.  A C thread that
has spun long enough blocks in a receive on a port of its own, whose queue limit
is 1: `Condition` uses what `MsgQueue` shows of such a port (no message lost, no
receiver forgotten) and no more.
Everything runs under simple locks (spin locks) at a raised interrupt priority,
`splsched`: on one processor the priority alone makes a stretch of code atomic,
and closes windows in which a lock is released and taken again.

## 2. Plan

Done, in the order of importance: the primitives that everything else blocks on.

1. `AbstractRWLock`, `RWLock`; `RWLockProofs`
2. `CalloutSupply`, `ThreadCall`; `ThreadCallProofs`
3. `EventWait`; `EventWaitProofs`
4. `AbstractMsgQueue`, `MsgQueue`; `MsgQueueProofs`
5. `PortRights`; `PortRightsProofs`
6. `Condition`, and `CThreads`, which is composed with it; `ConditionProofs`,
   `CThreadsProofs`

`Queues` (taking entries off a queue) serves 2, 3 and 6, and `QueueTheorems` all
proofs about queues, those of 4 too.

Left:

7. `EventWait`: `thread_halt` and `thread_abort` (AST_HALT, TH_HALTED, the halt
   cycle).
8. `SpinLockOrder`: the order in which wait buckets, thread locks, timer lock
   and callout lock are taken (two hazards of `PROJECT.json` are about it).
9. `ipc_port_check_circularity`: the walk along destinations that keeps a port
   from being in a message to itself (`PortRights` leaves its answer open).
10. `Bootstrap` (`mach_init`), `ZoneAlloc`.

## 3. The modules and the code

### RWLock (`kern/lock.c`)

`vars` are the fields of `struct lock` plus, for each thread, `mode` (what it
holds), `pc` (where it waits) and `asleep`.  One action is one routine from its
`simple_lock(&l->interlock)` to the point where it returns or sleeps; the spin
loop before a sleep is the sleep itself.  A sleep is `thread_sleep` on the lock,
a wake-up is `thread_wakeup` of all sleepers.  `lock_done`,
`lock_write_to_read` and a failing `lock_read_to_write` do their wake-up in the
same action.  Misuse that the code does not check (releasing what one does not
hold) is outside: clients follow the protocol.  The checks the code does make,
in `lock_set_recursive` and `lock_clear_recursive`, are modelled with their
panics; `recursive` is who has turned recursion on and not off, and so may call
the second.  Two things that callers may do and the code does not bear are
constants: asking for recursion after an upgrade (`RecursiveAfterUpgrade`), and
asking, as the owner of the recursion, for a write hold after a downgrade
(`WriteAfterDowngrade`).  `vm_map_pageable`, which downgrades, keeps from the
second (`vm_map.c:1310`).  Where an owner does it, the model is meant up to the
first state in which another thread holds the lock too: what callers believe
they hold means nothing after that.  The runs set both to FALSE, but for
`rwlock_panic`, which is about the first.

`AbstractRWLock` says what a client may rely on: a reader comes in when there is
no writer, a writer when there is nobody, and an upgrade that is accepted turns
a reader into a writer with no writer in between.  `RWLock` implements it under
the mapping in `RWLock.tla` (`Abstract`).

### ThreadCall and CalloutSupply (`kern/thread_call.c`)

An entry has `status`, `key` (function and argument) and `deadline`; `pending`,
`delayed`, `free` are the queues; callout threads are counted as `ready` (about
to look at the queue), `idle` (in `assert_wait(&pending_call_num)`) or active.
One action is a stretch under `thread_call_lock`.  `_call_thread_wake` releases
the lock before its wake-ups, so its processor is left with `pc = "wake"` and
then `"activate"`; `_delayed_call_interrupt` takes its due entries to a private
queue (`transit`) and makes them pending one by one.  With `Cpus` a singleton no
other action fits in between, as at `splsched`.  An entry in transit is IDLE;
`Reenters` says whether clients use one then, which nothing in the code keeps
them from (a client that leaves an entry alone until its callout has run never
does).  The activate thread counts a
new thread before it creates it (`activator = "create"`).  A callout is assumed
to find an entry in the pool of 768 (the code panics otherwise); `MaxCalls`
bounds the callouts there can be (`CalloutParams` holds `CallThreadMin`, for
both modules).  Deadlines are small numbers; `BAD_TVALSPEC`, which turns a
malformed deadline into 0, gives nothing that deadline 0 does not.

`CalloutSupply` keeps only the numbers, and states what the module promises
about threads.  `ThreadCall` implements it (`ImplementsSupply`, proved), so what
is proved of the numbers holds of the callouts.

`queue_remove` and its relatives take an entry out of the middle of a queue and
keep the others in order: `Without` of `Queues`, a recursive function over the
places of the queue, which `EventWait` and `Condition` use too.

### EventWait (`kern/sched_prim.c`, `kern/thread.c`, `kern/mach_clock.c`)

`state` is the set of TH_RUN (R), TH_WAIT (W), TH_SUSP (S) and TH_UNINT (N).
An event is a member of `Events` or, for `&thread->wake_active`, the thread.
The wait buckets are one queue in order of arrival: the code compares the event
itself, so a bucket shared by chance changes nothing but time.

A processor runs a thread, the idle thread, or a thread that is not modelled
(`"other"`: a callout thread, or the one that started the system).
`thread_block` chooses any thread of the run queue: priorities are abstracted.
The old thread is dispatched in a second action, because the code does that
after the switch, under another lock; its wake-up of suspenders is a third.
`clear_wait` is two actions, because it drops the thread lock to take the
bucket's.  `service_timer` and `thread_timeout` are separate: interrupts are
enabled in between.  `LowSpl` says where interrupts may come in; on one
processor the other windows are closed.  `phase` and `target` are a thread's
place in its own code: what follows `assert_wait` is `thread_block`, and
`thread_dowait` is a loop around them.  `asked` is a history variable: whether a
timeout was set for the wait the thread is in.  `wait_result` is forgotten once
the thread runs and has seen it.

Left out: halting (TH_HALTED, `thread_halt`), stacks and swapping
(TH_SWAPPED), processor binding and assignment, priorities.

### MsgQueue (`ipc/ipc_mqueue.c`, `ipc/ipc_pset.c`, `ipc/ipc_port.c`)

`messages` and `threads` are the two queues of every port and port set, `pset`,
`msgcount`, `qlimit`, `blocked` and `seqno` the fields of a port, `state`,
`kmsg`, `ith_seqno` and `wait_result` those of a thread.  One action is one
stretch under a port's or a queue's lock, so the windows between locks are
states: a sender or receiver that has been told something and not looked yet
(`pc` is still `"sendwait"` or `"rcvwait"`, `waiting` is FALSE), a message taken
and not counted out (`"got"`), a receiver that has its message and on several
processors is not yet woken (`"go"`, when `MP`), a circular message about to be
destroyed with its port (`"kill"`), a dead port whose messages are still there.
The wake-ups of one `ipc_mqueue_move` are one action: `Matches` is its double
loop, as the set of pairings that it can produce (there is one).

A message is its port, its place in the order of acceptance and whether it is
big.  A receiver's buffer fits everything, or is short (a big message comes with
an error and the header alone), or is short with MACH_RCV_LARGE (the message
stays, the receiver learns its size): the checks of old formats, trailers and
scatter lists end in one of these three ways.  `sent` and `renumbered` are
history.

`AbstractMsgQueue` is a FIFO queue per port: a message is appended by a send,
goes from the head to a receiver that has none, and is destroyed only with a
dead port.  Sets, hand-overs past the queue and moves between queues are
invisible in it: `ImplementsFifo` says that they are.

### PortRights (`ipc/ipc_right.c`, `ipc/ipc_port.c`, `ipc/ipc_object.c`)

`entry` is a space's table of names: the port, the types, the user references
and whether a dead-name request is registered.  `port` has the fields of `struct
ipc_port` that count.  `naked` are the rights in messages and in the kernel's
hands.  One action is one call under the space's write lock; `ipc_right_check`,
which every call makes first, is part of it (`Checked`, `CheckedPorts`).  What
happens unlocked is a step of its own: the second half of `ipc_port_destroy`
answers the requests of a dead port one by one (`dying`), a dead space is
cleaned entry by entry, and notifications are on their way until received.
`ipc_kmsg_copyin_header` with two names keeps the space locked (`busy`) while
ports die, and may have to undo its first copyin.

`held` is history: what a task that adds up the user references it was given and
those it gave back believes of a name.  `UrefsMatch` compares it with the
kernel.  In two places the history follows the kernel's count, and `UrefsMatch`
says no more there than that the sums are right: at the maximum, where the
kernel drops references without telling anybody, and in a rename, where a
dead-name notification on its way names the old name and its reference has moved
to the new one.  A no-senders request without a right to notify cancels the one
before.  `early` marks a no-senders request made before the first send right.
`stray` counts the send rights of the finding below, so that `RightsCounted`
shows there is no other.

Compatibility entries (MACH_IPC_COMPAT), message-accepted requests, the ports
that notifications go to and port sets are left out; a check for circularity may
go either way.

### Condition and CThreads (`Libc/threads.subproj`)

`Condition` is `cprocs.c`: mutexes, conditions with a spin lock and a queue, and
a wait port for each cproc.  A step is what one holder of `c->lock` does, except
that a waiter that times out empties the queue and refills it in two, because
`condition_signal` looks at `queue.head` without the lock.  `todo` is the queue
a broadcaster has copied, or the one waiter a signaller has dequeued.  Plain and
timed routines differ in how they wake (the state and perhaps a message, or
CPROC_EATING and always a message), and a condition is used with one family.

`CThreads` is `cthreads.c` over an instance of `Condition`: each of its steps is
a call of the library and what the routine does up to the next call, and
`Library` steps interleave.  A record is freed to a list and reused by the next
fork, which the condition's queue and mutex in it survive only if nobody uses
them any more (`cthread_alloc` is one step, as is a signal: that it stores into
the spin lock of the condition without taking it is not seen).  The limit on
cprocs is set before the first fork.

## 4. The runs

| run | instance | shows |
|---|---|---|
| `rwlock` | 3 threads, fair | exclusion, no lost wake-up, no panic, fields account for holders; refinement of the abstract lock; a claimed write or upgrade is served |
| `rwlock_panic` | 2 threads, violation | an upgraded writer that asks for recursion panics |
| `callout` | 2 processors, 1 client entry (left alone in transit), 1 pool entry, time 0..2, fair | queues match statuses across dropped locks, timer, a thread for every pending callout, no early start; refinement of `CalloutSupply`; every callout is started or cancelled |
| `callout_transit` | the same with `Reenters`, violation | an entry in transit is queued a second time |
| `wait_up` | 1 processor, 2 threads, one with timeouts, fair | no panic, timeouts and interrupts end only what they may; a timed wait ends, thread_dowait returns |
| `wait_mp` | 2 processors, 3 threads: two that wait for events, one of them held by the others | no panic, one place per runnable thread, stopped stays stopped, no suspender forgotten |
| `mqueue` | 1 port, 1 set, 2 threads that send and receive, limits 0 and 2, several processors | counts, order, one queue, no wasted place, no forgotten sleeper; refinement of `AbstractMsgQueue` |
| `mqueue_reply` | the same with limit 1 and one processor, violation | the kernel's reply meets a blocked sender |
| `rights` | 1 port, 2 spaces, one with two names, one mortal; 3 user references at most | counts of rights, references and user references; one receiver; no-senders true and not lost |
| `rights_backup` | the same, violation | a send right is counted for ever |
| `cond` | 3 threads, 1 mutex, a plain and a timed condition, fair | one wake-up for each waiter, none left over; a waiter that is taken wakes |
| `cthreads` | 4 cprocs, 2 records, limit 0 or 2 | every fork gets a cproc, waiters are told, records freed once, main leaves last |

Why the bounds are enough.  The lock: two readers that upgrade at once and a
writer, or a holder and waiters of two kinds, are three threads, and what holds
of more is proved.  Callouts: an entry that is first and one that is not, or
one scheduled and one in service; two deadlines besides now; a thread that is
busy, one idle (`CallThreadMin = 1`) and one being created; the handler on one
processor and a client on the other. Waits: waker, sleeper and a timeout need
two threads and a processor; a forgotten suspender needs a target and two
suspenders, the windows between locks two processors.  In `wait_mp` only the
target is held (`Held`), and one suspender waits for nothing else (`Waiters`);
threads that hold each other are in `wait_up`, and any number in the proofs.  One hold of a thread at a time (`MaxHolds = 1`)
lets a stop, a release and another stop follow each other; nested holds are in
the proof. Queues: a message in the queue, one in a receiver's hands and a
sender blocked need two messages and two threads, since other senders
(`ipc_mqueue_send_always`) need no thread; limits 0 and 2 make every message
wait or none, and a raise by two wakes two; two sequence numbers order two
messages.  Rights: two names in one space for renames and merges, another space
for transfers and death; `UrefsMax = 3` lets one reference be added below the
limit; one naked right of a kind, one notification and one make-send count at a
time are enough for a race, and `MaxStray = 1` shows the finding.  Conditions:
a signaller and two waiters.  C threads: main, two cthreads that run and one
cproc more, records that are reused.  Symmetry is used where threads, entries,
keys, names, records or processors are interchangeable, never in the runs that
check liveness.

The deadlock check is on for locks, callouts and waits: the clock ticks, clients
call, an idle processor finds work or is interrupted.  It is off where the
system may stop: in `mqueue`, `mqueue_reply`, `rights` and `rights_backup` when
port, set and space are dead or the bounds are used up (on several processors a
receiver woken late also stops `mqueue`, see below), in `cond` when all threads
wait for a plain condition, in `cthreads` when cthreads join each other or the
program has exited.  That nobody sleeps who should not is a property of each.

Fairness.  A thread that runs leaves the kernel's critical stretches, so
processors proceed (weak fairness).  The scheduler ages priorities, so a
runnable thread runs (strong fairness), and quanta and ASTs make a running
thread block when it leaves the kernel (strong fairness, because in the middle
of `thread_dowait` it may not).  The clock ticks and callout threads, which have
the highest kernel priority, get to each timeout.  Nothing else is assumed:
callouts need not return, and in `wait_up` nobody need wake or resume
anybody.  In `rwlock` holders release
what they hold, at each depth of nesting.  In `cond` a thread inside the library
keeps running, and one that spins for `c->lock` gets it, because it is kept for a
few instructions only (strong fairness); mutexes may be kept for ever, and
nobody need signal or time out.

Findings.  Four runs end in a violation.  Three do on any build.
`lock_set_recursive` panics for a holder by upgrade.  `msg_rpc_trap` (and
`msg_rpc` of `kern/ipc_mig.c`) asserts that nobody is blocked on a port
whose queue it has found empty, but a receiver of the port may have taken the
last message and not counted it out.  And a send right that becomes a dead name
with its receive right stays in `ip_srights` of a port that goes to its backup
instead of dying.  The fourth needs several processors, where a lock is dropped
that one processor need not fear to drop: an entry in transit can be queued
twice (`callout_transit`).

Other disagreements have no run of their own.  Again on several processors,
`thread_timeout` can meet a timer that is set again, `clear_wait` can end an
uninterruptible wait, and a receiver that was interrupted and receives again can
be woken by the sender that served its first receive, and panics (in `mqueue` it
has no step from there).  The theorems about the same properties have hypotheses
that exclude these cases, and the runs are on instances without them.  On any
build, the recursive paths of `lock.c` give an owner that has downgraded a write
hold beside other readers; its one caller works around it.  And entries with
equal deadlines are not first come, first served (`thread_call.c:262`).

What the model shows besides: a thread that sleeps in `thread_dowait` is not
woken when its target is released before it stops.  It goes on sleeping until
the target stops for another reason.  The code promises nothing here, so no run
calls it a violation, and `SuspendReturns` is stated for a target that is held.

## 5. The proofs

All for any sets of threads, processors, entries and conditions and any bounds,
from the assumptions named in the modules.

* `RWLockProofs`.  `LockInvariant`: `LockInv` is inductive.  It consists of
  the type, `CountsMatch` (`read_count` is the number of read holds, counting
  recursion), `ClaimsMatch` (`want_write` and `want_upgrade` each stand for one
  thread that holds or waits), `RecursionMatches`, and `WaitersHoldNothing`.
  Exclusion is not inductive by itself: a writer comes in on the evidence of
  `read_count` and `want_upgrade`, so those have to be tied to the holders.
  All of it is under the hypothesis that no owner asks for a write hold after its
  downgrade (`~WriteAfterDowngrade`): then a nested write hold has a write hold
  below it.  The code needs it: the recursive paths never look at the other
  holders.
  From it `LockExclusion`, `LockTypeOK`, `LockBits` and `NoLostWakeup`; and
  `LockNeverPanics`, for callers that do not ask for recursion after an upgrade
  either: a writer by `want_write` finds it set, and who turns recursion off is
  the owner, because no other writer can have come in to take its place.
  `LockImplementsAbstract`: each action maps to a step of `AbstractRWLock` or a
  stutter, by cases over the actions from `LockInv`.
* `QueueTheorems` has no theorem about the system: it is what the others
  need to know of queues, for a queue of any length.  What `Without` computes
  is shown by the least counterexample over a set of lengths (`LeastNat`,
  `UpTo`), because the library's induction rules take an operator.
* `ThreadCallProofs`.  `TypeCorrect`.  `SuppliesThreads`: every step is a step
  of `CalloutSupply` or changes none of its numbers.  `SupplyInvariant`:
  `SupplyInv` is inductive for `CalloutSupply`, and so holds of the callouts.
  Its parts need each other: a wake-up is wasted if no thread is idle, which is
  harmless because then every thread is busy or on its way (`ThreadsCounted`)
  and either they are enough or the activator is coming (`Supplied`); and a
  thread goes idle only when nothing is pending (`WakesSuffice`).  From it
  `Attended`: a pending callout never depends on another's return.
  `QueuesKept`, `TimerKept` and `NoEarlyCallout` rest on `CallInv`: each entry
  is on exactly the queue that its status says (or, when due, in the hands of
  one processor), once, and the delayed queue is in the order of deadlines, so
  that its head is what the timer must cover.  They hold under `Guarded`:
  clients leave an entry in transit alone, or use the pool only, or there is one
  processor.  The code needs it.  `_delayed_call_interrupt` has taken due
  entries off the queue and set them IDLE when it drops the lock, and a client
  that enters such an entry on another processor queues it twice
  (`callout_transit`).
* `ConditionProofs`.  `TypeCorrect` and `NoWakeupLost` (`OneWakeup`), from
  `IInv`: who is on a queue waits there, once, unclaimed (`QueuedOK`); who has
  been taken off is in one thread's hands, in the state that its call leaves it
  in (`TakenOK`); a message in a port is for a waiter that is called and is to
  receive it (`MailOK`); every waiter is in one of these (`Attended`); and while
  a timed-out waiter rebuilds the queue it holds the condition (`HeldOK`).
* `CThreadsProofs`.  `PoolInvariant`: `PoolInv` is inductive.  It contains the
  library's `IInv`, through an instance of `ConditionProofs`: a call of the
  library is one of its steps, so that what is proved there need not be proved
  again.  `PlaceOK` and `CallOK` say, for each place in the package, what a
  thread has and what it waits for or signals; `LockOK` that only who is in the
  right place has a mutex, and who must have `cthread_lock` has it.  `RecordOK`
  is about reuse: one cproc runs a cthread, one thread claims it, T_DETACHED and
  T_RETURNED tell them who frees it, and who only has yet to signal it
  (`signal_done`, when it may have been freed and forked again) does not run it.
  Because of it a record that is taken from the free list has a free mutex and
  an empty queue (`FreeRecord`), and `cthread_alloc`, which clears them, takes
  nothing away from anybody.  `CountsOK`: `n_cthreads` counts main, requests and
  cprocs that run a cthread, `n_cprocs` those created.  From it
  `RecordsFreedOnce`; `MainExitsLast`, since no step but `cthread_exit` of main
  ends the program; `NobodyLeftWaiting`, since a cthread has one claimant and
  `cthread_idle` only main, so that a signal leaves nobody (`OneWaiter`), and
  since who marks a return or is counted last goes on to signal; and
  `EveryForkServed`, which adds up cprocs: while `cthread_fork` holds the lock
  each has a cthread, comes to look, or sleeps (`CprocsKnown`), so when no cproc
  is created the signal that follows finds one, or one is coming.
* `EventWaitProofs`.  `WaitInvariant`: `WaitInv` is inductive.  `AllPlaced`: a
  thread marked TH_RUN is in one place, the run queue, a processor, one that
  will run it next, or one that has just left it, and a thread not marked is in
  none; two processors between switch and dispatch make this more than
  a matter of the run queue.  `WaitOK`: the wait queue holds the threads with an
  event, once each.  `AwakeOK`: what is runnable does not wait, unless it is
  about to block, without which `thread_dispatch` could leave a thread nowhere.
  `HoldsOK`: a user stop is a hold.  From it `ThreadsPlaced` (`OnePlace`),
  `StoppedStay` (`StaysStopped`: a stopped thread runs again only when its last
  hold is released) and `SuspendersKept` (`SuspenderRemembered`, whose own
  induction is over what a step does to the bits of a state).  For timers a
  hypothesis is needed, because the code fails without it (see the
  disagreements above): `KernelNeverPanics` where a callout cannot race with
  the thread it is for (nobody sets timeouts, or one processor);
  `WaitsEndAsAllowed` on one processor, where the rest of a `clear_wait` and a
  timeout's callout always find the wait that they are for (`ForThisWait`).
* `MsgQueueProofs`.  `QueueInvariant`: `QueueInv` is inductive.  `ThreadOK`: a
  thread is on the queue that it waits on, and on no other, until it is told why
  its wait is over, and has a message when it has been given one.  `QueueOK`: a
  port's messages are in its own queue or its set's, never where a receiver
  waits too; `PortOK`: nobody is blocked on a dead port, and only a port with a
  receive right is in a set.  The double loop of `ipc_mqueue_move` hands the
  first messages to receivers in order and takes off those that refuse one
  (`MatchFacts`, `TakerFacts`, `RestFacts`).  Each action is shown to be one of
  four changes of the messages (`MessageStep`): none shows (`Quiet`), the first
  of a port go to receivers, perhaps after a new one is appended (`Handed`), one
  is counted out (`Counted`), one of a dead port is destroyed (`Purged`).  What
  the counts, the order and the refinement need is then proved once for each of
  the four.  From it `MessagesWhereReceiversLook`, `MessagesCounted` and
  `OneFifoEach`; `SleepersFound`; `NumbersInOrder`, from `OrderOK`: what a thread
  has was accepted before what is queued, and numbers go up with acceptance;
  and `NoPlaceLost`, by what a step does to the free places that have no woken
  sender (`Spare`, `Served`).
* `PortRightsProofs`.  `RightsInvariant`: `RightsInv` is inductive.  `CountsOK`:
  rights and references add up.  `ReceiverOK`: a port is active exactly as long
  as its receive right is in an entry, the one that the port names, or naked;
  without it the death of a port could leave a second receiver.  `ClaimsOK` and
  `BusyOK`: what an `ipc_kmsg_copyin_header` has copied in is still there, and its
  entry as it was left, or undoing the copyin would make a right from nothing or
  go over the maximum of user references.  `SlotOK`: an entry that knows of a
  dead-name request on a live port is in the port's table, without which a
  cancelled request would leave a notification owed.  `Unique`: merging a send
  right finds the one entry that has it.  `NoSendersOK` speaks of `ip_srights`,
  which the code looks at, and not of the send rights there are: they differ by
  `stray`, so that a true notification needs only that a count of zero is
  exact, and one not lost is claimed for a port without stray rights.  The
  proof has a lemma for each kind of change (an entry, a naked right, a count,
  a request) and one for each call, which says which of them the call makes.
  From it `TypeCorrect`, `RightsAlwaysCounted`, `RefsAlwaysCounted`,
  `AlwaysOneReceiver`, `UrefsAlwaysMatch`, `NoSendersAlwaysTrue` and
  `NoSendersNeverLost`: the seven invariants of the run `rights`.

The assumptions: `CallThreadMin` and `MaxHolds` are at least 1, there is a key
and the master is one of finitely many processors, client entries and pool
entries differ, markers such as None are not threads or events, `Timed` is a
part of what it is a part of, and bounds are numbers.  Names and spaces are
finitely many, which the counts of rights need (a table of entries is finite),
and a name can have three user references at least (MACH_PORT_UREFS_MAX is
65535).  So are the threads of `MsgQueue`, and the cprocs and records of
`CThreads`, which counts them; None is not a message; and the names of the
package's own mutex and conditions are not records.

Every invariant, action property and refinement that a passing run checks is
also proved, some under the hypotheses named above.  Only model-checked:
liveness (that a claim on a lock is served, a callout started, a wait ended, a
taken waiter woken: it needs fairness and ENABLED, which this prover does not
handle).

## 6. Not modelled

Of IPC: the bodies of messages and their memory (`ipc_kmsg.c`), message-accepted
requests, compatibility with Mach 2 ports, entry tables, kernel objects.  Of C
threads: `fork()` of a program with threads, stacks, mig.  Virtual memory,
processor sets, halting, allocation and the bootstrap server are in the plan or
were left for their size.  Not planned: the BSD half of the kernel and imported
programs (other projects' code), drivers and machine-dependent code (hardware),
priority and load computation (arithmetic without protocol), the debugger.
Simple locks below the models are the atomicity of the actions; that they are
taken in a consistent order is not shown, and `PROJECT.json` lists two places
where it is in doubt.  Memory never runs out in the models; in the code a notification
is then dropped (`ipc_notify.c:515`), a receive with a scatter list that fails
may panic (`ipc_kmsg.c:3581` with `ipc_mqueue.c:1119`), and so does a callout
when its pool of 768 entries is empty (`thread_call.c:177`).  Conditions with
and without timeouts are not mixed: each condition of `Condition` is used with
one family of calls.
