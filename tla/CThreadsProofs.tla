---------------------------- MODULE CThreadsProofs ----------------------------
(***************************************************************************)
(* C threads, for any numbers of cprocs and of cthreads: records are freed *)
(* once, cthreads get their cprocs, waiters are told, main leaves last.    *)
(***************************************************************************)
EXTENDS CThreads, QueueTheorems, FiniteSetTheorems

-----------------------------------------------------------------------------
(* The inductive invariant.                                                *)

\* What is proved of the library, for conditions without timeouts.
Proved == INSTANCE ConditionProofs WITH Timed <- {}

\* Where a cproc is as long as the function of its cthread has not returned, as
\* long as it is this cthread's, and where main can be.
Running == {"user", "fork", "signal_needed", "join", "detach", "free", "return", "free_own"}
Working == Running \union {"signal_done", "finish"}
MainPlaces == {"user", "fork", "signal_needed", "join", "detach", "free", "exit", "exited"}

Claiming == {"join", "detach", "free"}
Waits == {"unlock", "spin", "receive", "relock"}
Signalling == {"signal", "continue", "send"}

PoolType ==
  /\ at \in [Threads -> Working \union {"none", "body", "look", "idle", "exit", "exited"}]
  /\ rec \in [Threads -> Records \union {None}]
  /\ target \in [Threads -> Records \union {None}]
  /\ flags \in [Records -> SUBSET {"RETURNED", "DETACHED"}]
  /\ requests \in Seq(Records)
  /\ live \subseteq Records /\ handle \subseteq Records /\ finished \subseteq Records
  /\ n_cthreads \in Nat /\ n_cprocs \in Nat /\ max_cprocs \in Nat

\* Who has a cthread, and who has one to join, to detach or to free.
PlaceOK(t) ==
  /\ rec[t] # None <=> t # Main /\ at[t] \in Working
  /\ target[t] # None <=> at[t] \in Claiming
  /\ IF t = Main THEN at[t] \in MainPlaces
     ELSE at[t] \in Working \union {"none", "body", "look", "idle"}

\* What a thread inside the library waits for, or signals.
CallOK(t) ==
  /\ pc[t] \in {"run"} \union Waits \union Signalling
  /\ pc[t] \in Waits =>
       \/ at[t] = "join" /\ on[t] = target[t] /\ with[t] = target[t]
       \/ at[t] = "look" /\ on[t] = "needed" /\ with[t] = "cthread_lock"
       \/ at[t] = "exit" /\ on[t] = "idle" /\ with[t] = "cthread_lock"
  /\ pc[t] \in Signalling =>
       \/ at[t] = "user" /\ on[t] = "needed"
       \/ at[t] = "idle" /\ on[t] = "idle"
       \/ at[t] = "finish" /\ on[t] = rec[t]

\* The one mutex that t can have.
Own(t) ==
  IF at[t] \in {"fork", "look", "idle", "exit"} THEN "cthread_lock"
  ELSE IF at[t] \in {"join", "detach"} THEN target[t]
  ELSE IF at[t] = "return" THEN rec[t] ELSE None

\* t has cthread_lock.
Locks(t) ==
  \/ at[t] \in {"fork", "idle"}
  \/ at[t] \in {"look", "exit"} /\ pc[t] \in {"run", "unlock"}

LockOK ==
  /\ \A t \in Threads : \A m \in Mutexes : mutex[m] = t => m = Own(t)
  /\ \A t \in Threads : Locks(t) => mutex["cthread_lock"] = t

\* t runs the function of x.
Runs(t, x) == rec[t] = x /\ at[t] \in Running

\* A record is used by one cproc and claimed by one thread at most; whoever frees
\* it is the last.
RecordOK(x) ==
  /\ \A t, u \in Threads : Runs(t, x) /\ Runs(u, x) => t = u
  /\ \A t, u \in Threads : target[t] = x /\ target[u] = x => t = u
  /\ \A t \in Threads : Runs(t, x) =>
       x \in live /\ x \notin Range(requests) /\ "RETURNED" \notin flags[x]
  /\ \A t \in Threads : target[t] = x =>
       x \in live /\ x \notin handle /\ "DETACHED" \notin flags[x]
  /\ x \in handle => x \in live /\ "DETACHED" \notin flags[x]
  /\ x \in Range(requests) => x \in live /\ "RETURNED" \notin flags[x]
  /\ x \in live /\ "RETURNED" \in flags[x] => x \in finished
  /\ \A t \in Threads : rec[t] = x /\ at[t] = "return" => x \in finished
  /\ \A t \in Threads : rec[t] = x /\ at[t] = "free_own" =>
       x \in finished /\ "DETACHED" \in flags[x]
  /\ \A t \in Threads : target[t] = x /\ at[t] = "free" => "RETURNED" \in flags[x]

Busy == {t \in Threads : rec[t] # None}
Created == {t \in Threads : at[t] # "none"}

\* The counts of cthreads, main among them, and of cprocs.
CountsOK ==
  /\ IsInjective(requests)
  /\ n_cthreads = 1 + Len(requests) + Cardinality(Busy)
  /\ n_cprocs = Cardinality(Created)

PoolInv ==
  /\ Proved!IInv /\ PoolType
  /\ \A t \in Threads : PlaceOK(t) /\ CallOK(t)
  /\ LockOK
  /\ \A x \in Records : RecordOK(x)
  /\ CountsOK

-----------------------------------------------------------------------------
(* The library.                                                            *)

LEMMA Names ==
  /\ Main \in Threads /\ None \notin Threads /\ None \notin Mutexes /\ None \notin Records
  /\ "needed" \in Conds /\ "idle" \in Conds /\ Records \subseteq Conds
  /\ "cthread_lock" \in Mutexes /\ Records \subseteq Mutexes
  /\ \A x \in Records : x # "needed" /\ x # "idle" /\ x # "cthread_lock"
  /\ "needed" # None /\ "idle" # None /\ "cthread_lock" # None
BY CThreadsAssumption DEF Conds, Mutexes

\* What the pool needs to know of the library.
LEMMA LibFacts ==
  ASSUME Proved!IInv
  PROVE  /\ Lib!TypeOK
         /\ mutex \in [Mutexes -> Threads \union {None}]
         /\ queue \in [Conds -> Seq(Threads)]
         /\ pc \in [Threads -> {"run", "unlock", "spin", "receive", "timed_out", "requeue",
                                "relock", "signal", "broadcast", "continue", "send"}]
         /\ on \in [Threads -> Conds \union {None}]
         /\ with \in [Threads -> Mutexes \union {None}]
         /\ \A c \in Conds : Range(queue[c]) \subseteq Threads /\ IsInjective(queue[c])
         /\ \A c \in Conds : \A t \in Range(queue[c]) :
              t \in Threads /\ on[t] = c /\ pc[t] \in {"unlock", "spin", "receive"}
<1>1. Lib!TypeOK
  BY DEF Proved!IInv, Proved!TypeOK, Lib!TypeOK
<1>2. /\ mutex \in [Mutexes -> Threads \union {None}]
      /\ queue \in [Conds -> Seq(Threads)]
      /\ pc \in [Threads -> {"run", "unlock", "spin", "receive", "timed_out", "requeue",
                             "relock", "signal", "broadcast", "continue", "send"}]
      /\ on \in [Threads -> Conds \union {None}]
      /\ with \in [Threads -> Mutexes \union {None}]
  BY <1>1 DEF Lib!TypeOK
<1>3. \A c \in Conds : Range(queue[c]) \subseteq Threads
  BY <1>2, RangeSeq
<1>4. \A c \in Conds : /\ IsInjective(queue[c])
                       /\ \A t \in Range(queue[c]) : on[t] = c /\ Proved!Asleep(t)
  BY DEF Proved!IInv, Proved!QueuedOK, Proved!IsInjective, IsInjective, Proved!Range, Range
<1>5. \A t : Proved!Asleep(t) => pc[t] \in {"unlock", "spin", "receive"}
  BY DEF Proved!Asleep
<1> QED
  BY <1>1, <1>2, <1>3, <1>4, <1>5

\* The library's steps are those that the proofs about it are of.
LEMMA LibStep ==
  ASSUME Proved!IInv,
         \/ \E t \in Threads : Lib!Inside(t)
         \/ \E t \in Threads, m \in Mutexes : Lib!mutex_lock(t, m) \/ Lib!mutex_unlock(t, m)
         \/ \E t \in Threads, c \in Conds, m \in Mutexes : Lib!condition_wait(t, c, m)
         \/ \E t \in Threads, c \in Conds : Lib!condition_signal(t, c)
         \/ UNCHANGED libVars
  PROVE  Proved!IInv'
<1>0. Proved!ConditionAssumption
  BY Names DEF Proved!ConditionAssumption
<1>1. ASSUME NEW t \in Threads, Lib!Inside(t) PROVE Proved!Inside(t)
  <2>1. Lib!WaitUnlock(t) => Proved!WaitUnlock(t)
    BY DEF Lib!WaitUnlock, Proved!WaitUnlock, Lib!Goto, Proved!Goto
  <2>2. Lib!Spin(t) => Proved!Spin(t)
    BY DEF Lib!Spin, Proved!Spin, Lib!Goto, Proved!Goto
  <2>3. Lib!Block(t) => Proved!Block(t)
    BY DEF Lib!Block, Proved!Block, Lib!Goto, Proved!Goto
  <2>4. Lib!Receive(t) => Proved!Receive(t)
    BY DEF Lib!Receive, Proved!Receive, Lib!Goto, Proved!Goto
  <2>5. Lib!TimeOut(t) => Proved!TimeOut(t)
    BY DEF Lib!TimeOut, Proved!TimeOut, Lib!Goto, Proved!Goto, Lib!Claimed,
       Proved!Claimed
  <2>6. Lib!TakeQueue(t) => Proved!TakeQueue(t)
    BY DEF Lib!TakeQueue, Proved!TakeQueue, Lib!Goto, Proved!Goto, Lib!Claimed,
       Proved!Claimed
  <2>7. Lib!Requeue(t) => Proved!Requeue(t)
    BY DEF Lib!Requeue, Proved!Requeue, Lib!Goto, Proved!Goto, Lib!Without,
       Proved!Without, Lib!Kept, Proved!Kept
  <2>8. Lib!Relock(t) => Proved!Relock(t)
    BY DEF Lib!Relock, Proved!Relock, Lib!Goto, Proved!Goto, Lib!Back, Proved!Back
  <2>9. Lib!cond_signal(t) => Proved!cond_signal(t)
    BY DEF Lib!cond_signal, Proved!cond_signal, Lib!Take, Proved!Take, Lib!First,
       Proved!First, Lib!Goto, Proved!Goto, Lib!Back, Proved!Back, Lib!Range,
       Proved!Range, Lib!Reverse, Proved!Reverse
  <2>10. Lib!cond_broadcast(t) => Proved!cond_broadcast(t)
    BY DEF Lib!cond_broadcast, Proved!cond_broadcast, Lib!Take, Proved!Take, Lib!Goto,
       Proved!Goto, Lib!Back, Proved!Back, Lib!Range, Proved!Range, Lib!Reverse,
       Proved!Reverse
  <2>11. Lib!cproc_continue(t) => Proved!cproc_continue(t)
    BY DEF Lib!cproc_continue, Proved!cproc_continue, Lib!Goto, Proved!Goto,
       Lib!Advance, Proved!Advance, Lib!Back, Proved!Back
  <2>12. Lib!Send(t) => Proved!Send(t)
    BY DEF Lib!Send, Proved!Send, Lib!Goto, Proved!Goto, Lib!Advance, Proved!Advance,
       Lib!Back, Proved!Back
  <2> QED
    BY <1>1, <2>1, <2>2, <2>3, <2>4, <2>5, <2>6, <2>7, <2>8, <2>9, <2>10, <2>11, <2>12
       DEF Lib!Inside, Proved!Inside
<1>2. ASSUME NEW t \in Threads, NEW m \in Mutexes,
             Lib!mutex_lock(t, m) \/ Lib!mutex_unlock(t, m)
      PROVE  Proved!Caller(t)
  <2>1. Proved!mutex_lock(t, m) \/ Proved!mutex_unlock(t, m)
    BY <1>2 DEF Lib!mutex_lock, Lib!mutex_unlock, Proved!mutex_lock, Proved!mutex_unlock
  <2> QED
    BY <2>1, Zenon DEF Proved!Caller
<1>3. ASSUME NEW t \in Threads, NEW c \in Conds, NEW m \in Mutexes,
             Lib!condition_wait(t, c, m)
      PROVE  Proved!Caller(t)
  <2>1. Proved!condition_wait(t, c, m)
    BY <1>3 DEF Lib!condition_wait, Proved!condition_wait, Lib!Enqueue, Proved!Enqueue,
       Lib!Goto, Proved!Goto
  <2> QED
    BY <2>1, Zenon DEF Proved!Caller
<1>4. ASSUME NEW t \in Threads, NEW c \in Conds, Lib!condition_signal(t, c)
      PROVE  Proved!Caller(t)
  <2>1. Proved!condition_signal(t, c)
    BY <1>4 DEF Lib!condition_signal, Proved!condition_signal, Lib!Call, Proved!Call,
       Lib!Goto, Proved!Goto
  <2> QED
    BY <2>1, Zenon DEF Proved!Caller
<1>5. [Proved!Next]_(Proved!vars)
  <2>1. ASSUME UNCHANGED libVars PROVE UNCHANGED Proved!vars
    BY <2>1 DEF libVars, Proved!vars
  <2>2. (\E t \in Threads : Proved!Inside(t) \/ Proved!Caller(t)) => Proved!Next
    BY Zenon DEF Proved!Next
  <2> QED
    BY <1>1, <1>2, <1>3, <1>4, <2>1, <2>2, Zenon
<1> QED
  BY <1>0, <1>5, Proved!StepOK

LEMMA LibInit == Lib!Init => Proved!IInv
<1>0. Proved!ConditionAssumption
  BY Names DEF Proved!ConditionAssumption
<1>1. Lib!Init => Proved!Init
  BY DEF Lib!Init, Proved!Init
<1> QED
  BY <1>0, <1>1, Proved!InitOK

\* What a step inside the library does: a wait goes on, a wait ends, a signal takes
\* a waiter, or the waiter that was taken is woken.
WaitGoesOn(t) ==
  /\ pc[t] \in {"unlock", "spin", "receive"} /\ pc'[t] \in {"spin", "receive", "relock"}
  /\ on'[t] = on[t] /\ with'[t] = with[t] /\ queue' = queue
  /\ mutex' = IF pc[t] = "unlock" THEN [mutex EXCEPT ![with[t]] = None] ELSE mutex

WaitEnds(t) ==
  /\ pc[t] = "relock" /\ pc'[t] = "run" /\ queue' = queue
  /\ mutex[with[t]] = None /\ mutex' = [mutex EXCEPT ![with[t]] = t]

SignalTakes(t) ==
  /\ pc[t] = "signal" /\ mutex' = mutex
  /\ IF queue[on[t]] = <<>> THEN pc'[t] = "run" /\ queue' = queue
     ELSE /\ pc'[t] = "continue" /\ on'[t] = on[t]
          /\ queue' = [queue EXCEPT ![on[t]] = Tail(@)]

SignalWakes(t) ==
  /\ pc[t] \in {"continue", "send"} /\ pc'[t] \in {"continue", "send", "run"}
  /\ pc'[t] # "run" => on'[t] = on[t]
  /\ queue' = queue /\ mutex' = mutex

LEMMA InsideEffect ==
  ASSUME Proved!IInv, NEW t \in Threads, CallOK(t), Lib!Inside(t)
  PROVE  /\ \A u \in Threads \ {t} : pc'[u] = pc[u] /\ on'[u] = on[u] /\ with'[u] = with[u]
         /\ WaitGoesOn(t) \/ WaitEnds(t) \/ SignalTakes(t) \/ SignalWakes(t)
<1> DEFINE Others == \A u \in Threads \ {t} :
                       pc'[u] = pc[u] /\ on'[u] = on[u] /\ with'[u] = with[u]
<1>0. /\ pc \in [Threads -> {"run", "unlock", "spin", "receive", "timed_out", "requeue",
                             "relock", "signal", "broadcast", "continue", "send"}]
      /\ on \in [Threads -> Conds \union {None}] /\ with \in [Threads -> Mutexes \union {None}]
      /\ queue \in [Conds -> Seq(Threads)]
  BY LibFacts
<1>1. ASSUME NEW l, Lib!Goto(t, l) PROVE pc'[t] = l /\ \A u \in Threads \ {t} : pc'[u] = pc[u]
  BY <1>0, <1>1 DEF Lib!Goto
<1>2. ASSUME Lib!Back(t) PROVE pc'[t] = "run" /\ Others
  BY <1>0, <1>1, <1>2 DEF Lib!Back
<1>3. CASE Lib!WaitUnlock(t)
  BY <1>1, <1>3 DEF Lib!WaitUnlock, WaitGoesOn
<1>4. CASE Lib!Spin(t) \/ Lib!Block(t) \/ Lib!Receive(t)
  BY <1>1, <1>4 DEF Lib!Spin, Lib!Block, Lib!Receive, WaitGoesOn
<1>5. CASE Lib!TimeOut(t) \/ Lib!TakeQueue(t) \/ Lib!Requeue(t) \/ Lib!cond_broadcast(t)
  BY <1>5 DEF Lib!TimeOut, Lib!TakeQueue, Lib!Requeue, Lib!cond_broadcast, CallOK, Waits,
     Signalling
<1>6. CASE Lib!Relock(t)
  BY <1>2, <1>6 DEF Lib!Relock, WaitEnds
<1>7. CASE Lib!cond_signal(t)
  <2> DEFINE q == queue[on[t]]
  <2>1. on[t] \in Conds
    BY <1>7 DEF Lib!cond_signal, Proved!IInv, Proved!CallsOK
  <2>2. CASE q = <<>>
    <3>1. Lib!Back(t) /\ queue' = [queue EXCEPT ![on[t]] = <<>>] /\ mutex' = mutex
      BY <1>7, <2>2 DEF Lib!cond_signal, Lib!Take, Lib!First
    <3>2. queue' = queue
      BY <1>0, <2>1, <2>2, <3>1
    <3> QED
      BY <1>2, <1>7, <2>2, <3>1, <3>2 DEF SignalTakes, Lib!cond_signal
  <2>3. CASE q # <<>>
    <3>1. /\ Lib!Goto(t, "continue") /\ UNCHANGED <<on, with>>
          /\ queue' = [queue EXCEPT ![on[t]] = Tail(q)] /\ mutex' = mutex
      BY <1>7, <2>3 DEF Lib!cond_signal, Lib!Take, Lib!First
    <3> QED
      BY <1>1, <1>7, <2>3, <3>1 DEF SignalTakes, Lib!cond_signal
  <2> QED
    BY <2>2, <2>3
<1>8. CASE Lib!cproc_continue(t)
  <2>1. /\ pc[t] = "continue" /\ queue' = queue /\ mutex' = mutex
        /\ \/ Lib!Goto(t, "send") /\ UNCHANGED <<on, with>>
           \/ Lib!Goto(t, "continue") /\ UNCHANGED <<on, with>>
           \/ Lib!Back(t)
    BY <1>8 DEF Lib!cproc_continue, Lib!Advance
  <2> QED
    BY <1>1, <1>2, <2>1 DEF SignalWakes
<1>9. CASE Lib!Send(t)
  <2>1. /\ pc[t] = "send" /\ queue' = queue /\ mutex' = mutex
        /\ \/ Lib!Goto(t, "continue") /\ UNCHANGED <<on, with>>
           \/ Lib!Back(t)
    BY <1>9 DEF Lib!Send, Lib!Advance
  <2> QED
    BY <1>1, <1>2, <2>1 DEF SignalWakes
<1> QED
  BY <1>3, <1>4, <1>5, <1>6, <1>7, <1>8, <1>9 DEF Lib!Inside

-----------------------------------------------------------------------------
(* Steps inside the library keep the invariant.                            *)

\* A thread to which nothing happens.
Aside(u) ==
  /\ at'[u] = at[u] /\ rec'[u] = rec[u] /\ target'[u] = target[u]
  /\ pc'[u] = pc[u] /\ on'[u] = on[u] /\ with'[u] = with[u]

LEMMA AsideKept ==
  ASSUME NEW u, Aside(u), PlaceOK(u), CallOK(u)
  PROVE  PlaceOK(u)' /\ CallOK(u)' /\ Own(u)' = Own(u) /\ (Locks(u)' <=> Locks(u))
BY DEF Aside, PlaceOK, CallOK, Own, Locks

LEMMA SamePool ==
  ASSUME PoolInv, UNCHANGED poolVars
  PROVE  /\ PoolType' /\ CountsOK'
         /\ \A t \in Threads : PlaceOK(t)'
         /\ \A x \in Records : RecordOK(x)'
<1>1. PoolType' /\ CountsOK'
  BY DEF PoolInv, poolVars, PoolType, CountsOK, Busy, Created
<1>2. \A t \in Threads : PlaceOK(t)'
  BY DEF PoolInv, poolVars, PlaceOK
<1>3. \A x \in Records : RecordOK(x)'
  BY DEF PoolInv, poolVars, RecordOK, Runs
<1> QED
  BY <1>1, <1>2, <1>3

LEMMA LibraryStep ==
  ASSUME PoolInv, NEW t \in Threads, Library(t)
  PROVE  PoolInv'
<1>0. /\ Proved!IInv /\ CallOK(t) /\ PlaceOK(t) /\ LockOK /\ Lib!Inside(t)
      /\ UNCHANGED poolVars
  BY DEF PoolInv, Library
<1>1. Proved!IInv'
  BY <1>0, LibStep
<1>2. /\ \A u \in Threads \ {t} : Aside(u)
      /\ at' = at /\ rec' = rec /\ target' = target
      /\ WaitGoesOn(t) \/ WaitEnds(t) \/ SignalTakes(t) \/ SignalWakes(t)
  <2>1. /\ \A u \in Threads \ {t} : pc'[u] = pc[u] /\ on'[u] = on[u] /\ with'[u] = with[u]
        /\ WaitGoesOn(t) \/ WaitEnds(t) \/ SignalTakes(t) \/ SignalWakes(t)
    BY <1>0, InsideEffect
  <2> QED
    BY <1>0, <2>1 DEF poolVars, Aside
<1>3. \A u \in Threads : CallOK(u)'
  <2>1. CallOK(t)'
    BY <1>0, <1>2 DEF CallOK, WaitGoesOn, WaitEnds, SignalTakes, SignalWakes, Waits, Signalling
  <2> QED
    BY <1>2, <2>1, AsideKept DEF PoolInv
<1>4. LockOK'
  <2>0. mutex \in [Mutexes -> Threads \union {None}]
    BY <1>0, LibFacts
  <2>1. \A u \in Threads : Own(u)' = Own(u)
    BY <1>2 DEF Own
  <2>2. \A u \in Threads \ {t} : Locks(u)' <=> Locks(u)
    BY <1>2 DEF Aside, Locks
  <2>3. CASE mutex' = mutex /\ ~WaitEnds(t)
    <3>1. Locks(t)' => Locks(t)
      BY <1>0, <1>2, <2>3 DEF Locks, WaitGoesOn, SignalTakes, SignalWakes, CallOK, Waits,
         Signalling
    <3> QED
      BY <1>0, <2>1, <2>2, <2>3, <3>1 DEF LockOK
  <2>4. CASE WaitGoesOn(t) /\ pc[t] = "unlock"
    <3>1. ~Locks(t)'
      BY <1>0, <1>2, <2>4 DEF Locks, WaitGoesOn, CallOK, Waits
    <3>2. mutex' = [mutex EXCEPT ![with[t]] = None]
      BY <2>4 DEF WaitGoesOn
    <3>3. with[t] = "cthread_lock" => Locks(t)
      BY <1>0, <2>4, Names DEF CallOK, Waits, Locks, PlaceOK, PoolType, PoolInv
    <3>4. \A u \in Threads : Locks(u) => u = t \/ with[t] # "cthread_lock"
      BY <1>0, <3>3 DEF LockOK
    <3> QED
      BY <1>0, <2>0, <2>1, <2>2, <3>1, <3>2, <3>4, Names DEF LockOK
  <2>5. CASE WaitEnds(t)
    <3>1. with[t] = Own(t)
      BY <1>0, <2>5 DEF WaitEnds, CallOK, Waits, Own
    <3>2. Locks(t)' => with[t] = "cthread_lock"
      BY <1>0, <1>2, <2>5 DEF WaitEnds, CallOK, Waits, Locks
    <3>3. mutex[with[t]] = None /\ mutex' = [mutex EXCEPT ![with[t]] = t]
      BY <2>5 DEF WaitEnds
    <3> QED
      BY <1>0, <2>0, <2>1, <2>2, <3>1, <3>2, <3>3, Names DEF LockOK
  <2> QED
    BY <1>2, <2>3, <2>4, <2>5 DEF WaitGoesOn, SignalTakes, SignalWakes
<1> QED
  BY <1>0, <1>1, <1>3, <1>4, SamePool DEF PoolInv

-----------------------------------------------------------------------------
(* Calls of the library by the package.                                    *)

\* t takes its mutex, gives it up, or does neither.
Locking(t) ==
  \/ \E m \in Mutexes : /\ mutex[m] = None /\ mutex' = [mutex EXCEPT ![m] = t]
                        /\ Own(t) = None /\ Own(t)' = m
                        /\ Locks(t)' => m = "cthread_lock"
  \/ \E m \in Mutexes : /\ mutex[m] = t /\ mutex' = [mutex EXCEPT ![m] = None] /\ ~Locks(t)'
  \/ mutex' = mutex /\ Own(t)' = Own(t) /\ (Locks(t)' => Locks(t))

LEMMA LockKept ==
  ASSUME PoolInv, NEW t \in Threads, \A u \in Threads \ {t} : Aside(u), Locking(t)
  PROVE  LockOK'
<1>0. LockOK /\ mutex \in [Mutexes -> Threads \union {None}]
  BY LibFacts DEF PoolInv
<1>1. \A u \in Threads \ {t} : Own(u)' = Own(u) /\ (Locks(u)' <=> Locks(u))
  BY AsideKept DEF PoolInv
<1>2. ASSUME NEW m \in Mutexes, mutex[m] = None, mutex' = [mutex EXCEPT ![m] = t],
             Own(t) = None, Own(t)' = m, Locks(t)' => m = "cthread_lock"
      PROVE  LockOK'
  BY <1>0, <1>1, <1>2, Names DEF LockOK
<1>3. ASSUME NEW m \in Mutexes, mutex[m] = t, mutex' = [mutex EXCEPT ![m] = None], ~Locks(t)'
      PROVE  LockOK'
  <2>1. m = Own(t)
    BY <1>0, <1>3 DEF LockOK
  <2>2. \A n \in Mutexes : mutex'[n] # t
    BY <1>0, <1>3, <2>1, Names DEF LockOK
  <2>3. \A u \in Threads \ {t} : Locks(u) => m # "cthread_lock"
    BY <1>0, <1>3 DEF LockOK
  <2> QED
    BY <1>0, <1>1, <1>3, <2>2, <2>3, Names DEF LockOK
<1>4. ASSUME mutex' = mutex, Own(t)' = Own(t), Locks(t)' => Locks(t) PROVE LockOK'
  BY <1>0, <1>1, <1>4 DEF LockOK
<1> QED
  BY <1>2, <1>3, <1>4 DEF Locking

\* Records and counts, when a thread only moves.
LEMMA RecordsKept ==
  ASSUME PoolInv, UNCHANGED <<rec, target, flags, requests, live, handle, finished>>,
         \A u \in Threads :
           /\ rec[u] # None /\ at'[u] \in Running => at[u] \in Running
           /\ at'[u] \in {"return", "free_own"} => at'[u] = at[u]
           /\ at'[u] = "free" /\ target[u] # None => "RETURNED" \in flags[target[u]]
  PROVE  \A x \in Records : RecordOK(x)'
<1> SUFFICES ASSUME NEW x \in Records PROVE RecordOK(x)'
  OBVIOUS
<1>1. RecordOK(x) /\ x # None
  BY Names DEF PoolInv
<1>2. \A u \in Threads : Runs(u, x)' => Runs(u, x)
  BY <1>1 DEF Runs
<1> QED
  BY <1>1, <1>2 DEF RecordOK

LEMMA QuietStep ==
  ASSUME PoolInv, Proved!IInv', NEW t \in Threads,
         NEW l \in Working \union {"body", "look", "idle", "exit", "exited"},
         at' = [at EXCEPT ![t] = l], at[t] # "none",
         UNCHANGED <<rec, target, flags, requests, live, handle, finished, n_cthreads,
                     n_cprocs, max_cprocs>>,
         \A u \in Threads \ {t} : pc'[u] = pc[u] /\ on'[u] = on[u] /\ with'[u] = with[u],
         PlaceOK(t)', CallOK(t)', Locking(t),
         rec[t] # None /\ l \in Running => at[t] \in Running,
         l \in {"return", "free_own"} => l = at[t],
         l = "free" /\ target[t] # None => "RETURNED" \in flags[target[t]]
  PROVE  PoolInv'
<1>0. PoolType /\ CountsOK
  BY DEF PoolInv
<1>1. \A u \in Threads : at'[u] = IF u = t THEN l ELSE at[u]
  BY <1>0 DEF PoolType
<1>2. \A u \in Threads \ {t} : Aside(u)
  BY <1>1 DEF Aside
<1>3. PoolType'
  BY <1>0 DEF PoolType
<1>4. \A u \in Threads : PlaceOK(u)' /\ CallOK(u)'
  BY <1>2, AsideKept DEF PoolInv
<1>5. LockOK'
  BY <1>2, LockKept
<1>6. \A x \in Records : RecordOK(x)'
  <2>1. \A u \in Threads : at'[u] = "free" /\ target[u] # None => "RETURNED" \in flags[target[u]]
    BY <1>0, <1>1 DEF PoolInv, RecordOK, PoolType
  <2> QED
    BY <1>1, <2>1, RecordsKept
<1>7. CountsOK'
  <2>1. Created' = Created
    BY <1>1 DEF Created, Working, Running
  <2> QED
    BY <1>0, <2>1 DEF CountsOK, Busy
<1> QED
  BY <1>3, <1>4, <1>5, <1>6, <1>7 DEF PoolInv

\* mutex_lock and mutex_unlock, as the package sees them.
LEMMA CallEffect ==
  ASSUME Proved!IInv, NEW t \in Threads
  PROVE  /\ \A m \in Mutexes : Lib!mutex_lock(t, m) =>
              /\ Proved!IInv' /\ pc[t] = "run" /\ UNCHANGED <<queue, pc, on, with>>
              /\ mutex[m] = None /\ mutex' = [mutex EXCEPT ![m] = t]
         /\ \A m \in Mutexes : Lib!mutex_unlock(t, m) =>
              /\ Proved!IInv' /\ pc[t] = "run" /\ UNCHANGED <<queue, pc, on, with>>
              /\ mutex[m] = t /\ mutex' = [mutex EXCEPT ![m] = None]
         /\ \A c \in Conds, m \in Mutexes : Lib!condition_wait(t, c, m) =>
              /\ Proved!IInv' /\ pc[t] = "run" /\ pc'[t] = "unlock" /\ on'[t] = c
              /\ with'[t] = m /\ mutex[m] = t /\ mutex' = mutex
              /\ queue' = [queue EXCEPT ![c] = Append(@, t)]
              /\ \A u \in Threads \ {t} : pc'[u] = pc[u] /\ on'[u] = on[u] /\ with'[u] = with[u]
         /\ \A c \in Conds : Lib!condition_signal(t, c) =>
              /\ Proved!IInv' /\ pc[t] = "run" /\ UNCHANGED <<queue, mutex, with>>
              /\ IF queue[c] = <<>> THEN UNCHANGED <<pc, on>>
                 ELSE pc'[t] = "signal" /\ on'[t] = c
              /\ \A u \in Threads \ {t} : pc'[u] = pc[u] /\ on'[u] = on[u]
<1>0. /\ pc \in [Threads -> {"run", "unlock", "spin", "receive", "timed_out", "requeue",
                             "relock", "signal", "broadcast", "continue", "send"}]
      /\ on \in [Threads -> Conds \union {None}] /\ with \in [Threads -> Mutexes \union {None}]
  BY LibFacts
<1>1. ASSUME NEW m \in Mutexes, Lib!mutex_lock(t, m)
      PROVE  /\ Proved!IInv' /\ pc[t] = "run" /\ UNCHANGED <<queue, pc, on, with>>
             /\ mutex[m] = None /\ mutex' = [mutex EXCEPT ![m] = t]
  BY <1>1, LibStep DEF Lib!mutex_lock
<1>2. ASSUME NEW m \in Mutexes, Lib!mutex_unlock(t, m)
      PROVE  /\ Proved!IInv' /\ pc[t] = "run" /\ UNCHANGED <<queue, pc, on, with>>
             /\ mutex[m] = t /\ mutex' = [mutex EXCEPT ![m] = None]
  BY <1>2, LibStep DEF Lib!mutex_unlock
<1>3. ASSUME NEW c \in Conds, NEW m \in Mutexes, Lib!condition_wait(t, c, m)
      PROVE  /\ Proved!IInv' /\ pc[t] = "run" /\ pc'[t] = "unlock" /\ on'[t] = c
             /\ with'[t] = m /\ mutex[m] = t /\ mutex' = mutex
             /\ queue' = [queue EXCEPT ![c] = Append(@, t)]
             /\ \A u \in Threads \ {t} : pc'[u] = pc[u] /\ on'[u] = on[u] /\ with'[u] = with[u]
  <2>1. Proved!IInv'
    BY <1>3, LibStep
  <2> QED
    BY <1>0, <1>3, <2>1 DEF Lib!condition_wait, Lib!Enqueue, Lib!Goto
<1>4. ASSUME NEW c \in Conds, Lib!condition_signal(t, c)
      PROVE  /\ Proved!IInv' /\ pc[t] = "run" /\ UNCHANGED <<queue, mutex, with>>
             /\ IF queue[c] = <<>> THEN UNCHANGED <<pc, on>>
                ELSE pc'[t] = "signal" /\ on'[t] = c
             /\ \A u \in Threads \ {t} : pc'[u] = pc[u] /\ on'[u] = on[u]
  <2>1. Proved!IInv'
    BY <1>4, LibStep
  <2> QED
    BY <1>0, <1>4, <2>1 DEF Lib!condition_signal, Lib!Call, Lib!Goto
<1> QED
  BY <1>1, <1>2, <1>3, <1>4

-----------------------------------------------------------------------------
(* Steps of the package that only move a thread.                           *)

\* What is known of a thread that is about to take a step.
LEMMA AtFacts ==
  ASSUME PoolInv, NEW t \in Threads, NEW l, At(t, l)
  PROVE  /\ Proved!IInv /\ PoolType /\ PlaceOK(t) /\ CallOK(t) /\ LockOK
         /\ at[t] = l /\ pc[t] = "run"
         /\ rec[t] \in Records \union {None} /\ target[t] \in Records \union {None}
BY DEF PoolInv, At, PoolType

LEMMA ForkKeeps ==
  ASSUME PoolInv, NEW t \in Threads, Fork(t)
  PROVE  PoolInv'
<1>0. /\ Proved!IInv /\ PoolType /\ PlaceOK(t) /\ at[t] = "user" /\ pc[t] = "run"
      /\ Lib!mutex_lock(t, "cthread_lock") /\ at' = [at EXCEPT ![t] = "fork"]
      /\ UNCHANGED <<rec, target, flags, requests, live, handle, finished, n_cthreads,
                     n_cprocs, max_cprocs>>
  BY AtFacts DEF Fork, Goto
<1>1. /\ Proved!IInv' /\ UNCHANGED <<queue, pc, on, with>>
      /\ mutex["cthread_lock"] = None /\ mutex' = [mutex EXCEPT !["cthread_lock"] = t]
  BY <1>0, CallEffect, Names
<1>2. at'[t] = "fork"
  BY <1>0 DEF PoolType
<1>3. PlaceOK(t)' /\ CallOK(t)'
  BY <1>0, <1>1, <1>2 DEF PlaceOK, CallOK, Working, Running, Claiming, MainPlaces, Waits, Signalling
<1>4. Locking(t)
  BY <1>0, <1>1, <1>2, Names DEF Locking, Own
<1> QED
  BY <1>0, <1>1, <1>3, <1>4, QuietStep DEF Working, Running

LEMMA SignalNeededKeeps ==
  ASSUME PoolInv, NEW t \in Threads, SignalNeeded(t)
  PROVE  PoolInv'
<1>0. /\ Proved!IInv /\ PoolType /\ PlaceOK(t) /\ at[t] = "signal_needed" /\ pc[t] = "run"
      /\ Lib!condition_signal(t, "needed") /\ at' = [at EXCEPT ![t] = "user"]
      /\ UNCHANGED <<rec, target, flags, requests, live, handle, finished, n_cthreads,
                     n_cprocs, max_cprocs>>
  BY AtFacts DEF SignalNeeded, Goto
<1>1. /\ Proved!IInv' /\ mutex' = mutex /\ with' = with
      /\ pc'[t] = "run" \/ (pc'[t] = "signal" /\ on'[t] = "needed")
      /\ \A u \in Threads \ {t} : pc'[u] = pc[u] /\ on'[u] = on[u]
  BY <1>0, CallEffect, Names
<1>2. at'[t] = "user"
  BY <1>0 DEF PoolType
<1>3. PlaceOK(t)' /\ CallOK(t)'
  BY <1>0, <1>1, <1>2 DEF PlaceOK, CallOK, Working, Running, Claiming, MainPlaces, Waits, Signalling
<1>4. Locking(t)
  BY <1>0, <1>1, <1>2, Names DEF Locking, Own, Locks
<1> QED
  BY <1>0, <1>1, <1>3, <1>4, QuietStep DEF Working, Running

LEMMA JoinedKeeps ==
  ASSUME PoolInv, NEW t \in Threads, Joined(t)
  PROVE  PoolInv'
<1>0. /\ Proved!IInv /\ PoolType /\ PlaceOK(t) /\ LockOK /\ at[t] = "join" /\ pc[t] = "run"
      /\ UNCHANGED <<rec, target, flags, requests, live, handle, finished, n_cthreads,
                     n_cprocs, max_cprocs>>
  BY AtFacts DEF Joined
<1>1. target[t] \in Records /\ target[t] \in Mutexes /\ target[t] \in Conds
  BY <1>0, Names DEF PlaceOK, PoolType, Claiming
<1>2. CASE "RETURNED" \in flags[target[t]]
  <2>1. Lib!mutex_unlock(t, target[t]) /\ at' = [at EXCEPT ![t] = "free"]
    BY <1>2 DEF Joined, Goto
  <2>2. /\ Proved!IInv' /\ UNCHANGED <<queue, pc, on, with>>
        /\ mutex[target[t]] = t /\ mutex' = [mutex EXCEPT ![target[t]] = None]
    BY <1>0, <1>1, <2>1, CallEffect
  <2>3. at'[t] = "free"
    BY <1>0, <2>1 DEF PoolType
  <2>4. PlaceOK(t)' /\ CallOK(t)'
    BY <1>0, <2>2, <2>3 DEF PlaceOK, CallOK, Working, Running, Claiming, MainPlaces, Waits, Signalling
  <2>5. Locking(t)
    BY <1>0, <1>1, <2>2, <2>3 DEF Locking, Locks
  <2> QED
    BY <1>0, <1>2, <2>1, <2>2, <2>4, <2>5, QuietStep DEF Working, Running
<1>3. CASE "RETURNED" \notin flags[target[t]]
  <2>1. Lib!condition_wait(t, target[t], target[t]) /\ at' = at
    BY <1>3 DEF Joined
  <2>2. /\ Proved!IInv' /\ pc'[t] = "unlock" /\ on'[t] = target[t] /\ with'[t] = target[t]
        /\ mutex' = mutex
        /\ \A u \in Threads \ {t} : pc'[u] = pc[u] /\ on'[u] = on[u] /\ with'[u] = with[u]
    BY <1>0, <1>1, <2>1, CallEffect
  <2>3. at' = [at EXCEPT ![t] = "join"]
    BY <1>0, <2>1 DEF PoolType
  <2>4. PlaceOK(t)' /\ CallOK(t)'
    BY <1>0, <2>1, <2>2 DEF PlaceOK, CallOK, Working, Running, Claiming, MainPlaces, Waits, Signalling
  <2>5. Locking(t)
    BY <1>0, <2>1, <2>2 DEF Locking, Own, Locks
  <2> QED
    BY <1>0, <2>2, <2>3, <2>4, <2>5, QuietStep DEF Working, Running
<1> QED
  BY <1>2, <1>3

LEMMA BodyKeeps ==
  ASSUME PoolInv, NEW t \in Threads, Body(t)
  PROVE  PoolInv'
<1>0. /\ Proved!IInv /\ PoolType /\ PlaceOK(t) /\ at[t] = "body" /\ pc[t] = "run"
      /\ Lib!mutex_lock(t, "cthread_lock") /\ at' = [at EXCEPT ![t] = "look"]
      /\ UNCHANGED <<rec, target, flags, requests, live, handle, finished, n_cthreads,
                     n_cprocs, max_cprocs>>
  BY AtFacts DEF Body, Goto
<1>1. /\ Proved!IInv' /\ UNCHANGED <<queue, pc, on, with>>
      /\ mutex["cthread_lock"] = None /\ mutex' = [mutex EXCEPT !["cthread_lock"] = t]
  BY <1>0, CallEffect, Names
<1>2. at'[t] = "look"
  BY <1>0 DEF PoolType
<1>3. PlaceOK(t)' /\ CallOK(t)'
  BY <1>0, <1>1, <1>2 DEF PlaceOK, CallOK, Working, Running, Claiming, MainPlaces, Waits, Signalling
<1>4. Locking(t)
  BY <1>0, <1>1, <1>2, Names DEF Locking, Own
<1> QED
  BY <1>0, <1>1, <1>3, <1>4, QuietStep DEF Working, Running

LEMMA IdleKeeps ==
  ASSUME PoolInv, NEW t \in Threads, Idle(t)
  PROVE  PoolInv'
<1>0. /\ Proved!IInv /\ PoolType /\ PlaceOK(t) /\ LockOK /\ at[t] = "idle" /\ pc[t] = "run"
      /\ Lib!condition_wait(t, "needed", "cthread_lock") /\ at' = [at EXCEPT ![t] = "look"]
      /\ UNCHANGED <<rec, target, flags, requests, live, handle, finished, n_cthreads,
                     n_cprocs, max_cprocs>>
  BY AtFacts DEF Idle, Goto
<1>1. /\ Proved!IInv' /\ pc'[t] = "unlock" /\ on'[t] = "needed" /\ with'[t] = "cthread_lock"
      /\ mutex' = mutex
      /\ \A u \in Threads \ {t} : pc'[u] = pc[u] /\ on'[u] = on[u] /\ with'[u] = with[u]
  BY <1>0, CallEffect, Names
<1>2. at'[t] = "look"
  BY <1>0 DEF PoolType
<1>3. PlaceOK(t)' /\ CallOK(t)'
  BY <1>0, <1>1, <1>2 DEF PlaceOK, CallOK, Working, Running, Claiming, MainPlaces, Waits, Signalling
<1>4. Locking(t)
  BY <1>0, <1>1, <1>2 DEF Locking, Own, Locks
<1> QED
  BY <1>0, <1>1, <1>3, <1>4, QuietStep DEF Working, Running

LEMMA SignalDoneKeeps ==
  ASSUME PoolInv, NEW t \in Threads, SignalDone(t)
  PROVE  PoolInv'
<1>0. /\ Proved!IInv /\ PoolType /\ PlaceOK(t) /\ at[t] = "signal_done" /\ pc[t] = "run"
      /\ Lib!condition_signal(t, rec[t]) /\ at' = [at EXCEPT ![t] = "finish"]
      /\ UNCHANGED <<rec, target, flags, requests, live, handle, finished, n_cthreads,
                     n_cprocs, max_cprocs>>
  BY AtFacts DEF SignalDone, Goto
<1>1. rec[t] \in Conds
  BY <1>0, Names DEF PlaceOK, PoolType, Working, MainPlaces
<1>2. /\ Proved!IInv' /\ mutex' = mutex /\ with' = with
      /\ pc'[t] = "run" \/ (pc'[t] = "signal" /\ on'[t] = rec[t])
      /\ \A u \in Threads \ {t} : pc'[u] = pc[u] /\ on'[u] = on[u]
  BY <1>0, <1>1, CallEffect
<1>3. at'[t] = "finish"
  BY <1>0 DEF PoolType
<1>4. PlaceOK(t)' /\ CallOK(t)'
  BY <1>0, <1>2, <1>3 DEF PlaceOK, CallOK, Working, Running, Claiming, MainPlaces, Waits, Signalling
<1>5. Locking(t)
  BY <1>0, <1>2, <1>3, Names DEF Locking, Own, Locks
<1> QED
  BY <1>0, <1>2, <1>4, <1>5, QuietStep DEF Working, Running

LEMMA ExitKeeps ==
  ASSUME PoolInv, Exit
  PROVE  PoolInv'
<1>0. /\ Main \in Threads
      /\ Proved!IInv /\ PoolType /\ PlaceOK(Main) /\ at[Main] = "user" /\ pc[Main] = "run"
      /\ Lib!mutex_lock(Main, "cthread_lock") /\ at' = [at EXCEPT ![Main] = "exit"]
      /\ UNCHANGED <<rec, target, flags, requests, live, handle, finished, n_cthreads,
                     n_cprocs, max_cprocs>>
  BY AtFacts, Names DEF Exit, Goto
<1>1. /\ Proved!IInv' /\ UNCHANGED <<queue, pc, on, with>>
      /\ mutex["cthread_lock"] = None /\ mutex' = [mutex EXCEPT !["cthread_lock"] = Main]
  BY <1>0, CallEffect, Names
<1>2. at'[Main] = "exit"
  BY <1>0 DEF PoolType
<1>3. PlaceOK(Main)' /\ CallOK(Main)'
  BY <1>0, <1>1, <1>2 DEF PlaceOK, CallOK, Working, Running, Claiming, MainPlaces, Waits, Signalling
<1>4. Locking(Main)
  BY <1>0, <1>1, <1>2, Names DEF Locking, Own
<1> QED
  BY <1>0, <1>1, <1>3, <1>4, QuietStep DEF Working, Running

LEMMA ExitingKeeps ==
  ASSUME PoolInv, Exiting
  PROVE  PoolInv'
<1>0. /\ Main \in Threads
      /\ Proved!IInv /\ PoolType /\ PlaceOK(Main) /\ LockOK /\ at[Main] = "exit"
      /\ pc[Main] = "run"
      /\ UNCHANGED <<rec, target, flags, requests, live, handle, finished, n_cthreads,
                     n_cprocs, max_cprocs>>
  BY AtFacts, Names DEF Exiting
<1>1. CASE n_cthreads > 1
  <2>1. Lib!condition_wait(Main, "idle", "cthread_lock") /\ at' = at
    BY <1>1 DEF Exiting
  <2>2. /\ Proved!IInv' /\ pc'[Main] = "unlock" /\ on'[Main] = "idle"
        /\ with'[Main] = "cthread_lock" /\ mutex' = mutex
        /\ \A u \in Threads \ {Main} : pc'[u] = pc[u] /\ on'[u] = on[u] /\ with'[u] = with[u]
    BY <1>0, <2>1, CallEffect, Names
  <2>3. at' = [at EXCEPT ![Main] = "exit"]
    BY <1>0, <2>1 DEF PoolType
  <2>4. PlaceOK(Main)' /\ CallOK(Main)'
    BY <1>0, <2>1, <2>2 DEF PlaceOK, CallOK, Working, Running, Claiming, MainPlaces, Waits, Signalling
  <2>5. Locking(Main)
    BY <1>0, <2>1, <2>2 DEF Locking, Own, Locks
  <2> QED
    BY <1>0, <2>2, <2>3, <2>4, <2>5, QuietStep DEF Working, Running
<1>2. CASE ~(n_cthreads > 1)
  <2>1. Lib!mutex_unlock(Main, "cthread_lock") /\ at' = [at EXCEPT ![Main] = "exited"]
    BY <1>2 DEF Exiting, Goto
  <2>2. /\ Proved!IInv' /\ UNCHANGED <<queue, pc, on, with>>
        /\ mutex["cthread_lock"] = Main /\ mutex' = [mutex EXCEPT !["cthread_lock"] = None]
    BY <1>0, <2>1, CallEffect, Names
  <2>3. at'[Main] = "exited"
    BY <1>0, <2>1 DEF PoolType
  <2>4. PlaceOK(Main)' /\ CallOK(Main)'
    BY <1>0, <2>2, <2>3 DEF PlaceOK, CallOK, Working, Running, Claiming, MainPlaces, Waits, Signalling
  <2>5. Locking(Main)
    BY <1>0, <2>2, <2>3, Names DEF Locking, Locks
  <2> QED
    BY <1>0, <2>1, <2>2, <2>4, <2>5, QuietStep DEF Working, Running
<1> QED
  BY <1>1, <1>2

-----------------------------------------------------------------------------
(* Steps of the package that change records.                               *)

LEMMA MoveKept ==
  ASSUME PoolInv, NEW t \in Threads, \A u \in Threads \ {t} : Aside(u),
         PlaceOK(t)', CallOK(t)', Locking(t)
  PROVE  LockOK' /\ \A u \in Threads : PlaceOK(u)' /\ CallOK(u)'
<1>1. LockOK'
  BY LockKept
<1> QED
  BY <1>1, AsideKept DEF PoolInv

\* The counts stay, when threads keep their cthreads.
LEMMA CountsKept ==
  ASSUME PoolInv, UNCHANGED <<rec, requests, n_cthreads, n_cprocs>>,
         \A u \in Threads : at[u] = "none" <=> at'[u] = "none"
  PROVE  CountsOK'
<1>1. Created' = Created /\ Busy' = Busy
  BY DEF Created, Busy
<1> QED
  BY <1>1 DEF PoolInv, CountsOK

LEMMA ClaimKeeps ==
  ASSUME PoolInv, NEW t \in Threads, NEW x \in handle, NEW l \in {"join", "detach"},
         Claim(t, x, l)
  PROVE  PoolInv'
<1>0. /\ Proved!IInv /\ PoolType /\ PlaceOK(t) /\ at[t] = "user" /\ pc[t] = "run"
      /\ Lib!mutex_lock(t, x) /\ at' = [at EXCEPT ![t] = l]
      /\ handle' = handle \ {x} /\ target' = [target EXCEPT ![t] = x]
      /\ UNCHANGED <<rec, flags, requests, live, finished, n_cthreads, n_cprocs, max_cprocs>>
  BY AtFacts DEF Claim, Goto
<1>1. x \in Records /\ x \in Mutexes /\ RecordOK(x)
  BY <1>0, Names DEF PoolType, PoolInv
<1>2. /\ Proved!IInv' /\ UNCHANGED <<queue, pc, on, with>>
      /\ mutex[x] = None /\ mutex' = [mutex EXCEPT ![x] = t]
  BY <1>0, <1>1, CallEffect
<1>3. /\ \A u \in Threads : at'[u] = IF u = t THEN l ELSE at[u]
      /\ \A u \in Threads : target'[u] = IF u = t THEN x ELSE target[u]
  BY <1>0 DEF PoolType
<1>4. PlaceOK(t)' /\ CallOK(t)'
  BY <1>0, <1>1, <1>2, <1>3, Names DEF PlaceOK, CallOK, Working, Running, Claiming, MainPlaces,
     Waits, Signalling
<1>5. Locking(t)
  BY <1>0, <1>1, <1>2, <1>3, Names DEF Locking, Own, Locks
<1>6. \A u \in Threads \ {t} : Aside(u)
  BY <1>0, <1>2, <1>3 DEF Aside
<1>7. PoolType'
  BY <1>0, <1>1 DEF PoolType, Working, Running
<1>8. ASSUME NEW y \in Records PROVE RecordOK(y)'
  <2>1. RecordOK(y) /\ y # None
    BY Names DEF PoolInv
  <2>2. \A u \in Threads : /\ Runs(u, y)' => Runs(u, y)
                           /\ target'[u] = y => target[u] = y \/ (u = t /\ y = x)
                           /\ at'[u] = at[u] \/ at'[u] \in {"join", "detach"}
    BY <1>0, <1>3 DEF Runs, Running
  <2> QED
    BY <1>0, <1>1, <2>1, <2>2 DEF RecordOK
<1>9. CountsOK'
  BY <1>0, <1>3, CountsKept
<1> QED
  BY <1>2, <1>4, <1>5, <1>6, <1>7, <1>8, <1>9, MoveKept DEF PoolInv

LEMMA DetachedKeeps ==
  ASSUME PoolInv, NEW t \in Threads, Detached(t)
  PROVE  PoolInv'
<1> DEFINE x == target[t]
<1>0. /\ Proved!IInv /\ PoolType /\ PlaceOK(t) /\ at[t] = "detach" /\ pc[t] = "run"
      /\ Lib!mutex_unlock(t, x)
      /\ UNCHANGED <<rec, requests, live, handle, finished, n_cthreads, n_cprocs, max_cprocs>>
  BY AtFacts DEF Detached
<1>1. x \in Records /\ x \in Mutexes /\ RecordOK(x)
  BY <1>0, Names DEF PlaceOK, PoolType, PoolInv, Claiming
<1>2. /\ Proved!IInv' /\ UNCHANGED <<queue, pc, on, with>>
      /\ mutex[x] = t /\ mutex' = [mutex EXCEPT ![x] = None]
  BY <1>0, <1>1, CallEffect
<1>3. CASE "RETURNED" \in flags[x]
  <2>1. at' = [at EXCEPT ![t] = "free"] /\ UNCHANGED <<flags, target>>
    BY <1>3 DEF Detached, Goto
  <2>2. at'[t] = "free"
    BY <1>0, <2>1 DEF PoolType
  <2>3. PlaceOK(t)' /\ CallOK(t)'
    BY <1>0, <1>2, <2>1, <2>2 DEF PlaceOK, CallOK, Working, Running, Claiming, MainPlaces, Waits,
       Signalling
  <2>4. Locking(t)
    BY <1>0, <1>1, <1>2, <2>2 DEF Locking, Locks
  <2> QED
    BY <1>0, <1>2, <1>3, <2>1, <2>3, <2>4, QuietStep DEF Working, Running
<1>4. CASE "RETURNED" \notin flags[x]
  <2>1. /\ at' = [at EXCEPT ![t] = "user"] /\ target' = [target EXCEPT ![t] = None]
        /\ flags' = [flags EXCEPT ![x] = @ \union {"DETACHED"}]
    BY <1>4 DEF Detached, Goto
  <2>2. /\ \A u \in Threads : at'[u] = IF u = t THEN "user" ELSE at[u]
        /\ \A u \in Threads : target'[u] = IF u = t THEN None ELSE target[u]
        /\ \A y \in Records : flags'[y] = IF y = x THEN flags[y] \union {"DETACHED"} ELSE flags[y]
    BY <1>0, <2>1 DEF PoolType
  <2>3. PlaceOK(t)' /\ CallOK(t)'
    BY <1>0, <1>2, <2>2 DEF PlaceOK, CallOK, Working, Running, Claiming, MainPlaces, Waits,
       Signalling
  <2>4. Locking(t)
    BY <1>0, <1>1, <1>2, <2>2 DEF Locking, Locks
  <2>5. \A u \in Threads \ {t} : Aside(u)
    BY <1>0, <1>2, <2>2 DEF Aside
  <2>6. PoolType'
    BY <1>0, <1>1, <2>1 DEF PoolType, Working, Running
  <2>7. ASSUME NEW y \in Records PROVE RecordOK(y)'
    <3>1. RecordOK(y) /\ y # None
      BY Names DEF PoolInv
    <3>2. \A u \in Threads : /\ Runs(u, y)' => Runs(u, y)
                             /\ target'[u] = y => target[u] = y /\ u # t
                             /\ at'[u] = at[u] \/ at'[u] = "user"
      BY <1>0, <2>2, <3>1 DEF Runs, Running
    <3>3. CASE y # x
      <4>1. flags'[y] = flags[y]
        BY <2>2, <3>3
      <4> QED
        BY <1>0, <3>1, <3>2, <4>1 DEF RecordOK
    <3>4. CASE y = x
      <4>1. /\ "RETURNED" \notin flags'[y] /\ "RETURNED" \notin flags[y]
            /\ flags[y] \subseteq flags'[y]
        <5>1. flags'[y] = flags[y] \union {"DETACHED"} /\ "RETURNED" \notin flags[y]
          BY <1>4, <2>2, <3>4, Zenon
        <5> QED
          BY <5>1
      <4>2. y \notin handle /\ \A u \in Threads : target'[u] # y
        BY <1>1, <3>1, <3>2, <3>4 DEF RecordOK
      <4> QED
        BY <1>0, <3>1, <3>2, <4>1, <4>2 DEF RecordOK
    <3> QED
      BY <3>3, <3>4
  <2>8. CountsOK'
    BY <1>0, <2>2, CountsKept
  <2> QED
    BY <1>2, <2>3, <2>4, <2>5, <2>6, <2>7, <2>8, MoveKept DEF PoolInv
<1> QED
  BY <1>3, <1>4

LEMMA FreeKeeps ==
  ASSUME PoolInv, NEW t \in Threads, cthread_free(t)
  PROVE  PoolInv'
<1> DEFINE x == target[t]
<1>0. /\ Proved!IInv /\ PoolType /\ PlaceOK(t) /\ at[t] = "free" /\ pc[t] = "run"
      /\ live' = live \ {x} /\ target' = [target EXCEPT ![t] = None]
      /\ at' = [at EXCEPT ![t] = "user"]
      /\ UNCHANGED <<libVars, rec, flags, requests, handle, finished, n_cthreads, n_cprocs,
                     max_cprocs>>
  BY AtFacts DEF cthread_free, Goto
<1>1. x \in Records /\ RecordOK(x)
  BY <1>0 DEF PlaceOK, PoolType, PoolInv, Claiming
<1>2. Proved!IInv' /\ UNCHANGED <<mutex, queue, pc, on, with>>
  BY <1>0, LibStep DEF libVars
<1>3. /\ \A u \in Threads : at'[u] = IF u = t THEN "user" ELSE at[u]
      /\ \A u \in Threads : target'[u] = IF u = t THEN None ELSE target[u]
  BY <1>0 DEF PoolType
<1>4. PlaceOK(t)' /\ CallOK(t)'
  BY <1>0, <1>2, <1>3 DEF PlaceOK, CallOK, Working, Running, Claiming, MainPlaces, Waits,
     Signalling
<1>5. Locking(t)
  BY <1>0, <1>2, <1>3 DEF Locking, Locks, Own
<1>6. \A u \in Threads \ {t} : Aside(u)
  BY <1>0, <1>2, <1>3 DEF Aside
<1>7. PoolType'
  BY <1>0 DEF PoolType, Working, Running
<1>8. ASSUME NEW y \in Records PROVE RecordOK(y)'
  <2>1. RecordOK(y) /\ y # None
    BY Names DEF PoolInv
  <2>2. \A u \in Threads : /\ Runs(u, y)' => Runs(u, y)
                           /\ target'[u] = y => target[u] = y /\ u # t
                           /\ at'[u] = at[u] \/ at'[u] = "user"
    BY <1>0, <1>3, <2>1 DEF Runs, Running
  <2> QED
    BY <1>0, <1>1, <2>1, <2>2 DEF RecordOK
<1>9. CountsOK'
  BY <1>0, <1>3, CountsKept
<1> QED
  BY <1>2, <1>4, <1>5, <1>6, <1>7, <1>8, <1>9, MoveKept DEF PoolInv

LEMMA LookKeeps ==
  ASSUME PoolInv, NEW t \in Threads, Look(t)
  PROVE  PoolInv'
<1>0. /\ Proved!IInv /\ PoolType /\ PlaceOK(t) /\ LockOK /\ CountsOK
      /\ at[t] = "look" /\ pc[t] = "run"
      /\ UNCHANGED <<target, flags, live, handle, finished, n_cthreads, n_cprocs, max_cprocs>>
  BY AtFacts DEF Look, PoolInv
<1>1. t # Main /\ rec[t] = None /\ target[t] = None
  BY <1>0 DEF PlaceOK, MainPlaces, Working, Running, Claiming
<1>2. CASE requests = <<>>
  <2>1. /\ Lib!condition_signal(t, "idle") /\ at' = [at EXCEPT ![t] = "idle"]
        /\ UNCHANGED <<rec, requests>>
    BY <1>2 DEF Look, Goto
  <2>2. /\ Proved!IInv' /\ mutex' = mutex /\ with' = with
        /\ pc'[t] = "run" \/ (pc'[t] = "signal" /\ on'[t] = "idle")
        /\ \A u \in Threads \ {t} : pc'[u] = pc[u] /\ on'[u] = on[u]
    BY <1>0, <2>1, CallEffect, Names
  <2>3. at'[t] = "idle"
    BY <1>0, <2>1 DEF PoolType
  <2>4. PlaceOK(t)' /\ CallOK(t)'
    BY <1>0, <1>1, <2>1, <2>2, <2>3 DEF PlaceOK, CallOK, Working, Running, Claiming, MainPlaces,
       Waits, Signalling
  <2>5. Locking(t)
    BY <1>0, <2>2, <2>3 DEF Locking, Own, Locks
  <2> QED
    BY <1>0, <2>1, <2>2, <2>4, <2>5, QuietStep DEF Working, Running
<1>3. CASE requests # <<>>
  <2> DEFINE x == Head(requests)
  <2>1. /\ Lib!mutex_unlock(t, "cthread_lock") /\ at' = [at EXCEPT ![t] = "user"]
        /\ rec' = [rec EXCEPT ![t] = x] /\ requests' = Tail(requests)
    BY <1>3 DEF Look, Goto
  <2>2. /\ Proved!IInv' /\ UNCHANGED <<queue, pc, on, with>>
        /\ mutex["cthread_lock"] = t /\ mutex' = [mutex EXCEPT !["cthread_lock"] = None]
    BY <1>0, <2>1, CallEffect, Names
  <2>3. /\ requests \in Seq(Records) /\ requests' \in Seq(Records) /\ x \in Records
        /\ Range(requests) = {x} \union Range(requests')
        /\ IsInjective(requests') /\ x \notin Range(requests')
        /\ Len(requests') = Len(requests) - 1 /\ Len(requests) \in Nat
    BY <1>0, <1>3, <2>1, TailRange DEF PoolType, CountsOK
  <2> HIDE DEF x
  <2>4. /\ \A u \in Threads : at'[u] = IF u = t THEN "user" ELSE at[u]
        /\ \A u \in Threads : rec'[u] = IF u = t THEN x ELSE rec[u]
    BY <1>0, <2>1 DEF PoolType
  <2>5. PlaceOK(t)' /\ CallOK(t)'
    BY <1>0, <1>1, <2>2, <2>3, <2>4, Names DEF PlaceOK, CallOK, Working, Running, Claiming,
       MainPlaces, Waits, Signalling
  <2>6. Locking(t)
    BY <1>0, <2>2, <2>4, Names DEF Locking, Locks
  <2>7. \A u \in Threads \ {t} : Aside(u)
    BY <1>0, <2>2, <2>4 DEF Aside
  <2>8. PoolType'
    BY <1>0, <2>1, <2>3 DEF PoolType, Working, Running
  <2>9. ASSUME NEW y \in Records PROVE RecordOK(y)'
    <3>1. RecordOK(y) /\ y # None
      BY Names DEF PoolInv
    <3>2. \A u \in Threads : /\ Runs(u, y)' => Runs(u, y) \/ (u = t /\ y = x)
                             /\ at'[u] = at[u] \/ at'[u] = "user"
                             /\ rec'[u] = rec[u] \/ at'[u] = "user"
      BY <1>0, <2>4, <3>1 DEF Runs, Running
    <3> QED
      BY <1>0, <2>3, <3>1, <3>2 DEF RecordOK
  <2>10. CountsOK'
    <3>1. Busy' = Busy \union {t} /\ t \notin Busy
      BY <1>1, <2>3, <2>4, Names DEF Busy
    <3>2. Created' = Created
      BY <1>0, <2>4 DEF Created
    <3>3. IsFiniteSet(Busy)
      BY CThreadsAssumption, FS_Subset DEF Busy
    <3>4. Cardinality(Busy') = Cardinality(Busy) + 1 /\ Cardinality(Busy) \in Nat
      BY <3>1, <3>3, FS_AddElement, FS_CardinalityType
    <3> QED
      BY <1>0, <2>3, <3>2, <3>4 DEF CountsOK
  <2> QED
    BY <2>2, <2>5, <2>6, <2>7, <2>8, <2>9, <2>10, MoveKept DEF PoolInv
<1> QED
  BY <1>2, <1>3

LEMMA ReturnKeeps ==
  ASSUME PoolInv, NEW t \in Threads, Return(t)
  PROVE  PoolInv'
<1> DEFINE x == rec[t]
<1>0. /\ Proved!IInv /\ PoolType /\ PlaceOK(t) /\ at[t] = "user" /\ pc[t] = "run" /\ t # Main
      /\ Lib!mutex_lock(t, x) /\ at' = [at EXCEPT ![t] = "return"]
      /\ finished' = finished \union {x}
      /\ UNCHANGED <<rec, target, flags, requests, live, handle, n_cthreads, n_cprocs,
                     max_cprocs>>
  BY AtFacts DEF Return, Goto
<1>1. x \in Records /\ x \in Mutexes
  BY <1>0, Names DEF PlaceOK, PoolType, Working, Running
<1>2. /\ Proved!IInv' /\ UNCHANGED <<queue, pc, on, with>>
      /\ mutex[x] = None /\ mutex' = [mutex EXCEPT ![x] = t]
  BY <1>0, <1>1, CallEffect
<1>3. \A u \in Threads : at'[u] = IF u = t THEN "return" ELSE at[u]
  BY <1>0 DEF PoolType
<1>4. PlaceOK(t)' /\ CallOK(t)'
  BY <1>0, <1>2, <1>3 DEF PlaceOK, CallOK, Working, Running, Claiming, MainPlaces, Waits,
     Signalling
<1>5. Locking(t)
  <2>1. Own(t) = None /\ Own(t)' = x /\ ~Locks(t)'
    BY <1>0, <1>3 DEF Own, Locks
  <2> QED
    BY <1>1, <1>2, <2>1 DEF Locking
<1>6. \A u \in Threads \ {t} : Aside(u)
  BY <1>0, <1>2, <1>3 DEF Aside
<1>7. PoolType'
  BY <1>0, <1>1 DEF PoolType, Working, Running
<1>8. ASSUME NEW y \in Records PROVE RecordOK(y)'
  <2>1. RecordOK(y) /\ y # None
    BY Names DEF PoolInv
  <2>2. \A u \in Threads : /\ Runs(u, y)' => Runs(u, y)
                           /\ at'[u] = at[u] \/ (u = t /\ at'[u] = "return")
    BY <1>0, <1>3 DEF Runs, Running
  <2> QED
    BY <1>0, <2>1, <2>2 DEF RecordOK
<1>9. CountsOK'
  BY <1>0, <1>3, CountsKept
<1> QED
  BY <1>2, <1>4, <1>5, <1>6, <1>7, <1>8, <1>9, MoveKept DEF PoolInv

LEMMA ReturnedKeeps ==
  ASSUME PoolInv, NEW t \in Threads, Returned(t)
  PROVE  PoolInv'
<1> DEFINE x == rec[t]
<1>0. /\ Proved!IInv /\ PoolType /\ PlaceOK(t) /\ at[t] = "return" /\ pc[t] = "run"
      /\ Lib!mutex_unlock(t, x)
      /\ UNCHANGED <<rec, target, requests, live, handle, finished, n_cthreads, n_cprocs,
                     max_cprocs>>
  BY AtFacts DEF Returned
<1>1. x \in Records /\ x \in Mutexes /\ RecordOK(x) /\ t # Main
  BY <1>0, Names DEF PlaceOK, PoolType, PoolInv, Working, Running, MainPlaces
<1>2. /\ Proved!IInv' /\ UNCHANGED <<queue, pc, on, with>>
      /\ mutex[x] = t /\ mutex' = [mutex EXCEPT ![x] = None]
  BY <1>0, <1>1, CallEffect
<1>3. \E l \in {"free_own", "signal_done"} :
        /\ at' = [at EXCEPT ![t] = l]
        /\ l = "free_own" => "DETACHED" \in flags[x] /\ flags' = flags
        /\ l = "signal_done" => flags' = [flags EXCEPT ![x] = @ \union {"RETURNED"}]
  BY DEF Returned, Goto
<1>4. PICK l \in {"free_own", "signal_done"} :
        /\ at' = [at EXCEPT ![t] = l]
        /\ l = "free_own" => "DETACHED" \in flags[x] /\ flags' = flags
        /\ l = "signal_done" => flags' = [flags EXCEPT ![x] = @ \union {"RETURNED"}]
  BY <1>3
<1>5. \A u \in Threads : at'[u] = IF u = t THEN l ELSE at[u]
  BY <1>0, <1>4 DEF PoolType
<1>6. PlaceOK(t)' /\ CallOK(t)'
  BY <1>0, <1>1, <1>2, <1>5 DEF PlaceOK, CallOK, Working, Running, Claiming, MainPlaces, Waits,
     Signalling
<1>7. Locking(t)
  BY <1>0, <1>1, <1>2, <1>5 DEF Locking, Locks
<1>8. \A u \in Threads \ {t} : Aside(u)
  BY <1>0, <1>2, <1>5 DEF Aside
<1>9. PoolType'
  BY <1>0, <1>1, <1>4 DEF PoolType, Working, Running
<1>10. ASSUME NEW y \in Records PROVE RecordOK(y)'
  <2>1. RecordOK(y) /\ y # None
    BY Names DEF PoolInv
  <2>2. \A u \in Threads : /\ Runs(u, y)' => Runs(u, y)
                           /\ at'[u] = at[u] \/ (u = t /\ at'[u] = l)
    BY <1>0, <1>5 DEF Runs, Running
  <2>3. CASE flags'[y] = flags[y]
    <3>1. rec[t] = y /\ l = "free_own" => y \in finished /\ "DETACHED" \in flags[y]
      BY <1>0, <1>4, <2>1 DEF RecordOK
    <3> QED
      BY <1>0, <2>1, <2>2, <2>3, <3>1 DEF RecordOK
  <2>4. CASE flags'[y] # flags[y]
    <3>1. l = "signal_done" /\ y = x
      BY <1>0, <1>4, <2>4 DEF PoolType
    <3>2. flags'[y] = flags[y] \union {"RETURNED"}
      BY <1>0, <1>1, <1>4, <3>1 DEF PoolType
    <3>3. Runs(t, y) /\ ~Runs(t, y)'
      BY <1>0, <1>5, <3>1 DEF Runs, Running
    <3>4. y \in finished /\ y \notin Range(requests) /\ \A u \in Threads : ~Runs(u, y)'
      BY <1>0, <2>1, <2>2, <3>1, <3>3 DEF RecordOK
    <3> QED
      BY <1>0, <2>1, <2>2, <3>1, <3>2, <3>4 DEF RecordOK
  <2> QED
    BY <2>3, <2>4
<1>11. CountsOK'
  BY <1>0, <1>5, CountsKept
<1> QED
  BY <1>2, <1>6, <1>7, <1>8, <1>9, <1>10, <1>11, MoveKept DEF PoolInv

LEMMA FreeOwnKeeps ==
  ASSUME PoolInv, NEW t \in Threads, FreeOwn(t)
  PROVE  PoolInv'
<1> DEFINE x == rec[t]
<1>0. /\ Proved!IInv /\ PoolType /\ PlaceOK(t) /\ at[t] = "free_own" /\ pc[t] = "run"
      /\ live' = live \ {x} /\ at' = [at EXCEPT ![t] = "finish"]
      /\ UNCHANGED <<libVars, rec, target, flags, requests, handle, finished, n_cthreads,
                     n_cprocs, max_cprocs>>
  BY AtFacts DEF FreeOwn, Goto
<1>1. x \in Records /\ RecordOK(x) /\ t # Main /\ Runs(t, x)
  BY <1>0 DEF PlaceOK, PoolType, PoolInv, Working, Running, MainPlaces, Runs
<1>2. Proved!IInv' /\ UNCHANGED <<mutex, queue, pc, on, with>>
  BY <1>0, LibStep DEF libVars
<1>3. \A u \in Threads : at'[u] = IF u = t THEN "finish" ELSE at[u]
  BY <1>0 DEF PoolType
<1>4. PlaceOK(t)' /\ CallOK(t)'
  BY <1>0, <1>1, <1>2, <1>3 DEF PlaceOK, CallOK, Working, Running, Claiming, MainPlaces, Waits,
     Signalling
<1>5. Locking(t)
  BY <1>0, <1>2, <1>3 DEF Locking, Locks, Own
<1>6. \A u \in Threads \ {t} : Aside(u)
  BY <1>0, <1>2, <1>3 DEF Aside
<1>7. PoolType'
  BY <1>0 DEF PoolType, Working, Running
<1>8. ASSUME NEW y \in Records PROVE RecordOK(y)'
  <2>1. RecordOK(y) /\ y # None
    BY Names DEF PoolInv
  <2>2. \A u \in Threads : /\ Runs(u, y)' => Runs(u, y) /\ u # t
                           /\ at'[u] = at[u] \/ at'[u] = "finish"
    BY <1>0, <1>3 DEF Runs, Running
  <2> QED
    BY <1>0, <1>1, <2>1, <2>2 DEF RecordOK
<1>9. CountsOK'
  BY <1>0, <1>3, CountsKept
<1> QED
  BY <1>2, <1>4, <1>5, <1>6, <1>7, <1>8, <1>9, MoveKept DEF PoolInv

LEMMA FinishKeeps ==
  ASSUME PoolInv, NEW t \in Threads, Finish(t)
  PROVE  PoolInv'
<1>0. /\ Proved!IInv /\ PoolType /\ PlaceOK(t) /\ CountsOK /\ at[t] = "finish" /\ pc[t] = "run"
      /\ Lib!mutex_lock(t, "cthread_lock") /\ at' = [at EXCEPT ![t] = "look"]
      /\ rec' = [rec EXCEPT ![t] = None] /\ n_cthreads' = n_cthreads - 1
      /\ UNCHANGED <<target, flags, requests, live, handle, finished, n_cprocs, max_cprocs>>
  BY AtFacts DEF Finish, Goto, PoolInv
<1>1. t # Main /\ rec[t] # None
  BY <1>0 DEF PlaceOK, Working, Running, MainPlaces
<1>2. /\ Proved!IInv' /\ UNCHANGED <<queue, pc, on, with>>
      /\ mutex["cthread_lock"] = None /\ mutex' = [mutex EXCEPT !["cthread_lock"] = t]
  BY <1>0, CallEffect, Names
<1>3. /\ \A u \in Threads : at'[u] = IF u = t THEN "look" ELSE at[u]
      /\ \A u \in Threads : rec'[u] = IF u = t THEN None ELSE rec[u]
  BY <1>0 DEF PoolType
<1>4. PlaceOK(t)' /\ CallOK(t)'
  BY <1>0, <1>1, <1>2, <1>3 DEF PlaceOK, CallOK, Working, Running, Claiming, MainPlaces, Waits,
     Signalling
<1>5. Locking(t)
  BY <1>0, <1>2, <1>3, Names DEF Locking, Own
<1>6. \A u \in Threads \ {t} : Aside(u)
  BY <1>0, <1>2, <1>3 DEF Aside
<1>7. CountsOK' /\ n_cthreads' \in Nat
  <2>1. Busy' = Busy \ {t} /\ t \in Busy
    BY <1>1, <1>3 DEF Busy
  <2>2. Created' = Created
    BY <1>0, <1>3 DEF Created
  <2>3. IsFiniteSet(Busy)
    BY CThreadsAssumption, FS_Subset DEF Busy
  <2>4. /\ Cardinality(Busy') = Cardinality(Busy) - 1 /\ Cardinality(Busy) \in Nat
        /\ IsFiniteSet(Busy')
    BY <2>1, <2>3, FS_RemoveElement, FS_CardinalityType
  <2>5. Cardinality(Busy') \in Nat /\ Len(requests) \in Nat
    BY <1>0, <2>4, FS_CardinalityType DEF PoolType
  <2> QED
    BY <1>0, <2>2, <2>4, <2>5 DEF CountsOK
<1>8. PoolType'
  BY <1>0, <1>7 DEF PoolType, Working, Running
<1>9. ASSUME NEW y \in Records PROVE RecordOK(y)'
  <2>1. RecordOK(y) /\ y # None
    BY Names DEF PoolInv
  <2>2. \A u \in Threads : /\ Runs(u, y)' => Runs(u, y)
                           /\ at'[u] = at[u] \/ at'[u] = "look"
                           /\ rec'[u] = y => rec[u] = y
    BY <1>0, <1>3, <2>1 DEF Runs, Running
  <2> QED
    BY <1>0, <2>1, <2>2 DEF RecordOK
<1> QED
  BY <1>2, <1>4, <1>5, <1>6, <1>7, <1>8, <1>9, MoveKept DEF PoolInv

-----------------------------------------------------------------------------
(* cthread_fork.                                                           *)

\* Nobody has the mutex of a record on the free list, or waits for its condition.
LEMMA FreeRecord ==
  ASSUME PoolInv, NEW x \in Records, x \notin live
  PROVE  /\ mutex[x] = None /\ queue[x] = <<>>
         /\ x \notin handle /\ x \notin Range(requests)
         /\ \A u \in Threads : target[u] # x /\ ~Runs(u, x)
<1>0. /\ RecordOK(x) /\ LockOK /\ PoolType /\ x # None /\ x # "cthread_lock"
      /\ x # "needed" /\ x # "idle"
      /\ mutex \in [Mutexes -> Threads \union {None}] /\ x \in Mutexes /\ x \in Conds
      /\ queue \in [Conds -> Seq(Threads)]
  BY LibFacts, Names DEF PoolInv
<1>1. /\ x \notin handle /\ x \notin Range(requests)
      /\ \A u \in Threads : target[u] # x /\ ~Runs(u, x)
  BY <1>0 DEF RecordOK
<1>2. mutex[x] = None
  <2>1. SUFFICES ASSUME NEW u \in Threads, mutex[x] = u PROVE FALSE
    BY <1>0
  <2>2. x = Own(u)
    BY <1>0, <2>1 DEF LockOK
  <2> QED
    BY <1>0, <1>1, <2>2 DEF Own, Runs, Running
<1>3. queue[x] = <<>>
  <2>1. SUFFICES ASSUME queue[x] # <<>> PROVE FALSE
    OBVIOUS
  <2>2. queue[x] \in Seq(Threads) /\ queue[x][1] \in Range(queue[x])
    BY <1>0, <2>1 DEF Range
  <2>3. \A c \in Conds : \A t \in Range(queue[c]) :
              t \in Threads /\ on[t] = c /\ pc[t] \in {"unlock", "spin", "receive"}
    BY LibFacts DEF PoolInv
  <2>4. PICK u \in Threads : on[u] = x /\ pc[u] \in Waits /\ CallOK(u)
    BY <1>0, <2>2, <2>3 DEF PoolInv, Waits
  <2> QED
    BY <1>0, <1>1, <2>4 DEF CallOK
<1> QED
  BY <1>1, <1>2, <1>3

\* The record is x; N is the set of cprocs that are created, of one or of none.
ForkedBy(t, x, N) ==
  /\ x \in Records \ live
  /\ live' = live \union {x} /\ handle' = handle \union {x} /\ finished' = finished \ {x}
  /\ flags' = [flags EXCEPT ![x] = {}] /\ requests' = Append(requests, x)
  /\ N = {} \/ \E new \in Threads : N = {new} /\ at[new] = "none"
  /\ at' \in [Threads -> Working \union {"none", "body", "look", "idle", "exit", "exited"}]
  /\ \A u \in Threads : at'[u] = IF u = t THEN "signal_needed"
                                 ELSE IF u \in N THEN "body" ELSE at[u]
  /\ n_cthreads' = n_cthreads + 1 /\ n_cprocs' = n_cprocs + Cardinality(N)
  /\ (N # {}) <=> NeedsCproc(n_cthreads + 1)
  /\ UNCHANGED <<rec, target, max_cprocs, queue, pc, on, with>>
  /\ mutex["cthread_lock"] = t /\ mutex' = [mutex EXCEPT !["cthread_lock"] = None]
  /\ Proved!IInv'

LEMMA ForkedEffect ==
  ASSUME PoolInv, NEW t \in Threads, Forked(t)
  PROVE  \E x \in Records, N \in SUBSET Threads : ForkedBy(t, x, N)
<1>0. /\ Proved!IInv /\ PoolType /\ PlaceOK(t) /\ LockOK /\ at[t] = "fork" /\ pc[t] = "run"
      /\ n_cthreads' = n_cthreads + 1
      /\ UNCHANGED <<held, state, port, pc, on, with, todo, rec, target, max_cprocs>>
  BY AtFacts DEF Forked
<1>1. PICK x \in Records \ live :
       /\ live' = live \union {x}
       /\ handle' = handle \union {x}
       /\ finished' = finished \ {x}
       /\ flags' = [flags EXCEPT ![x] = {}]
       /\ queue' = [queue EXCEPT ![x] = <<>>]
       /\ mutex' = [mutex EXCEPT ![x] = None, !["cthread_lock"] = None]
       /\ requests' = Append(requests, x)
  BY DEF Forked
<1>2. mutex[x] = None /\ queue[x] = <<>> /\ x \in Conds /\ x \in Mutexes
  BY <1>1, FreeRecord, Names
<1>3. mutex["cthread_lock"] = t
  BY <1>0 DEF LockOK, Locks
<1>4. mutex \in [Mutexes -> Threads \union {None}] /\ queue \in [Conds -> Seq(Threads)]
  BY <1>0, LibFacts
<1>5. queue' = queue /\ mutex' = [mutex EXCEPT !["cthread_lock"] = None]
  BY <1>1, <1>2, <1>4
<1>6. Proved!IInv'
  <2>1. Lib!mutex_unlock(t, "cthread_lock")
    BY <1>0, <1>3, <1>5 DEF Lib!mutex_unlock
  <2> QED
    BY <1>0, <2>1, CallEffect, Names
<1>7. CASE NeedsCproc(n_cthreads + 1)
  <2>1. /\ n_cprocs' = n_cprocs + 1
        /\ \E new \in Threads : /\ at[new] = "none"
                                /\ at' = [at EXCEPT ![t] = "signal_needed", ![new] = "body"]
    BY <1>7 DEF Forked
  <2>2. PICK new \in Threads : /\ at[new] = "none"
                               /\ at' = [at EXCEPT ![t] = "signal_needed", ![new] = "body"]
    BY <2>1
  <2>3. /\ at' \in [Threads -> Working \union {"none", "body", "look", "idle", "exit", "exited"}]
        /\ \A u \in Threads : at'[u] = IF u = t THEN "signal_needed"
                                       ELSE IF u \in {new} THEN "body" ELSE at[u]
    BY <1>0, <2>2 DEF PoolType, Working, Running
  <2>4. Cardinality({new}) = 1 /\ {new} # {} /\ {new} \in SUBSET Threads
    BY FS_Singleton
  <2>5. ForkedBy(t, x, {new})
    BY <1>0, <1>1, <1>3, <1>5, <1>6, <1>7, <2>1, <2>2, <2>3, <2>4 DEF ForkedBy
  <2> QED
    BY <2>4, <2>5
<1>8. CASE ~NeedsCproc(n_cthreads + 1)
  <2>1. at' = [at EXCEPT ![t] = "signal_needed"] /\ n_cprocs' = n_cprocs
    BY <1>8 DEF Forked, Goto
  <2>2. /\ at' \in [Threads -> Working \union {"none", "body", "look", "idle", "exit", "exited"}]
        /\ \A u \in Threads : at'[u] = IF u = t THEN "signal_needed"
                                       ELSE IF u \in {} THEN "body" ELSE at[u]
    BY <1>0, <2>1 DEF PoolType, Working, Running
  <2>3. n_cprocs' = n_cprocs + Cardinality({})
    BY <1>0, <2>1, FS_EmptySet DEF PoolType
  <2>4. ForkedBy(t, x, {})
    BY <1>0, <1>1, <1>3, <1>5, <1>6, <1>8, <2>1, <2>2, <2>3 DEF ForkedBy
  <2> QED
    BY <2>4
<1> QED
  BY <1>7, <1>8

LEMMA ForkedKeeps ==
  ASSUME PoolInv, NEW t \in Threads, Forked(t)
  PROVE  PoolInv'
<1>0. /\ Proved!IInv /\ PoolType /\ PlaceOK(t) /\ CallOK(t) /\ LockOK /\ CountsOK
      /\ at[t] = "fork" /\ pc[t] = "run"
  BY AtFacts DEF Forked, PoolInv
<1>1. PICK x \in Records, N \in SUBSET Threads : ForkedBy(t, x, N)
  BY ForkedEffect
<1>2. /\ \A u \in Threads : at'[u] = IF u = t THEN "signal_needed"
                                     ELSE IF u \in N THEN "body" ELSE at[u]
      /\ \A u \in N : at[u] = "none"
      /\ UNCHANGED <<rec, target, queue, pc, on, with, max_cprocs>> /\ x \in Records \ live
  BY <1>1 DEF ForkedBy
<1>3. \A u \in Threads : PlaceOK(u)' /\ CallOK(u)'
  <2>1. PlaceOK(t)' /\ CallOK(t)'
    BY <1>0, <1>2 DEF PlaceOK, CallOK, Working, Running, Claiming, MainPlaces, Waits, Signalling
  <2>2. ASSUME NEW u \in N, u # t PROVE PlaceOK(u)' /\ CallOK(u)'
    <3>1. PlaceOK(u) /\ CallOK(u) /\ at[u] = "none" /\ at'[u] = "body"
      BY <1>2, <2>2 DEF PoolInv
    <3> QED
      BY <1>2, <3>1 DEF PlaceOK, CallOK, Working, Running, Claiming, MainPlaces, Waits, Signalling
  <2>3. ASSUME NEW u \in Threads, u # t, u \notin N PROVE PlaceOK(u)' /\ CallOK(u)'
    <3>1. Aside(u)
      BY <1>2, <2>3 DEF Aside
    <3> QED
      BY <3>1, AsideKept DEF PoolInv
  <2> QED
    BY <2>1, <2>2, <2>3
<1>4. LockOK'
  <2>1. \A u \in Threads \ {t} : Own(u)' = Own(u) /\ (Locks(u)' <=> Locks(u))
    BY <1>2 DEF Own, Locks
  <2>2. ~Locks(t)'
    BY <1>2 DEF Locks
  <2>3. /\ mutex["cthread_lock"] = t /\ mutex' = [mutex EXCEPT !["cthread_lock"] = None]
        /\ mutex \in [Mutexes -> Threads \union {None}]
    BY <1>0, <1>1, LibFacts DEF ForkedBy
  <2>4. \A m \in Mutexes : mutex'[m] # t
    <3>1. Own(t) = "cthread_lock"
      BY <1>0 DEF Own
    <3> QED
      BY <1>0, <2>3, <3>1, Names DEF LockOK
  <2> QED
    BY <1>0, <2>1, <2>2, <2>3, <2>4, Names DEF LockOK
<1>5. /\ requests' = Append(requests, x) /\ requests \in Seq(Records)
      /\ requests' \in Seq(Records) /\ x \notin Range(requests)
      /\ Range(requests') = Range(requests) \union {x}
      /\ IsInjective(requests') /\ Len(requests') = Len(requests) + 1 /\ Len(requests) \in Nat
  BY <1>0, <1>1, FreeRecord, AppendRange DEF ForkedBy, PoolType, CountsOK
<1>6. CountsOK' /\ n_cprocs' \in Nat /\ n_cthreads' \in Nat
  <2>1. Busy' = Busy
    BY <1>2 DEF Busy
  <2>2. Created' = Created \union N /\ Created \intersect N = {}
    BY <1>0, <1>2 DEF Created
  <2>3. IsFiniteSet(Created) /\ IsFiniteSet(N) /\ IsFiniteSet(Busy)
    BY CThreadsAssumption, FS_Subset DEF Created, Busy
  <2>4. /\ Cardinality(Created') = Cardinality(Created) + Cardinality(N)
        /\ Cardinality(Created) \in Nat /\ Cardinality(N) \in Nat /\ Cardinality(Busy) \in Nat
    <3>1. Cardinality(Created \union N) =
            Cardinality(Created) + Cardinality(N) - Cardinality(Created \intersect N)
      BY <2>3, FS_Union
    <3>2. Cardinality(Created \intersect N) = 0
      BY <2>2, FS_EmptySet
    <3>3. Cardinality(Created) \in Nat /\ Cardinality(N) \in Nat /\ Cardinality(Busy) \in Nat
      BY <2>3, FS_CardinalityType
    <3> QED
      BY <2>2, <3>1, <3>2, <3>3
  <2> QED
    BY <1>0, <1>1, <1>5, <2>1, <2>4 DEF CountsOK, ForkedBy
<1>7. PoolType'
  BY <1>0, <1>1, <1>5, <1>6 DEF PoolType, ForkedBy
<1>8. ASSUME NEW y \in Records PROVE RecordOK(y)'
  <2>1. RecordOK(y) /\ y # None
    BY Names DEF PoolInv
  <2>2. \A u \in Threads : /\ Runs(u, y)' => Runs(u, y)
                           /\ at'[u] = at[u] \/ at'[u] \in {"signal_needed", "body"}
    BY <1>0, <1>2 DEF Runs, Running
  <2>3. CASE y # x
    <3>1. /\ flags'[y] = flags[y]
          /\ y \in live' <=> y \in live
          /\ y \in handle' <=> y \in handle
          /\ y \in finished' <=> y \in finished
          /\ y \in Range(requests') <=> y \in Range(requests)
      BY <1>0, <1>1, <1>5, <2>3 DEF ForkedBy, PoolType
    <3> QED
      BY <1>2, <2>1, <2>2, <3>1 DEF RecordOK
  <2>4. CASE y = x
    <3>1. flags'[y] = {} /\ y \in live' /\ \A u \in Threads : target[u] # y /\ ~Runs(u, y)
      BY <1>0, <1>1, <2>4, FreeRecord DEF ForkedBy, PoolType
    <3>2. \A u \in Threads : rec[u] = y => at'[u] \notin {"return", "free_own"}
      BY <2>2, <3>1 DEF Runs, Running
    <3> QED
      BY <1>2, <2>2, <3>1, <3>2 DEF RecordOK
  <2> QED
    BY <2>3, <2>4
<1>9. Proved!IInv'
  BY <1>1 DEF ForkedBy
<1> QED
  BY <1>3, <1>4, <1>6, <1>7, <1>8, <1>9 DEF PoolInv

-----------------------------------------------------------------------------
(* The invariant.                                                          *)

LEMMA SetLimitKeeps ==
  ASSUME PoolInv, NEW n \in Limits, cthread_set_limit(n)
  PROVE  PoolInv'
<1>0. /\ max_cprocs' = n
      /\ UNCHANGED <<libVars, at, rec, target, flags, requests, live, handle, finished,
                     n_cthreads, n_cprocs>>
  BY DEF cthread_set_limit
<1>1. n \in Nat
  BY CThreadsAssumption
<1>2. Proved!IInv'
  BY <1>0, LibStep DEF PoolInv
<1>3. PoolType' /\ CountsOK'
  BY <1>0, <1>1 DEF PoolInv, PoolType, CountsOK, Busy, Created
<1>4. \A t \in Threads : PlaceOK(t)' /\ CallOK(t)'
  BY <1>0 DEF PoolInv, PlaceOK, CallOK, libVars
<1>5. LockOK'
  BY <1>0 DEF PoolInv, LockOK, Own, Locks, libVars
<1>6. \A x \in Records : RecordOK(x)'
  BY <1>0 DEF PoolInv, RecordOK, Runs
<1> QED
  BY <1>2, <1>3, <1>4, <1>5, <1>6 DEF PoolInv

LEMMA PoolInit == Init => PoolInv
<1> SUFFICES ASSUME Init PROVE PoolInv
  OBVIOUS
<1>1. Proved!IInv
  BY LibInit DEF Init
<1>2. /\ \A t \in Threads : at[t] = IF t = Main THEN "user" ELSE "none"
      /\ \A t \in Threads : rec[t] = None /\ target[t] = None /\ pc[t] = "run"
      /\ \A m \in Mutexes : mutex[m] = None
  BY DEF Init, Lib!Init
<1>3. PoolType
  BY DEF Init, PoolType, Working, Running
<1>4. \A t \in Threads : PlaceOK(t) /\ CallOK(t)
  BY <1>2 DEF PlaceOK, CallOK, Working, Running, Claiming, MainPlaces, Waits, Signalling
<1>5. LockOK
  BY <1>2, Names DEF LockOK, Locks
<1>6. requests = <<>> /\ Range(requests) = {} /\ IsInjective(requests) /\ Len(requests) = 0
  BY EmptyRange DEF Init
<1>7. \A x \in Records : RecordOK(x)
  BY <1>2, <1>6, Names DEF RecordOK, Runs, Init
<1>8. CountsOK
  <2>1. Busy = {} /\ Created = {Main}
    BY <1>2, Names DEF Busy, Created
  <2>2. Cardinality(Busy) = 0 /\ Cardinality(Created) = 1
    BY <2>1, FS_EmptySet, FS_Singleton
  <2> QED
    BY <1>6, <2>2 DEF CountsOK, Init
<1> QED
  BY <1>1, <1>3, <1>4, <1>5, <1>7, <1>8 DEF PoolInv

LEMMA PoolStep == PoolInv /\ [Next]_vars => PoolInv'
<1> SUFFICES ASSUME PoolInv, [Next]_vars PROVE PoolInv'
  OBVIOUS
<1>1. ASSUME NEW t \in Threads, Client(t) PROVE PoolInv'
  <2>1. CASE cthread_join(t)
    BY <2>1, ClaimKeeps DEF cthread_join
  <2>2. CASE cthread_detach(t)
    BY <2>2, ClaimKeeps DEF cthread_detach
  <2> QED
    BY <1>1, <2>1, <2>2, ForkKeeps, ForkedKeeps, SignalNeededKeeps, JoinedKeeps, DetachedKeeps,
       FreeKeeps, BodyKeeps, LookKeeps, IdleKeeps, ReturnKeeps, ReturnedKeeps, FreeOwnKeeps,
       SignalDoneKeeps, FinishKeeps DEF Client
<1>2. CASE UNCHANGED vars
  <2>1. UNCHANGED libVars /\ UNCHANGED poolVars
    BY <1>2 DEF vars
  <2>2. Proved!IInv'
    BY <2>1, LibStep DEF PoolInv
  <2>3. LockOK' /\ \A t \in Threads : CallOK(t)'
    BY <2>1 DEF PoolInv, LockOK, Own, Locks, CallOK, libVars, poolVars
  <2> QED
    BY <2>1, <2>2, <2>3, SamePool DEF PoolInv
<1> QED
  BY <1>1, <1>2, LibraryStep, SetLimitKeeps, ExitKeeps, ExitingKeeps DEF Next

\* The invariant of the pool: who has which cthread, mutex and place in the package,
\* for any numbers of cprocs and records.
THEOREM PoolInvariant == Spec => []PoolInv
BY PoolInit, PoolStep, PTL DEF Spec

-----------------------------------------------------------------------------
(* Records are freed once.                                                 *)

LEMMA RequestsBound ==
  ASSUME PoolInv
  PROVE  Len(requests) \in Nat /\ Len(requests) <= Cardinality(Records)
<1>0. requests \in Seq(Records) /\ IsInjective(requests)
  BY DEF PoolInv, PoolType, CountsOK
<1>1. /\ Len(requests) \in Nat /\ requests \in [1..Len(requests) -> Records]
      /\ DOMAIN requests = 1..Len(requests)
  BY <1>0
<1>2. requests \in Injection(1..Len(requests), Records)
  BY <1>0, <1>1 DEF Injection, IsInjective
<1>3. Cardinality(1..Len(requests)) <= Cardinality(Records)
  BY <1>2, CThreadsAssumption, FS_Injection
<1>4. Cardinality(1..Len(requests)) = Len(requests)
  BY <1>1, FS_Interval
<1> QED
  BY <1>1, <1>3, <1>4

LEMMA PoolTypes == PoolInv => TypeOK
<1> SUFFICES ASSUME PoolInv PROVE TypeOK
  OBVIOUS
<1>1. Lib!TypeOK
  BY LibFacts DEF PoolInv
<1>2. /\ \A t \in Threads : rec[t] \in Records \union {None} /\ target[t] \in Records \union {None}
      /\ Range(requests) \subseteq Records /\ handle \subseteq Records
  BY RangeSeq DEF PoolInv, PoolType
<1>3. Range(requests) \subseteq live /\ handle \subseteq live
  BY <1>2 DEF PoolInv, RecordOK
<1>4. n_cthreads \in 1..(1 + Cardinality(Records) + Cardinality(Threads))
  <2>1. IsFiniteSet(Busy) /\ Cardinality(Busy) <= Cardinality(Threads)
    BY CThreadsAssumption, FS_Subset DEF Busy
  <2>2. Cardinality(Busy) \in Nat /\ Cardinality(Threads) \in Nat /\ Cardinality(Records) \in Nat
    BY <2>1, CThreadsAssumption, FS_CardinalityType
  <2>3. n_cthreads = 1 + Len(requests) + Cardinality(Busy)
    BY DEF PoolInv, CountsOK
  <2> QED
    BY <2>1, <2>2, <2>3, RequestsBound
<1>5. n_cprocs = Cardinality({t \in Threads : at[t] # "none"})
  BY DEF PoolInv, CountsOK, Created
<1> QED
  BY <1>1, <1>2, <1>3, <1>4, <1>5 DEF TypeOK

LEMMA PoolFrees == PoolInv => FreedOnce
<1> SUFFICES ASSUME PoolInv PROVE FreedOnce
  OBVIOUS
<1>1. ASSUME NEW t \in Threads, At(t, "free") \/ At(t, "free_own"),
             NEW x, x = IF at[t] = "free" THEN target[t] ELSE rec[t]
      PROVE  /\ x \in live \intersect finished
             /\ x \notin handle \union Range(requests)
             /\ \A u \in Threads \ {t} :
                  /\ at[u] \in {"join", "detach", "free"} => target[u] # x
                  /\ at[u] \in {"user", "fork", "return", "free_own"} => rec[u] # x
  <2>0. PlaceOK(t) /\ PoolType /\ at[t] \in {"free", "free_own"}
    BY <1>1 DEF PoolInv, At
  <2>1. x \in Records
    BY <1>1, <2>0 DEF PlaceOK, PoolType, Working, Running, Claiming, MainPlaces
  <2>2. RecordOK(x)
    BY <2>1 DEF PoolInv
  <2>3. CASE at[t] = "free"
    <3>1. target[t] = x /\ x \in live /\ x \notin handle /\ "RETURNED" \in flags[x]
      BY <1>1, <2>2, <2>3 DEF RecordOK
    <3>2. \A u \in Threads : ~Runs(u, x)
      BY <2>2, <3>1 DEF RecordOK
    <3> QED
      BY <2>2, <3>1, <3>2 DEF RecordOK, Runs, Running
  <2>4. CASE at[t] = "free_own"
    <3>1. rec[t] = x /\ Runs(t, x) /\ x \in finished /\ "DETACHED" \in flags[x]
      BY <1>1, <2>2, <2>4 DEF RecordOK, Runs, Running
    <3>2. x \in live /\ x \notin Range(requests) /\ x \notin handle
      BY <2>2, <3>1 DEF RecordOK
    <3>3. \A u \in Threads \ {t} : ~Runs(u, x) /\ target[u] # x
      BY <2>2, <3>1 DEF RecordOK
    <3> QED
      BY <3>1, <3>2, <3>3 DEF Runs, Running
  <2> QED
    BY <2>0, <2>3, <2>4
<1> QED
  BY <1>1, PoolTypes DEF FreedOnce

\* A cthread is freed when its own function has returned, by nobody else, and
\* nobody runs it, joins it or will: cthread_join, cthread_detach, cthread_exit.
THEOREM RecordsFreedOnce == Spec => []FreedOnce
BY PoolInvariant, PoolFrees, PTL

-----------------------------------------------------------------------------
(* Main leaves last.                                                       *)

\* Only cthread_exit of the main thread ends the program.
LEMMA ExitStep ==
  ASSUME PoolInv, [Next]_vars, at[Main] # "exited", at'[Main] = "exited"
  PROVE  Exiting /\ ~(n_cthreads > 1)
<1>0. PoolType /\ Main \in Threads
  BY Names DEF PoolInv
<1>1. ASSUME NEW t \in Threads, NEW l, Goto(t, l), l # "exited" PROVE FALSE
  BY <1>0, <1>1 DEF Goto, PoolType
<1>2. ASSUME NEW t \in Threads, Client(t) PROVE FALSE
  <2>1. ~Forked(t)
    <3>1. SUFFICES ASSUME Forked(t) PROVE FALSE
      OBVIOUS
    <3>2. PICK x \in Records, N \in SUBSET Threads : ForkedBy(t, x, N)
      BY <3>1, ForkedEffect
    <3> QED
      BY <1>0, <3>2 DEF ForkedBy
  <2>2. ~cthread_join(t) /\ ~cthread_detach(t)
    BY <1>1 DEF cthread_join, cthread_detach, Claim
  <2>3. ~Fork(t) /\ ~SignalNeeded(t) /\ ~Detached(t) /\ ~cthread_free(t) /\ ~Body(t)
    BY <1>1 DEF Fork, SignalNeeded, Detached, cthread_free, Body
  <2>4. ~Look(t) /\ ~Idle(t) /\ ~Return(t) /\ ~Returned(t) /\ ~FreeOwn(t)
    BY <1>1 DEF Look, Idle, Return, Returned, FreeOwn
  <2>5. ~SignalDone(t) /\ ~Finish(t) /\ ~Joined(t)
    BY <1>1 DEF SignalDone, Finish, Joined
  <2> QED
    BY <1>2, <2>1, <2>2, <2>3, <2>4, <2>5 DEF Client
<1>3. ~Exit /\ \A n \in Limits : ~cthread_set_limit(n)
  BY <1>0, <1>1 DEF Exit, cthread_set_limit
<1>4. ~UNCHANGED vars /\ \A t \in Threads : ~Library(t)
  BY DEF vars, poolVars, Library
<1>5. Exiting
  BY <1>2, <1>3, <1>4 DEF Next
<1> QED
  BY <1>5 DEF Exiting

\* Nothing moves after exit().
LEMMA NothingAfter ==
  ASSUME [Next]_vars, at[Main] = "exited"
  PROVE  UNCHANGED vars
<1>1. ~Alive
  BY DEF Alive
<1>2. \A t, l : ~At(t, l)
  BY <1>1 DEF At
<1>3. ASSUME NEW t \in Threads PROVE ~Client(t) /\ ~Library(t)
  <2>1. ~Fork(t) /\ ~Forked(t) /\ ~SignalNeeded(t) /\ ~cthread_join(t) /\ ~cthread_detach(t)
    BY <1>2 DEF Fork, Forked, SignalNeeded, cthread_join, cthread_detach, Claim
  <2>2. ~Joined(t) /\ ~Detached(t) /\ ~cthread_free(t) /\ ~Body(t) /\ ~Look(t) /\ ~Idle(t)
    BY <1>2 DEF Joined, Detached, cthread_free, Body, Look, Idle
  <2>3. ~Return(t) /\ ~Returned(t) /\ ~FreeOwn(t) /\ ~SignalDone(t) /\ ~Finish(t) /\ ~Library(t)
    BY <1>1, <1>2 DEF Return, Returned, FreeOwn, SignalDone, Finish, Library
  <2> QED
    BY <2>1, <2>2, <2>3 DEF Client
<1>4. ~Exit /\ ~Exiting /\ \A n \in Limits : ~cthread_set_limit(n)
  BY <1>2 DEF Exit, Exiting, cthread_set_limit
<1> QED
  BY <1>3, <1>4 DEF Next

LEMMA ExitsLastStep == PoolInv /\ ExitsLast /\ [Next]_vars => ExitsLast'
<1> SUFFICES ASSUME PoolInv, ExitsLast, [Next]_vars, at'[Main] = "exited" PROVE ExitsLast'
  BY DEF ExitsLast
<1>1. CASE at[Main] = "exited"
  BY <1>1, NothingAfter DEF vars, poolVars, ExitsLast
<1>2. CASE at[Main] # "exited"
  <2>1. ~(n_cthreads > 1) /\ rec' = rec /\ requests' = requests
    BY <1>2, ExitStep DEF Exiting
  <2>2. IsFiniteSet(Busy)
    BY CThreadsAssumption, FS_Subset DEF Busy
  <2>3. /\ n_cthreads = 1 + Len(requests) + Cardinality(Busy) /\ requests \in Seq(Records)
        /\ Len(requests) \in Nat /\ Cardinality(Busy) \in Nat
    BY <2>2, FS_CardinalityType DEF PoolInv, CountsOK, PoolType
  <2>4. Len(requests) = 0 /\ Cardinality(Busy) = 0
    BY <2>1, <2>3
  <2>5. requests = <<>> /\ Busy = {}
    BY <2>2, <2>3, <2>4, FS_EmptySet, EmptySeq
  <2> QED
    BY <2>1, <2>5 DEF ExitsLast, Busy
<1> QED
  BY <1>1, <1>2

\* The program exits only when no cthread is left to start or to finish, though
\* main sleeps on cthread_idle, wakes and counts again: cthread_exit.
THEOREM MainExitsLast == Spec => []ExitsLast
<1>1. Init => ExitsLast
  BY Names DEF Init, ExitsLast
<1> QED
  BY <1>1, PoolInvariant, ExitsLastStep, PTL DEF Spec

-----------------------------------------------------------------------------
(* What a step of the package does to those who wait.                      *)

\* t goes to sleep on c.
Sleeps(t, c) ==
  /\ queue'[c] = Append(queue[c], t) /\ UNCHANGED <<flags, n_cthreads>>
  /\ c \in Records => "RETURNED" \notin flags[c]
  /\ c = "idle" => n_cthreads > 1
  /\ c = "needed" => at[t] = "idle"

\* Whoever marks a cthread as returned, or leaves main the last one, goes on to tell.
Tells(t) ==
  /\ \A x \in Records : "RETURNED" \in flags'[x] =>
       \/ "RETURNED" \in flags[x]
       \/ rec'[t] = x /\ at'[t] = "signal_done" /\ pc'[t] = "run"
  /\ n_cthreads' = 1 => n_cthreads = 1 \/ (at'[t] = "look" /\ pc'[t] = "run")
  /\ at[t] = "signal_done" =>
       /\ rec'[t] = rec[t]
       /\ queue[rec[t]] # <<>> => pc'[t] = "signal" /\ on'[t] = rec[t]
  /\ at[t] = "look" /\ n_cthreads = 1 /\ queue["idle"] # <<>> =>
       pc'[t] = "signal" /\ on'[t] = "idle"

\* The others are left alone.
Alone(t) ==
  /\ pc[t] = "run"
  /\ \A u \in Threads \ {t} : at[u] = "none" \/ Aside(u)
  /\ \A c \in Conds : queue'[c] = queue[c] \/ Sleeps(t, c)

Comings == {t \in Threads : Coming(t)}
Calls(t) == Signals(t, "needed", "signal_needed")
Callers == {t \in Threads : Calls(t)}

\* t does not let requests down.
Feeds(t) ==
  \/ requests' = <<>>
  \/ /\ UNCHANGED <<requests, n_cprocs, max_cprocs>>
     /\ Coming(t) => Coming(t)'
     /\ Calls(t) => Calls(t)' \/ queue["needed"] = <<>>

LEMMA RunNotQueued ==
  ASSUME PoolInv, NEW t \in Threads, pc[t] = "run", NEW c \in Conds
  PROVE  t \notin Range(queue[c])
BY LibFacts DEF PoolInv

\* Steps that take or give up a mutex.
LEMMA LockEffect ==
  ASSUME PoolInv, NEW t \in Threads, NEW l, pc[t] = "run", Goto(t, l),
         UNCHANGED <<queue, pc, on, with, requests, n_cprocs, max_cprocs>>,
         \A u \in Threads \ {t} : rec'[u] = rec[u] /\ target'[u] = target[u],
         \A x \in Records : "RETURNED" \in flags'[x] =>
           "RETURNED" \in flags[x] \/ (rec'[t] = x /\ l = "signal_done"),
         n_cthreads' = n_cthreads \/ l = "look",
         at[t] \notin {"signal_done", "signal_needed", "look"},
         at[t] \in {"body", "return", "free_own", "finish"} =>
           l \in {"return", "signal_done", "free_own", "finish", "look"}
  PROVE  Alone(t) /\ Tells(t) /\ Feeds(t)
<1>1. \A u \in Threads : at'[u] = IF u = t THEN l ELSE at[u]
  BY DEF Goto, PoolInv, PoolType
<1>2. Alone(t)
  BY <1>1 DEF Alone, Aside
<1>3. Tells(t)
  BY <1>1 DEF Tells
<1>4. t \notin Range(queue["needed"])
  BY RunNotQueued, Names
<1>5. Feeds(t)
  BY <1>1, <1>4 DEF Feeds, Coming, Calls, Signals
<1> QED
  BY <1>2, <1>3, <1>5

LEMMA LockingSteps ==
  ASSUME PoolInv, NEW t \in Threads,
         \/ Fork(t) \/ Detached(t) \/ cthread_free(t) \/ Body(t) \/ Return(t)
         \/ Returned(t) \/ FreeOwn(t) \/ Finish(t) \/ cthread_join(t) \/ cthread_detach(t)
  PROVE  Alone(t) /\ Tells(t) /\ Feeds(t)
<1>0. Proved!IInv /\ PoolType /\ pc[t] = "run" /\ PlaceOK(t)
  BY AtFacts DEF Fork, Detached, cthread_free, Body, Return, Returned, FreeOwn, Finish,
     cthread_join, cthread_detach, Claim
<1>1. ASSUME NEW m \in Mutexes, Lib!mutex_lock(t, m) \/ Lib!mutex_unlock(t, m)
      PROVE  UNCHANGED <<queue, pc, on, with>>
  BY <1>0, <1>1, CallEffect
<1>2. ASSUME NEW x, target' = [target EXCEPT ![t] = x]
      PROVE  \A u \in Threads \ {t} : target'[u] = target[u]
  BY <1>0, <1>2 DEF PoolType
<1>3. CASE Fork(t)
  <2>1. UNCHANGED <<queue, pc, on, with>>
    BY <1>1, <1>3, Names DEF Fork
  <2> QED
    BY <1>0, <1>3, <2>1, LockEffect DEF Fork, At
<1>4. CASE Detached(t)
  <2>1. target[t] \in Mutexes /\ target[t] \in Records
    BY <1>0, <1>4, Names DEF Detached, At, PlaceOK, PoolType, Claiming
  <2>2. UNCHANGED <<queue, pc, on, with>>
    BY <1>1, <1>4, <2>1 DEF Detached
  <2>3. \A x \in Records : "RETURNED" \in flags'[x] => "RETURNED" \in flags[x]
    BY <1>0, <1>4, <2>1 DEF Detached, PoolType
  <2>4. \A u \in Threads \ {t} : target'[u] = target[u]
    BY <1>2, <1>4 DEF Detached
  <2> QED
    BY <1>0, <1>4, <2>2, <2>3, <2>4, LockEffect DEF Detached, At
<1>5. CASE cthread_free(t)
  <2>1. UNCHANGED <<queue, pc, on, with>>
    BY <1>5 DEF cthread_free, libVars
  <2> QED
    BY <1>0, <1>2, <1>5, <2>1, LockEffect DEF cthread_free, At
<1>6. CASE Body(t)
  <2>1. UNCHANGED <<queue, pc, on, with>>
    BY <1>1, <1>6, Names DEF Body
  <2> QED
    BY <1>0, <1>6, <2>1, LockEffect DEF Body, At
<1>7. CASE Return(t)
  <2>1. rec[t] \in Mutexes
    BY <1>0, <1>7, Names DEF Return, At, PlaceOK, PoolType, Working, Running
  <2>2. UNCHANGED <<queue, pc, on, with>>
    BY <1>1, <1>7, <2>1 DEF Return
  <2> QED
    BY <1>0, <1>7, <2>2, LockEffect DEF Return, At
<1>8. CASE Returned(t)
  <2>1. rec[t] \in Mutexes /\ rec[t] \in Records
    BY <1>0, <1>8, Names DEF Returned, At, PlaceOK, PoolType, Working, Running, MainPlaces
  <2>2. UNCHANGED <<queue, pc, on, with>>
    BY <1>1, <1>8, <2>1 DEF Returned
  <2>3. PICK l \in {"free_own", "signal_done"} :
          /\ Goto(t, l)
          /\ \A x \in Records : "RETURNED" \in flags'[x] =>
               "RETURNED" \in flags[x] \/ (rec[t] = x /\ l = "signal_done")
    BY <1>0, <1>8, <2>1 DEF Returned, PoolType
  <2> QED
    BY <1>0, <1>8, <2>2, <2>3, LockEffect DEF Returned, At
<1>9. CASE FreeOwn(t)
  <2>1. UNCHANGED <<queue, pc, on, with>>
    BY <1>9 DEF FreeOwn, libVars
  <2> QED
    BY <1>0, <1>9, <2>1, LockEffect DEF FreeOwn, At
<1>10. CASE Finish(t)
  <2>1. UNCHANGED <<queue, pc, on, with>>
    BY <1>1, <1>10, Names DEF Finish
  <2>2. \A u \in Threads \ {t} : rec'[u] = rec[u]
    BY <1>0, <1>10 DEF Finish, PoolType
  <2> QED
    BY <1>0, <1>10, <2>1, <2>2, LockEffect DEF Finish, At
<1>11. ASSUME NEW x \in handle, NEW l \in {"join", "detach"}, Claim(t, x, l)
       PROVE  Alone(t) /\ Tells(t) /\ Feeds(t)
  <2>1. x \in Mutexes
    BY <1>0, Names DEF PoolType
  <2>2. UNCHANGED <<queue, pc, on, with>>
    BY <1>1, <1>11, <2>1 DEF Claim
  <2> QED
    BY <1>0, <1>2, <1>11, <2>2, LockEffect DEF Claim, At
<1>12. CASE cthread_join(t) \/ cthread_detach(t)
  BY <1>11, <1>12 DEF cthread_join, cthread_detach
<1> QED
  BY <1>3, <1>4, <1>5, <1>6, <1>7, <1>8, <1>9, <1>10, <1>12

LEMMA SignallingSteps ==
  ASSUME PoolInv, NEW t \in Threads, SignalNeeded(t) \/ SignalDone(t)
  PROVE  Alone(t) /\ Tells(t) /\ Feeds(t)
<1>0. /\ Proved!IInv /\ PoolType /\ pc[t] = "run" /\ PlaceOK(t)
      /\ UNCHANGED <<rec, target, flags, requests, n_cthreads, n_cprocs, max_cprocs>>
  BY AtFacts DEF SignalNeeded, SignalDone
<1>1. PICK c \in Conds, l \in {"user", "finish"} :
        /\ Lib!condition_signal(t, c) /\ Goto(t, l)
        /\ \/ at[t] = "signal_needed" /\ c = "needed"
           \/ at[t] = "signal_done" /\ c = rec[t] /\ l = "finish"
  BY <1>0, Names DEF SignalNeeded, SignalDone, At, PlaceOK, PoolType, Working, MainPlaces
<1>2. /\ UNCHANGED <<queue, with>>
      /\ IF queue[c] = <<>> THEN UNCHANGED <<pc, on>> ELSE pc'[t] = "signal" /\ on'[t] = c
      /\ \A u \in Threads \ {t} : pc'[u] = pc[u] /\ on'[u] = on[u]
  BY <1>0, <1>1, CallEffect
<1>3. \A u \in Threads : at'[u] = IF u = t THEN l ELSE at[u]
  BY <1>0, <1>1 DEF Goto, PoolType
<1>4. Alone(t)
  BY <1>0, <1>2, <1>3 DEF Alone, Aside
<1>5. Tells(t)
  BY <1>0, <1>1, <1>2, <1>3 DEF Tells
<1>6. Feeds(t)
  BY <1>0, <1>1, <1>2, <1>3 DEF Feeds, Coming, Calls, Signals
<1> QED
  BY <1>4, <1>5, <1>6

LEMMA WaitingSteps ==
  ASSUME PoolInv, NEW t \in Threads, Joined(t) \/ Idle(t) \/ (t = Main /\ (Exit \/ Exiting))
  PROVE  Alone(t) /\ Tells(t) /\ Feeds(t)
<1>0. /\ Proved!IInv /\ PoolType /\ pc[t] = "run" /\ PlaceOK(t)
      /\ UNCHANGED <<rec, target, flags, requests, n_cthreads, n_cprocs, max_cprocs>>
  BY AtFacts DEF Joined, Idle, Exit, Exiting
<1>1. ASSUME NEW m \in Mutexes, NEW l \in {"free", "exit", "exited"},
             Lib!mutex_lock(t, m) \/ Lib!mutex_unlock(t, m), Goto(t, l),
             at[t] \in {"join", "user", "exit"}
      PROVE  Alone(t) /\ Tells(t) /\ Feeds(t)
  <2>1. UNCHANGED <<queue, pc, on, with>>
    BY <1>0, <1>1, CallEffect
  <2> QED
    BY <1>0, <1>1, <2>1, LockEffect
<1>2. ASSUME NEW c \in Conds, NEW m \in Mutexes, NEW l, Lib!condition_wait(t, c, m), Goto(t, l),
             \/ at[t] = "join" /\ l = "join" /\ c \in Records /\ "RETURNED" \notin flags[c]
             \/ at[t] = "idle" /\ c = "needed"
             \/ at[t] = "exit" /\ l = "exit" /\ c = "idle" /\ n_cthreads > 1
      PROVE  Alone(t) /\ Tells(t) /\ Feeds(t)
  <2>1. /\ pc'[t] = "unlock"
        /\ queue' = [queue EXCEPT ![c] = Append(@, t)]
        /\ \A u \in Threads \ {t} : pc'[u] = pc[u] /\ on'[u] = on[u] /\ with'[u] = with[u]
    BY <1>0, <1>2, CallEffect
  <2>2. \A u \in Threads : at'[u] = IF u = t THEN l ELSE at[u]
    BY <1>0, <1>2 DEF Goto, PoolType
  <2>3. queue \in [Conds -> Seq(Threads)]
    BY <1>0, LibFacts
  <2>4. \A d \in Conds : queue'[d] = queue[d] \/ Sleeps(t, d)
    BY <1>0, <1>2, <2>1, <2>3, Names DEF Sleeps
  <2>5. Alone(t)
    BY <1>0, <2>1, <2>2, <2>4 DEF Alone, Aside
  <2>6. Tells(t)
    BY <1>0, <1>2 DEF Tells
  <2>7. Feeds(t)
    BY <1>0, <1>2 DEF Feeds, Coming, Calls, Signals
  <2> QED
    BY <2>5, <2>6, <2>7
<1>3. CASE Joined(t)
  <2>1. target[t] \in Records /\ target[t] \in Mutexes /\ target[t] \in Conds /\ at[t] = "join"
    BY <1>0, <1>3, Names DEF Joined, At, PlaceOK, PoolType, Claiming
  <2>2. at' = at => Goto(t, "join")
    BY <1>0, <2>1 DEF Goto, PoolType
  <2> QED
    BY <1>1, <1>2, <1>3, <2>1, <2>2 DEF Joined
<1>4. CASE Idle(t)
  BY <1>2, <1>4, Names DEF Idle, At
<1>5. CASE t = Main /\ Exit
  BY <1>1, <1>5, Names DEF Exit, At
<1>6. CASE t = Main /\ Exiting
  <2>1. at' = at => Goto(t, "exit")
    BY <1>0, <1>6 DEF Goto, PoolType, Exiting, At
  <2> QED
    BY <1>1, <1>2, <1>6, <2>1, Names DEF Exiting, At
<1> QED
  BY <1>3, <1>4, <1>5, <1>6

\* n_cthreads counts the requests.
LEMMA CountFacts ==
  ASSUME PoolInv
  PROVE  /\ Cardinality(Busy) \in Nat /\ IsFiniteSet(Busy) /\ Len(requests) \in Nat
         /\ n_cthreads = 1 + Len(requests) + Cardinality(Busy)
         /\ n_cthreads = 1 => requests = <<>>
         /\ requests = <<>> <=> Len(requests) = 0
<1>1. IsFiniteSet(Busy) /\ Cardinality(Busy) \in Nat
  BY CThreadsAssumption, FS_Subset, FS_CardinalityType DEF Busy
<1>2. requests \in Seq(Records) /\ n_cthreads = 1 + Len(requests) + Cardinality(Busy)
  BY DEF PoolInv, PoolType, CountsOK
<1>3. requests = <<>> <=> Len(requests) = 0
  BY <1>2, EmptySeq
<1> QED
  BY <1>1, <1>2, <1>3

LEMMA LookEffect ==
  ASSUME PoolInv, NEW t \in Threads, Look(t)
  PROVE  /\ Alone(t) /\ Tells(t)
         /\ requests = <<>> => Feeds(t)
         /\ requests # <<>> =>
              /\ requests' = Tail(requests) /\ Coming(t)
              /\ \A u \in Threads \ {t} : at'[u] = at[u] /\ Aside(u)
              /\ UNCHANGED <<queue, pc, on, n_cprocs, max_cprocs>> /\ at[t] = "look"
<1>0. /\ Proved!IInv /\ PoolType /\ pc[t] = "run" /\ PlaceOK(t) /\ at[t] = "look"
      /\ UNCHANGED <<target, flags, n_cthreads, n_cprocs, max_cprocs>>
  BY AtFacts DEF Look
<1>1. t \notin Range(queue["needed"])
  BY <1>0, RunNotQueued, Names
<1>2. CASE requests = <<>>
  <2>1. Lib!condition_signal(t, "idle") /\ Goto(t, "idle") /\ UNCHANGED <<rec, requests>>
    BY <1>2 DEF Look
  <2>2. /\ UNCHANGED <<queue, with>>
        /\ IF queue["idle"] = <<>> THEN UNCHANGED <<pc, on>> ELSE pc'[t] = "signal" /\ on'[t] = "idle"
        /\ \A u \in Threads \ {t} : pc'[u] = pc[u] /\ on'[u] = on[u]
    BY <1>0, <2>1, CallEffect, Names
  <2>3. \A u \in Threads : at'[u] = IF u = t THEN "idle" ELSE at[u]
    BY <1>0, <2>1 DEF Goto, PoolType
  <2>4. Alone(t)
    BY <1>0, <2>1, <2>2, <2>3 DEF Alone, Aside
  <2>5. Tells(t)
    BY <1>0, <2>1, <2>2, <2>3 DEF Tells
  <2>6. Feeds(t)
    BY <1>2, <2>1 DEF Feeds
  <2> QED
    BY <1>2, <2>4, <2>5, <2>6
<1>3. CASE requests # <<>>
  <2>1. /\ Lib!mutex_unlock(t, "cthread_lock") /\ Goto(t, "user")
        /\ rec' = [rec EXCEPT ![t] = Head(requests)] /\ requests' = Tail(requests)
    BY <1>3 DEF Look
  <2>2. UNCHANGED <<queue, pc, on, with>>
    BY <1>0, <2>1, CallEffect, Names
  <2>3. /\ \A u \in Threads : at'[u] = IF u = t THEN "user" ELSE at[u]
        /\ \A u \in Threads \ {t} : rec'[u] = rec[u]
    BY <1>0, <2>1 DEF Goto, PoolType
  <2>4. Alone(t)
    BY <1>0, <2>2, <2>3 DEF Alone, Aside
  <2>5. n_cthreads # 1
    BY <1>3, CountFacts
  <2>6. Tells(t)
    BY <1>0, <2>5 DEF Tells
  <2> QED
    BY <1>0, <1>1, <1>3, <2>1, <2>2, <2>3, <2>4, <2>6 DEF Coming, Aside
<1> QED
  BY <1>2, <1>3

LEMMA ForkedTells ==
  ASSUME PoolInv, NEW t \in Threads, Forked(t)
  PROVE  Alone(t) /\ Tells(t)
<1>0. PoolType /\ at[t] = "fork" /\ pc[t] = "run"
  BY AtFacts DEF Forked
<1>1. PICK x \in Records, N \in SUBSET Threads : ForkedBy(t, x, N)
  BY ForkedEffect
<1>2. Alone(t)
  BY <1>0, <1>1 DEF ForkedBy, Alone, Aside
<1>3. \A y \in Records : "RETURNED" \in flags'[y] => "RETURNED" \in flags[y]
  BY <1>0, <1>1 DEF ForkedBy, PoolType
<1>4. n_cthreads' # 1
  BY <1>0, <1>1, CountFacts DEF ForkedBy
<1>5. Tells(t)
  BY <1>0, <1>3, <1>4 DEF Tells
<1> QED
  BY <1>2, <1>5

-----------------------------------------------------------------------------
(* Waiters are attended.                                                   *)

\* Only who claims a cthread sleeps on it, and only main on cthread_idle: a signal
\* that takes one waiter takes all.
LEMMA OneWaiter ==
  ASSUME PoolInv, NEW c \in Records \union {"idle"}, queue[c] # <<>>
  PROVE  Tail(queue[c]) = <<>>
<1> DEFINE q == queue[c]
<1>0. c \in Conds /\ c # "needed" /\ c # None
  BY Names
<1>1. /\ q \in Seq(Threads) /\ IsInjective(q) /\ Range(q) \subseteq Threads /\ q # <<>>
      /\ \A t \in Range(q) : t \in Threads /\ on[t] = c /\ pc[t] \in {"unlock", "spin", "receive"}
  BY <1>0, LibFacts DEF PoolInv
<1>2. ASSUME NEW t \in Range(q), NEW u \in Range(q) PROVE t = u
  <2>1. \A v \in {t, u} : /\ v \in Threads /\ CallOK(v) /\ PlaceOK(v) /\ on[v] = c
                          /\ pc[v] \in Waits
    BY <1>1 DEF PoolInv, Waits
  <2>2. CASE c = "idle"
    <3>1. \A v \in {t, u} : at[v] = "exit" \/ target[v] = "idle"
      BY <2>1, <2>2 DEF CallOK
    <3>2. \A v \in Threads : target[v] # "idle"
      BY Names DEF PoolInv, PoolType
    <3> QED
      BY <2>1, <3>1, <3>2 DEF PlaceOK, Working, Running
  <2>3. CASE c \in Records
    <3>1. target[t] = c /\ target[u] = c
      BY <1>0, <2>1, <2>3, Names DEF CallOK
    <3> QED
      BY <2>1, <2>3, <3>1 DEF PoolInv, RecordOK
  <2> QED
    BY <2>2, <2>3
<1> HIDE DEF q
<1>3. Len(q) \in Nat /\ q \in [1..Len(q) -> Threads] /\ (Len(q) = 0 => q = <<>>)
  BY <1>1, EmptySeq
<1>4. Len(q) = 1
  <2>1. ~(Len(q) > 1)
    <3>1. SUFFICES ASSUME Len(q) > 1 PROVE FALSE
      OBVIOUS
    <3>2. 1 \in DOMAIN q /\ 2 \in DOMAIN q
      BY <1>3, <3>1
    <3>3. q[1] \in Range(q) /\ q[2] \in Range(q)
      BY <3>2 DEF Range
    <3> QED
      BY <1>1, <1>2, <3>2, <3>3 DEF IsInjective
  <2> QED
    BY <1>1, <1>3, <2>1
<1>5. Tail(q) \in Seq(Threads) /\ Len(Tail(q)) = 0
  BY <1>1, <1>3, <1>4
<1> QED
  BY <1>5, EmptySeq DEF q

JoinersAttended ==
  \A x \in Records : queue[x] # <<>> /\ "RETURNED" \in flags[x] =>
    \E u \in Threads : rec[u] = x /\ Signals(u, x, "signal_done")
MainAttended ==
  queue["idle"] # <<>> /\ n_cthreads = 1 => \E u \in Threads : Signals(u, "idle", "look")

\* A thread that is about to signal has been created.
LEMMA SignalsCreated ==
  ASSUME PoolInv, NEW u \in Threads, NEW c, NEW l \in {"signal_done", "look", "signal_needed"},
         Signals(u, c, l)
  PROVE  at[u] # "none"
<1>1. CallOK(u)
  BY DEF PoolInv
<1> QED
  BY <1>1 DEF CallOK, Signals, Signalling

LEMMA ClientAttends ==
  ASSUME PoolInv, WaitersAttended, NEW t \in Threads, Alone(t), Tells(t)
  PROVE  WaitersAttended'
<1>0. JoinersAttended /\ MainAttended
  BY DEF WaitersAttended, JoinersAttended, MainAttended
<1>1. /\ pc[t] = "run"
      /\ \A u \in Threads \ {t} : at[u] # "none" => Aside(u)
  BY DEF Alone
<1>2. ASSUME NEW x \in Records, queue'[x] # <<>>, "RETURNED" \in flags'[x]
      PROVE  \E u \in Threads : rec'[u] = x /\ Signals(u, x, "signal_done")'
  <2>1. queue'[x] = queue[x]
    BY <1>2, Names DEF Alone, Sleeps
  <2>2. CASE rec'[t] = x /\ at'[t] = "signal_done" /\ pc'[t] = "run"
    BY <2>2 DEF Signals
  <2>3. CASE "RETURNED" \in flags[x]
    <3>1. PICK u \in Threads : rec[u] = x /\ Signals(u, x, "signal_done")
      BY <1>0, <1>2, <2>1, <2>3 DEF JoinersAttended
    <3>2. CASE u = t
      <4>1. at[t] = "signal_done"
        BY <1>1, <3>1, <3>2 DEF Signals
      <4>2. rec'[t] = x /\ pc'[t] = "signal" /\ on'[t] = x
        BY <1>2, <2>1, <3>1, <3>2, <4>1 DEF Tells
      <4> QED
        BY <4>2 DEF Signals
    <3>3. CASE u # t
      <4>1. Aside(u)
        BY <1>1, <3>1, <3>3, SignalsCreated
      <4> QED
        BY <3>1, <4>1 DEF Aside, Signals
    <3> QED
      BY <3>2, <3>3
  <2> QED
    BY <1>2, <2>2, <2>3 DEF Tells
<1>3. ASSUME queue'["idle"] # <<>>, n_cthreads' = 1
      PROVE  \E u \in Threads : Signals(u, "idle", "look")'
  <2>1. queue'["idle"] = queue["idle"]
    BY <1>3, Names DEF Alone, Sleeps, PoolInv, PoolType
  <2>2. CASE at'[t] = "look" /\ pc'[t] = "run"
    BY <2>2 DEF Signals
  <2>3. CASE n_cthreads = 1
    <3>1. PICK u \in Threads : Signals(u, "idle", "look")
      BY <1>0, <1>3, <2>1, <2>3 DEF MainAttended
    <3>2. CASE u = t
      <4>1. at[t] = "look"
        BY <1>1, <3>1, <3>2 DEF Signals
      <4>2. pc'[t] = "signal" /\ on'[t] = "idle"
        BY <1>3, <2>1, <2>3, <4>1 DEF Tells
      <4> QED
        BY <4>2 DEF Signals
    <3>3. CASE u # t
      <4>1. Aside(u)
        BY <1>1, <3>1, <3>3, SignalsCreated
      <4> QED
        BY <3>1, <4>1 DEF Aside, Signals
    <3> QED
      BY <3>2, <3>3
  <2> QED
    BY <1>3, <2>2, <2>3 DEF Tells
<1> QED
  BY <1>2, <1>3 DEF WaitersAttended

\* A condition that a step inside the library signals is left without waiters, and
\* others are left as they are.
LEMMA LibraryAttends ==
  ASSUME PoolInv, WaitersAttended, NEW t \in Threads, Library(t)
  PROVE  WaitersAttended'
<1>0. JoinersAttended /\ MainAttended /\ Proved!IInv /\ CallOK(t)
  BY DEF WaitersAttended, JoinersAttended, MainAttended, PoolInv
<1>1. /\ \A u \in Threads \ {t} : pc'[u] = pc[u] /\ on'[u] = on[u] /\ with'[u] = with[u]
      /\ WaitGoesOn(t) \/ WaitEnds(t) \/ SignalTakes(t) \/ SignalWakes(t)
  BY <1>0, InsideEffect DEF Library
<1>2. at' = at /\ rec' = rec /\ flags' = flags /\ n_cthreads' = n_cthreads
  BY DEF Library, poolVars
<1>3. ASSUME NEW c \in Records \union {"idle"}, queue'[c] # <<>>
      PROVE  queue[c] # <<>> /\ pc[t] # "run" /\ ~(pc[t] = "signal" /\ on[t] = c)
  <2>0. c \in Conds /\ queue \in [Conds -> Seq(Threads)]
    BY <1>0, LibFacts, Names
  <2>1. CASE queue' = queue /\ ~SignalTakes(t)
    BY <1>1, <1>3, <2>1 DEF WaitGoesOn, WaitEnds, SignalWakes
  <2>2. CASE SignalTakes(t)
    <3>1. CASE queue[on[t]] = <<>>
      BY <1>3, <2>2, <3>1 DEF SignalTakes
    <3>2. CASE queue[on[t]] # <<>>
      <4>1. queue' = [queue EXCEPT ![on[t]] = Tail(@)]
        BY <2>2, <3>2 DEF SignalTakes
      <4>2. on[t] # c
        <5>1. ASSUME on[t] = c PROVE FALSE
          <6>1. Tail(queue[c]) = <<>>
            BY <3>2, <5>1, OneWaiter
          <6> QED
            BY <1>3, <2>0, <4>1, <5>1, <6>1
        <5> QED
          BY <5>1
      <4> QED
        BY <1>3, <2>0, <2>2, <4>1, <4>2 DEF SignalTakes
    <3> QED
      BY <3>1, <3>2
  <2> QED
    BY <1>1, <2>1, <2>2 DEF WaitGoesOn, WaitEnds, SignalWakes
<1>4. ASSUME NEW x \in Records, queue'[x] # <<>>, "RETURNED" \in flags'[x]
      PROVE  \E u \in Threads : rec'[u] = x /\ Signals(u, x, "signal_done")'
  <2>1. queue[x] # <<>> /\ pc[t] # "run" /\ ~(pc[t] = "signal" /\ on[t] = x)
    BY <1>3, <1>4
  <2>2. PICK u \in Threads : rec[u] = x /\ Signals(u, x, "signal_done")
    BY <1>0, <1>2, <1>4, <2>1 DEF JoinersAttended
  <2>3. u # t
    BY <2>1, <2>2 DEF Signals
  <2> QED
    BY <1>1, <1>2, <2>2, <2>3 DEF Signals
<1>5. ASSUME queue'["idle"] # <<>>, n_cthreads' = 1
      PROVE  \E u \in Threads : Signals(u, "idle", "look")'
  <2>1. queue["idle"] # <<>> /\ pc[t] # "run" /\ ~(pc[t] = "signal" /\ on[t] = "idle")
    BY <1>3, <1>5
  <2>2. PICK u \in Threads : Signals(u, "idle", "look")
    BY <1>0, <1>2, <1>5, <2>1 DEF MainAttended
  <2>3. u # t
    BY <2>1, <2>2 DEF Signals
  <2> QED
    BY <1>1, <1>2, <2>2, <2>3 DEF Signals
<1> QED
  BY <1>4, <1>5 DEF WaitersAttended

LEMMA WaitersStep == PoolInv /\ WaitersAttended /\ [Next]_vars => WaitersAttended'
<1> SUFFICES ASSUME PoolInv, WaitersAttended, [Next]_vars PROVE WaitersAttended'
  OBVIOUS
<1>1. ASSUME NEW t \in Threads, Client(t) PROVE WaitersAttended'
  <2>1. Alone(t) /\ Tells(t)
    BY <1>1, LockingSteps, SignallingSteps, WaitingSteps, LookEffect, ForkedTells DEF Client
  <2> QED
    BY <2>1, ClientAttends
<1>2. CASE Exit \/ Exiting
  <2>1. Alone(Main) /\ Tells(Main)
    BY <1>2, WaitingSteps, Names
  <2> QED
    BY <2>1, ClientAttends, Names
<1>3. CASE UNCHANGED vars \/ \E n \in Limits : cthread_set_limit(n)
  <2>1. UNCHANGED <<queue, pc, on, at, rec, flags, n_cthreads>>
    BY <1>3 DEF vars, libVars, poolVars, cthread_set_limit
  <2> QED
    BY <2>1 DEF WaitersAttended, Signals
<1> QED
  BY <1>1, <1>2, <1>3, LibraryAttends DEF Next

\* Joiners of a cthread that has returned, and a main thread that is the last, are
\* not left asleep: whoever marked the return, or was counted last, has yet to signal.
THEOREM NobodyLeftWaiting == Spec => []WaitersAttended
<1>1. Init => WaitersAttended
  <2>1. ASSUME Init PROVE \A c \in Conds : queue[c] = <<>>
    BY <2>1 DEF Init, Lib!Init
  <2> QED
    BY <2>1, Names DEF WaitersAttended
<1> QED
  BY <1>1, PoolInvariant, WaitersStep, PTL DEF Spec

-----------------------------------------------------------------------------
(* Every cthread that is forked has a cproc on its way.                    *)

\* r requests, c cprocs that come, s signals and a cprocs asleep.
Enough(r, c, s, a) == r <= c + (IF s < a THEN s ELSE a)

Served ==
  BelowLimit => Enough(Len(requests), Cardinality(Comings), Cardinality(Callers),
                       Len(queue["needed"]))

LEMMA ServedAttends == (ForkAttended <=> Served) /\ (ForkAttended' <=> Served')
BY DEF ForkAttended, Served, Enough, Comings, Callers, Calls

LEMMA CountTypes ==
  ASSUME PoolInv
  PROVE  /\ IsFiniteSet(Comings) /\ IsFiniteSet(Callers)
         /\ IsFiniteSet(Comings') /\ IsFiniteSet(Callers')
         /\ Cardinality(Comings) \in Nat /\ Cardinality(Callers) \in Nat
         /\ Cardinality(Comings') \in Nat /\ Cardinality(Callers') \in Nat
         /\ queue["needed"] \in Seq(Threads) /\ Len(queue["needed"]) \in Nat
         /\ Len(queue["needed"]) = 0 <=> queue["needed"] = <<>>
<1>1. /\ Comings \subseteq Threads /\ Callers \subseteq Threads
      /\ Comings' \subseteq Threads /\ Callers' \subseteq Threads
  BY DEF Comings, Callers
<1>2. queue["needed"] \in Seq(Threads)
  BY LibFacts, Names DEF PoolInv
<1>3. /\ IsFiniteSet(Comings) /\ IsFiniteSet(Callers)
      /\ IsFiniteSet(Comings') /\ IsFiniteSet(Callers')
  BY <1>1, CThreadsAssumption, FS_Subset
<1> QED
  BY <1>2, <1>3, FS_CardinalityType, EmptySeq

\* Steps that take nothing from the requests.
LEMMA CalmStep ==
  ASSUME PoolInv, Served, Comings \subseteq Comings',
         Callers \subseteq Callers' \/ queue["needed"] = <<>>,
         queue'["needed"] \in Seq(Threads), Len(queue["needed"]) <= Len(queue'["needed"]),
         requests' = requests, BelowLimit' => BelowLimit
  PROVE  Served'
<1>1. Cardinality(Comings) <= Cardinality(Comings')
  BY CountTypes, FS_Subset
<1>2. Callers \subseteq Callers' => Cardinality(Callers) <= Cardinality(Callers')
  BY CountTypes, FS_Subset
<1>3. Len(queue'["needed"]) \in Nat /\ Len(requests) \in Nat
  BY CountFacts
<1>4. ASSUME NEW r \in Nat, NEW c \in Nat, NEW s \in Nat, NEW a \in Nat, NEW c1 \in Nat,
             NEW s1 \in Nat, NEW a1 \in Nat, Enough(r, c, s, a), c <= c1, s <= s1 \/ a = 0, a <= a1
      PROVE  Enough(r, c1, s1, a1)
  BY <1>4 DEF Enough
<1>5. ASSUME BelowLimit'
      PROVE  Enough(Len(requests), Cardinality(Comings'), Cardinality(Callers'),
                    Len(queue'["needed"]))
  BY <1>1, <1>2, <1>3, <1>4, <1>5, CountTypes DEF Served
<1> QED
  BY <1>5 DEF Served

LEMMA NoRequests ==
  ASSUME PoolInv, PoolInv', requests' = <<>>
  PROVE  Served'
<1>1. queue'["needed"] \in Seq(Threads)
  BY Names DEF PoolInv, Proved!IInv, Proved!TypeOK
<1>2. Len(queue'["needed"]) \in Nat /\ Len(requests') = 0
  BY <1>1
<1> QED
  BY <1>2, CountTypes DEF Served, Enough

LEMMA ClientFeeds ==
  ASSUME PoolInv, PoolInv', Served, NEW t \in Threads, Alone(t), Feeds(t)
  PROVE  Served'
<1>0. queue["needed"] \in Seq(Threads) /\ Len(queue["needed"]) \in Nat
  BY CountTypes
<1>1. \A u \in Threads \ {t} : at[u] # "none" => Aside(u)
  BY DEF Alone
<1>2. CASE requests' = <<>>
  BY <1>2, NoRequests
<1>3. CASE requests' # <<>>
  <2>1. /\ UNCHANGED <<requests, n_cprocs, max_cprocs>>
        /\ Coming(t) => Coming(t)'
        /\ Calls(t) => Calls(t)' \/ queue["needed"] = <<>>
    BY <1>3 DEF Feeds
  <2>2. queue'["needed"] \in {queue["needed"], Append(queue["needed"], t)}
    BY Names DEF Alone, Sleeps
  <2>3. /\ queue'["needed"] \in Seq(Threads) /\ Len(queue["needed"]) <= Len(queue'["needed"])
        /\ Range(queue'["needed"]) \subseteq Range(queue["needed"]) \union {t}
    <3>1. ASSUME NEW q \in Seq(Threads)
          PROVE  /\ Append(q, t) \in Seq(Threads) /\ Len(q) <= Len(Append(q, t)) /\ Len(q) <= Len(q)
                 /\ Range(Append(q, t)) = Range(q) \union {t}
      <4>1. Append(q, t) \in Seq(Threads) /\ Len(Append(q, t)) = Len(q) + 1 /\ Len(q) \in Nat
        OBVIOUS
      <4> QED
        BY <4>1, AppendRange
    <3> QED
      BY <1>0, <2>2, <3>1
  <2>4. Comings \subseteq Comings'
    <3>1. ASSUME NEW u \in Threads \ {t}, Coming(u) PROVE Coming(u)'
      BY <1>1, <2>3, <3>1 DEF Coming, Aside
    <3> QED
      BY <2>1, <3>1 DEF Comings
  <2>5. Callers \subseteq Callers' \/ queue["needed"] = <<>>
    <3>1. ASSUME NEW u \in Threads \ {t}, Calls(u) PROVE Calls(u)'
      <4>1. Aside(u)
        BY <1>1, <3>1, SignalsCreated DEF Calls
      <4> QED
        BY <3>1, <4>1 DEF Calls, Signals, Aside
    <3> QED
      BY <2>1, <3>1 DEF Callers
  <2>6. BelowLimit' => BelowLimit
    BY <2>1 DEF BelowLimit
  <2> QED
    BY <2>1, <2>3, <2>4, <2>5, <2>6, CalmStep
<1> QED
  BY <1>2, <1>3

LEMMA LibraryFeeds ==
  ASSUME PoolInv, Served, NEW t \in Threads, Library(t)
  PROVE  Served'
<1>0. /\ Proved!IInv /\ CallOK(t) /\ PoolType
      /\ queue["needed"] \in Seq(Threads) /\ Len(queue["needed"]) \in Nat
      /\ queue \in [Conds -> Seq(Threads)] /\ "needed" \in Conds
      /\ IsInjective(queue["needed"]) /\ Range(queue["needed"]) \subseteq Threads
  BY CountTypes, LibFacts, Names DEF PoolInv
<1>1. /\ \A u \in Threads \ {t} : pc'[u] = pc[u] /\ on'[u] = on[u] /\ with'[u] = with[u]
      /\ WaitGoesOn(t) \/ WaitEnds(t) \/ SignalTakes(t) \/ SignalWakes(t)
  BY <1>0, InsideEffect DEF Library
<1>2. /\ at' = at /\ requests' = requests /\ (BelowLimit' <=> BelowLimit)
  BY DEF Library, poolVars, BelowLimit
<1>3. CASE queue'["needed"] = queue["needed"]
  <2>1. Comings \subseteq Comings'
    BY <1>2, <1>3 DEF Comings, Coming
  <2>2. ASSUME queue["needed"] # <<>> PROVE Callers \subseteq Callers'
    <3>1. ~Calls(t)
      <4>1. ~(pc[t] = "signal" /\ on[t] = "needed")
        <5>1. ASSUME pc[t] = "signal", on[t] = "needed" PROVE FALSE
          <6>1. queue' = [queue EXCEPT !["needed"] = Tail(@)]
            BY <1>1, <2>2, <5>1 DEF WaitGoesOn, WaitEnds, SignalTakes, SignalWakes
          <6>2. queue'["needed"] = Tail(queue["needed"])
            BY <1>0, <6>1
          <6>3. ASSUME NEW q \in Seq(Threads), q # <<>> PROVE Tail(q) # q
            <7>1. Len(Tail(q)) = Len(q) - 1 /\ Len(q) \in Nat
              BY <6>3
            <7> QED
              BY <7>1
          <6> QED
            BY <1>0, <1>3, <2>2, <6>2, <6>3
        <5> QED
          BY <5>1
      <4>2. pc[t] # "run"
        BY <1>1 DEF WaitGoesOn, WaitEnds, SignalTakes, SignalWakes
      <4> QED
        BY <4>1, <4>2 DEF Calls, Signals
    <3> QED
      BY <1>1, <1>2, <3>1 DEF Callers, Calls, Signals
  <2> QED
    BY <1>0, <1>2, <1>3, <2>1, <2>2, CalmStep
<1>4. CASE queue'["needed"] # queue["needed"]
  <2> DEFINE q == queue["needed"]
  <2>1. SignalTakes(t) /\ queue[on[t]] # <<>> /\ queue' = [queue EXCEPT ![on[t]] = Tail(@)]
    BY <1>1, <1>4 DEF WaitGoesOn, WaitEnds, SignalTakes, SignalWakes
  <2>2. on[t] = "needed"
    BY <1>0, <1>4, <2>1
  <2>3. /\ pc[t] = "signal" /\ pc'[t] = "continue"
        /\ q # <<>> /\ queue'["needed"] = Tail(q)
    BY <1>0, <2>1, <2>2 DEF SignalTakes
  <2>4. PICK h : h = Head(q)
    OBVIOUS
  <2>5. /\ h \in Threads /\ h \in Range(q) /\ Tail(q) \in Seq(Threads)
        /\ Range(q) = {h} \union Range(Tail(q)) /\ h \notin Range(Tail(q))
        /\ Len(Tail(q)) = Len(q) - 1 /\ Len(Tail(q)) \in Nat
    BY <1>0, <2>3, <2>4, TailRange
  <2>6. at[h] = "look"
    <3>1. on[h] = "needed" /\ pc[h] \in Waits /\ CallOK(h)
      BY <1>0, <2>5, LibFacts DEF PoolInv, Waits
    <3>2. target[h] # "needed"
      BY <1>0, <2>5, Names DEF PoolType
    <3> QED
      BY <3>1, <3>2 DEF CallOK
  <2>7. Comings \union {h} \subseteq Comings' /\ h \notin Comings
    <3>1. ASSUME NEW u \in Threads, Coming(u) PROVE Coming(u)'
      BY <1>2, <2>3, <2>5, <3>1 DEF Coming
    <3>2. Coming(h)' /\ ~Coming(h)
      BY <1>2, <2>3, <2>5, <2>6 DEF Coming
    <3> QED
      BY <2>5, <3>1, <3>2 DEF Comings
  <2>8. Callers \ {t} \subseteq Callers' /\ t \in Callers
    BY <1>1, <1>2, <2>2, <2>3 DEF Callers, Calls, Signals
  <2>9. Cardinality(Comings) + 1 <= Cardinality(Comings')
    <3>1. Cardinality(Comings \union {h}) = Cardinality(Comings) + 1
      BY <2>7, CountTypes, FS_AddElement
    <3>2. Cardinality(Comings \union {h}) <= Cardinality(Comings')
      BY <2>7, CountTypes, FS_Subset
    <3> QED
      BY <3>1, <3>2
  <2>10. Cardinality(Callers) - 1 <= Cardinality(Callers')
    <3>1. Cardinality(Callers \ {t}) = Cardinality(Callers) - 1
      BY <2>8, CountTypes, FS_RemoveElement
    <3>2. Cardinality(Callers \ {t}) <= Cardinality(Callers')
      BY <2>8, CountTypes, FS_Subset
    <3> QED
      BY <3>1, <3>2
  <2>11. ASSUME NEW r \in Nat, NEW c \in Nat, NEW s \in Nat, NEW a \in Nat, NEW c1 \in Nat,
                NEW s1 \in Nat, NEW a1 \in Nat, Enough(r, c, s, a), c + 1 <= c1, s - 1 <= s1,
                a1 = a - 1
         PROVE  Enough(r, c1, s1, a1)
    BY <2>11 DEF Enough
  <2>12. ASSUME BelowLimit'
         PROVE  Enough(Len(requests), Cardinality(Comings'), Cardinality(Callers'),
                       Len(queue'["needed"]))
    <3>1. /\ Enough(Len(requests), Cardinality(Comings), Cardinality(Callers), Len(q))
          /\ Len(requests) \in Nat
      BY <1>2, <2>12, CountFacts DEF Served
    <3> QED
      BY <1>0, <2>3, <2>5, <2>9, <2>10, <2>11, <3>1, CountTypes
  <2> QED
    BY <1>2, <2>12 DEF Served
<1> QED
  BY <1>3, <1>4

\* A cproc that takes a request was coming for one.
LEMMA LookFeeds ==
  ASSUME PoolInv, PoolInv', Served, NEW t \in Threads, Look(t)
  PROVE  Served'
<1>1. CASE requests = <<>>
  BY <1>1, LookEffect, ClientFeeds
<1>2. CASE requests # <<>>
  <2>1. /\ requests' = Tail(requests) /\ Coming(t) /\ at[t] = "look" /\ pc[t] = "run"
        /\ \A u \in Threads \ {t} : at'[u] = at[u] /\ Aside(u)
        /\ UNCHANGED <<queue, pc, on, n_cprocs, max_cprocs>>
    BY <1>2, LookEffect DEF Alone
  <2>2. Comings \ {t} \subseteq Comings' /\ t \in Comings
    BY <2>1 DEF Comings, Coming
  <2>3. Callers \subseteq Callers'
    BY <2>1 DEF Callers, Calls, Signals
  <2>4. Cardinality(Comings) - 1 <= Cardinality(Comings')
    <3>1. Cardinality(Comings \ {t}) = Cardinality(Comings) - 1
      BY <2>2, CountTypes, FS_RemoveElement
    <3>2. Cardinality(Comings \ {t}) <= Cardinality(Comings')
      BY <2>2, CountTypes, FS_Subset
    <3> QED
      BY <3>1, <3>2
  <2>5. Cardinality(Callers) <= Cardinality(Callers')
    BY <2>3, CountTypes, FS_Subset
  <2>6. /\ Len(requests') = Len(requests) - 1 /\ Len(requests) \in Nat /\ Len(requests') \in Nat
    BY <1>2, <2>1 DEF PoolInv, PoolType
  <2>7. ASSUME NEW r \in Nat, NEW c \in Nat, NEW s \in Nat, NEW a \in Nat, NEW c1 \in Nat,
               NEW s1 \in Nat, NEW r1 \in Nat, Enough(r, c, s, a), c - 1 <= c1, s <= s1,
               r1 = r - 1
        PROVE  Enough(r1, c1, s1, a)
    BY <2>7 DEF Enough
  <2>8. ASSUME BelowLimit'
        PROVE  Enough(Len(requests'), Cardinality(Comings'), Cardinality(Callers'),
                      Len(queue["needed"]))
    <3>1. Enough(Len(requests), Cardinality(Comings), Cardinality(Callers), Len(queue["needed"]))
      BY <2>1, <2>8 DEF Served, BelowLimit
    <3> QED
      BY <2>4, <2>5, <2>6, <2>7, <3>1, CountTypes
  <2> QED
    BY <2>1, <2>8 DEF Served
<1> QED
  BY <1>1, <1>2

LEMMA RangeLen ==
  ASSUME NEW A, NEW q \in Seq(A)
  PROVE  IsFiniteSet(Range(q)) /\ Cardinality(Range(q)) <= Len(q)
<1>1. /\ Len(q) \in Nat /\ DOMAIN q = 1..Len(q) /\ q \in [1..Len(q) -> A]
      /\ Range(q) = {q[i] : i \in 1..Len(q)}
  BY RangeSeq
<1>2. q \in Surjection(1..Len(q), Range(q))
  BY <1>1 DEF Surjection
<1>3. IsFiniteSet(1..Len(q)) /\ Cardinality(1..Len(q)) = Len(q)
  BY <1>1, FS_Interval
<1> QED
  BY <1>2, <1>3, FS_Surjection

\* A cproc has a cthread, is coming, or sleeps: while cthread_fork has the lock, none
\* is about to.
LEMMA CprocsKnown ==
  ASSUME PoolInv, NEW t \in Threads, at[t] = "fork"
  PROVE  n_cprocs <= 1 + Cardinality(Busy) + Cardinality(Comings) + Len(queue["needed"])
<1> DEFINE A == Range(queue["needed"])
<1>0. n_cprocs = Cardinality(Created) /\ PoolType
  BY DEF PoolInv, CountsOK
<1>1. Created \subseteq (({Main} \union Busy) \union Comings) \union A
  <2>1. SUFFICES ASSUME NEW u \in Threads, at[u] # "none", u # Main, u \notin Busy, u \notin A
                 PROVE  u \in Comings
    BY DEF Created
  <2>2. at[u] \in {"body", "look", "idle"}
    BY <2>1 DEF PoolInv, PlaceOK, Busy
  <2>3. at[u] # "idle"
    BY DEF PoolInv, LockOK, Locks
  <2> QED
    BY <2>1, <2>2, <2>3 DEF Comings, Coming
<1>2. /\ IsFiniteSet(A) /\ Cardinality(A) <= Len(queue["needed"]) /\ Cardinality(A) \in Nat
      /\ Len(queue["needed"]) \in Nat
  BY CountTypes, RangeLen, FS_CardinalityType
<1> HIDE DEF A
<1>3. ASSUME NEW S, NEW T, IsFiniteSet(S), IsFiniteSet(T)
      PROVE  /\ IsFiniteSet(S \union T) /\ Cardinality(S \union T) \in Nat
             /\ Cardinality(S \union T) <= Cardinality(S) + Cardinality(T)
  <2>1. IsFiniteSet(S \intersect T)
    BY <1>3, FS_Subset
  <2>2. Cardinality(S \intersect T) \in Nat /\ Cardinality(S) \in Nat /\ Cardinality(T) \in Nat
    BY <1>3, <2>1, FS_CardinalityType
  <2>3. /\ IsFiniteSet(S \union T)
        /\ Cardinality(S \union T) = Cardinality(S) + Cardinality(T) - Cardinality(S \intersect T)
    BY <1>3, FS_Union
  <2>4. Cardinality(S \union T) \in Nat
    BY <2>3, FS_CardinalityType
  <2> QED
    BY <2>2, <2>3, <2>4
<1>4. /\ IsFiniteSet({Main}) /\ Cardinality({Main}) = 1 /\ IsFiniteSet(Busy)
      /\ Cardinality(Busy) \in Nat /\ IsFiniteSet(Comings) /\ Cardinality(Comings) \in Nat
  BY FS_Singleton, CountFacts, CountTypes
<1>5. /\ IsFiniteSet({Main} \union Busy) /\ Cardinality({Main} \union Busy) \in Nat
      /\ Cardinality({Main} \union Busy) <= 1 + Cardinality(Busy)
  BY <1>3, <1>4
<1> DEFINE B == {Main} \union Busy
<1>6. /\ IsFiniteSet(B \union Comings) /\ Cardinality(B \union Comings) \in Nat
      /\ Cardinality(B \union Comings) <= Cardinality(B) + Cardinality(Comings)
  BY <1>3, <1>4, <1>5
<1> DEFINE C == B \union Comings
<1>7. /\ IsFiniteSet(C \union A) /\ Cardinality(C \union A) \in Nat
      /\ Cardinality(C \union A) <= Cardinality(C) + Cardinality(A)
  BY <1>2, <1>3, <1>6
<1>8. Cardinality(Created) <= Cardinality(C \union A) /\ Cardinality(Created) \in Nat
  BY <1>0, <1>1, <1>7, FS_Subset DEF PoolType
<1> HIDE DEF B, C
<1>9. Cardinality(B) <= 1 + Cardinality(Busy) /\ Cardinality(B) \in Nat
  BY <1>5 DEF B
<1>10. Cardinality(C) <= Cardinality(B) + Cardinality(Comings) /\ Cardinality(C) \in Nat
  BY <1>6 DEF C
<1> QED
  BY <1>0, <1>2, <1>4, <1>7, <1>8, <1>9, <1>10

LEMMA ForkedFeeds ==
  ASSUME PoolInv, Served, NEW t \in Threads, Forked(t)
  PROVE  Served'
<1>0. PoolType /\ at[t] = "fork" /\ pc[t] = "run"
  BY AtFacts DEF Forked
<1>1. PICK x \in Records, N \in SUBSET Threads : ForkedBy(t, x, N)
  BY ForkedEffect
<1>2. /\ \A u \in Threads : at'[u] = IF u = t THEN "signal_needed"
                                     ELSE IF u \in N THEN "body" ELSE at[u]
      /\ N = {} \/ \E new \in Threads : N = {new} /\ at[new] = "none"
      /\ UNCHANGED <<queue, pc, on, max_cprocs>>
      /\ Len(requests') = Len(requests) + 1 /\ n_cprocs' = n_cprocs + Cardinality(N)
      /\ (N # {}) <=> NeedsCproc(n_cthreads + 1)
      /\ n_cprocs \in Nat /\ max_cprocs \in Nat
  BY <1>0, <1>1 DEF ForkedBy, PoolType
<1>3. Callers \union {t} \subseteq Callers' /\ t \notin Callers
  <2>1. ASSUME NEW u \in Threads, Calls(u) PROVE Calls(u)'
    <3>1. u # t /\ at[u] # "none"
      BY <1>0, <2>1, SignalsCreated DEF Calls, Signals
    <3>2. at'[u] = at[u]
      BY <1>2, <3>1
    <3> QED
      BY <1>2, <2>1, <3>2 DEF Calls, Signals
  <2>2. Calls(t)' /\ ~Calls(t)
    BY <1>0, <1>2 DEF Calls, Signals
  <2> QED
    BY <2>1, <2>2 DEF Callers
<1>4. Cardinality(Callers) + 1 <= Cardinality(Callers')
  <2>1. Cardinality(Callers \union {t}) = Cardinality(Callers) + 1
    BY <1>3, CountTypes, FS_AddElement
  <2>2. Cardinality(Callers \union {t}) <= Cardinality(Callers')
    BY <1>3, CountTypes, FS_Subset
  <2> QED
    BY <2>1, <2>2
<1>5. Comings \union N \subseteq Comings' /\ Comings \intersect N = {}
  <2>1. ASSUME NEW u \in Threads, Coming(u) PROVE Coming(u)' /\ u \notin N
    BY <1>0, <1>2, <2>1 DEF Coming
  <2>2. ASSUME NEW u \in N PROVE Coming(u)'
    BY <1>0, <1>2, <2>2 DEF Coming
  <2> QED
    BY <2>1, <2>2 DEF Comings
<1>6. Len(requests) \in Nat /\ Len(queue["needed"]) \in Nat /\ Cardinality(Busy) \in Nat
  BY CountFacts, CountTypes
<1>7. CASE N = {}
  <2>1. n_cprocs' = n_cprocs /\ (BelowLimit' <=> BelowLimit)
    BY <1>2, <1>7, FS_EmptySet DEF BelowLimit
  <2>2. Cardinality(Comings) <= Cardinality(Comings')
    BY <1>5, CountTypes, FS_Subset
  <2>3. ASSUME NEW r \in Nat, NEW c \in Nat, NEW s \in Nat, NEW a \in Nat, NEW c1 \in Nat,
               NEW s1 \in Nat, Enough(r, c, s, a), c <= c1, s + 1 <= s1, r + 1 <= c + a
        PROVE  Enough(r + 1, c1, s1, a)
    BY <2>3 DEF Enough
  <2>4. ASSUME BelowLimit
        PROVE  Len(requests) + 1 <= Cardinality(Comings) + Len(queue["needed"])
    <3>1. n_cthreads + 1 <= n_cprocs /\ n_cthreads \in Nat
      BY <1>0, <1>2, <1>7, <2>4 DEF NeedsCproc, PoolType
    <3>2. /\ n_cprocs <= 1 + Cardinality(Busy) + Cardinality(Comings) + Len(queue["needed"])
          /\ n_cthreads = 1 + Len(requests) + Cardinality(Busy) /\ Cardinality(Comings) \in Nat
      BY <1>0, CprocsKnown, CountFacts, CountTypes
    <3> QED
      BY <1>2, <1>6, <3>1, <3>2
  <2>5. ASSUME BelowLimit'
        PROVE  Enough(Len(requests) + 1, Cardinality(Comings'), Cardinality(Callers'),
                      Len(queue["needed"]))
    <3>1. Enough(Len(requests), Cardinality(Comings), Cardinality(Callers), Len(queue["needed"]))
      BY <2>1, <2>5 DEF Served
    <3> QED
      BY <1>4, <1>6, <2>1, <2>2, <2>3, <2>4, <2>5, <3>1, CountTypes
  <2> QED
    BY <1>2, <2>5 DEF Served
<1>8. CASE N # {}
  <2>1. PICK new \in Threads : N = {new} /\ at[new] = "none"
    BY <1>2, <1>8
  <2>2. n_cprocs' = n_cprocs + 1 /\ (BelowLimit' => BelowLimit)
    <3>1. Cardinality(N) = 1
      BY <2>1, FS_Singleton
    <3>2. n_cprocs' = n_cprocs + 1 /\ max_cprocs' = max_cprocs
      BY <1>2, <3>1
    <3> QED
      BY <1>2, <3>2 DEF BelowLimit
  <2>3. Cardinality(Comings) + 1 <= Cardinality(Comings')
    <3>1. Cardinality(Comings \union {new}) = Cardinality(Comings) + 1
      BY <1>5, <2>1, CountTypes, FS_AddElement
    <3>2. Cardinality(Comings \union {new}) <= Cardinality(Comings')
      BY <1>5, <2>1, CountTypes, FS_Subset
    <3> QED
      BY <3>1, <3>2
  <2>4. ASSUME NEW r \in Nat, NEW c \in Nat, NEW s \in Nat, NEW a \in Nat, NEW c1 \in Nat,
               NEW s1 \in Nat, Enough(r, c, s, a), c + 1 <= c1, s + 1 <= s1
        PROVE  Enough(r + 1, c1, s1, a)
    BY <2>4 DEF Enough
  <2>5. ASSUME BelowLimit'
        PROVE  Enough(Len(requests) + 1, Cardinality(Comings'), Cardinality(Callers'),
                      Len(queue["needed"]))
    <3>1. Enough(Len(requests), Cardinality(Comings), Cardinality(Callers), Len(queue["needed"]))
      BY <2>2, <2>5 DEF Served
    <3> QED
      BY <1>4, <1>6, <2>3, <2>4, <3>1, CountTypes
  <2> QED
    BY <1>2, <2>5 DEF Served
<1> QED
  BY <1>7, <1>8

LEMMA ForkAttendedStep ==
  PoolInv /\ PoolInv' /\ ForkAttended /\ [Next]_vars => ForkAttended'
<1> SUFFICES ASSUME PoolInv, PoolInv', Served, [Next]_vars PROVE Served'
  BY ServedAttends
<1>1. ASSUME NEW t \in Threads, Client(t) PROVE Served'
  <2>1. CASE Forked(t) \/ Look(t)
    BY <2>1, ForkedFeeds, LookFeeds
  <2>2. CASE ~Forked(t) /\ ~Look(t)
    <3>1. Alone(t) /\ Feeds(t)
      BY <1>1, <2>2, LockingSteps, SignallingSteps, WaitingSteps DEF Client
    <3> QED
      BY <3>1, ClientFeeds
  <2> QED
    BY <2>1, <2>2
<1>2. CASE Exit \/ Exiting
  <2>1. Alone(Main) /\ Feeds(Main)
    BY <1>2, WaitingSteps, Names
  <2> QED
    BY <2>1, ClientFeeds, Names
<1>3. ASSUME NEW n \in Limits, cthread_set_limit(n) PROVE Served'
  <2>1. requests' = <<>>
    BY <1>3, CountFacts DEF cthread_set_limit
  <2> QED
    BY <2>1, NoRequests
<1>4. CASE UNCHANGED vars
  BY <1>4 DEF vars, libVars, poolVars, Served, BelowLimit, Comings, Coming, Callers, Calls, Signals
<1> QED
  BY <1>1, <1>2, <1>3, <1>4, LibraryFeeds DEF Next

\* While there may be more cprocs, every cthread that has been forked has one on its
\* way or a signal under way to one that sleeps: cthread_fork, cthread_body.
THEOREM EveryForkServed == Spec => []ForkAttended
<1>1. Init => ForkAttended
  <2>1. ASSUME Init PROVE Served
    <3>1. Len(requests) = 0 /\ PoolInv
      BY <2>1, PoolInit DEF Init
    <3> QED
      BY <3>1, CountTypes DEF Served, Enough
  <2> QED
    BY <2>1, ServedAttends
<1> QED
  BY <1>1, PoolInvariant, ForkAttendedStep, PTL DEF Spec
=============================================================================
