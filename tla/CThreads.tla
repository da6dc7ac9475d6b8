------------------------------ MODULE CThreads ------------------------------
(***************************************************************************)
(* C threads (Libc/threads.subproj/cthreads.c): cthreads are forked,       *)
(* joined, detached and recycled, and run by a pool of cprocs that sleep   *)
(* on a condition when there is nothing to run; the main thread exits when *)
(* it is the last one.  Mutexes and conditions are those of Condition, in  *)
(* full detail: cthread_lock with the conditions cthread_needed and        *)
(* cthread_idle, and in every cthread a lock and a condition "done".       *)
(*                                                                         *)
(* Functions of cthreads may fork, join and detach, and need not return.   *)
(* Whoever has the handle of a cthread joins or detaches it, once.         *)
(***************************************************************************)
EXTENDS Naturals, Sequences, FiniteSets, SequencesExt

CONSTANTS
  Threads,   \* cprocs, the ones not yet created too
  Main,      \* the one that runs main()
  Records,   \* struct cthread's: a bound on cthreads that exist at once
  Limits,    \* arguments of cthread_set_limit; 0 is no limit
  None

ASSUME CThreadsAssumption ==
  /\ Main \in Threads /\ IsFiniteSet(Threads) /\ IsFiniteSet(Records)
  /\ Limits \subseteq Nat /\ None \notin Threads \union Records
  /\ {"needed", "idle", "cthread_lock"} \intersect (Records \union {None}) = {}

Conds == {"needed", "idle"} \union Records
Mutexes == {"cthread_lock"} \union Records

VARIABLES mutex, queue, held, state, port, pc, on, with, todo

libVars == <<mutex, queue, held, state, port, pc, on, with, todo>>

Lib == INSTANCE Condition WITH Timed <- {}

VARIABLES
  at,           \* at[t]: where in cthread_body or in a call t is
  rec,          \* rec[t]: the cthread t runs, cthread_self()
  target,       \* target[t]: the cthread t joins or detaches
  flags,        \* flags[x]: T_RETURNED, T_DETACHED
  requests,     \* the queue "cthreads": forked, not yet started
  live,         \* records that are not on the free list
  handle,       \* cthreads that somebody may still join or detach
  finished,     \* cthreads whose function has returned
  n_cthreads, n_cprocs, max_cprocs

poolVars == <<at, rec, target, flags, requests, live, handle, finished,
              n_cthreads, n_cprocs, max_cprocs>>

vars == <<libVars, poolVars>>

Init ==
  /\ Lib!Init
  /\ at = [t \in Threads |-> IF t = Main THEN "user" ELSE "none"]
  /\ rec = [t \in Threads |-> None]
  /\ target = [t \in Threads |-> None]
  /\ flags = [x \in Records |-> {}]
  /\ requests = <<>>
  /\ live = {} /\ handle = {} /\ finished = {}
  /\ n_cthreads = 1 /\ n_cprocs = 1 /\ max_cprocs = 0

Goto(t, l) == at' = [at EXCEPT ![t] = l]

\* Nothing runs after exit().
Alive == at[Main] # "exited"

At(t, l) == Alive /\ at[t] = l /\ pc[t] = "run"

\* Called before the first fork: a limit that is lifted later leaves cthreads
\* without the cprocs it denied them.
cthread_set_limit(n) ==
  /\ At(Main, "user") /\ n_cthreads = 1 /\ n_cprocs = 1
  /\ max_cprocs' = n
  /\ UNCHANGED <<libVars, at, rec, target, flags, requests, live, handle,
                 finished, n_cthreads, n_cprocs>>

-----------------------------------------------------------------------------
\* cthread_fork, while the model has a record and, if it may take one, a cproc.
Fork(t) ==
  /\ At(t, "user")
  /\ live # Records /\ (n_cthreads < n_cprocs \/ n_cprocs < Cardinality(Threads))
  /\ Lib!mutex_lock(t, "cthread_lock")
  /\ Goto(t, "fork")
  /\ UNCHANGED <<rec, target, flags, requests, live, handle, finished,
                 n_cthreads, n_cprocs, max_cprocs>>

\* May there be another cproc?
BelowLimit == max_cprocs = 0 \/ n_cprocs < max_cprocs

\* As below, without counting the main thread.
NeedsCprocForked(n) == n - 1 > n_cprocs /\ BelowLimit

\* n cthreads, one of them new: is another cproc needed, and allowed?
NeedsCproc(n) == n > n_cprocs /\ BelowLimit

\* cthread_alloc clears the record, its mutex and its condition.
Forked(t) ==
  /\ At(t, "fork")
  /\ \E x \in Records \ live :
       /\ live' = live \union {x}
       /\ handle' = handle \union {x}
       /\ finished' = finished \ {x}
       /\ flags' = [flags EXCEPT ![x] = {}]
       /\ queue' = [queue EXCEPT ![x] = <<>>]
       /\ mutex' = [mutex EXCEPT ![x] = None, !["cthread_lock"] = None]
       /\ requests' = Append(requests, x)
  /\ n_cthreads' = n_cthreads + 1
  /\ IF NeedsCproc(n_cthreads + 1)
     THEN /\ n_cprocs' = n_cprocs + 1
          /\ \E new \in Threads :
               /\ at[new] = "none"
               /\ at' = [at EXCEPT ![t] = "signal_needed", ![new] = "body"]
     ELSE Goto(t, "signal_needed") /\ UNCHANGED n_cprocs
  /\ UNCHANGED <<held, state, port, pc, on, with, todo, rec, target, max_cprocs>>

SignalNeeded(t) ==
  /\ At(t, "signal_needed")
  /\ Lib!condition_signal(t, "needed")
  /\ Goto(t, "user")
  /\ UNCHANGED <<rec, target, flags, requests, live, handle, finished,
                 n_cthreads, n_cprocs, max_cprocs>>

-----------------------------------------------------------------------------
\* cthread_join and cthread_detach, up to the mutex of the cthread.
Claim(t, x, l) ==
  /\ At(t, "user")
  /\ Lib!mutex_lock(t, x)
  /\ handle' = handle \ {x}
  /\ target' = [target EXCEPT ![t] = x]
  /\ Goto(t, l)
  /\ UNCHANGED <<rec, flags, requests, live, finished,
                 n_cthreads, n_cprocs, max_cprocs>>

cthread_join(t) == \E x \in handle \ {rec[t]} : Claim(t, x, "join")

cthread_detach(t) == \E x \in handle : Claim(t, x, "detach")

\* As below, taking the end of the wait for the end of the function.
JoinedOnce(t) ==
  /\ At(t, "join")
  /\ IF "RETURNED" \in flags[target[t]]
     THEN Lib!mutex_unlock(t, target[t])
     ELSE Lib!condition_wait(t, target[t], target[t])
  /\ Goto(t, "free")
  /\ UNCHANGED <<rec, target, flags, requests, live, handle, finished,
                 n_cthreads, n_cprocs, max_cprocs>>

Joined(t) ==
  /\ At(t, "join")
  /\ IF "RETURNED" \in flags[target[t]]
     THEN Lib!mutex_unlock(t, target[t]) /\ Goto(t, "free")
     ELSE Lib!condition_wait(t, target[t], target[t]) /\ UNCHANGED at
  /\ UNCHANGED <<rec, target, flags, requests, live, handle, finished,
                 n_cthreads, n_cprocs, max_cprocs>>

Detached(t) ==
  /\ At(t, "detach")
  /\ Lib!mutex_unlock(t, target[t])
  /\ IF "RETURNED" \in flags[target[t]]
     THEN Goto(t, "free") /\ UNCHANGED <<flags, target>>
     ELSE /\ flags' = [flags EXCEPT ![target[t]] = @ \union {"DETACHED"}]
          /\ target' = [target EXCEPT ![t] = None]
          /\ Goto(t, "user")
  /\ UNCHANGED <<rec, requests, live, handle, finished,
                 n_cthreads, n_cprocs, max_cprocs>>

\* cthread_free, for one who joined or detached.
cthread_free(t) ==
  /\ At(t, "free")
  /\ live' = live \ {target[t]}
  /\ target' = [target EXCEPT ![t] = None]
  /\ Goto(t, "user")
  /\ UNCHANGED <<libVars, rec, flags, requests, handle, finished,
                 n_cthreads, n_cprocs, max_cprocs>>

-----------------------------------------------------------------------------
\* cthread_body: take a request, or tell a main thread that may be waiting to
\* exit and sleep until there is one.
Body(t) ==
  /\ At(t, "body")
  /\ Lib!mutex_lock(t, "cthread_lock")
  /\ Goto(t, "look")
  /\ UNCHANGED <<rec, target, flags, requests, live, handle, finished,
                 n_cthreads, n_cprocs, max_cprocs>>

Look(t) ==
  /\ At(t, "look")
  /\ IF requests # <<>>
     THEN /\ Lib!mutex_unlock(t, "cthread_lock")
          /\ rec' = [rec EXCEPT ![t] = Head(requests)]
          /\ requests' = Tail(requests)
          /\ Goto(t, "user")
     ELSE /\ Lib!condition_signal(t, "idle")
          /\ Goto(t, "idle")
          /\ UNCHANGED <<rec, requests>>
  /\ UNCHANGED <<target, flags, live, handle, finished, n_cthreads, n_cprocs,
                 max_cprocs>>

Idle(t) ==
  /\ At(t, "idle")
  /\ Lib!condition_wait(t, "needed", "cthread_lock")
  /\ Goto(t, "look")
  /\ UNCHANGED <<rec, target, flags, requests, live, handle, finished,
                 n_cthreads, n_cprocs, max_cprocs>>

\* The function returns, or calls cthread_exit.
Return(t) ==
  /\ At(t, "user") /\ t # Main
  /\ Lib!mutex_lock(t, rec[t])
  /\ finished' = finished \union {rec[t]}
  /\ Goto(t, "return")
  /\ UNCHANGED <<rec, target, flags, requests, live, handle,
                 n_cthreads, n_cprocs, max_cprocs>>

\* As below, without a signal.
ReturnedQuietly(t) ==
  /\ At(t, "return")
  /\ Lib!mutex_unlock(t, rec[t])
  /\ flags' = [flags EXCEPT ![rec[t]] = @ \union {"RETURNED"}]
  /\ Goto(t, "finish")
  /\ UNCHANGED <<rec, target, requests, live, handle, finished,
                 n_cthreads, n_cprocs, max_cprocs>>

Returned(t) ==
  /\ At(t, "return")
  /\ Lib!mutex_unlock(t, rec[t])
  /\ IF "DETACHED" \in flags[rec[t]]
     THEN Goto(t, "free_own") /\ UNCHANGED flags
     ELSE /\ flags' = [flags EXCEPT ![rec[t]] = @ \union {"RETURNED"}]
          /\ Goto(t, "signal_done")
  /\ UNCHANGED <<rec, target, requests, live, handle, finished,
                 n_cthreads, n_cprocs, max_cprocs>>

FreeOwn(t) ==
  /\ At(t, "free_own")
  /\ live' = live \ {rec[t]}
  /\ Goto(t, "finish")
  /\ UNCHANGED <<libVars, rec, target, flags, requests, handle, finished,
                 n_cthreads, n_cprocs, max_cprocs>>

\* A joiner may have seen T_RETURNED and freed the cthread by now, and another
\* may have been forked in its place.
SignalDone(t) ==
  /\ At(t, "signal_done")
  /\ Lib!condition_signal(t, rec[t])
  /\ Goto(t, "finish")
  /\ UNCHANGED <<rec, target, flags, requests, live, handle, finished,
                 n_cthreads, n_cprocs, max_cprocs>>

Finish(t) ==
  /\ At(t, "finish")
  /\ Lib!mutex_lock(t, "cthread_lock")
  /\ rec' = [rec EXCEPT ![t] = None]
  /\ n_cthreads' = n_cthreads - 1
  /\ Goto(t, "look")
  /\ UNCHANGED <<target, flags, requests, live, handle, finished, n_cprocs,
                 max_cprocs>>

-----------------------------------------------------------------------------
\* cthread_exit of the main thread.
Exit ==
  /\ At(Main, "user")
  /\ Lib!mutex_lock(Main, "cthread_lock")
  /\ Goto(Main, "exit")
  /\ UNCHANGED <<rec, target, flags, requests, live, handle, finished,
                 n_cthreads, n_cprocs, max_cprocs>>

\* As below, with an "if" for the "while".
ExitingOnce ==
  /\ \/ At(Main, "exit") /\ n_cthreads > 1
        /\ Lib!condition_wait(Main, "idle", "cthread_lock") /\ Goto(Main, "leave")
     \/ (At(Main, "leave") \/ (At(Main, "exit") /\ n_cthreads = 1))
        /\ Lib!mutex_unlock(Main, "cthread_lock") /\ Goto(Main, "exited")
  /\ UNCHANGED <<rec, target, flags, requests, live, handle, finished,
                 n_cthreads, n_cprocs, max_cprocs>>

Exiting ==
  /\ At(Main, "exit")
  /\ IF n_cthreads > 1
     THEN Lib!condition_wait(Main, "idle", "cthread_lock") /\ UNCHANGED at
     ELSE Lib!mutex_unlock(Main, "cthread_lock") /\ Goto(Main, "exited")
  /\ UNCHANGED <<rec, target, flags, requests, live, handle, finished,
                 n_cthreads, n_cprocs, max_cprocs>>

-----------------------------------------------------------------------------
Client(t) ==
  \/ Fork(t) \/ Forked(t) \/ SignalNeeded(t)
  \/ cthread_join(t) \/ Joined(t) \/ cthread_detach(t) \/ Detached(t) \/ cthread_free(t)
  \/ Body(t) \/ Look(t) \/ Idle(t)
  \/ Return(t) \/ Returned(t) \/ FreeOwn(t) \/ SignalDone(t) \/ Finish(t)

Library(t) == Alive /\ Lib!Inside(t) /\ UNCHANGED poolVars

Next ==
  \/ \E t \in Threads : Client(t) \/ Library(t)
  \/ \E n \in Limits : cthread_set_limit(n)
  \/ Exit \/ Exiting

Spec == Init /\ [][Next]_vars

-----------------------------------------------------------------------------
\* The state of the package has its type; main is always counted.
TypeOK ==
  /\ Lib!TypeOK
  /\ \A t \in Threads : rec[t] \in Records \union {None} /\ target[t] \in Records \union {None}
  /\ Range(requests) \subseteq live
  /\ handle \subseteq live
  /\ n_cthreads \in 1..(1 + Cardinality(Records) + Cardinality(Threads))
  /\ n_cprocs = Cardinality({t \in Threads : at[t] # "none"})

\* t is about to signal condition c, or is doing so.
Signals(t, c, l) == (at[t] = l /\ pc[t] = "run") \/ (pc[t] = "signal" /\ on[t] = c)

\* A cproc that is going to look at the requests without anybody's help.
Coming(t) ==
  \/ at[t] \in {"body", "return", "signal_done", "free_own", "finish"}
  \/ at[t] = "look" /\ t \notin Range(queue["needed"])

\* As long as max_cprocs has not been reached, every cthread that has been
\* forked has a cproc of its own on its way, though no function that has
\* started ever returns: none waits for a cproc whose wake-up was spent on
\* somebody else or was lost between cthread_fork's unlock and its signal.
ForkAttended ==
  LET coming == Cardinality({t \in Threads : Coming(t)})
      signals == Cardinality({t \in Threads : Signals(t, "needed", "signal_needed")})
      asleep == Len(queue["needed"])
  IN BelowLimit =>
       Len(requests) <= coming + (IF signals < asleep THEN signals ELSE asleep)

\* A joiner asleep on a cthread that has returned, and a main thread asleep though
\* it is the last, are about to be signalled.
WaitersAttended ==
  /\ \A x \in Records :
       queue[x] # <<>> /\ "RETURNED" \in flags[x] =>
         \E u \in Threads : rec[u] = x /\ Signals(u, x, "signal_done")
  /\ queue["idle"] # <<>> /\ n_cthreads = 1 =>
       \E u \in Threads : Signals(u, "idle", "look")

\* cthread_join and cthread_detach free a cthread only when its function has
\* returned - the function of this cthread, and not of one that had the record
\* before - and nobody else frees it or still joins or runs it.  With the types:
\* handles and requests are of cthreads that have not been freed.
FreedOnce ==
  /\ TypeOK
  /\ \A t \in Threads : At(t, "free") \/ At(t, "free_own") =>
      LET x == IF at[t] = "free" THEN target[t] ELSE rec[t] IN
      /\ x \in live \intersect finished
      /\ x \notin handle \union Range(requests)
      /\ \A u \in Threads \ {t} :
           /\ at[u] \in {"join", "detach", "free"} => target[u] # x
           /\ at[u] \in {"user", "fork", "return", "free_own"} => rec[u] # x

\* The program exits only when every cthread has returned.
ExitsLast ==
  at[Main] = "exited" =>
    /\ requests = <<>>
    /\ \A t \in Threads \ {Main} : rec[t] = None
=============================================================================
