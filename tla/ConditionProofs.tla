--------------------------- MODULE ConditionProofs ---------------------------
(***************************************************************************)
(* Mutexes and condition variables, for any numbers of threads, conditions *)
(* and mutexes.                                                            *)
(***************************************************************************)
EXTENDS Condition, QueueTheorems, FiniteSetTheorems

-----------------------------------------------------------------------------
(* The inductive invariant.                                                *)

WaitPcs == {"unlock", "spin", "receive", "timed_out", "requeue"}

TimedPcs == {"unlock", "receive", "timed_out"}

\* x waits and nobody has claimed it or changed its state.
Asleep(x) ==
  IF on[x] \in Timed
  THEN state[x] = "BLOCKED" /\ pc[x] \in TimedPcs
  ELSE \/ state[x] = "SPINNING" /\ pc[x] \in {"unlock", "spin"}
       \/ state[x] = "BLOCKED" /\ pc[x] = "receive"

\* A timed waiter that a signaller has claimed, a plain one it has released
\* from its receive.
Called(x) ==
  IF on[x] \in Timed
  THEN state[x] = "EATING" /\ pc[x] \in TimedPcs
  ELSE state[x] = "RUNNING" /\ pc[x] = "receive"

\* A plain waiter released before it blocked.
Released(x) ==
  on[x] \notin Timed /\ pc[x] \in {"unlock", "spin"} /\ state[x] = "RUNNING"

\* Where calls of each kind can be.
CallsOK ==
  \A t \in Threads :
    /\ pc[t] # "run" => on[t] \in Conds
    /\ pc[t] \in WaitPcs \union {"relock"} => with[t] \in Mutexes
    /\ pc[t] \in {"spin", "continue"} => on[t] \notin Timed
    /\ pc[t] \in {"timed_out", "requeue"} => on[t] \in Timed
    /\ pc[t] \notin WaitPcs => state[t] = "RUNNING"

\* Who is on a queue waits there, once.
QueuedOK ==
  \A c \in Conds :
    /\ IsInjective(queue[c])
    /\ \A x \in Range(queue[c]) : on[x] = c /\ port[x] = 0 /\ Asleep(x)

\* What thread u has taken off a queue is in its hands alone, once, and in the
\* state that u's call leaves it in until its turn comes.
InHands(u, x) ==
  /\ on[x] = on[u] /\ port[x] = 0
  /\ x \notin Range(queue[on[u]])
  /\ \A v \in Threads : x \in Range(todo[v]) => u = v
  /\ IF pc[u] = "send" /\ (on[u] \in Timed \/ x = Head(todo[u]))
     THEN Called(x)
     ELSE Asleep(x) \/ (x = u /\ pc[u] = "requeue")

HandsOK(u) ==
  /\ IsInjective(todo[u])
  /\ pc[u] \in {"continue", "send"} => todo[u] # <<>>
  /\ pc[u] = "requeue" => u \in Range(todo[u]) /\ state[u] = "BLOCKED"
  /\ pc[u] \notin {"continue", "send", "requeue"} => todo[u] = <<>>

TakenOK ==
  \A u \in Threads : HandsOK(u) /\ \A x \in Range(todo[u]) : InHands(u, x)

\* A message is for a waiter that was called.
MailOK == \A x \in Threads : port[x] = 1 => Called(x)

\* Nobody waits unattended.
Attended ==
  \A x \in Threads : pc[x] \in WaitPcs =>
    \/ x \in Range(queue[on[x]])
    \/ \E u \in Threads : x \in Range(todo[u])
    \/ port[x] = 1
    \/ Released(x)

\* The spin lock of c is kept only by a waiter that sorts the queue out, which
\* it has emptied.
HeldOK ==
  /\ \A c \in Conds :
       held[c] # None => queue[c] = <<>> /\ pc[held[c]] = "requeue" /\ on[held[c]] = c
  /\ \A t \in Threads : pc[t] = "requeue" => held[on[t]] = t

IInv == TypeOK /\ CallsOK /\ QueuedOK /\ TakenOK /\ MailOK /\ Attended /\ HeldOK

-----------------------------------------------------------------------------
(* A thread that is not waiting is on no queue and in nobody's hands, and  *)
(* there is no message for it.                                             *)

LEMMA Nowhere ==
  ASSUME IInv, NEW t \in Threads, ~Asleep(t), ~Called(t), pc[t] # "requeue"
  PROVE  /\ \A c \in Conds : t \notin Range(queue[c])
         /\ \A u \in Threads : t \notin Range(todo[u])
         /\ port[t] = 0
<1>1. \A c \in Conds : t \notin Range(queue[c])
  BY DEF IInv, QueuedOK
<1>2. \A u \in Threads : t \notin Range(todo[u])
  BY DEF IInv, TakenOK, InHands
<1>3. port[t] = 0
  BY DEF IInv, MailOK, TypeOK
<1> QED
  BY <1>1, <1>2, <1>3

\* Steps of one thread that touch no queue and no port.
LEMMA LocalStep ==
  ASSUME IInv, NEW t \in Threads, UNCHANGED <<queue, todo, port, held>>,
         TypeOK', CallsOK',
         \A x \in Threads \ {t} :
           /\ state'[x] = state[x] /\ pc'[x] = pc[x] /\ on'[x] = on[x],
         pc[t] \notin {"continue", "send", "requeue"},
         pc'[t] \notin {"continue", "send", "requeue"},
         Asleep(t) => Asleep(t)' /\ on'[t] = on[t],
         Called(t) => Called(t)' /\ on'[t] = on[t],
         pc'[t] \in WaitPcs => pc[t] \in WaitPcs /\ on'[t] = on[t],
         Released(t) => Released(t)' \/ pc'[t] \notin WaitPcs
  PROVE  IInv'
<1>0. /\ CallsOK /\ QueuedOK /\ TakenOK /\ MailOK /\ Attended /\ HeldOK /\ TypeOK
      /\ \A x \in Threads \ {t} : /\ Asleep(x) => Asleep(x)'
                                  /\ Called(x) => Called(x)'
                                  /\ Released(x) => Released(x)'
  BY DEF IInv, Asleep, Called, Released
<1>1. \A c \in Conds : Range(queue[c]) \subseteq Threads
  BY <1>0, RangeSeq DEF TypeOK
<1>2. \A u \in Threads : Range(todo[u]) \subseteq Threads
  BY <1>0, RangeSeq DEF TypeOK
<1>3. todo[t] = <<>>
  BY <1>0 DEF TakenOK, HandsOK
<1>4. QueuedOK'
  BY <1>0, <1>1 DEF QueuedOK
<1>5. TakenOK'
  <2>1. ASSUME NEW u \in Threads PROVE HandsOK(u)'
    BY <1>0, <1>3 DEF TakenOK, HandsOK
  <2>2. ASSUME NEW u \in Threads, NEW x \in Range(todo[u]) PROVE InHands(u, x)'
    <3>1. u # t
      BY <1>3, EmptyRange
    <3>2. x \in Threads /\ InHands(u, x)
      BY <1>0, <1>2 DEF TakenOK
    <3>3. on'[x] = on[x]
      BY <3>1, <3>2 DEF InHands
    <3> QED
      BY <1>0, <3>1, <3>2, <3>3 DEF InHands
  <2> QED
    BY <2>1, <2>2 DEF TakenOK
<1>6. MailOK'
  BY <1>0 DEF MailOK
<1>7. Attended'
  BY <1>0 DEF Attended
<1>8. HeldOK'
  <2>1. \A c \in Conds : held[c] # None => held[c] \in Threads \ {t}
    BY <1>0 DEF HeldOK, TypeOK
  <2> QED
    BY <1>0, <2>1 DEF HeldOK
<1> QED
  BY <1>4, <1>5, <1>6, <1>7, <1>8 DEF IInv

-----------------------------------------------------------------------------
(* Steps that touch no queue.                                              *)

LEMMA QuietSteps ==
  ASSUME IInv, NEW t \in Threads,
         \/ \E m \in Mutexes : mutex_lock(t, m) \/ mutex_unlock(t, m)
         \/ \E c \in Conds : condition_signal(t, c) \/ condition_broadcast(t, c)
         \/ WaitUnlock(t) \/ Spin(t) \/ Block(t) \/ TimeOut(t) \/ Relock(t)
  PROVE  IInv'
<1>0. TypeOK /\ CallsOK
  BY DEF IInv
<1> USE DEF Asleep, Called, Released, WaitPcs, TimedPcs
<1>1. ASSUME NEW m \in Mutexes, mutex_lock(t, m) \/ mutex_unlock(t, m) PROVE IInv'
  <2>1. TypeOK'
    BY <1>0, <1>1 DEF TypeOK, mutex_lock, mutex_unlock
  <2>2. CallsOK'
    BY <1>0, <1>1 DEF CallsOK, mutex_lock, mutex_unlock
  <2> QED
    BY <1>1, <2>1, <2>2, LocalStep DEF mutex_lock, mutex_unlock
<1>2. ASSUME NEW c \in Conds, condition_signal(t, c) \/ condition_broadcast(t, c)
      PROVE  IInv'
  <2>0. /\ pc[t] = "run" /\ UNCHANGED <<mutex, queue, held, state, port, with, todo>>
        /\ \/ UNCHANGED <<pc, on>>
           \/ \E l \in {"signal", "broadcast"} :
                 pc' = [pc EXCEPT ![t] = l] /\ on' = [on EXCEPT ![t] = c]
    BY <1>2 DEF condition_signal, condition_broadcast, Call, Goto
  <2>1. TypeOK'
    <3>1. CASE UNCHANGED <<pc, on>>
      BY <1>0, <2>0, <3>1 DEF TypeOK
    <3>2. ASSUME NEW l \in {"signal", "broadcast"},
                 pc' = [pc EXCEPT ![t] = l], on' = [on EXCEPT ![t] = c]
          PROVE  TypeOK'
      BY <1>0, <2>0, <3>2 DEF TypeOK
    <3> QED
      BY <2>0, <3>1, <3>2
  <2>2. CallsOK'
    BY <1>0, <2>0 DEF CallsOK, TypeOK
  <2>3. \A x \in Threads \ {t} :
          state'[x] = state[x] /\ pc'[x] = pc[x] /\ on'[x] = on[x]
    BY <1>0, <2>0 DEF TypeOK
  <2>4. /\ pc'[t] \notin {"continue", "send", "requeue"}
        /\ pc'[t] \in WaitPcs => pc[t] \in WaitPcs /\ on'[t] = on[t]
    BY <1>0, <2>0 DEF TypeOK
  <2>5. /\ Asleep(t) => Asleep(t)' /\ on'[t] = on[t]
        /\ Called(t) => Called(t)' /\ on'[t] = on[t]
        /\ Released(t) => Released(t)' \/ pc'[t] \notin WaitPcs
    BY <1>0, <2>0, <2>4 DEF TypeOK
  <2>6. pc[t] \notin {"continue", "send", "requeue"} /\ UNCHANGED <<queue, todo, port, held>>
    BY <2>0
  <2> HIDE DEF Asleep, Called, Released, WaitPcs
  <2> QED
    BY <2>1, <2>2, <2>3, <2>4, <2>5, <2>6, LocalStep
<1>3. CASE WaitUnlock(t)
  <2>0. /\ pc[t] = "unlock" /\ UNCHANGED <<queue, held, state, port, on, with, todo>>
        /\ pc' = [pc EXCEPT ![t] = IF on[t] \in Timed THEN "receive" ELSE "spin"]
        /\ mutex' = [mutex EXCEPT ![with[t]] = None]
    BY <1>3 DEF WaitUnlock, Goto
  <2>1. TypeOK'
    BY <1>0, <2>0 DEF TypeOK
  <2>2. CallsOK'
    BY <1>0, <2>0 DEF CallsOK, TypeOK
  <2>3. /\ \A x \in Threads \ {t} :
             state'[x] = state[x] /\ pc'[x] = pc[x] /\ on'[x] = on[x]
        /\ pc'[t] = (IF on[t] \in Timed THEN "receive" ELSE "spin")
    BY <1>0, <2>0 DEF TypeOK
  <2>4. /\ Asleep(t) => Asleep(t)' /\ on'[t] = on[t]
        /\ Called(t) => Called(t)' /\ on'[t] = on[t]
        /\ Released(t) => Released(t)' \/ pc'[t] \notin WaitPcs
    BY <1>0, <2>0, <2>2, <2>3 DEF TypeOK
  <2> HIDE DEF Asleep, Called, Released
  <2> QED
    BY <2>0, <2>1, <2>2, <2>3, <2>4, LocalStep
<1>4. CASE Spin(t) \/ (Block(t) /\ state[t] = "RUNNING")
  <2>0. /\ pc[t] = "spin" /\ state[t] = "RUNNING" /\ pc' = [pc EXCEPT ![t] = "relock"]
        /\ UNCHANGED <<mutex, queue, held, state, port, on, with, todo>>
    BY <1>4 DEF Spin, Block, Goto
  <2>1. TypeOK'
    BY <1>0, <2>0 DEF TypeOK
  <2>2. CallsOK'
    BY <1>0, <2>0 DEF CallsOK, TypeOK
  <2>3. \A x \in Threads \ {t} :
          state'[x] = state[x] /\ pc'[x] = pc[x] /\ on'[x] = on[x]
    BY <1>0, <2>0 DEF TypeOK
  <2>4. /\ pc'[t] \notin {"continue", "send", "requeue"}
        /\ pc'[t] \in WaitPcs => pc[t] \in WaitPcs /\ on'[t] = on[t]
    BY <1>0, <2>0 DEF TypeOK
  <2>5. /\ Asleep(t) => Asleep(t)' /\ on'[t] = on[t]
        /\ Called(t) => Called(t)' /\ on'[t] = on[t]
        /\ Released(t) => Released(t)' \/ pc'[t] \notin WaitPcs
    BY <1>0, <2>0, <2>4 DEF TypeOK
  <2>6. pc[t] \notin {"continue", "send", "requeue"} /\ UNCHANGED <<queue, todo, port, held>>
    BY <2>0
  <2> HIDE DEF Asleep, Called, Released, WaitPcs
  <2> QED
    BY <2>1, <2>2, <2>3, <2>4, <2>5, <2>6, LocalStep
<1>5. CASE Block(t) /\ state[t] # "RUNNING"
  <2>0. /\ pc[t] = "spin" /\ pc' = [pc EXCEPT ![t] = "receive"]
        /\ state' = [state EXCEPT ![t] = "BLOCKED"] /\ state[t] # "RUNNING"
        /\ UNCHANGED <<mutex, queue, held, port, on, with, todo>>
    BY <1>5 DEF Block, Goto
  <2>1. TypeOK'
    BY <1>0, <2>0 DEF TypeOK
  <2>2. CallsOK' /\ on[t] \notin Timed
    BY <1>0, <2>0 DEF CallsOK, TypeOK
  <2>3. /\ \A x \in Threads \ {t} :
             state'[x] = state[x] /\ pc'[x] = pc[x] /\ on'[x] = on[x]
        /\ pc'[t] = "receive"
    BY <1>0, <2>0 DEF TypeOK
  <2>4. /\ Asleep(t) => Asleep(t)' /\ on'[t] = on[t]
        /\ Called(t) => Called(t)' /\ on'[t] = on[t]
        /\ Released(t) => Released(t)' \/ pc'[t] \notin WaitPcs
    BY <1>0, <2>0, <2>2, <2>3 DEF TypeOK
  <2> HIDE DEF Asleep, Called, Released
  <2> QED
    BY <2>0, <2>1, <2>2, <2>3, <2>4, LocalStep
<1>6. CASE TimeOut(t)
  <2>0. /\ pc[t] = "receive" /\ on[t] \in Timed /\ state[t] # "EATING"
        /\ pc' = [pc EXCEPT ![t] = "timed_out"]
        /\ UNCHANGED <<mutex, queue, held, state, port, on, with, todo>>
    BY <1>6 DEF TimeOut, Goto, Claimed
  <2>1. TypeOK'
    BY <1>0, <2>0 DEF TypeOK
  <2>2. CallsOK'
    BY <1>0, <2>0 DEF CallsOK, TypeOK
  <2>3. \A x \in Threads \ {t} :
          state'[x] = state[x] /\ pc'[x] = pc[x] /\ on'[x] = on[x]
    BY <1>0, <2>0 DEF TypeOK
  <2>4. /\ pc'[t] \notin {"continue", "send", "requeue"}
        /\ pc'[t] \in WaitPcs => pc[t] \in WaitPcs /\ on'[t] = on[t]
    BY <1>0, <2>0 DEF TypeOK
  <2>5. /\ Asleep(t) => Asleep(t)' /\ on'[t] = on[t]
        /\ Called(t) => Called(t)' /\ on'[t] = on[t]
        /\ Released(t) => Released(t)' \/ pc'[t] \notin WaitPcs
    BY <1>0, <2>0, <2>4 DEF TypeOK
  <2>6. pc[t] \notin {"continue", "send", "requeue"} /\ UNCHANGED <<queue, todo, port, held>>
    BY <2>0
  <2> HIDE DEF Asleep, Called, Released, WaitPcs
  <2> QED
    BY <2>1, <2>2, <2>3, <2>4, <2>5, <2>6, LocalStep
<1>7. CASE Relock(t)
  <2>0. /\ pc[t] = "relock" /\ pc' = [pc EXCEPT ![t] = "run"]
        /\ mutex' = [mutex EXCEPT ![with[t]] = t]
        /\ on' = [on EXCEPT ![t] = None] /\ with' = [with EXCEPT ![t] = None]
        /\ UNCHANGED <<queue, held, state, port, todo>>
    BY <1>7 DEF Relock, Back, Goto
  <2>1. TypeOK'
    BY <1>0, <2>0 DEF TypeOK
  <2>2. CallsOK'
    BY <1>0, <2>0 DEF CallsOK, TypeOK
  <2>3. \A x \in Threads \ {t} :
          state'[x] = state[x] /\ pc'[x] = pc[x] /\ on'[x] = on[x]
    BY <1>0, <2>0 DEF TypeOK
  <2>4. /\ pc'[t] \notin {"continue", "send", "requeue"}
        /\ pc'[t] \in WaitPcs => pc[t] \in WaitPcs /\ on'[t] = on[t]
    BY <1>0, <2>0 DEF TypeOK
  <2>5. /\ Asleep(t) => Asleep(t)' /\ on'[t] = on[t]
        /\ Called(t) => Called(t)' /\ on'[t] = on[t]
        /\ Released(t) => Released(t)' \/ pc'[t] \notin WaitPcs
    BY <1>0, <2>0, <2>4 DEF TypeOK
  <2>6. pc[t] \notin {"continue", "send", "requeue"} /\ UNCHANGED <<queue, todo, port, held>>
    BY <2>0
  <2> HIDE DEF Asleep, Called, Released, WaitPcs
  <2> QED
    BY <2>1, <2>2, <2>3, <2>4, <2>5, <2>6, LocalStep
<1> QED
  BY <1>1, <1>2, <1>3, <1>4, <1>5, <1>6, <1>7

-----------------------------------------------------------------------------
(* Steps of a waiter.                                                      *)

\* The state of every thread but t is what it was.
LEMMA OthersKeep ==
  ASSUME NEW t, \A x \in Threads \ {t} :
                  /\ state'[x] = state[x] /\ pc'[x] = pc[x] /\ on'[x] = on[x]
  PROVE  \A x \in Threads \ {t} : /\ Asleep(x)' <=> Asleep(x)
                                  /\ Called(x)' <=> Called(x)
                                  /\ Released(x)' <=> Released(x)
BY DEF Asleep, Called, Released

LEMMA RangesOK ==
  ASSUME TypeOK
  PROVE  /\ \A c \in Conds : Range(queue[c]) \subseteq Threads
         /\ \A u \in Threads : Range(todo[u]) \subseteq Threads
BY RangeSeq DEF TypeOK

LEMMA EnqueueStep ==
  ASSUME IInv, NEW t \in Threads, NEW c \in Conds, NEW m \in Mutexes, NEW s,
         s = IF c \in Timed THEN "BLOCKED" ELSE "SPINNING",
         Enqueue(t, c, m, s, "unlock")
  PROVE  IInv'
<1>0. /\ TypeOK /\ CallsOK /\ QueuedOK /\ TakenOK /\ MailOK /\ Attended /\ HeldOK
  BY DEF IInv
<1>1. /\ pc[t] = "run" /\ mutex[m] = t /\ held[c] = None
      /\ state' = [state EXCEPT ![t] = s]
      /\ queue' = [queue EXCEPT ![c] = Append(queue[c], t)]
      /\ on' = [on EXCEPT ![t] = c]
      /\ with' = [with EXCEPT ![t] = m]
      /\ pc' = [pc EXCEPT ![t] = "unlock"]
      /\ UNCHANGED <<mutex, held, port, todo>>
  BY DEF Enqueue, Goto
<1>2. /\ \A d \in Conds : t \notin Range(queue[d])
      /\ \A u \in Threads : t \notin Range(todo[u])
      /\ port[t] = 0
  BY <1>1, Nowhere DEF Asleep, Called, TimedPcs
<1>3. /\ \A x \in Threads \ {t} :
           state'[x] = state[x] /\ pc'[x] = pc[x] /\ on'[x] = on[x] /\ with'[x] = with[x]
      /\ pc'[t] = "unlock" /\ on'[t] = c /\ state'[t] = s /\ with'[t] = m
      /\ queue'[c] = Append(queue[c], t)
      /\ \A d \in Conds \ {c} : queue'[d] = queue[d]
  BY <1>0, <1>1 DEF TypeOK
<1>4. /\ Range(queue'[c]) = Range(queue[c]) \cup {t}
      /\ IsInjective(queue'[c]) /\ queue'[c] \in Seq(Threads)
  <2>1. queue[c] \in Seq(Threads) /\ IsInjective(queue[c])
    BY <1>0 DEF TypeOK, QueuedOK
  <2> QED
    BY <1>2, <1>3, <2>1, AppendRange
<1>5. /\ \A x \in Threads \ {t} : /\ Asleep(x)' <=> Asleep(x)
                                  /\ Called(x)' <=> Called(x)
                                  /\ Released(x)' <=> Released(x)
      /\ Asleep(t)'
  BY <1>3, OthersKeep DEF Asleep, TimedPcs
<1>6. TypeOK'
  BY <1>0, <1>1, <1>4 DEF TypeOK
<1>7. CallsOK'
  BY <1>0, <1>1, <1>3 DEF CallsOK, WaitPcs
<1>8. QueuedOK'
  <2> SUFFICES ASSUME NEW d \in Conds
               PROVE  /\ IsInjective(queue'[d])
                      /\ \A x \in Range(queue'[d]) : on'[x] = d /\ port'[x] = 0 /\ Asleep(x)'
    BY DEF QueuedOK
  <2>1. CASE d = c
    BY <1>0, <1>1, <1>2, <1>3, <1>4, <1>5, <2>1, RangesOK DEF QueuedOK
  <2>2. CASE d # c
    BY <1>0, <1>1, <1>2, <1>3, <1>5, <2>2, RangesOK DEF QueuedOK
  <2> QED
    BY <2>1, <2>2
<1>9. TakenOK'
  <2>1. ASSUME NEW u \in Threads PROVE HandsOK(u)'
    <3>1. CASE u = t
      BY <1>0, <1>1, <1>3, <3>1 DEF TakenOK, HandsOK
    <3>2. CASE u # t
      BY <1>0, <1>1, <1>3, <3>2 DEF TakenOK, HandsOK
    <3> QED
      BY <3>1, <3>2
  <2>2. ASSUME NEW u \in Threads, NEW x \in Range(todo[u]) PROVE InHands(u, x)'
    <3>1. InHands(u, x) /\ x \in Threads /\ x # t
      BY <1>0, <1>2, RangesOK DEF TakenOK
    <3>2. u # t
      BY <1>0, <1>1, EmptyRange DEF TakenOK, HandsOK
    <3>3. on[u] \in Conds
      BY <1>0, <3>1, <3>2, EmptyRange DEF CallsOK, TakenOK, HandsOK
    <3>4. x \notin Range(queue'[on[u]])
      <4>1. CASE on[u] = c
        BY <1>4, <3>1, <4>1 DEF InHands
      <4>2. CASE on[u] # c
        BY <1>3, <3>1, <3>3, <4>2 DEF InHands
      <4> QED
        BY <4>1, <4>2
    <3> QED
      BY <1>1, <1>3, <1>5, <3>1, <3>2, <3>4 DEF InHands
  <2> QED
    BY <1>1, <2>1, <2>2 DEF TakenOK
<1>10. MailOK'
  BY <1>0, <1>1, <1>2, <1>5 DEF MailOK
<1>11. Attended'
  <2> SUFFICES ASSUME NEW x \in Threads, pc'[x] \in WaitPcs
               PROVE  \/ x \in Range(queue'[on'[x]])
                      \/ \E u \in Threads : x \in Range(todo'[u])
                      \/ port'[x] = 1
                      \/ Released(x)'
    BY DEF Attended
  <2>1. CASE x = t
    BY <1>3, <1>4, <2>1
  <2>2. CASE x # t
    <3>1. on[x] \in Conds
      BY <1>0, <1>3, <2>2 DEF CallsOK, WaitPcs
    <3>2. Range(queue[on[x]]) \subseteq Range(queue'[on[x]])
      BY <1>3, <1>4, <3>1
    <3> QED
      BY <1>0, <1>1, <1>3, <1>5, <2>2, <3>2 DEF Attended
  <2> QED
    BY <2>1, <2>2
<1>12. HeldOK'
  <2>1. \A d \in Conds : held[d] # None => held[d] \in Threads /\ d # c
    BY <1>0, <1>1 DEF TypeOK
  <2>2. \A d \in Conds : held[d] # None => held[d] # t
    BY <1>0, <1>1 DEF HeldOK
  <2> QED
    BY <1>0, <1>1, <1>3, <2>1, <2>2 DEF HeldOK
<1> QED
  BY <1>6, <1>7, <1>8, <1>9, <1>10, <1>11, <1>12 DEF IInv

LEMMA ReceiveStep ==
  ASSUME IInv, NEW t \in Threads, Receive(t)
  PROVE  IInv'
<1>0. /\ TypeOK /\ CallsOK /\ QueuedOK /\ TakenOK /\ MailOK /\ Attended /\ HeldOK
  BY DEF IInv
<1>1. /\ pc[t] = "receive" /\ port[t] = 1
      /\ port' = [port EXCEPT ![t] = 0]
      /\ state' = IF on[t] \in Timed THEN [state EXCEPT ![t] = "RUNNING"] ELSE state
      /\ pc' = [pc EXCEPT ![t] = "relock"]
      /\ UNCHANGED <<mutex, queue, held, on, with, todo>>
  <2>1. port[t] = 1
    BY <1>0 DEF Receive, TypeOK
  <2> QED
    BY <2>1 DEF Receive, Goto
<1>2. Called(t)
  BY <1>0, <1>1 DEF MailOK
<1>3. /\ \A x \in Threads \ {t} :
           /\ state'[x] = state[x] /\ pc'[x] = pc[x] /\ on'[x] = on[x]
           /\ port'[x] = port[x]
      /\ pc'[t] = "relock" /\ port'[t] = 0 /\ state'[t] = "RUNNING"
  BY <1>0, <1>1, <1>2 DEF TypeOK, Called
<1>4. /\ \A d \in Conds : t \notin Range(queue[d])
      /\ \A u \in Threads : t \notin Range(todo[u])
  BY <1>0, <1>1 DEF QueuedOK, TakenOK, InHands
<1>5. /\ \A x \in Threads \ {t} : /\ Asleep(x)' <=> Asleep(x)
                                  /\ Called(x)' <=> Called(x)
                                  /\ Released(x)' <=> Released(x)
  BY <1>3, OthersKeep
<1>6. TypeOK'
  BY <1>0, <1>1 DEF TypeOK
<1>7. CallsOK'
  BY <1>0, <1>1, <1>3 DEF CallsOK, WaitPcs
<1>8. QueuedOK'
  BY <1>0, <1>1, <1>3, <1>4, <1>5, RangesOK DEF QueuedOK
<1>9. TakenOK'
  <2>1. ASSUME NEW u \in Threads PROVE HandsOK(u)'
    BY <1>0, <1>1, <1>3 DEF TakenOK, HandsOK
  <2>2. ASSUME NEW u \in Threads, NEW x \in Range(todo[u]) PROVE InHands(u, x)'
    <3>1. InHands(u, x) /\ x \in Threads /\ x # t
      BY <1>0, <1>4, RangesOK DEF TakenOK
    <3>2. u # t
      BY <1>0, <1>1, EmptyRange DEF TakenOK, HandsOK
    <3> QED
      BY <1>1, <1>3, <1>5, <3>1, <3>2 DEF InHands
  <2> QED
    BY <1>1, <2>1, <2>2 DEF TakenOK
<1>10. MailOK'
  BY <1>0, <1>3, <1>5 DEF MailOK
<1>11. Attended'
  BY <1>0, <1>1, <1>3, <1>5 DEF Attended, WaitPcs
<1>12. HeldOK'
  <2>1. \A d \in Conds : held[d] # None => held[d] \in Threads
    BY <1>0 DEF TypeOK
  <2>2. \A d \in Conds : held[d] # None => held[d] # t
    BY <1>0, <1>1 DEF HeldOK
  <2> QED
    BY <1>0, <1>1, <1>3, <2>1, <2>2 DEF HeldOK
<1> QED
  BY <1>6, <1>7, <1>8, <1>9, <1>10, <1>11, <1>12 DEF IInv

\* A waiter that times out and has not been claimed is on its queue: nobody else
\* can have it while the spin lock is free.
LEMMA TakeQueueStep ==
  ASSUME IInv, NEW t \in Threads, TakeQueue(t)
  PROVE  IInv'
<1> DEFINE c == on[t]
<1>0. /\ TypeOK /\ CallsOK /\ QueuedOK /\ TakenOK /\ MailOK /\ Attended /\ HeldOK
  BY DEF IInv
<1>1. /\ pc[t] = "timed_out" /\ held[c] = None /\ c \in Conds /\ c \in Timed
  BY <1>0 DEF TakeQueue, CallsOK
<1>2. CASE Claimed(t)
  <2>0. /\ pc' = [pc EXCEPT ![t] = "receive"]
        /\ UNCHANGED <<mutex, queue, held, state, port, on, with, todo>>
    BY <1>2 DEF TakeQueue, Goto
  <2>1. TypeOK'
    BY <1>0, <2>0 DEF TypeOK
  <2>2. CallsOK'
    BY <1>0, <1>1, <2>0 DEF CallsOK, TypeOK, WaitPcs
  <2>3. /\ \A x \in Threads \ {t} :
             state'[x] = state[x] /\ pc'[x] = pc[x] /\ on'[x] = on[x]
        /\ pc'[t] = "receive"
    BY <1>0, <2>0 DEF TypeOK
  <2>4. /\ Asleep(t) => Asleep(t)' /\ on'[t] = on[t]
        /\ Called(t) => Called(t)' /\ on'[t] = on[t]
        /\ Released(t) => Released(t)'
    BY <1>1, <2>0, <2>3 DEF Asleep, Called, Released, TimedPcs
  <2> QED
    BY <1>1, <2>0, <2>1, <2>2, <2>3, <2>4, LocalStep DEF WaitPcs
<1>3. CASE ~Claimed(t)
  <2>0. /\ held' = [held EXCEPT ![c] = t]
        /\ todo' = [todo EXCEPT ![t] = queue[c]]
        /\ queue' = [queue EXCEPT ![c] = <<>>]
        /\ pc' = [pc EXCEPT ![t] = "requeue"]
        /\ UNCHANGED <<mutex, state, port, on, with>>
    BY <1>3 DEF TakeQueue, Goto
  <2>1. \A u \in Threads : t \notin Range(todo[u])
    <3> SUFFICES ASSUME NEW u \in Threads, t \in Range(todo[u]) PROVE FALSE
      OBVIOUS
    <3>1. InHands(u, t)
      BY <1>0 DEF TakenOK
    <3>2. pc[u] \in {"continue", "send", "requeue"} /\ on[u] = c
      BY <1>0, <3>1, EmptyRange DEF TakenOK, HandsOK, InHands
    <3>3. pc[u] # "continue"
      BY <1>0, <1>1, <3>2 DEF CallsOK
    <3>4. pc[u] # "send"
      BY <1>1, <1>3, <3>1, <3>2 DEF InHands, Called, Claimed
    <3>5. pc[u] # "requeue"
      BY <1>0, <1>1, <3>2, ConditionAssumption DEF HeldOK
    <3> QED
      BY <3>2, <3>3, <3>4, <3>5
  <2>2. t \in Range(queue[c])
    <3>1. port[t] # 1
      BY <1>0, <1>1, <1>3 DEF MailOK, Called, Claimed
    <3>2. ~Released(t) /\ pc[t] \in WaitPcs
      BY <1>1 DEF Released, WaitPcs
    <3> QED
      BY <1>0, <2>1, <3>1, <3>2 DEF Attended
  <2>3. Asleep(t) /\ state[t] = "BLOCKED" /\ port[t] = 0
    BY <1>0, <1>1, <2>2 DEF QueuedOK, Asleep
  <2>4. /\ \A x \in Threads \ {t} :
             /\ state'[x] = state[x] /\ pc'[x] = pc[x] /\ on'[x] = on[x]
             /\ todo'[x] = todo[x]
        /\ pc'[t] = "requeue" /\ todo'[t] = queue[c]
        /\ queue'[c] = <<>> /\ \A d \in Conds \ {c} : queue'[d] = queue[d]
        /\ held'[c] = t /\ \A d \in Conds \ {c} : held'[d] = held[d]
        /\ state'[t] = "BLOCKED" /\ on'[t] = c
    BY <1>0, <1>1, <2>0, <2>3 DEF TypeOK
  <2>5. \A x \in Threads \ {t} : /\ Asleep(x)' <=> Asleep(x)
                                 /\ Called(x)' <=> Called(x)
                                 /\ Released(x)' <=> Released(x)
    BY <2>4, OthersKeep
  <2>6. TypeOK'
    <3>1. queue[c] \in Seq(Threads) /\ <<>> \in Seq(Threads)
      BY <1>0, <1>1 DEF TypeOK
    <3> QED
      BY <1>0, <1>1, <2>0, <3>1 DEF TypeOK
  <2>7. CallsOK'
    BY <1>0, <1>1, <2>0, <2>4 DEF CallsOK, WaitPcs
  <2>8. QueuedOK'
    <3> SUFFICES ASSUME NEW d \in Conds
                 PROVE  /\ IsInjective(queue'[d])
                        /\ \A x \in Range(queue'[d]) :
                             on'[x] = d /\ port'[x] = 0 /\ Asleep(x)'
      BY DEF QueuedOK
    <3>1. CASE d = c
      BY <2>4, <3>1, EmptyRange
    <3>2. CASE d # c
      <4>1. \A x \in Range(queue[d]) : x \in Threads /\ x # t
        BY <1>0, <3>2, RangesOK DEF QueuedOK
      <4> QED
        BY <1>0, <2>0, <2>4, <2>5, <3>2, <4>1 DEF QueuedOK
    <3> QED
      BY <3>1, <3>2
  <2>9. TakenOK'
    <3>1. ASSUME NEW u \in Threads PROVE HandsOK(u)'
      <4>1. CASE u = t
        BY <1>0, <1>1, <2>2, <2>4, <4>1 DEF QueuedOK, HandsOK
      <4>2. CASE u # t
        BY <1>0, <2>4, <4>2 DEF TakenOK, HandsOK
      <4> QED
        BY <4>1, <4>2
    <3>2. ASSUME NEW u \in Threads, NEW x \in Range(todo'[u]) PROVE InHands(u, x)'
      <4>1. CASE u = t
        <5>1. x \in Range(queue[c]) /\ x \in Threads
          BY <1>0, <1>1, <2>4, <3>2, <4>1, RangesOK
        <5>2. on[x] = c /\ port[x] = 0 /\ Asleep(x)
          BY <1>0, <1>1, <5>1 DEF QueuedOK
        <5>3. \A v \in Threads : x \in Range(todo'[v]) => v = t
          BY <1>0, <2>4, <5>1, <5>2 DEF TakenOK, InHands
        <5>4. Asleep(x)' \/ x = t
          BY <2>5, <5>1, <5>2
        <5> QED
          BY <2>0, <2>4, <4>1, <5>2, <5>3, <5>4, EmptyRange DEF InHands
      <4>2. CASE u # t
        <5>1. x \in Range(todo[u]) /\ x \in Threads /\ InHands(u, x)
          BY <1>0, <2>4, <3>2, <4>2, RangesOK DEF TakenOK
        <5>2. x # t /\ x \notin Range(queue[c])
          BY <1>0, <1>1, <2>1, <5>1 DEF QueuedOK, InHands
        <5>3. on[u] \in Conds
          BY <1>0, <5>1, EmptyRange DEF CallsOK, TakenOK, HandsOK
        <5>4. x \notin Range(queue'[on[u]])
          BY <2>4, <5>1, <5>3, EmptyRange DEF InHands
        <5>5. \A v \in Threads : x \in Range(todo'[v]) => u = v
          BY <2>4, <5>1, <5>2 DEF InHands
        <5> QED
          BY <2>0, <2>4, <2>5, <4>2, <5>1, <5>2, <5>4, <5>5 DEF InHands
      <4> QED
        BY <4>1, <4>2
    <3> QED
      BY <3>1, <3>2 DEF TakenOK
  <2>10. MailOK'
    BY <1>0, <2>0, <2>3, <2>5 DEF MailOK
  <2>11. Attended'
    <3> SUFFICES ASSUME NEW x \in Threads, pc'[x] \in WaitPcs, x # t
                 PROVE  \/ x \in Range(queue'[on'[x]])
                        \/ \E u \in Threads : x \in Range(todo'[u])
                        \/ port'[x] = 1
                        \/ Released(x)'
      BY <2>2, <2>4 DEF Attended
    <3>1. pc[x] \in WaitPcs /\ on[x] \in Conds /\ on'[x] = on[x]
      BY <1>0, <2>4 DEF CallsOK, WaitPcs
    <3>2. CASE x \in Range(queue[on[x]])
      BY <2>4, <3>1, <3>2
    <3>3. CASE \E u \in Threads : x \in Range(todo[u])
      <4>1. PICK u \in Threads : x \in Range(todo[u])
        BY <3>3
      <4>2. u # t
        BY <1>0, <1>1, <4>1, EmptyRange DEF TakenOK, HandsOK
      <4> QED
        BY <2>4, <4>1, <4>2
    <3> QED
      BY <1>0, <2>0, <2>5, <3>1, <3>2, <3>3 DEF Attended
  <2>12. HeldOK'
    <3>1. \A d \in Conds : held[d] # None => held[d] \in Threads
      BY <1>0 DEF TypeOK
    <3>2. \A d \in Conds : held[d] # None => held[d] # t
      BY <1>0, <1>1 DEF HeldOK
    <3>3. \A d \in Conds :
            held'[d] # None => /\ queue'[d] = <<>> /\ pc'[held'[d]] = "requeue"
                               /\ on'[held'[d]] = d
      BY <1>0, <2>4, <3>1, <3>2 DEF HeldOK
    <3>4. ASSUME NEW u \in Threads, pc'[u] = "requeue" PROVE held'[on'[u]] = u
      <4>1. CASE u = t
        BY <2>4, <4>1
      <4>2. CASE u # t
        <5>1. held[on[u]] = u /\ on'[u] = on[u] /\ on[u] \in Conds
          BY <1>0, <2>4, <3>4, <4>2 DEF HeldOK, CallsOK
        <5>2. on[u] # c
          BY <1>1, <5>1, ConditionAssumption
        <5> QED
          BY <2>4, <5>1, <5>2
      <4> QED
        BY <4>1, <4>2
    <3> QED
      BY <3>3, <3>4 DEF HeldOK
  <2> QED
    BY <2>6, <2>7, <2>8, <2>9, <2>10, <2>11, <2>12 DEF IInv
<1> QED
  BY <1>2, <1>3

LEMMA RequeueStep ==
  ASSUME IInv, NEW t \in Threads, Requeue(t)
  PROVE  IInv'
<1> DEFINE c == on[t]
           w == Without(todo[t], {t})
<1>0. /\ TypeOK /\ CallsOK /\ QueuedOK /\ TakenOK /\ MailOK /\ Attended /\ HeldOK
  BY DEF IInv
<1>1. /\ pc[t] = "requeue" /\ held[c] = t /\ c \in Conds /\ c \in Timed
      /\ queue[c] = <<>> /\ HandsOK(t) /\ t \in Range(todo[t])
  <2>1. pc[t] = "requeue" /\ held[c] = t /\ c \in Conds /\ c \in Timed
    BY <1>0 DEF Requeue, CallsOK, HeldOK
  <2> QED
    BY <1>0, <2>1, ConditionAssumption DEF TakenOK, HandsOK, HeldOK
<1>2. w \in Seq(Threads) /\ Range(w) = Range(todo[t]) \ {t} /\ IsInjective(w)
  <2>1. todo[t] \in Seq(Threads)
    BY <1>0 DEF TypeOK
  <2>2. IsInjective(todo[t])
    BY <1>1 DEF HandsOK
  <2> QED
    BY <2>1, <2>2, WithoutType, WithoutRange, WithoutDistinct
<1>3. /\ queue' = [queue EXCEPT ![c] = w]
      /\ todo' = [todo EXCEPT ![t] = <<>>]
      /\ state' = [state EXCEPT ![t] = "RUNNING"]
      /\ held' = [held EXCEPT ![c] = None]
      /\ pc' = [pc EXCEPT ![t] = "relock"]
      /\ UNCHANGED <<mutex, port, on, with>>
  BY DEF Requeue, Goto
<1> HIDE DEF w
<1>4. /\ \A x \in Threads \ {t} :
           /\ state'[x] = state[x] /\ pc'[x] = pc[x] /\ on'[x] = on[x]
           /\ todo'[x] = todo[x]
      /\ pc'[t] = "relock" /\ todo'[t] = <<>> /\ state'[t] = "RUNNING"
      /\ queue'[c] = w /\ \A d \in Conds \ {c} : queue'[d] = queue[d]
      /\ held'[c] = None /\ \A d \in Conds \ {c} : held'[d] = held[d]
  BY <1>0, <1>1, <1>3 DEF TypeOK
<1>5. \A x \in Threads \ {t} : /\ Asleep(x)' <=> Asleep(x)
                               /\ Called(x)' <=> Called(x)
                               /\ Released(x)' <=> Released(x)
  BY <1>4, OthersKeep
<1>6. TypeOK'
  <2>1. <<>> \in Seq(Threads)
    OBVIOUS
  <2> QED
    BY <1>0, <1>1, <1>2, <1>3, <2>1 DEF TypeOK
<1>7. CallsOK'
  BY <1>0, <1>1, <1>3, <1>4 DEF CallsOK, WaitPcs
<1>8. \A x \in Range(todo[t]) : x \in Threads /\ InHands(t, x)
  BY <1>0, RangesOK DEF TakenOK
<1>9. QueuedOK'
  <2> SUFFICES ASSUME NEW d \in Conds
               PROVE  /\ IsInjective(queue'[d])
                      /\ \A x \in Range(queue'[d]) :
                           on'[x] = d /\ port'[x] = 0 /\ Asleep(x)'
    BY DEF QueuedOK
  <2>1. CASE d = c
    <3>1. \A x \in Range(w) : /\ x \in Threads \ {t}
                              /\ on[x] = c /\ port[x] = 0 /\ Asleep(x)
      BY <1>1, <1>2, <1>8 DEF InHands
    <3> QED
      BY <1>2, <1>3, <1>4, <1>5, <2>1, <3>1
  <2>2. CASE d # c
    <3>1. \A x \in Range(queue[d]) : x \in Threads /\ x # t
      BY <1>0, <2>2, RangesOK DEF QueuedOK
    <3> QED
      BY <1>0, <1>3, <1>4, <1>5, <2>2, <3>1 DEF QueuedOK
  <2> QED
    BY <2>1, <2>2
<1>10. TakenOK'
  <2>1. ASSUME NEW u \in Threads PROVE HandsOK(u)'
    <3>1. CASE u = t
      BY <1>4, <3>1, EmptyRange DEF HandsOK
    <3>2. CASE u # t
      BY <1>0, <1>4, <3>2 DEF TakenOK, HandsOK
    <3> QED
      BY <3>1, <3>2
  <2>2. ASSUME NEW u \in Threads, NEW x \in Range(todo'[u]) PROVE InHands(u, x)'
    <3>1. u # t
      BY <1>4, <2>2, EmptyRange
    <3>2. x \in Range(todo[u]) /\ x \in Threads /\ InHands(u, x)
      BY <1>0, <1>4, <2>2, <3>1, RangesOK DEF TakenOK
    <3>3. x # t /\ x \notin Range(todo[t])
      BY <1>1, <1>8, <3>1, <3>2 DEF InHands
    <3>4. on[u] \in Conds
      BY <1>0, <3>2, EmptyRange DEF CallsOK, TakenOK, HandsOK
    <3>5. x \notin Range(queue'[on[u]])
      <4>1. CASE on[u] = c
        BY <1>2, <1>4, <3>3, <4>1
      <4>2. CASE on[u] # c
        BY <1>4, <3>2, <3>4, <4>2 DEF InHands
      <4> QED
        BY <4>1, <4>2
    <3>6. \A v \in Threads : x \in Range(todo'[v]) => u = v
      BY <1>4, <3>2, EmptyRange DEF InHands
    <3> QED
      BY <1>3, <1>4, <1>5, <3>1, <3>2, <3>3, <3>5, <3>6 DEF InHands
  <2> QED
    BY <2>1, <2>2 DEF TakenOK
<1>11. MailOK'
  <2>1. port[t] = 0
    BY <1>1, <1>8 DEF InHands
  <2> QED
    BY <1>0, <1>3, <1>5, <2>1 DEF MailOK
<1>12. Attended'
  <2> SUFFICES ASSUME NEW x \in Threads, pc'[x] \in WaitPcs, x # t
               PROVE  \/ x \in Range(queue'[on'[x]])
                      \/ \E u \in Threads : x \in Range(todo'[u])
                      \/ port'[x] = 1
                      \/ Released(x)'
    BY <1>4 DEF Attended, WaitPcs
  <2>1. pc[x] \in WaitPcs /\ on[x] \in Conds /\ on'[x] = on[x]
    BY <1>0, <1>4 DEF CallsOK, WaitPcs
  <2>2. CASE x \in Range(queue[on[x]])
    <3>1. on[x] # c
      BY <1>1, <2>2, EmptyRange
    <3> QED
      BY <1>4, <2>1, <2>2, <3>1
  <2>3. CASE \E u \in Threads : x \in Range(todo[u])
    <3>1. PICK u \in Threads : x \in Range(todo[u])
      BY <2>3
    <3>2. CASE u = t
      <4>1. on[x] = c /\ x \in Range(w)
        BY <1>2, <1>8, <3>1, <3>2 DEF InHands
      <4> QED
        BY <1>4, <2>1, <4>1
    <3>3. CASE u # t
      BY <1>4, <3>1, <3>3
    <3> QED
      BY <3>2, <3>3
  <2> QED
    BY <1>0, <1>3, <1>5, <2>1, <2>2, <2>3 DEF Attended
<1>13. HeldOK'
  <2>1. \A d \in Conds : held[d] # None => held[d] \in Threads
    BY <1>0 DEF TypeOK
  <2>2. \A d \in Conds \ {c} : held[d] # None => held[d] # t
    BY <1>0, <1>1 DEF HeldOK
  <2>3. \A d \in Conds :
          held'[d] # None => /\ queue'[d] = <<>> /\ pc'[held'[d]] = "requeue"
                             /\ on'[held'[d]] = d
    BY <1>0, <1>4, <2>1, <2>2 DEF HeldOK
  <2>4. ASSUME NEW u \in Threads, pc'[u] = "requeue" PROVE held'[on'[u]] = u
    <3>1. u # t
      BY <1>4, <2>4
    <3>2. held[on[u]] = u /\ on'[u] = on[u] /\ on[u] \in Conds
      BY <1>0, <1>4, <2>4, <3>1 DEF HeldOK, CallsOK
    <3>3. on[u] # c
      BY <1>1, <3>1, <3>2
    <3> QED
      BY <1>4, <3>2, <3>3
  <2> QED
    BY <2>3, <2>4 DEF HeldOK
<1> QED
  BY <1>6, <1>7, <1>9, <1>10, <1>11, <1>12, <1>13 DEF IInv

-----------------------------------------------------------------------------
(* Steps of a signaller.                                                   *)

\* Some of the queue goes into the caller's hands, the rest stays.
LEMMA TakeStep ==
  ASSUME IInv, NEW t \in Threads, pc[t] \in {"signal", "broadcast"},
         NEW ps \in Seq(Threads), NEW rest \in Seq(Threads),
         IsInjective(queue[on[t]]) => IsInjective(ps) /\ IsInjective(rest),
         Range(queue[on[t]]) = Range(ps) \cup Range(rest),
         IsInjective(queue[on[t]]) => Range(ps) \cap Range(rest) = {},
         Take(t, ps, rest)
  PROVE  IInv'
<1> DEFINE c == on[t]
           h == IF c \in Timed THEN Reverse(ps) ELSE ps
           l == IF ps = <<>> THEN "run" ELSE IF c \in Timed THEN "send" ELSE "continue"
<1>0. /\ TypeOK /\ CallsOK /\ QueuedOK /\ TakenOK /\ MailOK /\ Attended /\ HeldOK
  BY DEF IInv
<1>1. /\ held[c] = None /\ c \in Conds
      /\ queue' = [queue EXCEPT ![c] = rest]
      /\ todo' = [todo EXCEPT ![t] = h]
      /\ state' = IF c \in Timed
                  THEN [u \in Threads |-> IF u \in Range(ps) THEN "EATING" ELSE state[u]]
                  ELSE state
      /\ pc' = [pc EXCEPT ![t] = l]
      /\ IF ps = <<>> THEN /\ on' = [on EXCEPT ![t] = None]
                           /\ with' = [with EXCEPT ![t] = None]
         ELSE UNCHANGED <<on, with>>
      /\ UNCHANGED <<mutex, held, port>>
  BY <1>0 DEF Take, Back, Goto, CallsOK
<1>2. /\ h \in Seq(Threads) /\ Range(h) = Range(ps)
      /\ IsInjective(ps) /\ IsInjective(rest) /\ IsInjective(h)
      /\ Range(queue[c]) = Range(ps) \cup Range(rest)
      /\ Range(ps) \cap Range(rest) = {}
      /\ ps # <<>> => h # <<>>
      /\ ps = <<>> => h = <<>>
  <2>1. /\ Reverse(ps) \in Seq(Threads) /\ Range(Reverse(ps)) = Range(ps)
        /\ IsInjective(ps) => IsInjective(Reverse(ps))
        /\ ps # <<>> => Reverse(ps) # <<>>
    BY ReverseRange
  <2>2. IsInjective(queue[c])
    BY <1>0, <1>1 DEF QueuedOK
  <2>3. ps = <<>> => Reverse(ps) = <<>>
    BY DEF Reverse
  <2> QED
    BY <2>1, <2>2, <2>3
<1>3. /\ \A d \in Conds : t \notin Range(queue[d])
      /\ \A u \in Threads : t \notin Range(todo[u])
      /\ port[t] = 0
  BY Nowhere DEF Asleep, Called, TimedPcs
<1>4. \A x \in Range(ps) : /\ x \in Threads \ {t} /\ on[x] = c /\ port[x] = 0
                           /\ Asleep(x)
  BY <1>0, <1>1, <1>2, <1>3, RangesOK DEF QueuedOK
<1> HIDE DEF h, l
<1>5. /\ \A x \in Threads \ {t} :
           /\ pc'[x] = pc[x] /\ on'[x] = on[x] /\ todo'[x] = todo[x]
           /\ with'[x] = with[x]
      /\ \A x \in Threads :
           state'[x] = IF c \in Timed /\ x \in Range(ps) THEN "EATING" ELSE state[x]
      /\ pc'[t] = l /\ todo'[t] = h
      /\ queue'[c] = rest /\ \A d \in Conds \ {c} : queue'[d] = queue[d]
      /\ ps # <<>> => on'[t] = c
      /\ ps = <<>> => on'[t] = None
  BY <1>0, <1>1 DEF TypeOK
<1>6. /\ \A x \in Threads \ {t} : x \notin Range(ps) =>
           /\ Asleep(x)' <=> Asleep(x)
           /\ Called(x)' <=> Called(x)
           /\ Released(x)' <=> Released(x)
      /\ c \in Timed => \A x \in Range(ps) : Called(x)'
      /\ c \notin Timed => \A x \in Range(ps) : Asleep(x)'
  <2>1. \A x \in Threads \ {t} : x \notin Range(ps) =>
           state'[x] = state[x] /\ pc'[x] = pc[x] /\ on'[x] = on[x]
    BY <1>5
  <2>2. \A x \in Threads \ {t} : x \notin Range(ps) =>
           /\ Asleep(x)' <=> Asleep(x)
           /\ Called(x)' <=> Called(x)
           /\ Released(x)' <=> Released(x)
    BY <2>1 DEF Asleep, Called, Released
  <2>3. c \in Timed => \A x \in Range(ps) : Called(x)'
    BY <1>4, <1>5 DEF Asleep, Called
  <2>4. c \notin Timed => \A x \in Range(ps) : Asleep(x)'
    BY <1>4, <1>5 DEF Asleep
  <2> QED
    BY <2>2, <2>3, <2>4
<1>7. l \in {"run", "send", "continue"} /\ (ps = <<>> <=> l = "run")
      /\ (ps # <<>> => l = IF c \in Timed THEN "send" ELSE "continue")
  BY DEF l
<1>8. TypeOK'
  BY <1>0, <1>1, <1>2, <1>7 DEF TypeOK
<1>9. CallsOK'
  <2> SUFFICES ASSUME NEW x \in Threads
               PROVE /\ pc'[x] # "run" => on'[x] \in Conds
                     /\ pc'[x] \in WaitPcs \union {"relock"} => with'[x] \in Mutexes
                     /\ pc'[x] \in {"spin", "continue"} => on'[x] \notin Timed
                     /\ pc'[x] \in {"timed_out", "requeue"} => on'[x] \in Timed
                     /\ pc'[x] \notin WaitPcs => state'[x] = "RUNNING"
    BY DEF CallsOK
  <2>1. CASE x = t
    <3>1. state'[t] = "RUNNING"
      BY <1>0, <1>4, <1>5 DEF CallsOK, WaitPcs
    <3> QED
      BY <1>1, <1>5, <1>7, <2>1, <3>1 DEF WaitPcs
  <2>2. CASE x # t
    <3>1. x \in Range(ps) => pc[x] \in WaitPcs
      BY <1>4 DEF Asleep, WaitPcs, TimedPcs
    <3> QED
      BY <1>0, <1>5, <2>2, <3>1 DEF CallsOK
  <2> QED
    BY <2>1, <2>2
<1>10. QueuedOK'
  <2> SUFFICES ASSUME NEW d \in Conds
               PROVE  /\ IsInjective(queue'[d])
                      /\ \A x \in Range(queue'[d]) :
                           on'[x] = d /\ port'[x] = 0 /\ Asleep(x)'
    BY DEF QueuedOK
  <2>1. IsInjective(queue'[d]) /\ Range(queue'[d]) \subseteq Range(queue[d])
    BY <1>0, <1>2, <1>5 DEF QueuedOK
  <2>2. \A x \in Range(queue'[d]) : x \notin Range(ps)
    <3>1. CASE d = c
      BY <1>2, <1>5, <3>1
    <3>2. CASE d # c
      BY <1>0, <1>4, <2>1, <3>2 DEF QueuedOK
    <3> QED
      BY <3>1, <3>2
  <2>3. \A x \in Range(queue[d]) : /\ x \in Threads \ {t}
                                   /\ on[x] = d /\ port[x] = 0 /\ Asleep(x)
    BY <1>0, <1>3, RangesOK DEF QueuedOK
  <2> QED
    BY <1>1, <1>5, <1>6, <2>1, <2>2, <2>3
<1>11. TakenOK'
  <2>1. ASSUME NEW u \in Threads PROVE HandsOK(u)'
    <3>1. CASE u = t
      BY <1>2, <1>5, <1>7, <3>1 DEF HandsOK
    <3>2. CASE u # t
      <4>1. pc[u] = "requeue" => u \notin Range(ps)
        BY <1>4 DEF Asleep, TimedPcs
      <4> QED
        BY <1>0, <1>5, <3>2, <4>1 DEF TakenOK, HandsOK
    <3> QED
      BY <3>1, <3>2
  <2>2. ASSUME NEW u \in Threads, NEW x \in Range(todo'[u]) PROVE InHands(u, x)'
    <3>1. CASE u = t
      <4>1. x \in Range(ps) /\ on'[x] = c /\ port[x] = 0
        BY <1>2, <1>4, <1>5, <2>2, <3>1
      <4>2. ps # <<>>
        BY <4>1, EmptyRange
      <4>3. \A v \in Threads : x \in Range(todo'[v]) => v = t
        <5> SUFFICES ASSUME NEW v \in Threads \ {t}, x \in Range(todo[v]) PROVE FALSE
          BY <1>5
        <5>1. InHands(v, x)
          BY <1>0 DEF TakenOK
        <5> QED
          BY <1>2, <1>4, <4>1, <5>1 DEF InHands
      <4>4. x \notin Range(rest)
        BY <1>2, <4>1
      <4>5. IF c \in Timed THEN pc'[t] = "send" /\ Called(x)'
            ELSE pc'[t] = "continue" /\ Asleep(x)'
        BY <1>5, <1>6, <1>7, <4>1, <4>2
      <4> QED
        BY <1>1, <1>5, <3>1, <4>1, <4>2, <4>3, <4>4, <4>5 DEF InHands
    <3>2. CASE u # t
      <4>1. x \in Range(todo[u]) /\ x \in Threads /\ InHands(u, x)
        BY <1>0, <1>5, <2>2, <3>2, RangesOK DEF TakenOK
      <4>2. x # t /\ x \notin Range(ps)
        BY <1>2, <1>3, <1>4, <4>1 DEF InHands
      <4>3. on[u] \in Conds
        BY <1>0, <4>1, EmptyRange DEF CallsOK, TakenOK, HandsOK
      <4>4. x \notin Range(queue'[on[u]])
        BY <1>2, <1>5, <4>1, <4>3 DEF InHands
      <4>5. \A v \in Threads : x \in Range(todo'[v]) => u = v
        BY <1>2, <1>5, <4>1, <4>2 DEF InHands
      <4> QED
        BY <1>1, <1>5, <1>6, <3>2, <4>1, <4>2, <4>4, <4>5 DEF InHands
    <3> QED
      BY <3>1, <3>2
  <2> QED
    BY <2>1, <2>2 DEF TakenOK
<1>12. MailOK'
  <2>1. \A x \in Threads : port[x] = 1 => x \in Threads \ {t} /\ x \notin Range(ps)
    BY <1>3, <1>4
  <2> QED
    BY <1>0, <1>1, <1>6, <2>1 DEF MailOK
<1>13. Attended'
  <2> SUFFICES ASSUME NEW x \in Threads, pc'[x] \in WaitPcs
               PROVE  \/ x \in Range(queue'[on'[x]])
                      \/ \E u \in Threads : x \in Range(todo'[u])
                      \/ port'[x] = 1
                      \/ Released(x)'
    BY DEF Attended
  <2>1. x # t
    BY <1>5, <1>7 DEF WaitPcs
  <2>2. pc[x] \in WaitPcs /\ on[x] \in Conds /\ on'[x] = on[x]
    BY <1>0, <1>5, <2>1 DEF CallsOK, WaitPcs
  <2>3. CASE x \in Range(ps)
    BY <1>2, <1>5, <2>3
  <2>4. CASE x \notin Range(ps)
    <3>1. CASE x \in Range(queue[on[x]])
      BY <1>2, <1>5, <2>2, <2>4, <3>1
    <3>2. CASE \E u \in Threads : x \in Range(todo[u])
      <4>1. PICK u \in Threads : x \in Range(todo[u])
        BY <3>2
      <4>2. u # t
        BY <1>0, <4>1, EmptyRange DEF TakenOK, HandsOK
      <4> QED
        BY <1>5, <4>1, <4>2
    <3> QED
      BY <1>0, <1>1, <1>6, <2>1, <2>2, <2>4, <3>1, <3>2 DEF Attended
  <2> QED
    BY <2>3, <2>4
<1>14. HeldOK'
  <2>1. \A d \in Conds : held[d] # None => held[d] \in Threads /\ d # c
    BY <1>0, <1>1 DEF TypeOK
  <2>2. \A d \in Conds : held[d] # None => held[d] # t
    BY <1>0 DEF HeldOK
  <2> QED
    BY <1>0, <1>1, <1>5, <1>7, <2>1, <2>2 DEF HeldOK
<1> QED
  BY <1>8, <1>9, <1>10, <1>11, <1>12, <1>13, <1>14 DEF IInv

LEMMA SignalStep ==
  ASSUME IInv, NEW t \in Threads, cond_signal(t) \/ cond_broadcast(t)
  PROVE  IInv'
<1> DEFINE q == queue[on[t]]
<1>1. q \in Seq(Threads) /\ <<>> \in Seq(Threads)
  BY DEF cond_signal, cond_broadcast, IInv, CallsOK, TypeOK
<1>2. CASE cond_broadcast(t)
  BY <1>1, <1>2, TakeStep, EmptyRange DEF cond_broadcast
<1>3. CASE cond_signal(t) /\ q = <<>>
  <2>1. Take(t, <<>>, <<>>) /\ pc[t] = "signal"
    BY <1>3 DEF cond_signal, First
  <2> QED
    BY <1>1, <1>3, <2>1, TakeStep, EmptyRange
<1>4. CASE cond_signal(t) /\ q # <<>>
  <2> DEFINE r == Tail(q)
             p == <<Head(q)>>
  <2>1. Take(t, p, r) /\ pc[t] = "signal"
    BY <1>4 DEF cond_signal, First
  <2>2. /\ r \in Seq(Threads) /\ Head(q) \in Threads
        /\ Range(q) = {Head(q)} \cup Range(r)
        /\ IsInjective(q) => IsInjective(r) /\ Head(q) \notin Range(r)
    BY <1>1, <1>4, TailRange
  <2>3. p \in Seq(Threads) /\ Range(p) = {Head(q)} /\ IsInjective(p)
    BY <2>2 DEF Range, IsInjective
  <2> HIDE DEF p, r
  <2> QED
    BY <2>1, <2>2, <2>3, TakeStep
<1> QED
  BY <1>2, <1>3, <1>4

\* The first waiter in the caller's hands is dealt with: it has its message, or
\* it has not blocked yet and will see its state.
LEMMA AdvanceStep ==
  ASSUME IInv, NEW t \in Threads, pc[t] \in {"continue", "send"},
         NEW h \in Threads, h = Head(todo[t]), NEW l,
         l = IF on[t] \in Timed THEN "send" ELSE "continue",
         Advance(t, l), UNCHANGED <<mutex, queue, held>>,
         state' \in [Threads -> {"RUNNING", "SPINNING", "BLOCKED", "EATING"}],
         port' \in [Threads -> {0, 1}],
         \A x \in Threads \ {h} : state'[x] = state[x] /\ port'[x] = port[x],
         pc'[h] = pc[h] /\ on'[h] = on[h] =>
           \/ port'[h] = 1 /\ Called(h)'
           \/ port'[h] = 0 /\ Released(h)'
  PROVE  IInv'
<1> DEFINE c == on[t]
           w == Tail(todo[t])
           k == IF Len(todo[t]) = 1 THEN "run" ELSE l
<1>0. /\ TypeOK /\ CallsOK /\ QueuedOK /\ TakenOK /\ MailOK /\ Attended /\ HeldOK
  BY DEF IInv
<1>1. /\ todo[t] \in Seq(Threads) /\ todo[t] # <<>> /\ IsInjective(todo[t])
      /\ c \in Conds
  BY <1>0 DEF TypeOK, TakenOK, HandsOK, CallsOK
<1>2. /\ w \in Seq(Threads) /\ Range(todo[t]) = {h} \cup Range(w)
      /\ IsInjective(w) /\ h \notin Range(w)
  BY <1>1, TailRange
<1>3. Len(todo[t]) = 1 <=> w = <<>>
  <2>1. Len(w) = Len(todo[t]) - 1 /\ Len(todo[t]) \in Nat \ {0}
    BY <1>1
  <2>2. w = <<>> <=> Len(w) = 0
    <3>1. w \in Seq(Threads)
      BY <1>2
    <3> HIDE DEF w
    <3> QED
      BY <3>1
  <2> QED
    BY <2>1, <2>2
<1>4. /\ todo' = [todo EXCEPT ![t] = w]
      /\ pc' = [pc EXCEPT ![t] = k]
      /\ IF Len(todo[t]) = 1 THEN /\ on' = [on EXCEPT ![t] = None]
                                  /\ with' = [with EXCEPT ![t] = None]
         ELSE UNCHANGED <<on, with>>
  BY DEF Advance, Back, Goto
<1>5. /\ h # t /\ on[h] = c /\ InHands(t, h) /\ pc[h] \in WaitPcs /\ h \in Range(todo[t])
  <2>1. h \in Range(todo[t]) /\ InHands(t, h)
    BY <1>0, <1>2 DEF TakenOK
  <2> QED
    BY <2>1 DEF InHands, Called, Asleep, TimedPcs, WaitPcs
<1>6. k \in {"run", "send", "continue"} /\ (w = <<>> <=> k = "run")
      /\ (w # <<>> => k = IF c \in Timed THEN "send" ELSE "continue")
  BY <1>3
<1> HIDE DEF w, k
<1>7. /\ \A x \in Threads \ {t} :
           /\ pc'[x] = pc[x] /\ on'[x] = on[x] /\ todo'[x] = todo[x]
           /\ with'[x] = with[x]
      /\ pc'[t] = k /\ todo'[t] = w
      /\ w # <<>> => on'[t] = c
  BY <1>0, <1>3, <1>4 DEF TypeOK
<1>8. /\ \A x \in Threads : x \notin {t, h} =>
           /\ Asleep(x)' <=> Asleep(x)
           /\ Called(x)' <=> Called(x)
           /\ Released(x)' <=> Released(x)
  BY <1>7 DEF Asleep, Called, Released
<1>9. \/ port'[h] = 1 /\ Called(h)'
      \/ port'[h] = 0 /\ Released(h)'
  BY <1>5, <1>7
<1>10. TypeOK'
  BY <1>0, <1>2, <1>4, <1>6 DEF TypeOK
<1>11. CallsOK'
  <2> SUFFICES ASSUME NEW x \in Threads
               PROVE /\ pc'[x] # "run" => on'[x] \in Conds
                     /\ pc'[x] \in WaitPcs \union {"relock"} => with'[x] \in Mutexes
                     /\ pc'[x] \in {"spin", "continue"} => on'[x] \notin Timed
                     /\ pc'[x] \in {"timed_out", "requeue"} => on'[x] \in Timed
                     /\ pc'[x] \notin WaitPcs => state'[x] = "RUNNING"
    BY DEF CallsOK
  <2>1. CASE x = t
    <3>1. state'[t] = "RUNNING"
      BY <1>0, <1>5 DEF CallsOK, WaitPcs
    <3> QED
      BY <1>1, <1>6, <1>7, <2>1, <3>1 DEF WaitPcs
  <2>2. CASE x # t
    <3>1. x = h => pc[x] \in WaitPcs
      BY <1>5
    <3> QED
      BY <1>0, <1>7, <2>2, <3>1 DEF CallsOK
  <2> QED
    BY <2>1, <2>2
<1>12. /\ \A d \in Conds : t \notin Range(queue[d])
       /\ \A u \in Threads : t \notin Range(todo[u])
       /\ port[t] = 0
  BY Nowhere DEF Asleep, Called, TimedPcs
<1>13. \A d \in Conds : h \notin Range(queue[d])
  BY <1>0, <1>5 DEF QueuedOK, InHands
<1>14. QueuedOK'
  <2>1. \A d \in Conds : \A x \in Range(queue[d]) : x \in Threads /\ x \notin {t, h}
    BY <1>0, <1>12, <1>13, RangesOK
  <2> QED
    BY <1>0, <1>7, <1>8, <2>1 DEF QueuedOK
<1>15. TakenOK'
  <2>1. ASSUME NEW u \in Threads PROVE HandsOK(u)'
    <3>1. CASE u = t
      BY <1>2, <1>6, <1>7, <3>1 DEF HandsOK
    <3>2. CASE u # t
      <4>1. pc[u] = "requeue" => u # h
        BY <1>5 DEF InHands, Asleep, Called, TimedPcs
      <4> QED
        BY <1>0, <1>7, <3>2, <4>1 DEF TakenOK, HandsOK
    <3> QED
      BY <3>1, <3>2
  <2>2. ASSUME NEW u \in Threads, NEW x \in Range(todo'[u]) PROVE InHands(u, x)'
    <3>1. x \in Range(todo[u]) /\ x \in Threads /\ InHands(u, x)
      BY <1>0, <1>2, <1>7, <2>2, RangesOK DEF TakenOK
    <3>2. x # t /\ x # h
      BY <1>2, <1>5, <1>7, <1>12, <2>2, <3>1 DEF InHands
    <3>3. \A v \in Threads : x \in Range(todo'[v]) => u = v
      BY <1>2, <1>7, <3>1 DEF InHands
    <3>4. CASE u = t
      <4>1. w # <<>>
        BY <1>7, <2>2, <3>4, EmptyRange
      <4>2. IF c \in Timed THEN pc[t] = "send" ELSE TRUE
        BY <1>0 DEF CallsOK
      <4>3. IF c \in Timed THEN Called(x) ELSE Asleep(x)
        BY <3>1, <3>2, <3>4, <4>2 DEF InHands
      <4>4. IF c \in Timed THEN pc'[t] = "send" /\ Called(x)'
            ELSE pc'[t] = "continue" /\ Asleep(x)'
        BY <1>6, <1>7, <1>8, <3>1, <3>2, <4>1, <4>3
      <4> QED
        BY <1>7, <3>1, <3>2, <3>3, <3>4, <4>1, <4>4 DEF InHands
    <3>5. CASE u # t
      BY <1>7, <1>8, <3>1, <3>2, <3>3, <3>5 DEF InHands
    <3> QED
      BY <3>4, <3>5
  <2> QED
    BY <2>1, <2>2 DEF TakenOK
<1>16. MailOK'
  <2>1. \A x \in Threads \ {h} : port'[x] = 1 => port[x] = 1 /\ x \notin {t, h}
    BY <1>12
  <2> QED
    BY <1>0, <1>8, <1>9, <2>1 DEF MailOK
<1>17. Attended'
  <2> SUFFICES ASSUME NEW x \in Threads, pc'[x] \in WaitPcs, x # h
               PROVE  \/ x \in Range(queue'[on'[x]])
                      \/ \E u \in Threads : x \in Range(todo'[u])
                      \/ port'[x] = 1
                      \/ Released(x)'
    BY <1>9 DEF Attended
  <2>1. x # t
    BY <1>6, <1>7 DEF WaitPcs
  <2>2. pc[x] \in WaitPcs /\ on'[x] = on[x]
    BY <1>7, <2>1
  <2>3. CASE \E u \in Threads : x \in Range(todo[u])
    <3>1. PICK u \in Threads : x \in Range(todo[u])
      BY <2>3
    <3>2. x \in Range(todo'[u])
      BY <1>2, <1>7, <3>1
    <3> QED
      BY <3>2
  <2> QED
    BY <1>0, <1>8, <2>1, <2>2, <2>3 DEF Attended
<1>18. HeldOK'
  <2>1. \A d \in Conds : held[d] # None => held[d] \in Threads
    BY <1>0 DEF TypeOK
  <2>2. \A d \in Conds : held[d] # None => held[d] # t
    BY <1>0 DEF HeldOK
  <2> QED
    BY <1>0, <1>6, <1>7, <2>1, <2>2 DEF HeldOK
<1> QED
  BY <1>10, <1>11, <1>14, <1>15, <1>16, <1>17, <1>18 DEF IInv

LEMMA SendStep ==
  ASSUME IInv, NEW t \in Threads, Send(t)
  PROVE  IInv'
<1>0. TypeOK /\ TakenOK
  BY DEF IInv
<1>h. PICK h \in Threads : h = Head(todo[t]) /\ h \in Range(todo[t])
  <2>1. todo[t] \in Seq(Threads) /\ todo[t] # <<>>
    BY <1>0 DEF Send, TypeOK, TakenOK, HandsOK
  <2> QED
    BY <2>1, TailRange
<1>l. PICK l : l = IF on[t] \in Timed THEN "send" ELSE "continue"
  OBVIOUS
<1>1. /\ pc[t] = "send" /\ port' = [port EXCEPT ![h] = 1] /\ Advance(t, l)
      /\ UNCHANGED <<mutex, queue, held, state>>
  BY <1>h, <1>l DEF Send
<1>2. h \in Threads /\ h \in Range(todo[t])
  BY <1>h
<1>3. Called(h)
  BY <1>0, <1>h, <1>1, <1>2 DEF TakenOK, InHands
<1>4. port'[h] = 1 /\ \A x \in Threads \ {h} : port'[x] = port[x]
  BY <1>0, <1>1, <1>2 DEF TypeOK
<1>5. /\ port' \in [Threads -> {0, 1}]
      /\ state' \in [Threads -> {"RUNNING", "SPINNING", "BLOCKED", "EATING"}]
  BY <1>0, <1>1, <1>2 DEF TypeOK
<1>6. pc'[h] = pc[h] /\ on'[h] = on[h] => Called(h)'
  BY <1>1, <1>3 DEF Called
<1> QED
  BY <1>h, <1>l, <1>1, <1>2, <1>4, <1>5, <1>6, AdvanceStep

LEMMA ContinueStep ==
  ASSUME IInv, NEW t \in Threads, cproc_continue(t)
  PROVE  IInv'
<1> DEFINE c == on[t]
<1>0. /\ TypeOK /\ CallsOK /\ QueuedOK /\ TakenOK /\ MailOK /\ Attended /\ HeldOK
  BY DEF IInv
<1>h. PICK h \in Threads : h = Head(todo[t]) /\ h \in Range(todo[t])
  <2>1. todo[t] \in Seq(Threads) /\ todo[t] # <<>>
    BY <1>0 DEF cproc_continue, TypeOK, TakenOK, HandsOK
  <2> QED
    BY <2>1, TailRange
<1>1. /\ pc[t] = "continue" /\ state' = [state EXCEPT ![h] = "RUNNING"]
      /\ IF state[h] = "BLOCKED"
         THEN pc' = [pc EXCEPT ![t] = "send"] /\ UNCHANGED <<todo, on, with>>
         ELSE Advance(t, "continue")
      /\ UNCHANGED <<mutex, queue, held, port>>
  BY <1>h DEF cproc_continue, Goto
<1>2. h \in Threads /\ h \in Range(todo[t])
  BY <1>h
<1>3. /\ Asleep(h) /\ InHands(t, h) /\ on[h] = c /\ port[h] = 0
      /\ c \notin Timed /\ c \in Conds /\ h # t
  <2>1. /\ Asleep(h) /\ InHands(t, h) /\ on[h] = c /\ port[h] = 0
        /\ c \notin Timed /\ c \in Conds
    BY <1>0, <1>1, <1>2 DEF TakenOK, InHands, CallsOK
  <2> QED
    BY <1>1, <2>1 DEF Asleep, TimedPcs
<1>4. /\ state'[h] = "RUNNING" /\ \A x \in Threads \ {h} : state'[x] = state[x]
      /\ state' \in [Threads -> {"RUNNING", "SPINNING", "BLOCKED", "EATING"}]
  BY <1>0, <1>1, <1>2 DEF TypeOK
<1>5. CASE state[h] # "BLOCKED"
  <2>1. pc'[h] = pc[h] /\ on'[h] = on[h] => Released(h)'
    BY <1>3, <1>4, <1>5 DEF Asleep, Released
  <2>2. Advance(t, "continue") /\ port' \in [Threads -> {0, 1}]
        /\ \A x \in Threads : port'[x] = port[x]
    BY <1>0, <1>1, <1>5 DEF TypeOK
  <2> QED
    BY <1>1, <1>2, <1>3, <1>4, <2>1, <2>2, <1>h, AdvanceStep
<1>6. CASE state[h] = "BLOCKED"
  <2>0. /\ pc' = [pc EXCEPT ![t] = "send"]
        /\ UNCHANGED <<mutex, queue, held, port, todo, on, with>>
    BY <1>1, <1>6
  <2>1. /\ \A x \in Threads \ {t} : pc'[x] = pc[x]
        /\ pc'[t] = "send" /\ pc[h] = "receive" /\ Called(h)'
        /\ \A x \in Threads : x \notin {t, h} =>
             /\ Asleep(x)' <=> Asleep(x)
             /\ Called(x)' <=> Called(x)
             /\ Released(x)' <=> Released(x)
    <3>1. pc[h] = "receive"
      BY <1>3, <1>6 DEF Asleep
    <3>2. pc'[t] = "send" /\ \A x \in Threads \ {t} : pc'[x] = pc[x]
      BY <1>0, <2>0 DEF TypeOK
    <3> QED
      BY <1>2, <1>3, <1>4, <2>0, <3>1, <3>2 DEF Asleep, Called, Released
  <2>2. TypeOK'
    BY <1>0, <1>4, <2>0 DEF TypeOK
  <2>3. CallsOK'
    BY <1>0, <1>1, <1>2, <1>3, <1>4, <2>0, <2>1 DEF CallsOK, WaitPcs
  <2>4. /\ \A d \in Conds : t \notin Range(queue[d])
        /\ \A u \in Threads : t \notin Range(todo[u])
        /\ port[t] = 0
    BY <1>1, Nowhere DEF Asleep, Called, TimedPcs
  <2>5. \A d \in Conds : h \notin Range(queue[d])
    BY <1>0, <1>3 DEF QueuedOK, InHands
  <2>6. QueuedOK'
    <3>1. \A d \in Conds : \A x \in Range(queue[d]) : x \in Threads /\ x \notin {t, h}
      BY <1>0, <2>4, <2>5, RangesOK
    <3> QED
      BY <1>0, <2>0, <2>1, <3>1 DEF QueuedOK
  <2>7. TakenOK'
    <3>1. ASSUME NEW u \in Threads PROVE HandsOK(u)'
      <4>1. pc[u] = "requeue" => u # h
        BY <2>1
      <4> QED
        BY <1>0, <1>1, <1>4, <2>0, <2>1, <4>1 DEF TakenOK, HandsOK
    <3>2. ASSUME NEW u \in Threads, NEW x \in Range(todo[u]) PROVE InHands(u, x)'
      <4>1. x \in Threads /\ InHands(u, x) /\ x # t
        BY <1>0, <2>4, RangesOK DEF TakenOK
      <4>2. CASE x = h
        <5>1. u = t
          BY <1>2, <1>3, <4>2 DEF InHands
        <5> QED
          BY <1>3, <2>0, <2>1, <4>1, <4>2, <5>1, <1>h DEF InHands
      <4>3. CASE x # h
        <5>1. CASE u = t
          BY <1>1, <1>3, <2>0, <2>1, <4>1, <4>3, <5>1, <1>h DEF InHands
        <5>2. CASE u # t
          BY <2>0, <2>1, <4>1, <4>3, <5>2 DEF InHands
        <5> QED
          BY <5>1, <5>2
      <4> QED
        BY <4>2, <4>3
    <3> QED
      BY <2>0, <3>1, <3>2 DEF TakenOK
  <2>8. MailOK'
    BY <1>0, <1>3, <2>0, <2>1, <2>4 DEF MailOK
  <2>9. Attended'
    <3> SUFFICES ASSUME NEW x \in Threads, pc'[x] \in WaitPcs, x # h
                 PROVE  \/ x \in Range(queue'[on'[x]])
                        \/ \E u \in Threads : x \in Range(todo'[u])
                        \/ port'[x] = 1
                        \/ Released(x)'
      BY <1>2, <2>0 DEF Attended
    <3>1. x # t
      BY <2>1 DEF WaitPcs
    <3> QED
      BY <1>0, <2>0, <2>1, <3>1 DEF Attended
  <2>10. HeldOK'
    <3>1. \A d \in Conds : held[d] # None => held[d] \in Threads
      BY <1>0 DEF TypeOK
    <3>2. \A d \in Conds : held[d] # None => held[d] # t
      BY <1>0, <1>1 DEF HeldOK
    <3> QED
      BY <1>0, <2>0, <2>1, <3>1, <3>2 DEF HeldOK
  <2> QED
    BY <2>2, <2>3, <2>6, <2>7, <2>8, <2>9, <2>10 DEF IInv
<1> QED
  BY <1>5, <1>6

-----------------------------------------------------------------------------
(* The invariant holds.                                                    *)

LEMMA InitOK == Init => IInv
<1> SUFFICES ASSUME Init PROVE IInv
  OBVIOUS
<1>1. <<>> \in Seq(Threads)
  OBVIOUS
<1>2. TypeOK
  BY <1>1 DEF Init, TypeOK
<1>3. CallsOK /\ MailOK /\ Attended /\ HeldOK
  BY DEF Init, CallsOK, MailOK, Attended, HeldOK, WaitPcs
<1>4. QueuedOK /\ TakenOK
  BY EmptyRange DEF Init, QueuedOK, TakenOK, HandsOK
<1> QED
  BY <1>2, <1>3, <1>4 DEF IInv

LEMMA StepOK == IInv /\ [Next]_vars => IInv'
<1> SUFFICES ASSUME IInv, [Next]_vars PROVE IInv'
  OBVIOUS
<1>1. CASE UNCHANGED vars
  BY <1>1 DEF vars, IInv, TypeOK, CallsOK, QueuedOK, TakenOK, HandsOK, InHands, MailOK,
              Attended, HeldOK, Asleep, Called, Released
<1>2. ASSUME NEW t \in Threads, Inside(t) PROVE IInv'
  BY <1>2, QuietSteps, ReceiveStep, TakeQueueStep, RequeueStep, SignalStep, SendStep,
     ContinueStep DEF Inside
<1>3. ASSUME NEW t \in Threads, Caller(t) PROVE IInv'
  <2>1. ASSUME NEW c \in Conds, NEW m \in Mutexes,
               condition_wait(t, c, m) \/ condition_wait_timeout(t, c, m)
        PROVE  IInv'
    BY <2>1, EnqueueStep DEF condition_wait, condition_wait_timeout
  <2> QED
    BY <1>3, <2>1, QuietSteps DEF Caller
<1> QED
  BY <1>1, <1>2, <1>3 DEF Next

LEMMA Invariant == Spec => []IInv
BY InitOK, StepOK, PTL DEF Spec

-----------------------------------------------------------------------------
(* What wakes a thread.                                                    *)

LEMMA PlacesFacts ==
  ASSUME NEW A, NEW q \in Seq(A), NEW x
  PROVE  /\ x \notin Range(q) => Places(q, x) = {}
         /\ IsInjective(q) /\ x \in Range(q) => \E i : Places(q, x) = {i}
BY DEF Places, Range, IsInjective

LEMMA WakersFacts ==
  ASSUME IInv, NEW t \in Threads
  PROVE  IF Waiting(t) THEN \E x : Wakers(t) = {x} ELSE Wakers(t) = {}
<1> DEFINE Q == UNION {{<<"queue", c, i>> : i \in Places(queue[c], t)} : c \in Conds}
           H == UNION {{<<"todo", u, i>> : i \in Places(todo[u], t)} : u \in Threads}
           M == {<<"port", t, i>> : i \in 1..port[t]}
           S == IF pc[t] \in {"unlock", "spin"} /\ state[t] = "RUNNING"
                THEN {<<"state", t, 1>>} ELSE {}
<1>0. /\ TypeOK /\ CallsOK /\ QueuedOK /\ TakenOK /\ MailOK /\ Attended /\ HeldOK
  BY DEF IInv
<1>1. Wakers(t) = ((Q \cup H) \cup M) \cup S
  BY DEF Wakers
<1>2. ASSUME NEW c \in Conds
      PROVE  /\ t \notin Range(queue[c]) => Places(queue[c], t) = {}
             /\ t \in Range(queue[c]) => \E i : Places(queue[c], t) = {i}
  <2>1. queue[c] \in Seq(Threads) /\ IsInjective(queue[c])
    BY <1>0 DEF TypeOK, QueuedOK
  <2> QED
    BY <2>1, PlacesFacts
<1>3. ASSUME NEW u \in Threads
      PROVE  /\ t \notin Range(todo[u]) => Places(todo[u], t) = {}
             /\ t \in Range(todo[u]) => \E i : Places(todo[u], t) = {i}
  <2>1. todo[u] \in Seq(Threads) /\ IsInjective(todo[u])
    BY <1>0 DEF TypeOK, TakenOK, HandsOK
  <2> QED
    BY <2>1, PlacesFacts
<1>4. (\A c \in Conds : t \notin Range(queue[c])) => Q = {}
  BY <1>2
<1>5. (\A u \in Threads : t \notin Range(todo[u])) => H = {}
  BY <1>3
<1>6. /\ port[t] = 0 => M = {}
      /\ port[t] = 1 => M = {<<"port", t, 1>>}
  BY <1>0 DEF TypeOK
<1>7. Asleep(t) \/ Called(t) => S = {}
  BY DEF Asleep, Called, TimedPcs
<1> HIDE DEF Q, H, M, S
<1>8. Waiting(t) <=> pc[t] \in WaitPcs
  BY <1>0, ConditionAssumption DEF Waiting, WaitPcs, CallsOK
<1>9. CASE pc[t] \notin WaitPcs
  <2>1. Q = {} /\ H = {} /\ M = {}
    BY <1>4, <1>5, <1>6, <1>9, Nowhere DEF Asleep, Called, TimedPcs, WaitPcs
  <2>2. S = {}
    BY <1>9 DEF S, WaitPcs
  <2> QED
    BY <1>1, <1>8, <1>9, <2>1, <2>2
<1>10. CASE pc[t] \in WaitPcs
  <2>1. CASE t \in Range(queue[on[t]])
    <3>1. on[t] \in Conds
      BY <1>0, <1>10 DEF CallsOK, WaitPcs
    <3>2. Asleep(t) /\ port[t] = 0 /\ \A c \in Conds \ {on[t]} : t \notin Range(queue[c])
      BY <1>0, <2>1, <3>1 DEF QueuedOK
    <3>3. \A u \in Threads : t \notin Range(todo[u])
      BY <1>0, <2>1 DEF TakenOK, InHands
    <3>4. PICK i : Places(queue[on[t]], t) = {i}
      BY <1>2, <2>1, <3>1
    <3>5. \A c \in Conds \ {on[t]} : Places(queue[c], t) = {}
      BY <1>2, <3>2
    <3>6. Q = {<<"queue", on[t], i>>}
      BY <3>1, <3>4, <3>5 DEF Q
    <3> QED
      BY <1>1, <1>5, <1>6, <1>7, <1>8, <1>10, <3>2, <3>3, <3>6
  <2>2. CASE \E u \in Threads : t \in Range(todo[u])
    <3>1. PICK u \in Threads : t \in Range(todo[u])
      BY <2>2
    <3>2. InHands(u, t)
      BY <1>0, <3>1 DEF TakenOK
    <3>3. port[t] = 0 /\ \A v \in Threads \ {u} : t \notin Range(todo[v])
      BY <3>2 DEF InHands
    <3>4. \A c \in Conds : t \notin Range(queue[c])
      BY <1>0, <3>2 DEF QueuedOK, InHands
    <3>5. S = {}
      BY <1>7, <3>2 DEF InHands, S
    <3>6. PICK i : Places(todo[u], t) = {i}
      BY <1>3, <3>1
    <3>7. \A v \in Threads \ {u} : Places(todo[v], t) = {}
      BY <1>3, <3>3
    <3>8. H = {<<"todo", u, i>>}
      BY <3>1, <3>6, <3>7 DEF H
    <3> QED
      BY <1>1, <1>4, <1>6, <1>8, <1>10, <3>3, <3>4, <3>5, <3>8
  <2>3. CASE port[t] = 1
    <3>1. Called(t)
      BY <1>0, <2>3 DEF MailOK
    <3>2. Q = {} /\ H = {}
      BY <1>0, <1>4, <1>5, <2>3 DEF QueuedOK, TakenOK, InHands
    <3> QED
      BY <1>1, <1>6, <1>7, <1>8, <1>10, <2>3, <3>1, <3>2
  <2>4. CASE Released(t)
    <3>1. Q = {} /\ H = {} /\ M = {}
      BY <1>4, <1>5, <1>6, <2>4, Nowhere DEF Released, Asleep, Called, TimedPcs
    <3>2. S = {<<"state", t, 1>>}
      BY <2>4 DEF Released, S
    <3> QED
      BY <1>1, <1>8, <1>10, <3>1, <3>2
  <2> QED
    BY <1>0, <1>10, <2>1, <2>2, <2>3, <2>4 DEF Attended
<1> QED
  BY <1>9, <1>10

-----------------------------------------------------------------------------
(* The theorems.                                                           *)

\* The library's state keeps its type, and a wait port, whose backlog is one,
\* never has a second message waiting to be sent to it.
THEOREM TypeCorrect == Spec => []TypeOK
<1>1. IInv => TypeOK
  BY DEF IInv
<1> QED
  BY <1>1, Invariant, PTL

\* condition_wait, condition_wait_timeout, condition_signal and
\* condition_broadcast neither lose nor duplicate a wake-up, whatever the numbers
\* of threads and of conditions and however waits, time-outs and signals
\* interleave: whoever waits has exactly one thing that will wake it, who does
\* not has none, and a wait that is over left its thread RUNNING.
THEOREM NoWakeupLost == Spec => []OneWakeup
<1>1. IInv => OneWakeup
  <2> SUFFICES ASSUME IInv, NEW t \in Threads
               PROVE  /\ Cardinality(Wakers(t)) = IF Waiting(t) THEN 1 ELSE 0
                      /\ pc[t] = "relock" => state[t] = "RUNNING"
    BY DEF OneWakeup
  <2>1. Cardinality(Wakers(t)) = IF Waiting(t) THEN 1 ELSE 0
    BY WakersFacts, FS_EmptySet, FS_Singleton
  <2>2. pc[t] = "relock" => state[t] = "RUNNING"
    BY DEF IInv, CallsOK, WaitPcs
  <2> QED
    BY <2>1, <2>2
<1> QED
  BY <1>1, Invariant, PTL
=============================================================================
