-------------------------- MODULE ThreadCallProofs --------------------------
(***************************************************************************)
(* The callout module, for any numbers of processors, entries and keys: it *)
(* manages its threads as CalloutSupply specifies, so that no pending      *)
(* callout is abandoned; its queues agree with the status of the entries;  *)
(* the timer covers the delayed queue; no callout runs early.              *)
(***************************************************************************)
EXTENDS ThreadCall, QueueTheorems, FiniteSetTheorems

-----------------------------------------------------------------------------
(* The queues.                                                             *)

\* The delayed queue is in the order of its deadlines.
Sorted ==
  \A i, j \in DOMAIN delayed :
    i < j => deadline[delayed[i]] <= deadline[delayed[j]]

\* Where _delayed_call_enqueue puts an entry that is due at d: behind entries
\* that are due no later, before entries that are due no earlier.
LEMMA InsertPlace ==
  ASSUME TypeOK, NEW c \in Calls, NEW d \in 0..MaxTime
  PROVE  \E at \in 1..(Len(delayed) + 1) :
           /\ delayed_insert(delayed, c, d) = InsertAt(delayed, at, c)
           /\ Sorted => \A i \in 1..Len(delayed) :
                          IF i < at THEN deadline[delayed[i]] <= d
                          ELSE d <= deadline[delayed[i]]
<1> DEFINE same == {i \in DOMAIN delayed : deadline[delayed[i]] = d}
           later == {i \in DOMAIN delayed : deadline[delayed[i]] > d}
           at == IF same # {} THEN Min(same) + 1
                 ELSE IF later # {} THEN Min(later) ELSE Len(delayed) + 1
<1>1. /\ DOMAIN delayed = 1..Len(delayed) /\ Len(delayed) \in Nat
      /\ \A i \in 1..Len(delayed) : deadline[delayed[i]] \in Nat
      /\ d \in Nat
  BY CallAssumption DEF TypeOK
<1>2. same \subseteq 1..Len(delayed) /\ later \subseteq 1..Len(delayed)
  BY <1>1
<1>3. delayed_insert(delayed, c, d) = InsertAt(delayed, at, c)
  BY DEF delayed_insert
<1>4. /\ \A i \in same : deadline[delayed[i]] = d
      /\ \A i \in later : deadline[delayed[i]] > d
      /\ \A i \in 1..Len(delayed) :
           i \notin same /\ i \notin later => deadline[delayed[i]] <= d
  BY <1>1
<1> HIDE DEF same, later
<1>5. same \subseteq Nat /\ later \subseteq Nat
  BY <1>1, <1>2
<1>6. same # {} => Min(same) \in same /\ Min(same) \in 1..Len(delayed)
  BY <1>2, <1>5, MinNat, Zenon
<1>7. later # {} => /\ Min(later) \in later /\ Min(later) \in 1..Len(delayed)
                    /\ \A i \in later : Min(later) <= i
  BY <1>2, <1>5, MinNat, Zenon
<1>8. at \in 1..(Len(delayed) + 1)
  BY <1>1, <1>6, <1>7
<1>9. ASSUME Sorted, NEW i \in 1..Len(delayed)
      PROVE  IF i < at THEN deadline[delayed[i]] <= d ELSE d <= deadline[delayed[i]]
  <2>1. ASSUME NEW j \in 1..Len(delayed), NEW l \in 1..Len(delayed), j <= l
        PROVE  deadline[delayed[j]] <= deadline[delayed[l]]
    BY <1>1, <1>9, <2>1 DEF Sorted
  <2>2. CASE same # {}
    <3>1. deadline[delayed[Min(same)]] = d /\ at = Min(same) + 1
      BY <1>4, <1>6, <2>2
    <3> HIDE DEF at
    <3>2. CASE i < at
      <4>1. i <= Min(same)
        BY <1>6, <2>2, <3>1, <3>2
      <4> QED
        BY <1>6, <2>1, <2>2, <3>1, <3>2, <4>1
    <3>3. CASE ~(i < at)
      <4>1. Min(same) <= i
        BY <1>6, <2>2, <3>1, <3>3
      <4> QED
        BY <1>6, <2>1, <2>2, <3>1, <3>3, <4>1
    <3> QED
      BY <3>2, <3>3
  <2>3. CASE same = {} /\ later # {}
    <3>1. deadline[delayed[Min(later)]] > d /\ at = Min(later)
      BY <1>4, <1>7, <2>3
    <3> HIDE DEF at
    <3>2. CASE i < at
      <4>1. i \notin later
        BY <1>5, <1>7, <2>3, <3>1, <3>2
      <4> QED
        BY <1>4, <2>3, <3>2, <4>1
    <3>3. CASE ~(i < at)
      <4>1. Min(later) <= i
        BY <1>7, <2>3, <3>1, <3>3
      <4>2. deadline[delayed[Min(later)]] <= deadline[delayed[i]]
        BY <1>7, <2>1, <2>3, <4>1
      <4>3. Min(later) \in 1..Len(delayed)
        BY <1>7, <2>3
      <4> QED
        BY <1>1, <3>1, <3>3, <4>2, <4>3
    <3> QED
      BY <3>2, <3>3
  <2>4. CASE same = {} /\ later = {}
    <3>1. i < at /\ deadline[delayed[i]] <= d
      BY <1>1, <1>4, <2>4
    <3> HIDE DEF at
    <3> QED
      BY <3>1
  <2> QED
    BY <2>2, <2>3, <2>4
<1> HIDE DEF at
<1> QED
  BY <1>3, <1>8, <1>9

LEMMA DueRunPlace ==
  ASSUME TypeOK
  PROVE  /\ DueRun(delayed) \in 0..Len(delayed)
         /\ \A i \in 1..DueRun(delayed) : deadline[delayed[i]] <= now
<1> DEFINE notDue == {i \in DOMAIN delayed : deadline[delayed[i]] > now}
<1>1. /\ DOMAIN delayed = 1..Len(delayed) /\ Len(delayed) \in Nat
      /\ \A i \in DOMAIN delayed : deadline[delayed[i]] \in 0..MaxTime
      /\ now \in 0..MaxTime
  BY DEF TypeOK
<1>2. notDue \subseteq 1..Len(delayed)
  BY <1>1
<1>3. DueRun(delayed) = IF notDue = {} THEN Len(delayed) ELSE Min(notDue) - 1
  BY DEF DueRun
<1>4. \A i \in DOMAIN delayed : i \notin notDue => deadline[delayed[i]] <= now
  BY <1>1, CallAssumption
<1> HIDE DEF notDue
<1>5. notDue \subseteq Nat
  BY <1>1, <1>2
<1>6. notDue # {} => /\ Min(notDue) \in 1..Len(delayed)
                     /\ \A m \in notDue : Min(notDue) <= m
  BY <1>2, <1>5, MinNat, Zenon
<1>7. CASE notDue = {}
  BY <1>1, <1>3, <1>4, <1>7
<1>8. CASE notDue # {}
  <2>1. DueRun(delayed) = Min(notDue) - 1
    BY <1>3, <1>8
  <2>2. \A i \in 1..(Min(notDue) - 1) : i \in DOMAIN delayed /\ i \notin notDue
    BY <1>1, <1>6, <1>8
  <2>3. Min(notDue) - 1 \in 0..Len(delayed)
    BY <1>1, <1>6, <1>8
  <2> QED
    BY <2>1, <2>2, <2>3, <1>4
<1> QED
  BY <1>7, <1>8

-----------------------------------------------------------------------------
(* Types.                                                                  *)

\* A processor that is going to wake the activator has been told to, and one
\* that goes back to the loop of _delayed_call_interrupt has an entry left.
Steady ==
  \A p \in Cpus :
    /\ pc[p] = "activate" => activate[p]
    /\ pc[p] = "transit" => transit[p] # <<>>

TypeInv == TypeOK /\ Steady

LEMMA TypeInit == Init => TypeInv
<1> SUFFICES ASSUME Init PROVE TypeInv
  OBVIOUS
<1>1. (CHOOSE k \in Keys : TRUE) \in Keys
  BY CallAssumption
<1>2. 0 \in 0..MaxTime
  BY CallAssumption
<1>3. /\ key \in [Calls -> Keys] /\ deadline \in [Calls -> 0..MaxTime]
      /\ expire_time \in 0..MaxTime /\ now \in 0..MaxTime
  BY <1>1, <1>2 DEF Init
<1>4. /\ status \in [Calls -> {"FREED", "IDLE", "PENDING", "DELAYED"}]
      /\ free \subseteq Internal
      /\ pc \in [Cpus -> {"free", "wake", "activate", "expire", "transit"}]
  BY DEF Init
<1>5. activate \in [Cpus -> BOOLEAN] /\ is_set \in BOOLEAN
  BY DEF Init
<1>6. /\ pending \in Seq(Calls) /\ delayed \in Seq(Calls)
      /\ transit \in [Cpus -> Seq(Calls)]
      /\ active_call_num \in Nat /\ call_thread_num \in Nat
      /\ ready \in Nat /\ idle \in Nat
      /\ activator \in {"run", "create", "wait"}
  BY DEF Init
<1>7. Steady
  BY DEF Init, Steady
<1> QED
  BY <1>3, <1>4, <1>5, <1>6, <1>7 DEF TypeInv, TypeOK

LEMMA MakePendingTypes ==
  ASSUME TypeInv, NEW p \in Cpus, NEW c \in Calls, MakePending(p, c)
  PROVE  /\ pending' \in Seq(Calls)
         /\ pc' \in [Cpus -> {"free", "wake", "activate", "expire", "transit"}]
         /\ activate' \in [Cpus -> BOOLEAN]
         /\ \A o \in Cpus : /\ pc'[o] \in {"activate", "transit"} => o # p /\ pc'[o] = pc[o]
                            /\ o # p => activate'[o] = activate[o]
BY DEF TypeInv, TypeOK, MakePending, pending_call_num

LEMMA DelayTypes ==
  ASSUME TypeOK, NEW c \in Calls, NEW k \in Keys, NEW d \in 0..MaxTime, delay(c, k, d)
  PROVE  /\ status' \in [Calls -> {"FREED", "IDLE", "PENDING", "DELAYED"}]
         /\ key' \in [Calls -> Keys]
         /\ deadline' \in [Calls -> 0..MaxTime]
         /\ delayed' \in Seq(Calls)
         /\ is_set' \in BOOLEAN /\ expire_time' \in 0..MaxTime
<1>1. PICK at \in 1..(Len(delayed) + 1) :
        delayed_insert(delayed, c, d) = InsertAt(delayed, at, c)
  BY InsertPlace
<1>2. delayed' \in Seq(Calls)
  BY <1>1, InsertAtFacts DEF delay, TypeOK
<1> QED
  BY <1>2 DEF TypeOK, delay, SetTimer

LEMMA ContinueTypes ==
  ASSUME TypeOK, NEW r \in Nat, NEW a \in Nat, Continue(r, a)
  PROVE  /\ status' \in [Calls -> {"FREED", "IDLE", "PENDING", "DELAYED"}]
         /\ free' \subseteq Internal
         /\ pending' \in Seq(Calls)
         /\ active_call_num' \in Nat /\ call_thread_num' \in Nat
         /\ ready' \in Nat /\ idle' \in Nat
<1>0. pending \in Seq(Calls) /\ pending_call_num \in Nat
  BY DEF TypeOK, pending_call_num
<1>1. CASE pending_call_num > 0
  <2>1. pending # <<>>
    BY <1>0, <1>1 DEF pending_call_num
  <2>2. Tail(pending) \in Seq(Calls) /\ Head(pending) \in Calls
    BY <1>0, <2>1
  <2>3. /\ pending' = Tail(pending)
        /\ status' = [status EXCEPT ![Head(pending)] = "IDLE"]
        /\ free' = free \cup ({Head(pending)} \cap Internal)
        /\ active_call_num' = a + 1 /\ ready' = r
        /\ idle' = idle /\ call_thread_num' = call_thread_num
    BY <1>0, <1>1 DEF Continue, Release
  <2>4. status' \in [Calls -> {"FREED", "IDLE", "PENDING", "DELAYED"}]
    BY <2>2, <2>3 DEF TypeOK
  <2> QED
    BY <2>2, <2>3, <2>4 DEF TypeOK
<1>2. CASE pending_call_num = 0 /\ call_thread_num - a <= CallThreadMin
  BY <1>0, <1>2, SupplyAssumption DEF TypeOK, Continue
<1>3. CASE pending_call_num = 0 /\ call_thread_num - a > CallThreadMin
  BY <1>0, <1>3, SupplyAssumption DEF TypeOK, Continue
<1> QED
  BY <1>0, <1>1, <1>2, <1>3 DEF Continue

\* The rest of a processor's state when nothing of it changes.
LEMMA SteadyKept ==
  ASSUME TypeInv, UNCHANGED <<pc, activate, transit>>
  PROVE  Steady'
BY DEF TypeInv, Steady

LEMMA TypeStep == TypeInv /\ [Next]_vars => TypeInv'
<1> SUFFICES ASSUME TypeInv, [Next]_vars PROVE TypeInv'
  OBVIOUS
<1>0. TypeOK /\ Steady
  BY DEF TypeInv
<1>1. CASE UNCHANGED vars
  BY <1>0, <1>1, SteadyKept DEF TypeInv, TypeOK, vars, entries, workers, timer
<1>2. ASSUME NEW p \in Cpus, WakeThread(p) PROVE TypeInv'
  <2>1. TypeOK'
    BY <1>0, <1>2 DEF TypeOK, WakeThread, AfterWake, entries, timer
  <2>2. Steady'
    BY <1>0, <1>2 DEF TypeOK, Steady, WakeThread, AfterWake, entries
  <2> QED
    BY <2>1, <2>2 DEF TypeInv
<1>3. ASSUME NEW p \in Cpus, WakeActivator(p) PROVE TypeInv'
  <2>1. TypeOK'
    BY <1>0, <1>3 DEF TypeOK, WakeActivator, AfterWake, entries, timer
  <2>2. Steady'
    BY <1>0, <1>3 DEF TypeOK, Steady, WakeActivator, AfterWake, entries
  <2> QED
    BY <2>1, <2>2 DEF TypeInv
<1>4. ASSUME NEW p \in Cpus, _delayed_call_interrupt(p) PROVE TypeInv'
  <2> DEFINE n == DueRun(delayed)
             due == SubSeq(delayed, 1, n)
             rest == SubSeq(delayed, n + 1, Len(delayed))
  <2>1. n \in 0..Len(delayed) /\ delayed \in Seq(Calls)
    BY <1>0, DueRunPlace DEF TypeOK
  <2>2. due \in Seq(Calls) /\ rest \in Seq(Calls) /\ Len(due) = n
    BY <2>1
  <2>3. /\ delayed' = rest /\ Rearm(rest)
        /\ UNCHANGED <<key, deadline, free, workers, now>>
    BY <1>4 DEF _delayed_call_interrupt
  <2>4. is_set' \in BOOLEAN /\ expire_time' \in 0..MaxTime
    <3>1. rest # <<>> => deadline[Head(rest)] \in 0..MaxTime
      <4> HIDE DEF rest
      <4>1. rest # <<>> => Head(rest) \in Calls
        BY <2>2
      <4> QED
        BY <1>0, <4>1 DEF TypeOK
    <3> HIDE DEF rest
    <3> QED
      BY <1>0, <2>3, <3>1 DEF TypeOK, Rearm, SetTimer
  <2>5. CASE n = 0
    <3>1. pc' = [pc EXCEPT ![p] = "free"] /\ UNCHANGED <<status, pending, transit, activate>>
      BY <1>4, <2>5 DEF _delayed_call_interrupt
    <3>2. TypeOK'
      BY <1>0, <2>2, <2>3, <2>4, <3>1 DEF TypeOK, workers
    <3>3. Steady'
      BY <1>0, <3>1 DEF TypeOK, Steady
    <3> QED
      BY <3>2, <3>3 DEF TypeInv
  <2>6. CASE n > 0
    <3>1. /\ status' = [c \in Calls |->
                            IF c = Head(due) THEN "PENDING"
                            ELSE IF c \in Range(due) THEN "IDLE" ELSE status[c]]
          /\ transit' = [transit EXCEPT ![p] = Tail(due)]
          /\ MakePending(p, Head(due))
      BY <1>4, <2>1, <2>6 DEF _delayed_call_interrupt
    <3>2. due # <<>> /\ Head(due) \in Calls /\ Tail(due) \in Seq(Calls)
      BY <2>1, <2>2, <2>6
    <3> HIDE DEF n, due, rest
    <3>3. /\ pending' \in Seq(Calls)
          /\ pc' \in [Cpus -> {"free", "wake", "activate", "expire", "transit"}]
          /\ activate' \in [Cpus -> BOOLEAN]
          /\ \A o \in Cpus : /\ pc'[o] \in {"activate", "transit"} => o # p /\ pc'[o] = pc[o]
                             /\ o # p => activate'[o] = activate[o]
      BY <3>1, <3>2, MakePendingTypes
    <3>4. status' \in [Calls -> {"FREED", "IDLE", "PENDING", "DELAYED"}]
      BY <1>0, <3>1 DEF TypeOK
    <3>5. transit' \in [Cpus -> Seq(Calls)]
      BY <1>0, <3>1, <3>2 DEF TypeOK
    <3>6. TypeOK'
      BY <1>0, <2>2, <2>3, <2>4, <3>3, <3>4, <3>5 DEF TypeOK, workers
    <3>7. Steady'
      BY <1>0, <3>1, <3>3 DEF TypeOK, Steady
    <3> QED
      BY <3>6, <3>7 DEF TypeInv
  <2> QED
    BY <2>1, <2>5, <2>6
<1>5. ASSUME NEW p \in Cpus, NextInTransit(p) PROVE TypeInv'
  <2> DEFINE c == Head(transit[p])
  <2>1. transit[p] \in Seq(Calls) /\ transit[p] # <<>>
    BY <1>0, <1>5 DEF TypeOK, Steady, NextInTransit
  <2>2. c \in Calls /\ Tail(transit[p]) \in Seq(Calls)
    BY <2>1
  <2>3. /\ transit' = [transit EXCEPT ![p] = Tail(transit[p])]
        /\ status' = [status EXCEPT ![c] = "PENDING"]
        /\ MakePending(p, c)
        /\ UNCHANGED <<key, deadline, free, delayed, workers, timer>>
    BY <1>5 DEF NextInTransit
  <2> HIDE DEF c
  <2>4. /\ pending' \in Seq(Calls)
        /\ pc' \in [Cpus -> {"free", "wake", "activate", "expire", "transit"}]
        /\ activate' \in [Cpus -> BOOLEAN]
        /\ \A o \in Cpus : /\ pc'[o] \in {"activate", "transit"} => o # p /\ pc'[o] = pc[o]
                           /\ o # p => activate'[o] = activate[o]
    BY <2>2, <2>3, MakePendingTypes
  <2>5. TypeOK'
    <3>1. status' \in [Calls -> {"FREED", "IDLE", "PENDING", "DELAYED"}]
      BY <1>0, <2>2, <2>3 DEF TypeOK
    <3>2. transit' \in [Cpus -> Seq(Calls)]
      BY <1>0, <2>2, <2>3 DEF TypeOK
    <3> QED
      BY <1>0, <2>3, <2>4, <3>1, <3>2 DEF TypeOK, workers, timer
  <2>6. Steady'
    BY <1>0, <2>3, <2>4 DEF TypeOK, Steady
  <2> QED
    BY <2>5, <2>6 DEF TypeInv
<1>6. ASSUME NEW p \in Cpus, NEW k \in Keys, NEW b \in BOOLEAN,
             thread_call_func(p, k, b)
      PROVE  TypeInv'
  <2>1. PICK c \in free :
          /\ free' = free \ {c}
          /\ status' = [status EXCEPT ![c] = "PENDING"]
          /\ key' = [key EXCEPT ![c] = k]
          /\ MakePending(p, c)
    BY <1>6 DEF thread_call_func
  <2>2. c \in Calls
    BY <1>0 DEF TypeOK, Calls
  <2>3. /\ pending' \in Seq(Calls)
        /\ pc' \in [Cpus -> {"free", "wake", "activate", "expire", "transit"}]
        /\ activate' \in [Cpus -> BOOLEAN]
        /\ \A o \in Cpus : /\ pc'[o] \in {"activate", "transit"} => o # p /\ pc'[o] = pc[o]
                           /\ o # p => activate'[o] = activate[o]
    BY <2>1, <2>2, MakePendingTypes
  <2>4. UNCHANGED <<deadline, delayed, transit, workers, timer>>
    BY <1>6 DEF thread_call_func
  <2>5. TypeOK'
    BY <1>0, <2>1, <2>3, <2>4 DEF TypeOK, workers, timer
  <2>6. Steady'
    BY <1>0, <2>3, <2>4 DEF TypeOK, Steady
  <2> QED
    BY <2>5, <2>6 DEF TypeInv
<1>7. ASSUME NEW p \in Cpus, NEW k \in Keys, NEW d \in 0..MaxTime,
             thread_call_func_delayed(p, k, d)
      PROVE  TypeInv'
  <2>1. PICK c \in free : free' = free \ {c} /\ delay(c, k, d)
    BY <1>7 DEF thread_call_func_delayed
  <2>2. c \in Calls
    BY <1>0 DEF TypeOK, Calls
  <2>3. UNCHANGED <<pending, transit, workers, pc, activate, now>>
    BY <1>7 DEF thread_call_func_delayed
  <2>4. TypeOK'
    BY <1>0, <2>1, <2>2, <2>3, DelayTypes DEF TypeOK, workers
  <2> QED
    BY <2>3, <2>4, SteadyKept DEF TypeInv
<1>8. ASSUME NEW p \in Cpus, NEW k \in Keys, NEW b \in BOOLEAN,
             thread_call_func_cancel(p, k, b)
      PROVE  TypeInv'
  <2>1. \E P, D : /\ pending' = Without(pending, P)
                  /\ delayed' = Without(delayed, D)
                  /\ status' = [c \in Calls |-> IF c \in P \cup D THEN "IDLE" ELSE status[c]]
                  /\ Release(P \cup D)
    BY <1>8 DEF thread_call_func_cancel
  <2>2. UNCHANGED <<key, deadline, transit, workers, pc, activate, timer>>
    BY <1>8 DEF thread_call_func_cancel
  <2>3. pending' \in Seq(Calls) /\ delayed' \in Seq(Calls)
    BY <1>0, <2>1, WithoutType DEF TypeOK
  <2>4. /\ status' \in [Calls -> {"FREED", "IDLE", "PENDING", "DELAYED"}]
        /\ free' \subseteq Internal
    BY <1>0, <2>1 DEF TypeOK, Release
  <2>5. TypeOK'
    BY <1>0, <2>2, <2>3, <2>4 DEF TypeOK, workers, timer
  <2> QED
    BY <2>2, <2>5, SteadyKept DEF TypeInv
<1>9. ASSUME NEW p \in Cpus, NEW c \in External, thread_call_allocate(p, c) PROVE TypeInv'
  <2>1. deadline' \in [Calls -> 0..MaxTime]
    <3>1. 0 \in 0..MaxTime
      BY CallAssumption
    <3> QED
      BY <1>0, <1>9, <3>1 DEF TypeOK, thread_call_allocate
  <2>2. TypeOK'
    BY <1>0, <1>9, <2>1 DEF TypeOK, thread_call_allocate, workers, timer
  <2> QED
    BY <1>9, <2>2, SteadyKept DEF TypeInv, thread_call_allocate
<1>10. ASSUME NEW p \in Cpus, NEW c \in External, thread_call_free(p, c) PROVE TypeInv'
  <2>1. TypeOK'
    BY <1>0, <1>10 DEF TypeOK, thread_call_free, workers, timer
  <2> QED
    BY <1>10, <2>1, SteadyKept DEF TypeInv, thread_call_free
<1>11. ASSUME NEW p \in Cpus, NEW c \in External, thread_call_cancel(p, c) PROVE TypeInv'
  <2>1. pending' \in Seq(Calls) /\ delayed' \in Seq(Calls)
    BY <1>0, <1>11, WithoutType DEF TypeOK, thread_call_cancel
  <2>2. TypeOK'
    BY <1>0, <1>11, <2>1 DEF TypeOK, thread_call_cancel, workers, timer
  <2> QED
    BY <1>11, <2>2, SteadyKept DEF TypeInv, thread_call_cancel
<1>12. ASSUME NEW p \in Cpus, NEW c \in External, NEW k \in Keys,
              thread_call_enter(p, c, k)
       PROVE  TypeInv'
  <2>1. c \in Calls /\ MakePending(p, c)
    BY <1>12 DEF Calls, thread_call_enter
  <2>2. /\ pending' \in Seq(Calls)
        /\ pc' \in [Cpus -> {"free", "wake", "activate", "expire", "transit"}]
        /\ activate' \in [Cpus -> BOOLEAN]
        /\ \A o \in Cpus : /\ pc'[o] \in {"activate", "transit"} => o # p /\ pc'[o] = pc[o]
                           /\ o # p => activate'[o] = activate[o]
    BY <2>1, MakePendingTypes
  <2>3. TypeOK'
    BY <1>0, <1>12, <2>2 DEF TypeOK, thread_call_enter, workers, timer
  <2>4. Steady'
    BY <1>0, <1>12, <2>2 DEF TypeOK, Steady, thread_call_enter
  <2> QED
    BY <2>3, <2>4 DEF TypeInv
<1>13. ASSUME NEW p \in Cpus, NEW c \in External, NEW k \in Keys, NEW d \in 0..MaxTime,
              thread_call_enter_delayed(p, c, k, d)
       PROVE  TypeInv'
  <2>1. c \in Calls /\ delay(c, k, d)
    BY <1>13 DEF Calls, thread_call_enter_delayed
  <2>2. UNCHANGED <<free, pending, transit, workers, pc, activate, now>>
    BY <1>13 DEF thread_call_enter_delayed
  <2>3. TypeOK'
    BY <1>0, <2>1, <2>2, DelayTypes DEF TypeOK, workers
  <2> QED
    BY <2>2, <2>3, SteadyKept DEF TypeInv
<1>14. ASSUME NEW p \in Cpus, CalloutReturns(p) \/ _call_thread_continue(p)
       PROVE  TypeInv'
  <2>1. \E r \in Nat, a \in Nat : Continue(r, a)
    BY <1>0, <1>14 DEF TypeOK, CalloutReturns, _call_thread_continue
  <2>2. UNCHANGED <<key, deadline, delayed, transit, activator, pc, activate, timer>>
    BY <1>14 DEF CalloutReturns, _call_thread_continue
  <2>3. TypeOK'
    BY <1>0, <2>1, <2>2, ContinueTypes DEF TypeOK, timer
  <2> QED
    BY <2>2, <2>3, SteadyKept DEF TypeInv
<1>15. ASSUME NEW p \in Cpus, _call_activate_thread(p) PROVE TypeInv'
  <2>1. TypeOK'
    BY <1>0, <1>15 DEF TypeOK, _call_activate_thread, entries, timer
  <2> QED
    BY <1>15, <2>1, SteadyKept DEF TypeInv, _call_activate_thread, entries
<1>16. ASSUME NEW p \in Cpus, system_timer_dispatch(p) PROVE TypeInv'
  <2>1. now' \in 0..MaxTime
    BY <1>0, <1>16, CallAssumption DEF TypeOK, system_timer_dispatch
  <2>2. TypeOK'
    BY <1>0, <1>16, <2>1 DEF TypeOK, system_timer_dispatch, entries, workers
  <2>3. Steady'
    BY <1>0, <1>16 DEF TypeOK, Steady, system_timer_dispatch, entries
  <2> QED
    BY <2>2, <2>3 DEF TypeInv
<1> QED
  BY <1>1, <1>2, <1>3, <1>4, <1>5, <1>6, <1>7, <1>8, <1>9, <1>10, <1>11, <1>12,
     <1>13, <1>14, <1>15, <1>16 DEF Next, Busy, Client

\* Every variable keeps its type, Steady included, through every operation.
THEOREM TypeCorrect == Spec => []TypeInv
<1> QED
  BY TypeInit, TypeStep, PTL DEF Spec

-----------------------------------------------------------------------------
(* ThreadCall implements CalloutSupply.                                    *)

Waking == {p \in Cpus : pc[p] = "wake"}
Activating == {p \in Cpus : pc[p] \in {"wake", "activate"} /\ activate[p]}

\* How many processors are in a set when one joins or leaves it.
LEMMA CpuCount ==
  ASSUME NEW S, S \subseteq Cpus, NEW p \in Cpus
  PROVE  /\ Cardinality(S) \in Nat
         /\ p \notin S => /\ Cardinality(S) < Cardinality(Cpus)
                          /\ Cardinality(S \cup {p}) = Cardinality(S) + 1
         /\ p \in S => /\ Cardinality(S) > 0
                       /\ Cardinality(S \ {p}) = Cardinality(S) - 1
<1>1. IsFiniteSet(Cpus) /\ IsFiniteSet(S)
  BY CallAssumption, FS_Subset
<1>2. Cardinality(S) \in Nat /\ Cardinality(Cpus) \in Nat
  BY <1>1, FS_CardinalityType
<1>3. CASE p \notin S
  <2>1. S \cup {p} \subseteq Cpus
    OBVIOUS
  <2>2. Cardinality(S \cup {p}) = Cardinality(S) + 1
    BY <1>1, <1>3, FS_AddElement
  <2>3. Cardinality(S \cup {p}) <= Cardinality(Cpus)
    BY <1>1, <2>1, FS_Subset
  <2> QED
    BY <1>2, <1>3, <2>2, <2>3
<1>4. CASE p \in S
  <2>1. Cardinality(S \ {p}) = Cardinality(S) - 1
    BY <1>1, <1>4, FS_RemoveElement
  <2>2. Cardinality(S) # 0
    BY <1>1, <1>4, FS_EmptySet
  <2> QED
    BY <1>2, <1>4, <2>1, <2>2
<1> QED
  BY <1>3, <1>4

LEMMA SupplyInitially == Init => Supply!Init
<1> SUFFICES ASSUME Init PROVE Supply!Init
  OBVIOUS
<1>1. Waking = {} /\ Activating = {}
  BY DEF Init, Waking, Activating
<1>2. Wakes = 0 /\ Activations = 0
  BY <1>1, FS_EmptySet DEF Wakes, Activations, Waking, Activating
<1> QED
  BY <1>2 DEF Init, Supply!Init, pending_call_num

\* A callout made pending is a Post.
LEMMA PostStep ==
  ASSUME TypeInv, NEW p \in Cpus, NEW c, MakePending(p, c), UNCHANGED workers,
         pc[p] \in {"free", "expire", "transit"}
  PROVE  Supply!Next
<1>1. /\ p \notin Waking /\ p \notin Activating
      /\ Waking \subseteq Cpus /\ Activating \subseteq Cpus
  BY DEF Waking, Activating
<1>2. Waking' = Waking \cup {p}
  BY DEF MakePending, Waking, TypeInv, TypeOK
<1> DEFINE short == call_thread_num < active_call_num + pending_call_num + 1
<1>3. Activating' = IF short THEN Activating \cup {p} ELSE Activating
  BY DEF MakePending, Activating, TypeInv, TypeOK
<1>4. pending_call_num' = pending_call_num + 1
  BY DEF MakePending, pending_call_num, TypeInv, TypeOK
<1>5. /\ Wakes' = Wakes + 1
      /\ Wakes < Cardinality(Cpus) /\ Activations < Cardinality(Cpus)
      /\ Activations' = IF short THEN Activations + 1 ELSE Activations
  BY <1>1, <1>2, <1>3, CpuCount DEF Wakes, Activations, Waking, Activating
<1>6. short <=> call_thread_num < active_call_num + (pending_call_num + 1)
  BY DEF TypeInv, TypeOK, pending_call_num
<1>7. Supply!Post
  BY <1>4, <1>5, <1>6 DEF Supply!Post, Supply!Short, workers
<1> QED
  BY <1>7 DEF Supply!Next

\* A step that leaves the threads and the pending queue alone, and moves no
\* processor into or out of a wake-up, does not show.
LEMMA QuietStep ==
  ASSUME UNCHANGED <<workers, pending>>, Waking' = Waking, Activating' = Activating
  PROVE  UNCHANGED Supply!counts
BY DEF Supply!counts, workers, pending_call_num, Wakes, Activations, Waking, Activating

LEMMA CpusIdleStep ==
  ASSUME UNCHANGED <<pc, activate>>
  PROVE  Waking' = Waking /\ Activating' = Activating
BY DEF Waking, Activating

\* Entries taken off the pending queue are withdrawn.
LEMMA WithdrawStep ==
  ASSUME TypeInv, UNCHANGED <<workers, pc, activate>>, NEW S,
         pending' = Without(pending, S)
  PROVE  [Supply!Next]_Supply!counts
<1>1. /\ pending_call_num \in Nat /\ pending_call_num' \in Nat
      /\ pending_call_num' <= pending_call_num
  BY WithoutLen, WithoutType DEF TypeInv, TypeOK, pending_call_num
<1>2. Wakes' = Wakes /\ Activations' = Activations
  BY DEF Wakes, Activations
<1>3. CASE pending_call_num' = pending_call_num
  BY <1>2, <1>3 DEF Supply!counts, workers
<1>4. CASE pending_call_num' # pending_call_num
  <2>1. ASSUME NEW m \in Nat, NEW n \in Nat, n <= m, n # m
        PROVE  m - n \in 1..m /\ n = m - (m - n)
    BY <2>1
  <2>2. \E n \in 1..pending_call_num : pending_call_num' = pending_call_num - n
    BY <1>1, <1>4, <2>1
  <2>3. Supply!Withdraw
    BY <1>2, <2>2 DEF Supply!Withdraw, workers
  <2> QED
    BY <2>3 DEF Supply!Next
<1> QED
  BY <1>3, <1>4

LEMMA SupplyStep == TypeInv /\ [Next]_vars => [Supply!Next]_Supply!counts
<1> SUFFICES ASSUME TypeInv, [Next]_vars PROVE [Supply!Next]_Supply!counts
  OBVIOUS
<1>0. TypeOK /\ Steady
  BY DEF TypeInv
<1>1. CASE UNCHANGED vars
  BY <1>1, QuietStep, CpusIdleStep DEF vars, entries
<1>2. ASSUME NEW p \in Cpus, WakeThread(p) PROVE Supply!Next
  <2>1. p \in Waking /\ Waking' = Waking \ {p} /\ Waking \subseteq Cpus
    BY <1>0, <1>2 DEF WakeThread, AfterWake, Waking, TypeOK
  <2>2. Activating' = Activating
    BY <1>0, <1>2 DEF WakeThread, AfterWake, Activating, TypeOK
  <2>3. Wakes > 0 /\ Wakes' = Wakes - 1
    BY <2>1, CpuCount DEF Wakes, Waking
  <2>4. Activations' = Activations
    BY <2>2 DEF Activations, Activating
  <2>5. Supply!Wake
    BY <1>2, <2>3, <2>4 DEF WakeThread, Supply!Wake, entries, pending_call_num
  <2> QED
    BY <2>5 DEF Supply!Next
<1>3. ASSUME NEW p \in Cpus, WakeActivator(p) PROVE Supply!Next
  <2>1. Waking' = Waking
    BY <1>0, <1>3 DEF WakeActivator, AfterWake, Waking, TypeOK
  <2>2. /\ p \in Activating /\ Activating' = Activating \ {p}
        /\ Activating \subseteq Cpus
    BY <1>0, <1>3 DEF WakeActivator, AfterWake, Activating, TypeOK, Steady
  <2>3. Activations > 0 /\ Activations' = Activations - 1
    BY <2>2, CpuCount DEF Activations, Activating
  <2>4. Wakes' = Wakes
    BY <2>1 DEF Wakes, Waking
  <2>5. Supply!Activate
    BY <1>3, <2>3, <2>4 DEF WakeActivator, Supply!Activate, entries, pending_call_num
  <2> QED
    BY <2>5 DEF Supply!Next
<1>4. ASSUME NEW p \in Cpus, _delayed_call_interrupt(p)
      PROVE  [Supply!Next]_Supply!counts
  <2>1. pc[p] = "expire" /\ UNCHANGED workers
    BY <1>4 DEF _delayed_call_interrupt
  <2>2. \/ pc' = [pc EXCEPT ![p] = "free"] /\ UNCHANGED <<pending, activate>>
        \/ \E c : MakePending(p, c)
    BY <1>4 DEF _delayed_call_interrupt
  <2>3. CASE pc' = [pc EXCEPT ![p] = "free"] /\ UNCHANGED <<pending, activate>>
    <3>1. Waking' = Waking /\ Activating' = Activating
      BY <1>0, <2>1, <2>3 DEF Waking, Activating, TypeOK
    <3> QED
      BY <2>1, <2>3, <3>1, QuietStep
  <2> QED
    BY <2>1, <2>2, <2>3, PostStep
<1>5. ASSUME NEW p \in Cpus, NextInTransit(p) PROVE Supply!Next
  BY <1>5, PostStep DEF NextInTransit
<1>6. ASSUME NEW p \in Cpus, NEW k \in Keys, NEW b \in BOOLEAN,
             thread_call_func(p, k, b)
      PROVE  Supply!Next
  BY <1>6, PostStep DEF thread_call_func
<1>7. ASSUME NEW p \in Cpus, NEW k \in Keys, NEW d \in 0..MaxTime,
             thread_call_func_delayed(p, k, d)
      PROVE  UNCHANGED Supply!counts
  BY <1>7, QuietStep, CpusIdleStep DEF thread_call_func_delayed
<1>8. ASSUME NEW p \in Cpus, NEW k \in Keys, NEW b \in BOOLEAN,
             thread_call_func_cancel(p, k, b)
      PROVE  [Supply!Next]_Supply!counts
  <2>1. \E P : pending' = Without(pending, P)
    BY <1>8 DEF thread_call_func_cancel
  <2> QED
    BY <1>8, <2>1, WithdrawStep DEF thread_call_func_cancel
<1>9. ASSUME NEW p \in Cpus, NEW c \in External,
             thread_call_allocate(p, c) \/ thread_call_free(p, c)
      PROVE  UNCHANGED Supply!counts
  BY <1>9, QuietStep, CpusIdleStep DEF thread_call_allocate, thread_call_free
<1>10. ASSUME NEW p \in Cpus, NEW c \in External, thread_call_cancel(p, c)
       PROVE  [Supply!Next]_Supply!counts
  BY <1>10, WithdrawStep, QuietStep, CpusIdleStep DEF thread_call_cancel
<1>11. ASSUME NEW p \in Cpus, NEW c \in External, NEW k \in Keys,
              thread_call_enter(p, c, k)
       PROVE  Supply!Next
  BY <1>11, PostStep DEF thread_call_enter
<1>12. ASSUME NEW p \in Cpus, NEW c \in External, NEW k \in Keys, NEW d \in 0..MaxTime,
              thread_call_enter_delayed(p, c, k, d)
       PROVE  UNCHANGED Supply!counts
  BY <1>12, QuietStep, CpusIdleStep DEF thread_call_enter_delayed
<1>13. ASSUME NEW p \in Cpus, CalloutReturns(p) \/ _call_thread_continue(p)
       PROVE  Supply!Next
  <2>1. Wakes' = Wakes /\ Activations' = Activations /\ UNCHANGED activator
    BY <1>13 DEF CalloutReturns, _call_thread_continue, Wakes, Activations
  <2>2. pending # <<>> => Len(Tail(pending)) = Len(pending) - 1
    BY <1>0 DEF TypeOK
  <2>3. pending_call_num > 0 => pending # <<>>
    BY <1>0 DEF TypeOK, pending_call_num
  <2>4. ASSUME NEW r, NEW a, Continue(r, a) PROVE Supply!Continue(r, a)
    BY <2>2, <2>3, <2>4 DEF Continue, Supply!Continue, pending_call_num
  <2>5. Supply!Work
    BY <1>13, <2>1, <2>4 DEF CalloutReturns, _call_thread_continue, Supply!Work
  <2> QED
    BY <2>5 DEF Supply!Next
<1>14. ASSUME NEW p \in Cpus, _call_activate_thread(p) PROVE Supply!Next
  <2>1. Wakes' = Wakes /\ Activations' = Activations /\ UNCHANGED pending_call_num
    BY <1>14 DEF _call_activate_thread, Wakes, Activations, entries, pending_call_num
  <2>2. Supply!Supply \/ Supply!Create
    BY <1>14, <2>1 DEF _call_activate_thread, Supply!Supply, Supply!Create, Supply!Short
  <2> QED
    BY <2>2 DEF Supply!Next
<1>15. ASSUME NEW p \in Cpus, system_timer_dispatch(p) PROVE UNCHANGED Supply!counts
  <2>1. Waking' = Waking /\ Activating' = Activating
    BY <1>0, <1>15 DEF system_timer_dispatch, Waking, Activating, TypeOK
  <2> QED
    BY <1>15, <2>1, QuietStep DEF system_timer_dispatch, entries
<1> QED
  BY <1>1, <1>2, <1>3, <1>4, <1>5, <1>6, <1>7, <1>8, <1>9, <1>10, <1>11, <1>12,
     <1>13, <1>14, <1>15 DEF Next, Busy, Client

\* On any number of processors, every stretch of thread_call.c between two
\* points where the lock is free is a step of CalloutSupply, or does not show.
THEOREM SuppliesThreads == Spec => ImplementsSupply
<1> QED
  BY SupplyInitially, SupplyStep, TypeCorrect, PTL DEF Spec, ImplementsSupply, Supply!Spec

-----------------------------------------------------------------------------
(* What CalloutSupply promises, ThreadCall keeps.                          *)

LEMMA SupplyInvInit == Supply!Init => Supply!SupplyInv
BY SupplyAssumption DEF Supply!Init, Supply!SupplyInv, Supply!CountsOK,
   Supply!ThreadsCounted, Supply!Supplied, Supply!WakesSuffice, Supply!IdleBounded,
   Supply!Short

\* A thread between callouts keeps the invariant, whether it comes from a
\* callout or from a wake-up.
LEMMA ContinueKeeps ==
  ASSUME Supply!SupplyInv, NEW r \in Nat, NEW a \in Nat,
         r + a + 1 = ready + active_call_num, r <= ready, a <= active_call_num,
         Supply!Continue(r, a), UNCHANGED <<activator, Wakes, Activations>>
  PROVE  Supply!SupplyInv'
<1> USE DEF Supply!SupplyInv, Supply!CountsOK, Supply!ThreadsCounted, Supply!Supplied,
            Supply!WakesSuffice, Supply!IdleBounded, Supply!Short
<1>1. CASE pending_call_num > 0
  BY <1>1 DEF Supply!Continue
<1>2. CASE pending_call_num = 0 /\ call_thread_num - a <= CallThreadMin
  BY <1>2, SupplyAssumption DEF Supply!Continue
<1>3. CASE pending_call_num = 0 /\ call_thread_num - a > CallThreadMin
  BY <1>3, SupplyAssumption DEF Supply!Continue
<1> QED
  BY <1>1, <1>2, <1>3, SupplyAssumption

LEMMA SupplyInvStep ==
  Supply!SupplyInv /\ [Supply!Next]_Supply!counts => Supply!SupplyInv'
<1> SUFFICES ASSUME Supply!SupplyInv, [Supply!Next]_Supply!counts PROVE Supply!SupplyInv'
  OBVIOUS
<1> USE DEF Supply!SupplyInv, Supply!CountsOK, Supply!ThreadsCounted, Supply!Supplied,
            Supply!WakesSuffice, Supply!IdleBounded, Supply!Short
<1>1. CASE Supply!Post
  BY <1>1 DEF Supply!Post
<1>2. CASE Supply!Withdraw
  BY <1>2 DEF Supply!Withdraw
<1>3. CASE Supply!Wake
  BY <1>3, SupplyAssumption DEF Supply!Wake
<1>4. CASE Supply!Activate
  BY <1>4 DEF Supply!Activate
<1>5. CASE Supply!Work
  BY <1>5, ContinueKeeps DEF Supply!Work
<1>6. CASE Supply!Supply
  BY <1>6 DEF Supply!Supply
<1>7. CASE Supply!Create
  BY <1>7 DEF Supply!Create
<1>8. CASE UNCHANGED Supply!counts
  BY <1>8 DEF Supply!counts
<1> QED
  BY <1>1, <1>2, <1>3, <1>4, <1>5, <1>6, <1>7, <1>8 DEF Supply!Next

\* Threads are counted, supplied and woken as they are needed, and no more than
\* call_thread_min of them are kept idle: _call_thread_wake, _call_thread_continue
\* and _call_activate_thread, on any number of processors.
THEOREM SupplyInvariant == Spec => []Supply!SupplyInv
<1> QED
  BY SupplyInvInit, SupplyInvStep, SuppliesThreads, PTL DEF ImplementsSupply, Supply!Spec

\* On any number of processors, a pending callout always has a thread coming,
\* between any two steps of _call_thread_wake, of the callout threads and of the
\* activate thread, even if no callout that has started returns.
THEOREM Attended == Spec => []CalloutAttended
<1>1. Supply!SupplyInv => CalloutAttended
  BY DEF Supply!SupplyInv, Supply!CountsOK, Supply!ThreadsCounted,
     Supply!Supplied, Supply!WakesSuffice, Supply!Short, CalloutAttended,
     Supply!CalloutAttended
<1> QED
  BY <1>1, SupplyInvariant, PTL

-----------------------------------------------------------------------------
(* The queues and the status of the entries.  An entry in transit is idle  *)
(* though it is going to be made pending: a client that owns it may enter  *)
(* it again from another processor.  Hence the hypothesis.                 *)

Guarded == ~Reenters \/ External = {} \/ Cpus = {Master}

Distinct == /\ IsInjective(pending) /\ IsInjective(delayed)
            /\ IsInjective(transit[Master])

Placed ==
  \A c \in Calls :
    /\ status[c] = "PENDING" <=> c \in Range(pending)
    /\ status[c] = "DELAYED" <=> c \in Range(delayed)
    /\ c \in Range(transit[Master]) => status[c] = "IDLE"

Pool ==
  free = Internal \ (Range(pending) \cup Range(delayed) \cup Range(transit[Master]))

\* The timer handler runs on the master, and only one at a time.
MasterOnly ==
  /\ \A p \in Cpus : p # Master => transit[p] = <<>> /\ pc[p] # "expire"
  /\ transit[Master] # <<>> => pc[Master] \in {"wake", "activate", "transit"}

CallInv == TypeInv /\ Distinct /\ Placed /\ Pool /\ MasterOnly

LEMMA CallImplies == CallInv => QueuesMatchStatus
<1> SUFFICES ASSUME CallInv PROVE QueuesMatchStatus
  OBVIOUS
<1>1. InTransit = Range(transit[Master])
  <2>1. \A p \in Cpus : p # Master => Range(transit[p]) = {}
    BY EmptyRange DEF CallInv, MasterOnly
  <2>2. Master \in Cpus
    BY CallAssumption
  <2> QED
    BY <2>1, <2>2 DEF InTransit
<1> QED
  BY <1>1 DEF CallInv, TypeInv, Distinct, Placed, Pool, QueuesMatchStatus, Scheduled

LEMMA CallInit == Init => CallInv
<1> SUFFICES ASSUME Init PROVE CallInv
  OBVIOUS
<1>1. pending = <<>> /\ delayed = <<>> /\ transit[Master] = <<>>
  BY CallAssumption DEF Init
<1>2. Distinct
  BY <1>1, EmptyRange DEF Distinct
<1>3. Placed /\ Pool
  BY <1>1, EmptyRange DEF Init, Placed, Pool
<1>4. MasterOnly
  BY CallAssumption DEF Init, MasterOnly
<1> QED
  BY <1>2, <1>3, <1>4, TypeInit DEF CallInv

\* An entry that is nowhere is made pending by processor p.
LEMMA PendingKeeps ==
  ASSUME CallInv, TypeInv', NEW p \in Cpus, NEW c \in Calls,
         MakePending(p, c), pc[p] = "free",
         c \notin Range(pending), c \notin Range(delayed),
         c \notin Range(transit[Master]),
         status' = [status EXCEPT ![c] = "PENDING"], free' = free \ {c},
         UNCHANGED <<delayed, transit>>
  PROVE  CallInv'
<1>0. /\ pending \in Seq(Calls) /\ pending' = Append(pending, c)
      /\ IsInjective(pending)
      /\ pc \in [Cpus -> {"free", "wake", "activate", "expire", "transit"}]
      /\ pc' = [pc EXCEPT ![p] = "wake"]
  BY DEF CallInv, TypeInv, TypeOK, Distinct, MakePending
<1>1. /\ Range(pending') = Range(pending) \cup {c}
      /\ IsInjective(pending')
  BY <1>0, AppendRange
<1>2. Distinct'
  BY <1>1 DEF CallInv, Distinct
<1>3. Placed'
  BY <1>1 DEF CallInv, TypeInv, TypeOK, Placed
<1>4. Pool'
  BY <1>1 DEF CallInv, Pool
<1>5. MasterOnly'
  BY <1>0, CallAssumption DEF CallInv, MasterOnly
<1> QED
  BY <1>2, <1>3, <1>4, <1>5 DEF CallInv

\* An entry that is nowhere is put on the delayed queue.
LEMMA DelayedKeeps ==
  ASSUME CallInv, TypeInv', NEW c \in Calls, NEW k \in Keys, NEW d \in 0..MaxTime,
         delay(c, k, d), free' = free \ {c},
         c \notin Range(pending), c \notin Range(delayed),
         c \notin Range(transit[Master]),
         UNCHANGED <<pending, transit, pc>>
  PROVE  CallInv'
<1>1. PICK at \in 1..(Len(delayed) + 1) :
        delayed_insert(delayed, c, d) = InsertAt(delayed, at, c)
  BY InsertPlace DEF CallInv, TypeInv
<1>2. /\ Range(delayed') = Range(delayed) \cup {c}
      /\ IsInjective(delayed')
  <2>1. delayed' = InsertAt(delayed, at, c)
    BY <1>1 DEF delay
  <2>2. delayed \in Seq(Calls) /\ IsInjective(delayed)
    BY DEF CallInv, TypeInv, TypeOK, Distinct
  <2>3. /\ Range(InsertAt(delayed, at, c)) = Range(delayed) \cup {c}
        /\ IsInjective(InsertAt(delayed, at, c))
    BY <2>2, InsertRange
  <2> QED
    BY <2>1, <2>3
<1>3. status' = [status EXCEPT ![c] = "DELAYED"]
  BY DEF delay
<1>4. Distinct'
  BY <1>2 DEF CallInv, Distinct
<1>5. Placed'
  BY <1>2, <1>3 DEF CallInv, TypeInv, TypeOK, Placed
<1>6. Pool'
  BY <1>2 DEF CallInv, Pool
<1>7. MasterOnly'
  BY DEF CallInv, MasterOnly
<1> QED
  BY <1>4, <1>5, <1>6, <1>7 DEF CallInv

\* Entries are taken off the pending and the delayed queue.
LEMMA CancelKeeps ==
  ASSUME CallInv, TypeInv', NEW S, NEW D,
         S \subseteq Range(pending), D \subseteq Range(delayed),
         pending' = Without(pending, S), delayed' = Without(delayed, D),
         status' = [c \in Calls |-> IF c \in S \cup D THEN "IDLE" ELSE status[c]],
         free' = free \cup ((S \cup D) \cap Internal),
         UNCHANGED <<transit, pc>>
  PROVE  CallInv'
<1>1. /\ Range(pending') = Range(pending) \ S /\ IsInjective(pending')
      /\ Range(delayed') = Range(delayed) \ D /\ IsInjective(delayed')
  BY WithoutRange, WithoutDistinct DEF CallInv, TypeInv, TypeOK, Distinct
<1>2. Range(pending) \subseteq Calls /\ Range(delayed) \subseteq Calls
  BY RangeSeq DEF CallInv, TypeInv, TypeOK
<1>3. Distinct'
  BY <1>1 DEF CallInv, Distinct
<1>4. Placed'
  BY <1>1, <1>2 DEF CallInv, TypeInv, TypeOK, Placed
<1>5. Pool'
  BY <1>1, <1>2 DEF CallInv, Pool, Placed
<1>6. MasterOnly'
  BY DEF CallInv, MasterOnly
<1> QED
  BY <1>3, <1>4, <1>5, <1>6 DEF CallInv

\* What thread_call_func_cancel finds is on the queue it looks at.
LEMMA RemovedFrom ==
  ASSUME NEW q \in Seq(Calls), NEW k, NEW b
  PROVE  Removed(q, k, b) \subseteq Range(q)
<1>1. DOMAIN q \subseteq Nat /\ Matching(q, k) \subseteq DOMAIN q
  BY DEF Matching
<1>2. Matching(q, k) # {} => Min(Matching(q, k)) \in Matching(q, k)
  BY <1>1, MinNat
<1> QED
  BY <1>1, <1>2 DEF Removed, Range

LEMMA CallStep ==
  ASSUME Guarded, CallInv, [Next]_vars
  PROVE  CallInv'
<1>0. /\ TypeInv /\ TypeInv' /\ TypeOK /\ Steady
      /\ Distinct /\ Placed /\ Pool /\ MasterOnly
      /\ Master \in Cpus
  BY TypeStep, CallAssumption DEF CallInv, TypeInv
\* An entry of the pool is nowhere; neither is an idle one that a client uses:
\* clients do not use entries in transit, or there is one processor and it is
\* not in the handler.
<1>1. ASSUME NEW c \in free
      PROVE  /\ c \in Calls /\ c \notin Range(pending) /\ c \notin Range(delayed)
             /\ c \notin Range(transit[Master])
  BY <1>0 DEF Pool, Calls
<1>2. ASSUME NEW p \in Cpus, pc[p] = "free", NEW c \in External
      PROVE  /\ c \in Calls /\ c \notin Internal
             /\ status[c] \in {"IDLE", "FREED"} =>
                  c \notin Range(pending) /\ c \notin Range(delayed)
             /\ status[c] # "IDLE" \/ Usable(c) => c \notin Range(transit[Master])
  <2>1. c \in Calls /\ c \notin Internal
    BY <1>2, CallAssumption DEF Calls
  <2>2. ASSUME Usable(c) PROVE c \notin Range(transit[Master])
    <3>1. CASE ~Reenters
      BY <1>0, <2>2, <3>1 DEF Usable, InTransit
    <3>2. CASE Reenters
      <4>1. p = Master
        BY <1>2, <3>2 DEF Guarded
      <4>2. transit[Master] = <<>>
        BY <1>0, <1>2, <4>1 DEF MasterOnly
      <4> QED
        BY <4>2, EmptyRange
    <3> QED
      BY <3>1, <3>2
  <2> QED
    BY <1>0, <2>1, <2>2 DEF Placed
<1>3. CASE UNCHANGED <<status, free, pending, delayed, transit, pc>>
  BY <1>0, <1>3 DEF CallInv, Distinct, Placed, Pool, MasterOnly
<1>4. ASSUME NEW p \in Cpus, UNCHANGED <<status, free, pending, delayed, transit>>,
             NEW x, pc' = [pc EXCEPT ![p] = x], x # "expire" \/ p = Master,
             p = Master /\ transit[p] # <<>> => x \in {"wake", "activate", "transit"}
      PROVE  CallInv'
  <2>1. Distinct' /\ Placed' /\ Pool'
    BY <1>0, <1>4 DEF Distinct, Placed, Pool
  <2>2. pc \in [Cpus -> {"free", "wake", "activate", "expire", "transit"}]
    BY <1>0 DEF TypeOK
  <2>3. MasterOnly'
    BY <1>0, <1>4, <2>2 DEF MasterOnly
  <2> QED
    BY <1>0, <2>1, <2>3 DEF CallInv
<1>5. ASSUME NEW p \in Cpus, WakeThread(p) PROVE CallInv'
  BY <1>4, <1>5 DEF WakeThread, AfterWake, entries
<1>6. ASSUME NEW p \in Cpus, WakeActivator(p) PROVE CallInv'
  BY <1>4, <1>6 DEF WakeActivator, AfterWake, entries
<1>7. ASSUME NEW p \in Cpus, _delayed_call_interrupt(p) PROVE CallInv'
  <2> DEFINE n == DueRun(delayed)
             due == SubSeq(delayed, 1, n)
             rest == SubSeq(delayed, n + 1, Len(delayed))
  <2>1. p = Master /\ transit[Master] = <<>> /\ pc[p] = "expire"
    BY <1>0, <1>7 DEF _delayed_call_interrupt, MasterOnly
  <2>2. n \in 0..Len(delayed) /\ delayed \in Seq(Calls)
    BY <1>0, DueRunPlace DEF TypeOK
  <2>3. /\ due \in Seq(Calls) /\ Len(due) = n
        /\ Range(delayed) = Range(due) \cup Range(rest)
        /\ Range(due) \cap Range(rest) = {}
        /\ IsInjective(due) /\ IsInjective(rest)
    BY <1>0, <2>2, SplitRange DEF Distinct
  <2>4. delayed' = rest /\ free' = free
    BY <1>7 DEF _delayed_call_interrupt
  <2>5. CASE n = 0
    <3>1. pc' = [pc EXCEPT ![p] = "free"] /\ UNCHANGED <<status, pending, transit>>
      BY <1>7, <2>5 DEF _delayed_call_interrupt
    <3>2. rest = delayed
      BY <2>2, <2>5
    <3> QED
      BY <1>4, <2>1, <2>4, <3>1, <3>2
  <2>6. CASE n > 0
    <3>1. /\ status' = [c \in Calls |->
                            IF c = Head(due) THEN "PENDING"
                            ELSE IF c \in Range(due) THEN "IDLE" ELSE status[c]]
          /\ transit' = [transit EXCEPT ![p] = Tail(due)]
          /\ pending' = Append(pending, Head(due))
          /\ pc' = [pc EXCEPT ![p] = "wake"]
      BY <1>7, <2>2, <2>6 DEF _delayed_call_interrupt, MakePending
    <3>2. due # <<>>
      BY <2>2, <2>3, <2>6
    <3> HIDE DEF n, due, rest
    <3> DEFINE h == Head(due)
    <3>3. /\ h \in Calls /\ Range(due) = {h} \cup Range(Tail(due))
          /\ IsInjective(Tail(due)) /\ h \notin Range(Tail(due))
      BY <2>3, <3>2, TailRange
    <3>4. Range(delayed) \subseteq Calls
      BY <2>2, RangeSeq
    <3>5. transit'[Master] = Tail(due)
      BY <1>0, <2>1, <3>1 DEF TypeOK
    <3>6. h \notin Range(pending)
      BY <1>0, <2>3, <3>3 DEF Placed
    <3>7. Range(pending') = Range(pending) \cup {h} /\ IsInjective(pending')
      BY <1>0, <3>1, <3>3, <3>6, AppendRange DEF TypeOK, Distinct
    <3> HIDE DEF h
    <3>8. Distinct'
      BY <2>3, <2>4, <3>3, <3>5, <3>7 DEF Distinct
    <3>9. Placed'
      <4>1. status' = [c \in Calls |->
                            IF c = h THEN "PENDING"
                            ELSE IF c \in Range(due) THEN "IDLE" ELSE status[c]]
        BY <3>1 DEF h
      <4>2. Range(delayed') = Range(delayed) \ Range(due)
        BY <2>3, <2>4
      <4>3. Range(transit'[Master]) = Range(due) \ {h}
        BY <3>3, <3>5
      <4>4. Range(due) \subseteq Range(delayed) /\ Range(transit[Master]) = {}
        BY <2>1, <2>3, EmptyRange
      <4> QED
        BY <1>0, <3>3, <3>7, <4>1, <4>2, <4>3, <4>4 DEF Placed
    <3>10. Pool'
      <4>1. Range(delayed') = Range(rest) /\ Range(transit[Master]) = {}
        BY <2>1, <2>4, EmptyRange
      <4> QED
        BY <1>0, <2>3, <2>4, <3>3, <3>5, <3>7, <4>1 DEF Pool
    <3>11. MasterOnly'
      BY <1>0, <2>1, <3>1 DEF MasterOnly, TypeOK
    <3> QED
      BY <1>0, <3>8, <3>9, <3>10, <3>11 DEF CallInv
  <2> QED
    BY <2>2, <2>5, <2>6
<1>8. ASSUME NEW p \in Cpus, NextInTransit(p) PROVE CallInv'
  <2> DEFINE c == Head(transit[p])
  <2>1. transit[p] \in Seq(Calls) /\ transit[p] # <<>> /\ p = Master
    BY <1>0, <1>8 DEF TypeOK, Steady, NextInTransit, MasterOnly
  <2>2. /\ c \in Calls /\ Range(transit[p]) = {c} \cup Range(Tail(transit[p]))
        /\ IsInjective(Tail(transit[p])) /\ c \notin Range(Tail(transit[p]))
    BY <1>0, <2>1, TailRange DEF Distinct
  <2>3. /\ transit' = [transit EXCEPT ![p] = Tail(transit[p])]
        /\ status' = [status EXCEPT ![c] = "PENDING"]
        /\ pending' = Append(pending, c)
        /\ pc' = [pc EXCEPT ![p] = "wake"]
        /\ UNCHANGED <<free, delayed>>
    BY <1>8 DEF NextInTransit, MakePending
  <2> HIDE DEF c
  <2>4. transit'[Master] = Tail(transit[p])
    BY <1>0, <2>1, <2>3 DEF TypeOK
  <2>5. status[c] = "IDLE" /\ c \notin Range(pending) /\ c \notin Range(delayed)
    BY <1>0, <2>1, <2>2 DEF Placed
  <2>6. Range(pending') = Range(pending) \cup {c} /\ IsInjective(pending')
    BY <1>0, <2>2, <2>3, <2>5, AppendRange DEF TypeOK, Distinct
  <2>7. Distinct'
    BY <1>0, <2>2, <2>3, <2>4, <2>6 DEF Distinct
  <2>8. Placed'
    BY <1>0, <2>1, <2>2, <2>3, <2>4, <2>5, <2>6 DEF Placed, TypeOK
  <2>9. Pool'
    BY <1>0, <2>1, <2>2, <2>3, <2>4, <2>6 DEF Pool
  <2>10. MasterOnly'
    BY <1>0, <2>1, <2>3 DEF MasterOnly, TypeOK
  <2> QED
    BY <1>0, <2>7, <2>8, <2>9, <2>10 DEF CallInv
<1>9. ASSUME NEW p \in Cpus, NEW k \in Keys, NEW b \in BOOLEAN,
             thread_call_func(p, k, b)
      PROVE  CallInv'
  BY <1>0, <1>1, <1>9, PendingKeeps DEF thread_call_func
<1>10. ASSUME NEW p \in Cpus, NEW k \in Keys, NEW d \in 0..MaxTime,
              thread_call_func_delayed(p, k, d)
       PROVE  CallInv'
  BY <1>0, <1>1, <1>10, DelayedKeeps DEF thread_call_func_delayed
<1>11. ASSUME NEW p \in Cpus, NEW k \in Keys, NEW b \in BOOLEAN,
              thread_call_func_cancel(p, k, b)
       PROVE  CallInv'
  <2> DEFINE S == Removed(pending, k, b)
             D == IF ~b /\ S # {} THEN {} ELSE Removed(delayed, k, b)
  <2>1. S \subseteq Range(pending) /\ D \subseteq Range(delayed)
    BY <1>0, RemovedFrom DEF TypeOK
  <2>2. /\ pending' = Without(pending, S) /\ delayed' = Without(delayed, D)
        /\ status' = [c \in Calls |-> IF c \in S \cup D THEN "IDLE" ELSE status[c]]
        /\ free' = free \cup ((S \cup D) \cap Internal)
        /\ UNCHANGED <<transit, pc>>
    BY <1>11 DEF thread_call_func_cancel, Release
  <2> HIDE DEF S, D
  <2> QED
    BY <1>0, <2>1, <2>2, CancelKeeps
<1>12. ASSUME NEW p \in Cpus, NEW c \in External,
              thread_call_allocate(p, c) \/ thread_call_free(p, c)
       PROVE  CallInv'
  <2>1. /\ pc[p] = "free" /\ status[c] \in {"IDLE", "FREED"}
        /\ status[c] # "IDLE" \/ Usable(c)
        /\ \E x \in {"IDLE", "FREED"} : status' = [status EXCEPT ![c] = x]
        /\ UNCHANGED <<free, pending, delayed, transit, pc>>
    BY <1>12 DEF thread_call_allocate, thread_call_free
  <2>2. /\ c \notin Range(pending) /\ c \notin Range(delayed)
        /\ c \notin Range(transit[Master])
    BY <1>2, <2>1
  <2>3. Placed'
    BY <1>0, <2>1, <2>2 DEF Placed, TypeOK
  <2>4. Distinct' /\ Pool' /\ MasterOnly'
    BY <1>0, <2>1 DEF Distinct, Pool, MasterOnly
  <2> QED
    BY <1>0, <2>3, <2>4 DEF CallInv
<1>13. ASSUME NEW p \in Cpus, NEW c \in External, thread_call_cancel(p, c)
       PROVE  CallInv'
  <2>1. /\ pc[p] = "free" /\ status[c] # "IDLE" /\ UNCHANGED <<free, transit, pc>>
        /\ status' = [status EXCEPT ![c] = "IDLE"]
    BY <1>13 DEF thread_call_cancel
  <2>2. c \in Calls /\ c \notin Internal /\ c \notin Range(transit[Master])
    BY <1>2, <2>1
  <2>3. \/ c \in Range(pending) /\ pending' = Without(pending, {c}) /\ delayed' = delayed
        \/ c \in Range(delayed) /\ delayed' = Without(delayed, {c}) /\ pending' = pending
    BY <1>0, <1>13, <2>2 DEF thread_call_cancel, Placed
  <2>4. /\ Range(pending') = Range(pending) \ {c} /\ IsInjective(pending')
        /\ Range(delayed') = Range(delayed) \ {c} /\ IsInjective(delayed')
    <3>1. /\ pending' = Without(pending, {c}) =>
               Range(pending') = Range(pending) \ {c} /\ IsInjective(pending')
          /\ delayed' = Without(delayed, {c}) =>
               Range(delayed') = Range(delayed) \ {c} /\ IsInjective(delayed')
      BY <1>0, WithoutRange, WithoutDistinct DEF TypeOK, Distinct
    <3>2. c \in Range(pending) => c \notin Range(delayed)
      BY <1>0, <2>2 DEF Placed
    <3> QED
      BY <1>0, <2>3, <3>1, <3>2 DEF Distinct
  <2>5. Distinct'
    BY <1>0, <2>1, <2>4 DEF Distinct
  <2>6. Placed'
    BY <1>0, <2>1, <2>2, <2>4 DEF Placed, TypeOK
  <2>7. Pool' /\ MasterOnly'
    BY <1>0, <2>1, <2>2, <2>4 DEF Pool, MasterOnly
  <2> QED
    BY <1>0, <2>5, <2>6, <2>7 DEF CallInv
<1>14. ASSUME NEW p \in Cpus, NEW c \in External, NEW k \in Keys,
              thread_call_enter(p, c, k)
       PROVE  CallInv'
  <2>1. /\ pc[p] = "free" /\ status[c] = "IDLE" /\ Usable(c) /\ MakePending(p, c)
        /\ status' = [status EXCEPT ![c] = "PENDING"]
        /\ UNCHANGED <<free, delayed, transit>>
    BY <1>14 DEF thread_call_enter
  <2>2. /\ c \in Calls /\ c \notin Internal /\ c \notin Range(pending)
        /\ c \notin Range(delayed) /\ c \notin Range(transit[Master])
    BY <1>2, <2>1
  <2>3. free' = free \ {c}
    BY <1>0, <2>1, <2>2 DEF TypeOK
  <2> QED
    BY <1>0, <2>1, <2>2, <2>3, PendingKeeps
<1>15. ASSUME NEW p \in Cpus, NEW c \in External, NEW k \in Keys, NEW d \in 0..MaxTime,
              thread_call_enter_delayed(p, c, k, d)
       PROVE  CallInv'
  <2>1. /\ pc[p] = "free" /\ status[c] = "IDLE" /\ Usable(c) /\ delay(c, k, d)
        /\ UNCHANGED <<free, pending, transit, pc>>
    BY <1>15 DEF thread_call_enter_delayed
  <2>2. /\ c \in Calls /\ c \notin Internal /\ c \notin Range(pending)
        /\ c \notin Range(delayed) /\ c \notin Range(transit[Master])
    BY <1>2, <2>1
  <2>3. free' = free \ {c}
    BY <1>0, <2>1, <2>2 DEF TypeOK
  <2> QED
    BY <1>0, <2>1, <2>2, <2>3, DelayedKeeps
<1>16. ASSUME NEW p \in Cpus, CalloutReturns(p) \/ _call_thread_continue(p)
       PROVE  CallInv'
  <2>1. UNCHANGED <<delayed, transit, pc>>
    BY <1>16 DEF CalloutReturns, _call_thread_continue
  <2>2. CASE UNCHANGED <<status, free, pending>>
    BY <1>3, <2>1, <2>2
  <2>3. CASE /\ pending_call_num > 0
             /\ pending' = Tail(pending)
             /\ status' = [status EXCEPT ![Head(pending)] = "IDLE"]
             /\ Release({Head(pending)})
    <3> DEFINE h == Head(pending)
    <3>1. pending \in Seq(Calls) /\ pending # <<>>
      BY <1>0, <2>3 DEF TypeOK, pending_call_num
    <3>2. /\ h \in Calls /\ Range(pending) = {h} \cup Range(pending')
          /\ IsInjective(pending') /\ h \notin Range(pending')
      BY <1>0, <2>3, <3>1, TailRange DEF Distinct
    <3>3. /\ status' = [status EXCEPT ![h] = "IDLE"]
          /\ free' = free \cup ({h} \cap Internal)
      BY <2>3 DEF Release
    <3> HIDE DEF h
    <3>4. h \notin Range(delayed) /\ h \notin Range(transit[Master])
      BY <1>0, <3>2 DEF Placed
    <3>5. Distinct' /\ MasterOnly'
      BY <1>0, <2>1, <3>2 DEF Distinct, MasterOnly
    <3>6. Placed'
      BY <1>0, <2>1, <3>2, <3>3, <3>4 DEF Placed, TypeOK
    <3>7. Pool'
      BY <1>0, <2>1, <3>2, <3>3, <3>4 DEF Pool
    <3> QED
      BY <1>0, <3>5, <3>6, <3>7 DEF CallInv
  <2> QED
    BY <1>16, <2>2, <2>3 DEF CalloutReturns, _call_thread_continue, Continue
<1>17. ASSUME NEW p \in Cpus, _call_activate_thread(p) PROVE CallInv'
  BY <1>3, <1>17 DEF _call_activate_thread, entries
<1>18. ASSUME NEW p \in Cpus, system_timer_dispatch(p) PROVE CallInv'
  <2>1. transit[Master] = <<>>
    BY <1>0, <1>18 DEF system_timer_dispatch, MasterOnly
  <2> QED
    BY <1>3, <1>4, <1>18, <2>1 DEF system_timer_dispatch, entries
<1>19. CASE UNCHANGED vars
  BY <1>3, <1>19 DEF vars, entries
<1> QED
  BY <1>5, <1>6, <1>7, <1>8, <1>9, <1>10, <1>11, <1>12, <1>13, <1>14, <1>15, <1>16,
     <1>17, <1>18, <1>19 DEF Next, Busy, Client

\* However entries are scheduled, cancelled, freed and handed to callout threads,
\* each is on the queue its status names, once, and the pool has the others:
\* for clients that use the pool alone or leave an entry of theirs alone while
\* it is in transit, and for one processor.
THEOREM QueuesKept == ASSUME Guarded PROVE Spec => []QueuesMatchStatus
<1>1. CallInv /\ [Next]_vars => CallInv'
  BY CallStep
<1> QED
  BY <1>1, CallInit, CallImplies, PTL DEF Spec

-----------------------------------------------------------------------------
(* The timer.                                                              *)

Armed == delayed # <<>> => \/ is_set /\ expire_time <= deadline[Head(delayed)]
                           \/ \E p \in Cpus : pc[p] = "expire"

LEMMA TimerParts == TimerCoversDelayed <=> Sorted /\ Armed
BY DEF TimerCoversDelayed, Sorted, Armed

\* Entry c is put on the delayed queue in its place.
LEMMA DelayedTimed ==
  ASSUME CallInv, TypeInv', Sorted, Armed,
         NEW c \in Calls, NEW k \in Keys, NEW d \in 0..MaxTime,
         delay(c, k, d), c \notin Range(delayed), UNCHANGED pc
  PROVE  TimerCoversDelayed'
<1>1. PICK at \in 1..(Len(delayed) + 1) :
        /\ delayed' = InsertAt(delayed, at, c)
        /\ \A i \in 1..Len(delayed) :
             IF i < at THEN deadline[delayed[i]] <= d ELSE d <= deadline[delayed[i]]
  BY InsertPlace DEF CallInv, TypeInv, delay
<1>2. /\ delayed \in Seq(Calls) /\ Len(delayed) \in Nat /\ DOMAIN delayed = 1..Len(delayed)
      /\ deadline \in [Calls -> 0..MaxTime] /\ d \in Nat
      /\ \A i \in 1..Len(delayed) : delayed[i] \in Calls /\ deadline[delayed[i]] \in Nat
  <2>1. TypeOK
    BY DEF CallInv, TypeInv
  <2> QED
    BY <2>1, CallAssumption DEF TypeOK
<1>3. /\ delayed' \in Seq(Calls) /\ Len(delayed') = Len(delayed) + 1
      /\ \A j \in 1..(Len(delayed) + 1) :
           delayed'[j] = IF j < at THEN delayed[j] ELSE IF j = at THEN c ELSE delayed[j - 1]
  <2> DEFINE w == InsertAt(delayed, at, c)
  <2>1. /\ w \in Seq(Calls) /\ Len(w) = Len(delayed) + 1
        /\ \A j \in 1..(Len(delayed) + 1) :
             w[j] = IF j < at THEN delayed[j] ELSE IF j = at THEN c ELSE delayed[j - 1]
    <3>1. delayed \in Seq(Calls) /\ at \in 1..(Len(delayed) + 1)
      BY <1>2
    <3> QED
      BY <3>1, InsertAtFacts
  <2>2. delayed' = w
    BY <1>1
  <2> HIDE DEF w
  <2> QED
    BY <2>1, <2>2
<1>4. /\ deadline'[c] = d
      /\ \A i \in 1..Len(delayed) : deadline'[delayed[i]] = deadline[delayed[i]]
  <2>1. \A i \in 1..Len(delayed) : delayed[i] # c
    BY <1>2 DEF Range
  <2> QED
    BY <1>2, <2>1 DEF delay
<1>5. ASSUME NEW i \in 1..Len(delayed), NEW j \in 1..Len(delayed), i < j
      PROVE  deadline[delayed[i]] <= deadline[delayed[j]]
  BY <1>2, <1>5 DEF Sorted
<1>6. ASSUME NEW i \in 1..(Len(delayed) + 1), NEW j \in 1..(Len(delayed) + 1), i < j
      PROVE  deadline'[delayed'[i]] <= deadline'[delayed'[j]]
  <2>1. CASE j < at
    <3>1. i \in 1..Len(delayed) /\ j \in 1..Len(delayed) /\ i < at
      BY <1>2, <1>6, <2>1
    <3> QED
      BY <1>3, <1>4, <1>5, <1>6, <2>1, <3>1
  <2>2. CASE j = at
    <3>1. i \in 1..Len(delayed) /\ i < at
      BY <1>2, <1>6, <2>2
    <3> QED
      BY <1>1, <1>3, <1>4, <2>2, <3>1
  <2>3. CASE j > at /\ i < at
    <3>1. i \in 1..Len(delayed) /\ j - 1 \in 1..Len(delayed) /\ i < j - 1
          /\ ~(j < at) /\ j # at
      BY <1>2, <1>6, <2>3
    <3> QED
      BY <1>3, <1>4, <1>5, <2>3, <3>1
  <2>4. CASE j > at /\ i = at
    <3>1. j - 1 \in 1..Len(delayed) /\ ~(j - 1 < at) /\ ~(j < at) /\ j # at
      BY <1>2, <1>6, <2>4
    <3> QED
      BY <1>1, <1>3, <1>4, <2>4, <3>1
  <2>5. CASE i > at
    <3>1. i - 1 \in 1..Len(delayed) /\ j - 1 \in 1..Len(delayed) /\ i - 1 < j - 1
          /\ ~(j < at) /\ j # at /\ ~(i < at) /\ i # at
      BY <1>2, <1>6, <2>5
    <3>2. delayed'[i] = delayed[i - 1] /\ delayed'[j] = delayed[j - 1]
      BY <1>3, <3>1
    <3>3. deadline[delayed[i - 1]] <= deadline[delayed[j - 1]]
      BY <1>5, <3>1
    <3> QED
      BY <1>4, <3>1, <3>2, <3>3
  <2> QED
    BY <1>2, <1>6, <2>1, <2>2, <2>3, <2>4, <2>5
<1>7. Sorted'
  <2>1. DOMAIN delayed' = 1..(Len(delayed) + 1)
    BY <1>2, <1>3
  <2> QED
    BY <1>6, <2>1 DEF Sorted
<1>8. Armed'
  <2>1. Head(delayed') = delayed'[1]
    BY <1>2, <1>3
  <2>2. CASE Head(delayed') = c
    BY <1>2, <1>4, <2>2 DEF Armed, delay, SetTimer
  <2>3. CASE Head(delayed') # c
    <3>1. UNCHANGED <<is_set, expire_time>>
      BY <2>3 DEF delay
    <3>2. at # 1
      BY <1>2, <1>3, <2>1, <2>3
    <3>3. delayed'[1] = delayed[1] /\ delayed # <<>> /\ 1 \in 1..Len(delayed)
      BY <1>2, <1>3, <3>2
    <3>4. Head(delayed') = Head(delayed) /\ Head(delayed) = delayed[1]
      BY <1>2, <2>1, <3>3
    <3> QED
      BY <1>4, <3>1, <3>3, <3>4 DEF Armed
  <2> QED
    BY <2>2, <2>3
<1> QED
  BY <1>7, <1>8 DEF TimerCoversDelayed, Sorted, Armed

\* Entries are taken off the delayed queue: those that stay are due no earlier
\* than the one that was first.
LEMMA CancelTimed ==
  ASSUME CallInv, Sorted, Armed, NEW D, delayed' = Without(delayed, D),
         UNCHANGED <<deadline, is_set, expire_time, pc>>
  PROVE  TimerCoversDelayed'
<1>1. /\ delayed \in Seq(Calls) /\ Len(delayed) \in Nat /\ DOMAIN delayed = 1..Len(delayed)
      /\ \A i \in 1..Len(delayed) : deadline[delayed[i]] \in Nat
      /\ is_set => expire_time \in Nat
  BY CallAssumption DEF CallInv, TypeInv, TypeOK
<1>2. /\ delayed' \in Seq(Calls)
      /\ \A i, j \in DOMAIN delayed' : i < j =>
           \E a, b \in DOMAIN delayed :
             a < b /\ delayed'[i] = delayed[a] /\ delayed'[j] = delayed[b]
  <2> DEFINE w == Without(delayed, D)
  <2>1. w \in Seq(Calls)
    BY <1>1, WithoutType
  <2>2. \A i, j \in DOMAIN w : i < j =>
          \E a, b \in DOMAIN delayed : a < b /\ w[i] = delayed[a] /\ w[j] = delayed[b]
    <3>1. delayed \in Seq(Calls)
      BY <1>1
    <3> QED
      BY <3>1, WithoutOrder
  <2>3. delayed' = w
    OBVIOUS
  <2> HIDE DEF w
  <2> QED
    BY <2>1, <2>2, <2>3
<1>3. Sorted'
  BY <1>2 DEF Sorted
<1>4. Armed'
  <2> SUFFICES ASSUME delayed' # <<>>, is_set, expire_time <= deadline[Head(delayed)],
                      delayed # <<>>
               PROVE  expire_time <= deadline[Head(delayed')]
    <3>1. delayed' # <<>> => delayed # <<>>
      BY <1>1, <1>2, WithoutLen
    <3> QED
      BY <3>1 DEF Armed
  <2>1. Head(delayed') \in Range(delayed')
    BY <1>2, TailRange
  <2>2. Head(delayed') \in Range(delayed)
    BY <1>1, <2>1, WithoutRange
  <2>3. PICK i \in 1..Len(delayed) : Head(delayed') = delayed[i]
    BY <1>1, <2>2 DEF Range
  <2>4. 1 \in 1..Len(delayed) /\ Head(delayed) = delayed[1]
    BY <1>1
  <2>5. deadline[delayed[1]] <= deadline[delayed[i]]
    BY <1>1, <2>4 DEF Sorted
  <2> QED
    BY <1>1, <2>3, <2>4, <2>5
<1> QED
  BY <1>3, <1>4 DEF TimerCoversDelayed, Sorted, Armed

\* The delayed queue and the timer are left alone, and no processor leaves the
\* timer handler; deadlines may change off the queue.
LEMMA UntouchedTimed ==
  ASSUME CallInv, Sorted, Armed, UNCHANGED <<delayed, is_set, expire_time>>,
         \A i \in DOMAIN delayed : deadline'[delayed[i]] = deadline[delayed[i]],
         \A p \in Cpus : pc[p] = "expire" => pc'[p] = "expire"
  PROVE  TimerCoversDelayed'
<1>1. delayed # <<>> => 1 \in DOMAIN delayed /\ Head(delayed) = delayed[1]
  BY DEF CallInv, TypeInv, TypeOK
<1>2. Sorted'
  BY DEF Sorted
<1>3. Armed'
  BY <1>1 DEF Armed
<1> QED
  BY <1>2, <1>3 DEF TimerCoversDelayed, Sorted, Armed

LEMMA TimerStep ==
  ASSUME Guarded, CallInv, TimerCoversDelayed, [Next]_vars
  PROVE  TimerCoversDelayed'
<1>0. /\ TypeOK /\ TypeInv' /\ Sorted /\ Armed /\ Placed /\ Pool /\ MasterOnly
  BY TypeStep, TimerParts DEF CallInv, TypeInv
<1>1. CASE /\ UNCHANGED <<delayed, deadline, is_set, expire_time>>
           /\ \/ UNCHANGED pc
              \/ \E p \in Cpus : \E x : pc[p] # "expire" /\ pc' = [pc EXCEPT ![p] = x]
  <2>1. \A p \in Cpus : pc[p] = "expire" => pc'[p] = "expire"
    BY <1>0, <1>1 DEF TypeOK
  <2> QED
    BY <1>0, <1>1, <2>1, UntouchedTimed
<1>2. ASSUME NEW p \in Cpus, _delayed_call_interrupt(p) PROVE TimerCoversDelayed'
  <2> DEFINE n == DueRun(delayed)
             rest == SubSeq(delayed, n + 1, Len(delayed))
  <2>1. n \in 0..Len(delayed) /\ delayed \in Seq(Calls)
    BY <1>0, DueRunPlace DEF TypeOK
  <2>2. delayed' = rest /\ Rearm(rest) /\ deadline' = deadline
    BY <1>2 DEF _delayed_call_interrupt
  <2>3. /\ DOMAIN rest = 1..(Len(delayed) - n) /\ rest \in Seq(Calls)
        /\ \A i \in 1..(Len(delayed) - n) : rest[i] = delayed[n + i] /\ n + i \in DOMAIN delayed
    BY <2>1
  <2> HIDE DEF n, rest
  <2>4. Sorted'
    <3>1. ASSUME NEW i \in DOMAIN rest, NEW j \in DOMAIN rest, i < j
          PROVE  deadline[rest[i]] <= deadline[rest[j]]
      <4>1. n + i < n + j /\ n + i \in DOMAIN delayed /\ n + j \in DOMAIN delayed
        BY <2>1, <2>3, <3>1
      <4> QED
        BY <1>0, <2>3, <4>1 DEF Sorted
    <3> QED
      BY <2>2, <3>1 DEF Sorted
  <2>5. Armed'
    <3>1. rest # <<>> => deadline[Head(rest)] \in Nat
      <4>1. rest \in Seq(Calls)
        BY <2>3
      <4>2. rest # <<>> => Head(rest) \in Calls
        BY <4>1
      <4> QED
        BY <1>0, <4>2, CallAssumption DEF TypeOK
    <3> QED
      BY <2>2, <3>1 DEF Armed, Rearm, SetTimer
  <2> QED
    BY <2>4, <2>5 DEF TimerCoversDelayed, Sorted, Armed
<1>3. ASSUME NEW p \in Cpus, NEW k \in Keys, NEW d \in 0..MaxTime,
             thread_call_func_delayed(p, k, d)
      PROVE  TimerCoversDelayed'
  <2>1. PICK c \in free : delay(c, k, d)
    BY <1>3 DEF thread_call_func_delayed
  <2>2. c \in Calls /\ c \notin Range(delayed)
    BY <1>0 DEF Pool, Calls
  <2> QED
    BY <1>0, <1>3, <2>1, <2>2, DelayedTimed DEF thread_call_func_delayed
<1>4. ASSUME NEW p \in Cpus, NEW c \in External, NEW k \in Keys, NEW d \in 0..MaxTime,
             thread_call_enter_delayed(p, c, k, d)
      PROVE  TimerCoversDelayed'
  <2>1. c \in Calls /\ c \notin Range(delayed)
    BY <1>0, <1>4 DEF Placed, Calls, thread_call_enter_delayed
  <2> QED
    BY <1>0, <1>4, <2>1, DelayedTimed DEF thread_call_enter_delayed
<1>5. ASSUME NEW p \in Cpus, NEW k \in Keys, NEW b \in BOOLEAN,
             thread_call_func_cancel(p, k, b)
      PROVE  TimerCoversDelayed'
  <2>1. \E D : delayed' = Without(delayed, D)
    BY <1>5 DEF thread_call_func_cancel
  <2> QED
    BY <1>0, <1>5, <2>1, CancelTimed DEF thread_call_func_cancel, timer
<1>6. ASSUME NEW p \in Cpus, NEW c \in External, thread_call_cancel(p, c)
      PROVE  TimerCoversDelayed'
  <2>1. UNCHANGED <<deadline, is_set, expire_time, pc>>
    BY <1>6 DEF thread_call_cancel, timer
  <2>2. delayed' = delayed \/ delayed' = Without(delayed, {c})
    BY <1>6 DEF thread_call_cancel
  <2> QED
    BY <1>0, <1>1, <2>1, <2>2, CancelTimed
<1>7. ASSUME NEW p \in Cpus, NEW c \in External, thread_call_allocate(p, c)
      PROVE  TimerCoversDelayed'
  <2>1. /\ status[c] = "FREED" /\ deadline' = [deadline EXCEPT ![c] = 0]
        /\ UNCHANGED <<delayed, is_set, expire_time, pc>>
    BY <1>7 DEF thread_call_allocate, timer
  <2>2. c \notin Range(delayed)
    BY <1>0, <2>1 DEF Placed, Calls
  <2>3. \A i \in DOMAIN delayed : deadline'[delayed[i]] = deadline[delayed[i]]
    BY <1>0, <2>1, <2>2 DEF Range, TypeOK
  <2> QED
    BY <1>0, <2>1, <2>3, UntouchedTimed
<1>8. ASSUME NEW p \in Cpus, system_timer_dispatch(p) PROVE TimerCoversDelayed'
  <2>1. UNCHANGED <<delayed, deadline, expire_time>> /\ p = Master /\ pc[p] = "free"
    BY <1>8 DEF system_timer_dispatch, entries
  <2>2. CASE is_set' = FALSE /\ pc' = [pc EXCEPT ![p] = "expire"]
    <3>1. \E o \in Cpus : pc'[o] = "expire"
      BY <1>0, <2>2 DEF TypeOK
    <3> QED
      BY <1>0, <2>1, <3>1 DEF TimerCoversDelayed, Sorted
  <2>3. CASE UNCHANGED <<is_set, pc>>
    BY <1>1, <2>1, <2>3
  <2> QED
    BY <1>8, <2>2, <2>3 DEF system_timer_dispatch
<1>9. ASSUME NEW p \in Cpus, WakeThread(p) \/ WakeActivator(p) \/ NextInTransit(p)
      PROVE  TimerCoversDelayed'
  BY <1>1, <1>9 DEF WakeThread, WakeActivator, NextInTransit, MakePending, entries, timer
<1>10. ASSUME NEW p \in Cpus, NEW k \in Keys, NEW b \in BOOLEAN,
              thread_call_func(p, k, b)
       PROVE  TimerCoversDelayed'
  BY <1>1, <1>10 DEF thread_call_func, MakePending, timer
<1>11. ASSUME NEW p \in Cpus, NEW c \in External, NEW k \in Keys,
              thread_call_enter(p, c, k)
       PROVE  TimerCoversDelayed'
  BY <1>1, <1>11 DEF thread_call_enter, MakePending, timer
<1>12. ASSUME NEW p \in Cpus, NEW c \in External, thread_call_free(p, c)
       PROVE  TimerCoversDelayed'
  BY <1>1, <1>12 DEF thread_call_free, timer
<1>13. ASSUME NEW p \in Cpus,
              \/ CalloutReturns(p) \/ _call_thread_continue(p)
              \/ _call_activate_thread(p)
       PROVE  TimerCoversDelayed'
  BY <1>1, <1>13 DEF CalloutReturns, _call_thread_continue, _call_activate_thread,
     entries, timer
<1>14. CASE UNCHANGED vars
  BY <1>1, <1>14 DEF vars, entries, timer
<1> QED
  BY <1>2, <1>3, <1>4, <1>5, <1>6, <1>7, <1>8, <1>9, <1>10, <1>11, <1>12, <1>13,
     <1>14 DEF Next, Busy, Client

LEMMA TimerInit == Init => TimerCoversDelayed
BY DEF Init, TimerCoversDelayed

\* The delayed queue stays in the order of the deadlines, and the timer goes off
\* no later than its first entry is due, whatever is entered and cancelled.
THEOREM TimerKept == ASSUME Guarded PROVE Spec => []TimerCoversDelayed
<1>1. CallInv /\ [Next]_vars => CallInv'
  BY CallStep
<1>2. CallInv /\ TimerCoversDelayed /\ [Next]_vars => TimerCoversDelayed'
  BY TimerStep
<1> QED
  BY <1>1, <1>2, CallInit, TimerInit, PTL DEF Spec

-----------------------------------------------------------------------------
(* No callout before its time.                                             *)

Early(c) == /\ status[c] = "DELAYED"
            /\ status'[c] = "PENDING" \/ c \in InTransit'

LEMMA DueStep ==
  ASSUME Guarded, CallInv, [Next]_vars, NEW c \in Calls, Early(c)
  PROVE  deadline[c] <= now
<1>0. /\ TypeOK /\ Steady /\ Distinct /\ Placed /\ Pool /\ MasterOnly /\ MasterOnly'
      /\ Master \in Cpus
  BY CallStep, CallAssumption DEF CallInv, TypeInv
<1>1. /\ c \in Range(delayed) /\ c \notin Range(pending)
      /\ c \notin Range(transit[Master]) /\ c \notin free
  BY <1>0 DEF Early, Placed, Pool
<1>2. InTransit' = Range(transit'[Master])
  <2>1. \A p \in Cpus : p # Master => Range(transit'[p]) = {}
    BY <1>0, EmptyRange DEF MasterOnly
  <2> QED
    BY <1>0, <2>1 DEF InTransit
<1>3. status'[c] = "PENDING" \/ c \in Range(transit'[Master])
  BY <1>2 DEF Early
\* Only _delayed_call_interrupt can have done it.
<1>4. CASE status'[c] \in {status[c], "IDLE", "DELAYED", "FREED"} /\ transit' = transit
  BY <1>1, <1>3, <1>4 DEF Early
<1>5. ASSUME NEW p \in Cpus, _delayed_call_interrupt(p) PROVE deadline[c] <= now
  <2> DEFINE n == DueRun(delayed)
             due == SubSeq(delayed, 1, n)
  <2>1. /\ n \in 0..Len(delayed) /\ delayed \in Seq(Calls)
        /\ \A i \in 1..n : deadline[delayed[i]] <= now
    BY <1>0, DueRunPlace DEF TypeOK
  <2>2. /\ due \in Seq(Calls) /\ Len(due) = n /\ DOMAIN due = 1..n
        /\ \A i \in 1..n : due[i] = delayed[i]
    BY <2>1
  <2>3. CASE n = 0
    BY <1>4, <1>5, <2>3 DEF _delayed_call_interrupt
  <2>4. CASE n > 0
    <3>1. /\ status' = [x \in Calls |->
                            IF x = Head(due) THEN "PENDING"
                            ELSE IF x \in Range(due) THEN "IDLE" ELSE status[x]]
          /\ transit' = [transit EXCEPT ![p] = Tail(due)]
      BY <1>5, <2>1, <2>4 DEF _delayed_call_interrupt
    <3> HIDE DEF n, due
    <3>2. due # <<>>
      BY <2>1, <2>2, <2>4
    <3>3. Range(due) = {Head(due)} \cup Range(Tail(due))
      BY <2>2, <3>2, TailRange
    <3>4. c \in Range(due)
      <4>1. p = Master
        BY <1>0, <1>5 DEF MasterOnly, _delayed_call_interrupt
      <4>2. transit'[Master] = Tail(due)
        BY <1>0, <3>1, <4>1 DEF TypeOK
      <4> QED
        BY <1>3, <3>1, <3>3, <4>2 DEF Early
    <3>5. PICK i \in 1..n : c = delayed[i]
      BY <2>2, <3>4 DEF Range
    <3> QED
      BY <2>1, <3>5
  <2> QED
    BY <2>1, <2>3, <2>4
<1>6. ASSUME NEW p \in Cpus, NextInTransit(p) PROVE FALSE
  <2>1. transit[p] \in Seq(Calls) /\ transit[p] # <<>> /\ p = Master
    BY <1>0, <1>6 DEF TypeOK, Steady, NextInTransit, MasterOnly
  <2>2. Range(transit[p]) = {Head(transit[p])} \cup Range(Tail(transit[p]))
    BY <2>1, TailRange
  <2>3. /\ transit' = [transit EXCEPT ![p] = Tail(transit[p])]
        /\ status' = [status EXCEPT ![Head(transit[p])] = "PENDING"]
    BY <1>6 DEF NextInTransit
  <2>4. Range(transit'[Master]) \subseteq Range(transit[Master])
    BY <1>0, <2>1, <2>2, <2>3 DEF TypeOK
  <2>5. c # Head(transit[p])
    BY <1>1, <2>1, <2>2
  <2> QED
    BY <1>0, <1>1, <1>3, <2>3, <2>4, <2>5 DEF TypeOK, Early
<1>7. ASSUME NEW p \in Cpus, NEW k \in Keys, NEW b \in BOOLEAN,
             thread_call_func(p, k, b) \/ thread_call_func_cancel(p, k, b)
      PROVE  deadline[c] <= now
  <2>1. transit' = transit
    BY <1>7 DEF thread_call_func, thread_call_func_cancel
  <2>2. CASE thread_call_func(p, k, b)
    BY <1>0, <1>1, <1>4, <2>1, <2>2 DEF thread_call_func, TypeOK
  <2>3. CASE thread_call_func_cancel(p, k, b)
    <3>1. \E S : status' = [x \in Calls |-> IF x \in S THEN "IDLE" ELSE status[x]]
      BY <2>3 DEF thread_call_func_cancel
    <3> QED
      BY <1>4, <2>1, <3>1
  <2> QED
    BY <1>7, <2>2, <2>3
<1>8. ASSUME NEW p \in Cpus, NEW k \in Keys, NEW d \in 0..MaxTime,
             thread_call_func_delayed(p, k, d)
      PROVE  deadline[c] <= now
  BY <1>0, <1>4, <1>8 DEF thread_call_func_delayed, delay, TypeOK
<1>9. ASSUME NEW p \in Cpus, NEW e \in External,
             \/ thread_call_allocate(p, e) \/ thread_call_free(p, e)
             \/ thread_call_cancel(p, e)
      PROVE  deadline[c] <= now
  BY <1>0, <1>4, <1>9 DEF thread_call_allocate, thread_call_free, thread_call_cancel, TypeOK
<1>10. ASSUME NEW p \in Cpus, NEW e \in External, NEW k \in Keys,
              thread_call_enter(p, e, k)
       PROVE  deadline[c] <= now
  BY <1>0, <1>4, <1>10 DEF thread_call_enter, TypeOK, Early
<1>11. ASSUME NEW p \in Cpus, NEW e \in External, NEW k \in Keys, NEW d \in 0..MaxTime,
              thread_call_enter_delayed(p, e, k, d)
       PROVE  deadline[c] <= now
  BY <1>0, <1>4, <1>11 DEF thread_call_enter_delayed, delay, TypeOK
<1>12. ASSUME NEW p \in Cpus, CalloutReturns(p) \/ _call_thread_continue(p)
       PROVE  deadline[c] <= now
  <2>1. transit' = transit
    BY <1>12 DEF CalloutReturns, _call_thread_continue
  <2>2. status' = status \/ \E x : status' = [status EXCEPT ![x] = "IDLE"]
    BY <1>12 DEF CalloutReturns, _call_thread_continue, Continue
  <2> QED
    BY <1>0, <1>4, <2>1, <2>2 DEF TypeOK
<1>13. ASSUME NEW p \in Cpus,
              \/ WakeThread(p) \/ WakeActivator(p) \/ _call_activate_thread(p)
              \/ system_timer_dispatch(p)
       PROVE  deadline[c] <= now
  BY <1>4, <1>13 DEF WakeThread, WakeActivator, _call_activate_thread,
     system_timer_dispatch, entries
<1>14. CASE UNCHANGED vars
  BY <1>4, <1>14 DEF vars, entries
<1> QED
  BY <1>5, <1>6, <1>7, <1>8, <1>9, <1>10, <1>11, <1>12, <1>13, <1>14
  DEF Next, Busy, Client

\* No callout is made pending, or put in transit to it, before its deadline.
THEOREM NoEarlyCallout == ASSUME Guarded PROVE Spec => NeverEarly
<1>1. CallInv /\ [Next]_vars => CallInv'
  BY CallStep
<1>2. CallInv /\ [Next]_vars =>
        [\A c \in Calls :
           /\ status[c] = "DELAYED"
           /\ status'[c] = "PENDING" \/ c \in InTransit'
           => deadline[c] <= now]_vars
  BY DueStep DEF Early
<1> QED
  BY <1>1, <1>2, CallInit, PTL DEF Spec, NeverEarly
=============================================================================
