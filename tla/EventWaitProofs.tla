--------------------------- MODULE EventWaitProofs ---------------------------
(***************************************************************************)
(* Waiting, waking and suspending, for any numbers of threads, processors  *)
(* and events.                                                             *)
(***************************************************************************)
EXTENDS EventWait, QueueTheorems

-----------------------------------------------------------------------------
(* The inductive invariants.                                               *)

\* Processor p has switched away from t and has yet to dispatch it.
Old(p, t) == pc[p] = [op |-> "dispatch", thread |-> t]

\* t has a place as one that can run.
Somewhere(t) ==
  t \in runq \/ \E p \in Cpus : cpu[p] = t \/ next_thread[p] = t \/ Old(p, t)

\* Thread t is in one place, if it is marked TH_RUN, else in none.
Placed(t) ==
  /\ "R" \in state[t] <=> Somewhere(t)
  /\ t \in runq => \A p \in Cpus : cpu[p] # t /\ next_thread[p] # t /\ ~Old(p, t)
  /\ \A p, q \in Cpus :
       /\ cpu[p] = t => next_thread[q] # t /\ ~Old(q, t) /\ (cpu[q] = t => q = p)
       /\ next_thread[p] = t => ~Old(q, t) /\ (next_thread[q] = t => q = p)
       /\ Old(p, t) => (Old(q, t) => q = p)

AllPlaced == \A t \in Threads : Placed(t)

\* The wait queue holds, once each, the threads with an event.
WaitOK ==
  /\ IsInjective(wait_queue)
  /\ Range(wait_queue) = {t \in Threads : wait_event[t] # None}
  /\ \A t \in Threads : wait_event[t] # None => "W" \in state[t]

\* A thread that may run, or does and is not about to block, does not wait.
AwakeOK ==
  \A t \in Threads :
    /\ t \in runq => "W" \notin state[t]
    /\ \A p \in Cpus :
         /\ next_thread[p] = t => "W" \notin state[t]
         /\ cpu[p] = t /\ phase[t] \notin {"asserted", "sleep"} => "W" \notin state[t]

\* The stops that thread_suspend counts are one of the holds.
HoldsOK == \A t \in Threads : user_stop_count[t] > 0 => suspend_count[t] > 0

WaitInv == TypeOK /\ HoldsOK /\ AllPlaced /\ WaitOK /\ AwakeOK

\* Timers, where a callout cannot race with the thread it is for: nobody sets
\* timeouts, or there is one processor.
Unraced == Timed = {} \/ \E p : Cpus = {p}

TimerInv ==
  /\ \A t \in Threads \ Timed : ~set[t]
  /\ \A p \in Cpus :
       /\ service[p] # Free => cpu[p] = "other"
       /\ service[p].op = "timeout" => ~set[service[p].thread]

\* With one processor a callout, and what is left of a clear_wait, are for the
\* wait that the thread is in.
ForThisWait ==
  /\ \A t \in Threads : call[t] => set[t] /\ asked[t] /\ "W" \in state[t]
  /\ \A p \in Cpus :
       /\ service[p] # Free =>
            LET t == service[p].thread IN ~call[t] /\ ("W" \in state[t] => asked[t])
       /\ pc[p].op = "clear" =>
            LET t == pc[p].thread
            IN  /\ pc[p].result = "TIMED_OUT" /\ "W" \in state[t] => asked[t]
                /\ pc[p].result = "INTERRUPTED" => "N" \notin state[t]

-----------------------------------------------------------------------------
(* What the helpers do.                                                    *)

Results == {"AWAKENED", "TIMED_OUT", "INTERRUPTED"}

\* Each thread of S gets one place, nobody else's changes.
LEMMA SetrunFacts ==
  ASSUME TypeOK, NEW S, S \subseteq Threads, thread_setrun(S)
  PROVE  /\ runq' \subseteq Threads
         /\ next_thread' \in [Cpus -> Threads \cup {None}]
         /\ \A t \in Threads \ S :
              /\ t \in runq' <=> t \in runq
              /\ \A p \in Cpus : next_thread'[p] = t <=> next_thread[p] = t
         /\ \A t \in S :
              t \notin runq /\ (\A p \in Cpus : next_thread[p] # t) =>
                \/ t \in runq' /\ \A p \in Cpus : next_thread'[p] # t
                \/ /\ t \notin runq'
                   /\ \E p \in Cpus : next_thread'[p] = t
                   /\ \A p, q \in Cpus :
                        next_thread'[p] = t /\ next_thread'[q] = t => p = q
<1>0. None \notin Threads
  BY WaitAssumption
<1>1. PICK g \in [IdleCpus -> S \cup {None}] :
        LET given == {p \in IdleCpus : g[p] # None}
            D == {g[p] : p \in given}
        IN  /\ \A p, q \in given : g[p] = g[q] => p = q
            /\ D = S \/ given = IdleCpus
            /\ next_thread' = [p \in Cpus |-> IF p \in given THEN g[p]
                                               ELSE next_thread[p]]
            /\ runq' = runq \cup (S \ D)
  BY DEF thread_setrun
<1> DEFINE given == {p \in IdleCpus : g[p] # None}
           D == {g[p] : p \in given}
<1>2. /\ \A p, q \in given : g[p] = g[q] => p = q
      /\ next_thread' = [p \in Cpus |-> IF p \in given THEN g[p] ELSE next_thread[p]]
      /\ runq' = runq \cup (S \ D)
  BY <1>1
<1>3. \A p \in given : p \in Cpus /\ g[p] \in S /\ next_thread[p] = None
  BY DEF IdleCpus
<1>4. D \subseteq S /\ \A t \in D : \E p \in given : g[p] = t
  BY <1>3
<1>5. \A p \in given : g[p] \in D
  OBVIOUS
<1> HIDE DEF given, D
<1>6. runq' \subseteq Threads /\ next_thread' \in [Cpus -> Threads \cup {None}]
  BY <1>2, <1>3 DEF TypeOK
<1>7. ASSUME NEW t \in Threads \ S
      PROVE  /\ t \in runq' <=> t \in runq
             /\ \A p \in Cpus : next_thread'[p] = t <=> next_thread[p] = t
  BY <1>0, <1>2, <1>3, <1>4
<1>8. ASSUME NEW t \in S, t \notin runq, \A p \in Cpus : next_thread[p] # t
      PROVE  \/ t \in runq' /\ \A p \in Cpus : next_thread'[p] # t
             \/ /\ t \notin runq'
                /\ \E p \in Cpus : next_thread'[p] = t
                /\ \A p, q \in Cpus :
                     next_thread'[p] = t /\ next_thread'[q] = t => p = q
  <2>1. \A p \in Cpus : next_thread'[p] = t => p \in given /\ g[p] = t
    BY <1>2, <1>8
  <2>2. CASE t \in D
    BY <1>2, <1>3, <1>4, <1>8, <2>1, <2>2
  <2>3. CASE t \notin D
    BY <1>2, <1>5, <1>8, <2>1, <2>3
  <2> QED
    BY <2>2, <2>3
<1> QED
  BY <1>6, <1>7, <1>8

\* End, thread by thread.
LEMMA EndFacts ==
  ASSUME TypeOK, NEW S, S \subseteq Threads, NEW r \in Results, End(S, r)
  PROVE  /\ state' \in [Threads -> SUBSET {"R", "W", "S", "N"}]
         /\ \A t \in Threads :
              /\ "W" \in state'[t] <=> "W" \in state[t] /\ t \notin S
              /\ "R" \in state'[t] <=> "R" \in state[t] \/ (t \in S /\ Runs(t))
              /\ "N" \in state'[t] <=> "N" \in state[t]
              /\ "S" \in state'[t] <=> "S" \in state[t]
         /\ wait_event' \in [Threads -> Events \cup Threads \cup {None}]
         /\ \A t \in Threads : wait_event'[t] = IF t \in S THEN None ELSE wait_event[t]
         /\ wait_result' \in [Threads -> {None} \cup Results]
         /\ \A t \in Threads :
              wait_result'[t] = IF t \in S /\ "W" \in state[t] THEN r ELSE wait_result[t]
         /\ thread_setrun({t \in S : Runs(t)})
         /\ reset_timeout(S)
         /\ set' \in [Threads -> BOOLEAN] /\ call' \in [Threads -> BOOLEAN]
         /\ asked' \in [Threads -> BOOLEAN]
         /\ \A t \in Threads :
              asked'[t] <=> asked[t] /\ ~(t \in S /\ "W" \in state[t])
<1> DEFINE W == {t \in S : "W" \in state[t]}
<1>1. /\ wait_event' = [t \in Threads |-> IF t \in S THEN None ELSE wait_event[t]]
      /\ state' = [t \in Threads |->
                     IF t \notin W THEN state[t]
                     ELSE (state[t] \ {"W"}) \cup (IF Runs(t) THEN {"R"} ELSE {})]
      /\ wait_result' = [t \in Threads |-> IF t \in W THEN r ELSE wait_result[t]]
      /\ asked' = [t \in Threads |-> asked[t] /\ t \notin W]
      /\ reset_timeout(S)
      /\ thread_setrun({t \in S : Runs(t)})
  BY DEF End
<1>2. /\ state' \in [Threads -> SUBSET {"R", "W", "S", "N"}]
      /\ \A t \in Threads :
           /\ "W" \in state'[t] <=> "W" \in state[t] /\ t \notin S
           /\ "R" \in state'[t] <=> "R" \in state[t] \/ (t \in S /\ Runs(t))
           /\ "N" \in state'[t] <=> "N" \in state[t]
           /\ "S" \in state'[t] <=> "S" \in state[t]
  <2>1. \A t \in Threads : Runs(t) => "W" \in state[t]
    BY DEF Runs
  <2>2. \A t \in Threads : state[t] \subseteq {"R", "W", "S", "N"}
    BY DEF TypeOK
  <2> QED
    BY <1>1, <2>1, <2>2
<1>3. /\ wait_event' \in [Threads -> Events \cup Threads \cup {None}]
      /\ wait_result' \in [Threads -> {None} \cup Results]
  BY <1>1 DEF TypeOK, Results
<1>4. set' \in [Threads -> BOOLEAN] /\ call' \in [Threads -> BOOLEAN]
  BY <1>1 DEF TypeOK, reset_timeout
<1>5. asked' \in [Threads -> BOOLEAN]
  BY <1>1 DEF TypeOK
<1> QED
  BY <1>1, <1>2, <1>3, <1>4, <1>5

LEMMA EndQueue ==
  ASSUME TypeOK, NEW S, S \subseteq Threads, NEW r, End(S, r)
  PROVE  /\ wait_queue' \in Seq(Threads)
         /\ Range(wait_queue') = Range(wait_queue) \ S
         /\ IsInjective(wait_queue) => IsInjective(wait_queue')
<1>1. wait_queue' = Without(wait_queue, S)
  BY DEF End
<1>2. wait_queue \in Seq(Threads)
  BY DEF TypeOK
<1> DEFINE w == Without(wait_queue, S)
<1>3. /\ w \in Seq(Threads) /\ Range(w) = Range(wait_queue) \ S
      /\ IsInjective(wait_queue) => IsInjective(w)
  BY <1>2, WithoutType, WithoutRange, WithoutDistinct
<1> QED
  BY <1>1, <1>3

LEMMA WakeupFacts ==
  ASSUME TypeOK, NEW e, NEW one \in BOOLEAN, NEW r, WakeupPrim(e, one, r)
  PROVE  \E S : /\ S \subseteq Threads /\ End(S, r)
                /\ \A t \in S : wait_event[t] = e
                /\ ~one => \A t \in Range(wait_queue) : wait_event[t] = e => t \in S
<1> DEFINE B == {t \in Threads : wait_event[t] # e}
           q == Without(wait_queue, B)
           S == IF one /\ q # <<>> THEN {Head(q)} ELSE Range(q)
<1>1. wait_queue \in Seq(Threads)
  BY DEF TypeOK
<1>2. q \in Seq(Threads) /\ Range(q) = Range(wait_queue) \ B
  BY <1>1, WithoutType, WithoutRange
<1>3. Range(q) \subseteq Threads /\ (q # <<>> => Head(q) \in Range(q))
  <2> HIDE DEF q
  <2> QED
    BY <1>2, RangeSeq, TailRange
<1>4. End(S, r)
  BY DEF WakeupPrim
<1>5. S \subseteq Range(q) /\ (~one => S = Range(q))
  <2> HIDE DEF q
  <2> QED
    BY <1>3
<1>6. Range(wait_queue) \subseteq Threads
  BY <1>1, RangeSeq
<1> HIDE DEF S, q
<1> QED
  BY <1>2, <1>3, <1>4, <1>5, <1>6

-----------------------------------------------------------------------------
(* Types.                                                                  *)

PcSet ==
  {Free} \cup Ops({"dispatch", "stopped"}) \cup
    [op : {"clear"}, thread : Threads, event : Events \cup Threads, result : Results]

LEMMA PcFacts ==
  /\ Free \in PcSet /\ Free.op = "free"
  /\ \A t \in Threads : /\ [op |-> "dispatch", thread |-> t] \in PcSet
                        /\ [op |-> "stopped", thread |-> t] \in PcSet
  /\ \A t \in Threads, e \in Events \cup Threads, r \in Results :
       [op |-> "clear", thread |-> t, event |-> e, result |-> r] \in PcSet
  /\ \A x \in PcSet :
       /\ x = Free <=> x.op = "free"
       /\ x # Free => x.thread \in Threads
       /\ x.op = "dispatch" => x = [op |-> "dispatch", thread |-> x.thread]
       /\ x.op = "stopped" => x = [op |-> "stopped", thread |-> x.thread]
       /\ x.op = "clear" => x.event \in Events \cup Threads /\ x.result \in Results
<1>1. Free \in PcSet /\ Free.op = "free"
  BY DEF PcSet, Free
<1>2. ASSUME NEW t \in Threads
      PROVE  /\ [op |-> "dispatch", thread |-> t] \in PcSet
             /\ [op |-> "stopped", thread |-> t] \in PcSet
  <2>1. \A o \in {"dispatch", "stopped"} :
          [op |-> o, thread |-> t] \in Ops({"dispatch", "stopped"})
    BY DEF Ops
  <2>2. /\ [op |-> "dispatch", thread |-> t] \in Ops({"dispatch", "stopped"})
        /\ [op |-> "stopped", thread |-> t] \in Ops({"dispatch", "stopped"})
    BY <2>1
  <2> QED
    BY <2>2 DEF PcSet
<1>3. \A t \in Threads, e \in Events \cup Threads, r \in Results :
        [op |-> "clear", thread |-> t, event |-> e, result |-> r] \in PcSet
  BY DEF PcSet
<1>4. ASSUME NEW x \in PcSet
      PROVE  /\ x = Free <=> x.op = "free"
             /\ x # Free => x.thread \in Threads
             /\ x.op = "dispatch" => x = [op |-> "dispatch", thread |-> x.thread]
             /\ x.op = "stopped" => x = [op |-> "stopped", thread |-> x.thread]
             /\ x.op = "clear" => x.event \in Events \cup Threads /\ x.result \in Results
  <2>1. CASE x = Free
    BY <2>1 DEF Free
  <2>2. CASE x \in Ops({"dispatch", "stopped"})
    BY <2>2 DEF Ops, Free
  <2>3. CASE x \in [op : {"clear"}, thread : Threads, event : Events \cup Threads,
                    result : Results]
    BY <2>3 DEF Free
  <2> QED
    BY <2>1, <2>2, <2>3 DEF PcSet
<1> QED
  BY <1>1, <1>2, <1>3, <1>4

LEMMA PcType ==
  ASSUME TypeOK
  PROVE  pc \in [Cpus -> PcSet]
BY DEF TypeOK, PcSet, Results

LEMMA OldFacts ==
  ASSUME TypeOK, NEW p \in Cpus, NEW t \in Threads
  PROVE  Old(p, t) <=> pc[p].op = "dispatch" /\ pc[p].thread = t
<1>1. pc[p] \in PcSet
  BY PcType
<1> QED
  BY <1>1, PcFacts DEF Old

LEMMA EndType ==
  ASSUME TypeOK, NEW S, S \subseteq Threads, NEW r \in Results, End(S, r),
         UNCHANGED <<holds, cpu>>, pc' \in [Cpus -> PcSet],
         phase' \in [Threads -> Phases],
         target' \in [Threads -> Threads \cup {None}],
         service' \in [Cpus -> {Free} \cup Ops({"service", "timeout"})]
  PROVE  TypeOK'
<1>1. {t \in S : Runs(t)} \subseteq Threads
  OBVIOUS
<1>2. thread_setrun({t \in S : Runs(t)})
  BY EndFacts
<1>3. runq' \subseteq Threads /\ next_thread' \in [Cpus -> Threads \cup {None}]
  BY <1>1, <1>2, SetrunFacts
<1>4. /\ state' \in [Threads -> SUBSET {"R", "W", "S", "N"}]
      /\ wait_event' \in [Threads -> Events \cup Threads \cup {None}]
      /\ wait_result' \in [Threads -> {None} \cup Results]
      /\ set' \in [Threads -> BOOLEAN] /\ call' \in [Threads -> BOOLEAN]
      /\ asked' \in [Threads -> BOOLEAN]
  BY EndFacts
<1>5. wait_queue' \in Seq(Threads)
  BY EndQueue
<1>6. /\ suspend_count' \in [Threads -> 0..MaxHolds]
      /\ user_stop_count' \in [Threads -> 0..MaxHolds]
      /\ wake_active' \in [Threads -> BOOLEAN]
      /\ cpu' \in [Cpus -> Threads \cup {"idle", "other"}]
  BY DEF TypeOK, holds
<1> QED
  BY <1>3, <1>4, <1>5, <1>6 DEF TypeOK, PcSet, Results

LEMMA WakeupType ==
  ASSUME TypeOK, NEW e, NEW one \in BOOLEAN, NEW r \in Results, WakeupPrim(e, one, r),
         UNCHANGED <<holds, cpu>>, pc' \in [Cpus -> PcSet],
         phase' \in [Threads -> Phases],
         target' \in [Threads -> Threads \cup {None}],
         service' \in [Cpus -> {Free} \cup Ops({"service", "timeout"})]
  PROVE  TypeOK'
<1>1. PICK S : S \subseteq Threads /\ End(S, r)
  BY WakeupFacts
<1> QED
  BY <1>1, EndType

\* The steps that end waits.
EndAct(p) ==
  \/ ClearFinish(p) \/ WakeSuspenders(p) \/ thread_timeout(p)
  \/ \E u \in Threads : DowaitWake(p, u)
  \/ \E e \in Events, one \in BOOLEAN : thread_wakeup_prim(p, e, one, "AWAKENED")
  \/ \E t \in Threads : \/ clear_wait(p, t, "INTERRUPTED", TRUE)
                        \/ clear_wait(p, t, "AWAKENED", FALSE)

LEMMA EndSteps ==
  ASSUME TypeOK, NEW p \in Cpus, EndAct(p)
  PROVE  TypeOK'
<1>0. /\ pc \in [Cpus -> PcSet] /\ pc[p] \in PcSet
      /\ phase \in [Threads -> Phases]
      /\ target \in [Threads -> Threads \cup {None}]
      /\ service \in [Cpus -> {Free} \cup Ops({"service", "timeout"})]
      /\ "AWAKENED" \in Results /\ "TIMED_OUT" \in Results /\ "INTERRUPTED" \in Results
  BY PcType DEF TypeOK, Results
<1>1. ASSUME NEW t \in Threads, NEW r \in Results, ClearStart(p, t, r),
             UNCHANGED <<holds, phase, target, cpu>>,
             service' \in [Cpus -> {Free} \cup Ops({"service", "timeout"})]
      PROVE  TypeOK'
  <2>1. CASE wait_event[t] # None
    <3>1. wait_event[t] \in Events \cup Threads
      BY <2>1 DEF TypeOK
    <3>2. pc' \in [Cpus -> PcSet] /\ UNCHANGED <<waits, timers, places>>
      BY <1>0, <1>1, <2>1, <3>1, PcFacts DEF ClearStart
    <3> QED
      BY <1>1, <3>2 DEF TypeOK, PcSet, Results, waits, timers, places, holds
  <2>2. CASE wait_event[t] = None
    <3>1. End({t}, r) /\ UNCHANGED pc
      BY <1>1, <2>2 DEF ClearStart
    <3> QED
      BY <1>0, <1>1, <3>1, EndType
  <2> QED
    BY <2>1, <2>2
<1>2. CASE ClearFinish(p)
  <2>1. /\ pc' = [pc EXCEPT ![p] = Free] /\ pc[p].op = "clear"
        /\ UNCHANGED <<holds, phase, target, cpu, service>>
    BY <1>2 DEF ClearFinish
  <2>2. /\ pc[p].thread \in Threads /\ pc[p].result \in Results
        /\ pc' \in [Cpus -> PcSet]
    BY <1>0, <2>1, PcFacts
  <2>3. CASE wait_event[pc[p].thread] = pc[p].event
    <3>1. End({pc[p].thread}, pc[p].result)
      BY <1>2, <2>3 DEF ClearFinish
    <3> QED
      BY <1>0, <2>1, <2>2, <3>1, EndType
  <2>4. CASE wait_event[pc[p].thread] # pc[p].event
    BY <1>2, <2>1, <2>2, <2>4 DEF ClearFinish, TypeOK, PcSet, Results, waits, timers,
                                  places, holds
  <2> QED
    BY <2>3, <2>4
<1>3. CASE WakeSuspenders(p)
  <2>1. pc' \in [Cpus -> PcSet]
    BY <1>0, <1>3, PcFacts DEF WakeSuspenders
  <2> QED
    BY <1>0, <1>3, <2>1, WakeupType DEF WakeSuspenders
<1>4. CASE thread_timeout(p)
  <2>1. /\ service[p].op = "timeout" /\ service' = [service EXCEPT ![p] = Free]
        /\ ClearStart(p, service[p].thread, "TIMED_OUT")
        /\ UNCHANGED <<holds, phase, target, cpu>>
    BY <1>4 DEF thread_timeout
  <2>2. service[p].thread \in Threads
    BY <1>0, <2>1 DEF Free, Ops
  <2>3. service' \in [Cpus -> {Free} \cup Ops({"service", "timeout"})]
    BY <1>0, <2>1
  <2> QED
    BY <1>0, <1>1, <2>1, <2>2, <2>3
<1>5. ASSUME NEW u \in Threads, DowaitWake(p, u) PROVE TypeOK'
  <2>1. /\ phase' \in [Threads -> Phases]
        /\ target' \in [Threads -> Threads \cup {None}]
        /\ UNCHANGED <<holds, cpu, pc, service>>
        /\ WakeupPrim(target[u], FALSE, "AWAKENED")
    BY <1>0, <1>5 DEF DowaitWake, Phases
  <2> QED
    BY <1>0, <2>1, WakeupType
<1>6. ASSUME NEW e \in Events, NEW one \in BOOLEAN, thread_wakeup_prim(p, e, one, "AWAKENED")
      PROVE  TypeOK'
  BY <1>0, <1>6, WakeupType DEF thread_wakeup_prim
<1>7. ASSUME NEW t \in Threads, \/ clear_wait(p, t, "INTERRUPTED", TRUE)
                                \/ clear_wait(p, t, "AWAKENED", FALSE)
      PROVE  TypeOK'
  BY <1>0, <1>1, <1>7 DEF clear_wait
<1> QED
  BY <1>2, <1>3, <1>4, <1>5, <1>6, <1>7 DEF EndAct

-----------------------------------------------------------------------------
(* Places.                                                                 *)

LEMMA StillPlaced ==
  ASSUME NEW t \in Threads, Placed(t),
         t \in runq' <=> t \in runq,
         \A p \in Cpus : /\ cpu'[p] = t <=> cpu[p] = t
                         /\ next_thread'[p] = t <=> next_thread[p] = t
                         /\ Old(p, t)' <=> Old(p, t),
         "R" \in state'[t] <=> "R" \in state[t]
  PROVE  Placed(t)'
BY DEF Placed, Somewhere

\* A thread made runnable, that was nowhere.
LEMMA SetrunPlaced ==
  ASSUME TypeOK, NEW S, S \subseteq Threads, thread_setrun(S),
         NEW t \in S, t \notin runq, "R" \in state'[t],
         \A p \in Cpus : /\ cpu[p] # t /\ next_thread[p] # t
                         /\ cpu'[p] # t /\ ~Old(p, t)'
  PROVE  Placed(t)'
<1>1. \/ t \in runq' /\ \A p \in Cpus : next_thread'[p] # t
      \/ /\ t \notin runq'
         /\ \E p \in Cpus : next_thread'[p] = t
         /\ \A p, q \in Cpus :
              next_thread'[p] = t /\ next_thread'[q] = t => p = q
  BY SetrunFacts
<1> QED
  BY <1>1 DEF Placed, Somewhere

LEMMA EndInv ==
  ASSUME WaitInv, TypeOK', NEW S, S \subseteq Threads, NEW r \in Results, End(S, r),
         UNCHANGED <<holds, cpu>>,
         \A p \in Cpus, t \in Threads : Old(p, t)' <=> Old(p, t),
         \A t \in Threads : phase'[t] = phase[t] \/ phase[t] \notin {"asserted", "sleep"}
  PROVE  WaitInv'
<1>0. TypeOK /\ HoldsOK /\ AllPlaced /\ WaitOK /\ AwakeOK
  BY DEF WaitInv
<1> DEFINE X == {t \in S : Runs(t)}
<1>1. X \subseteq Threads /\ X \subseteq S
  OBVIOUS
<1>2. /\ \A t \in Threads :
           /\ "W" \in state'[t] <=> "W" \in state[t] /\ t \notin S
           /\ "R" \in state'[t] <=> "R" \in state[t] \/ t \in X
      /\ \A t \in Threads : wait_event'[t] = IF t \in S THEN None ELSE wait_event[t]
      /\ thread_setrun(X)
  BY <1>0, EndFacts
<1>3. \A t \in X : "R" \notin state[t]
  BY DEF Runs
<1> HIDE DEF X
<1>4. /\ \A t \in Threads \ X :
           /\ t \in runq' <=> t \in runq
           /\ \A p \in Cpus : next_thread'[p] = t <=> next_thread[p] = t
  BY <1>0, <1>1, <1>2, SetrunFacts
<1>5. HoldsOK'
  BY <1>0 DEF HoldsOK, holds
<1>6. AllPlaced'
  <2> SUFFICES ASSUME NEW t \in Threads PROVE Placed(t)'
    BY DEF AllPlaced
  <2>0. Placed(t)
    BY <1>0 DEF AllPlaced
  <2>1. CASE t \in X
    <3>1. ~Somewhere(t)
      BY <1>3, <2>0, <2>1 DEF Placed
    <3>2. t \notin runq /\ \A p \in Cpus : /\ cpu[p] # t /\ next_thread[p] # t
                                           /\ ~Old(p, t)
      BY <3>1 DEF Somewhere
    <3> QED
      BY <1>0, <1>1, <1>2, <2>1, <3>2, SetrunPlaced
  <2>2. CASE t \notin X
    BY <1>2, <1>4, <2>0, <2>2, StillPlaced
  <2> QED
    BY <2>1, <2>2
<1>7. WaitOK'
  <2>1. Range(wait_queue') = Range(wait_queue) \ S /\ IsInjective(wait_queue')
    BY <1>0, EndQueue DEF WaitOK
  <2> QED
    BY <1>0, <1>2, <2>1 DEF WaitOK
<1>8. AwakeOK'
  <2> SUFFICES ASSUME NEW t \in Threads, "W" \in state'[t]
               PROVE  /\ t \notin runq'
                      /\ \A p \in Cpus :
                           /\ next_thread'[p] # t
                           /\ cpu'[p] = t => phase'[t] \in {"asserted", "sleep"}
    BY DEF AwakeOK
  <2>1. "W" \in state[t] /\ t \notin X
    BY <1>1, <1>2
  <2> QED
    BY <1>0, <1>4, <2>1 DEF AwakeOK
<1> QED
  BY <1>5, <1>6, <1>7, <1>8 DEF WaitInv

LEMMA WakeupInv ==
  ASSUME WaitInv, TypeOK', NEW e, NEW one \in BOOLEAN, NEW r \in Results,
         WakeupPrim(e, one, r), UNCHANGED <<holds, cpu>>,
         \A p \in Cpus, t \in Threads : Old(p, t)' <=> Old(p, t),
         \A t \in Threads : phase'[t] = phase[t] \/ phase[t] \notin {"asserted", "sleep"}
  PROVE  WaitInv'
<1>1. PICK S : S \subseteq Threads /\ End(S, r)
  BY WakeupFacts DEF WaitInv
<1> QED
  BY <1>1, EndInv

\* Processor p, which was not dispatching anybody, takes up something else.
LEMMA OldKept ==
  ASSUME TypeOK, NEW p \in Cpus, pc[p].op # "dispatch", NEW x, x.op # "dispatch",
         pc' = [pc EXCEPT ![p] = x]
  PROVE  \A q \in Cpus, t \in Threads : Old(q, t)' <=> Old(q, t)
BY DEF Old, TypeOK

LEMMA EndStepsInv ==
  ASSUME WaitInv, NEW p \in Cpus, EndAct(p)
  PROVE  WaitInv'
<1>0. TypeOK /\ TypeOK' /\ HoldsOK /\ AllPlaced /\ WaitOK /\ AwakeOK
  BY EndSteps DEF WaitInv
<1>r. "AWAKENED" \in Results /\ "TIMED_OUT" \in Results /\ "INTERRUPTED" \in Results
  BY DEF Results
<1>f. pc[p] \in PcSet /\ Free.op # "dispatch"
  BY <1>0, PcType, PcFacts
<1>1. ASSUME NEW t \in Threads, NEW r \in Results, ClearStart(p, t, r), pc[p] = Free,
             UNCHANGED <<holds, phase, cpu>>
      PROVE  WaitInv'
  <2>1. CASE wait_event[t] # None
    <3>1. PICK x : /\ x = [op |-> "clear", thread |-> t, event |-> wait_event[t], result |-> r]
                   /\ pc' = [pc EXCEPT ![p] = x]
      BY <1>1, <2>1 DEF ClearStart
    <3>2. x.op # "dispatch"
      BY <3>1
    <3>3. \A q \in Cpus, u \in Threads : Old(q, u)' <=> Old(q, u)
      BY <1>0, <1>1, <1>f, <3>1, <3>2, OldKept
    <3>4. UNCHANGED <<waits, timers, places>>
      BY <1>1, <2>1 DEF ClearStart
    <3>5. AllPlaced'
      BY <1>0, <1>1, <3>3, <3>4, StillPlaced DEF AllPlaced, waits, places
    <3> QED
      BY <1>0, <1>1, <3>4, <3>5 DEF WaitInv, HoldsOK, WaitOK, AwakeOK, waits, places, holds
  <2>2. CASE wait_event[t] = None
    <3>1. End({t}, r) /\ UNCHANGED pc
      BY <1>1, <2>2 DEF ClearStart
    <3> QED
      BY <1>0, <1>1, <3>1, EndInv DEF Old
  <2> QED
    BY <2>1, <2>2
<1>2. CASE ClearFinish(p)
  <2>1. /\ pc' = [pc EXCEPT ![p] = Free] /\ pc[p].op = "clear"
        /\ UNCHANGED <<holds, phase, target, cpu, service>>
    BY <1>2 DEF ClearFinish
  <2>2. /\ pc[p].thread \in Threads /\ pc[p].result \in Results
    BY <1>f, <2>1, PcFacts
  <2>3. \A q \in Cpus, u \in Threads : Old(q, u)' <=> Old(q, u)
    BY <1>0, <1>f, <2>1, OldKept
  <2>4. CASE wait_event[pc[p].thread] = pc[p].event
    <3>1. End({pc[p].thread}, pc[p].result)
      BY <1>2, <2>4 DEF ClearFinish
    <3> QED
      BY <1>0, <2>1, <2>2, <2>3, <3>1, EndInv
  <2>5. CASE wait_event[pc[p].thread] # pc[p].event
    <3>1. UNCHANGED <<waits, timers, places>>
      BY <1>2, <2>5 DEF ClearFinish
    <3>2. AllPlaced'
      BY <1>0, <2>1, <2>3, <3>1, StillPlaced DEF AllPlaced, waits, places
    <3> QED
      BY <1>0, <2>1, <3>1, <3>2 DEF WaitInv, HoldsOK, WaitOK, AwakeOK, waits, places, holds
  <2> QED
    BY <2>4, <2>5
<1>3. CASE WakeSuspenders(p)
  <2>1. \A q \in Cpus, u \in Threads : Old(q, u)' <=> Old(q, u)
    BY <1>0, <1>3, <1>f, OldKept DEF WakeSuspenders
  <2> QED
    BY <1>0, <1>r, <1>3, <2>1, WakeupInv DEF WakeSuspenders
<1>4. CASE thread_timeout(p)
  <2>1. /\ service[p].op = "timeout" /\ pc[p] = Free
        /\ ClearStart(p, service[p].thread, "TIMED_OUT")
        /\ UNCHANGED <<holds, phase, cpu>>
    BY <1>4 DEF thread_timeout
  <2>2. service[p].thread \in Threads
    BY <1>0, <2>1 DEF TypeOK, Free, Ops
  <2> QED
    BY <1>r, <1>1, <2>1, <2>2
<1>5. ASSUME NEW u \in Threads, DowaitWake(p, u) PROVE WaitInv'
  <2>1. /\ \A t \in Threads : phase'[t] = phase[t] \/ phase[t] = "wake"
        /\ UNCHANGED <<holds, cpu, pc, service>>
        /\ WakeupPrim(target[u], FALSE, "AWAKENED")
    BY <1>0, <1>5 DEF DowaitWake, Current, TypeOK
  <2> QED
    BY <1>0, <1>r, <2>1, WakeupInv DEF Old
<1>6. ASSUME NEW e \in Events, NEW one \in BOOLEAN, thread_wakeup_prim(p, e, one, "AWAKENED")
      PROVE  WaitInv'
  BY <1>0, <1>r, <1>6, WakeupInv DEF thread_wakeup_prim, Old
<1>7. ASSUME NEW t \in Threads, \/ clear_wait(p, t, "INTERRUPTED", TRUE)
                                \/ clear_wait(p, t, "AWAKENED", FALSE)
      PROVE  WaitInv'
  BY <1>r, <1>1, <1>7 DEF clear_wait, LowSpl
<1> QED
  BY <1>2, <1>3, <1>4, <1>5, <1>6, <1>7 DEF EndAct

-----------------------------------------------------------------------------
(* Steps that leave threads where they are.                                *)

LEMMA QuietInv ==
  ASSUME WaitInv, TypeOK', HoldsOK',
         UNCHANGED <<wait_event, wait_queue, places, cpu, pc>>,
         \A t \in Threads :
           /\ "W" \in state'[t] <=> "W" \in state[t]
           /\ "R" \in state'[t] <=> "R" \in state[t]
           /\ \/ phase'[t] = phase[t]
              \/ phase[t] \notin {"asserted", "sleep"}
              \/ "W" \notin state[t]
  PROVE  WaitInv'
<1>0. AllPlaced /\ WaitOK /\ AwakeOK
  BY DEF WaitInv
<1>1. AllPlaced'
  BY <1>0, StillPlaced DEF AllPlaced, Old, places
<1>2. WaitOK'
  BY <1>0 DEF WaitOK
<1>3. AwakeOK'
  BY <1>0 DEF AwakeOK, places
<1> QED
  BY <1>1, <1>2, <1>3 DEF WaitInv

\* The running thread u asserts a wait for e.
LEMMA AssertInv ==
  ASSUME WaitInv, TypeOK', NEW p \in Cpus, NEW u \in Threads, NEW e, NEW bits,
         "W" \in bits, "R" \notin bits, NEW l \in {"asserted", "sleep"},
         cpu[p] = u, phase[u] \notin {"asserted", "sleep"},
         AssertWait(u, e, bits), phase' = [phase EXCEPT ![u] = l],
         UNCHANGED <<suspend_count, user_stop_count, places, cpu, pc>>
  PROVE  WaitInv'
<1>0. TypeOK /\ HoldsOK /\ AllPlaced /\ WaitOK /\ AwakeOK
  BY DEF WaitInv
<1>1. "W" \notin state[u] /\ wait_event[u] = None
  BY <1>0 DEF AwakeOK, WaitOK
<1>2. /\ \A t \in Threads \ {u} : /\ wait_event'[t] = wait_event[t]
                                  /\ state'[t] = state[t] /\ phase'[t] = phase[t]
      /\ wait_event'[u] = e /\ state'[u] = state[u] \cup bits /\ phase'[u] = l
      /\ wait_queue' = IF e = None THEN wait_queue ELSE Append(wait_queue, u)
  BY <1>0 DEF AssertWait, TypeOK
<1>3. HoldsOK'
  BY <1>0 DEF HoldsOK
<1>4. AllPlaced'
  BY <1>0, <1>2, StillPlaced DEF AllPlaced, Old, places
<1>5. WaitOK'
  <2>1. CASE e = None
    BY <1>0, <1>1, <1>2, <2>1 DEF WaitOK
  <2>2. CASE e # None
    <3>1. u \notin Range(wait_queue) /\ IsInjective(wait_queue)
      BY <1>0, <1>1 DEF WaitOK
    <3>2. wait_queue \in Seq(Threads)
      BY <1>0 DEF TypeOK
    <3>3. /\ IsInjective(Append(wait_queue, u))
          /\ Range(Append(wait_queue, u)) = Range(wait_queue) \cup {u}
      BY <3>1, <3>2, AppendRange
    <3>4. IsInjective(wait_queue') /\ Range(wait_queue') = Range(wait_queue) \cup {u}
      BY <1>2, <2>2, <3>3
    <3> QED
      BY <1>0, <1>1, <1>2, <2>2, <3>4 DEF WaitOK
  <2> QED
    BY <2>1, <2>2
<1>6. AwakeOK'
  <2>1. u \notin runq /\ \A q \in Cpus : next_thread[q] # u
    BY <1>0 DEF AllPlaced, Placed
  <2> QED
    BY <1>0, <1>2, <2>1 DEF AwakeOK, places
<1> QED
  BY <1>3, <1>4, <1>5, <1>6 DEF WaitInv

LEMMA TimerSteps ==
  ASSUME WaitInv, NEW p \in Cpus,
         \/ \E u \in Threads : thread_set_timeout(p, u)
         \/ \E t \in Threads : CalloutStart(p, t)
         \/ service_timer(p)
  PROVE  WaitInv'
<1>0. TypeOK /\ HoldsOK
  BY DEF WaitInv
<1>s. \A t \in Threads : /\ [op |-> "service", thread |-> t] \in Ops({"service", "timeout"})
                         /\ [op |-> "timeout", thread |-> t] \in Ops({"service", "timeout"})
  <2>1. \A t \in Threads, o \in {"service", "timeout"} :
          [op |-> o, thread |-> t] \in Ops({"service", "timeout"})
    BY DEF Ops
  <2> QED
    BY <2>1
<1>1. TypeOK'
  <2>1. ASSUME NEW u \in Threads, thread_set_timeout(p, u) PROVE TypeOK'
    BY <1>0, <2>1 DEF thread_set_timeout, set_timeout, TypeOK, waits, holds, places
  <2>2. ASSUME NEW t \in Threads, CalloutStart(p, t) PROVE TypeOK'
    BY <1>0, <1>s, <2>2 DEF CalloutStart, TypeOK, waits, holds, places
  <2>3. CASE service_timer(p)
    <3>1. service[p].op = "service" /\ service' = [service EXCEPT ![p].op = "timeout"]
      BY <2>3 DEF service_timer
    <3>2. service[p] \in Ops({"service", "timeout"})
      BY <1>0, <3>1 DEF TypeOK, Free
    <3>3. PICK t \in Threads : service[p] = [op |-> "service", thread |-> t]
      BY <3>1, <3>2 DEF Ops
    <3>4. service' = [service EXCEPT ![p] = [op |-> "timeout", thread |-> t]]
      <4>1. [[op |-> "service", thread |-> t] EXCEPT !.op = "timeout"]
              = [op |-> "timeout", thread |-> t]
        OBVIOUS
      <4>2. service' = [service EXCEPT ![p] = [service[p] EXCEPT !.op = "timeout"]]
        BY <3>1
      <4> QED
        BY <3>3, <4>1, <4>2
    <3>5. service' \in [Cpus -> {Free} \cup Ops({"service", "timeout"})]
      BY <1>0, <1>s, <3>4 DEF TypeOK
    <3>6. set' = [set EXCEPT ![t] = FALSE]
      BY <2>3, <3>3 DEF service_timer
    <3> QED
      BY <1>0, <2>3, <3>5, <3>6 DEF service_timer, TypeOK, waits, holds, places
  <2> QED
    BY <2>1, <2>2, <2>3
<1>2. UNCHANGED <<waits, holds, phase, target, places, cpu, pc>>
  BY DEF thread_set_timeout, CalloutStart, service_timer
<1>3. HoldsOK'
  BY <1>0, <1>2 DEF HoldsOK, holds
<1> QED
  BY <1>1, <1>2, <1>3, QuietInv DEF waits

LEMMA AssertStep ==
  ASSUME WaitInv, NEW p \in Cpus, NEW u \in Threads, NEW e \in Events \cup {None},
         NEW b \in BOOLEAN, assert_wait(p, u, e, b)
  PROVE  WaitInv'
<1>0. TypeOK
  BY DEF WaitInv
<1> DEFINE bits == IF b THEN {"W"} ELSE {"W", "N"}
<1>1. /\ cpu[p] = u /\ phase[u] = "run" /\ AssertWait(u, e, bits)
      /\ phase' = [phase EXCEPT ![u] = "asserted"]
      /\ UNCHANGED <<wait_result, holds, set, call, target, places, cpu, pc, service>>
  BY DEF assert_wait, Current
<1>2. "W" \in bits /\ "R" \notin bits /\ bits \subseteq {"W", "N"}
  OBVIOUS
<1> HIDE DEF bits
<1>3. wait_queue' \in Seq(Threads)
  BY <1>0, <1>1 DEF AssertWait, TypeOK
<1>4. TypeOK'
  BY <1>0, <1>1, <1>2, <1>3 DEF AssertWait, TypeOK, Phases, holds, places
<1> QED
  BY <1>1, <1>2, <1>4, AssertInv DEF holds

LEMMA HoldStep ==
  ASSUME WaitInv, NEW p \in Cpus, NEW u \in Threads, NEW t \in Threads,
         thread_hold(p, u, t) \/ thread_suspend(p, u, t)
  PROVE  WaitInv'
<1>0. TypeOK /\ HoldsOK /\ MaxHolds \in Nat
  BY WaitAssumption DEF WaitInv
<1>1. /\ phase[u] = "run"
      /\ UNCHANGED <<wait_event, wait_result, wait_queue, wake_active, timers,
                     places, cpu, pc, service>>
  BY DEF thread_hold, thread_suspend, Current
<1>2. CASE thread_suspend(p, u, t) /\ user_stop_count[t] # 0
  <2>1. /\ user_stop_count[t] < MaxHolds
        /\ user_stop_count' = [user_stop_count EXCEPT ![t] = user_stop_count[t] + 1]
        /\ UNCHANGED <<suspend_count, state, phase, target>>
    BY <1>2 DEF thread_suspend
  <2>2. TypeOK'
    BY <1>0, <1>1, <2>1 DEF TypeOK, timers, places
  <2>3. HoldsOK'
    BY <1>0, <1>2, <2>1 DEF HoldsOK, TypeOK
  <2> QED
    BY <1>1, <2>1, <2>2, <2>3, QuietInv
<1>3. CASE thread_hold(p, u, t) \/ (thread_suspend(p, u, t) /\ user_stop_count[t] = 0)
  <2>1. /\ suspend_count[t] < MaxHolds
        /\ suspend_count' = [suspend_count EXCEPT ![t] = suspend_count[t] + 1]
        /\ state' = [state EXCEPT ![t] = state[t] \cup {"S"}]
        /\ IF t = u THEN UNCHANGED <<phase, target>>
           ELSE /\ phase' = [phase EXCEPT ![u] = "hold"]
                /\ target' = [target EXCEPT ![u] = t]
        /\ \/ UNCHANGED user_stop_count
           \/ /\ user_stop_count[t] = 0
              /\ user_stop_count' = [user_stop_count EXCEPT ![t] = user_stop_count[t] + 1]
    BY <1>3 DEF thread_hold, thread_suspend, Hold
  <2>2. /\ phase' \in [Threads -> Phases]
        /\ target' \in [Threads -> Threads \cup {None}]
        /\ state' \in [Threads -> SUBSET {"R", "W", "S", "N"}]
    <3>1. phase' \in [Threads -> Phases]
      BY <1>0, <2>1 DEF TypeOK, Phases
    <3>2. target' \in [Threads -> Threads \cup {None}]
      <4>1. target \in [Threads -> Threads \cup {None}]
        BY <1>0 DEF TypeOK
      <4>2. target' = target \/ target' = [target EXCEPT ![u] = t]
        BY <2>1
      <4> QED
        BY <4>1, <4>2
    <3>3. state[t] \cup {"S"} \in SUBSET {"R", "W", "S", "N"}
      BY <1>0 DEF TypeOK
    <3>4. state' \in [Threads -> SUBSET {"R", "W", "S", "N"}]
      BY <1>0, <2>1, <3>3 DEF TypeOK
    <3> QED
      BY <3>1, <3>2, <3>4
  <2>3. /\ suspend_count' \in [Threads -> 0..MaxHolds]
        /\ user_stop_count' \in [Threads -> 0..MaxHolds]
    <3>1. suspend_count[t] \in 0..MaxHolds /\ user_stop_count[t] \in 0..MaxHolds
      BY <1>0 DEF TypeOK
    <3>2. /\ suspend_count[t] + 1 \in 0..MaxHolds
          /\ user_stop_count[t] = 0 => user_stop_count[t] + 1 \in 0..MaxHolds
      BY <1>0, <2>1, <3>1
    <3> QED
      BY <1>0, <2>1, <3>2 DEF TypeOK
  <2>4. TypeOK'
    BY <1>0, <1>1, <2>2, <2>3 DEF TypeOK, timers, places
  <2>5. HoldsOK'
    BY <1>0, <2>1 DEF HoldsOK, TypeOK
  <2>6. \A x \in Threads : /\ "W" \in state'[x] <=> "W" \in state[x]
                           /\ "R" \in state'[x] <=> "R" \in state[x]
                           /\ phase'[x] = phase[x] \/ phase[x] = "run"
    BY <1>0, <1>1, <2>1 DEF TypeOK
  <2> QED
    BY <1>1, <2>4, <2>5, <2>6, QuietInv
<1> QED
  BY <1>2, <1>3

LEMMA BlockSameStep ==
  ASSUME WaitInv, NEW p \in Cpus, NEW u \in Threads, thread_block_same(p, u)
  PROVE  WaitInv'
<1>0. TypeOK /\ HoldsOK
  BY DEF WaitInv
<1>1. /\ state[u] = {"R"}
      /\ phase' = [phase EXCEPT ![u] = IF phase[u] = "sleep" THEN "loop" ELSE "run"]
      /\ state' = [state EXCEPT ![u] = state[u] \ {"N"}]
      /\ wait_result' = [wait_result EXCEPT ![u] = None]
      /\ UNCHANGED <<wait_event, wait_queue, holds, timers, target, places, cpu, pc, service>>
  BY DEF thread_block_same, Unblocked, Resumes
<1>2. TypeOK'
  BY <1>0, <1>1 DEF TypeOK, Phases, holds, timers, places
<1>3. HoldsOK'
  BY <1>0, <1>1 DEF HoldsOK, holds
<1>4. \A x \in Threads : /\ "W" \in state'[x] <=> "W" \in state[x]
                         /\ "R" \in state'[x] <=> "R" \in state[x]
                         /\ phase'[x] = phase[x] \/ "W" \notin state[x]
  BY <1>0, <1>1 DEF TypeOK
<1> QED
  BY <1>1, <1>2, <1>3, <1>4, QuietInv

LEMMA DowaitStep ==
  ASSUME WaitInv, NEW p \in Cpus, NEW u \in Threads, NEW t \in Threads,
         thread_dowait(p, u, t)
  PROVE  WaitInv'
<1>0. TypeOK /\ HoldsOK /\ AllPlaced /\ WaitOK /\ AwakeOK
  BY DEF WaitInv
<1>1. /\ cpu[p] = u /\ phase[u] \in {"hold", "loop"} /\ pc[p] = Free
      /\ UNCHANGED <<suspend_count, user_stop_count, set, call, cpu, pc, service>>
  BY DEF thread_dowait, Current
<1>2. CASE /\ phase' = [phase EXCEPT ![u] = "run"]
           /\ target' = [target EXCEPT ![u] = None]
           /\ UNCHANGED <<waits, wake_active, asked, places>>
  <2>1. TypeOK'
    BY <1>0, <1>1, <1>2 DEF TypeOK, Phases, waits, places
  <2>2. HoldsOK'
    BY <1>0, <1>1 DEF HoldsOK
  <2>3. \A x \in Threads : phase'[x] = phase[x] \/ phase[x] \in {"hold", "loop"}
    BY <1>0, <1>1, <1>2 DEF TypeOK
  <2> QED
    BY <1>1, <1>2, <2>1, <2>2, <2>3, QuietInv DEF waits
<1>3. CASE /\ state[t] = {"R", "S"} /\ t \in runq
           /\ rem_runq(t)
           /\ state' = [state EXCEPT ![t] = {"S"}]
           /\ wake_active' = [wake_active EXCEPT ![t] = FALSE]
           /\ phase' = [phase EXCEPT ![u] = IF wake_active[t] THEN "wake" ELSE "run"]
           /\ target' = [target EXCEPT ![u] = IF wake_active[t] THEN t ELSE None]
           /\ UNCHANGED <<wait_event, wait_result, wait_queue, asked, next_thread>>
  <2>1. TypeOK'
    <3>1. /\ phase' \in [Threads -> Phases]
          /\ wake_active' \in [Threads -> BOOLEAN]
          /\ runq' \subseteq Threads
      BY <1>0, <1>3 DEF TypeOK, Phases, rem_runq
    <3>2. target' \in [Threads -> Threads \cup {None}]
      BY <1>0, <1>3 DEF TypeOK
    <3>3. state' \in [Threads -> SUBSET {"R", "W", "S", "N"}]
      BY <1>0, <1>3 DEF TypeOK
    <3> QED
      BY <1>0, <1>1, <1>3, <3>1, <3>2, <3>3 DEF TypeOK
  <2>2. HoldsOK'
    BY <1>0, <1>1 DEF HoldsOK
  <2>3. /\ \A x \in Threads \ {t} : state'[x] = state[x] /\ (x \in runq' <=> x \in runq)
        /\ state'[t] = {"S"} /\ t \notin runq'
        /\ \A x \in Threads : phase'[x] = phase[x] \/ phase[x] \in {"hold", "loop"}
    BY <1>0, <1>1, <1>3 DEF TypeOK, rem_runq
  <2>4. AllPlaced'
    <3> SUFFICES ASSUME NEW x \in Threads PROVE Placed(x)'
      BY DEF AllPlaced
    <3>0. Placed(x)
      BY <1>0 DEF AllPlaced
    <3>1. CASE x = t
      <4>1. \A q \in Cpus : cpu[q] # t /\ next_thread[q] # t /\ ~Old(q, t)
        BY <1>3, <3>0, <3>1 DEF Placed
      <4>2. \A q \in Cpus : cpu'[q] # t /\ next_thread'[q] # t /\ ~Old(q, t)'
        BY <1>1, <1>3, <4>1 DEF Old
      <4>3. ~Somewhere(t)' /\ "R" \notin state'[t]
        BY <2>3, <4>2 DEF Somewhere
      <4> QED
        BY <2>3, <3>1, <4>2, <4>3 DEF Placed
    <3>2. CASE x # t
      BY <1>1, <1>3, <2>3, <3>0, <3>2, StillPlaced DEF Old
    <3> QED
      BY <3>1, <3>2
  <2>5. WaitOK'
    BY <1>0, <1>3, <2>3 DEF WaitOK
  <2>6. AwakeOK'
    BY <1>0, <1>1, <1>3, <2>3 DEF AwakeOK
  <2> QED
    BY <2>1, <2>2, <2>4, <2>5, <2>6 DEF WaitInv
<1>4. CASE /\ wake_active' = [wake_active EXCEPT ![t] = TRUE]
           /\ AssertWait(u, t, {"W"})
           /\ phase' = [phase EXCEPT ![u] = "sleep"]
           /\ UNCHANGED <<wait_result, target, places>>
  <2>1. wait_queue' \in Seq(Threads) /\ state' \in [Threads -> SUBSET {"R", "W", "S", "N"}]
    BY <1>0, <1>4 DEF AssertWait, TypeOK
  <2>2. TypeOK'
    BY <1>0, <1>1, <1>4, <2>1 DEF AssertWait, TypeOK, Phases, places
  <2> QED
    BY <1>1, <1>4, <2>2, AssertInv
<1> QED
  BY <1>2, <1>3, <1>4 DEF thread_dowait, PullOff

-----------------------------------------------------------------------------
(* Steps that move threads.                                                *)

LEMMA ReleaseInv ==
  ASSUME WaitInv, NEW t \in Threads, suspend_count[t] > 0, Release(t),
         user_stop_count' \in [Threads -> 0..MaxHolds],
         \A x \in Threads : user_stop_count'[x] > 0 => user_stop_count[x] > 0,
         suspend_count[t] = 1 => user_stop_count'[t] = 0,
         UNCHANGED <<wait_event, wait_result, wait_queue, wake_active, timers,
                     phase, target, cpu, pc, service>>
  PROVE  WaitInv'
<1>0. TypeOK /\ HoldsOK /\ AllPlaced /\ WaitOK /\ AwakeOK /\ MaxHolds \in Nat
  BY WaitAssumption DEF WaitInv
<1>1. suspend_count' = [suspend_count EXCEPT ![t] = suspend_count[t] - 1]
  BY DEF Release
<1>2. /\ suspend_count' \in [Threads -> 0..MaxHolds]
      /\ \A x \in Threads \ {t} : suspend_count'[x] = suspend_count[x]
      /\ suspend_count'[t] = suspend_count[t] - 1 /\ suspend_count[t] \in Nat
  <2>1. suspend_count[t] \in 0..MaxHolds
    BY <1>0 DEF TypeOK
  <2>2. suspend_count[t] - 1 \in 0..MaxHolds
    BY <1>0, <2>1
  <2> QED
    BY <1>0, <1>1, <2>1, <2>2 DEF TypeOK
<1>3. HoldsOK'
  BY <1>0, <1>2 DEF HoldsOK
<1>4. CASE /\ suspend_count[t] = 1 /\ state[t] \cap {"W", "R"} = {}
           /\ state' = [state EXCEPT ![t] = (state[t] \ {"S"}) \cup {"R"}]
           /\ thread_setrun({t})
  <2>1. state' \in [Threads -> SUBSET {"R", "W", "S", "N"}]
    <3>1. (state[t] \ {"S"}) \cup {"R"} \in SUBSET {"R", "W", "S", "N"}
      BY <1>0 DEF TypeOK
    <3> QED
      BY <1>0, <1>4, <3>1 DEF TypeOK
  <2>2. /\ runq' \subseteq Threads /\ next_thread' \in [Cpus -> Threads \cup {None}]
        /\ \A x \in Threads \ {t} :
             /\ x \in runq' <=> x \in runq
             /\ \A p \in Cpus : next_thread'[p] = x <=> next_thread[p] = x
    BY <1>0, <1>4, SetrunFacts
  <2>3. TypeOK'
    BY <1>0, <1>2, <2>1, <2>2 DEF TypeOK, timers
  <2>4. /\ \A x \in Threads \ {t} : state'[x] = state[x]
        /\ "R" \in state'[t] /\ "W" \notin state'[t]
    BY <1>0, <1>4 DEF TypeOK
  <2>5. AllPlaced'
    <3> SUFFICES ASSUME NEW x \in Threads PROVE Placed(x)'
      BY DEF AllPlaced
    <3>0. Placed(x)
      BY <1>0 DEF AllPlaced
    <3>1. CASE x = t
      <4>1. ~Somewhere(t)
        BY <1>4, <3>0, <3>1 DEF Placed
      <4>2. t \notin runq /\ \A p \in Cpus : /\ cpu[p] # t /\ next_thread[p] # t
                                             /\ ~Old(p, t)
        BY <4>1 DEF Somewhere
      <4>3. t \in {t} /\ {t} \subseteq Threads
        OBVIOUS
      <4>4. \A p \in Cpus : cpu'[p] # t /\ ~Old(p, t)'
        BY <4>2 DEF Old
      <4> QED
        BY <1>0, <1>4, <2>4, <3>1, <4>2, <4>3, <4>4, SetrunPlaced
    <3>2. CASE x # t
      BY <2>2, <2>4, <3>0, <3>2, StillPlaced DEF Old
    <3> QED
      BY <3>1, <3>2
  <2>6. WaitOK'
    <3>1. wait_event[t] = None
      BY <1>0, <1>4 DEF WaitOK
    <3> QED
      BY <1>0, <2>4, <3>1 DEF WaitOK
  <2>7. AwakeOK'
    BY <1>0, <2>2, <2>4 DEF AwakeOK
  <2> QED
    BY <1>3, <2>3, <2>5, <2>6, <2>7 DEF WaitInv
<1>5. CASE /\ state' = [state EXCEPT ![t] = IF suspend_count[t] = 1 THEN state[t] \ {"S"}
                                            ELSE state[t]]
           /\ UNCHANGED places
  <2>1. TypeOK'
    <3>1. state' \in [Threads -> SUBSET {"R", "W", "S", "N"}]
      BY <1>0, <1>5 DEF TypeOK
    <3> QED
      BY <1>0, <1>2, <1>5, <3>1 DEF TypeOK, timers, places
  <2>2. \A x \in Threads : /\ "W" \in state'[x] <=> "W" \in state[x]
                           /\ "R" \in state'[x] <=> "R" \in state[x]
    BY <1>0, <1>5 DEF TypeOK
  <2> QED
    BY <1>3, <1>5, <2>1, <2>2, QuietInv
<1> QED
  BY <1>4, <1>5 DEF Release

LEMMA ReleaseStep ==
  ASSUME WaitInv, NEW p \in Cpus, NEW u \in Threads, NEW t \in Threads,
         thread_release(p, u, t) \/ thread_resume(p, u, t)
  PROVE  WaitInv'
<1>0. /\ TypeOK /\ HoldsOK /\ MaxHolds \in Nat
      /\ suspend_count[t] \in 0..MaxHolds /\ user_stop_count[t] \in 0..MaxHolds
  BY WaitAssumption DEF WaitInv, TypeOK
<1>1. CASE thread_release(p, u, t)
  <2>1. /\ suspend_count[t] > (IF user_stop_count[t] > 0 THEN 1 ELSE 0)
        /\ Release(t)
        /\ UNCHANGED <<wait_event, wait_result, wait_queue, user_stop_count,
                       wake_active, timers, phase, target, cpu, pc, service>>
    BY <1>1 DEF thread_release
  <2>2. suspend_count[t] > 0 /\ (suspend_count[t] = 1 => user_stop_count'[t] = 0)
    BY <1>0, <2>1
  <2>3. user_stop_count' \in [Threads -> 0..MaxHolds]
    BY <1>0, <2>1 DEF TypeOK
  <2> QED
    BY <2>1, <2>2, <2>3, ReleaseInv
<1>2. CASE thread_resume(p, u, t)
  <2>1. /\ user_stop_count[t] > 0
        /\ user_stop_count' = [user_stop_count EXCEPT ![t] = user_stop_count[t] - 1]
        /\ IF user_stop_count[t] = 1 THEN Release(t)
           ELSE UNCHANGED <<suspend_count, state, places>>
        /\ UNCHANGED <<wait_event, wait_result, wait_queue, wake_active, timers,
                       phase, target, cpu, pc, service>>
    BY <1>2 DEF thread_resume
  <2>2. user_stop_count[t] - 1 \in 0..MaxHolds
    BY <1>0, <2>1
  <2>3. /\ user_stop_count' \in [Threads -> 0..MaxHolds]
        /\ \A x \in Threads : user_stop_count'[x] > 0 => user_stop_count[x] > 0
        /\ user_stop_count'[t] = user_stop_count[t] - 1
    BY <1>0, <2>1, <2>2 DEF TypeOK
  <2>4. CASE user_stop_count[t] = 1
    <3>1. suspend_count[t] > 0 /\ user_stop_count'[t] = 0
      BY <1>0, <2>3, <2>4 DEF HoldsOK
    <3> QED
      BY <2>1, <2>3, <2>4, <3>1, ReleaseInv
  <2>5. CASE user_stop_count[t] # 1
    <3>1. TypeOK'
      BY <1>0, <2>1, <2>3, <2>5 DEF TypeOK, timers, places
    <3>2. HoldsOK'
      BY <1>0, <2>1, <2>3, <2>5 DEF HoldsOK
    <3> QED
      BY <2>1, <2>5, <3>1, <3>2, QuietInv
  <2> QED
    BY <2>4, <2>5
<1> QED
  BY <1>1, <1>2

LEMMA SwitchFacts ==
  ASSUME TypeOK, NEW p \in Cpus, NEW n \in runq \cup {"idle", "other"}, SwitchTo(p, n)
  PROVE  /\ cpu' \in [Cpus -> Threads \cup {"idle", "other"}]
         /\ cpu'[p] = n /\ \A q \in Cpus \ {p} : cpu'[q] = cpu[q]
         /\ runq' \subseteq Threads
         /\ \A x \in Threads : x \in runq' <=> x \in runq /\ x # n
         /\ state' \in [Threads -> SUBSET {"R", "W", "S", "N"}]
         /\ \A x \in Threads : /\ "W" \in state'[x] <=> "W" \in state[x]
                               /\ "R" \in state'[x] <=> "R" \in state[x]
                               /\ "S" \in state'[x] <=> "S" \in state[x]
                               /\ "N" \in state'[x] => "N" \in state[x]
         /\ wait_result' \in [Threads -> {None} \cup Results]
<1>0. Threads \cap {"idle", "other"} = {} /\ runq \subseteq Threads
  BY WaitAssumption DEF TypeOK
<1>1. CASE n \in Threads
  <2>1. /\ cpu' = [cpu EXCEPT ![p] = n] /\ runq' = runq \ {n}
        /\ state' = [state EXCEPT ![n] = state[n] \ {"N"}]
        /\ wait_result' = [wait_result EXCEPT ![n] = None]
    BY <1>1 DEF SwitchTo, Resumes
  <2>2. state[n] \ {"N"} \in SUBSET {"R", "W", "S", "N"}
    BY <1>1 DEF TypeOK
  <2>3. state' \in [Threads -> SUBSET {"R", "W", "S", "N"}]
    BY <2>1, <2>2 DEF TypeOK
  <2>4. \A x \in Threads : state'[x] = IF x = n THEN state[x] \ {"N"} ELSE state[x]
    BY <2>1 DEF TypeOK
  <2> QED
    BY <1>0, <1>1, <2>1, <2>3, <2>4 DEF TypeOK, Results
<1>2. CASE n \notin Threads
  BY <1>0, <1>2 DEF SwitchTo, TypeOK, Results
<1> QED
  BY <1>1, <1>2

LEMMA SelectFacts ==
  ASSUME TypeOK, NEW n \in thread_select
  PROVE  n \in runq \cup {"idle", "other"}
BY DEF thread_select, choose_pset_thread

\* A processor that runs no thread of Threads takes one, or none again.
LEMMA SwitchInv ==
  ASSUME WaitInv, NEW p \in Cpus, NEW n \in runq \cup {"idle", "other"}, SwitchTo(p, n),
         cpu[p] \in {"idle", "other"},
         UNCHANGED <<wait_event, wait_queue, holds, timers, phase, target,
                     next_thread, pc, service>>
  PROVE  WaitInv'
<1>0. /\ TypeOK /\ HoldsOK /\ AllPlaced /\ WaitOK /\ AwakeOK
      /\ Threads \cap {"idle", "other"} = {}
  BY WaitAssumption DEF WaitInv
<1>1. /\ cpu' \in [Cpus -> Threads \cup {"idle", "other"}]
      /\ cpu'[p] = n /\ \A q \in Cpus \ {p} : cpu'[q] = cpu[q]
      /\ runq' \subseteq Threads
      /\ \A x \in Threads : x \in runq' <=> x \in runq /\ x # n
      /\ state' \in [Threads -> SUBSET {"R", "W", "S", "N"}]
      /\ \A x \in Threads : /\ "W" \in state'[x] <=> "W" \in state[x]
                            /\ "R" \in state'[x] <=> "R" \in state[x]
      /\ wait_result' \in [Threads -> {None} \cup Results]
  BY <1>0, SwitchFacts
<1>2. TypeOK'
  BY <1>0, <1>1 DEF TypeOK, holds, timers, Results
<1>3. HoldsOK'
  BY <1>0 DEF HoldsOK, holds
<1>4. AllPlaced'
  <2> SUFFICES ASSUME NEW x \in Threads PROVE Placed(x)'
    BY DEF AllPlaced
  <2>0. Placed(x)
    BY <1>0 DEF AllPlaced
  <2>1. CASE x = n
    <3>1. x \in runq /\ \A q \in Cpus : /\ cpu[q] # x /\ next_thread[q] # x
                                        /\ ~Old(q, x)
      BY <1>0, <2>0, <2>1 DEF Placed
    <3>2. \A q \in Cpus : /\ cpu'[q] = x <=> q = p
                          /\ next_thread'[q] # x /\ ~Old(q, x)'
      BY <1>1, <2>1, <3>1 DEF Old
    <3>3. "R" \in state'[x] /\ x \notin runq'
      BY <1>1, <2>0, <2>1, <3>1 DEF Placed, Somewhere
    <3> QED
      BY <3>2, <3>3 DEF Placed, Somewhere
  <2>2. CASE x # n
    <3>1. \A q \in Cpus : cpu'[q] = x <=> cpu[q] = x
      BY <1>0, <1>1, <2>2
    <3> QED
      BY <1>1, <2>0, <2>2, <3>1, StillPlaced DEF Old
  <2> QED
    BY <2>1, <2>2
<1>5. WaitOK'
  BY <1>0, <1>1 DEF WaitOK
<1>6. AwakeOK'
  BY <1>0, <1>1 DEF AwakeOK
<1> QED
  BY <1>2, <1>3, <1>4, <1>5, <1>6 DEF WaitInv

LEMMA IdleStep ==
  ASSUME WaitInv, NEW p \in Cpus, idle_thread(p) \/ other_block(p)
  PROVE  WaitInv'
<1>0. /\ TypeOK /\ HoldsOK /\ AllPlaced /\ WaitOK /\ AwakeOK
      /\ Threads \cap {"idle", "other"} = {}
  BY WaitAssumption DEF WaitInv
<1>1. CASE other_block(p)
  BY <1>0, <1>1, SelectFacts, SwitchInv DEF other_block
<1>2. CASE idle_thread(p) /\ next_thread[p] = None
  BY <1>0, <1>2, SelectFacts, SwitchInv DEF idle_thread
<1>3. CASE idle_thread(p) /\ next_thread[p] # None
  <2>0. PICK n \in Threads : n = next_thread[p]
    BY <1>0, <1>3 DEF TypeOK
  <2>1. /\ cpu[p] = "idle" /\ cpu' = [cpu EXCEPT ![p] = n]
        /\ state' = [state EXCEPT ![n] = state[n] \ {"N"}]
        /\ wait_result' = [wait_result EXCEPT ![n] = None]
        /\ next_thread' = [next_thread EXCEPT ![p] = None]
        /\ UNCHANGED <<runq, wait_event, wait_queue, holds, timers, phase, target, pc,
                       service>>
    BY <1>3, <2>0 DEF idle_thread, Resumes
  <2>2. TypeOK'
    <3>1. state' \in [Threads -> SUBSET {"R", "W", "S", "N"}]
      BY <1>0, <2>1 DEF TypeOK
    <3> QED
      BY <1>0, <2>1, <3>1 DEF TypeOK, holds, timers
  <2>3. HoldsOK'
    BY <1>0, <2>1 DEF HoldsOK, holds
  <2>4. /\ cpu'[p] = n /\ \A q \in Cpus \ {p} : cpu'[q] = cpu[q]
        /\ next_thread'[p] = None
        /\ \A q \in Cpus \ {p} : next_thread'[q] = next_thread[q]
        /\ \A x \in Threads : /\ "W" \in state'[x] <=> "W" \in state[x]
                              /\ "R" \in state'[x] <=> "R" \in state[x]
    BY <1>0, <2>1 DEF TypeOK
  <2>5. None \notin Threads
    BY WaitAssumption
  <2>6. AllPlaced'
    <3> SUFFICES ASSUME NEW x \in Threads PROVE Placed(x)'
      BY DEF AllPlaced
    <3>0. Placed(x)
      BY <1>0 DEF AllPlaced
    <3>1. CASE x = n
      <4>1. /\ x \notin runq
            /\ \A q \in Cpus : cpu[q] # x /\ ~Old(q, x) /\ (next_thread[q] = x => q = p)
        BY <2>0, <3>0, <3>1 DEF Placed
      <4>2. \A q \in Cpus : /\ cpu'[q] = x <=> q = p
                            /\ next_thread'[q] # x /\ ~Old(q, x)'
        BY <2>1, <2>4, <2>5, <3>1, <4>1 DEF Old
      <4>3. "R" \in state'[x]
        BY <2>0, <2>4, <3>0, <3>1 DEF Placed, Somewhere
      <4> QED
        BY <2>1, <4>1, <4>2, <4>3 DEF Placed, Somewhere
    <3>2. CASE x # n
      <4>1. \A q \in Cpus : /\ cpu'[q] = x <=> cpu[q] = x
                            /\ next_thread'[q] = x <=> next_thread[q] = x
        BY <1>0, <2>0, <2>1, <2>4, <2>5, <3>2
      <4> QED
        BY <2>1, <2>4, <3>0, <4>1, StillPlaced DEF Old
    <3> QED
      BY <3>1, <3>2
  <2>7. WaitOK'
    BY <1>0, <2>1, <2>4 DEF WaitOK
  <2>8. AwakeOK'
    BY <1>0, <2>0, <2>1, <2>4, <2>5 DEF AwakeOK
  <2> QED
    BY <2>2, <2>3, <2>6, <2>7, <2>8 DEF WaitInv
<1> QED
  BY <1>1, <1>2, <1>3

LEMMA BlockStep ==
  ASSUME WaitInv, NEW p \in Cpus, NEW u \in Threads, thread_block(p, u)
  PROVE  WaitInv'
<1>0. /\ TypeOK /\ HoldsOK /\ AllPlaced /\ WaitOK /\ AwakeOK
      /\ Threads \cap {"idle", "other"} = {}
  BY WaitAssumption DEF WaitInv
<1>1. PICK n \in runq \cup {"idle", "other"} : SwitchTo(p, n)
  BY <1>0, SelectFacts DEF thread_block
<1>2. /\ cpu[p] = u /\ pc[p] = Free
      /\ pc' = [pc EXCEPT ![p] = [op |-> "dispatch", thread |-> u]]
      /\ phase' = [phase EXCEPT ![u] = IF phase[u] = "sleep" THEN "loop" ELSE "run"]
      /\ UNCHANGED <<wait_event, wait_queue, holds, timers, target, next_thread, service>>
  BY DEF thread_block, Current, Unblocked
<1>3. /\ cpu' \in [Cpus -> Threads \cup {"idle", "other"}]
      /\ cpu'[p] = n /\ \A q \in Cpus \ {p} : cpu'[q] = cpu[q]
      /\ runq' \subseteq Threads
      /\ \A x \in Threads : x \in runq' <=> x \in runq /\ x # n
      /\ state' \in [Threads -> SUBSET {"R", "W", "S", "N"}]
      /\ \A x \in Threads : /\ "W" \in state'[x] <=> "W" \in state[x]
                            /\ "R" \in state'[x] <=> "R" \in state[x]
      /\ wait_result' \in [Threads -> {None} \cup Results]
  BY <1>0, <1>1, SwitchFacts
<1>4. TypeOK'
  <2>1. pc' \in [Cpus -> PcSet]
    BY <1>0, <1>2, PcType, PcFacts
  <2>2. phase' \in [Threads -> Phases]
    BY <1>0, <1>2 DEF TypeOK, Phases
  <2> QED
    BY <1>0, <1>2, <1>3, <2>1, <2>2 DEF TypeOK, holds, timers, PcSet, Results
<1>5. HoldsOK'
  BY <1>0, <1>2 DEF HoldsOK, holds
<1>6. /\ \A q \in Cpus \ {p} : \A x \in Threads : Old(q, x)' <=> Old(q, x)
      /\ \A x \in Threads : ~Old(p, x) /\ (Old(p, x)' <=> x = u)
  <2>1. pc'[p] = [op |-> "dispatch", thread |-> u] /\ \A q \in Cpus \ {p} : pc'[q] = pc[q]
    BY <1>0, <1>2 DEF TypeOK
  <2> QED
    BY <1>2, <2>1 DEF Old, Free
<1>7. /\ u # n /\ u \notin runq
      /\ \A q \in Cpus : /\ next_thread[q] # u /\ ~Old(q, u)
                         /\ cpu[q] = u => q = p
  BY <1>0, <1>2 DEF AllPlaced, Placed
<1>8. AllPlaced'
  <2> SUFFICES ASSUME NEW x \in Threads PROVE Placed(x)'
    BY DEF AllPlaced
  <2>0. Placed(x)
    BY <1>0 DEF AllPlaced
  <2>1. CASE x = n
    <3>1. x \in runq /\ \A q \in Cpus : /\ cpu[q] # x /\ next_thread[q] # x
                                        /\ ~Old(q, x)
      BY <1>0, <2>0, <2>1 DEF Placed
    <3>2. \A q \in Cpus : /\ cpu'[q] = x <=> q = p
                          /\ next_thread'[q] # x /\ ~Old(q, x)'
      BY <1>2, <1>3, <1>6, <1>7, <2>1, <3>1
    <3>3. "R" \in state'[x] /\ x \notin runq'
      BY <1>3, <2>0, <2>1, <3>1 DEF Placed, Somewhere
    <3> QED
      BY <3>2, <3>3 DEF Placed, Somewhere
  <2>2. CASE x = u
    <3>1. \A q \in Cpus : /\ cpu'[q] # x /\ next_thread'[q] # x
                          /\ Old(q, x)' <=> q = p
      BY <1>2, <1>3, <1>6, <1>7, <2>2
    <3>2. "R" \in state'[x] /\ x \notin runq'
      BY <1>2, <1>3, <1>7, <2>0, <2>2 DEF Placed, Somewhere
    <3> QED
      BY <3>1, <3>2 DEF Placed, Somewhere
  <2>3. CASE x # n /\ x # u
    <3>1. \A q \in Cpus : /\ cpu'[q] = x <=> cpu[q] = x
                          /\ next_thread'[q] = x <=> next_thread[q] = x
                          /\ Old(q, x)' <=> Old(q, x)
      BY <1>2, <1>3, <1>6, <2>3
    <3> QED
      BY <1>3, <2>0, <2>3, <3>1, StillPlaced
  <2> QED
    BY <2>1, <2>2, <2>3
<1>9. WaitOK'
  BY <1>0, <1>2, <1>3 DEF WaitOK
<1>10. AwakeOK'
  <2>1. \A x \in Threads \ {u} : phase'[x] = phase[x]
    BY <1>0, <1>2 DEF TypeOK
  <2>2. \A q \in Cpus : cpu'[q] # u
    BY <1>3, <1>7
  <2> QED
    BY <1>0, <1>2, <1>3, <1>7, <2>1, <2>2 DEF AwakeOK
<1> QED
  BY <1>4, <1>5, <1>8, <1>9, <1>10 DEF WaitInv

LEMMA DispatchStep ==
  ASSUME WaitInv, NEW p \in Cpus, thread_dispatch(p)
  PROVE  WaitInv'
<1>0. TypeOK /\ HoldsOK /\ AllPlaced /\ WaitOK /\ AwakeOK
  BY DEF WaitInv
<1>u. PICK u \in Threads : u = pc[p].thread
  <2>1. pc[p] \in PcSet /\ pc[p].op = "dispatch"
    BY <1>0, PcType DEF thread_dispatch
  <2> QED
    BY <2>1, PcFacts
<1>1. /\ pc[p].op = "dispatch" /\ "R" \in state[u]
      /\ IF Stops(state[u]) \/ "W" \in state[u]
         THEN state' = [state EXCEPT ![u] = state[u] \ {"R"}] /\ UNCHANGED places
         ELSE thread_setrun({u}) /\ UNCHANGED state
      /\ Suspended(p, u)
      /\ UNCHANGED <<wait_event, wait_result, wait_queue, suspend_count,
                     user_stop_count, timers, phase, target, cpu, service>>
  BY <1>u DEF thread_dispatch
<1>2. PICK x \in PcSet : x.op # "dispatch" /\ pc' = [pc EXCEPT ![p] = x]
  BY <1>1, PcFacts DEF Suspended
<1>3. wake_active' \in [Threads -> BOOLEAN]
  BY <1>0, <1>1 DEF Suspended, TypeOK
<1>4. /\ pc' \in [Cpus -> PcSet] /\ pc'[p] = x
      /\ \A q \in Cpus \ {p} : pc'[q] = pc[q]
  BY <1>0, <1>2, PcType
<1>5. /\ \A q \in Cpus \ {p} : \A y \in Threads : Old(q, y)' <=> Old(q, y)
      /\ \A y \in Threads : ~Old(p, y)' /\ (Old(p, y) <=> y = u)
  <2>1. \A y \in Threads : Old(p, y) <=> y = u
    BY <1>0, <1>u, <1>1, OldFacts
  <2> QED
    BY <1>2, <1>4, <2>1 DEF Old
<1>6. /\ u \notin runq
      /\ \A q \in Cpus : /\ next_thread[q] # u /\ cpu[q] # u
                         /\ Old(q, u) => q = p
  BY <1>0, <1>5 DEF AllPlaced, Placed
<1>7. HoldsOK'
  BY <1>0, <1>1 DEF HoldsOK
<1>8. \A y \in Threads \ {u}, q \in Cpus : Old(q, y)' <=> Old(q, y)
  BY <1>5
<1>9. CASE Stops(state[u]) \/ "W" \in state[u]
  <2>1. state' = [state EXCEPT ![u] = state[u] \ {"R"}] /\ UNCHANGED places
    BY <1>1, <1>9
  <2>2. state' \in [Threads -> SUBSET {"R", "W", "S", "N"}]
    BY <1>0, <2>1 DEF TypeOK
  <2>3. TypeOK'
    BY <1>0, <1>1, <1>3, <1>4, <2>1, <2>2 DEF TypeOK, timers, places, PcSet, Results
  <2>4. /\ \A y \in Threads \ {u} : state'[y] = state[y]
        /\ "R" \notin state'[u] /\ ("W" \in state'[u] <=> "W" \in state[u])
    BY <1>0, <2>1 DEF TypeOK
  <2>5. AllPlaced'
    <3> SUFFICES ASSUME NEW y \in Threads PROVE Placed(y)'
      BY DEF AllPlaced
    <3>0. Placed(y)
      BY <1>0 DEF AllPlaced
    <3>1. CASE y = u
      <4>1. u \notin runq' /\ \A q \in Cpus : /\ cpu'[q] # u /\ next_thread'[q] # u
                                              /\ ~Old(q, u)'
        BY <1>1, <1>5, <1>6, <2>1 DEF places
      <4> QED
        BY <2>4, <3>1, <4>1 DEF Placed, Somewhere
    <3>2. CASE y # u
      BY <1>1, <1>8, <2>1, <2>4, <3>0, <3>2, StillPlaced DEF places
    <3> QED
      BY <3>1, <3>2
  <2>6. WaitOK'
    BY <1>0, <1>1, <2>4 DEF WaitOK
  <2>7. AwakeOK'
    BY <1>0, <1>1, <2>1, <2>4 DEF AwakeOK, places
  <2> QED
    BY <1>7, <2>3, <2>5, <2>6, <2>7 DEF WaitInv
<1>10. CASE ~(Stops(state[u]) \/ "W" \in state[u])
  <2>1. thread_setrun({u}) /\ UNCHANGED state /\ u \in {u} /\ {u} \subseteq Threads
    BY <1>1, <1>10
  <2>2. /\ runq' \subseteq Threads /\ next_thread' \in [Cpus -> Threads \cup {None}]
        /\ \A y \in Threads \ {u} :
             /\ y \in runq' <=> y \in runq
             /\ \A q \in Cpus : next_thread'[q] = y <=> next_thread[q] = y
    BY <1>0, <2>1, SetrunFacts
  <2>3. TypeOK'
    BY <1>0, <1>1, <1>3, <1>4, <2>1, <2>2 DEF TypeOK, timers, PcSet, Results
  <2>4. AllPlaced'
    <3> SUFFICES ASSUME NEW y \in Threads PROVE Placed(y)'
      BY DEF AllPlaced
    <3>0. Placed(y)
      BY <1>0 DEF AllPlaced
    <3>1. CASE y = u
      <4>1. "R" \in state'[u] /\ \A q \in Cpus : cpu'[q] # u /\ ~Old(q, u)'
        BY <1>1, <1>5, <1>6, <2>1
      <4> QED
        BY <1>0, <1>6, <2>1, <3>1, <4>1, SetrunPlaced
    <3>2. CASE y # u
      BY <1>1, <1>8, <2>1, <2>2, <3>0, <3>2, StillPlaced
    <3> QED
      BY <3>1, <3>2
  <2>5. WaitOK'
    BY <1>0, <1>1, <2>1 DEF WaitOK
  <2>6. AwakeOK'
    BY <1>0, <1>1, <1>10, <2>1, <2>2 DEF AwakeOK
  <2> QED
    BY <1>7, <2>3, <2>4, <2>5, <2>6 DEF WaitInv
<1> QED
  BY <1>9, <1>10

-----------------------------------------------------------------------------
(* The first invariant holds.                                              *)

\* The steps that end no wait.
OtherAct(p) ==
  \/ thread_dispatch(p) \/ service_timer(p) \/ idle_thread(p) \/ other_block(p)
  \/ \E t \in Threads : CalloutStart(p, t)
  \/ \E u \in Threads :
       \/ thread_block(p, u) \/ thread_block_same(p, u) \/ thread_set_timeout(p, u)
       \/ \E e \in Events \cup {None}, b \in BOOLEAN : assert_wait(p, u, e, b)
       \/ \E t \in Threads : \/ thread_dowait(p, u, t)
                             \/ thread_hold(p, u, t) \/ thread_release(p, u, t)
                             \/ thread_suspend(p, u, t) \/ thread_resume(p, u, t)

LEMMA NextCases ==
  ASSUME Next
  PROVE  \E p \in Cpus : EndAct(p) \/ OtherAct(p)
<1>1. PICK p \in Cpus :
        \/ Proceed(p) \/ Block(p) \/ Client(p) \/ idle_thread(p) \/ other_block(p)
        \/ \E t \in Threads : CalloutStart(p, t)
  BY DEF Next
<1>2. EndAct(p) \/ OtherAct(p)
  BY <1>1 DEF EndAct, OtherAct, Proceed, Block, Client
<1> QED
  BY <1>2

LEMMA WaitInit == Init => WaitInv
<1> SUFFICES ASSUME Init PROVE WaitInv
  OBVIOUS
<1>0. /\ 0 \in 0..MaxHolds /\ Threads \cap {"idle", "other"} = {}
      /\ None \notin Threads
  BY WaitAssumption
<1>1. TypeOK
  <2>1. pc \in [Cpus -> PcSet] /\ service \in [Cpus -> {Free} \cup Ops({"service", "timeout"})]
    BY PcFacts DEF Init
  <2>2. wait_queue \in Seq(Threads)
    BY DEF Init
  <2> QED
    BY <1>0, <2>1, <2>2 DEF Init, TypeOK, Phases, PcSet, Results
<1>2. HoldsOK /\ AwakeOK
  BY DEF Init, HoldsOK, AwakeOK
<1>3. WaitOK
  BY EmptyRange DEF Init, WaitOK
<1>4. AllPlaced
  <2>1. \A p \in Cpus, t \in Threads : ~Old(p, t) /\ cpu[p] # t /\ next_thread[p] # t
    BY <1>0 DEF Init, Old, Free
  <2> QED
    BY <2>1 DEF Init, AllPlaced, Placed, Somewhere
<1> QED
  BY <1>1, <1>2, <1>3, <1>4 DEF WaitInv

LEMMA WaitStep == WaitInv /\ [Next]_vars => WaitInv'
<1> SUFFICES ASSUME WaitInv, [Next]_vars PROVE WaitInv'
  OBVIOUS
<1>1. CASE UNCHANGED vars
  BY <1>1 DEF vars, waits, holds, timers, places, WaitInv, TypeOK, HoldsOK, AllPlaced,
              Placed, Somewhere, Old, WaitOK, AwakeOK
<1>2. ASSUME NEW p \in Cpus, EndAct(p) PROVE WaitInv'
  BY <1>2, EndStepsInv
<1>3. ASSUME NEW p \in Cpus, OtherAct(p) PROVE WaitInv'
  BY <1>3, DispatchStep, TimerSteps, IdleStep, BlockStep, BlockSameStep, AssertStep,
     DowaitStep, HoldStep, ReleaseStep DEF OtherAct
<1> QED
  BY <1>1, <1>2, <1>3, NextCases

\* On any number of processors the types, the wait queue, the places of the
\* threads and the wait bits agree with one another at every step.
THEOREM WaitInvariant == Spec => []WaitInv
BY WaitInit, WaitStep, PTL DEF Spec

-----------------------------------------------------------------------------
(* What a step does to the bits of a state.                                *)

LEMMA OtherBits ==
  ASSUME TypeOK, NEW p \in Cpus, OtherAct(p), NEW t \in Threads
  PROVE  /\ "W" \in state[t] => "W" \in state'[t]
         /\ "R" \in state'[t] => "R" \in state[t] \/ suspend_count'[t] = 0
<1>0. state \in [Threads -> SUBSET {"R", "W", "S", "N"}]
  BY DEF TypeOK
<1>1. CASE thread_dispatch(p)
  <2>1. /\ \/ state' = [state EXCEPT ![pc[p].thread] = state[pc[p].thread] \ {"R"}]
           \/ UNCHANGED state
    BY <1>1 DEF thread_dispatch
  <2> QED
    BY <1>0, <2>1
<1>2. CASE \/ service_timer(p) \/ \E u \in Threads : CalloutStart(p, u)
           \/ \E u \in Threads : thread_set_timeout(p, u)
  <2>1. UNCHANGED state
    BY <1>2 DEF service_timer, CalloutStart, thread_set_timeout, waits
  <2> QED
    BY <2>1
<1>3. CASE \/ idle_thread(p) \/ other_block(p)
           \/ \E u \in Threads : thread_block(p, u) \/ thread_block_same(p, u)
  <2>1. \/ UNCHANGED state
        \/ \E n : state' = [state EXCEPT ![n] = state[n] \ {"N"}]
    BY <1>3 DEF idle_thread, other_block, thread_block, thread_block_same, SwitchTo, Resumes
  <2> QED
    BY <1>0, <2>1
<1>4. CASE \/ \E u \in Threads, e \in Events \cup {None}, b \in BOOLEAN : assert_wait(p, u, e, b)
           \/ \E u, x \in Threads : thread_dowait(p, u, x)
  <2>1. \/ UNCHANGED state
        \/ \E u \in Threads, bits \in {{"W"}, {"W", "N"}} :
             state' = [state EXCEPT ![u] = state[u] \cup bits]
        \/ \E x \in Threads : state[x] = {"R", "S"} /\ state' = [state EXCEPT ![x] = {"S"}]
    BY <1>4 DEF assert_wait, thread_dowait, PullOff, AssertWait, waits
  <2> QED
    BY <1>0, <2>1
<1>5. CASE \E u, x \in Threads : thread_hold(p, u, x) \/ thread_suspend(p, u, x)
  <2>1. \/ UNCHANGED state
        \/ \E x \in Threads : state' = [state EXCEPT ![x] = state[x] \cup {"S"}]
    BY <1>5 DEF thread_hold, thread_suspend, Hold
  <2> QED
    BY <1>0, <2>1
<1>6. CASE \E u, x \in Threads : thread_release(p, u, x) \/ thread_resume(p, u, x)
  <2>1. PICK x \in Threads : UNCHANGED <<suspend_count, state>> \/ Release(x)
    BY <1>6 DEF thread_release, thread_resume
  <2>2. CASE UNCHANGED state
    BY <2>2
  <2>3. CASE Release(x)
    <3>1. suspend_count' = [suspend_count EXCEPT ![x] = suspend_count[x] - 1]
      BY <2>3 DEF Release
    <3>2. \/ /\ suspend_count[x] = 1
             /\ state' = [state EXCEPT ![x] = (state[x] \ {"S"}) \cup {"R"}]
          \/ state' = [state EXCEPT ![x] = state[x] \ {"S"}]
          \/ state' = [state EXCEPT ![x] = state[x]]
      BY <2>3 DEF Release
    <3>3. suspend_count[x] = 1 => suspend_count'[x] = 0
      BY <3>1 DEF TypeOK
    <3> QED
      BY <1>0, <3>2, <3>3
  <2> QED
    BY <2>1, <2>2, <2>3
<1> QED
  BY <1>1, <1>2, <1>3, <1>4, <1>5, <1>6 DEF OtherAct

\* Who ends a wait, and with what result.
LEMMA EndCases ==
  ASSUME TypeOK, NEW p \in Cpus, EndAct(p)
  PROVE  \/ UNCHANGED <<waits, timers, places>>
         \/ \E S \in SUBSET Threads, r \in Results :
              /\ End(S, r)
              /\ \/ r = "AWAKENED"
                 \/ /\ r = "INTERRUPTED" /\ pc[p] = Free
                    /\ \A t \in S : "N" \notin state[t]
                 \/ /\ r = "TIMED_OUT" /\ service[p].op = "timeout" /\ pc[p] = Free
                    /\ S = {service[p].thread}
                 \/ pc[p].op = "clear" /\ S = {pc[p].thread} /\ r = pc[p].result
<1>r. "AWAKENED" \in Results /\ "TIMED_OUT" \in Results /\ "INTERRUPTED" \in Results
  BY DEF Results
<1>w. ASSUME NEW e, NEW one \in BOOLEAN, WakeupPrim(e, one, "AWAKENED")
      PROVE  \E S \in SUBSET Threads : End(S, "AWAKENED")
  BY <1>w, WakeupFacts
<1>1. CASE ClearFinish(p)
  <2>1. pc[p] \in PcSet /\ pc[p].op = "clear"
    BY <1>1, PcType DEF ClearFinish
  <2>2. {pc[p].thread} \in SUBSET Threads /\ pc[p].result \in Results
    BY <2>1, PcFacts
  <2>3. \/ UNCHANGED <<waits, timers, places>>
        \/ End({pc[p].thread}, pc[p].result)
    BY <1>1 DEF ClearFinish
  <2> QED
    BY <2>1, <2>2, <2>3
<1>2. CASE WakeSuspenders(p)
  BY <1>2, <1>r, <1>w DEF WakeSuspenders
<1>3. CASE thread_timeout(p)
  <2>1. service[p].op = "timeout" /\ pc[p] = Free
    BY <1>3 DEF thread_timeout
  <2>2. {service[p].thread} \in SUBSET Threads
    BY <2>1 DEF TypeOK, Free, Ops
  <2>3. \/ UNCHANGED <<waits, timers, places>>
        \/ End({service[p].thread}, "TIMED_OUT")
    BY <1>3 DEF thread_timeout, ClearStart
  <2> QED
    BY <1>r, <2>1, <2>2, <2>3
<1>4. ASSUME NEW u \in Threads, DowaitWake(p, u)
      PROVE  \E S \in SUBSET Threads : End(S, "AWAKENED")
  BY <1>4, <1>w DEF DowaitWake
<1>5. ASSUME NEW e, NEW one \in BOOLEAN, thread_wakeup_prim(p, e, one, "AWAKENED")
      PROVE  \E S \in SUBSET Threads : End(S, "AWAKENED")
  BY <1>5, <1>w DEF thread_wakeup_prim
<1>6. ASSUME NEW t \in Threads, clear_wait(p, t, "AWAKENED", FALSE)
      PROVE  \/ UNCHANGED <<waits, timers, places>>
             \/ End({t}, "AWAKENED") /\ {t} \in SUBSET Threads
  BY <1>6 DEF clear_wait, ClearStart
<1>7. ASSUME NEW t \in Threads, clear_wait(p, t, "INTERRUPTED", TRUE)
      PROVE  \/ UNCHANGED <<waits, timers, places>>
             \/ /\ End({t}, "INTERRUPTED") /\ {t} \in SUBSET Threads
                /\ pc[p] = Free /\ \A x \in {t} : "N" \notin state[x]
  BY <1>7 DEF clear_wait, ClearStart, LowSpl
<1> QED
  BY <1>r, <1>1, <1>2, <1>3, <1>4, <1>5, <1>6, <1>7 DEF EndAct

-----------------------------------------------------------------------------
(* One place, and stopped threads.                                         *)

\* On any number of processors a thread marked TH_RUN is in exactly one place
\* (a run queue, a processor, an idle processor's next_thread, the dispatch of
\* the thread just left) and any other thread is in none, whoever wakes,
\* suspends, resumes or dispatches it.
THEOREM ThreadsPlaced == Spec => []OnePlace
<1>1. WaitInv => OnePlace
  <2> SUFFICES ASSUME WaitInv, NEW t \in Threads
               PROVE  /\ "R" \in state[t] <=> Places(t) # {}
                      /\ \A a, b \in Places(t) : a = b
    BY DEF OnePlace
  <2>1. Placed(t)
    BY DEF WaitInv, AllPlaced
  <2>2. Places(t) # {} <=> Somewhere(t)
    BY DEF Places, Somewhere, Old
  <2>3. ASSUME NEW a \in Places(t), NEW b \in Places(t)
        PROVE  a = b
    <3>1. \A x \in Places(t) :
            \/ x = <<"runq", 0>> /\ t \in runq
            \/ \E p \in Cpus : \/ x = <<"cpu", p>> /\ cpu[p] = t
                               \/ x = <<"next", p>> /\ next_thread[p] = t
                               \/ x = <<"old", p>> /\ Old(p, t)
      BY DEF Places, Old
    <3> QED
      BY <2>1, <3>1 DEF Placed
  <2> QED
    BY <2>1, <2>2, <2>3 DEF Placed
<1> QED
  BY <1>1, WaitInvariant, PTL

\* No wakeup, timeout or interrupt makes a stopped thread runnable: it gets
\* TH_RUN only from the thread_release or thread_resume that takes its
\* suspend_count to 0.
THEOREM StoppedStay == Spec => StaysStopped
<1>1. ASSUME WaitInv, [Next]_vars, NEW t \in Threads,
             "S" \in state[t], state[t] \cap {"R", "N"} = {}, "R" \in state'[t]
      PROVE  suspend_count'[t] = 0
  <2>1. TypeOK
    BY <1>1 DEF WaitInv
  <2>2. state' # state
    BY <1>1
  <2>3. PICK p \in Cpus : EndAct(p) \/ OtherAct(p)
    BY <1>1, <2>2, NextCases DEF vars, waits
  <2>4. ~EndAct(p)
    <3>1. ASSUME NEW S \in SUBSET Threads, NEW r \in Results, End(S, r)
          PROVE  FALSE
      <4>1. "R" \in state[t] \/ Runs(t)
        BY <1>1, <2>1, <3>1, EndFacts
      <4> QED
        BY <1>1, <4>1 DEF Runs
    <3> QED
      BY <2>1, <2>2, <3>1, EndCases DEF waits
  <2> QED
    BY <1>1, <2>1, <2>3, <2>4, OtherBits
<1>2. WaitInv /\ [Next]_vars =>
        [\A t \in Threads :
           /\ "S" \in state[t] /\ state[t] \cap {"R", "N"} = {}
           /\ "R" \in state'[t]
           => suspend_count'[t] = 0]_vars
  BY <1>1
<1> QED
  BY <1>2, WaitInvariant, PTL DEF Spec, StaysStopped

-----------------------------------------------------------------------------
(* Suspenders.                                                             *)

\* Someone will wake those who wait for t to stop.
Coming(t) ==
  \/ wake_active[t]
  \/ \E p \in Cpus : pc[p] = [op |-> "stopped", thread |-> t]
  \/ \E v \in Threads : phase[v] = "wake" /\ target[v] = t

\* A step after which nobody else waits for t, and that takes away nothing that
\* will wake the others.
LEMMA StillComing ==
  ASSUME SuspenderRemembered, NEW t \in Threads, NEW u \in Threads, wait_event'[u] = t,
         wait_event[u] = t,
         wake_active[t] => wake_active'[t],
         \A p \in Cpus : pc[p] = [op |-> "stopped", thread |-> t] => pc'[p] = pc[p],
         \A v \in Threads : phase[v] = "wake" /\ target[v] = t =>
                              phase'[v] = "wake" /\ target'[v] = t
  PROVE  Coming(t)'
BY DEF SuspenderRemembered, Coming

\* A processor that was not about to wake anybody.
LEMMA OthersStopped ==
  ASSUME TypeOK, NEW p \in Cpus, pc[p].op # "stopped",
         UNCHANGED pc \/ \E x : pc' = [pc EXCEPT ![p] = x],
         NEW t \in Threads, NEW q \in Cpus, pc[q] = [op |-> "stopped", thread |-> t]
  PROVE  pc'[q] = pc[q]
<1>1. q # p
  OBVIOUS
<1> QED
  BY <1>1 DEF TypeOK

\* A thread that was not about to wake anybody.
LEMMA OthersWaking ==
  ASSUME TypeOK, NEW u \in Threads, phase[u] # "wake",
         UNCHANGED phase \/ \E x : phase' = [phase EXCEPT ![u] = x],
         UNCHANGED target \/ \E x : target' = [target EXCEPT ![u] = x],
         NEW v \in Threads, phase[v] = "wake"
  PROVE  phase'[v] = "wake" /\ target'[v] = target[v]
<1>1. v # u
  OBVIOUS
<1> QED
  BY <1>1 DEF TypeOK

\* A wakeup of all who wait for x leaves nobody who does.
LEMMA AllAwake ==
  ASSUME WaitInv, NEW x \in Threads, WakeupPrim(x, FALSE, "AWAKENED"),
         NEW u \in Threads, wait_event'[u] \in Threads
  PROVE  wait_event'[u] = wait_event[u] /\ wait_event[u] # x
<1>0. TypeOK /\ WaitOK /\ None \notin Threads /\ "AWAKENED" \in Results
  BY WaitAssumption DEF WaitInv, Results
<1>1. PICK S : /\ S \subseteq Threads /\ End(S, "AWAKENED")
               /\ \A t \in Range(wait_queue) : wait_event[t] = x => t \in S
  BY <1>0, WakeupFacts
<1>2. wait_event'[u] = IF u \in S THEN None ELSE wait_event[u]
  BY <1>0, <1>1, EndFacts
<1>3. wait_event[u] = x => u \in Range(wait_queue)
  BY <1>0 DEF WaitOK
<1> QED
  BY <1>0, <1>1, <1>2, <1>3

\* No step that ends waits makes anybody wait.
LEMMA EndEvents ==
  ASSUME TypeOK, NEW p \in Cpus, EndAct(p), NEW u \in Threads, wait_event'[u] \in Threads
  PROVE  wait_event'[u] = wait_event[u]
<1>1. CASE UNCHANGED <<waits, timers, places>>
  BY <1>1 DEF waits
<1>2. ASSUME NEW S \in SUBSET Threads, NEW r \in Results, End(S, r)
      PROVE  wait_event'[u] = wait_event[u]
  <2>1. wait_event' = [t \in Threads |-> IF t \in S THEN None ELSE wait_event[t]]
    BY <1>2 DEF End
  <2> QED
    BY <2>1, WaitAssumption
<1> QED
  BY <1>1, <1>2, EndCases

LEMMA RememberStep ==
  ASSUME WaitInv, SuspenderRemembered, NEW p \in Cpus, EndAct(p) \/ OtherAct(p)
  PROVE  SuspenderRemembered'
<1> SUFFICES ASSUME NEW u \in Threads, NEW t \in Threads, wait_event'[u] = t
             PROVE  Coming(t)'
  BY DEF SuspenderRemembered, Coming
<1>0. /\ TypeOK /\ WaitOK /\ None \notin Threads /\ Threads \cap Events = {}
      /\ pc \in [Cpus -> PcSet] /\ pc[p] \in PcSet
  BY WaitAssumption, PcType DEF WaitInv
<1>f. pc[p] = Free => pc[p].op # "stopped"
  BY DEF Free
\* Steps that wake by event or thread, but not those who wait for a stop.
<1>1. CASE \/ ClearFinish(p) \/ thread_timeout(p)
           \/ \E e \in Events, one \in BOOLEAN : thread_wakeup_prim(p, e, one, "AWAKENED")
           \/ \E x \in Threads : \/ clear_wait(p, x, "INTERRUPTED", TRUE)
                                 \/ clear_wait(p, x, "AWAKENED", FALSE)
  <2>1. wait_event[u] = t
    BY <1>0, <1>1, EndEvents DEF EndAct
  <2>2. UNCHANGED <<holds, phase, target>>
    BY <1>1 DEF ClearFinish, thread_timeout, thread_wakeup_prim, clear_wait
  <2>3. /\ pc[p].op # "stopped"
        /\ UNCHANGED pc \/ \E x : pc' = [pc EXCEPT ![p] = x]
    BY <1>1, <1>f DEF ClearFinish, thread_timeout, thread_wakeup_prim, clear_wait,
                      ClearStart, LowSpl
  <2>4. \A q \in Cpus : pc[q] = [op |-> "stopped", thread |-> t] => pc'[q] = pc[q]
    BY <1>0, <2>3, OthersStopped
  <2> QED
    BY <2>1, <2>2, <2>4, StillComing DEF holds
<1>2. CASE WakeSuspenders(p)
  <2>1. PICK x \in Threads : x = pc[p].thread
    BY <1>0, <1>2, PcFacts DEF WakeSuspenders, Free
  <2>2. WakeupPrim(x, FALSE, "AWAKENED")
    BY <1>2, <2>1 DEF WakeSuspenders
  <2>3. wait_event[u] = t /\ t # x
    BY <2>2, AllAwake
  <2>4. UNCHANGED <<holds, phase, target>> /\ pc' = [pc EXCEPT ![p] = Free]
    BY <1>2 DEF WakeSuspenders
  <2>5. \A q \in Cpus : pc[q] = [op |-> "stopped", thread |-> t] => pc'[q] = pc[q]
    BY <1>0, <2>1, <2>3, <2>4
  <2> QED
    BY <2>3, <2>4, <2>5, StillComing DEF holds
<1>3. ASSUME NEW v \in Threads, DowaitWake(p, v)
      PROVE  Coming(t)'
  <2>1. PICK x : x = target[v]
    OBVIOUS
  <2>2. WakeupPrim(x, FALSE, "AWAKENED")
    BY <1>3, <2>1 DEF DowaitWake
  <2>3. wait_event[u] = t
    BY <1>0, <1>3, EndEvents DEF EndAct
  <2>4. t # x
    BY <2>2, AllAwake
  <2>5. /\ phase' = [phase EXCEPT ![v] = "run"] /\ target' = [target EXCEPT ![v] = None]
        /\ UNCHANGED <<holds, pc>>
    BY <1>3 DEF DowaitWake
  <2>6. \A w \in Threads : phase[w] = "wake" /\ target[w] = t =>
                             phase'[w] = "wake" /\ target'[w] = t
    BY <1>0, <2>1, <2>4, <2>5 DEF TypeOK
  <2> QED
    BY <2>3, <2>5, <2>6, StillComing DEF holds
\* A thread that has stopped passes on what wake_active says.
<1>4. CASE thread_dispatch(p)
  <2>1. PICK x \in Threads : x = pc[p].thread
    BY <1>0, <1>4, PcFacts DEF thread_dispatch, Free
  <2>2. /\ pc[p].op = "dispatch" /\ Suspended(p, x)
        /\ UNCHANGED <<wait_event, phase, target>>
    BY <1>4, <2>1 DEF thread_dispatch
  <2>3. \A q \in Cpus : pc[q] = [op |-> "stopped", thread |-> t] => pc'[q] = pc[q]
    BY <1>0, <2>2, OthersStopped DEF Suspended
  <2>4. CASE wake_active[t] => wake_active'[t]
    BY <2>2, <2>3, <2>4, StillComing
  <2>5. CASE ~(wake_active[t] => wake_active'[t])
    <3>1. t = x /\ pc' = [pc EXCEPT ![p] = [op |-> "stopped", thread |-> x]]
      BY <1>0, <2>2, <2>5 DEF Suspended, TypeOK
    <3> QED
      BY <1>0, <3>1 DEF Coming
  <2> QED
    BY <2>4, <2>5
\* Steps that leave alone who waits and who will wake.
<1>5. CASE \/ service_timer(p) \/ idle_thread(p) \/ other_block(p)
           \/ \E x \in Threads : CalloutStart(p, x)
           \/ \E v \in Threads :
                \/ thread_set_timeout(p, v)
                \/ \E x \in Threads : thread_release(p, v, x) \/ thread_resume(p, v, x)
  <2>1. UNCHANGED <<wait_event, wake_active, pc, phase, target>>
    BY <1>5 DEF service_timer, idle_thread, other_block, CalloutStart, thread_set_timeout,
                thread_release, thread_resume, waits, holds
  <2> QED
    BY <2>1, StillComing
<1>6. ASSUME NEW v \in Threads,
             \/ thread_block(p, v) \/ thread_block_same(p, v)
             \/ \E e \in Events \cup {None}, b \in BOOLEAN : assert_wait(p, v, e, b)
             \/ \E x \in Threads : thread_hold(p, v, x) \/ thread_suspend(p, v, x)
      PROVE  Coming(t)'
  <2>1. /\ pc[p] = Free /\ phase[v] # "wake" /\ UNCHANGED wake_active
        /\ UNCHANGED pc \/ \E x : pc' = [pc EXCEPT ![p] = x]
        /\ UNCHANGED phase \/ \E x : phase' = [phase EXCEPT ![v] = x]
        /\ UNCHANGED target \/ \E x : target' = [target EXCEPT ![v] = x]
    BY <1>6 DEF thread_block, thread_block_same, assert_wait, thread_hold, thread_suspend,
                Current, Unblocked, Hold, holds
  <2>2. wait_event[u] = t
    <3>1. \/ UNCHANGED wait_event
          \/ \E e \in Events \cup {None} : wait_event' = [wait_event EXCEPT ![v] = e]
      BY <1>6 DEF thread_block, thread_block_same, assert_wait, thread_hold,
                  thread_suspend, AssertWait
    <3> QED
      BY <1>0, <3>1 DEF TypeOK
  <2>3. \A q \in Cpus : pc[q] = [op |-> "stopped", thread |-> t] => pc'[q] = pc[q]
    BY <1>0, <1>f, <2>1, OthersStopped
  <2>4. \A w \in Threads : phase[w] = "wake" /\ target[w] = t =>
                             phase'[w] = "wake" /\ target'[w] = t
    BY <1>0, <2>1, OthersWaking
  <2> QED
    BY <2>1, <2>2, <2>3, <2>4, StillComing
\* Who finds its target on a run queue takes over the wake-up; who does not
\* leaves word.
<1>7. ASSUME NEW v \in Threads, NEW x \in Threads, thread_dowait(p, v, x)
      PROVE  Coming(t)'
  <2>1. /\ phase[v] # "wake" /\ UNCHANGED pc
        /\ UNCHANGED phase \/ \E y : phase' = [phase EXCEPT ![v] = y]
        /\ UNCHANGED target \/ \E y : target' = [target EXCEPT ![v] = y]
    BY <1>7 DEF thread_dowait, PullOff, Current
  <2>2. \A w \in Threads : phase[w] = "wake" /\ target[w] = t =>
                             phase'[w] = "wake" /\ target'[w] = t
    BY <1>0, <2>1, OthersWaking
  <2>3. CASE wait_event[u] = t /\ (wake_active[t] => wake_active'[t])
    BY <2>1, <2>2, <2>3, StillComing
  <2>4. CASE wait_event[u] # t
    <3>1. /\ wake_active' = [wake_active EXCEPT ![x] = TRUE]
          /\ wait_event' = [wait_event EXCEPT ![v] = x]
      BY <1>7, <2>4 DEF thread_dowait, PullOff, AssertWait, waits
    <3> QED
      BY <1>0, <2>4, <3>1 DEF Coming, TypeOK
  <2>5. CASE wake_active[t] /\ ~wake_active'[t]
    <3>1. \/ UNCHANGED wake_active
          \/ wake_active' = [wake_active EXCEPT ![x] = TRUE]
          \/ /\ wake_active' = [wake_active EXCEPT ![x] = FALSE]
             /\ phase' = [phase EXCEPT ![v] = IF wake_active[x] THEN "wake" ELSE "run"]
             /\ target' = [target EXCEPT ![v] = IF wake_active[x] THEN x ELSE None]
      BY <1>7 DEF thread_dowait, PullOff
    <3>2. /\ t = x
          /\ phase' = [phase EXCEPT ![v] = IF wake_active[x] THEN "wake" ELSE "run"]
          /\ target' = [target EXCEPT ![v] = IF wake_active[x] THEN x ELSE None]
      BY <1>0, <2>5, <3>1 DEF TypeOK
    <3> QED
      BY <1>0, <2>5, <3>2 DEF Coming, TypeOK
  <2> QED
    BY <2>3, <2>4, <2>5
<1> QED
  BY <1>1, <1>2, <1>3, <1>4, <1>5, <1>6, <1>7 DEF EndAct, OtherAct

\* Who sleeps in thread_dowait until t stops is never forgotten, on any number
\* of processors and with any number of suspenders: wake_active is set, or the
\* dispatcher or another suspender that cleared it has yet to do its
\* thread_wakeup.
THEOREM SuspendersKept == Spec => []SuspenderRemembered
<1>1. Init => SuspenderRemembered
  BY WaitAssumption DEF Init, SuspenderRemembered
<1>2. ASSUME WaitInv, SuspenderRemembered, [Next]_vars
      PROVE  SuspenderRemembered'
  <2>1. CASE UNCHANGED vars
    BY <1>2, <2>1 DEF vars, waits, holds, SuspenderRemembered
  <2> QED
    BY <1>2, <2>1, NextCases, RememberStep
<1>3. WaitInv /\ SuspenderRemembered /\ [Next]_vars => SuspenderRemembered'
  BY <1>2
<1> QED
  BY <1>1, <1>3, WaitInvariant, PTL DEF Spec

-----------------------------------------------------------------------------
(* Timers.                                                                 *)

LEMMA ServiceFacts ==
  ASSUME TypeOK, NEW p \in Cpus
  PROVE  /\ service[p] = Free <=> service[p].op = "free"
         /\ service[p].op \in {"free", "service", "timeout"}
         /\ service[p] # Free => service[p].thread \in Threads
<1>1. service[p] \in {Free} \cup Ops({"service", "timeout"})
  BY DEF TypeOK
<1>2. CASE service[p] = Free
  BY <1>2 DEF Free
<1>3. CASE service[p] \in Ops({"service", "timeout"})
  BY <1>3 DEF Ops, Free
<1> QED
  BY <1>1, <1>2, <1>3

\* No timer is set, and no processor taken from its callout thread.
LEMMA TimerQuiet ==
  ASSUME TypeOK, TimerInv,
         \A t \in Threads : set'[t] => set[t],
         \A p \in Cpus : service'[p] = service[p] \/ service'[p] = Free,
         \A p \in Cpus : cpu'[p] = cpu[p] \/ service[p] = Free
  PROVE  TimerInv'
<1>1. \A t \in Threads \ Timed : ~set'[t]
  BY DEF TimerInv
<1>2. ASSUME NEW p \in Cpus, service'[p] # Free
      PROVE  /\ cpu'[p] = "other"
             /\ service'[p].op = "timeout" => ~set'[service'[p].thread]
  <2>1. service'[p] = service[p] /\ service[p] # Free
    BY <1>2
  <2>2. service[p].thread \in Threads
    BY <2>1, ServiceFacts
  <2> QED
    BY <2>1, <2>2 DEF TimerInv
<1>3. Free.op # "timeout"
  BY DEF Free
<1> QED
  BY <1>1, <1>2, <1>3 DEF TimerInv

LEMMA EndTimers ==
  ASSUME TypeOK, NEW p \in Cpus, EndAct(p)
  PROVE  /\ \A t \in Threads : set'[t] => set[t]
         /\ \A q \in Cpus : service'[q] = service[q] \/ service'[q] = Free
         /\ UNCHANGED cpu
<1>1. \A t \in Threads : set'[t] => set[t]
  <2>1. CASE UNCHANGED <<waits, timers, places>>
    BY <2>1 DEF timers
  <2>2. ASSUME NEW S \in SUBSET Threads, NEW r \in Results, End(S, r)
        PROVE  \A t \in Threads : set'[t] => set[t]
    BY <2>2 DEF End, reset_timeout
  <2> QED
    BY <2>1, <2>2, EndCases
<1>2. UNCHANGED cpu /\ (UNCHANGED service \/ service' = [service EXCEPT ![p] = Free])
  BY DEF EndAct, ClearFinish, WakeSuspenders, thread_timeout, DowaitWake,
         thread_wakeup_prim, clear_wait
<1> QED
  BY <1>1, <1>2 DEF TypeOK

LEMMA TimerStep ==
  ASSUME Unraced, TypeOK, TimerInv, NEW p \in Cpus, EndAct(p) \/ OtherAct(p)
  PROVE  TimerInv'
<1>0. Threads \cap {"idle", "other"} = {}
  BY WaitAssumption
<1>1. CASE EndAct(p)
  BY <1>1, EndTimers, TimerQuiet
<1>2. ASSUME NEW u \in Threads, thread_set_timeout(p, u)
      PROVE  TimerInv'
  <2>1. /\ u \in Timed /\ cpu[p] = u /\ UNCHANGED <<cpu, service>>
        /\ set' = [set EXCEPT ![u] = TRUE]
    BY <1>2 DEF thread_set_timeout, Current, set_timeout
  <2>2. Cpus = {p}
    BY <2>1 DEF Unraced
  <2>3. service[p] = Free
    BY <1>0, <2>1 DEF TimerInv
  <2>4. Free.op # "timeout"
    BY DEF Free
  <2> QED
    BY <2>1, <2>2, <2>3, <2>4 DEF TimerInv, TypeOK
<1>3. CASE service_timer(p)
  <2>1. /\ set' = [set EXCEPT ![service[p].thread] = FALSE] /\ UNCHANGED cpu
        /\ service' = [service EXCEPT ![p].op = "timeout"]
        /\ service[p].op = "service"
    BY <1>3 DEF service_timer
  <2>2. service[p].thread \in Threads /\ service[p] # Free
    BY <2>1, ServiceFacts
  <2>3. service'[p].thread = service[p].thread /\ \A q \in Cpus \ {p} : service'[q] = service[q]
    BY <2>1, <2>2 DEF TypeOK, Ops
  <2>4. \A t \in Threads : set'[t] => set[t]
    BY <2>1 DEF TypeOK
  <2>5. ~set'[service[p].thread]
    BY <2>1, <2>2 DEF TypeOK
  <2>6. ASSUME NEW q \in Cpus \ {p}, service[q].op = "timeout"
        PROVE  ~set'[service[q].thread]
    <3>1. service[q].thread \in Threads
      BY <2>6, ServiceFacts
    <3> QED
      BY <2>4, <2>6, <3>1 DEF TimerInv
  <2>7. cpu[p] = "other"
    BY <2>2 DEF TimerInv
  <2> QED
    BY <2>1, <2>3, <2>4, <2>5, <2>6, <2>7 DEF TimerInv
<1>4. ASSUME NEW t \in Threads, CalloutStart(p, t)
      PROVE  TimerInv'
  <2>1. /\ cpu[p] = "other" /\ UNCHANGED <<set, cpu>>
        /\ service' = [service EXCEPT ![p] = [op |-> "service", thread |-> t]]
    BY <1>4 DEF CalloutStart
  <2>2. /\ service'[p].op = "service"
        /\ \A q \in Cpus \ {p} : service'[q] = service[q]
    BY <2>1 DEF TypeOK
  <2> QED
    BY <2>1, <2>2 DEF TimerInv
<1>5. CASE \/ idle_thread(p) \/ other_block(p)
           \/ \E u \in Threads : thread_block(p, u)
  <2>1. /\ UNCHANGED <<set, service>>
        /\ \E n : cpu' = [cpu EXCEPT ![p] = n]
        /\ cpu[p] # "other" \/ service[p] = Free
    BY <1>0, <1>5 DEF idle_thread, other_block, thread_block, SwitchTo, Current, timers
  <2>2. service[p] = Free /\ \A q \in Cpus \ {p} : cpu'[q] = cpu[q]
    BY <2>1 DEF TimerInv, TypeOK
  <2> QED
    BY <2>1, <2>2, TimerQuiet
<1>6. CASE \/ thread_dispatch(p)
           \/ \E u \in Threads :
                \/ thread_block_same(p, u)
                \/ \E e \in Events \cup {None}, b \in BOOLEAN : assert_wait(p, u, e, b)
                \/ \E t \in Threads : \/ thread_dowait(p, u, t)
                                      \/ thread_hold(p, u, t) \/ thread_release(p, u, t)
                                      \/ thread_suspend(p, u, t) \/ thread_resume(p, u, t)
  <2>1. UNCHANGED <<set, service, cpu>>
    BY <1>6 DEF thread_dispatch, thread_block_same, assert_wait, thread_dowait, PullOff, thread_hold,
                thread_release, thread_suspend, thread_resume, timers
  <2> QED
    BY <2>1, TimerQuiet
<1> QED
  BY <1>1, <1>2, <1>3, <1>4, <1>5, <1>6 DEF OtherAct

LEMMA TimerInvariant == ASSUME Unraced PROVE Spec => []TimerInv
<1>1. Init => TimerInv
  BY DEF Init, TimerInv, Free
<1>2. ASSUME WaitInv, TimerInv, [Next]_vars
      PROVE  TimerInv'
  <2>1. CASE UNCHANGED vars
    BY <1>2, <2>1 DEF vars, timers, TimerInv
  <2> QED
    BY <1>2, <2>1, NextCases, TimerStep DEF WaitInv
<1>3. WaitInv /\ TimerInv /\ [Next]_vars => TimerInv'
  BY <1>2
<1> QED
  BY <1>1, <1>3, WaitInvariant, PTL DEF Spec

\* The kernel does not panic over a wait: assert_wait finds no event, the wait
\* queue is what the wait_events say it is, thread_dispatch finds its thread
\* marked TH_RUN, and thread_timeout its timer unset.  The last needs that a
\* callout thread cannot run beside the thread that sets the timer again: on
\* several processors it can, so the theorem is for one processor or for threads
\* that set no timeouts.
THEOREM KernelNeverPanics == ASSUME Unraced PROVE Spec => []NoPanic
<1>1. ASSUME WaitInv, TimerInv PROVE NoPanic
  <2>1. TypeOK /\ AllPlaced /\ WaitOK /\ AwakeOK
    BY <1>1 DEF WaitInv
  <2>2. \A i, j \in DOMAIN wait_queue : wait_queue[i] = wait_queue[j] => i = j
    BY <2>1 DEF WaitOK, IsInjective
  <2>3. ASSUME NEW t \in Threads, NEW p \in Cpus
        PROVE  /\ cpu[p] = t /\ phase[t] \in {"run", "hold", "wake"} => "W" \notin state[t]
               /\ pc[p] = [op |-> "dispatch", thread |-> t] => "R" \in state[t]
    BY <2>1 DEF AwakeOK, AllPlaced, Placed, Somewhere, Old
  <2> QED
    BY <1>1, <2>1, <2>2, <2>3 DEF NoPanic, TimeoutAssertion, WaitOK, TimerInv
<1>2. WaitInv /\ TimerInv => NoPanic
  BY <1>1
<1> QED
  BY <1>2, WaitInvariant, TimerInvariant, PTL

-----------------------------------------------------------------------------
(* How waits end, on one processor.                                        *)

OneCpu == \E p : Cpus = {p}

\* Nothing happens to the timers, to who waits, or to what is left to clear.
LEMMA ThisWaitQuiet ==
  ASSUME ForThisWait, UNCHANGED <<set, call, asked, service>>,
         \A t \in Threads : "W" \in state'[t] <=> "W" \in state[t],
         TypeOK, \A q \in Cpus : pc'[q].op # "clear"
  PROVE  ForThisWait'
<1>1. ASSUME NEW q \in Cpus, service[q] # Free
      PROVE  LET t == service[q].thread IN ~call'[t] /\ ("W" \in state'[t] => asked'[t])
  <2>1. service[q].thread \in Threads
    BY <1>1, ServiceFacts
  <2> QED
    BY <1>1, <2>1 DEF ForThisWait
<1> QED
  BY <1>1 DEF ForThisWait

\* The threads in S no longer wait.
LEMMA ThisWaitEnd ==
  ASSUME TypeOK, ForThisWait, NEW S \in SUBSET Threads, NEW r \in Results, End(S, r),
         \A q \in Cpus : service'[q] = service[q] \/ service'[q] = Free,
         \A q \in Cpus : pc'[q].op # "clear"
  PROVE  ForThisWait'
<1>0. S \subseteq Threads
  OBVIOUS
<1>1. /\ \A t \in Threads : "W" \in state'[t] <=> "W" \in state[t] /\ t \notin S
      /\ \A t \in Threads : asked'[t] <=> asked[t] /\ ~(t \in S /\ "W" \in state[t])
      /\ reset_timeout(S)
  BY <1>0, EndFacts
<1>2. /\ \A t \in Threads : set'[t] <=> set[t] /\ t \notin S
      /\ \A t \in Threads : call'[t] <=> call[t] /\ ~(t \in S /\ set[t])
  BY <1>1 DEF reset_timeout
<1>3. \A t \in Threads : call'[t] => set'[t] /\ asked'[t] /\ "W" \in state'[t]
  BY <1>1, <1>2 DEF ForThisWait
<1>4. ASSUME NEW q \in Cpus, service'[q] # Free
      PROVE  LET t == service'[q].thread
             IN  ~call'[t] /\ ("W" \in state'[t] => asked'[t])
  <2>1. service'[q] = service[q] /\ service[q] # Free
    BY <1>4
  <2>2. service[q].thread \in Threads
    BY <2>1, ServiceFacts
  <2> QED
    BY <1>1, <1>2, <2>1, <2>2 DEF ForThisWait
<1> QED
  BY <1>3, <1>4 DEF ForThisWait

\* The step that begins a clear_wait begins it for the wait the thread is in;
\* the others leave no clear_wait begun.
LEMMA ClearBegins ==
  ASSUME TypeOK, ForThisWait, NEW p \in Cpus, Cpus = {p}, EndAct(p)
  PROVE  \/ pc'[p].op # "clear"
         \/ /\ UNCHANGED <<waits, timers, places>>
            /\ LET t == pc'[p].thread
               IN  /\ pc'[p].result = "TIMED_OUT" /\ "W" \in state[t] => asked[t]
                   /\ pc'[p].result = "INTERRUPTED" => "N" \notin state[t]
<1>0. pc \in [Cpus -> PcSet] /\ Free.op # "clear"
  BY PcType DEF Free
<1>1. CASE ClearFinish(p) \/ WakeSuspenders(p)
  BY <1>0, <1>1 DEF ClearFinish, WakeSuspenders
<1>2. CASE \/ \E u \in Threads : DowaitWake(p, u)
           \/ \E e \in Events, one \in BOOLEAN : thread_wakeup_prim(p, e, one, "AWAKENED")
  BY <1>0, <1>2 DEF DowaitWake, thread_wakeup_prim, Current, LowSpl
<1>3. ASSUME NEW t, NEW r, pc[p] = Free, ClearStart(p, t, r)
      PROVE  \/ pc'[p] = pc[p]
             \/ /\ UNCHANGED <<waits, timers, places>>
                /\ pc'[p].thread = t /\ pc'[p].result = r
  BY <1>0, <1>3 DEF ClearStart
<1>4. CASE thread_timeout(p)
  <2>1. /\ pc[p] = Free /\ service[p].op = "timeout"
        /\ ClearStart(p, service[p].thread, "TIMED_OUT")
    BY <1>4 DEF thread_timeout
  <2>2. service[p] # Free
    BY <2>1, ServiceFacts
  <2> QED
    BY <1>0, <1>3, <2>1, <2>2 DEF ForThisWait
<1>5. ASSUME NEW t \in Threads, clear_wait(p, t, "INTERRUPTED", TRUE)
      PROVE  \/ pc'[p] = pc[p] /\ pc[p] = Free
             \/ /\ UNCHANGED <<waits, timers, places>>
                /\ pc'[p].thread = t /\ pc'[p].result = "INTERRUPTED"
                /\ "N" \notin state[t]
  BY <1>3, <1>5 DEF clear_wait, LowSpl
<1>6. ASSUME NEW t \in Threads, clear_wait(p, t, "AWAKENED", FALSE)
      PROVE  \/ pc'[p] = pc[p] /\ pc[p] = Free
             \/ /\ UNCHANGED <<waits, timers, places>>
                /\ pc'[p].thread = t /\ pc'[p].result = "AWAKENED"
  BY <1>3, <1>6 DEF clear_wait, LowSpl
<1> QED
  BY <1>0, <1>1, <1>2, <1>4, <1>5, <1>6 DEF EndAct

LEMMA ThisWaitEndAct ==
  ASSUME TypeOK, ForThisWait, NEW p \in Cpus, Cpus = {p}, EndAct(p)
  PROVE  ForThisWait'
<1>0. service'[p] = service[p] \/ service'[p] = Free
  BY EndTimers
<1>1. CASE pc'[p].op # "clear" /\ ~UNCHANGED <<waits, timers, places>>
  <2>1. PICK S \in SUBSET Threads, r \in Results : End(S, r)
    BY <1>1, EndCases
  <2> QED
    BY <1>0, <1>1, <2>1, ThisWaitEnd
<1>2. CASE UNCHANGED <<waits, timers, places>>
  <2>1. UNCHANGED <<state, set, call, asked>>
    BY <1>2 DEF waits, timers
  <2>2. pc'[p].op = "clear" =>
          LET t == pc'[p].thread
          IN  /\ pc'[p].result = "TIMED_OUT" /\ "W" \in state[t] => asked[t]
              /\ pc'[p].result = "INTERRUPTED" => "N" \notin state[t]
    BY ClearBegins
  <2> QED
    BY <1>0, <2>1, <2>2 DEF ForThisWait
<1> QED
  BY <1>1, <1>2, ClearBegins

\* Thread u, which is not about to block, asserts a wait.
LEMMA ThisWaitAssert ==
  ASSUME WaitInv, TimerInv, ForThisWait, NEW p \in Cpus, Cpus = {p}, NEW u \in Threads,
         cpu[p] = u, phase[u] \notin {"asserted", "sleep"}, pc[p] = Free,
         NEW e, NEW bits, "W" \in bits, AssertWait(u, e, bits),
         UNCHANGED <<set, call, pc, service>>
  PROVE  ForThisWait'
<1>0. TypeOK /\ AwakeOK /\ u # "other" /\ Free.op # "clear"
  BY WaitAssumption DEF WaitInv, Free
<1>1. "W" \notin state[u]
  BY <1>0 DEF AwakeOK
<1>2. ~call[u] /\ service[p] = Free
  BY <1>0, <1>1 DEF ForThisWait, TimerInv
<1>3. \A t \in Threads \ {u} : state'[t] = state[t] /\ asked'[t] = asked[t]
  BY <1>0 DEF AssertWait, TypeOK
<1> QED
  BY <1>0, <1>2, <1>3 DEF ForThisWait

LEMMA ThisWaitOther ==
  ASSUME WaitInv, TimerInv, ForThisWait, NEW p \in Cpus, Cpus = {p}, OtherAct(p)
  PROVE  ForThisWait'
<1>0. /\ TypeOK /\ AwakeOK /\ Threads \cap {"idle", "other"} = {} /\ Free.op # "clear"
      /\ pc \in [Cpus -> PcSet] /\ state \in [Threads -> SUBSET {"R", "W", "S", "N"}]
  BY WaitAssumption, PcType DEF WaitInv, Free, TypeOK
<1>1. CASE thread_dispatch(p)
  <2>1. UNCHANGED <<set, call, asked, service>>
    BY <1>1 DEF thread_dispatch, timers
  <2>2. \A t \in Threads : "W" \in state'[t] <=> "W" \in state[t]
    <3>1. \/ UNCHANGED state
          \/ \E x : state' = [state EXCEPT ![x] = state[x] \ {"R"}]
      BY <1>1 DEF thread_dispatch
    <3> QED
      BY <1>0, <3>1
  <2>3. pc'[p].op # "clear"
    BY <1>0, <1>1 DEF thread_dispatch, Suspended
  <2> QED
    BY <1>0, <2>1, <2>2, <2>3, ThisWaitQuiet
<1>2. CASE service_timer(p)
  <2>1. /\ pc[p] = Free /\ service[p].op = "service"
        /\ set' = [set EXCEPT ![service[p].thread] = FALSE]
        /\ service' = [service EXCEPT ![p].op = "timeout"]
        /\ UNCHANGED <<state, call, asked, pc>>
    BY <1>2 DEF service_timer, waits
  <2>2. service[p].thread \in Threads /\ service[p] # Free
    BY <1>0, <2>1, ServiceFacts
  <2>3. service'[p].thread = service[p].thread
    BY <1>0, <2>1, <2>2 DEF TypeOK, Ops
  <2>4. ~call[service[p].thread] /\ ("W" \in state[service[p].thread] => asked[service[p].thread])
    BY <2>2 DEF ForThisWait
  <2>5. \A t \in Threads \ {service[p].thread} : set'[t] = set[t]
    BY <1>0, <2>1 DEF TypeOK
  <2> QED
    BY <1>0, <2>1, <2>3, <2>4, <2>5 DEF ForThisWait
<1>3. ASSUME NEW t \in Threads, CalloutStart(p, t)
      PROVE  ForThisWait'
  <2>1. /\ pc[p] = Free /\ call[t] /\ call' = [call EXCEPT ![t] = FALSE]
        /\ service' = [service EXCEPT ![p] = [op |-> "service", thread |-> t]]
        /\ UNCHANGED <<state, set, asked, pc>>
    BY <1>3 DEF CalloutStart, waits
  <2>2. asked[t] /\ ~call'[t] /\ (\A x \in Threads : call'[x] => call[x])
    BY <1>0, <2>1 DEF ForThisWait, TypeOK
  <2>3. service'[p].thread = t
    BY <1>0, <2>1 DEF TypeOK
  <2> QED
    BY <1>0, <2>1, <2>2, <2>3 DEF ForThisWait
<1>4. CASE \/ idle_thread(p) \/ other_block(p)
           \/ \E u \in Threads : thread_block(p, u) \/ thread_block_same(p, u)
  <2>1. UNCHANGED <<set, call, asked, service>>
    BY <1>4 DEF idle_thread, other_block, thread_block, thread_block_same, timers
  <2>2. \A t \in Threads : "W" \in state'[t] <=> "W" \in state[t]
    <3>1. \/ UNCHANGED state
          \/ \E n : state' = [state EXCEPT ![n] = state[n] \ {"N"}]
      BY <1>4 DEF idle_thread, other_block, thread_block, thread_block_same, SwitchTo, Resumes
    <3> QED
      BY <1>0, <3>1
  <2>3. pc'[p].op # "clear"
    BY <1>0, <1>4 DEF idle_thread, other_block, thread_block, thread_block_same, Current
  <2> QED
    BY <1>0, <2>1, <2>2, <2>3, ThisWaitQuiet
<1>5. ASSUME NEW u \in Threads, thread_set_timeout(p, u)
      PROVE  ForThisWait'
  <2>1. /\ pc[p] = Free /\ cpu[p] = u /\ "W" \in state[u]
        /\ set' = [set EXCEPT ![u] = TRUE] /\ call' = [call EXCEPT ![u] = TRUE]
        /\ asked' = [asked EXCEPT ![u] = TRUE]
        /\ UNCHANGED <<state, pc, service>>
    BY <1>5 DEF thread_set_timeout, set_timeout, Current, waits
  <2>2. service[p] = Free
    BY <1>0, <2>1 DEF TimerInv
  <2>3. /\ set'[u] /\ asked'[u]
        /\ \A t \in Threads \ {u} : /\ set'[t] = set[t] /\ call'[t] = call[t]
                                    /\ asked'[t] = asked[t]
    BY <1>0, <2>1 DEF TypeOK
  <2> QED
    BY <1>0, <2>1, <2>2, <2>3 DEF ForThisWait
<1>6. ASSUME NEW u \in Threads, NEW e \in Events \cup {None}, NEW b \in BOOLEAN,
             assert_wait(p, u, e, b)
      PROVE  ForThisWait'
  <2>1. /\ cpu[p] = u /\ phase[u] \notin {"asserted", "sleep"} /\ pc[p] = Free
        /\ AssertWait(u, e, IF b THEN {"W"} ELSE {"W", "N"})
        /\ UNCHANGED <<set, call, pc, service>>
    BY <1>6 DEF assert_wait, Current
  <2> QED
    BY <2>1, ThisWaitAssert
<1>7. ASSUME NEW u \in Threads, NEW t \in Threads, thread_dowait(p, u, t)
      PROVE  ForThisWait'
  <2>1. /\ cpu[p] = u /\ phase[u] \notin {"asserted", "sleep"} /\ pc[p] = Free
        /\ UNCHANGED <<set, call, pc, service>>
    BY <1>7 DEF thread_dowait, Current
  <2>2. CASE AssertWait(u, t, {"W"})
    BY <2>1, <2>2, ThisWaitAssert
  <2>3. CASE ~AssertWait(u, t, {"W"})
    <3>1. /\ UNCHANGED asked
          /\ \/ UNCHANGED state
             \/ state[t] = {"R", "S"} /\ state' = [state EXCEPT ![t] = {"S"}]
      BY <1>7, <2>3 DEF thread_dowait, PullOff, waits
    <3>2. \A x \in Threads : "W" \in state'[x] <=> "W" \in state[x]
      BY <1>0, <3>1
    <3> QED
      BY <1>0, <2>1, <3>1, <3>2, ThisWaitQuiet
  <2> QED
    BY <2>2, <2>3
<1>8. CASE \E u, t \in Threads : \/ thread_hold(p, u, t) \/ thread_release(p, u, t)
                                 \/ thread_suspend(p, u, t) \/ thread_resume(p, u, t)
  <2>1. pc[p] = Free /\ UNCHANGED <<set, call, asked, service, pc>>
    BY <1>8 DEF thread_hold, thread_release, thread_suspend, thread_resume, Current, timers
  <2>2. \A x \in Threads : "W" \in state'[x] <=> "W" \in state[x]
    <3>1. \/ UNCHANGED state
          \/ \E t \in Threads : \/ state' = [state EXCEPT ![t] = state[t] \cup {"S"}]
                                \/ state' = [state EXCEPT ![t] = (state[t] \ {"S"}) \cup {"R"}]
                                \/ state' = [state EXCEPT ![t] = state[t] \ {"S"}]
                                \/ state' = [state EXCEPT ![t] = state[t]]
      BY <1>8 DEF thread_hold, thread_release, thread_suspend, thread_resume, Hold, Release
    <3> QED
      BY <1>0, <3>1
  <2> QED
    BY <1>0, <2>1, <2>2, ThisWaitQuiet
<1> QED
  BY <1>1, <1>2, <1>3, <1>4, <1>5, <1>6, <1>7, <1>8 DEF OtherAct

LEMMA ThisWaitInvariant == ASSUME OneCpu PROVE Spec => []ForThisWait
<1>0. Unraced
  BY DEF OneCpu, Unraced
<1>1. Init => ForThisWait
  BY DEF Init, ForThisWait, Free
<1>2. ASSUME WaitInv, TimerInv, ForThisWait, [Next]_vars
      PROVE  ForThisWait'
  <2>1. CASE UNCHANGED vars
    BY <1>2, <2>1 DEF vars, waits, timers, ForThisWait
  <2>2. ASSUME Next PROVE ForThisWait'
    <3>1. PICK p \in Cpus : EndAct(p) \/ OtherAct(p)
      BY <2>2, NextCases
    <3>2. Cpus = {p}
      BY DEF OneCpu
    <3> QED
      BY <1>2, <3>1, <3>2, ThisWaitEndAct, ThisWaitOther DEF WaitInv
  <2> QED
    BY <1>2, <2>1, <2>2
<1>3. WaitInv /\ TimerInv /\ ForThisWait /\ [Next]_vars => ForThisWait'
  BY <1>2
<1>4. Spec => []TimerInv
  BY <1>0, TimerInvariant
<1> QED
  BY <1>1, <1>3, <1>4, WaitInvariant, PTL DEF Spec

\* On one processor a wait is timed out only by its own timeout and interrupted
\* only if it is interruptible, though a callout may have been taken off its
\* queue, or a clear_wait begun, before the thread was woken and waits again.
THEOREM WaitsEndAsAllowed == ASSUME OneCpu PROVE Spec => EndsAsAllowed
<1>1. ASSUME WaitInv, ForThisWait, [Next]_vars, NEW t \in Threads,
             "W" \in state[t], "W" \notin state'[t]
      PROVE  /\ wait_result'[t] = "TIMED_OUT" => asked[t]
             /\ wait_result'[t] = "INTERRUPTED" => "N" \notin state[t]
  <2>0. TypeOK /\ state' # state
    BY <1>1 DEF WaitInv
  <2>1. PICK p \in Cpus : EndAct(p) \/ OtherAct(p)
    BY <1>1, <2>0, NextCases DEF vars, waits
  <2>2. EndAct(p)
    BY <1>1, <2>0, <2>1, OtherBits
  <2>3. PICK S \in SUBSET Threads, r \in Results :
          /\ End(S, r)
          /\ \/ r = "AWAKENED"
             \/ /\ r = "INTERRUPTED" /\ pc[p] = Free
                /\ \A x \in S : "N" \notin state[x]
             \/ /\ r = "TIMED_OUT" /\ service[p].op = "timeout" /\ pc[p] = Free
                /\ S = {service[p].thread}
             \/ pc[p].op = "clear" /\ S = {pc[p].thread} /\ r = pc[p].result
    BY <2>0, <2>2, EndCases DEF waits
  <2>4. S \subseteq Threads
    OBVIOUS
  <2>5. t \in S /\ wait_result'[t] = r
    <3>1. End(S, r)
      BY <2>3
    <3>2. /\ "W" \in state'[t] <=> "W" \in state[t] /\ t \notin S
          /\ wait_result'[t] = IF t \in S /\ "W" \in state[t] THEN r ELSE wait_result[t]
      BY <2>0, <2>4, <3>1 DEF End, TypeOK
    <3> QED
      BY <1>1, <3>2
  <2>6. service[p].op = "timeout" => service[p] # Free
    BY DEF Free
  <2> QED
    BY <1>1, <2>3, <2>5, <2>6 DEF ForThisWait
<1>2. WaitInv /\ ForThisWait /\ [Next]_vars =>
        [\A t \in Threads :
           "W" \in state[t] /\ "W" \notin state'[t] =>
             /\ wait_result'[t] = "TIMED_OUT" => asked[t]
             /\ wait_result'[t] = "INTERRUPTED" => "N" \notin state[t]]_vars
  BY <1>1
<1>3. Spec => []ForThisWait
  BY ThisWaitInvariant
<1> QED
  BY <1>2, <1>3, WaitInvariant, PTL DEF Spec, EndsAsAllowed
=============================================================================
