---------------------------- MODULE MsgQueueProofs ----------------------------
(***************************************************************************)
(* Message queues, port sets and queue limits, for any numbers of ports,   *)
(* sets and threads, any buffers and limits, and any bounds.               *)
(***************************************************************************)
EXTENDS MsgQueue, QueueTheorems, FiniteSetTheorems

-----------------------------------------------------------------------------
(* The inductive invariant.                                                *)

\* What a receiver that has been told something has been given.
Given(t) == state[t] = "success" \/ (state[t] = "too_large" /\ size[t] # "large")

\* Somebody is about to wake t.
Expected(t) == \E u \in Threads : pc[u] = "go" /\ obj[u] = t

InQueue(t, q) == pc[t] = "rcvwait" /\ obj[t] = q /\ state[t] = "in_progress"
IsBlocked(t, p) == pc[t] = "sendwait" /\ obj[t] = p /\ state[t] = "in_progress"

\* A thread is on the queue that it waits on, and on no other, until it is told
\* why its wait is over; it has a message when it has been given one.
ThreadOK(t) ==
  /\ pc[t] \in {"sendwait", "circular", "kill"} => obj[t] \in Ports
  /\ pc[t] = "rcvwait" => obj[t] \in Queues /\ state[t] # "none"
  /\ pc[t] = "sendwait" => state[t] \in {"in_progress", "success"}
  /\ pc[t] \notin {"sendwait", "rcvwait"} => state[t] = "none" /\ ~waiting[t]
  /\ kmsg[t] # None <=> pc[t] = "got" \/ (pc[t] = "rcvwait" /\ Given(t))
  /\ waiting[t] => state[t] = "in_progress" \/ Expected(t)
  /\ \A q \in Queues : t \in Range(threads[q]) <=> InQueue(t, q)
  /\ \A p \in Ports : t \in Range(blocked[p]) <=> IsBlocked(t, p)

\* Messages are where receivers look for them.
QueueOK(q) ==
  /\ IsInjective(threads[q])
  /\ messages[q] = <<>> \/ threads[q] = <<>>
  /\ Gone(q) => threads[q] = <<>>
  /\ \A m \in Range(messages[q]) : Home(m.port) = q

PortOK(p) ==
  /\ IsInjective(blocked[p])
  /\ p \notin active => blocked[p] = <<>>
  /\ p \notin held => pset[p] = None

WaitInv ==
  /\ \A t \in Threads : ThreadOK(t)
  /\ \A q \in Queues : QueueOK(q)
  /\ \A p \in Ports : PortOK(p)

\* The messages of a port that no thread has.
Queued(p) == OfPort(messages[Home(p)], p)

\* Messages are numbered as they are accepted, and leave in that order.
OrderOK(p) ==
  /\ \A i, j \in DOMAIN Queued(p) : i < j => Queued(p)[i].num < Queued(p)[j].num
  /\ \A i \in DOMAIN Queued(p) : Queued(p)[i].num <= sent[p]
  /\ \A t \in Holders(p) :
       /\ kmsg[t].num <= sent[p]
       /\ \A i \in DOMAIN Queued(p) : kmsg[t].num < Queued(p)[i].num
  /\ p \notin renumbered =>
       /\ \A t \in Holders(p) : ith_seqno[t] < seqno[p]
       /\ \A t, u \in Holders(p) : kmsg[t].num < kmsg[u].num => ith_seqno[t] < ith_seqno[u]

QueueInv == TypeOK /\ WaitInv /\ CountsMatch

-----------------------------------------------------------------------------
(* Matching messages with receivers.                                       *)

\* The receivers that get a message, in the order of the queue.
LEMMA MatchFacts ==
  ASSUME NEW R \in Seq(Threads), NEW M \in Seq(Message), NEW g \in Matches(R, M)
  PROVE  /\ Len(g) \in Nat /\ Len(g) <= Len(M) /\ Len(g) <= Len(R)
         /\ DOMAIN g = 1..Len(g)
         /\ \A i \in 1..Len(g) : g[i] \in 1..Len(R)
         /\ \A i \in 1..Len(g) : Place(g, i - 1) < g[i]
         /\ \A i \in 1..Len(g) : ~Refuses(size[R[g[i]]], M[i])
         /\ \A i \in 1..Len(g) :
              \A j \in Place(g, i - 1) + 1 .. g[i] - 1 : Refuses(size[R[j]], M[i])
         /\ Len(g) < Len(M) =>
              \A j \in Place(g, Len(g)) + 1 .. Len(R) : Refuses(size[R[j]], M[Len(g) + 1])
<1>1. /\ Len(R) \in Nat /\ DOMAIN R = 1..Len(R) /\ Len(M) \in Nat
  OBVIOUS
<1>2. PICK k \in {i \in 0 .. Len(M) : i <= Len(R)} : g \in [1..k -> DOMAIN R]
  BY DEF Matches
<1>3. k \in Nat /\ k <= Len(M) /\ k <= Len(R) /\ g \in [1..k -> 1..Len(R)]
  BY <1>1, <1>2
<1>4. Len(g) = k /\ DOMAIN g = 1..k
  BY <1>3
<1>5. /\ \A i \in DOMAIN g :
           /\ Place(g, i - 1) < g[i]
           /\ ~Refuses(size[R[g[i]]], M[i])
           /\ \A j \in Place(g, i - 1) + 1 .. g[i] - 1 : Refuses(size[R[j]], M[i])
      /\ Len(g) < Len(M) =>
           \A j \in Place(g, Len(g)) + 1 .. Len(R) : Refuses(size[R[j]], M[Len(g) + 1])
  BY DEF Matches
<1> QED
  BY <1>3, <1>4, <1>5

LEMMA MatchOrder ==
  ASSUME NEW R \in Seq(Threads), NEW M \in Seq(Message), NEW g \in Matches(R, M)
  PROVE  \A i, j \in 1..Len(g) : i < j => g[i] < g[j]
<1>1. /\ Len(g) \in Nat /\ \A i \in 1..Len(g) : g[i] \in Nat
      /\ \A i \in 1..Len(g) : Place(g, i - 1) < g[i]
  BY MatchFacts
<1> DEFINE P == {j \in 0..Len(g) : \A i \in 1..Len(g) : i < j => g[i] < g[j]}
<1>2. 0 \in P
  BY <1>1
<1>3. ASSUME NEW j \in 0..Len(g), j \in P, j < Len(g) PROVE j + 1 \in P
  <2>1. j + 1 \in 1..Len(g) /\ (j + 1) - 1 = j /\ g[j + 1] \in Nat
    BY <1>1, <1>3
  <2>2. j # 0 => j \in 1..Len(g) /\ g[j] < g[j + 1] /\ g[j] \in Nat
    BY <1>1, <2>1 DEF Place
  <2>3. ASSUME NEW i \in 1..Len(g), i < j + 1 PROVE g[i] < g[j + 1]
    <3>1. i = j \/ (i < j /\ g[i] < g[j] /\ g[i] \in Nat)
      BY <1>1, <1>3, <2>3
    <3> QED
      BY <1>1, <2>1, <2>2, <2>3, <3>1
  <2> QED
    BY <2>1, <2>3
<1> HIDE DEF P
<1>4. \A j \in 0..Len(g) : j \in P
  <2>1. \A j \in 0..Len(g) : j \in P /\ j < Len(g) => j + 1 \in P
    BY <1>3
  <2> QED
    BY <1>1, <1>2, <2>1, UpTo
<1> QED
  BY <1>1, <1>4 DEF P

\* The receivers that leave the queue without a message have refused one.
LEMMA MatchPassed ==
  ASSUME NEW R \in Seq(Threads), NEW M \in Seq(Message), NEW g \in Matches(R, M)
  PROVE  /\ Passed(R, M, g) \in 0..Len(R)
         /\ \A i \in 1..Len(g) : g[i] \in 1..Passed(R, M, g)
         /\ Len(g) < Len(M) => Passed(R, M, g) = Len(R)
         /\ \A j \in 1..Passed(R, M, g) :
              (\A i \in 1..Len(g) : g[i] # j) => size[R[j]] = "large"
<1>1. /\ Len(R) \in Nat /\ Len(M) \in Nat /\ Len(g) \in Nat
      /\ Len(g) <= Len(M)
      /\ \A i \in 1..Len(g) : g[i] \in 1..Len(R)
  BY MatchFacts
<1>2. /\ Place(g, Len(g)) \in 0..Len(R)
      /\ \A i \in 1..Len(g) : g[i] <= Place(g, Len(g))
  <2>1. CASE Len(g) = 0
    BY <1>1, <2>1 DEF Place
  <2>2. CASE Len(g) # 0
    <3>1. Len(g) \in 1..Len(g) /\ Place(g, Len(g)) = g[Len(g)]
      BY <1>1, <2>2 DEF Place
    <3>2. ASSUME NEW i \in 1..Len(g) PROVE g[i] <= g[Len(g)]
      <4>1. i = Len(g) \/ i < Len(g)
        BY <1>1
      <4>2. i < Len(g) => g[i] < g[Len(g)]
        BY <3>1, MatchOrder
      <4> QED
        BY <1>1, <3>1, <4>1, <4>2
    <3> QED
      BY <1>1, <3>1, <3>2
  <2> QED
    BY <2>1, <2>2
<1>3. /\ Passed(R, M, g) \in 0..Len(R)
      /\ \A i \in 1..Len(g) : g[i] \in 1..Passed(R, M, g)
      /\ Len(g) < Len(M) => Passed(R, M, g) = Len(R)
  BY <1>1, <1>2 DEF Passed
<1>4. ASSUME NEW j \in 1..Passed(R, M, g), \A i \in 1..Len(g) : g[i] # j
      PROVE  size[R[j]] = "large"
  <2>1. j \in 1..Len(R) /\ j \in Nat
    BY <1>1, <1>3
  <2>2. CASE j > Place(g, Len(g))
    <3>1. Len(g) < Len(M)
      <4>1. Len(g) = Len(M) => Passed(R, M, g) = Place(g, Len(g))
        BY DEF Passed
      <4> QED
        BY <1>1, <1>2, <1>3, <2>2, <4>1
    <3>2. j \in Place(g, Len(g)) + 1 .. Len(R)
      BY <1>2, <2>1, <2>2
    <3>3. Refuses(size[R[j]], M[Len(g) + 1])
      BY <3>1, <3>2, MatchFacts
    <3> QED
      BY <3>3 DEF Refuses
  <2>3. CASE j <= Place(g, Len(g))
    <3> DEFINE T == {i \in 1..Len(g) : j <= g[i]}
    <3>1. T \subseteq Nat /\ T # {}
      <4>1. Len(g) # 0
        BY <1>2, <2>1, <2>3 DEF Place
      <4>2. Len(g) \in 1..Len(g) /\ g[Len(g)] = Place(g, Len(g))
        BY <1>1, <4>1 DEF Place
      <4>3. Len(g) \in T
        BY <2>3, <4>2
      <4> QED
        BY <1>1, <4>3
    <3>2. PICK i \in T : \A m \in T : i <= m
      BY <3>1, LeastNat
    <3>3. i \in 1..Len(g) /\ j <= g[i] /\ g[i] # j /\ g[i] \in 1..Len(R)
      BY <1>1, <1>4, <3>2
    <3>4. Place(g, i - 1) < j /\ Place(g, i - 1) \in Nat
      <4>1. CASE i = 1
        BY <2>1, <4>1 DEF Place
      <4>2. CASE i # 1
        <5>1. i - 1 \in 1..Len(g) /\ i - 1 \notin T /\ g[i - 1] \in Nat
          BY <1>1, <3>2, <3>3, <4>2
        <5>2. ~(j <= g[i - 1])
          BY <5>1
        <5> QED
          BY <2>1, <4>2, <5>1, <5>2 DEF Place
      <4> QED
        BY <4>1, <4>2
    <3>5. j \in Place(g, i - 1) + 1 .. g[i] - 1
      BY <2>1, <3>3, <3>4
    <3>6. Refuses(size[R[j]], M[i])
      BY <3>3, <3>5, MatchFacts
    <3> QED
      BY <3>6 DEF Refuses
  <2> QED
    BY <1>2, <2>1, <2>2, <2>3
<1> QED
  BY <1>3, <1>4

\* The receivers that a send or a move takes off a queue.
Out(R, M, g) == {R[j] : j \in 1 .. Passed(R, M, g)}

LEMMA TakerFacts ==
  ASSUME NEW R \in Seq(Threads), IsInjective(R), NEW M \in Seq(Message),
         NEW g \in Matches(R, M)
  PROVE  /\ Takers(R, g) \subseteq Out(R, M, g) /\ Out(R, M, g) \subseteq Range(R)
         /\ Range(R) \subseteq Threads
         /\ \A i \in 1..Len(g) : R[g[i]] \in Takers(R, g) /\ Taker(R, g, R[g[i]]) = i
         /\ \A t \in Takers(R, g) :
              /\ Taker(R, g, t) \in 1..Len(g) /\ R[g[Taker(R, g, t)]] = t
              /\ M[Taker(R, g, t)] \in Message
              /\ ~Refuses(size[t], M[Taker(R, g, t)])
         /\ \A t \in Out(R, M, g) \ Takers(R, g) : size[t] = "large"
<1>1. /\ Len(R) \in Nat /\ DOMAIN R = 1..Len(R) /\ Len(M) \in Nat /\ Len(g) \in Nat
      /\ DOMAIN g = 1..Len(g) /\ Len(g) <= Len(M)
      /\ \A i \in 1..Len(g) : g[i] \in 1..Len(R)
      /\ \A i \in 1..Len(g) : ~Refuses(size[R[g[i]]], M[i])
  BY MatchFacts
<1>2. \A i, j \in 1..Len(R) : R[i] = R[j] => i = j
  BY <1>1 DEF IsInjective
<1>3. /\ Passed(R, M, g) \in 0..Len(R)
      /\ \A i \in 1..Len(g) : g[i] \in 1..Passed(R, M, g)
      /\ \A j \in 1..Passed(R, M, g) :
           (\A i \in 1..Len(g) : g[i] # j) => size[R[j]] = "large"
  BY MatchPassed
<1>4. Takers(R, g) = {R[g[i]] : i \in 1..Len(g)}
  BY <1>1 DEF Takers
<1>5. \A i, j \in 1..Len(g) : R[g[i]] = R[g[j]] => i = j
  <2> SUFFICES ASSUME NEW i \in 1..Len(g), NEW j \in 1..Len(g), R[g[i]] = R[g[j]], i # j
               PROVE  FALSE
    OBVIOUS
  <2>1. g[i] = g[j] /\ g[i] \in Nat
    BY <1>1, <1>2
  <2>2. (i < j => g[i] < g[j]) /\ (j < i => g[j] < g[i])
    BY MatchOrder
  <2> QED
    BY <1>1, <2>1, <2>2
<1>6. ASSUME NEW i \in 1..Len(g)
      PROVE  R[g[i]] \in Takers(R, g) /\ Taker(R, g, R[g[i]]) = i
  <2>1. \A j \in DOMAIN g : R[g[j]] = R[g[i]] <=> j = i
    BY <1>1, <1>5
  <2>2. Taker(R, g, R[g[i]]) = i
    BY <1>1, <2>1 DEF Taker
  <2> QED
    BY <1>4, <2>2
<1>7. ASSUME NEW t \in Takers(R, g)
      PROVE  /\ Taker(R, g, t) \in 1..Len(g) /\ R[g[Taker(R, g, t)]] = t
             /\ M[Taker(R, g, t)] \in Message
             /\ ~Refuses(size[t], M[Taker(R, g, t)])
  <2>1. PICK i \in 1..Len(g) : t = R[g[i]]
    BY <1>4
  <2>2. Taker(R, g, t) = i
    BY <1>6, <2>1
  <2>3. M[i] \in Message
    BY <1>1
  <2> QED
    BY <1>1, <2>1, <2>2, <2>3
<1>8. /\ Takers(R, g) \subseteq Out(R, M, g)
      /\ Out(R, M, g) \subseteq Range(R) /\ Range(R) \subseteq Threads
  <2>1. 1..Passed(R, M, g) \subseteq 1..Len(R)
    BY <1>1, <1>3
  <2>2. Range(R) = {R[i] : i \in 1..Len(R)} /\ Range(R) \subseteq Threads
    BY RangeSeq
  <2> QED
    BY <1>3, <1>4, <2>1, <2>2 DEF Out
<1>9. ASSUME NEW t \in Out(R, M, g) \ Takers(R, g) PROVE size[t] = "large"
  <2>1. PICK j \in 1..Passed(R, M, g) : t = R[j]
    BY DEF Out
  <2>2. \A i \in 1..Len(g) : g[i] # j
    BY <1>4, <1>9, <2>1
  <2> QED
    BY <1>3, <2>1, <2>2
<1> QED
  BY <1>6, <1>7, <1>8, <1>9

\* The receivers that stay.
Rest(R, M, g) == SubSeq(R, Passed(R, M, g) + 1, Len(R))

LEMMA RestFacts ==
  ASSUME NEW R \in Seq(Threads), IsInjective(R), NEW M \in Seq(Message),
         NEW g \in Matches(R, M)
  PROVE  /\ Rest(R, M, g) \in Seq(Threads) /\ IsInjective(Rest(R, M, g))
         /\ Range(Rest(R, M, g)) = Range(R) \ Out(R, M, g)
         /\ Len(g) < Len(M) => Rest(R, M, g) = <<>>
         /\ R = <<>> => Rest(R, M, g) = <<>> /\ g = <<>>
<1> DEFINE n == Passed(R, M, g)
           rest == SubSeq(R, n + 1, Len(R))
<1>1. n \in 0..Len(R) /\ (Len(g) < Len(M) => n = Len(R))
  BY MatchPassed
<1>2. /\ SubSeq(R, 1, n) \in Seq(Threads) /\ rest \in Seq(Threads)
      /\ Len(SubSeq(R, 1, n)) = n
      /\ Range(R) = Range(SubSeq(R, 1, n)) \cup Range(rest)
      /\ IsInjective(rest)
      /\ Range(SubSeq(R, 1, n)) \cap Range(rest) = {}
  BY <1>1, SplitRange
<1>3. Range(SubSeq(R, 1, n)) = Out(R, M, g)
  <2>1. Range(SubSeq(R, 1, n)) = {SubSeq(R, 1, n)[i] : i \in 1..n}
    <3> DEFINE w == SubSeq(R, 1, n)
    <3>1. w \in Seq(Threads) /\ Len(w) = n
      BY <1>2
    <3> HIDE DEF w, n
    <3>2. Range(w) = {w[i] : i \in 1..Len(w)}
      BY <3>1, RangeSeq
    <3> QED
      BY <3>1, <3>2 DEF w
  <2>2. \A i \in 1..n : SubSeq(R, 1, n)[i] = R[i]
    BY <1>1
  <2> QED
    BY <2>1, <2>2 DEF Out
<1>4. n = Len(R) => rest = <<>>
  <2>1. Len(R) \in Nat
    OBVIOUS
  <2> HIDE DEF n
  <2> QED
    BY <2>1 DEF n
<1>5. R = <<>> => n = Len(R) /\ g = <<>>
  <2>1. Len(g) \in Nat /\ Len(g) <= Len(R) /\ DOMAIN g = 1..Len(g)
    BY MatchFacts
  <2>2. ASSUME R = <<>> PROVE Len(g) = 0 /\ Len(R) = 0
    BY <2>1, <2>2
  <2>3. ASSUME R = <<>> PROVE g = <<>>
    <3>1. g \in [1..0 -> DOMAIN R]
      BY <2>1, <2>2, <2>3 DEF Matches
    <3> QED
      BY <3>1
  <2> QED
    BY <1>1, <2>2, <2>3
<1>6. Rest(R, M, g) = rest
  BY DEF Rest
<1> HIDE DEF rest, n
<1> QED
  BY <1>1, <1>2, <1>3, <1>4, <1>5, <1>6

-----------------------------------------------------------------------------
(* The messages of one port among those of others.                         *)

LEMMA OfPortFacts ==
  ASSUME NEW s \in Seq(Message), NEW p
  PROVE  /\ OfPort(s, p) \in Seq(Message) /\ NotOfPort(s, p) \in Seq(Message)
         /\ Range(OfPort(s, p)) = {m \in Range(s) : m.port = p}
         /\ Range(NotOfPort(s, p)) = {m \in Range(s) : m.port # p}
         /\ Range(s) \subseteq Message
<1>1. Range(s) \subseteq Message
  BY RangeSeq
<1>2. /\ Range(OfPort(s, p)) = Range(s) \ {m \in Message : m.port # p}
      /\ Range(NotOfPort(s, p)) = Range(s) \ {m \in Message : m.port = p}
  BY WithoutRange DEF OfPort, NotOfPort
<1>3. OfPort(s, p) \in Seq(Message) /\ NotOfPort(s, p) \in Seq(Message)
  BY WithoutType DEF OfPort, NotOfPort
<1> QED
  BY <1>1, <1>2, <1>3

LEMMA OfPortConcat ==
  ASSUME NEW s \in Seq(Message), NEW u \in Seq(Message), NEW p
  PROVE  OfPort(s \o u, p) = OfPort(s, p) \o OfPort(u, p)
BY WithoutConcat DEF OfPort

LEMMA OfPortOwn ==
  ASSUME NEW s \in Seq(Message), NEW p, \A m \in Range(s) : m.port = p
  PROVE  OfPort(s, p) = s
<1>1. Range(s) \cap {m \in Message : m.port # p} = {}
  OBVIOUS
<1> QED
  BY <1>1, WithoutNone DEF OfPort

LEMMA OfPortOther ==
  ASSUME NEW s \in Seq(Message), NEW p, \A m \in Range(s) : m.port # p
  PROVE  OfPort(s, p) = <<>>
<1>1. Range(s) \subseteq {m \in Message : m.port # p}
  BY RangeSeq
<1> QED
  BY <1>1, WithoutAll DEF OfPort

LEMMA OfPortRest ==
  ASSUME NEW s \in Seq(Message), NEW p, NEW r
  PROVE  OfPort(NotOfPort(s, p), r) = IF r = p THEN <<>> ELSE OfPort(s, r)
<1>1. CASE r = p
  <2>1. NotOfPort(s, p) \in Seq(Message) /\ \A m \in Range(NotOfPort(s, p)) : m.port # r
    BY <1>1, OfPortFacts
  <2> QED
    BY <1>1, <2>1, OfPortOther
<1>2. CASE r # p
  <2>1. {m \in Message : m.port = p} \cup {m \in Message : m.port # r}
          = {m \in Message : m.port # r}
    BY <1>2
  <2>2. OfPort(NotOfPort(s, p), r)
          = Without(s, {m \in Message : m.port = p} \cup {m \in Message : m.port # r})
    BY WithoutTwice DEF OfPort, NotOfPort
  <2> QED
    BY <1>2, <2>1, <2>2 DEF OfPort
<1> QED
  BY <1>1, <1>2

LEMMA OfPortTail ==
  ASSUME NEW s \in Seq(Message), s # <<>>, NEW p
  PROVE  /\ Tail(s) \in Seq(Message) /\ Head(s) \in Message
         /\ IF Head(s).port = p
            THEN /\ OfPort(s, p) # <<>> /\ Head(OfPort(s, p)) = Head(s)
                 /\ OfPort(Tail(s), p) = Tail(OfPort(s, p))
            ELSE OfPort(Tail(s), p) = OfPort(s, p)
<1>1. Tail(s) \in Seq(Message) /\ Head(s) \in Message /\ s = <<Head(s)>> \o Tail(s)
  OBVIOUS
<1> DEFINE a == <<Head(s)>>
<1>2. a \in Seq(Message) /\ Range(a) = {Head(s)}
  <2>1. a \in Seq(Message) /\ Len(a) = 1 /\ a[1] = Head(s)
    BY <1>1
  <2> HIDE DEF a
  <2>2. Range(a) = {a[i] : i \in 1..Len(a)}
    BY <2>1, RangeSeq
  <2> QED
    BY <2>1, <2>2
<1>3. OfPort(s, p) = OfPort(a, p) \o OfPort(Tail(s), p)
  <2>1. \A u, v \in Seq(Message) : OfPort(u \o v, p) = OfPort(u, p) \o OfPort(v, p)
    BY OfPortConcat
  <2>2. OfPort(a \o Tail(s), p) = OfPort(a, p) \o OfPort(Tail(s), p)
    BY <1>1, <1>2, <2>1, Zenon
  <2> QED
    BY <1>1, <2>2
<1>4. OfPort(Tail(s), p) \in Seq(Message)
  BY <1>1, OfPortFacts
<1>5. CASE Head(s).port = p
  <2>1. OfPort(a, p) = a
    BY <1>2, <1>5, OfPortOwn
  <2>2. ASSUME NEW h, NEW w \in Seq(Message)
        PROVE  /\ <<h>> \o w # <<>> /\ Head(<<h>> \o w) = h /\ Tail(<<h>> \o w) = w
    OBVIOUS
  <2>3. OfPort(s, p) = <<Head(s)>> \o OfPort(Tail(s), p)
    BY <1>3, <2>1
  <2> QED
    BY <1>1, <1>4, <1>5, <2>2, <2>3, Zenon
<1>6. CASE Head(s).port # p
  <2>1. OfPort(a, p) = <<>>
    BY <1>2, <1>6, OfPortOther
  <2> QED
    BY <1>1, <1>3, <1>4, <1>6, <2>1
<1> QED
  BY <1>1, <1>5, <1>6

-----------------------------------------------------------------------------
(* Threads.                                                                *)

\* A thread that a step does not concern, but may wake.
LEMMA ThreadKept ==
  ASSUME NEW t \in Threads, ThreadOK(t),
         pc'[t] = pc[t], obj'[t] = obj[t], size'[t] = size[t],
         state'[t] = state[t], kmsg'[t] = kmsg[t], waiting'[t] => waiting[t],
         waiting'[t] => \A u \in Threads : pc[u] = "go" /\ obj[u] = t =>
                                             pc'[u] = "go" /\ obj'[u] = t,
         \A q \in Queues : t \in Range(threads'[q]) <=> t \in Range(threads[q]),
         \A p \in Ports : t \in Range(blocked'[p]) <=> t \in Range(blocked[p])
  PROVE  ThreadOK(t)'
<1>1. waiting'[t] /\ state'[t] # "in_progress" => Expected(t)'
  BY DEF ThreadOK, Expected
<1>2. /\ Given(t)' <=> Given(t)
      /\ \A q : InQueue(t, q)' <=> InQueue(t, q)
      /\ \A p : IsBlocked(t, p)' <=> IsBlocked(t, p)
  BY DEF Given, InQueue, IsBlocked
<1> QED
  BY <1>1, <1>2 DEF ThreadOK

\* A receiver that is told why its wait is over.
LEMMA ReceiverTold ==
  ASSUME NEW t \in Threads, ThreadOK(t), NEW q \in Queues, InQueue(t, q),
         pc'[t] = pc[t], obj'[t] = obj[t], size'[t] = size[t],
         state'[t] \in {"success", "too_large", "changed", "died"},
         kmsg'[t] # None <=> Given(t)',
         waiting'[t] => Expected(t)',
         \A r \in Queues : t \notin Range(threads'[r]),
         \A p \in Ports : t \in Range(blocked'[p]) => t \in Range(blocked[p])
  PROVE  ThreadOK(t)'
BY DEF ThreadOK, InQueue, IsBlocked

\* A sender that may go on.
LEMMA SenderTold ==
  ASSUME NEW t \in Threads, ThreadOK(t), NEW p \in Ports, IsBlocked(t, p),
         pc'[t] = pc[t], obj'[t] = obj[t], state'[t] = "success",
         kmsg'[t] = kmsg[t], ~waiting'[t],
         \A r \in Queues : t \in Range(threads'[r]) => t \in Range(threads[r]),
         \A r \in Ports : t \notin Range(blocked'[r])
  PROVE  ThreadOK(t)'
BY DEF ThreadOK, InQueue, IsBlocked

\* A thread that does not wait.
LEMMA ThreadAwake ==
  ASSUME NEW t \in Threads, pc'[t] \notin {"sendwait", "rcvwait"},
         pc'[t] \in {"circular", "kill"} => obj'[t] \in Ports,
         state'[t] = "none", ~waiting'[t], kmsg'[t] # None <=> pc'[t] = "got",
         \A q \in Queues : t \notin Range(threads'[q]),
         \A p \in Ports : t \notin Range(blocked'[p])
  PROVE  ThreadOK(t)'
BY DEF ThreadOK, InQueue, IsBlocked

\* Where a thread that is not told anything is.
LEMMA WhereFacts ==
  ASSUME WaitInv, NEW t \in Threads
  PROVE  /\ pc[t] \notin {"sendwait", "rcvwait"} => ~waiting[t] /\ state[t] = "none"
         /\ pc[t] # "got" /\ pc[t] # "rcvwait" => kmsg[t] = None
         /\ pc[t] # "rcvwait" => \A q \in Queues : t \notin Range(threads[q])
         /\ pc[t] # "sendwait" => \A p \in Ports : t \notin Range(blocked[p])
         /\ Told(t) => /\ \A q \in Queues : t \notin Range(threads[q])
                       /\ \A p \in Ports : t \notin Range(blocked[p])
         /\ \A q \in Queues : t \in Range(threads[q]) <=> InQueue(t, q)
         /\ \A p \in Ports : t \in Range(blocked[p]) <=> IsBlocked(t, p)
<1>1. ThreadOK(t)
  BY DEF WaitInv
<1> QED
  BY <1>1 DEF ThreadOK, InQueue, IsBlocked, Told

-----------------------------------------------------------------------------
(* Hand-overs.                                                             *)

\* What a hand-over tells, gives and wakes.
LEMMA HandOverEffect ==
  ASSUME NEW me, NEW p, NEW q, NEW M, NEW g, NEW C, NEW late,
         HandOver(me, p, q, M, g, C, late), NEW t \in Threads,
         C \cap Takers(threads[q], g) = {},
         me \notin C \cup Out(threads[q], M, g) \cup Takers(threads[q], g)
  PROVE  /\ t \in Takers(threads[q], g) =>
              /\ kmsg'[t] = M[Taker(threads[q], g, t)]
              /\ state'[t] = IF M[Taker(threads[q], g, t)].big /\ size[t] = "short"
                             THEN "too_large" ELSE "success"
              /\ ith_seqno'[t] = NextSeqno(p, Taker(threads[q], g, t))
         /\ t \notin Takers(threads[q], g) =>
              kmsg'[t] = kmsg[t] /\ ith_seqno'[t] = ith_seqno[t]
         /\ t \in C \ Takers(threads[q], g) => state'[t] = "changed"
         /\ t \in Out(threads[q], M, g) \ (Takers(threads[q], g) \cup C) =>
              state'[t] = "too_large"
         /\ t \notin Out(threads[q], M, g) \cup Takers(threads[q], g) \cup C =>
              state'[t] = IF t = me THEN "none" ELSE state[t]
<1> DEFINE R == threads[q]
           got == Takers(R, g)
           out == Out(R, M, g)
           m(u) == M[Taker(R, g, u)]
<1>1. state' = [u \in Threads |->
                  CASE u \in got -> IF m(u).big /\ size[u] = "short"
                                    THEN "too_large" ELSE "success"
                    [] u \in C -> "changed"
                    [] u \in out \ (got \cup C) -> "too_large"
                    [] u = me -> "none"
                    [] OTHER -> state[u]]
  BY Zenon DEF HandOver, Out
<1>2. /\ kmsg' = [u \in Threads |-> IF u \in got THEN m(u) ELSE kmsg[u]]
      /\ ith_seqno' = [u \in Threads |-> IF u \in got THEN NextSeqno(p, Taker(R, g, u))
                                         ELSE ith_seqno[u]]
  BY Zenon DEF HandOver
<1> HIDE DEF R, got, out, m
<1>3. /\ t \in got => state'[t] = IF m(t).big /\ size[t] = "short"
                                   THEN "too_large" ELSE "success"
      /\ t \in C \ got => state'[t] = "changed"
      /\ t \in out \ (got \cup C) => state'[t] = "too_large"
      /\ t \notin out \cup got \cup C => state'[t] = IF t = me THEN "none" ELSE state[t]
  <2>1. state'[t] = CASE t \in got -> IF m(t).big /\ size[t] = "short"
                                       THEN "too_large" ELSE "success"
                      [] t \in C -> "changed"
                      [] t \in out \ (got \cup C) -> "too_large"
                      [] t = me -> "none"
                      [] OTHER -> state[t]
    BY <1>1
  <2>2. C \cap got = {} /\ me \notin C \cup out \cup got
    BY DEF R, got, out
  <2>3. CASE t \in got
    BY <2>1, <2>2, <2>3
  <2>4. CASE t \in C
    BY <2>1, <2>2, <2>4
  <2>5. CASE t \in out \ (got \cup C)
    BY <2>1, <2>2, <2>5
  <2>6. CASE t \notin out \cup got \cup C
    BY <2>1, <2>6
  <2> QED
    BY <2>2, <2>3, <2>4, <2>5, <2>6
<1>4. /\ t \in got => kmsg'[t] = m(t) /\ ith_seqno'[t] = NextSeqno(p, Taker(R, g, t))
      /\ t \notin got => kmsg'[t] = kmsg[t] /\ ith_seqno'[t] = ith_seqno[t]
  BY <1>2
<1> QED
  BY <1>3, <1>4 DEF R, got, out, m

\* The blocked senders, with t not among them.
NotBlocked(blk, t) ==
  /\ blk \in [Ports -> Seq(Threads)]
  /\ \A r \in Ports : /\ IsInjective(blk[r]) /\ Range(blk[r]) = Range(blocked[r]) \ {t}
                      /\ blocked[r] = <<>> => blk[r] = <<>>

\* Who takes part in a hand-over besides the receivers: the sender me.
SenderMay(me) ==
  /\ me \in Threads =>
       /\ pc[me] \notin {"rcvwait", "go"} /\ ~waiting[me] /\ kmsg[me] = None
       /\ pc'[me] \in {"run", "go"}
  /\ \A u \in Threads \ {me} : pc'[u] = pc[u] /\ obj'[u] = obj[u] /\ size'[u] = size[u]
  /\ pc' \in [Threads -> Pcs] /\ obj' \in [Threads -> Queues \cup Threads \cup {None}]
  /\ size' \in [Threads -> {"fit", "big", "circular", "short", "large"}]

\* The messages M of port p meet the receivers of queue q.
HandsOver(me, p, q, M, g, C, late) ==
  /\ SenderMay(me) /\ NotBlocked(blocked', me)
  /\ M \in Seq(Message) /\ g \in Matches(threads[q], M)
  /\ C = {} \/ (C = Range(threads[p]) /\ p # q)
  /\ late \subseteq Takers(threads[q], g) /\ \A u \in late : Expected(u)'
  /\ HandOver(me, p, q, M, g, C, late) /\ seqno[p] + Len(g) <= MaxSeqno
  /\ \A r \in Queues :
       Range(threads'[r]) = Range(threads[r]) \ (Out(threads[q], M, g) \cup C)

\* The receivers that get a message or refuse one (those of late are woken by
\* somebody who is on the way), those of C who are sent away, and the others.
LEMMA HandOverThreads ==
  ASSUME QueueInv, NEW me, NEW p \in Ports, NEW q \in Queues, NEW M, NEW g, NEW C, NEW late,
         HandsOver(me, p, q, M, g, C, late)
  PROVE  \A u \in Threads : ThreadOK(u)'
<1>0. /\ M \in Seq(Message) /\ g \in Matches(threads[q], M)
      /\ C = {} \/ (C = Range(threads[p]) /\ p # q)
      /\ late \subseteq Takers(threads[q], g) /\ \A u \in late : Expected(u)'
      /\ HandOver(me, p, q, M, g, C, late)
      /\ \A r \in Queues :
           Range(threads'[r]) = Range(threads[r]) \ (Out(threads[q], M, g) \cup C)
      /\ \A r \in Ports : Range(blocked'[r]) = Range(blocked[r]) \ {me}
      /\ me \in Threads =>
           /\ pc[me] \notin {"rcvwait", "go"} /\ ~waiting[me] /\ kmsg[me] = None
           /\ pc'[me] \in {"run", "go"}
      /\ \A u \in Threads \ {me} : pc'[u] = pc[u] /\ obj'[u] = obj[u] /\ size'[u] = size[u]
  BY DEF HandsOver, NotBlocked, SenderMay
<1> DEFINE R == threads[q]
           got == Takers(R, g)
           out == Out(R, M, g)
<1>1. /\ TypeOK /\ WaitInv /\ R \in Seq(Threads) /\ IsInjective(R) /\ Ports \subseteq Queues
      /\ None \notin Threads
  BY MsgQueueAssumption DEF QueueInv, TypeOK, WaitInv, QueueOK, Queues
<1>2. /\ got \subseteq out /\ out \subseteq Range(R) /\ Range(R) \subseteq Threads
      /\ \A t \in got : /\ M[Taker(R, g, t)] \in Message
                        /\ ~Refuses(size[t], M[Taker(R, g, t)])
      /\ \A t \in out \ got : size[t] = "large"
  BY <1>0, <1>1, TakerFacts
<1>3. /\ \A t \in Threads : t \in Range(R) <=> InQueue(t, q)
      /\ \A t \in Threads : t \in C => InQueue(t, p)
      /\ C \subseteq Threads
  <2>1. Range(threads[p]) \subseteq Threads
    BY <1>1, RangeSeq DEF TypeOK
  <2> QED
    BY <1>0, <1>1, <2>1, WhereFacts
<1>4. C \cap out = {} /\ C \cap got = {} /\ me \notin C \cup out \cup got
  BY <1>0, <1>2, <1>3 DEF InQueue
<1> HIDE DEF R, got, out
<1>5. ASSUME NEW t \in Threads
      PROVE  /\ t \in got => /\ kmsg'[t] = M[Taker(R, g, t)]
                             /\ state'[t] = IF M[Taker(R, g, t)].big /\ size[t] = "short"
                                            THEN "too_large" ELSE "success"
             /\ t \notin got => kmsg'[t] = kmsg[t]
             /\ t \in C => state'[t] = "changed"
             /\ t \in out \ got => state'[t] = "too_large"
             /\ t \notin out \cup C => state'[t] = IF t = me THEN "none" ELSE state[t]
             /\ waiting'[t] = (waiting[t] /\ t \notin (out \cup C) \ late)
  <2>1. C \cap Takers(threads[q], g) = {}
        /\ me \notin C \cup Out(threads[q], M, g) \cup Takers(threads[q], g)
    BY <1>4 DEF R, got, out
  <2>2. /\ t \in got => /\ kmsg'[t] = M[Taker(R, g, t)]
                        /\ state'[t] = IF M[Taker(R, g, t)].big /\ size[t] = "short"
                                       THEN "too_large" ELSE "success"
        /\ t \notin got => kmsg'[t] = kmsg[t]
    BY <1>0, <2>1, HandOverEffect, SMT DEF R, got
  <2>3. /\ t \in C \ got => state'[t] = "changed"
        /\ t \in out \ (got \cup C) => state'[t] = "too_large"
        /\ t \notin out \cup got \cup C => state'[t] = IF t = me THEN "none" ELSE state[t]
    BY <1>0, <2>1, HandOverEffect, SMT DEF R, got, out
  <2>4. waiting'[t] = (waiting[t] /\ t \notin (out \cup C) \ late)
    <3>1. waiting' = [u \in Threads |-> waiting[u] /\ u \notin (out \cup C) \ late]
      BY <1>0, Zenon DEF HandOver, Out, Go, R, out
    <3> QED
      BY <3>1, Zenon
  <2> QED
    BY <1>2, <1>4, <2>2, <2>3, <2>4, Zenon
<1>6. ASSUME NEW t \in Threads \ {me} PROVE ThreadOK(t)'
  <2>1. ThreadOK(t)
    BY <1>1 DEF WaitInv
  <2>2. \A r \in Ports : t \in Range(blocked'[r]) <=> t \in Range(blocked[r])
    BY <1>0
  <2>3. /\ pc'[t] = pc[t] /\ obj'[t] = obj[t] /\ size'[t] = size[t]
    BY <1>0
  <2>4. CASE t \in out
    <3>1. InQueue(t, q)
      BY <1>2, <1>3, <2>4
    <3>2. \A r \in Queues : t \notin Range(threads'[r])
      BY <1>0, <2>4 DEF out, R
    <3>3. waiting'[t] => Expected(t)'
      BY <1>0, <1>5, <2>4
    <3>4. CASE t \in got
      <4>1. kmsg'[t] \in Message /\ kmsg'[t] # None
        BY <1>2, <1>5, <3>4, NullAssumption
      <4>2. state'[t] \in {"success", "too_large"} /\ Given(t)'
        BY <1>2, <1>5, <2>3, <3>4 DEF Given, Refuses
      <4> QED
        BY <2>1, <2>2, <2>3, <3>1, <3>2, <3>3, <4>1, <4>2, ReceiverTold
    <3>5. CASE t \notin got
      <4>1. state'[t] = "too_large" /\ size'[t] = "large" /\ kmsg'[t] = kmsg[t]
        BY <1>2, <1>5, <2>3, <2>4, <3>5
      <4>2. kmsg'[t] = None /\ ~Given(t)'
        BY <2>1, <3>1, <4>1 DEF Given, ThreadOK, InQueue
      <4> QED
        BY <2>1, <2>2, <2>3, <3>1, <3>2, <3>3, <4>1, <4>2, ReceiverTold
    <3> QED
      BY <3>4, <3>5
  <2>5. CASE t \in C
    <3>1. InQueue(t, p) /\ t \notin got /\ t \notin late
      BY <1>0, <1>3, <1>4, <2>5 DEF got, R
    <3>2. \A r \in Queues : t \notin Range(threads'[r])
      BY <1>0, <2>5
    <3>3. /\ state'[t] = "changed" /\ kmsg'[t] = kmsg[t] /\ ~waiting'[t]
      BY <1>5, <2>5, <3>1
    <3>4. kmsg'[t] = None /\ ~Given(t)'
      BY <2>1, <3>1, <3>3 DEF Given, ThreadOK, InQueue
    <3> QED
      BY <1>1, <2>1, <2>2, <2>3, <3>1, <3>2, <3>3, <3>4, ReceiverTold
  <2>6. CASE t \notin out \cup C
    <3>1. /\ state'[t] = state[t] /\ kmsg'[t] = kmsg[t] /\ (waiting'[t] => waiting[t])
      BY <1>2, <1>5, <2>6
    <3>2. \A r \in Queues : t \in Range(threads'[r]) <=> t \in Range(threads[r])
      BY <1>0, <2>6 DEF out, R
    <3>3. \A u \in Threads : pc[u] = "go" /\ obj[u] = t => pc'[u] = "go" /\ obj'[u] = t
      <4> SUFFICES ASSUME NEW u \in Threads, pc[u] = "go" /\ obj[u] = t
                   PROVE  pc'[u] = "go" /\ obj'[u] = t
        OBVIOUS
      <4>1. u # me
        BY <1>0
      <4> QED
        BY <1>0, <4>1
    <3> QED
      BY <2>1, <2>2, <2>3, <3>1, <3>2, <3>3, ThreadKept
  <2> QED
    BY <2>4, <2>5, <2>6
<1>7. ASSUME me \in Threads PROVE ThreadOK(me)'
  <2>1. /\ state'[me] = "none" /\ ~waiting'[me] /\ kmsg'[me] = None
    BY <1>0, <1>4, <1>5, <1>7
  <2>2. \A r \in Queues : me \notin Range(threads[r])
    BY <1>0, <1>1, <1>7, WhereFacts
  <2> QED
    BY <1>0, <1>7, <2>1, <2>2, ThreadAwake
<1> QED
  BY <1>6, <1>7

-----------------------------------------------------------------------------
(* Steps of one thread, and steps that tell threads.                       *)

\* What the other threads see when t alone does something.
OthersAlone(t) ==
  \A u \in Threads \ {t} :
    /\ pc'[u] = pc[u] /\ obj'[u] = obj[u] /\ size'[u] = size[u]
    /\ state'[u] = state[u] /\ kmsg'[u] = kmsg[u] /\ (waiting'[u] => waiting[u])

\* A thread goes on, or returns.
GoesOn(t) ==
  /\ OthersAlone(t) /\ pc[t] # "go"
  /\ pc'[t] \notin {"sendwait", "rcvwait"}
  /\ pc'[t] \in {"circular", "kill"} => obj'[t] \in Ports
  /\ state'[t] = "none" /\ ~waiting'[t] /\ (kmsg'[t] # None <=> pc'[t] = "got")
  /\ \A q \in Queues : Range(threads'[q]) = Range(threads[q]) \ {t}
  /\ \A p \in Ports : Range(blocked'[p]) = Range(blocked[p]) \ {t}

LEMMA OneGoesOn ==
  ASSUME WaitInv, NEW t \in Threads, GoesOn(t)
  PROVE  \A u \in Threads : ThreadOK(u)'
<1> USE DEF GoesOn, OthersAlone
<1>1. ThreadOK(t)'
  BY ThreadAwake
<1>2. ASSUME NEW u \in Threads \ {t} PROVE ThreadOK(u)'
  <2>1. ThreadOK(u)
    BY DEF WaitInv
  <2>2. \A v \in Threads : pc[v] = "go" /\ obj[v] = u => pc'[v] = "go" /\ obj'[v] = u
    OBVIOUS
  <2> QED
    BY <2>1, <2>2, ThreadKept
<1> QED
  BY <1>1, <1>2

\* A thread goes to sleep, as a receiver on the queue q or as a sender.
Sleeps(t, q) ==
  /\ OthersAlone(t) /\ pc[t] # "go"
  /\ pc'[t] = "rcvwait" \/ (pc'[t] = "sendwait" /\ q \in Ports)
  /\ obj'[t] = q /\ state'[t] = "in_progress" /\ kmsg'[t] = None
  /\ \A r \in Queues : Range(threads'[r]) =
       (Range(threads[r]) \ {t}) \cup IF pc'[t] = "rcvwait" /\ r = q THEN {t} ELSE {}
  /\ \A r \in Ports : Range(blocked'[r]) =
       (Range(blocked[r]) \ {t}) \cup IF pc'[t] = "sendwait" /\ r = q THEN {t} ELSE {}

LEMMA OneSleeps ==
  ASSUME WaitInv, NEW t \in Threads, NEW q \in Queues, Sleeps(t, q)
  PROVE  \A u \in Threads : ThreadOK(u)'
<1> USE DEF Sleeps, OthersAlone
<1>1. ThreadOK(t)'
  <2>1. ~Given(t)'
    BY DEF Given
  <2>2. \A r \in Queues : t \in Range(threads'[r]) <=> InQueue(t, r)'
    BY DEF InQueue
  <2>3. \A r \in Ports : t \in Range(blocked'[r]) <=> IsBlocked(t, r)'
    BY DEF IsBlocked
  <2> QED
    BY <2>1, <2>2, <2>3 DEF ThreadOK
<1>2. ASSUME NEW u \in Threads \ {t} PROVE ThreadOK(u)'
  <2>1. ThreadOK(u)
    BY DEF WaitInv
  <2>2. \A v \in Threads : pc[v] = "go" /\ obj[v] = u => pc'[v] = "go" /\ obj'[v] = u
    OBVIOUS
  <2>3. /\ \A r \in Queues : u \in Range(threads'[r]) <=> u \in Range(threads[r])
        /\ \A r \in Ports : u \in Range(blocked'[r]) <=> u \in Range(blocked[r])
    OBVIOUS
  <2> QED
    BY <2>1, <2>2, <2>3, ThreadKept
<1> QED
  BY <1>1, <1>2

\* The receivers D of a queue are sent away and the senders S of a port go on,
\* while the thread me (or nobody) does something else.
TellsMany(me, D, S) ==
  /\ D = {} \/ \E q \in Queues : D = Range(threads[q])
  /\ S = {} \/ \E p \in Ports : S \subseteq Range(blocked[p])
  /\ \A u \in Threads : u \in D => state'[u] \in {"changed", "died"}
  /\ \A u \in Threads : u \in S => state'[u] = "success"
  /\ \A u \in Threads : u \notin D \cup S => state'[u] = state[u]
  /\ \A u \in Threads : waiting'[u] => waiting[u] /\ u \notin D \cup S
  /\ \A u \in Threads \ {me} : /\ pc'[u] = pc[u] /\ obj'[u] = obj[u]
                               /\ size'[u] = size[u] /\ kmsg'[u] = kmsg[u]
  /\ \A r \in Queues : Range(threads'[r]) = Range(threads[r]) \ D
  /\ \A r \in Ports : Range(blocked'[r]) = Range(blocked[r]) \ S
  /\ me \in Threads =>
       /\ pc[me] \notin {"go", "sendwait", "rcvwait"}
       /\ pc'[me] \notin {"sendwait", "rcvwait"}
       /\ pc'[me] \in {"circular", "kill"} => obj'[me] \in Ports
       /\ kmsg'[me] # None <=> pc'[me] = "got"

LEMMA ManyTold ==
  ASSUME WaitInv, NEW me, NEW D, NEW S, TellsMany(me, D, S)
  PROVE  \A u \in Threads : ThreadOK(u)'
<1> USE DEF TellsMany
<1>1. ASSUME NEW u \in Threads
      PROVE  /\ u \in D => (\E q \in Queues : InQueue(u, q)) /\ u \notin S /\ u # me
             /\ u \in S => (\E p \in Ports : IsBlocked(u, p)) /\ u # me
  BY WhereFacts DEF InQueue, IsBlocked
<1>2. ASSUME NEW u \in Threads, u # me, u \in D PROVE ThreadOK(u)'
  <2>1. PICK q \in Queues : InQueue(u, q)
    BY <1>1, <1>2
  <2>2. ThreadOK(u)
    BY DEF WaitInv
  <2>3. kmsg'[u] = None /\ ~Given(u)'
    BY <1>2, <2>1, <2>2 DEF ThreadOK, InQueue, Given
  <2> QED
    BY <1>2, <2>1, <2>2, <2>3, ReceiverTold
<1>3. ASSUME NEW u \in Threads, u # me, u \in S PROVE ThreadOK(u)'
  <2>1. PICK p \in Ports : IsBlocked(u, p)
    BY <1>1, <1>3
  <2>2. ThreadOK(u) /\ \A r \in Ports : u \notin Range(blocked'[r])
    BY <1>3 DEF WaitInv
  <2> QED
    BY <1>3, <2>1, <2>2, SenderTold
<1>4. ASSUME NEW u \in Threads, u # me, u \notin D \cup S PROVE ThreadOK(u)'
  <2>1. ThreadOK(u)
    BY DEF WaitInv
  <2>2. \A v \in Threads : pc[v] = "go" /\ obj[v] = u => pc'[v] = "go" /\ obj'[v] = u
    OBVIOUS
  <2> QED
    BY <1>4, <2>1, <2>2, ThreadKept
<1>5. ASSUME me \in Threads PROVE ThreadOK(me)'
  <2>1. /\ ~waiting[me] /\ state[me] = "none"
        /\ \A r \in Queues : me \notin Range(threads[r])
        /\ \A r \in Ports : me \notin Range(blocked[r])
        /\ me \notin D \cup S
    BY <1>1, <1>5, WhereFacts
  <2> QED
    BY <1>5, <2>1, ThreadAwake
<1> QED
  BY <1>2, <1>3, <1>4, <1>5

-----------------------------------------------------------------------------
(* Queues and ports.                                                       *)

HomeIn(ps, p) == IF ps[p] = None THEN p ELSE ps[p]
QueuedIn(msgs, ps, p) == OfPort(msgs[HomeIn(ps, p)], p)

\* Messages in the queues msgs, with receivers thr and ports in the sets ps.
Placed(msgs, thr, ps) ==
  /\ msgs \in [Queues -> Seq(Message)]
  /\ \A q \in Queues : msgs[q] = <<>> \/ thr[q] = <<>>
  /\ \A q \in Queues : \A m \in Range(msgs[q]) : HomeIn(ps, m.port) = q

LEMMA PlacedNow ==
  ASSUME QueueInv
  PROVE  /\ Placed(messages, threads, pset)
         /\ \A p \in Ports : QueuedIn(messages, pset, p) = Queued(p)
BY DEF QueueInv, TypeOK, WaitInv, QueueOK, Placed, QueuedIn, Queued, Home, HomeIn

\* ipc_pset_remove loses no message and changes no order.
LEMMA MovedFacts ==
  ASSUME QueueInv, NEW p \in Ports, NEW ps, ps = [pset EXCEPT ![p] = None]
  PROVE  /\ Placed(MovedHome(p), threads, ps)
         /\ \A r \in Ports : QueuedIn(MovedHome(p), ps, r) = Queued(r)
<1>1. /\ messages \in [Queues -> Seq(Message)] /\ pset \in [Ports -> Psets \cup {None}]
      /\ Placed(messages, threads, pset)
      /\ \A r \in Ports : QueuedIn(messages, pset, r) = Queued(r)
      /\ Ports \subseteq Queues /\ Psets \subseteq Queues /\ Ports \cap Psets = {}
      /\ None \notin Queues
  BY PlacedNow, MsgQueueAssumption DEF QueueInv, TypeOK, Queues
<1>2. CASE pset[p] = None
  <2>1. ps = pset /\ MovedHome(p) = messages
    BY <1>1, <1>2 DEF MovedHome
  <2> QED
    BY <1>1, <2>1
<1>3. CASE pset[p] # None
  <2> DEFINE s == pset[p]
             own == OfPort(messages[s], p)
             msgs == MovedHome(p)
  <2>1. s \in Psets /\ s \in Queues /\ p \in Queues /\ s # p
    BY <1>1, <1>3
  <2>2. msgs = [messages EXCEPT ![s] = NotOfPort(@, p), ![p] = @ \o own]
    BY <1>3 DEF MovedHome
  <2>3. /\ messages[s] \in Seq(Message) /\ messages[p] \in Seq(Message)
        /\ own \in Seq(Message) /\ NotOfPort(messages[s], p) \in Seq(Message)
        /\ Range(own) = {m \in Range(messages[s]) : m.port = p}
        /\ Range(NotOfPort(messages[s], p)) = {m \in Range(messages[s]) : m.port # p}
    BY <1>1, <2>1, OfPortFacts
  <2>4. messages[p] = <<>>
    <3> SUFFICES ASSUME messages[p] # <<>> PROVE FALSE
      OBVIOUS
    <3>1. Head(messages[p]) \in Range(messages[p]) /\ Head(messages[p]) \in Message
      BY <2>3, TailRange
    <3>2. HomeIn(pset, Head(messages[p]).port) = p /\ Head(messages[p]).port \in Ports
      BY <1>1, <2>1, <3>1 DEF Placed, Message
    <3> QED
      BY <1>1, <1>3, <2>1, <3>2 DEF HomeIn
  <2>5. /\ msgs[s] = NotOfPort(messages[s], p) /\ msgs[p] = own
        /\ \A q \in Queues \ {s, p} : msgs[q] = messages[q]
        /\ msgs \in [Queues -> Seq(Message)]
    <3>1. <<>> \o own = own
      BY <2>3
    <3> HIDE DEF own, s, msgs
    <3> QED
      BY <1>1, <2>1, <2>2, <2>3, <2>4, <3>1
  <2>6. threads[p] = <<>>
    BY <1>1, <1>3 DEF QueueInv, WaitInv, QueueOK, Gone
  <2>7. \A q \in Queues : msgs[q] = <<>> \/ threads[q] = <<>>
    <3>1. msgs[s] = <<>> \/ threads[s] = <<>>
      <4>1. ASSUME messages[s] = <<>> PROVE msgs[s] = <<>>
        <5>1. Range(messages[s]) \subseteq {m \in Message : m.port = p}
          BY <4>1, EmptyRange
        <5>2. NotOfPort(messages[s], p) = <<>>
          BY <2>3, <5>1, WithoutAll DEF NotOfPort
        <5> QED
          BY <2>5, <5>2
      <4> QED
        BY <1>1, <2>1, <4>1 DEF Placed
    <3> QED
      BY <1>1, <2>5, <2>6, <3>1 DEF Placed
  <2>8. \A r \in Ports : HomeIn(ps, r) = IF r = p THEN p ELSE HomeIn(pset, r)
    BY <1>1 DEF HomeIn
  <2>9. \A q \in Queues : \A m \in Range(messages[q]) : m.port \in Ports /\ HomeIn(pset, m.port) = q
    <3>1. \A q \in Queues : Range(messages[q]) \subseteq Message
      BY <1>1, RangeSeq
    <3>2. \A m \in Message : m.port \in Ports
      BY DEF Message
    <3> QED
      BY <1>1, <3>1, <3>2 DEF Placed
  <2>10. \A q \in Queues : \A m \in Range(msgs[q]) : HomeIn(ps, m.port) = q
    <3> SUFFICES ASSUME NEW q \in Queues, NEW m \in Range(msgs[q])
                 PROVE  HomeIn(ps, m.port) = q
      OBVIOUS
    <3> HIDE DEF own, s, msgs
    <3>1. CASE q = s
      BY <2>1, <2>3, <2>5, <2>8, <2>9, <3>1
    <3>2. CASE q = p
      BY <2>1, <2>3, <2>5, <2>8, <2>9, <3>2
    <3>3. CASE q # s /\ q # p
      <4>1. m \in Range(messages[q])
        BY <2>5, <3>3
      <4>2. m.port # p
        BY <2>9, <3>3, <4>1, <1>3 DEF HomeIn, s
      <4> QED
        BY <2>8, <2>9, <4>1, <4>2
    <3> QED
      BY <3>1, <3>2, <3>3
  <2>11. ASSUME NEW r \in Ports PROVE QueuedIn(msgs, ps, r) = Queued(r)
    <3>1. CASE r = p
      <4>1. Queued(p) = own
        BY <1>1, <1>3 DEF QueuedIn, HomeIn
      <4>2. QueuedIn(msgs, ps, p) = OfPort(own, p)
        BY <2>5, <2>8 DEF QueuedIn
      <4>3. OfPort(own, p) = own
        <5> HIDE DEF own
        <5> QED
          BY <2>3, OfPortOwn
      <4> QED
        BY <3>1, <4>1, <4>2, <4>3
    <3>2. CASE r # p
      <4>1. HomeIn(ps, r) = HomeIn(pset, r) /\ HomeIn(pset, r) # p /\ HomeIn(pset, r) \in Queues
        BY <1>1, <2>8, <3>2 DEF HomeIn
      <4>2. CASE HomeIn(pset, r) = s
        <5>1. OfPort(NotOfPort(messages[s], p), r) = OfPort(messages[s], r)
          BY <2>3, <3>2, OfPortRest
        <5> QED
          BY <1>1, <2>5, <4>1, <4>2, <5>1 DEF QueuedIn
      <4>3. CASE HomeIn(pset, r) # s
        BY <1>1, <2>5, <4>1, <4>3 DEF QueuedIn
      <4> QED
        BY <4>2, <4>3
    <3> QED
      BY <3>1, <3>2
  <2> QED
    BY <2>5, <2>7, <2>10, <2>11 DEF Placed
<1> QED
  BY <1>2, <1>3

LEMMA QueuePart ==
  ASSUME Placed(messages', threads', pset'),
         \A q \in Queues : IsInjective(threads'[q]) /\ (Gone(q)' => threads'[q] = <<>>)
  PROVE  \A q \in Queues : QueueOK(q)'
BY DEF QueueOK, Placed, Home, HomeIn

\* What the invariant says of queues and ports.
LEMMA QueueFacts ==
  ASSUME QueueInv
  PROVE  /\ \A q \in Queues : threads[q] \in Seq(Threads) /\ IsInjective(threads[q])
         /\ \A q \in Queues : Gone(q) => threads[q] = <<>>
         /\ \A q \in Queues : Range(threads[q]) \subseteq Threads
         /\ \A q \in Queues : messages[q] \in Seq(Message) /\ Range(messages[q]) \subseteq Message
         /\ \A p \in Ports : blocked[p] \in Seq(Threads) /\ IsInjective(blocked[p])
         /\ \A p \in Ports : Range(blocked[p]) \subseteq Threads
         /\ \A p \in Ports : p \notin active => blocked[p] = <<>>
         /\ \A p \in Ports : p \notin held => pset[p] = None
<1>1. /\ \A q \in Queues : threads[q] \in Seq(Threads) /\ messages[q] \in Seq(Message)
      /\ \A p \in Ports : blocked[p] \in Seq(Threads)
  BY DEF QueueInv, TypeOK
<1>2. /\ \A q \in Queues : Range(threads[q]) \subseteq Threads
      /\ \A q \in Queues : Range(messages[q]) \subseteq Message
      /\ \A p \in Ports : Range(blocked[p]) \subseteq Threads
  BY <1>1, RangeSeq
<1> QED
  BY <1>1, <1>2 DEF QueueInv, WaitInv, QueueOK, PortOK

LEMMA NamesDisjoint ==
  /\ Ports \subseteq Queues /\ Psets \subseteq Queues /\ Ports \cap Psets = {}
  /\ None \notin Queues /\ None \notin Ports /\ None \notin Psets /\ None \notin Threads
  /\ \A m \in Message : m.port \in Ports /\ m.num \in 1..MaxSends /\ m.big \in BOOLEAN
BY MsgQueueAssumption DEF Queues, Message

-----------------------------------------------------------------------------
(* What a step does to the messages.                                       *)

\* Nothing, but for the numbers that messages will get.
Quiet ==
  /\ \A p \in Ports : Queued(p)' = Queued(p)
  /\ kmsg' = kmsg /\ ith_seqno' = ith_seqno /\ sent' = sent /\ msgcount' = msgcount
  /\ active' = active \/ \E p \in active : active' = active \ {p}
  /\ renumbered \subseteq renumbered'
  /\ \A p \in Ports \ renumbered' : seqno[p] <= seqno'[p]

\* The first of the messages A of port p go to the threads of to: A is what
\* was queued, with perhaps a new message at the end.
Handed(p, A, to) ==
  /\ A \in Seq(Message) /\ to \in Seq(Threads) /\ IsInjective(to) /\ Len(to) <= Len(A)
  /\ Queued(p)' = SubSeq(A, Len(to) + 1, Len(A))
  /\ \A r \in Ports \ {p} : Queued(r)' = Queued(r)
  /\ \A i \in 1..Len(to) : /\ kmsg[to[i]] = None /\ kmsg'[to[i]] = A[i]
                           /\ ith_seqno'[to[i]] = seqno[p] + i - 1
  /\ \A t \in Threads \ Range(to) : kmsg'[t] = kmsg[t] /\ ith_seqno'[t] = ith_seqno[t]
  /\ seqno' = [seqno EXCEPT ![p] = @ + Len(to)]
  /\ UNCHANGED <<active, renumbered>>
  /\ \/ A = Queued(p) /\ UNCHANGED <<sent, msgcount>>
     \/ \E m \in Message :
          /\ p \in active /\ m.port = p /\ m.num = sent[p] + 1
          /\ A = Append(Queued(p), m) /\ (to = <<>> \/ Queued(p) = <<>>)
          /\ sent' = [sent EXCEPT ![p] = @ + 1]
          /\ msgcount' = [msgcount EXCEPT ![p] = @ + 1]

\* The thread t counts its message out.
Counted(t) ==
  /\ kmsg[t] # None
  /\ \A p \in Ports : Queued(p)' = Queued(p)
  /\ kmsg' = [kmsg EXCEPT ![t] = None] /\ ith_seqno' = [ith_seqno EXCEPT ![t] = 0]
  /\ \A p \in active : msgcount'[p] = IF p = kmsg[t].port THEN msgcount[p] - 1 ELSE msgcount[p]
  /\ UNCHANGED <<active, sent, renumbered, seqno>>

\* A message of a dead port is destroyed.
Purged(p) ==
  /\ p \notin active /\ Queued(p) # <<>> /\ Queued(p)' = Tail(Queued(p))
  /\ \A r \in Ports \ {p} : Queued(r)' = Queued(r)
  /\ UNCHANGED <<kmsg, ith_seqno, msgcount, active, sent, renumbered, seqno>>

MessageStep ==
  \/ Quiet
  \/ \E p \in Ports : \E A, to : Handed(p, A, to)
  \/ \E t \in Threads : Counted(t)
  \/ \E p \in Ports : Purged(p)

-----------------------------------------------------------------------------
(* The small steps.                                                        *)

LEMMA ClearWaitStep ==
  ASSUME QueueInv, NEW t \in Threads, NEW why \in {"timed_out", "interrupted"},
         ClearWait(t, why)
  PROVE  TypeOK' /\ WaitInv' /\ Quiet
<1> USE DEF ClearWait, queues, portvars, counts, call
<1>1. TypeOK'
  BY DEF QueueInv, TypeOK
<1>2. ASSUME NEW u \in Threads PROVE ThreadOK(u)'
  <2>1. ThreadOK(u) /\ (waiting'[u] => waiting[u])
    BY DEF QueueInv, WaitInv, TypeOK
  <2> QED
    BY <2>1, ThreadKept
<1>3. (\A q \in Queues : QueueOK(q)') /\ \A p \in Ports : PortOK(p)'
  BY DEF QueueInv, WaitInv, QueueOK, PortOK, Gone, Home
<1>4. Quiet
  BY DEF QueueInv, TypeOK, Quiet, Queued, Home
<1> QED
  BY <1>1, <1>2, <1>3, <1>4 DEF WaitInv

\* Where a thread is next.
LEMMA EnterEffect ==
  ASSUME TypeOK, NEW t \in Threads, NEW at \in Pcs,
         NEW o \in Queues \cup Threads \cup {None},
         NEW sz \in {"fit", "big", "circular", "short", "large"}, Enter(t, at, o, sz)
  PROVE  /\ pc'[t] = at /\ obj'[t] = o /\ size'[t] = sz
         /\ \A u \in Threads \ {t} : pc'[u] = pc[u] /\ obj'[u] = obj[u] /\ size'[u] = size[u]
         /\ pc' \in [Threads -> Pcs] /\ obj' \in [Threads -> Queues \cup Threads \cup {None}]
         /\ size' \in [Threads -> {"fit", "big", "circular", "short", "large"}]
BY DEF TypeOK, Enter

LEMMA DoneEffect ==
  ASSUME TypeOK, NEW t \in Threads, Done(t)
  PROVE  /\ pc'[t] = "run" /\ obj'[t] = None /\ size'[t] = "fit"
         /\ \A u \in Threads \ {t} : pc'[u] = pc[u] /\ obj'[u] = obj[u] /\ size'[u] = size[u]
         /\ pc' \in [Threads -> Pcs] /\ obj' \in [Threads -> Queues \cup Threads \cup {None}]
         /\ size' \in [Threads -> {"fit", "big", "circular", "short", "large"}]
BY EnterEffect DEF Done, Pcs

LEMMA SendGoStep ==
  ASSUME QueueInv, NEW t \in Threads, SendGo(t)
  PROVE  TypeOK' /\ WaitInv' /\ Quiet
<1> USE DEF SendGo, queues, portvars, counts, call
<1>0. TypeOK /\ WaitInv
  BY DEF QueueInv
<1>1. TypeOK'
  <2>1. waiting' \in [Threads -> BOOLEAN]
    BY DEF Go
  <2>2. wait_result' \in [Threads -> {"none", "awakened", "timed_out", "interrupted"}]
    BY <1>0 DEF Go, TypeOK
  <2>3. /\ pc' \in [Threads -> Pcs] /\ obj' \in [Threads -> Queues \cup Threads \cup {None}]
        /\ size' \in [Threads -> {"fit", "big", "circular", "short", "large"}]
    BY <1>0, DoneEffect
  <2> QED
    BY <1>0, <2>1, <2>2, <2>3 DEF TypeOK
<1>2. /\ pc'[t] = "run" /\ ~waiting[t] /\ state[t] = "none" /\ kmsg[t] = None
      /\ \A q \in Queues : t \notin Range(threads[q])
      /\ \A p \in Ports : t \notin Range(blocked[p])
      /\ \A u \in Threads \ {t} : pc'[u] = pc[u] /\ obj'[u] = obj[u] /\ size'[u] = size[u]
  <2>1. /\ ~waiting[t] /\ state[t] = "none" /\ kmsg[t] = None
        /\ \A q \in Queues : t \notin Range(threads[q])
        /\ \A p \in Ports : t \notin Range(blocked[p])
    BY <1>0, WhereFacts
  <2> QED
    BY <1>0, <2>1, DoneEffect
<1>3. \A u \in Threads : waiting'[u] => waiting[u] /\ u # obj[t]
  BY DEF Go
<1>4. ASSUME NEW u \in Threads PROVE ThreadOK(u)'
  <2>1. CASE u = t
    BY <1>2, <1>3, <2>1, ThreadAwake
  <2>2. CASE u # t
    <3>1. ThreadOK(u)
      BY <1>0 DEF WaitInv
    <3>2. ASSUME waiting'[u], NEW v \in Threads, pc[v] = "go", obj[v] = u
          PROVE  pc'[v] = "go" /\ obj'[v] = u
      BY <1>2, <1>3, <3>2
    <3> QED
      BY <1>2, <1>3, <2>2, <3>1, <3>2, ThreadKept
  <2> QED
    BY <2>1, <2>2
<1>5. (\A q \in Queues : QueueOK(q)') /\ \A p \in Ports : PortOK(p)'
  BY <1>0 DEF WaitInv, QueueOK, PortOK, Gone, Home
<1>6. Quiet
  BY <1>0 DEF TypeOK, Quiet, Queued, Home
<1> QED
  BY <1>1, <1>4, <1>5, <1>6 DEF WaitInv

\* A step that touches no thread.
LEMMA ThreadsAlone ==
  ASSUME QueueInv, UNCHANGED <<call, ith, threads, blocked>>
  PROVE  \A t \in Threads : ThreadOK(t)'
BY DEF QueueInv, WaitInv, ThreadOK, Given, Expected, InQueue, IsBlocked, call, ith

LEMMA PurgeStep ==
  ASSUME QueueInv, NEW p \in Ports, PurgeMessage(p)
  PROVE  TypeOK' /\ WaitInv' /\ Purged(p)
<1> USE DEF PurgeMessage, portvars, counts
<1>0. TypeOK /\ WaitInv /\ Placed(messages, threads, pset)
  BY PlacedNow DEF QueueInv
<1>1. \A q \in Queues : messages[q] \in Seq(Message)
  BY QueueFacts
<1>2. /\ messages[p] \in Seq(Message) /\ p \in Queues
      /\ messages' = [messages EXCEPT ![p] = Tail(@)] /\ messages \in [Queues -> Seq(Message)]
      /\ Tail(messages[p]) \in Seq(Message) /\ Head(messages[p]) \in Message
      /\ Head(messages[p]) \in Range(messages[p])
      /\ Range(Tail(messages[p])) \subseteq Range(messages[p])
  BY <1>0, <1>1, TailRange, NamesDisjoint DEF TypeOK
<1>3. TypeOK'
  BY <1>0, <1>2 DEF TypeOK, call, ith
<1>4. \A t \in Threads : ThreadOK(t)'
  BY ThreadsAlone
<1>5. \A q \in Queues : Range(messages'[q]) \subseteq Range(messages[q])
  BY <1>2
<1>6. \A q \in Queues : messages'[q] = <<>> \/ threads'[q] = <<>>
  BY <1>0, <1>2 DEF Placed
<1>7. Placed(messages', threads', pset')
  BY <1>0, <1>3, <1>5, <1>6 DEF Placed, TypeOK, HomeIn
<1>8. \A q \in Queues : QueueOK(q)'
  BY <1>7, QueuePart, QueueFacts DEF Gone
<1>9. \A r \in Ports : PortOK(r)'
  BY <1>0 DEF WaitInv, PortOK
<1>10. Purged(p)
  <2>1. /\ Head(messages[p]).port = p /\ Home(p) = p
    <3>1. p \notin held /\ pset[p] = None
      BY <1>0 DEF TypeOK, WaitInv, PortOK
    <3>2. /\ HomeIn(pset, Head(messages[p]).port) = p /\ Head(messages[p]).port \in Ports
      BY <1>0, <1>2, NamesDisjoint DEF Placed
    <3> QED
      BY <1>0, <3>1, <3>2, NamesDisjoint DEF TypeOK, HomeIn, Home
  <2>2. /\ Queued(p) # <<>> /\ OfPort(Tail(messages[p]), p) = Tail(Queued(p))
    BY <1>2, <2>1, OfPortTail DEF Queued
  <2>3. ASSUME NEW r \in Ports \ {p} PROVE Queued(r)' = Queued(r)
    <3>1. Home(r) = Home(r)' /\ Home(r) \in Queues /\ Home(r) # p
      BY <1>0, NamesDisjoint DEF Home, TypeOK
    <3> QED
      BY <1>2, <3>1 DEF Queued
  <2>4. Queued(p)' = Tail(Queued(p))
    BY <1>2, <2>1, <2>2 DEF Queued, Home
  <2> QED
    BY <2>2, <2>3, <2>4 DEF Purged, ith
<1> QED
  BY <1>3, <1>4, <1>8, <1>9, <1>10 DEF WaitInv

LEMMA KernelReplyStep ==
  ASSUME QueueInv, NEW p \in Ports, KernelReply(p)
  PROVE  TypeOK' /\ WaitInv' /\ Quiet
<1> USE DEF KernelReply, portvars, counts
<1>0. TypeOK /\ WaitInv /\ MaxSeqno \in Nat
  BY MsgQueueAssumption DEF QueueInv
<1>1. seqno' \in [Ports -> 0 .. MaxSeqno] /\ \A r \in Ports : seqno[r] <= seqno'[r]
  BY <1>0 DEF TypeOK
<1>2. TypeOK'
  BY <1>0, <1>1 DEF TypeOK, call, ith
<1>3. \A t \in Threads : ThreadOK(t)'
  BY ThreadsAlone
<1>4. (\A q \in Queues : QueueOK(q)') /\ \A r \in Ports : PortOK(r)'
  BY <1>0 DEF WaitInv, QueueOK, PortOK, Gone, Home
<1>5. Quiet
  BY <1>1 DEF Quiet, Queued, Home, ith
<1> QED
  BY <1>2, <1>3, <1>4, <1>5 DEF WaitInv

LEMMA CopyoutStep ==
  ASSUME QueueInv, NEW p \in Ports, CopyoutReceive(p)
  PROVE  TypeOK' /\ WaitInv' /\ Quiet
<1> USE DEF CopyoutReceive, queues, portvars, counts
<1>0. TypeOK /\ WaitInv
  BY DEF QueueInv
<1>1. TypeOK'
  BY <1>0 DEF TypeOK, call, ith
<1>2. \A t \in Threads : ThreadOK(t)'
  BY ThreadsAlone
<1>3. (\A q \in Queues : QueueOK(q)') /\ \A r \in Ports : PortOK(r)'
  BY <1>0 DEF WaitInv, QueueOK, PortOK, Gone, Home
<1>4. Quiet
  BY <1>0 DEF TypeOK, Quiet, Queued, Home, ith
<1> QED
  BY <1>1, <1>2, <1>3, <1>4 DEF WaitInv

\* A port leaves its set, which may be none: what ipc_pset_remove leaves.
LEMMA LeavesSet ==
  ASSUME QueueInv, NEW p \in Ports, messages' = MovedHome(p),
         pset' = [pset EXCEPT ![p] = None]
  PROVE  /\ messages' \in [Queues -> Seq(Message)] /\ pset' \in [Ports -> Psets \cup {None}]
         /\ \A q \in Queues : messages'[q] = <<>> \/ threads[q] = <<>>
         /\ \A q \in Queues : \A m \in Range(messages'[q]) : HomeIn(pset', m.port) = q
         /\ \A r \in Ports : Queued(r)' = Queued(r)
<1>1. /\ Placed(messages', threads, pset')
      /\ \A r \in Ports : QueuedIn(messages', pset', r) = Queued(r)
  BY MovedFacts
<1>2. \A r \in Ports : Queued(r)' = QueuedIn(messages', pset', r)
  BY DEF Queued, QueuedIn, Home, HomeIn
<1>3. pset' \in [Ports -> Psets \cup {None}]
  BY DEF QueueInv, TypeOK
<1> QED
  BY <1>1, <1>2, <1>3 DEF Placed

LEMMA SetSeqnoStep ==
  ASSUME QueueInv, NEW p \in Ports, ipc_port_set_seqno(p, 0)
  PROVE  TypeOK' /\ WaitInv' /\ Quiet
<1> USE DEF ipc_port_set_seqno, counts
<1>0. TypeOK /\ WaitInv /\ MaxSeqno \in Nat
  BY MsgQueueAssumption DEF QueueInv
<1>1. \A t \in Threads : ThreadOK(t)'
  BY ThreadsAlone
<1>2. /\ messages' \in [Queues -> Seq(Message)] /\ pset' \in [Ports -> Psets \cup {None}]
      /\ Placed(messages', threads', pset') /\ \A r \in Ports : Queued(r)' = Queued(r)
      /\ \A r \in Ports : pset'[r] = pset[r] \/ pset'[r] = None
  <2>1. CASE pset[p] \in sets
    <3>1. messages' = messages /\ pset' = pset
      BY <2>1
    <3>2. Placed(messages, threads, pset)
      BY PlacedNow
    <3> QED
      BY <1>0, <3>1, <3>2 DEF TypeOK, Queued, Home
  <2>2. CASE pset[p] \notin sets
    <3>1. messages' = MovedHome(p) /\ pset' = [pset EXCEPT ![p] = None]
      BY <2>2
    <3> QED
      BY <1>0, <3>1, LeavesSet DEF Placed, TypeOK
  <2> QED
    BY <2>1, <2>2
<1>3. TypeOK'
  BY <1>0, <1>2 DEF TypeOK, call, ith
<1>4. \A q \in Queues : QueueOK(q)'
  <2>1. \A q \in Queues : IsInjective(threads'[q]) /\ (Gone(q)' => threads'[q] = <<>>)
    BY <1>2, QueueFacts DEF Gone, Queues
  <2> QED
    BY <1>2, <2>1, QueuePart
<1>5. \A r \in Ports : PortOK(r)'
  BY <1>0, <1>2 DEF WaitInv, PortOK
<1>6. Quiet
  BY <1>0, <1>2 DEF Quiet, ith, TypeOK
<1> QED
  BY <1>1, <1>3, <1>4, <1>5, <1>6 DEF WaitInv

-----------------------------------------------------------------------------
(* Limits, sets and ports that go away.                                    *)

LEMMA GoEffect ==
  ASSUME TypeOK, NEW S, NEW me, Go(S, me)
  PROVE  /\ waiting' \in [Threads -> BOOLEAN]
         /\ wait_result' \in [Threads -> {"none", "awakened", "timed_out", "interrupted"}]
         /\ \A u \in Threads : waiting'[u] => waiting[u] /\ u \notin S
BY DEF TypeOK, Go

LEMMA TellEffect ==
  ASSUME TypeOK, NEW S, NEW why \in {"success", "changed", "died"}, Tell(S, why)
  PROVE  /\ state' \in [Threads -> {"none", "in_progress", "success", "too_large",
                                    "changed", "died"}]
         /\ waiting' \in [Threads -> BOOLEAN]
         /\ wait_result' \in [Threads -> {"none", "awakened", "timed_out", "interrupted"}]
         /\ \A u \in Threads : u \in S => state'[u] = why
         /\ \A u \in Threads : u \notin S => state'[u] = state[u]
         /\ \A u \in Threads : waiting'[u] => waiting[u] /\ u \notin S
         /\ kmsg' = kmsg /\ ith_seqno' = ith_seqno
<1>1. Go(S, None)
  BY DEF Tell
<1>2. /\ state' \in [Threads -> {"none", "in_progress", "success", "too_large",
                                 "changed", "died"}]
      /\ \A u \in Threads : u \in S => state'[u] = why
      /\ \A u \in Threads : u \notin S => state'[u] = state[u]
      /\ kmsg' = kmsg /\ ith_seqno' = ith_seqno
  BY DEF TypeOK, Tell
<1> QED
  BY <1>1, <1>2, GoEffect

\* No thread is on two queues.
LEMMA QueuesApart ==
  ASSUME QueueInv, NEW q \in Queues, NEW r \in Queues, q # r
  PROVE  Range(threads[q]) \cap Range(threads[r]) = {}
<1>1. WaitInv /\ Range(threads[q]) \subseteq Threads
  BY QueueFacts DEF QueueInv
<1> QED
  BY <1>1, WhereFacts DEF InQueue

LEMMA BlockedApart ==
  ASSUME QueueInv, NEW q \in Ports, NEW r \in Ports, q # r
  PROVE  Range(blocked[q]) \cap Range(blocked[r]) = {}
<1>1. WaitInv /\ Range(blocked[q]) \subseteq Threads
  BY QueueFacts DEF QueueInv
<1> QED
  BY <1>1, WhereFacts DEF IsBlocked

LEMMA PsetDestroyStep ==
  ASSUME QueueInv, NEW s \in Psets, ipc_pset_destroy(s)
  PROVE  TypeOK' /\ WaitInv' /\ Quiet
<1> USE DEF ipc_pset_destroy, counts, call
<1>0. TypeOK /\ WaitInv /\ s \in Queues /\ Tell(Range(threads[s]), "died")
  BY NamesDisjoint DEF QueueInv
<1>1. TypeOK'
  <2>1. threads' \in [Queues -> Seq(Threads)]
    BY <1>0 DEF TypeOK
  <2> QED
    BY <1>0, <2>1, TellEffect DEF TypeOK
<1>2. \A r \in Queues : /\ threads'[r] = IF r = s THEN <<>> ELSE threads[r]
                        /\ Range(threads'[r]) = Range(threads[r]) \ Range(threads[s])
  <2>1. \A r \in Queues : threads'[r] = IF r = s THEN <<>> ELSE threads[r]
    BY <1>0 DEF TypeOK
  <2> QED
    BY <1>0, <2>1, EmptyRange, QueuesApart
<1>3. \A u \in Threads : ThreadOK(u)'
  <2> DEFINE D == Range(threads[s])
             S == {}
  <2>1. /\ \A u \in Threads : u \in D => state'[u] = "died"
        /\ \A u \in Threads : u \notin D => state'[u] = state[u]
        /\ \A u \in Threads : waiting'[u] => waiting[u] /\ u \notin D
        /\ kmsg' = kmsg /\ None \notin Threads
    BY <1>0, TellEffect, NamesDisjoint
  <2>2. /\ \A u \in Threads : u \in D => state'[u] \in {"changed", "died"}
        /\ \A u \in Threads : u \in S => state'[u] = "success"
        /\ \A u \in Threads : u \notin D \cup S => state'[u] = state[u]
        /\ \A u \in Threads : waiting'[u] => waiting[u] /\ u \notin D \cup S
        /\ \A r \in Queues : Range(threads'[r]) = Range(threads[r]) \ D
        /\ \A r \in Ports : Range(blocked'[r]) = Range(blocked[r]) \ S
        /\ S = {} /\ \E q \in Queues : D = Range(threads[q])
    BY <1>0, <1>2, <2>1
  <2> HIDE DEF D, S
  <2>3. TellsMany(None, D, S)
    BY <2>1, <2>2 DEF TellsMany
  <2> QED
    BY <1>0, <2>3, ManyTold
<1>4. \A q \in Queues : QueueOK(q)'
  <2>1. Placed(messages, threads, pset)
    BY PlacedNow
  <2>2. Placed(messages', threads', pset')
    BY <1>2, <2>1 DEF Placed
  <2>3. \A q \in Queues : IsInjective(threads'[q]) /\ (Gone(q)' => threads'[q] = <<>>)
    BY <1>2, QueueFacts, EmptyRange DEF Gone
  <2> QED
    BY <2>2, <2>3, QueuePart
<1>5. \A r \in Ports : PortOK(r)'
  BY <1>0 DEF WaitInv, PortOK
<1>6. Quiet
  BY <1>0, TellEffect DEF Quiet, Queued, Home, TypeOK
<1> QED
  BY <1>1, <1>3, <1>4, <1>5, <1>6 DEF WaitInv

\* The first senders go on when a limit is raised; the others stay.
LEMMA LimitFacts ==
  ASSUME QueueInv, NEW p \in Ports, NEW n \in QLimits
  PROVE  /\ Len(WokenByLimit(p, n)) \in 0..Len(blocked[p])
         /\ Len(WokenByLimit(p, n)) < Len(blocked[p]) =>
              n - qlimit[p] <= Len(WokenByLimit(p, n))
         /\ WokenByLimit(p, n) = SubSeq(blocked[p], 1, Len(WokenByLimit(p, n)))
<1> DEFINE k == IF n > qlimit[p] THEN n - qlimit[p] ELSE 0
           w == IF k < Len(blocked[p]) THEN k ELSE Len(blocked[p])
<1>1. n \in Nat /\ qlimit[p] \in Nat /\ blocked[p] \in Seq(Threads)
  BY MsgQueueAssumption DEF QueueInv, TypeOK
<1>2. k \in Nat /\ n - qlimit[p] <= k
  BY <1>1
<1>3. w \in 0..Len(blocked[p]) /\ (w < Len(blocked[p]) => w = k)
  <2> HIDE DEF k
  <2> QED
    BY <1>1, <1>2
<1>4. WokenByLimit(p, n) = SubSeq(blocked[p], 1, w)
  BY DEF WokenByLimit
<1> HIDE DEF k, w
<1>5. Len(SubSeq(blocked[p], 1, w)) = w
  BY <1>1, <1>3, SplitRange
<1> QED
  BY <1>1, <1>2, <1>3, <1>4, <1>5

LEMMA SetQlimitStep ==
  ASSUME QueueInv, NEW p \in Ports, NEW n \in QLimits, ipc_port_set_qlimit(p, n)
  PROVE  TypeOK' /\ WaitInv' /\ Quiet
<1> USE DEF ipc_port_set_qlimit, call
<1> DEFINE B == blocked[p]
           k == Len(WokenByLimit(p, n))
           S == Range(WokenByLimit(p, n))
           D == {}
           rest == SubSeq(B, k + 1, Len(B))
<1>0. /\ TypeOK /\ WaitInv /\ Tell(S, "success") /\ B \in Seq(Threads) /\ IsInjective(B)
      /\ k \in 0..Len(B)
      /\ WokenByLimit(p, n) = SubSeq(B, 1, k)
      /\ blocked' = [blocked EXCEPT ![p] = rest]
  BY LimitFacts, QueueFacts DEF QueueInv
<1> HIDE DEF B, k, S, rest
<1>1. /\ rest \in Seq(Threads) /\ IsInjective(rest)
      /\ Range(B) = S \cup Range(rest) /\ S \cap Range(rest) = {}
  BY <1>0, SplitRange DEF rest, S
<1>2. TypeOK'
  <2>1. blocked' \in [Ports -> Seq(Threads)] /\ qlimit' \in [Ports -> QLimits]
    BY <1>0, <1>1 DEF TypeOK
  <2>2. /\ state' \in [Threads -> {"none", "in_progress", "success", "too_large",
                                   "changed", "died"}]
        /\ waiting' \in [Threads -> BOOLEAN]
        /\ wait_result' \in [Threads -> {"none", "awakened", "timed_out", "interrupted"}]
        /\ kmsg' = kmsg /\ ith_seqno' = ith_seqno
    BY <1>0, TellEffect
  <2> QED
    BY <1>0, <2>1, <2>2 DEF TypeOK, queues
<1>3. \A r \in Ports : blocked'[r] = IF r = p THEN rest ELSE blocked[r]
  BY <1>0 DEF TypeOK
<1>4. \A r \in Ports : Range(blocked'[r]) = Range(blocked[r]) \ S
  BY <1>1, <1>3, BlockedApart DEF B
<1>5. \A u \in Threads : ThreadOK(u)'
  <2>1. /\ \A u \in Threads : u \in S => state'[u] = "success"
        /\ \A u \in Threads : u \notin S => state'[u] = state[u]
        /\ \A u \in Threads : waiting'[u] => waiting[u] /\ u \notin S
        /\ kmsg' = kmsg /\ None \notin Threads
    BY <1>0, TellEffect, NamesDisjoint
  <2>2. /\ \A u \in Threads : u \in D => state'[u] \in {"changed", "died"}
        /\ \A u \in Threads : u \notin D \cup S => state'[u] = state[u]
        /\ \A u \in Threads : waiting'[u] => waiting[u] /\ u \notin D \cup S
        /\ \A r \in Queues : Range(threads'[r]) = Range(threads[r]) \ D
        /\ D = {} /\ \E r \in Ports : S \subseteq Range(blocked[r])
    BY <1>1, <2>1 DEF queues, B
  <2>3. \A u \in Threads \ {None} : /\ pc'[u] = pc[u] /\ obj'[u] = obj[u]
                                    /\ size'[u] = size[u] /\ kmsg'[u] = kmsg[u]
    BY <2>1
  <2> HIDE DEF D
  <2>4. TellsMany(None, D, S)
    BY <1>4, <2>1, <2>2, <2>3 DEF TellsMany
  <2> QED
    BY <1>0, <2>4, ManyTold
<1>6. \A q \in Queues : QueueOK(q)'
  BY <1>0 DEF WaitInv, QueueOK, Gone, Home, queues
<1>7. \A r \in Ports : PortOK(r)'
  <2>1. p \in active
    OBVIOUS
  <2> QED
    BY <1>0, <1>1, <1>3, <2>1 DEF WaitInv, PortOK
<1>8. Quiet
  BY <1>0, TellEffect DEF Quiet, Queued, Home, TypeOK, queues
<1> QED
  BY <1>2, <1>5, <1>6, <1>7, <1>8 DEF WaitInv

\* ipc_port_clear_receiver.
LEMMA ClearFacts ==
  ASSUME QueueInv, NEW p \in Ports, ClearReceiver(p), held' = held \ {p}, sets' = sets
  PROVE  /\ messages' \in [Queues -> Seq(Message)] /\ threads' \in [Queues -> Seq(Threads)]
         /\ pset' \in [Ports -> Psets \cup {None}] /\ seqno' \in [Ports -> 0 .. MaxSeqno]
         /\ renumbered' \subseteq Ports /\ renumbered \subseteq renumbered'
         /\ \A r \in Ports \ renumbered' : seqno[r] <= seqno'[r]
         /\ \A r \in Ports : Queued(r)' = Queued(r)
         /\ \A r \in Queues : Range(threads'[r]) = Range(threads[r]) \ Range(threads[p])
         /\ \A q \in Queues : QueueOK(q)'
         /\ \A r \in Ports : r \notin held' => pset'[r] = None
<1> USE DEF ClearReceiver
<1>0. /\ TypeOK /\ WaitInv /\ MaxSeqno \in Nat /\ p \in Queues
      /\ Ports \subseteq Queues
  BY MsgQueueAssumption, NamesDisjoint DEF QueueInv
<1>1. /\ messages' \in [Queues -> Seq(Message)] /\ pset' \in [Ports -> Psets \cup {None}]
      /\ \A q \in Queues : messages'[q] = <<>> \/ threads[q] = <<>>
      /\ \A q \in Queues : \A m \in Range(messages'[q]) : HomeIn(pset', m.port) = q
      /\ \A r \in Ports : Queued(r)' = Queued(r)
  BY LeavesSet
<1>2. /\ threads' \in [Queues -> Seq(Threads)] /\ seqno' \in [Ports -> 0 .. MaxSeqno]
      /\ renumbered' \subseteq Ports /\ renumbered \subseteq renumbered'
      /\ \A r \in Ports \ renumbered' : seqno[r] <= seqno'[r]
  BY <1>0 DEF TypeOK
<1>3. /\ \A r \in Queues : threads'[r] = IF r = p THEN <<>> ELSE threads[r]
      /\ \A r \in Ports : pset'[r] = IF r = p THEN None ELSE pset[r]
  BY <1>0 DEF TypeOK
<1>4. \A r \in Queues : Range(threads'[r]) = Range(threads[r]) \ Range(threads[p])
  BY <1>0, <1>3, EmptyRange, QueuesApart
<1>5. \A q \in Queues : QueueOK(q)'
  <2>1. Placed(messages', threads', pset')
    BY <1>1, <1>3 DEF Placed
  <2>2. \A q \in Queues : IsInjective(threads'[q]) /\ (Gone(q)' => threads'[q] = <<>>)
    BY <1>0, <1>3, QueueFacts, EmptyRange DEF Gone, Queues
  <2> QED
    BY <2>1, <2>2, QueuePart
<1>6. \A r \in Ports : r \notin held' => pset'[r] = None
  BY <1>3, QueueFacts
<1> QED
  BY <1>1, <1>2, <1>4, <1>5, <1>6

\* The receive right moves, with the thread t (or nobody) doing something else.
LEMMA ReceiversSentAway ==
  ASSUME QueueInv, NEW p \in Ports, p \in active \cap held, ClearReceiver(p), held' = held \ {p},
         Tell(ReceiversOf(p), "died"), UNCHANGED <<active, sets, qlimit, counts, sent>>,
         NEW t, t \in Threads => pc[t] = "run" /\ pc'[t] = "circular" /\ obj'[t] = p,
         \A u \in Threads \ {t} : pc'[u] = pc[u] /\ obj'[u] = obj[u] /\ size'[u] = size[u],
         pc' \in [Threads -> Pcs], obj' \in [Threads -> Queues \cup Threads \cup {None}],
         size' \in [Threads -> {"fit", "big", "circular", "short", "large"}]
  PROVE  TypeOK' /\ WaitInv' /\ Quiet
<1> DEFINE D == Range(threads[p])
           S == {}
<1>0. TypeOK /\ WaitInv /\ Tell(D, "died") /\ p \in Queues
  BY NamesDisjoint DEF QueueInv, ReceiversOf
<1>1. TypeOK'
  <2>1. /\ state' \in [Threads -> {"none", "in_progress", "success", "too_large",
                                   "changed", "died"}]
        /\ waiting' \in [Threads -> BOOLEAN]
        /\ wait_result' \in [Threads -> {"none", "awakened", "timed_out", "interrupted"}]
        /\ kmsg' = kmsg /\ ith_seqno' = ith_seqno
    BY <1>0, TellEffect
  <2>2. /\ messages' \in [Queues -> Seq(Message)] /\ threads' \in [Queues -> Seq(Threads)]
        /\ pset' \in [Ports -> Psets \cup {None}] /\ seqno' \in [Ports -> 0 .. MaxSeqno]
        /\ renumbered' \subseteq Ports
    BY ClearFacts
  <2> QED
    BY <1>0, <2>1, <2>2 DEF TypeOK, counts
<1>2. \A u \in Threads : ThreadOK(u)'
  <2>1. /\ \A u \in Threads : u \in D => state'[u] = "died"
        /\ \A u \in Threads : u \notin D => state'[u] = state[u]
        /\ \A u \in Threads : waiting'[u] => waiting[u] /\ u \notin D
        /\ kmsg' = kmsg
    BY <1>0, TellEffect
  <2>2. /\ \A u \in Threads : u \in D => state'[u] \in {"changed", "died"}
        /\ \A u \in Threads : u \in S => state'[u] = "success"
        /\ \A u \in Threads : u \notin D \cup S => state'[u] = state[u]
        /\ \A u \in Threads : waiting'[u] => waiting[u] /\ u \notin D \cup S
        /\ \A r \in Queues : Range(threads'[r]) = Range(threads[r]) \ D
        /\ \A r \in Ports : Range(blocked'[r]) = Range(blocked[r]) \ S
        /\ S = {} /\ \E q \in Queues : D = Range(threads[q])
    BY <1>0, <2>1, ClearFacts DEF counts
  <2>3. /\ t \in Threads => /\ pc[t] \notin {"go", "sendwait", "rcvwait"}
                            /\ pc'[t] \notin {"sendwait", "rcvwait"} /\ obj'[t] \in Ports
                            /\ kmsg'[t] # None <=> pc'[t] = "got"
        /\ \A u \in Threads \ {t} : /\ pc'[u] = pc[u] /\ obj'[u] = obj[u]
                                    /\ size'[u] = size[u] /\ kmsg'[u] = kmsg[u]
    BY <1>0, <2>1, WhereFacts
  <2> HIDE DEF D, S
  <2>4. TellsMany(t, D, S)
    BY <2>2, <2>3 DEF TellsMany
  <2> QED
    BY <1>0, <2>4, ManyTold
<1>3. \A r \in Ports : PortOK(r)'
  BY <1>0, ClearFacts DEF WaitInv, PortOK, counts
<1>4. Quiet
  BY <1>0, ClearFacts, TellEffect DEF Quiet, counts
<1>5. \A q \in Queues : QueueOK(q)'
  BY ClearFacts
<1> QED
  BY <1>1, <1>2, <1>3, <1>4, <1>5 DEF WaitInv

LEMMA MoveReceiveStep ==
  ASSUME QueueInv, NEW p \in Ports, MoveReceive(p)
  PROVE  TypeOK' /\ WaitInv' /\ Quiet
<1>1. /\ p \in active \cap held /\ ClearReceiver(p) /\ held' = held \ {p}
      /\ Tell(ReceiversOf(p), "died") /\ UNCHANGED <<active, sets, qlimit, counts, call, sent>>
  BY DEF MoveReceive
<1>2. None \notin Threads
  BY NamesDisjoint
<1> QED
  BY <1>1, <1>2, ReceiversSentAway DEF call, QueueInv, TypeOK

LEMMA CopyinStep ==
  ASSUME QueueInv, NEW t \in Threads, NEW p \in Ports, CopyinCircular(t, p)
  PROVE  TypeOK' /\ WaitInv' /\ Quiet
<1>1. /\ p \in active \cap held /\ ClearReceiver(p) /\ held' = held \ {p} /\ pc[t] = "run"
      /\ Tell(ReceiversOf(p), "died") /\ UNCHANGED <<active, sets, qlimit, counts, sent>>
      /\ Enter(t, "circular", p, "circular")
  BY DEF CopyinCircular
<1>2. TypeOK /\ p \in Queues /\ "circular" \in Pcs
  BY NamesDisjoint DEF QueueInv, Pcs
<1>3. /\ pc'[t] = "circular" /\ obj'[t] = p
      /\ \A u \in Threads \ {t} : pc'[u] = pc[u] /\ obj'[u] = obj[u] /\ size'[u] = size[u]
      /\ pc' \in [Threads -> Pcs] /\ obj' \in [Threads -> Queues \cup Threads \cup {None}]
      /\ size' \in [Threads -> {"fit", "big", "circular", "short", "large"}]
  BY <1>1, <1>2, EnterEffect
<1> QED
  BY <1>1, <1>3, ReceiversSentAway

LEMMA DestroyStep ==
  ASSUME QueueInv, NEW p \in Ports, Destroy(p),
         NEW t, t \in Threads => /\ pc[t] = "kill" /\ pc'[t] = "run",
         \A u \in Threads \ {t} : pc'[u] = pc[u] /\ obj'[u] = obj[u] /\ size'[u] = size[u],
         pc' \in [Threads -> Pcs], obj' \in [Threads -> Queues \cup Threads \cup {None}],
         size' \in [Threads -> {"fit", "big", "circular", "short", "large"}]
  PROVE  TypeOK' /\ WaitInv' /\ Quiet
<1> DEFINE D == ReceiversOf(p)
           S == Range(blocked[p])
<1>0. TypeOK /\ WaitInv /\ p \in Queues /\ active' = active \ {p} /\ held' = held \ {p}
  BY NamesDisjoint DEF QueueInv, Destroy
<1>1. /\ messages' \in [Queues -> Seq(Message)] /\ threads' \in [Queues -> Seq(Threads)]
      /\ pset' \in [Ports -> Psets \cup {None}] /\ seqno' \in [Ports -> 0 .. MaxSeqno]
      /\ renumbered' \subseteq Ports /\ renumbered \subseteq renumbered'
      /\ \A r \in Ports \ renumbered' : seqno[r] <= seqno'[r]
      /\ \A r \in Ports : Queued(r)' = Queued(r)
      /\ \A r \in Queues : Range(threads'[r]) = Range(threads[r]) \ D
      /\ \A q \in Queues : QueueOK(q)'
      /\ \A r \in Ports : r \notin held' => pset'[r] = None
  <2>1. CASE p \in held
    <3>1. ClearReceiver(p) /\ held' = held \ {p} /\ sets' = sets
      BY <2>1 DEF Destroy
    <3>2. D = Range(threads[p])
      BY <2>1 DEF ReceiversOf
    <3> HIDE DEF D
    <3> QED
      BY <3>1, <3>2, ClearFacts
  <2>2. CASE p \notin held
    <3>1. /\ messages' = messages /\ threads' = threads /\ pset' = pset /\ seqno' = seqno
          /\ renumbered' = renumbered /\ sets' = sets /\ held' = held /\ D = {}
      BY <2>2 DEF Destroy, ReceiversOf
    <3>2. \A q \in Queues : QueueOK(q)'
      BY <1>0, <3>1 DEF WaitInv, QueueOK, Gone, Home
    <3>3. \A r \in Ports : Queued(r)' = Queued(r)
      BY <3>1 DEF Queued, Home
    <3>4. \A r \in Ports : r \notin held' => pset'[r] = None
      BY <3>1, QueueFacts
    <3>5. \A r \in Ports \ renumbered' : seqno[r] <= seqno'[r]
      BY <1>0, <3>1 DEF TypeOK
    <3> HIDE DEF D
    <3> QED
      BY <1>0, <3>1, <3>2, <3>3, <3>4, <3>5 DEF TypeOK
  <2> QED
    BY <2>1, <2>2
<1>2. /\ blocked' = [blocked EXCEPT ![p] = <<>>]
  <2>1. blocked[p] \in Seq(Threads)
    BY QueueFacts
  <2>2. Without(blocked[p], Roused(p)) = <<>>
    BY <2>1, WithoutAll DEF Roused
  <2> QED
    BY <1>0, <2>2 DEF Destroy, TypeOK
<1>3. /\ \A r \in Ports : blocked'[r] = IF r = p THEN <<>> ELSE blocked[r]
      /\ \A r \in Ports : Range(blocked'[r]) = Range(blocked[r]) \ S
      /\ blocked' \in [Ports -> Seq(Threads)]
  <2>1. \A r \in Ports : blocked'[r] = IF r = p THEN <<>> ELSE blocked[r]
    BY <1>0, <1>2 DEF TypeOK
  <2>2. blocked' \in [Ports -> Seq(Threads)]
    BY <1>0, <1>2 DEF TypeOK
  <2> QED
    BY <2>1, <2>2, BlockedApart, EmptyRange
<1>4. \A u \in Threads : u \in D => u \notin S
  BY <1>0, WhereFacts DEF ReceiversOf, InQueue, IsBlocked
<1>5. /\ \A u \in Threads : u \in D => state'[u] = "died"
      /\ \A u \in Threads : u \in S => state'[u] = "success"
      /\ \A u \in Threads : u \notin D \cup S => state'[u] = state[u]
      /\ state' \in [Threads -> {"none", "in_progress", "success", "too_large",
                                 "changed", "died"}]
  <2>1. state' = [u \in Threads |-> CASE u \in D -> "died"
                                      [] u \in S -> "success" [] OTHER -> state[u]]
    BY DEF Destroy, Roused
  <2>2. \A u \in Threads : state[u] \in {"none", "in_progress", "success", "too_large",
                                         "changed", "died"}
    BY <1>0 DEF TypeOK
  <2> HIDE DEF D, S
  <2>3. ASSUME NEW u \in Threads
        PROVE  state'[u] = IF u \in D THEN "died" ELSE IF u \in S THEN "success" ELSE state[u]
    <3>1. state'[u] = CASE u \in D -> "died" [] u \in S -> "success" [] OTHER -> state[u]
      BY <2>1
    <3> QED
      BY <1>4, <3>1
  <2> QED
    BY <1>4, <2>1, <2>2, <2>3
<1>6. /\ waiting' \in [Threads -> BOOLEAN]
      /\ wait_result' \in [Threads -> {"none", "awakened", "timed_out", "interrupted"}]
      /\ \A u \in Threads : waiting'[u] => waiting[u] /\ u \notin D \cup S
      /\ UNCHANGED <<sets, qlimit, msgcount, kmsg, ith_seqno, sent>>
  BY <1>0, GoEffect DEF Destroy, Roused
<1>7. TypeOK'
  BY <1>0, <1>1, <1>3, <1>5, <1>6 DEF TypeOK
<1>8. \A u \in Threads : ThreadOK(u)'
  <2>1. D = {} \/ \E q \in Queues : D = Range(threads[q])
    BY <1>0 DEF ReceiversOf
  <2>2. /\ t \in Threads => /\ pc[t] \notin {"go", "sendwait", "rcvwait"}
                            /\ pc'[t] \notin {"sendwait", "rcvwait", "circular", "kill"}
                            /\ kmsg'[t] # None <=> pc'[t] = "got"
        /\ \A u \in Threads \ {t} : /\ pc'[u] = pc[u] /\ obj'[u] = obj[u]
                                    /\ size'[u] = size[u] /\ kmsg'[u] = kmsg[u]
    BY <1>0, <1>6, WhereFacts
  <2>3. S = {} \/ \E r \in Ports : S \subseteq Range(blocked[r])
    OBVIOUS
  <2> HIDE DEF D, S
  <2>4. TellsMany(t, D, S)
    BY <1>1, <1>3, <1>5, <1>6, <2>1, <2>2, <2>3 DEF TellsMany
  <2> QED
    BY <1>0, <2>4, ManyTold
<1>9. \A r \in Ports : PortOK(r)'
  <2>1. \A r \in Ports : IsInjective(blocked'[r]) /\ (r \notin active' => blocked'[r] = <<>>)
    BY <1>0, <1>3, QueueFacts, EmptyRange
  <2> QED
    BY <1>1, <2>1 DEF PortOK
<1>10. Quiet
  BY <1>0, <1>1, <1>6 DEF Quiet
<1> QED
  BY <1>1, <1>7, <1>8, <1>9, <1>10 DEF WaitInv

LEMMA PortDestroyStep ==
  ASSUME QueueInv, NEW p \in Ports, ipc_port_destroy(p)
  PROVE  TypeOK' /\ WaitInv' /\ Quiet
<1>1. Destroy(p) /\ None \notin Threads /\ UNCHANGED call
  BY NamesDisjoint DEF ipc_port_destroy
<1> QED
  BY <1>1, DestroyStep DEF call, QueueInv, TypeOK

LEMMA DestroyCircularStep ==
  ASSUME QueueInv, NEW t \in Threads, DestroyCircular(t)
  PROVE  TypeOK' /\ WaitInv' /\ Quiet
<1>1. Destroy(obj[t]) /\ Done(t) /\ pc[t] = "kill" /\ TypeOK /\ obj[t] \in Ports
  BY DEF DestroyCircular, QueueInv, WaitInv, ThreadOK
<1> DEFINE p == obj[t]
<1>2. /\ pc'[t] = "run"
      /\ \A u \in Threads \ {t} : pc'[u] = pc[u] /\ obj'[u] = obj[u] /\ size'[u] = size[u]
      /\ pc' \in [Threads -> Pcs] /\ obj' \in [Threads -> Queues \cup Threads \cup {None}]
      /\ size' \in [Threads -> {"fit", "big", "circular", "short", "large"}]
  BY <1>1, DoneEffect
<1>3. p \in Ports /\ Destroy(p)
  BY <1>1
<1> HIDE DEF p
<1> QED
  BY <1>1, <1>2, <1>3, DestroyStep

\* A port's messages count.
LEMMA HoldersFinite ==
  ASSUME NEW p
  PROVE  IsFiniteSet(Holders(p)) /\ Cardinality(Holders(p)) \in Nat
<1>1. Holders(p) \subseteq Threads /\ IsFiniteSet(Threads)
  BY MsgQueueAssumption DEF Holders
<1> QED
  BY <1>1, FS_Subset, FS_CardinalityType

LEMMA HolderCounted ==
  ASSUME QueueInv, NEW t \in Threads, kmsg[t] # None, kmsg[t].port \in active
  PROVE  msgcount[kmsg[t].port] - 1 \in Nat
<1> DEFINE p == kmsg[t].port
           n == Len(OfPort(messages[Home(p)], p))
           h == Cardinality(Holders(p))
<1>1. TypeOK /\ p \in Ports /\ msgcount[p] = n + h
  BY DEF QueueInv, CountsMatch, TypeOK
<1>2. n \in Nat
  <2>1. Home(p) \in Queues
    BY <1>1 DEF TypeOK, Home, Queues
  <2>2. OfPort(messages[Home(p)], p) \in Seq(Message)
    BY <1>1, <2>1, OfPortFacts DEF TypeOK
  <2> QED
    BY <2>2
<1>3. h \in Nat /\ h # 0
  <2>1. t \in Holders(p)
    BY DEF Holders
  <2>2. IsFiniteSet(Holders(p)) /\ h \in Nat
    BY HoldersFinite
  <2> QED
    BY <2>1, <2>2, FS_EmptySet
<1> HIDE DEF n, h, p
<1>4. msgcount[p] - 1 \in Nat
  BY <1>1, <1>2, <1>3
<1> QED
  BY <1>4 DEF p

LEMMA FinishStep ==
  ASSUME QueueInv, NEW t \in Threads, ReceiveFinish(t)
  PROVE  TypeOK' /\ WaitInv' /\ Counted(t)
<1> DEFINE p == kmsg[t].port
           wake == p \in active /\ blocked[p] # <<>> /\ PlaceFreed(p)
           S == IF wake THEN {Head(blocked[p])} ELSE {}
           D == {}
<1>0. /\ TypeOK /\ WaitInv /\ pc[t] = "got" /\ Done(t)
      /\ kmsg' = [kmsg EXCEPT ![t] = None] /\ ith_seqno' = [ith_seqno EXCEPT ![t] = 0]
      /\ msgcount' = IF p \in active THEN [msgcount EXCEPT ![p] = @ - 1] ELSE msgcount
      /\ blocked' = IF wake THEN [blocked EXCEPT ![p] = Tail(@)] ELSE blocked
      /\ state' = [u \in Threads |-> IF u \in S THEN "success" ELSE state[u]]
      /\ Go(S, None)
      /\ messages' = messages /\ threads' = threads /\ seqno' = seqno
      /\ UNCHANGED <<portvars, sent, renumbered>>
  BY DEF ReceiveFinish, QueueInv, queues
<1>1. /\ kmsg[t] # None /\ kmsg[t] \in Message /\ p \in Ports
  <2>1. kmsg[t] # None /\ kmsg[t] \in Message
    BY <1>0 DEF WaitInv, ThreadOK, TypeOK
  <2> QED
    BY <2>1, NamesDisjoint
<1>2. p \in active => msgcount[p] - 1 \in Nat
  BY <1>1, HolderCounted
<1> HIDE DEF p, wake, S
<1>3. /\ \A r \in Ports : blocked'[r] \in Seq(Threads) /\ IsInjective(blocked'[r])
      /\ \A r \in Ports : Range(blocked'[r]) = Range(blocked[r]) \ S
      /\ S = {} \/ \E r \in Ports : S \subseteq Range(blocked[r])
      /\ \A r \in Ports : r \notin active => blocked'[r] = <<>>
      /\ blocked' \in [Ports -> Seq(Threads)]
  <2>0. \A r \in Ports : /\ blocked[r] \in Seq(Threads) /\ IsInjective(blocked[r])
                         /\ r \notin active => blocked[r] = <<>>
    BY QueueFacts
  <2>1. CASE wake
    <3>1. blocked[p] # <<>> /\ p \in active /\ S = {Head(blocked[p])}
      BY <2>1 DEF wake, S
    <3>2. /\ Tail(blocked[p]) \in Seq(Threads)
          /\ Range(blocked[p]) = {Head(blocked[p])} \cup Range(Tail(blocked[p]))
          /\ IsInjective(Tail(blocked[p])) /\ Head(blocked[p]) \notin Range(Tail(blocked[p]))
      BY <1>1, <2>0, <3>1, TailRange
    <3>3. /\ \A r \in Ports : blocked'[r] = IF r = p THEN Tail(blocked[p]) ELSE blocked[r]
          /\ blocked' \in [Ports -> Seq(Threads)]
      BY <1>0, <2>1, <3>2 DEF TypeOK
    <3> QED
      BY <1>1, <2>0, <3>1, <3>2, <3>3, BlockedApart
  <2>2. CASE ~wake
    BY <1>0, <2>0, <2>2 DEF S, TypeOK
  <2> QED
    BY <2>1, <2>2
<1>4. /\ \A u \in Threads : u \in S => state'[u] = "success"
      /\ \A u \in Threads : u \notin S => state'[u] = state[u]
      /\ state' \in [Threads -> {"none", "in_progress", "success", "too_large",
                                 "changed", "died"}]
  BY <1>0 DEF TypeOK
<1>5. /\ waiting' \in [Threads -> BOOLEAN]
      /\ wait_result' \in [Threads -> {"none", "awakened", "timed_out", "interrupted"}]
      /\ \A u \in Threads : waiting'[u] => waiting[u] /\ u \notin S
  BY <1>0, GoEffect
<1>6. /\ kmsg' \in [Threads -> Message \cup {None}] /\ kmsg'[t] = None
      /\ \A u \in Threads \ {t} : kmsg'[u] = kmsg[u]
      /\ ith_seqno' \in [Threads -> 0 .. MaxSeqno]
      /\ msgcount' \in [Ports -> Nat]
      /\ \A r \in active : msgcount'[r] = IF r = p THEN msgcount[r] - 1 ELSE msgcount[r]
  <2>1. MaxSeqno \in Nat
    BY MsgQueueAssumption
  <2> QED
    BY <1>0, <1>1, <1>2, <2>1 DEF TypeOK
<1>7. /\ pc'[t] = "run"
      /\ \A u \in Threads \ {t} : pc'[u] = pc[u] /\ obj'[u] = obj[u] /\ size'[u] = size[u]
      /\ pc' \in [Threads -> Pcs] /\ obj' \in [Threads -> Queues \cup Threads \cup {None}]
      /\ size' \in [Threads -> {"fit", "big", "circular", "short", "large"}]
  BY <1>0, DoneEffect
<1>8. TypeOK'
  BY <1>0, <1>3, <1>4, <1>5, <1>6, <1>7 DEF TypeOK, portvars
<1>9. \A u \in Threads : ThreadOK(u)'
  <2>1. /\ pc[t] \notin {"go", "sendwait", "rcvwait"}
        /\ pc'[t] \notin {"sendwait", "rcvwait", "circular", "kill", "got"}
        /\ \A r \in Queues : Range(threads'[r]) = Range(threads[r]) \ D
        /\ \A u \in Threads : u \notin D \cup S => state'[u] = state[u]
        /\ \A u \in Threads : u \in D => state'[u] \in {"changed", "died"}
        /\ \A u \in Threads : waiting'[u] => waiting[u] /\ u \notin D \cup S
        /\ D = {}
    BY <1>0, <1>4, <1>5, <1>7
  <2> HIDE DEF D
  <2>2. TellsMany(t, D, S)
    BY <1>3, <1>4, <1>6, <1>7, <2>1 DEF TellsMany
  <2> QED
    BY <1>0, <2>2, ManyTold
<1>10. \A q \in Queues : QueueOK(q)'
  BY <1>0 DEF WaitInv, QueueOK, Gone, Home, portvars
<1>11. \A r \in Ports : PortOK(r)'
  BY <1>0, <1>3 DEF WaitInv, PortOK, portvars
<1>12. Counted(t)
  <2>1. \A r \in Ports : Queued(r)' = Queued(r)
    BY <1>0 DEF Queued, Home, portvars
  <2> QED
    BY <1>0, <1>1, <1>6, <2>1 DEF Counted, portvars, p
<1> QED
  BY <1>8, <1>9, <1>10, <1>11, <1>12 DEF WaitInv

\* A port leaves a set for none.
LEMMA PsetOutStep ==
  ASSUME QueueInv, NEW p \in Ports, messages' = MovedHome(p),
         pset' = [pset EXCEPT ![p] = None],
         UNCHANGED <<threads, seqno, ith, active, sets, held, qlimit, counts, call, sent,
                     renumbered>>
  PROVE  TypeOK' /\ WaitInv' /\ Quiet
<1>0. TypeOK /\ WaitInv
  BY DEF QueueInv
<1>1. /\ messages' \in [Queues -> Seq(Message)] /\ pset' \in [Ports -> Psets \cup {None}]
      /\ Placed(messages', threads', pset') /\ \A r \in Ports : Queued(r)' = Queued(r)
      /\ \A r \in Ports : pset'[r] = pset[r] \/ pset'[r] = None
  BY <1>0, LeavesSet DEF Placed, TypeOK
<1>2. TypeOK'
  BY <1>0, <1>1 DEF TypeOK, call, ith, counts
<1>3. \A q \in Queues : QueueOK(q)'
  <2>1. \A q \in Queues : IsInjective(threads'[q]) /\ (Gone(q)' => threads'[q] = <<>>)
    BY <1>1, QueueFacts DEF Gone, Queues
  <2> QED
    BY <1>1, <2>1, QueuePart
<1>4. \A r \in Ports : PortOK(r)'
  BY <1>0, <1>1 DEF WaitInv, PortOK, counts
<1>5. Quiet
  BY <1>0, <1>1 DEF Quiet, ith, TypeOK, counts
<1>6. \A t \in Threads : ThreadOK(t)'
  BY ThreadsAlone DEF counts
<1> QED
  BY <1>2, <1>3, <1>4, <1>5, <1>6 DEF WaitInv

-----------------------------------------------------------------------------
(* Receiving.                                                              *)

\* The queues of receivers, with t on none of them.
Left(thr, t) ==
  /\ thr \in [Queues -> Seq(Threads)]
  /\ \A q \in Queues : /\ IsInjective(thr[q]) /\ Range(thr[q]) = Range(threads[q]) \ {t}
                       /\ threads[q] = <<>> => thr[q] = <<>>

\* The messages, with some ports gone from their sets.
Settled(msgs, thr) ==
  /\ Placed(msgs, thr, pset')
  /\ pset' \in [Ports -> Psets \cup {None}]
  /\ \A r \in Ports : pset'[r] = pset[r] \/ pset'[r] = None
  /\ \A r \in Ports : QueuedIn(msgs, pset', r) = Queued(r)

LEMMA LeavesFacts ==
  ASSUME QueueInv, NEW t \in Threads
  PROVE  /\ pc[t] = "rcvwait" => Left(LeavesQueue(t), t)
         /\ pc[t] # "rcvwait" \/ Told(t) => Left(threads, t)
<1>0. TypeOK /\ WaitInv
  BY DEF QueueInv
<1>1. ASSUME pc[t] = "rcvwait" PROVE Left(LeavesQueue(t), t)
  <2> DEFINE q == obj[t]
             w == Without(threads[q], {t})
  <2>1. q \in Queues /\ threads[q] \in Seq(Threads) /\ IsInjective(threads[q])
    BY <1>0, <1>1, QueueFacts DEF WaitInv, ThreadOK
  <2>2. w \in Seq(Threads) /\ Range(w) = Range(threads[q]) \ {t} /\ IsInjective(w)
    BY <2>1, WithoutType, WithoutRange, WithoutDistinct
  <2>3. threads[q] = <<>> => w = <<>>
    <3>1. threads[q] = <<>> => Range(threads[q]) \subseteq {t}
      BY EmptyRange
    <3> QED
      BY <2>1, <3>1, WithoutAll
  <2>4. LeavesQueue(t) = [threads EXCEPT ![q] = w]
    BY <1>0 DEF LeavesQueue, TypeOK
  <2> HIDE DEF q, w
  <2>5. LeavesQueue(t) \in [Queues -> Seq(Threads)]
        /\ \A r \in Queues : LeavesQueue(t)[r] = IF r = q THEN w ELSE threads[r]
    BY <1>0, <2>1, <2>2, <2>4 DEF TypeOK
  <2>6. \A r \in Queues \ {q} : t \notin Range(threads[r])
    BY <1>0, WhereFacts DEF InQueue, q
  <2>7. \A r \in Queues : IsInjective(threads[r])
    BY QueueFacts
  <2> QED
    BY <2>1, <2>2, <2>3, <2>5, <2>6, <2>7 DEF Left
<1>2. ASSUME pc[t] # "rcvwait" \/ Told(t) PROVE Left(threads, t)
  <2>1. \A r \in Queues : t \notin Range(threads[r])
    BY <1>0, <1>2, WhereFacts
  <2> QED
    BY <1>0, <2>1, QueueFacts DEF Left, TypeOK
<1> QED
  BY <1>1, <1>2

LEMMA SettledNow ==
  ASSUME QueueInv, NEW t \in Threads, NEW thr, Left(thr, t)
  PROVE  /\ pset' = pset => Settled(messages, thr)
         /\ \A p \in Ports : pset' = [pset EXCEPT ![p] = None] => Settled(MovedHome(p), thr)
<1>0. TypeOK
  BY DEF QueueInv
<1>1. ASSUME NEW msgs, NEW ps, Placed(msgs, threads, ps) PROVE Placed(msgs, thr, ps)
  BY <1>1 DEF Placed, Left
<1>2. ASSUME pset' = pset PROVE Settled(messages, thr)
  BY <1>0, <1>1, <1>2, PlacedNow DEF Settled, TypeOK
<1>3. ASSUME NEW p \in Ports, pset' = [pset EXCEPT ![p] = None]
      PROVE  Settled(MovedHome(p), thr)
  <2>1. /\ Placed(MovedHome(p), threads, pset')
        /\ \A r \in Ports : QueuedIn(MovedHome(p), pset', r) = Queued(r)
    BY <1>3, MovedFacts
  <2>2. /\ pset' \in [Ports -> Psets \cup {None}]
        /\ \A r \in Ports : pset'[r] = pset[r] \/ pset'[r] = None
    BY <1>0, <1>3 DEF TypeOK
  <2> QED
    BY <1>1, <2>1, <2>2 DEF Settled
<1> QED
  BY <1>2, <1>3

LEMMA QueuedNext ==
  ASSUME NEW r \in Ports
  PROVE  Queued(r)' = QueuedIn(messages', pset', r)
BY DEF Queued, QueuedIn, Home, HomeIn

\* What receivers and senders leave alone.
SameElse == UNCHANGED <<active, sets, held, qlimit, sent, renumbered>>

\* The queues and ports of a step that only moves receivers or senders.
LEMMA SamePlaces ==
  ASSUME QueueInv, SameElse, NEW thr, NEW t \in Threads, Left(thr, t),
         Settled(messages', thr), threads' = thr
  PROVE  \A q \in Queues : QueueOK(q)'
<1>1. \A q \in Queues : IsInjective(threads'[q]) /\ (Gone(q)' => threads'[q] = <<>>)
  BY QueueFacts DEF Gone, Queues, Left, Settled, SameElse
<1>2. Placed(messages', threads', pset')
  BY DEF Settled
<1> QED
  BY <1>1, <1>2, QueuePart

LEMMA ReceiverGoesOn ==
  ASSUME QueueInv, NEW t \in Threads, pc[t] \in {"run", "rcvwait"}, ~waiting[t],
         NEW at \in {"run", "got"}, Enter(t, at, None, "fit"), Settle(t),
         kmsg[t] # None <=> at = "got",
         Left(threads', t), Settled(messages', threads'),
         SameElse, UNCHANGED <<counts, seqno>>
  PROVE  TypeOK' /\ WaitInv' /\ Quiet
<1>0. TypeOK /\ WaitInv
  BY DEF QueueInv
<1>1. /\ pc'[t] = at
      /\ \A u \in Threads \ {t} : pc'[u] = pc[u] /\ obj'[u] = obj[u] /\ size'[u] = size[u]
      /\ pc' \in [Threads -> Pcs] /\ obj' \in [Threads -> Queues \cup Threads \cup {None}]
      /\ size' \in [Threads -> {"fit", "big", "circular", "short", "large"}]
  BY <1>0, EnterEffect DEF Pcs
<1>2. /\ state' \in [Threads -> {"none", "in_progress", "success", "too_large",
                                 "changed", "died"}]
      /\ wait_result' \in [Threads -> {"none", "awakened", "timed_out", "interrupted"}]
      /\ state'[t] = "none" /\ \A u \in Threads \ {t} : state'[u] = state[u]
      /\ kmsg' = kmsg /\ ith_seqno' = ith_seqno /\ waiting' = waiting
  BY <1>0 DEF Settle, TypeOK
<1>3. TypeOK'
  BY <1>0, <1>1, <1>2 DEF TypeOK, Left, Settled, Placed, SameElse, counts
<1>4. \A u \in Threads : ThreadOK(u)'
  <2>1. \A p \in Ports : t \notin Range(blocked[p])
    BY <1>0, WhereFacts
  <2>2. OthersAlone(t)
    BY <1>1, <1>2 DEF OthersAlone
  <2>3. GoesOn(t)
    BY <1>1, <1>2, <2>1, <2>2 DEF GoesOn, Left, counts
  <2> QED
    BY <1>0, <2>3, OneGoesOn
<1>5. \A q \in Queues : QueueOK(q)'
  BY SamePlaces
<1>6. \A r \in Ports : PortOK(r)'
  BY <1>0 DEF WaitInv, PortOK, Settled, SameElse, counts
<1>7. Quiet
  <2>1. \A r \in Ports : Queued(r)' = Queued(r)
    BY QueuedNext DEF Settled
  <2> QED
    BY <1>0, <1>2, <2>1 DEF Quiet, SameElse, counts, TypeOK
<1> QED
  BY <1>3, <1>4, <1>5, <1>6, <1>7 DEF WaitInv

\* A thread takes the first message of a queue.
LEMMA ReceiverTakes ==
  ASSUME QueueInv, NEW t \in Threads, pc[t] \in {"run", "rcvwait"}, ~waiting[t],
         kmsg[t] = None, NEW q \in Queues, NEW msgs, NEW thr,
         Left(thr, t), Settled(msgs, thr), msgs[q] # <<>>,
         NEW m, m = Head(msgs[q]), seqno[m.port] < MaxSeqno,
         seqno' = [seqno EXCEPT ![m.port] = @ + 1],
         kmsg' = [kmsg EXCEPT ![t] = m],
         ith_seqno' = [ith_seqno EXCEPT ![t] = seqno[m.port]],
         messages' = [msgs EXCEPT ![q] = Tail(@)], threads' = thr,
         Enter(t, "got", None, "fit"), state' = [state EXCEPT ![t] = "none"],
         wait_result' = [wait_result EXCEPT ![t] = "none"], UNCHANGED waiting,
         SameElse, UNCHANGED counts
  PROVE  TypeOK' /\ WaitInv' /\ Handed(m.port, Queued(m.port), <<t>>)
<1>0. TypeOK /\ WaitInv /\ MaxSeqno \in Nat
  BY MsgQueueAssumption DEF QueueInv
<1> DEFINE s == msgs[q]
           p == m.port
<1>1. /\ msgs \in [Queues -> Seq(Message)] /\ s \in Seq(Message)
      /\ Tail(s) \in Seq(Message) /\ m \in Message /\ m \in Range(s)
      /\ Range(Tail(s)) \subseteq Range(s)
      /\ \A r \in Queues : \A n \in Range(msgs[r]) : HomeIn(pset', n.port) = r
      /\ \A r \in Queues : msgs[r] = <<>> \/ thr[r] = <<>>
  <2>1. /\ msgs \in [Queues -> Seq(Message)]
        /\ \A r \in Queues : \A n \in Range(msgs[r]) : HomeIn(pset', n.port) = r
        /\ \A r \in Queues : msgs[r] = <<>> \/ thr[r] = <<>>
    BY DEF Settled, Placed
  <2>2. s \in Seq(Message) /\ s # <<>> /\ m = Head(s)
    BY <2>1
  <2> HIDE DEF s
  <2>3. Tail(s) \in Seq(Message) /\ m \in Message /\ Range(s) = {m} \cup Range(Tail(s))
    BY <2>2, TailRange
  <2> QED
    BY <2>1, <2>2, <2>3
<1>2. p \in Ports /\ HomeIn(pset', p) = q /\ m # None
  BY <1>1, NamesDisjoint, NullAssumption
<1>3. /\ messages' \in [Queues -> Seq(Message)]
      /\ \A r \in Queues : messages'[r] = IF r = q THEN Tail(s) ELSE msgs[r]
  BY <1>1
<1> HIDE DEF s
<1>4. Placed(messages', threads', pset')
  BY <1>1, <1>3 DEF Placed, s
<1>5. /\ pc'[t] = "got"
      /\ \A u \in Threads \ {t} : pc'[u] = pc[u] /\ obj'[u] = obj[u] /\ size'[u] = size[u]
      /\ pc' \in [Threads -> Pcs] /\ obj' \in [Threads -> Queues \cup Threads \cup {None}]
      /\ size' \in [Threads -> {"fit", "big", "circular", "short", "large"}]
  BY <1>0, EnterEffect DEF Pcs
<1>6. /\ state' \in [Threads -> {"none", "in_progress", "success", "too_large",
                                 "changed", "died"}]
      /\ wait_result' \in [Threads -> {"none", "awakened", "timed_out", "interrupted"}]
      /\ state'[t] = "none" /\ \A u \in Threads \ {t} : state'[u] = state[u]
  BY <1>0 DEF TypeOK
<1>7. /\ kmsg' \in [Threads -> Message \cup {None}] /\ kmsg'[t] = m
      /\ \A u \in Threads \ {t} : kmsg'[u] = kmsg[u]
      /\ ith_seqno' \in [Threads -> 0 .. MaxSeqno] /\ ith_seqno'[t] = seqno[p]
      /\ \A u \in Threads \ {t} : ith_seqno'[u] = ith_seqno[u]
      /\ seqno' \in [Ports -> 0 .. MaxSeqno] /\ seqno[p] \in Nat
  BY <1>0, <1>1, <1>2 DEF TypeOK
<1>8. TypeOK'
  BY <1>0, <1>3, <1>5, <1>6, <1>7 DEF TypeOK, Left, Settled, SameElse, counts
<1>9. \A u \in Threads : ThreadOK(u)'
  <2>1. \A r \in Ports : t \notin Range(blocked[r])
    BY <1>0, WhereFacts
  <2>2. OthersAlone(t)
    BY <1>5, <1>6, <1>7 DEF OthersAlone
  <2>3. GoesOn(t)
    BY <1>2, <1>5, <1>6, <1>7, <2>1, <2>2 DEF GoesOn, Left, counts
  <2> QED
    BY <1>0, <2>3, OneGoesOn
<1>10. \A r \in Queues : QueueOK(r)'
  <2>1. \A r \in Queues : IsInjective(threads'[r]) /\ (Gone(r)' => threads'[r] = <<>>)
    BY QueueFacts DEF Gone, Queues, Left, Settled, SameElse
  <2> QED
    BY <1>4, <2>1, QueuePart
<1>11. \A r \in Ports : PortOK(r)'
  BY <1>0 DEF WaitInv, PortOK, Settled, SameElse, counts
<1>12. Handed(p, Queued(p), <<t>>)
  <2> DEFINE A == Queued(p)
             to == <<t>>
  <2>1. A = OfPort(s, p)
    BY <1>2 DEF Settled, QueuedIn, s
  <2>2. A \in Seq(Message) /\ A # <<>> /\ Head(A) = m /\ OfPort(Tail(s), p) = Tail(A)
    <3>1. s # <<>> /\ m = Head(s)
      BY DEF s
    <3> QED
      BY <1>1, <2>1, <3>1, OfPortTail, OfPortFacts
  <2>3. to \in Seq(Threads) /\ Len(to) = 1 /\ to[1] = t /\ IsInjective(to) /\ Range(to) = {t}
    BY DEF IsInjective, Range
  <2>4. Queued(p)' = Tail(A)
    <3>1. Queued(p)' = OfPort(messages'[q], p)
      BY <1>2, QueuedNext DEF QueuedIn
    <3> QED
      BY <1>3, <2>2, <3>1
  <2>5. ASSUME NEW r \in Ports \ {p} PROVE Queued(r)' = Queued(r)
    <3>1. /\ Queued(r)' = OfPort(messages'[HomeIn(pset', r)], r)
          /\ Queued(r) = OfPort(msgs[HomeIn(pset', r)], r)
          /\ HomeIn(pset', r) \in Queues
      BY QueuedNext, NamesDisjoint DEF QueuedIn, Settled, HomeIn
    <3>2. OfPort(Tail(s), r) = OfPort(s, r)
      <4>1. s # <<>> /\ m = Head(s) /\ Head(s).port # r
        BY DEF s
      <4> QED
        BY <1>1, <4>1, OfPortTail
    <3> QED
      BY <1>3, <3>1, <3>2 DEF s
  <2> HIDE DEF A, to
  <2>6. Len(to) <= Len(A) /\ Tail(A) = SubSeq(A, Len(to) + 1, Len(A)) /\ A[1] = m
    <3>1. Len(A) \in Nat /\ Len(A) >= 1 /\ Head(A) = A[1]
      BY <2>2
    <3>2. Tail(A) = SubSeq(A, 2, Len(A))
      BY <2>2
    <3> QED
      BY <2>2, <2>3, <3>1, <3>2
  <2>7. \A i \in 1..Len(to) : /\ kmsg[to[i]] = None /\ kmsg'[to[i]] = A[i]
                              /\ ith_seqno'[to[i]] = seqno[p] + i - 1
    BY <1>7, <2>3, <2>6
  <2>8. seqno' = [seqno EXCEPT ![p] = @ + Len(to)]
    BY <2>3
  <2> QED
    BY <1>7, <2>2, <2>3, <2>4, <2>5, <2>6, <2>7, <2>8 DEF Handed, SameElse, counts, A, to
<1> QED
  BY <1>8, <1>9, <1>10, <1>11, <1>12 DEF WaitInv

\* A receiver goes to sleep on a queue without messages that is not gone.
LEMMA ReceiverSleeps ==
  ASSUME QueueInv, NEW t \in Threads, pc[t] = "run", NEW q \in Queues, NEW thr,
         NEW sz \in {"fit", "short", "large"}, Left(thr, t), Settled(messages', thr),
         messages'[q] = <<>>, Block(t, "rcvwait", q, sz), ~Gone(q)',
         threads' = [thr EXCEPT ![q] = Append(@, t)], SameElse, UNCHANGED <<counts, seqno>>
  PROVE  TypeOK' /\ WaitInv' /\ Quiet
<1>0. TypeOK /\ WaitInv
  BY DEF QueueInv
<1>1. /\ pc'[t] = "rcvwait" /\ obj'[t] = q
      /\ \A u \in Threads \ {t} : pc'[u] = pc[u] /\ obj'[u] = obj[u] /\ size'[u] = size[u]
      /\ pc' \in [Threads -> Pcs] /\ obj' \in [Threads -> Queues \cup Threads \cup {None}]
      /\ size' \in [Threads -> {"fit", "big", "circular", "short", "large"}]
  BY <1>0, EnterEffect DEF Pcs, Block
<1>2. /\ state' \in [Threads -> {"none", "in_progress", "success", "too_large",
                                 "changed", "died"}]
      /\ wait_result' \in [Threads -> {"none", "awakened", "timed_out", "interrupted"}]
      /\ state'[t] = "in_progress" /\ \A u \in Threads \ {t} : state'[u] = state[u]
      /\ kmsg' = kmsg /\ ith_seqno' = ith_seqno /\ waiting' \in [Threads -> BOOLEAN]
      /\ \A u \in Threads \ {t} : waiting'[u] => waiting[u]
  BY <1>0 DEF Block, TypeOK
<1>3. /\ kmsg[t] = None /\ \A r \in Ports : t \notin Range(blocked[r])
      /\ \A r \in Queues : t \notin Range(threads[r])
  BY <1>0, WhereFacts
<1>4. /\ \A r \in Queues : threads'[r] = IF r = q THEN Append(thr[q], t) ELSE thr[r]
      /\ threads' \in [Queues -> Seq(Threads)]
      /\ \A r \in Queues : IsInjective(threads'[r])
      /\ \A r \in Queues : Range(threads'[r]) =
           (Range(threads[r]) \ {t}) \cup IF r = q THEN {t} ELSE {}
  <2>1. thr[q] \in Seq(Threads) /\ IsInjective(thr[q]) /\ t \notin Range(thr[q])
    BY DEF Left
  <2>2. /\ Append(thr[q], t) \in Seq(Threads) /\ IsInjective(Append(thr[q], t))
        /\ Range(Append(thr[q], t)) = Range(thr[q]) \cup {t}
    BY <2>1, AppendRange
  <2>3. /\ \A r \in Queues : threads'[r] = IF r = q THEN Append(thr[q], t) ELSE thr[r]
        /\ threads' \in [Queues -> Seq(Threads)]
    BY <2>2 DEF Left
  <2> QED
    BY <2>2, <2>3 DEF Left
<1>5. TypeOK'
  BY <1>0, <1>1, <1>2, <1>4 DEF TypeOK, Settled, Placed, SameElse, counts
<1>6. \A u \in Threads : ThreadOK(u)'
  <2>1. OthersAlone(t)
    BY <1>1, <1>2 DEF OthersAlone
  <2>2. \A r \in Queues : Range(threads'[r]) =
          (Range(threads[r]) \ {t}) \cup IF pc'[t] = "rcvwait" /\ r = q THEN {t} ELSE {}
    BY <1>1, <1>4
  <2>3. \A r \in Ports : Range(blocked'[r]) =
          (Range(blocked[r]) \ {t}) \cup IF pc'[t] = "sendwait" /\ r = q THEN {t} ELSE {}
    BY <1>1, <1>3 DEF counts
  <2>4. Sleeps(t, q)
    BY <1>1, <1>2, <1>3, <2>1, <2>2, <2>3, Zenon DEF Sleeps
  <2> QED
    BY <1>0, <2>4, OneSleeps
<1>7. \A r \in Queues : QueueOK(r)'
  <2>1. \A r \in Queues : Gone(r)' => threads'[r] = <<>>
    BY <1>4, QueueFacts DEF Gone, Queues, Left, Settled, SameElse
  <2>2. Placed(messages', threads', pset')
    BY <1>4 DEF Placed, Settled
  <2> QED
    BY <1>4, <2>1, <2>2, QueuePart
<1>8. \A r \in Ports : PortOK(r)'
  BY <1>0 DEF WaitInv, PortOK, Settled, SameElse, counts
<1>9. Quiet
  <2>1. \A r \in Ports : Queued(r)' = Queued(r)
    BY QueuedNext DEF Settled
  <2> QED
    BY <1>0, <1>2, <2>1 DEF Quiet, SameElse, counts, TypeOK
<1> QED
  BY <1>5, <1>6, <1>7, <1>8, <1>9 DEF WaitInv

LEMMA ReceiveLoopStep ==
  ASSUME QueueInv, NEW t \in Threads, pc[t] \in {"run", "rcvwait"}, ~waiting[t],
         kmsg[t] = None, NEW q \in Queues, NEW sz \in {"fit", "big", "circular", "short", "large"},
         NEW poll \in BOOLEAN, NEW msgs, NEW thr,
         Left(thr, t), Settled(msgs, thr),
         ~poll => pc[t] = "run" /\ ~Gone(q)' /\ sz \in {"fit", "short", "large"},
         ReceiveLoop(t, q, sz, poll, msgs, thr), SameElse, UNCHANGED counts
  PROVE  TypeOK' /\ WaitInv' /\ MessageStep
<1>1. CASE /\ msgs[q] # <<>> /\ Refuses(sz, Head(msgs[q]))
           /\ Done(t)
           /\ messages' = msgs /\ threads' = thr
           /\ Settle(t) /\ UNCHANGED seqno
  <2>1. TypeOK' /\ WaitInv' /\ Quiet
    BY <1>1, ReceiverGoesOn DEF Done
  <2> QED
    BY <2>1 DEF MessageStep
<1>2. CASE /\ msgs[q] # <<>> /\ ~Refuses(sz, Head(msgs[q]))
           /\ LET m == Head(msgs[q])
              IN  /\ seqno[m.port] < MaxSeqno
                  /\ seqno' = [seqno EXCEPT ![m.port] = @ + 1]
                  /\ kmsg' = [kmsg EXCEPT ![t] = m]
                  /\ ith_seqno' = [ith_seqno EXCEPT ![t] = seqno[m.port]]
           /\ messages' = [msgs EXCEPT ![q] = Tail(@)] /\ threads' = thr
           /\ Enter(t, "got", None, "fit")
           /\ state' = [state EXCEPT ![t] = "none"]
           /\ wait_result' = [wait_result EXCEPT ![t] = "none"]
           /\ UNCHANGED waiting
  <2> DEFINE m == Head(msgs[q])
  <2>1. TypeOK' /\ WaitInv' /\ Handed(m.port, Queued(m.port), <<t>>)
    BY <1>2, ReceiverTakes
  <2>2. m.port \in Ports
    <3>1. msgs[q] \in Seq(Message)
      BY DEF Settled, Placed
    <3>2. m \in Message
      BY <1>2, <3>1
    <3> QED
      BY <3>2, NamesDisjoint
  <2> QED
    BY <2>1, <2>2 DEF MessageStep
<1>3. CASE /\ msgs[q] = <<>> /\ poll
           /\ Done(t)
           /\ messages' = msgs /\ threads' = thr
           /\ Settle(t) /\ UNCHANGED seqno
  <2>1. TypeOK' /\ WaitInv' /\ Quiet
    BY <1>3, ReceiverGoesOn DEF Done
  <2> QED
    BY <2>1 DEF MessageStep
<1>4. CASE /\ msgs[q] = <<>> /\ ~poll
           /\ Block(t, "rcvwait", q, sz)
           /\ messages' = msgs /\ threads' = [thr EXCEPT ![q] = Append(@, t)]
           /\ UNCHANGED seqno
  <2>1. TypeOK' /\ WaitInv' /\ Quiet
    BY <1>4, ReceiverSleeps
  <2> QED
    BY <2>1 DEF MessageStep
<1> QED
  BY <1>1, <1>2, <1>3, <1>4 DEF ReceiveLoop

LEMMA ReceiveStep ==
  ASSUME QueueInv, NEW t \in Threads, NEW q \in Queues, NEW sz \in Buffers[t],
         NEW poll \in BOOLEAN, ipc_mqueue_receive(t, q, sz, poll)
  PROVE  TypeOK' /\ WaitInv' /\ MessageStep
<1> USE DEF ipc_mqueue_receive
<1>0. TypeOK /\ WaitInv /\ sz \in {"fit", "short", "large"} /\ pc[t] = "run"
  BY MsgQueueAssumption DEF QueueInv
<1>1. ~waiting[t] /\ kmsg[t] = None /\ Left(threads, t)
  BY <1>0, WhereFacts, LeavesFacts
<1>2. SameElse /\ UNCHANGED counts
  BY DEF SameElse
<1>3. CASE q \in Psets
  <2>1. /\ ReceiveLoop(t, q, sz, poll, messages, threads) /\ pset' = pset
        /\ q \in sets
    BY <1>3 DEF Copyin
  <2>2. ~Gone(q)' /\ Settled(messages, threads)
    BY <1>1, <1>2, <1>3, <2>1, SettledNow DEF Gone, SameElse
  <2> QED
    BY <1>0, <1>1, <1>2, <2>1, <2>2, ReceiveLoopStep
<1>4. CASE q \notin Psets
  <2>1. /\ ReceiveLoop(t, q, sz, poll, MovedHome(q), threads)
        /\ pset' = [pset EXCEPT ![q] = None] /\ q \in held /\ q \in Ports
    BY <1>4 DEF Copyin, Queues
  <2>2. ~Gone(q)' /\ Settled(MovedHome(q), threads)
    <3>1. Settled(MovedHome(q), threads)
      BY <1>1, <2>1, SettledNow
    <3>2. pset'[q] = None
      BY <1>0, <2>1 DEF TypeOK
    <3> QED
      BY <1>2, <1>4, <2>1, <3>1, <3>2 DEF Gone, SameElse
  <2> QED
    BY <1>0, <1>1, <1>2, <2>1, <2>2, ReceiveLoopStep
<1> QED
  BY <1>3, <1>4

LEMMA ReceiveWokenStep ==
  ASSUME QueueInv, NEW t \in Threads, ReceiveWoken(t)
  PROVE  TypeOK' /\ WaitInv' /\ MessageStep
<1>0. /\ TypeOK /\ WaitInv /\ ThreadOK(t) /\ pc[t] = "rcvwait" /\ ~waiting[t]
      /\ obj[t] \in Queues
      /\ UNCHANGED <<portvars, counts, sent, renumbered>>
  BY DEF QueueInv, WaitInv, ThreadOK, ReceiveWoken
<1>1. /\ SameElse /\ UNCHANGED counts /\ pset' = pset
      /\ Left(LeavesQueue(t), t) /\ (Told(t) => Left(threads, t))
      /\ kmsg[t] # None <=> Given(t)
  BY <1>0, LeavesFacts DEF SameElse, portvars, ThreadOK
<1>2. /\ Settled(messages, LeavesQueue(t)) /\ (Told(t) => Settled(messages, threads))
  BY <1>1, SettledNow
<1>3. CASE /\ Told(t)
           /\ \/ state[t] = "success"
              \/ state[t] = "too_large" /\ size[t] # "large"
           /\ Enter(t, "got", None, "fit")
           /\ Settle(t) /\ UNCHANGED queues
  <2>1. kmsg[t] # None /\ messages' = messages /\ threads' = threads /\ seqno' = seqno
    BY <1>1, <1>3 DEF Given, queues
  <2>2. TypeOK' /\ WaitInv' /\ Quiet
    BY <1>0, <1>1, <1>2, <1>3, <2>1, ReceiverGoesOn
  <2> QED
    BY <2>2 DEF MessageStep
<1>4. CASE /\ Told(t)
           /\ \/ state[t] = "too_large" /\ size[t] = "large"
              \/ state[t] \in {"changed", "died"}
           /\ Done(t)
           /\ Settle(t) /\ UNCHANGED queues
  <2>1. kmsg[t] = None /\ messages' = messages /\ threads' = threads /\ seqno' = seqno
    BY <1>1, <1>4 DEF Given, queues
  <2>2. TypeOK' /\ WaitInv' /\ Quiet
    BY <1>0, <1>1, <1>2, <1>4, <2>1, ReceiverGoesOn DEF Done
  <2> QED
    BY <2>2 DEF MessageStep
<1>5. CASE /\ ~Told(t) /\ wait_result[t] = "interrupted"
           /\ Done(t)
           /\ threads' = LeavesQueue(t)
           /\ Settle(t) /\ UNCHANGED <<messages, seqno>>
  <2>1. kmsg[t] = None
    BY <1>1, <1>5 DEF Given, Told
  <2>2. TypeOK' /\ WaitInv' /\ Quiet
    BY <1>0, <1>1, <1>2, <1>5, <2>1, ReceiverGoesOn DEF Done
  <2> QED
    BY <2>2 DEF MessageStep
<1>6. CASE /\ ~Told(t) /\ wait_result[t] = "timed_out"
           /\ ReceiveLoop(t, obj[t], size[t], TRUE, messages, LeavesQueue(t))
  <2>1. kmsg[t] = None
    BY <1>1, <1>6 DEF Given, Told
  <2>2. size[t] \in {"fit", "big", "circular", "short", "large"}
    BY <1>0 DEF TypeOK
  <2> QED
    BY <1>0, <1>1, <1>2, <1>6, <2>1, <2>2, ReceiveLoopStep
<1> QED
  BY <1>3, <1>4, <1>5, <1>6 DEF ReceiveWoken

LEMMA InterruptStep ==
  ASSUME QueueInv, NEW t \in Threads, mach_msg_interrupt(t)
  PROVE  TypeOK' /\ WaitInv' /\ Quiet
<1>0. /\ TypeOK /\ WaitInv /\ ThreadOK(t) /\ pc[t] = "rcvwait" /\ ~waiting[t] /\ ~Told(t)
      /\ threads' = LeavesQueue(t) /\ Done(t) /\ Settle(t)
      /\ UNCHANGED <<messages, seqno, portvars, counts, sent, renumbered>>
  BY DEF QueueInv, WaitInv, mach_msg_interrupt
<1>1. /\ SameElse /\ UNCHANGED counts /\ pset' = pset
      /\ Left(LeavesQueue(t), t)
      /\ kmsg[t] = None
  BY <1>0, LeavesFacts DEF SameElse, portvars, ThreadOK, Told, Given
<1>2. /\ Settled(messages, LeavesQueue(t))
  BY <1>1, SettledNow
<1> QED
  BY <1>0, <1>1, <1>2, ReceiverGoesOn DEF Done

-----------------------------------------------------------------------------
(* Hand-overs, and sending.                                                *)

\* The threads that get the first messages, in order.
To(R, g) == [i \in 1..Len(g) |-> R[g[i]]]

\* The first messages of M, of port p, go to the threads of to.
Gives(p, M, to) ==
  /\ to \in Seq(Threads) /\ IsInjective(to)
  /\ \A i \in 1..Len(to) : /\ kmsg[to[i]] = None /\ kmsg'[to[i]] = M[i]
                           /\ ith_seqno'[to[i]] = seqno[p] + i - 1
  /\ \A t \in Threads \ Range(to) : kmsg'[t] = kmsg[t] /\ ith_seqno'[t] = ith_seqno[t]
  /\ seqno' = [seqno EXCEPT ![p] = @ + Len(to)] /\ seqno' \in [Ports -> 0 .. MaxSeqno]
  /\ state' \in [Threads -> {"none", "in_progress", "success", "too_large", "changed", "died"}]
  /\ kmsg' \in [Threads -> Message \cup {None}]
  /\ ith_seqno' \in [Threads -> 0 .. MaxSeqno]
  /\ waiting' \in [Threads -> BOOLEAN]
  /\ wait_result' \in [Threads -> {"none", "awakened", "timed_out", "interrupted"}]

LEMMA HandOverGives ==
  ASSUME QueueInv, NEW me, NEW p \in Ports, NEW q \in Queues, NEW M, NEW g, NEW C, NEW late,
         HandsOver(me, p, q, M, g, C, late)
  PROVE  /\ Gives(p, M, To(threads[q], g)) /\ Len(To(threads[q], g)) = Len(g)
         /\ Range(To(threads[q], g)) = Takers(threads[q], g)
<1> DEFINE R == threads[q]
           got == Takers(R, g)
           out == Out(R, M, g)
           to == To(R, g)
<1>0. /\ M \in Seq(Message) /\ g \in Matches(threads[q], M)
      /\ C = {} \/ (C = Range(threads[p]) /\ p # q)
      /\ HandOver(me, p, q, M, g, C, late) /\ seqno[p] + Len(g) <= MaxSeqno
      /\ me \in Threads => pc[me] # "rcvwait"
  BY DEF HandsOver, SenderMay
<1>1. /\ TypeOK /\ WaitInv /\ R \in Seq(Threads) /\ IsInjective(R) /\ Ports \subseteq Queues
      /\ MaxSeqno \in Nat /\ seqno[p] \in Nat
  <2>1. TypeOK /\ WaitInv /\ MaxSeqno \in Nat
    BY MsgQueueAssumption DEF QueueInv
  <2>2. R \in Seq(Threads) /\ IsInjective(R) /\ Ports \subseteq Queues
    BY QueueFacts, NamesDisjoint
  <2>3. seqno[p] \in Nat
    BY <2>1 DEF TypeOK
  <2> QED
    BY <2>1, <2>2, <2>3
<1>2. /\ got \subseteq out /\ out \subseteq Range(R) /\ Range(R) \subseteq Threads
      /\ \A i \in 1..Len(g) : R[g[i]] \in got /\ Taker(R, g, R[g[i]]) = i
      /\ \A t \in got : /\ Taker(R, g, t) \in 1..Len(g) /\ R[g[Taker(R, g, t)]] = t
                        /\ M[Taker(R, g, t)] \in Message
  BY <1>0, <1>1, TakerFacts
<1>3. C \cap got = {} /\ me \notin C \cup out \cup got /\ C \subseteq Threads
  <2>1. \A t \in Threads : t \in Range(R) => InQueue(t, q)
    BY <1>1, WhereFacts
  <2>2. C \subseteq Threads /\ \A t \in Threads : t \in C => InQueue(t, p)
    BY <1>0, <1>1, WhereFacts, QueueFacts
  <2> QED
    BY <1>0, <1>2, <2>1, <2>2 DEF InQueue
<1>4. Len(g) \in Nat /\ DOMAIN g = 1..Len(g)
  BY <1>0, <1>1, MatchFacts
<1> HIDE DEF R, got, out, to
<1>5. /\ to \in Seq(Threads) /\ Len(to) = Len(g)
      /\ \A i \in 1..Len(g) : to[i] = R[g[i]] /\ to[i] \in got
      /\ IsInjective(to) /\ Range(to) = got
  <2>1. to \in [1..Len(g) -> Threads] /\ \A i \in 1..Len(g) : to[i] = R[g[i]]
    BY <1>2 DEF To, to
  <2>2. to \in Seq(Threads) /\ Len(to) = Len(g) /\ DOMAIN to = 1..Len(g)
    BY <1>4, <2>1
  <2>3. IsInjective(to)
    <3>1. \A i, j \in 1..Len(g) : R[g[i]] = R[g[j]] => i = j
      BY <1>2
    <3> QED
      BY <2>1, <2>2, <3>1 DEF IsInjective
  <2>4. Range(to) = got
    BY <1>2, <2>1, <2>2 DEF Range
  <2> QED
    BY <1>2, <2>1, <2>2, <2>3, <2>4
<1>6. ASSUME NEW t \in Threads
      PROVE  /\ t \in got => /\ kmsg'[t] = M[Taker(R, g, t)]
                             /\ ith_seqno'[t] = NextSeqno(p, Taker(R, g, t))
             /\ t \notin got => kmsg'[t] = kmsg[t] /\ ith_seqno'[t] = ith_seqno[t]
             /\ state'[t] \in {"none", "in_progress", "success", "too_large", "changed", "died"}
  <2>1. C \cap Takers(threads[q], g) = {}
        /\ me \notin C \cup Out(threads[q], M, g) \cup Takers(threads[q], g)
    BY <1>3 DEF R, got, out
  <2>2. /\ t \in got => /\ kmsg'[t] = M[Taker(R, g, t)]
                        /\ state'[t] = IF M[Taker(R, g, t)].big /\ size[t] = "short"
                                       THEN "too_large" ELSE "success"
                        /\ ith_seqno'[t] = NextSeqno(p, Taker(R, g, t))
        /\ t \notin got => kmsg'[t] = kmsg[t] /\ ith_seqno'[t] = ith_seqno[t]
    BY <1>0, <2>1, HandOverEffect, SMT DEF R, got
  <2>3. /\ t \in C \ got => state'[t] = "changed"
        /\ t \in out \ (got \cup C) => state'[t] = "too_large"
        /\ t \notin out \cup got \cup C => state'[t] = IF t = me THEN "none" ELSE state[t]
    BY <1>0, <2>1, HandOverEffect, SMT DEF R, got, out
  <2>4. state[t] \in {"none", "in_progress", "success", "too_large", "changed", "died"}
    BY <1>1 DEF TypeOK
  <2>5. t \in got => state'[t] \in {"too_large", "success"}
    BY <2>2
  <2> QED
    BY <2>2, <2>3, <2>4, <2>5
<1>7. /\ \E f : state' = [t \in Threads |-> f[t]]
      /\ \E f : kmsg' = [t \in Threads |-> f[t]]
      /\ \E f : ith_seqno' = [t \in Threads |-> f[t]]
      /\ seqno' = [seqno EXCEPT ![p] = @ + Len(g)] /\ Go((out \cup C) \ late, me)
  <2>1. /\ \E f : state' = [t \in Threads |-> f[t]]
    <3>1. state' = [t \in Threads |-> state'[t]]
      BY <1>0 DEF HandOver
    <3> QED
      BY <3>1
  <2>2. /\ \E f : kmsg' = [t \in Threads |-> f[t]]
    <3>1. kmsg' = [t \in Threads |-> kmsg'[t]]
      BY <1>0 DEF HandOver
    <3> QED
      BY <3>1
  <2>3. /\ \E f : ith_seqno' = [t \in Threads |-> f[t]]
    <3>1. ith_seqno' = [t \in Threads |-> ith_seqno'[t]]
      BY <1>0 DEF HandOver
    <3> QED
      BY <3>1
  <2>4. seqno' = [seqno EXCEPT ![p] = @ + Len(g)] /\ Go((out \cup C) \ late, me)
    BY <1>0 DEF HandOver, Out, R, out
  <2> QED
    BY <2>1, <2>2, <2>3, <2>4
<1>8. ASSUME NEW t \in Threads
      PROVE  kmsg'[t] \in Message \cup {None} /\ ith_seqno'[t] \in 0..MaxSeqno
  <2>1. CASE t \in got
    <3>1. Taker(R, g, t) \in 1..Len(g) /\ M[Taker(R, g, t)] \in Message
      BY <1>2, <2>1
    <3>2. seqno[p] + Taker(R, g, t) - 1 \in 0..MaxSeqno
      BY <1>0, <1>1, <1>4, <3>1
    <3> QED
      BY <1>6, <2>1, <3>1, <3>2 DEF NextSeqno
  <2>2. CASE t \notin got
    BY <1>1, <1>6, <2>2 DEF TypeOK
  <2> QED
    BY <2>1, <2>2
<1>9. /\ state' \in [Threads -> {"none", "in_progress", "success", "too_large",
                                 "changed", "died"}]
      /\ kmsg' \in [Threads -> Message \cup {None}]
      /\ ith_seqno' \in [Threads -> 0 .. MaxSeqno]
  BY <1>6, <1>7, <1>8
<1>10. ASSUME NEW i \in 1..Len(g)
       PROVE  kmsg[to[i]] = None /\ kmsg'[to[i]] = M[i] /\ ith_seqno'[to[i]] = seqno[p] + i - 1
  <2>1. to[i] \in got /\ Taker(R, g, to[i]) = i /\ to[i] \in Threads /\ to[i] \in Range(R)
    BY <1>2, <1>5
  <2>2. kmsg[to[i]] = None
    <3>1. InQueue(to[i], q) /\ ThreadOK(to[i])
      BY <1>1, <2>1, WhereFacts DEF WaitInv, R
    <3> QED
      BY <3>1 DEF ThreadOK, InQueue, Given
  <2> QED
    BY <1>6, <2>1, <2>2 DEF NextSeqno
<1>11. seqno' \in [Ports -> 0 .. MaxSeqno]
  BY <1>0, <1>1, <1>4, <1>7 DEF TypeOK
<1>12. /\ waiting' \in [Threads -> BOOLEAN]
       /\ wait_result' \in [Threads -> {"none", "awakened", "timed_out", "interrupted"}]
  BY <1>1, <1>7, GoEffect
<1>13. \A t \in Threads \ Range(to) : kmsg'[t] = kmsg[t] /\ ith_seqno'[t] = ith_seqno[t]
  BY <1>5, <1>6
<1>14. Gives(p, M, to)
  BY <1>5, <1>7, <1>9, <1>10, <1>11, <1>12, <1>13 DEF Gives
<1> QED
  BY <1>5, <1>14 DEF to, R, got

LEMMA HomeFacts ==
  ASSUME TypeOK, NEW p \in Ports
  PROVE  Home(p) \in Queues /\ Home(p) = HomeIn(pset, p)
BY NamesDisjoint DEF TypeOK, Home, HomeIn

LEMMA DeliverStep ==
  ASSUME QueueInv, NEW me, SenderMay(me), NEW p \in active,
         NEW m \in Message, m.port = p, m.num = sent[p] + 1,
         NEW g \in Matches(threads[Home(p)], <<m>>),
         NEW late, late \subseteq Takers(threads[Home(p)], g),
         Deliver(me, p, m, g, late), NotBlocked(blocked', me),
         \A u \in late : Expected(u)', UNCHANGED <<portvars, renumbered>>
  PROVE  /\ TypeOK' /\ WaitInv'
         /\ Handed(p, Append(Queued(p), m), To(threads[Home(p)], g))
<1> DEFINE q == Home(p)
           R == threads[q]
           M == <<m>>
           C == {}
           to == To(R, g)
           rest == Rest(R, M, g)
           added == SubSeq(M, Len(g) + 1, 1)
<1>0. TypeOK /\ WaitInv /\ MaxSends \in Nat /\ p \in Ports
  BY MsgQueueAssumption DEF QueueInv, TypeOK
<1>1. /\ q \in Queues /\ R \in Seq(Threads) /\ IsInjective(R) /\ messages[q] \in Seq(Message)
      /\ q = HomeIn(pset, p)
      /\ M \in Seq(Message) /\ Len(M) = 1 /\ M[1] = m
  BY <1>0, HomeFacts, QueueFacts
<1>2. /\ sent[p] < MaxSends /\ seqno[p] + Len(g) <= MaxSeqno
      /\ sent' = [sent EXCEPT ![p] = @ + 1]
      /\ msgcount' = [msgcount EXCEPT ![p] = @ + 1]
      /\ HandOver(me, p, q, M, g, C, late)
      /\ threads' = [threads EXCEPT ![q] = rest]
      /\ messages' = [messages EXCEPT ![q] = @ \o added]
      /\ g \in Matches(R, M) /\ late \subseteq Takers(R, g)
  BY DEF Deliver, Rest
<1> HIDE DEF q, M, C
<1>3. /\ Len(g) \in Nat /\ Len(g) <= 1
      /\ rest \in Seq(Threads) /\ IsInjective(rest)
      /\ Range(rest) = Range(R) \ Out(R, M, g) /\ Out(R, M, g) \subseteq Range(R)
      /\ Len(g) = 0 => rest = <<>>
      /\ R = <<>> => rest = <<>> /\ Len(g) = 0
  <2> HIDE DEF R
  <2>1. Len(g) \in Nat /\ Len(g) <= 1 /\ Len(g) <= Len(R)
    <3>1. Len(g) \in Nat /\ Len(g) <= Len(M) /\ Len(g) <= Len(R)
      BY <1>1, <1>2, MatchFacts
    <3> QED
      BY <1>1, <3>1
  <2>2. Out(R, M, g) \subseteq Range(R)
    BY <1>1, <1>2, TakerFacts
  <2>4. /\ rest \in Seq(Threads) /\ IsInjective(rest)
        /\ Range(rest) = Range(R) \ Out(R, M, g)
        /\ Len(g) < Len(M) => rest = <<>>
        /\ R = <<>> => rest = <<>>
    BY <1>1, <1>2, RestFacts
  <2> HIDE DEF rest
  <2>5. R = <<>> => Len(R) = 0
    OBVIOUS
  <2> QED
    BY <1>1, <2>1, <2>2, <2>4, <2>5
<1> HIDE DEF rest, R
<1>4. /\ Len(g) = 0 => added = <<m>>
      /\ Len(g) = 1 => added = <<>>
      /\ added \in Seq(Message) /\ Range(added) \subseteq {m}
      /\ Len(g) = 0 \/ Len(g) = 1
  <2>1. Len(g) = 0 => added = <<m>>
    <3>1. SubSeq(M, 1, Len(M)) = M
      BY <1>1
    <3> QED
      BY <1>1, <3>1 DEF M
  <2>2. Len(g) = 1 => added = <<>>
    BY <1>1
  <2>3. Len(g) = 0 \/ Len(g) = 1
    <3> DEFINE k == Len(g)
    <3>1. k \in Nat /\ k <= 1
      BY <1>3
    <3> HIDE DEF k
    <3>2. k = 0 \/ k = 1
      BY <3>1
    <3> QED
      BY <3>2 DEF k
  <2>4. <<m>> \in Seq(Message) /\ Range(<<m>>) = {m}
    BY DEF Range
  <2> HIDE DEF added
  <2>5. added = <<m>> => added \in Seq(Message) /\ Range(added) \subseteq {m}
    BY <2>4, Zenon
  <2>6. added = <<>> => added \in Seq(Message) /\ Range(added) \subseteq {m}
    BY EmptyRange
  <2> QED
    BY <2>1, <2>2, <2>3, <2>5, <2>6, Zenon
<1> HIDE DEF added
<1>5. /\ \A r \in Queues : threads'[r] = IF r = q THEN rest ELSE threads[r]
      /\ threads' \in [Queues -> Seq(Threads)]
      /\ \A r \in Queues : messages'[r] = IF r = q THEN messages[q] \o added ELSE messages[r]
      /\ messages' \in [Queues -> Seq(Message)]
  <2>1. messages[q] \o added \in Seq(Message)
    BY <1>1, <1>4
  <2> QED
    BY <1>0, <1>1, <1>2, <1>3, <2>1 DEF TypeOK
<1>6. \A r \in Queues : Range(threads'[r]) = Range(threads[r]) \ (Out(R, M, g) \cup C)
  BY <1>1, <1>3, <1>5, QueuesApart DEF C, R
<1>7. /\ HandsOver(me, p, q, M, g, C, late) /\ \A u \in Threads : ThreadOK(u)'
  <2>1. /\ g \in Matches(threads[q], M) /\ late \subseteq Takers(threads[q], g)
        /\ \A r \in Queues :
             Range(threads'[r]) = Range(threads[r]) \ (Out(threads[q], M, g) \cup C)
        /\ C = {}
    BY <1>2, <1>6 DEF R, C
  <2>2. HandsOver(me, p, q, M, g, C, late)
    BY <1>1, <1>2, <2>1 DEF HandsOver
  <2> QED
    BY <1>0, <1>1, <2>2, HandOverThreads
<1>8. Gives(p, M, to) /\ Len(to) = Len(g)
  BY <1>0, <1>1, <1>7, HandOverGives DEF R
<1> HIDE DEF to
<1>9. TypeOK'
  <2>1. /\ msgcount' \in [Ports -> Nat] /\ sent' \in [Ports -> 0 .. MaxSends]
    BY <1>0, <1>2 DEF TypeOK
  <2>2. blocked' \in [Ports -> Seq(Threads)]
    BY DEF NotBlocked
  <2> QED
    BY <1>0, <1>5, <1>8, <2>1, <2>2 DEF TypeOK, SenderMay, portvars, Gives
<1>10. \A r \in Queues : QueueOK(r)'
  <2>1. Placed(messages, threads, pset)
    BY PlacedNow
  <2>2. messages[q] # <<>> => rest = <<>>
    BY <1>1, <1>3, <2>1 DEF Placed, R
  <2>3. \A r \in Queues : messages'[r] = <<>> \/ threads'[r] = <<>>
    <3>1. CASE Len(g) = 0
      BY <1>3, <1>5, <2>1, <3>1 DEF Placed
    <3>2. CASE Len(g) = 1
      <4>1. messages[q] \o added = messages[q]
        BY <1>1, <1>4, <3>2
      <4> QED
        BY <1>5, <2>1, <2>2, <4>1 DEF Placed
    <3> QED
      BY <1>4, <3>1, <3>2
  <2>4. \A r \in Queues : \A n \in Range(messages'[r]) : HomeIn(pset, n.port) = r
    <3>1. Range(messages[q] \o added) = Range(messages[q]) \cup Range(added)
      BY <1>1, <1>4, ConcatRange
    <3> QED
      BY <1>1, <1>4, <1>5, <2>1, <3>1 DEF Placed
  <2>5. Placed(messages', threads', pset')
    BY <1>5, <2>3, <2>4 DEF Placed, portvars
  <2>6. \A r \in Queues : IsInjective(threads'[r]) /\ (Gone(r)' => threads'[r] = <<>>)
    BY <1>1, <1>3, <1>5, QueueFacts DEF Gone, portvars, R
  <2> QED
    BY <2>5, <2>6, QueuePart
<1>11. \A r \in Ports : PortOK(r)'
  BY QueueFacts DEF PortOK, NotBlocked, portvars
<1>12. Handed(p, Append(Queued(p), m), to)
  <2> DEFINE Q == Queued(p)
             A == Append(Q, m)
  <2>1. Q \in Seq(Message) /\ Q = OfPort(messages[q], p)
    BY <1>1, OfPortFacts DEF Queued, q
  <2>2. A \in Seq(Message) /\ Len(A) = Len(Q) + 1 /\ Len(Q) \in Nat /\ Len(A) \in Nat
    BY <2>1
  <2>3. \A r \in Ports : /\ Queued(r)' = OfPort(messages'[HomeIn(pset, r)], r)
                         /\ Queued(r) = OfPort(messages[HomeIn(pset, r)], r)
                         /\ HomeIn(pset, r) \in Queues
    <3>1. pset' = pset
      BY DEF portvars
    <3> QED
      BY <1>0, <3>1, QueuedNext, HomeFacts DEF QueuedIn, Queued
  <2>4. OfPort(added, p) = added /\ \A r \in Ports \ {p} : OfPort(added, r) = <<>>
    <3>1. \A n \in Range(added) : n.port = p
      BY <1>4
    <3> QED
      BY <1>4, <3>1, OfPortOwn, OfPortOther
  <2>5. \A r \in Ports : OfPort(messages[q] \o added, r) = OfPort(messages[q], r) \o OfPort(added, r)
    <3> DEFINE s == messages[q]
    <3>1. s \in Seq(Message)
      BY <1>1
    <3> HIDE DEF s
    <3>2. \A r \in Ports : OfPort(s \o added, r) = OfPort(s, r) \o OfPort(added, r)
      BY <1>4, <3>1, OfPortConcat
    <3> QED
      BY <3>2 DEF s
  <2>6. ASSUME NEW r \in Ports \ {p} PROVE Queued(r)' = Queued(r)
    <3>1. OfPort(messages[q] \o added, r) = OfPort(messages[q], r)
      <4>1. OfPort(messages[q], r) \in Seq(Message)
        BY <1>1, OfPortFacts
      <4> QED
        BY <2>4, <2>5, <4>1
    <3> QED
      BY <1>5, <2>3, <3>1
  <2>7. Queued(p)' = Q \o added
    BY <1>0, <1>1, <1>5, <2>1, <2>3, <2>4, <2>5
  <2> HIDE DEF Q
  <2>8. Queued(p)' = SubSeq(A, Len(to) + 1, Len(A)) /\ (to = <<>> \/ Q = <<>>)
        /\ \A i \in 1..Len(to) : A[i] = M[i]
    <3>1. CASE Len(g) = 0
      <4>1. to = <<>>
        BY <1>8, <3>1 DEF Gives
      <4>2. Q \o added = A
        <5>1. Q \o <<m>> = Append(Q, m)
          BY <2>1
        <5> QED
          BY <1>4, <3>1, <5>1
      <4>3. SubSeq(A, 1, Len(A)) = A
        <5> HIDE DEF A
        <5> QED
          BY <2>2
      <4> QED
        BY <1>8, <2>7, <3>1, <4>1, <4>2, <4>3
    <3>2. CASE Len(g) = 1
      <4>1. messages[q] = <<>>
        <5>1. Placed(messages, threads, pset)
          BY PlacedNow
        <5> QED
          BY <1>1, <1>3, <3>2, <5>1 DEF Placed, R
      <4>2. Q = <<>>
        <5>1. \A n \in Range(messages[q]) : n.port # p
          BY <4>1, EmptyRange
        <5> QED
          BY <1>1, <2>1, <5>1, OfPortOther
      <4>3. Queued(p)' = <<>> /\ A = <<m>>
        BY <1>4, <2>7, <3>2, <4>2
      <4>4. SubSeq(<<m>>, 2, 1) = <<>> /\ Len(<<m>>) = 1 /\ <<m>>[1] = m
        OBVIOUS
      <4> QED
        BY <1>1, <1>8, <3>2, <4>2, <4>3, <4>4
    <3> QED
      BY <1>4, <3>1, <3>2
  <2>9. Len(to) <= Len(A) /\ seqno' = [seqno EXCEPT ![p] = @ + Len(to)]
    BY <1>3, <1>8, <2>2 DEF Gives
  <2>10. \A i \in 1..Len(to) : /\ kmsg[to[i]] = None /\ kmsg'[to[i]] = A[i]
                               /\ ith_seqno'[to[i]] = seqno[p] + i - 1
    BY <1>8, <2>8 DEF Gives
  <2>11. UNCHANGED <<active, renumbered>>
    BY DEF portvars
  <2>12. A = Append(Queued(p), m)
    BY DEF Q
  <2> HIDE DEF A
  <2> QED
    BY <1>2, <1>8, <2>2, <2>6, <2>8, <2>9, <2>10, <2>11, <2>12 DEF Handed, Q, Gives
<1> QED
  BY <1>7, <1>9, <1>10, <1>11, <1>12 DEF WaitInv, to, R, q

LEMMA NewMessageType ==
  ASSUME TypeOK, NEW p \in Ports, NEW sz, sent[p] < MaxSends
  PROVE  /\ NewMessage(p, sz) \in Message /\ NewMessage(p, sz).port = p
         /\ NewMessage(p, sz).num = sent[p] + 1
<1>1. MaxSends \in Nat /\ sent[p] \in 0..MaxSends
  BY MsgQueueAssumption DEF TypeOK
<1>2. sent[p] + 1 \in 1..MaxSends
  BY <1>1
<1> QED
  BY <1>2 DEF NewMessage, Message

LEMMA BlockedFacts ==
  ASSUME QueueInv, NEW t
  PROVE  /\ t \in Threads /\ pc[t] = "sendwait" => NotBlocked(BlockedWithout(t), t)
         /\ t \notin Threads \/ pc[t] # "sendwait" \/ Told(t) => NotBlocked(blocked, t)
<1>0. TypeOK /\ WaitInv
  BY DEF QueueInv
<1>1. ASSUME t \in Threads, pc[t] = "sendwait" PROVE NotBlocked(BlockedWithout(t), t)
  <2> DEFINE q == obj[t]
             w == Without(blocked[q], {t})
  <2>1. q \in Ports /\ blocked[q] \in Seq(Threads) /\ IsInjective(blocked[q])
    BY <1>0, <1>1, QueueFacts DEF WaitInv, ThreadOK
  <2>2. w \in Seq(Threads) /\ Range(w) = Range(blocked[q]) \ {t} /\ IsInjective(w)
    BY <2>1, WithoutType, WithoutRange, WithoutDistinct
  <2>3. blocked[q] = <<>> => w = <<>>
    <3>1. blocked[q] = <<>> => Range(blocked[q]) \subseteq {t}
      BY EmptyRange
    <3> QED
      BY <2>1, <3>1, WithoutAll
  <2>4. BlockedWithout(t) = [blocked EXCEPT ![q] = w]
    BY <1>0 DEF BlockedWithout, TypeOK
  <2> HIDE DEF q, w
  <2>5. /\ BlockedWithout(t) \in [Ports -> Seq(Threads)]
        /\ \A r \in Ports : BlockedWithout(t)[r] = IF r = q THEN w ELSE blocked[r]
    BY <1>0, <2>1, <2>2, <2>4 DEF TypeOK
  <2>6. \A r \in Ports \ {q} : t \notin Range(blocked[r])
    BY <1>0, <1>1, WhereFacts DEF IsBlocked, q
  <2>7. \A r \in Ports : IsInjective(blocked[r])
    BY QueueFacts
  <2> QED
    BY <2>1, <2>2, <2>3, <2>5, <2>6, <2>7 DEF NotBlocked
<1>2. ASSUME t \notin Threads \/ pc[t] # "sendwait" \/ Told(t) PROVE NotBlocked(blocked, t)
  <2>1. \A r \in Ports : Range(blocked[r]) \subseteq Threads
    BY QueueFacts
  <2>2. \A r \in Ports : t \notin Range(blocked[r])
    BY <1>0, <1>2, <2>1, WhereFacts
  <2> QED
    BY <1>0, <2>2, QueueFacts DEF NotBlocked, TypeOK
<1> QED
  BY <1>1, <1>2

\* A thread that can send: it sleeps no more, and has no message.
CanSend(t) ==
  t \in Threads /\ pc[t] \in {"run", "sendwait", "circular"} /\ ~waiting[t] /\ kmsg[t] = None

LEMMA SendNowStep ==
  ASSUME QueueInv, NEW t, CanSend(t), NEW p \in active, NEW sz, SendNow(t, p, sz),
         NotBlocked(blocked', t), UNCHANGED <<portvars, renumbered>>
  PROVE  TypeOK' /\ WaitInv' /\ MessageStep
<1> DEFINE R == threads[Home(p)]
           m == NewMessage(p, sz)
<1>0. TypeOK /\ WaitInv /\ p \in Ports /\ t \in Threads
  BY DEF QueueInv, TypeOK, CanSend
<1>1. PICK g \in Matches(R, <<m>>) :
           /\ Deliver(t, p, m, g, Late(R, g))
           /\ IF Late(R, g) = {} THEN Done(t) ELSE Enter(t, "go", R[g[1]], "fit")
  BY DEF SendNow
<1>2. m \in Message /\ m.port = p /\ m.num = sent[p] + 1
  BY <1>0, <1>1, NewMessageType DEF Deliver
<1>3. R \in Seq(Threads) /\ IsInjective(R)
  BY <1>0, HomeFacts, QueueFacts
<1> HIDE DEF R, m
<1> DEFINE late == Late(R, g)
<1>4. late \subseteq Takers(R, g)
  BY DEF Late
<1>5. late # {} => late = {R[g[1]]} /\ R[g[1]] \in Threads
  <2>1. <<m>> \in Seq(Message) /\ Len(<<m>>) = 1
    BY <1>2
  <2>2. Len(g) \in Nat /\ Len(g) <= Len(<<m>>) /\ DOMAIN g = 1..Len(g)
    BY <1>1, <1>3, <2>1, MatchFacts
  <2>3. Takers(R, g) \subseteq Out(R, <<m>>, g) /\ Out(R, <<m>>, g) \subseteq Range(R)
        /\ Range(R) \subseteq Threads
    BY <1>1, <1>3, <2>1, TakerFacts
  <2>4. \A i \in DOMAIN g : i = 1
    BY <2>1, <2>2
  <2>5. \A u \in Takers(R, g) : u = R[g[1]]
    BY <2>4 DEF Takers
  <2> HIDE DEF late
  <2> QED
    BY <1>4, <2>3, <2>5
<1>6. /\ SenderMay(t) /\ \A u \in late : Expected(u)'
  <2>1. CASE late = {}
    <3>1. Done(t)
      BY <1>1, <2>1
    <3> QED
      BY <1>0, <2>1, <3>1, DoneEffect DEF SenderMay, CanSend
  <2>2. CASE late # {}
    <3>1. Enter(t, "go", R[g[1]], "fit") /\ R[g[1]] \in Threads /\ "go" \in Pcs
      BY <1>1, <1>5, <2>2 DEF Pcs
    <3>2. /\ pc'[t] = "go" /\ obj'[t] = R[g[1]]
          /\ \A u \in Threads \ {t} : pc'[u] = pc[u] /\ obj'[u] = obj[u] /\ size'[u] = size[u]
          /\ pc' \in [Threads -> Pcs] /\ obj' \in [Threads -> Queues \cup Threads \cup {None}]
          /\ size' \in [Threads -> {"fit", "big", "circular", "short", "large"}]
      BY <1>0, <3>1, EnterEffect
    <3>3. \A u \in late : Expected(u)'
      BY <1>0, <1>5, <2>2, <3>2 DEF Expected
    <3> QED
      BY <3>2, <3>3 DEF SenderMay, CanSend
  <2> QED
    BY <2>1, <2>2
<1>7. /\ TypeOK' /\ WaitInv' /\ Handed(p, Append(Queued(p), m), To(R, g))
  <2>1. /\ g \in Matches(threads[Home(p)], <<m>>) /\ late \subseteq Takers(threads[Home(p)], g)
        /\ Deliver(t, p, m, g, late) /\ R = threads[Home(p)]
    BY <1>1, <1>4 DEF R
  <2> HIDE DEF late
  <2> QED
    BY <1>2, <1>6, <2>1, DeliverStep
<1> QED
  BY <1>0, <1>7 DEF MessageStep

\* A sender goes on without sending.
LEMMA SenderGoesOn ==
  ASSUME QueueInv, NEW t, CanSend(t), NEW at \in {"run", "kill"},
         NEW o \in Ports \cup {None}, at = "kill" => o \in Ports,
         NEW sz \in {"fit", "big", "circular", "short", "large"}, Enter(t, at, o, sz),
         Settle(t), NotBlocked(blocked', t), UNCHANGED <<queues, msgcount, sent>>,
         UNCHANGED <<portvars, renumbered>>
  PROVE  TypeOK' /\ WaitInv' /\ MessageStep
<1>0. /\ TypeOK /\ WaitInv /\ t \in Threads /\ ~waiting[t] /\ kmsg[t] = None
      /\ pc[t] \notin {"go", "rcvwait"}
      /\ messages' = messages /\ threads' = threads /\ seqno' = seqno
  BY DEF QueueInv, CanSend, queues
<1>1. /\ pc'[t] = at /\ obj'[t] = o
      /\ \A u \in Threads \ {t} : pc'[u] = pc[u] /\ obj'[u] = obj[u] /\ size'[u] = size[u]
      /\ pc' \in [Threads -> Pcs] /\ obj' \in [Threads -> Queues \cup Threads \cup {None}]
      /\ size' \in [Threads -> {"fit", "big", "circular", "short", "large"}]
  <2>1. at \in Pcs /\ o \in Queues \cup Threads \cup {None}
    BY NamesDisjoint DEF Pcs
  <2> QED
    BY <1>0, <2>1, EnterEffect
<1>2. /\ state' \in [Threads -> {"none", "in_progress", "success", "too_large",
                                 "changed", "died"}]
      /\ wait_result' \in [Threads -> {"none", "awakened", "timed_out", "interrupted"}]
      /\ state'[t] = "none" /\ \A u \in Threads \ {t} : state'[u] = state[u]
      /\ kmsg' = kmsg /\ ith_seqno' = ith_seqno /\ waiting' = waiting
  BY <1>0 DEF Settle, TypeOK
<1>3. TypeOK'
  BY <1>0, <1>1, <1>2 DEF TypeOK, NotBlocked, portvars
<1>4. \A u \in Threads : ThreadOK(u)'
  <2>1. \A q \in Queues : t \notin Range(threads[q])
    BY <1>0, WhereFacts
  <2>2. OthersAlone(t)
    BY <1>1, <1>2 DEF OthersAlone
  <2>3. GoesOn(t)
    BY <1>0, <1>1, <1>2, <2>1, <2>2 DEF GoesOn, NotBlocked
  <2> QED
    BY <1>0, <2>3, OneGoesOn
<1>5. \A q \in Queues : QueueOK(q)'
  BY <1>0 DEF WaitInv, QueueOK, Gone, Home, portvars
<1>6. \A r \in Ports : PortOK(r)'
  BY QueueFacts DEF PortOK, NotBlocked, portvars
<1>7. Quiet
  BY <1>0, <1>2 DEF Quiet, Queued, Home, TypeOK, portvars
<1> QED
  BY <1>3, <1>4, <1>5, <1>6, <1>7 DEF WaitInv, MessageStep

\* A sender goes to sleep on a live port.
LEMMA SenderSleeps ==
  ASSUME QueueInv, NEW t, CanSend(t), NEW p \in active, NEW blk, NotBlocked(blk, t),
         NEW sz \in {"fit", "big", "circular", "short", "large"},
         Block(t, "sendwait", p, sz), blocked' = [blk EXCEPT ![p] = Append(@, t)],
         UNCHANGED <<queues, msgcount, sent>>, UNCHANGED <<portvars, renumbered>>
  PROVE  TypeOK' /\ WaitInv' /\ MessageStep
<1>0. /\ TypeOK /\ WaitInv /\ t \in Threads /\ kmsg[t] = None /\ p \in Ports /\ p \in Queues
      /\ pc[t] \notin {"go", "rcvwait"}
      /\ messages' = messages /\ threads' = threads /\ seqno' = seqno
  BY NamesDisjoint DEF QueueInv, TypeOK, CanSend, queues
<1>1. /\ pc'[t] = "sendwait" /\ obj'[t] = p
      /\ \A u \in Threads \ {t} : pc'[u] = pc[u] /\ obj'[u] = obj[u] /\ size'[u] = size[u]
      /\ pc' \in [Threads -> Pcs] /\ obj' \in [Threads -> Queues \cup Threads \cup {None}]
      /\ size' \in [Threads -> {"fit", "big", "circular", "short", "large"}]
  BY <1>0, EnterEffect DEF Pcs, Block
<1>2. /\ state' \in [Threads -> {"none", "in_progress", "success", "too_large",
                                 "changed", "died"}]
      /\ wait_result' \in [Threads -> {"none", "awakened", "timed_out", "interrupted"}]
      /\ state'[t] = "in_progress" /\ \A u \in Threads \ {t} : state'[u] = state[u]
      /\ kmsg' = kmsg /\ ith_seqno' = ith_seqno /\ waiting' \in [Threads -> BOOLEAN]
      /\ \A u \in Threads \ {t} : waiting'[u] => waiting[u]
  BY <1>0 DEF Block, TypeOK
<1>3. /\ \A r \in Ports : blocked'[r] = IF r = p THEN Append(blk[p], t) ELSE blk[r]
      /\ blocked' \in [Ports -> Seq(Threads)]
      /\ \A r \in Ports : IsInjective(blocked'[r])
      /\ \A r \in Ports : Range(blocked'[r]) =
           (Range(blocked[r]) \ {t}) \cup IF r = p THEN {t} ELSE {}
  <2>1. blk[p] \in Seq(Threads) /\ IsInjective(blk[p]) /\ t \notin Range(blk[p])
    BY <1>0 DEF NotBlocked
  <2>2. /\ Append(blk[p], t) \in Seq(Threads) /\ IsInjective(Append(blk[p], t))
        /\ Range(Append(blk[p], t)) = Range(blk[p]) \cup {t}
    BY <1>0, <2>1, AppendRange
  <2>3. /\ \A r \in Ports : blocked'[r] = IF r = p THEN Append(blk[p], t) ELSE blk[r]
        /\ blocked' \in [Ports -> Seq(Threads)]
    BY <1>0, <2>2 DEF NotBlocked
  <2> QED
    BY <1>0, <2>2, <2>3 DEF NotBlocked
<1>4. TypeOK'
  BY <1>0, <1>1, <1>2, <1>3 DEF TypeOK, portvars
<1>5. \A u \in Threads : ThreadOK(u)'
  <2>1. OthersAlone(t)
    BY <1>1, <1>2 DEF OthersAlone
  <2>2. \A r \in Queues : Range(threads'[r]) =
          (Range(threads[r]) \ {t}) \cup IF pc'[t] = "rcvwait" /\ r = p THEN {t} ELSE {}
    <3>1. \A q \in Queues : t \notin Range(threads[q])
      BY <1>0, WhereFacts
    <3> QED
      BY <1>0, <1>1, <3>1
  <2>3. \A r \in Ports : Range(blocked'[r]) =
          (Range(blocked[r]) \ {t}) \cup IF pc'[t] = "sendwait" /\ r = p THEN {t} ELSE {}
    BY <1>1, <1>3
  <2>4. Sleeps(t, p)
    <3>1. pc[t] # "go" /\ obj'[t] = p /\ state'[t] = "in_progress" /\ kmsg'[t] = None
      BY <1>0, <1>1, <1>2
    <3> QED
      BY <1>0, <1>1, <2>1, <2>2, <2>3, <3>1, Zenon DEF Sleeps
  <2> QED
    BY <1>0, <2>4, OneSleeps
<1>6. \A q \in Queues : QueueOK(q)'
  BY <1>0 DEF WaitInv, QueueOK, Gone, Home, portvars
<1>7. \A r \in Ports : PortOK(r)'
  BY <1>3, QueueFacts DEF PortOK, NotBlocked, portvars
<1>8. Quiet
  BY <1>0, <1>2 DEF Quiet, Queued, Home, TypeOK, portvars
<1> QED
  BY <1>4, <1>5, <1>6, <1>7, <1>8 DEF WaitInv, MessageStep

LEMMA SendLoopStep ==
  ASSUME QueueInv, NEW t, CanSend(t), NEW p \in Ports,
         NEW sz \in {"fit", "big", "circular", "short", "large"}, NEW poll,
         NEW blk, NotBlocked(blk, t), SendLoop(t, p, sz, poll, blk),
         UNCHANGED <<portvars, renumbered>>
  PROVE  TypeOK' /\ WaitInv' /\ MessageStep
<1>0. None \in Ports \cup {None} /\ p \in Ports \cup {None}
  OBVIOUS
<1>1. CASE /\ Done(t) /\ blocked' = blk
           /\ Settle(t) /\ UNCHANGED <<queues, msgcount, sent>>
  BY <1>0, <1>1, SenderGoesOn DEF Done
<1>2. CASE /\ p \in active /\ SendNow(t, p, sz) /\ blocked' = blk
  BY <1>2, SendNowStep
<1>3. CASE /\ Enter(t, "kill", p, sz) /\ blocked' = blk
           /\ Settle(t) /\ UNCHANGED <<queues, msgcount, sent>>
  BY <1>0, <1>3, SenderGoesOn
<1>4. CASE /\ p \in active
           /\ blocked' = [blk EXCEPT ![p] = Append(@, t)]
           /\ Block(t, "sendwait", p, sz)
           /\ UNCHANGED <<queues, msgcount, sent>>
  BY <1>4, SenderSleeps
<1> QED
  BY <1>1, <1>2, <1>3, <1>4 DEF SendLoop

LEMMA SendStep ==
  ASSUME QueueInv, NEW t \in Threads, NEW p \in Ports, NEW sz \in {"fit", "big"}, NEW poll,
         ipc_mqueue_send(t, p, sz, poll)
  PROVE  TypeOK' /\ WaitInv' /\ MessageStep
<1>1. /\ pc[t] = "run" /\ SendLoop(t, p, sz, poll, blocked)
      /\ UNCHANGED <<portvars, renumbered>>
      /\ sz \in {"fit", "big", "circular", "short", "large"}
  BY DEF ipc_mqueue_send
<1>2. CanSend(t) /\ NotBlocked(blocked, t)
  BY <1>1, WhereFacts, BlockedFacts DEF CanSend, QueueInv
<1> QED
  BY <1>1, <1>2, SendLoopStep

LEMMA SendCircularStep ==
  ASSUME QueueInv, NEW t \in Threads, NEW poll, SendCircular(t, poll)
  PROVE  TypeOK' /\ WaitInv' /\ MessageStep
<1>1. /\ pc[t] = "circular" /\ SendLoop(t, obj[t], "circular", poll, blocked)
      /\ UNCHANGED <<portvars, renumbered>> /\ obj[t] \in Ports
      /\ "circular" \in {"fit", "big", "circular", "short", "large"}
  BY DEF SendCircular, QueueInv, WaitInv, ThreadOK
<1>2. CanSend(t) /\ NotBlocked(blocked, t)
  BY <1>1, WhereFacts, BlockedFacts DEF CanSend, QueueInv
<1> QED
  BY <1>1, <1>2, SendLoopStep

LEMMA SendWokenStep ==
  ASSUME QueueInv, NEW t \in Threads, SendWoken(t)
  PROVE  TypeOK' /\ WaitInv' /\ MessageStep
<1>1. /\ pc[t] = "sendwait" /\ ~waiting[t] /\ UNCHANGED <<portvars, renumbered>>
      /\ obj[t] \in Ports /\ size[t] \in {"fit", "big", "circular", "short", "large"}
  BY DEF SendWoken, QueueInv, WaitInv, ThreadOK, TypeOK
<1>2. /\ CanSend(t) /\ NotBlocked(BlockedWithout(t), t)
      /\ Told(t) => NotBlocked(blocked, t)
  BY <1>1, WhereFacts, BlockedFacts DEF CanSend, QueueInv
<1>3. CASE Told(t) /\ SendLoop(t, obj[t], size[t], FALSE, blocked)
  BY <1>1, <1>2, <1>3, SendLoopStep
<1>4. CASE /\ Done(t) /\ blocked' = BlockedWithout(t)
           /\ Settle(t) /\ UNCHANGED <<queues, msgcount, sent>>
  <2>1. None \in Ports \cup {None}
    OBVIOUS
  <2> QED
    BY <1>1, <1>2, <1>4, <2>1, SenderGoesOn DEF Done
<1>5. CASE SendLoop(t, obj[t], size[t], TRUE, BlockedWithout(t))
  BY <1>1, <1>2, <1>5, SendLoopStep
<1> QED
  BY <1>3, <1>4, <1>5 DEF SendWoken

LEMMA SendAlwaysStep ==
  ASSUME QueueInv, NEW p \in Ports, NEW sz, ipc_mqueue_send_always(p, sz)
  PROVE  TypeOK' /\ WaitInv' /\ MessageStep
<1> DEFINE R == threads[Home(p)]
           m == NewMessage(p, sz)
           late == {}
<1>0. TypeOK /\ p \in active /\ UNCHANGED <<portvars, blocked, call, renumbered>>
  BY DEF QueueInv, ipc_mqueue_send_always
<1>1. PICK g \in Matches(R, <<m>>) : Deliver(None, p, m, g, late)
  BY DEF ipc_mqueue_send_always
<1>2. m \in Message /\ m.port = p /\ m.num = sent[p] + 1
  BY <1>0, <1>1, NewMessageType DEF Deliver
<1>3. SenderMay(None) /\ NotBlocked(blocked', None)
  <2>1. None \notin Threads
    BY NamesDisjoint
  <2> QED
    BY <1>0, <2>1, BlockedFacts DEF SenderMay, TypeOK, call
<1>4. late \subseteq Takers(threads[Home(p)], g) /\ \A u \in late : Expected(u)'
  OBVIOUS
<1> HIDE DEF late, m
<1>5. TypeOK' /\ WaitInv' /\ Handed(p, Append(Queued(p), m), To(threads[Home(p)], g))
  BY <1>0, <1>1, <1>2, <1>3, <1>4, DeliverStep
<1> QED
  BY <1>5 DEF MessageStep

\* The messages of port p, of which left are to stay queued, go to the set s.
MovedIn(p, s, left) ==
  [[messages EXCEPT ![Home(p)] = NotOfPort(@, p)] EXCEPT ![s] = @ \o left]

\* The port's messages are those of left, in the set; the others stay.
WentIn(msgs, ps, p, s, left) ==
  /\ msgs \in [Queues -> Seq(Message)]
  /\ \A q \in Queues : msgs[q] =
       IF q = s THEN messages[s] \o left
       ELSE IF q = Home(p) THEN NotOfPort(messages[q], p) ELSE messages[q]
  /\ \A q \in Queues : \A m \in Range(msgs[q]) : HomeIn(ps, m.port) = q
  /\ QueuedIn(msgs, ps, p) = left
  /\ \A r \in Ports \ {p} : QueuedIn(msgs, ps, r) = Queued(r)

LEMMA MovedInFacts ==
  ASSUME QueueInv, NEW p \in Ports, NEW s \in Psets, pset[p] # s, NEW left \in Seq(Message),
         \A m \in Range(left) : m.port = p
  PROVE  WentIn(MovedIn(p, s, left), [pset EXCEPT ![p] = s], p, s, left)
<1> DEFINE msgs == MovedIn(p, s, left)
           ps == [pset EXCEPT ![p] = s]
           h == Home(p)
<1>1. /\ messages \in [Queues -> Seq(Message)] /\ pset \in [Ports -> Psets \cup {None}]
      /\ s \in Queues /\ p \in Queues /\ h \in Queues /\ h # s /\ s # None
      /\ h = HomeIn(pset, p)
  BY NamesDisjoint DEF QueueInv, TypeOK, Home, HomeIn
<1>2. /\ NotOfPort(messages[h], p) \in Seq(Message) /\ messages[s] \o left \in Seq(Message)
      /\ Range(NotOfPort(messages[h], p)) = {m \in Range(messages[h]) : m.port # p}
      /\ Range(messages[s] \o left) = Range(messages[s]) \cup Range(left)
  BY <1>1, OfPortFacts, ConcatRange
<1> HIDE DEF h
<1>3. /\ \A q \in Queues : msgs[q] =
           IF q = s THEN messages[s] \o left
           ELSE IF q = h THEN NotOfPort(messages[q], p) ELSE messages[q]
      /\ msgs \in [Queues -> Seq(Message)]
  <2> DEFINE a == [messages EXCEPT ![h] = NotOfPort(@, p)]
             b == [a EXCEPT ![s] = @ \o left]
  <2>1. msgs = b
    BY DEF MovedIn, h
  <2>2. /\ a \in [Queues -> Seq(Message)]
        /\ \A q \in Queues : a[q] = IF q = h THEN NotOfPort(messages[q], p) ELSE messages[q]
    BY <1>1, <1>2
  <2> HIDE DEF a
  <2>3. a[s] = messages[s]
    BY <1>1, <2>2
  <2>4. /\ b \in [Queues -> Seq(Message)]
        /\ \A q \in Queues : b[q] = IF q = s THEN messages[s] \o left ELSE a[q]
    BY <1>1, <1>2, <2>2, <2>3
  <2> HIDE DEF b
  <2> QED
    BY <2>1, <2>2, <2>4
<1>4. \A r \in Ports : HomeIn(ps, r) = IF r = p THEN s ELSE HomeIn(pset, r)
  BY <1>1 DEF HomeIn
<1> HIDE DEF msgs, ps
<1>5. /\ \A q \in Queues : \A m \in Range(messages[q]) :
           HomeIn(pset, m.port) = q /\ m.port \in Ports
      /\ \A r \in Ports : HomeIn(pset, r) \in Queues
      /\ \A r \in Ports : Queued(r) = OfPort(messages[HomeIn(pset, r)], r)
  <2>1. \A q \in Queues : Range(messages[q]) \subseteq Message
    BY QueueFacts
  <2> QED
    BY <2>1, PlacedNow, NamesDisjoint, HomeFacts DEF Placed, QueueInv, Queued
<1>6. ASSUME NEW q \in Queues, NEW m \in Range(msgs[q]) PROVE HomeIn(ps, m.port) = q
  <2>1. CASE q = s
    BY <1>1, <1>2, <1>3, <1>4, <1>5, <1>6, <2>1
  <2>2. CASE q # s /\ q = h
    BY <1>1, <1>2, <1>3, <1>4, <1>5, <1>6, <2>2
  <2>3. CASE q # s /\ q # h
    BY <1>1, <1>3, <1>4, <1>5, <1>6, <2>3
  <2> QED
    BY <2>1, <2>2, <2>3
<1>7. \A r \in Ports : QueuedIn(msgs, ps, r) = OfPort(msgs[HomeIn(ps, r)], r)
  BY DEF QueuedIn
<1>8. \A r \in Ports : OfPort(messages[s] \o left, r) = OfPort(messages[s], r) \o OfPort(left, r)
  <2> DEFINE a == messages[s]
  <2>1. a \in Seq(Message)
    BY <1>1
  <2> HIDE DEF a
  <2>2. \A r \in Ports : OfPort(a \o left, r) = OfPort(a, r) \o OfPort(left, r)
    BY <2>1, OfPortConcat
  <2> QED
    BY <2>2 DEF a
<1>9. QueuedIn(msgs, ps, p) = left
  <2>1. OfPort(messages[s], p) = <<>>
    <3>1. messages[s] \in Seq(Message) /\ \A m \in Range(messages[s]) : m.port # p
      BY <1>1, <1>5
    <3> QED
      BY <3>1, OfPortOther
  <2>2. OfPort(left, p) = left
    BY OfPortOwn
  <2>3. <<>> \o left = left
    OBVIOUS
  <2> QED
    BY <1>1, <1>3, <1>4, <1>7, <1>8, <2>1, <2>2, <2>3
<1>10. ASSUME NEW r \in Ports \ {p} PROVE QueuedIn(msgs, ps, r) = Queued(r)
  <2> DEFINE k == HomeIn(pset, r)
  <2>1. /\ QueuedIn(msgs, ps, r) = OfPort(msgs[k], r) /\ Queued(r) = OfPort(messages[k], r)
        /\ k \in Queues
    BY <1>4, <1>5, <1>7
  <2> HIDE DEF k
  <2>2. CASE k = s
    <3>1. OfPort(left, r) = <<>>
      BY OfPortOther
    <3>2. OfPort(messages[s], r) \in Seq(Message)
      BY <1>1, OfPortFacts
    <3>3. OfPort(messages[s], r) \o <<>> = OfPort(messages[s], r)
      BY <3>2
    <3> QED
      BY <1>3, <1>8, <2>1, <2>2, <3>1, <3>3
  <2>3. CASE k # s /\ k = h
    <3>1. messages[k] \in Seq(Message)
      BY <1>1, <2>1
    <3>2. OfPort(NotOfPort(messages[k], p), r) = OfPort(messages[k], r)
      BY <3>1, OfPortRest
    <3> QED
      BY <1>3, <2>1, <2>3, <3>2
  <2>4. CASE k # s /\ k # h
    BY <1>3, <2>1, <2>4
  <2> QED
    BY <2>2, <2>3, <2>4
<1> QED
  BY <1>3, <1>6, <1>9, <1>10 DEF WentIn, msgs, ps, h

LEMMA PsetAddStep ==
  ASSUME QueueInv, NEW p \in Ports, p \in held, NEW s \in sets, pset[p] # s,
         PsetAdd(p, s, Moving(messages[Home(p)], p),
                 [messages EXCEPT ![Home(p)] = NotOfPort(@, p)]),
         UNCHANGED <<active, sets, held, qlimit, counts, call, sent, renumbered>>
  PROVE  TypeOK' /\ WaitInv' /\ MessageStep
<1> DEFINE R == threads[s]
           M == Queued(p)
           C == Range(threads[p])
           late == {}
<1>0. TypeOK /\ WaitInv /\ s \in Psets /\ s \in Queues /\ p \in Queues /\ p # s /\ s # None
  BY NamesDisjoint DEF QueueInv, TypeOK
<1>1. PICK g \in Matches(R, M) :
        /\ seqno[p] + Len(g) <= MaxSeqno
        /\ HandOver(None, p, s, M, g, C, late)
        /\ messages' = MovedIn(p, s, SubSeq(M, Len(g) + 1, Len(M)))
        /\ threads' = [threads EXCEPT
                         ![s] = SubSeq(@, Passed(@, M, g) + 1, Len(@)), ![p] = <<>>]
        /\ pset' = [pset EXCEPT ![p] = s]
  BY DEF PsetAdd, Moving, Queued, MovedIn
<1> DEFINE left == SubSeq(M, Len(g) + 1, Len(M))
           rest == Rest(R, M, g)
           to == To(R, g)
<1>2. /\ R \in Seq(Threads) /\ IsInjective(R) /\ messages[s] \in Seq(Message)
      /\ M \in Seq(Message) /\ \A m \in Range(M) : m.port = p
  <2>1. messages[Home(p)] \in Seq(Message)
    BY <1>0, HomeFacts, QueueFacts
  <2> QED
    BY <1>0, <2>1, QueueFacts, OfPortFacts DEF Queued
<1> HIDE DEF M
<1>3. /\ Len(g) \in Nat /\ Len(g) <= Len(M) /\ Len(M) \in Nat
      /\ rest \in Seq(Threads) /\ IsInjective(rest)
      /\ Range(rest) = Range(R) \ Out(R, M, g) /\ Out(R, M, g) \subseteq Range(R)
      /\ Len(g) < Len(M) => rest = <<>>
      /\ R = <<>> => rest = <<>>
  <2> HIDE DEF R
  <2>1. Len(g) \in Nat /\ Len(g) <= Len(M) /\ Len(M) \in Nat
    BY <1>1, <1>2, MatchFacts
  <2>2. Out(R, M, g) \subseteq Range(R)
    BY <1>1, <1>2, TakerFacts
  <2>3. /\ rest \in Seq(Threads) /\ IsInjective(rest)
        /\ Range(rest) = Range(R) \ Out(R, M, g)
        /\ Len(g) < Len(M) => rest = <<>>
        /\ R = <<>> => rest = <<>>
    BY <1>1, <1>2, RestFacts
  <2> QED
    BY <2>1, <2>2, <2>3
<1>4. /\ threads' \in [Queues -> Seq(Threads)]
      /\ \A q \in Queues : threads'[q] =
           IF q = p THEN <<>> ELSE IF q = s THEN rest ELSE threads[q]
  <2>1. threads' = [threads EXCEPT ![s] = rest, ![p] = <<>>]
    BY <1>0, <1>1 DEF Rest, TypeOK
  <2>2. <<>> \in Seq(Threads)
    OBVIOUS
  <2> HIDE DEF rest
  <2> QED
    BY <1>0, <1>3, <2>1, <2>2 DEF TypeOK
<1>5. left \in Seq(Message) /\ (Len(g) = Len(M) => left = <<>>)
      /\ \A m \in Range(left) : m.port = p
  <2>1. left \in Seq(Message) /\ Range(left) \subseteq Range(M)
    <3> DEFINE n == Len(g)
    <3>1. n \in 0..Len(M)
      BY <1>3
    <3> HIDE DEF n
    <3>2. /\ SubSeq(M, n + 1, Len(M)) \in Seq(Message)
          /\ \A i \in 1..Len(SubSeq(M, n + 1, Len(M))) :
               SubSeq(M, n + 1, Len(M))[i] = M[n + i] /\ n + i \in 1..Len(M)
      BY <1>2, <1>3, <3>1
    <3>3. left = SubSeq(M, n + 1, Len(M))
      BY DEF n
    <3> HIDE DEF left
    <3>4. left \in Seq(Message)
      BY <3>2, <3>3
    <3>5. Range(left) = {left[i] : i \in 1..Len(left)} /\ Range(M) = {M[i] : i \in 1..Len(M)}
      BY <1>2, <3>4, RangeSeq
    <3> QED
      BY <3>2, <3>3, <3>4, <3>5
  <2>2. Len(g) = Len(M) => left = <<>>
    BY <1>2, <1>3
  <2> HIDE DEF left
  <2> QED
    BY <1>2, <2>1, <2>2
<1> HIDE DEF left, rest
<1>6. /\ messages' \in [Queues -> Seq(Message)]
      /\ \A q \in Queues : messages'[q] =
           IF q = s THEN messages[s] \o left
           ELSE IF q = Home(p) THEN NotOfPort(messages[q], p) ELSE messages[q]
      /\ \A q \in Queues : \A m \in Range(messages'[q]) : HomeIn(pset', m.port) = q
      /\ QueuedIn(messages', pset', p) = left
      /\ \A r \in Ports \ {p} : QueuedIn(messages', pset', r) = Queued(r)
  <2>1. messages' = MovedIn(p, s, left) /\ pset' = [pset EXCEPT ![p] = s]
    BY <1>1 DEF left
  <2>2. WentIn(MovedIn(p, s, left), [pset EXCEPT ![p] = s], p, s, left)
    BY <1>0, <1>5, MovedInFacts
  <2>3. WentIn(messages', pset', p, s, left)
    BY <2>1, <2>2
  <2> QED
    BY <2>3 DEF WentIn
<1>7. /\ HandsOver(None, p, s, M, g, C, late) /\ \A u \in Threads : ThreadOK(u)'
  <2>1. SenderMay(None) /\ NotBlocked(blocked', None)
    <3>1. None \notin Threads
      BY NamesDisjoint
    <3> QED
      BY <1>0, <3>1, BlockedFacts DEF SenderMay, TypeOK, call, counts
  <2>2. \A q \in Queues :
          Range(threads'[q]) = Range(threads[q]) \ (Out(threads[s], M, g) \cup C)
    <3>1. \A q \in Queues \ {s} : Range(threads[q]) \cap Range(threads[s]) = {}
      BY <1>0, QueuesApart
    <3>2. \A q \in Queues \ {p} : Range(threads[q]) \cap Range(threads[p]) = {}
      BY <1>0, QueuesApart
    <3> QED
      BY <1>0, <1>3, <1>4, <3>1, <3>2, EmptyRange
  <2>3. late \subseteq Takers(threads[s], g) /\ (\A u \in late : Expected(u)')
        /\ (C = {} \/ (C = Range(threads[p]) /\ p # s))
    BY <1>0
  <2> HIDE DEF late, C
  <2>4. HandsOver(None, p, s, M, g, C, late)
    BY <1>1, <1>2, <2>1, <2>2, <2>3 DEF HandsOver
  <2> QED
    BY <1>0, <2>4, HandOverThreads
<1>8. Gives(p, M, to) /\ Len(to) = Len(g)
  BY <1>0, <1>7, HandOverGives
<1> HIDE DEF to
<1>9. pset' \in [Ports -> Psets \cup {None}]
      /\ \A r \in Ports : pset'[r] = IF r = p THEN s ELSE pset[r]
  BY <1>0, <1>1 DEF TypeOK
<1>10. TypeOK'
  BY <1>0, <1>4, <1>6, <1>8, <1>9 DEF TypeOK, Gives, call, counts
<1>11. \A q \in Queues : QueueOK(q)'
  <2>1. Placed(messages, threads, pset)
    BY PlacedNow
  <2>2. ASSUME NEW q \in Queues PROVE messages'[q] = <<>> \/ threads'[q] = <<>>
    <3>1. CASE q = s
      <4>1. CASE Len(g) < Len(M)
        BY <1>0, <1>3, <1>4, <3>1, <4>1
      <4>2. CASE Len(g) = Len(M)
        <5>1. messages[s] \o left = messages[s]
          BY <1>2, <1>5, <4>2
        <5> QED
          BY <1>0, <1>3, <1>4, <1>6, <2>1, <3>1, <5>1 DEF Placed
      <4> QED
        BY <1>3, <4>1, <4>2
    <3>2. CASE q = p
      BY <1>4, <3>2
    <3>3. CASE q # s /\ q # p /\ q = Home(p)
      <4>1. messages[q] = <<>> => NotOfPort(messages[q], p) = <<>>
        <5>1. <<>> \in Seq(Message) /\ Range(<<>>) \subseteq {m \in Message : m.port = p}
          BY EmptyRange
        <5> QED
          BY <5>1, WithoutAll DEF NotOfPort
      <4> QED
        BY <1>4, <1>6, <2>1, <3>3, <4>1 DEF Placed
    <3>4. CASE q # s /\ q # p /\ q # Home(p)
      BY <1>4, <1>6, <2>1, <3>4 DEF Placed
    <3> QED
      BY <3>1, <3>2, <3>3, <3>4
  <2>3. Placed(messages', threads', pset')
    BY <1>6, <2>2 DEF Placed
  <2>4. ASSUME NEW q \in Queues
        PROVE  IsInjective(threads'[q]) /\ (Gone(q)' => threads'[q] = <<>>)
    <3>1. IsInjective(threads'[q])
      BY <1>3, <1>4, QueueFacts, EmptyRange
    <3>2. Gone(q)' => threads'[q] = <<>>
      BY <1>0, <1>4, <1>9, QueueFacts DEF Gone, Queues
    <3> QED
      BY <3>1, <3>2
  <2> QED
    BY <2>3, <2>4, QueuePart
<1>12. \A r \in Ports : PortOK(r)'
  BY <1>9, QueueFacts DEF PortOK, counts
<1>13. Handed(p, M, to)
  <2>1. /\ Queued(p)' = left /\ left = SubSeq(M, Len(to) + 1, Len(M))
        /\ \A r \in Ports \ {p} : Queued(r)' = Queued(r)
    BY <1>6, <1>8, QueuedNext DEF left
  <2>2. Len(to) <= Len(M) /\ M = Queued(p)
    BY <1>3, <1>8 DEF M
  <2> QED
    BY <1>2, <1>8, <2>1, <2>2 DEF Handed, Gives, counts
<1> QED
  BY <1>7, <1>10, <1>11, <1>12, <1>13 DEF WaitInv, MessageStep

LEMMA PsetMoveStep ==
  ASSUME QueueInv, NEW p \in Ports, NEW s \in Psets \cup {None}, ipc_pset_move(p, s)
  PROVE  TypeOK' /\ WaitInv' /\ MessageStep
<1> USE DEF ipc_pset_move
<1>1. CASE s # None
  BY <1>1, PsetAddStep
<1>2. CASE s = None
  <2>1. TypeOK' /\ WaitInv' /\ Quiet
    BY <1>2, PsetOutStep
  <2> QED
    BY <2>1 DEF MessageStep
<1> QED
  BY <1>1, <1>2

-----------------------------------------------------------------------------
(* The counts.                                                             *)

\* A queue of different threads has as many places as threads.
LEMMA PlacesCount ==
  ASSUME NEW s \in Seq(Threads), IsInjective(s)
  PROVE  IsFiniteSet(Range(s)) /\ Cardinality(Range(s)) = Len(s)
<1>1. Len(s) \in Nat /\ DOMAIN s = 1..Len(s) /\ Range(s) = {s[i] : i \in 1..Len(s)}
  BY RangeSeq
<1>2. s \in [1..Len(s) -> Range(s)]
  BY <1>1
<1>3. s \in Bijection(1..Len(s), Range(s))
  BY <1>1, <1>2 DEF Bijection, Injection, Surjection, IsInjective
<1>4. ExistsBijection(1..Len(s), Range(s))
  BY <1>3 DEF ExistsBijection
<1>5. IsFiniteSet(Range(s))
  BY <1>1, <1>4, FS_NatBijection
<1> QED
  BY <1>1, <1>4, <1>5, FS_CountingElements

\* Who has a port's messages, when some are handed over.
LEMMA HandedHolders ==
  ASSUME QueueInv, NEW p \in Ports, NEW A, NEW to, Handed(p, A, to)
  PROVE  /\ \A i \in 1..Len(A) : A[i] \in Message /\ A[i].port = p
         /\ \A r \in Ports \ {p} : Holders(r)' = Holders(r)
         /\ Holders(p)' = Holders(p) \cup Range(to) /\ Holders(p) \cap Range(to) = {}
         /\ \A t \in Threads \ Range(to) : kmsg'[t] = kmsg[t] /\ ith_seqno'[t] = ith_seqno[t]
         /\ Range(to) = {to[i] : i \in 1..Len(to)} /\ Range(to) \subseteq Threads
         /\ Len(to) \in Nat /\ Len(A) \in Nat /\ Len(to) <= Len(A)
<1>1. /\ A \in Seq(Message) /\ to \in Seq(Threads) /\ IsInjective(to) /\ Len(to) <= Len(A)
      /\ \A i \in 1..Len(to) : kmsg[to[i]] = None /\ kmsg'[to[i]] = A[i]
      /\ \A t \in Threads \ Range(to) : kmsg'[t] = kmsg[t] /\ ith_seqno'[t] = ith_seqno[t]
      /\ \/ A = Queued(p)
         \/ \E m \in Message : m.port = p /\ A = Append(Queued(p), m)
  BY DEF Handed
<1>2. Len(to) \in Nat /\ Len(A) \in Nat
  BY <1>1
<1>3. Range(to) = {to[i] : i \in 1..Len(to)} /\ Range(to) \subseteq Threads
  BY <1>1, RangeSeq
<1>4. \A i \in 1..Len(A) : A[i] \in Message /\ A[i].port = p
  <2>1. messages[Home(p)] \in Seq(Message)
    BY HomeFacts, QueueFacts DEF QueueInv
  <2>2. Queued(p) \in Seq(Message) /\ \A m \in Range(Queued(p)) : m.port = p
    BY <2>1, OfPortFacts DEF Queued
  <2> DEFINE Q == Queued(p)
  <2> HIDE DEF Q
  <2>3. Q \in Seq(Message) /\ \A i \in 1..Len(Q) : Q[i].port = p
    BY <2>2, RangeSeq DEF Q
  <2>4. CASE A = Queued(p)
    BY <1>1, <2>3, <2>4 DEF Q
  <2>5. CASE \E m \in Message : m.port = p /\ A = Append(Queued(p), m)
    <3>1. PICK m \in Message : m.port = p /\ A = Append(Q, m)
      BY <2>5 DEF Q
    <3> QED
      BY <1>1, <2>3, <3>1
  <2> QED
    BY <1>1, <2>4, <2>5
<1>5. \A t \in Range(to) : kmsg[t] = None /\ kmsg'[t] # None /\ kmsg'[t].port = p
  <2>1. \A i \in 1..Len(to) : i \in 1..Len(A)
    BY <1>1, <1>2
  <2> QED
    BY <1>1, <1>3, <1>4, <2>1, NullAssumption
<1>6. \A r \in Ports \ {p} : Holders(r)' = Holders(r)
  BY <1>1, <1>3, <1>5 DEF Holders
<1>7. Holders(p)' = Holders(p) \cup Range(to) /\ Holders(p) \cap Range(to) = {}
  BY <1>1, <1>3, <1>5 DEF Holders
<1> QED
  BY <1>1, <1>2, <1>3, <1>4, <1>6, <1>7

\* No message is counted twice or forgotten.
LEMMA CountsStep ==
  ASSUME QueueInv, MessageStep
  PROVE  CountsMatch'
<1>0. TypeOK /\ WaitInv /\ CountsMatch /\ active \subseteq Ports
  BY DEF QueueInv, TypeOK
<1>1. /\ \A p \in active : msgcount[p] = Len(Queued(p)) + Cardinality(Holders(p))
      /\ CountsMatch' <=> \A p \in active' :
           msgcount'[p] = Len(Queued(p)') + Cardinality(Holders(p)')
  BY <1>0 DEF CountsMatch, Queued
<1>2. \A p \in Ports : Queued(p) \in Seq(Message)
  <2>1. \A p \in Ports : messages[Home(p)] \in Seq(Message)
    BY <1>0, HomeFacts, QueueFacts
  <2> QED
    BY <2>1, OfPortFacts DEF Queued
<1>3. CASE Quiet
  <2>1. /\ \A p \in Ports : Queued(p)' = Queued(p) /\ Holders(p)' = Holders(p)
        /\ msgcount' = msgcount /\ active' \subseteq active
    BY <1>3 DEF Quiet, Holders
  <2> QED
    BY <1>0, <1>1, <2>1
<1>4. CASE \E p \in Ports : \E A, to : Handed(p, A, to)
  <2>0. PICK p \in Ports : \E A, to : Handed(p, A, to)
    BY <1>4
  <2>1. PICK A, to : Handed(p, A, to)
    BY <2>0
  <2>2. /\ \A r \in Ports \ {p} : Queued(r)' = Queued(r) /\ Holders(r)' = Holders(r)
        /\ Holders(p)' = Holders(p) \cup Range(to) /\ Holders(p) \cap Range(to) = {}
        /\ Len(to) \in Nat /\ Len(A) \in Nat /\ Len(to) <= Len(A) /\ A \in Seq(Message)
        /\ to \in Seq(Threads) /\ IsInjective(to)
        /\ active' = active /\ Queued(p)' = SubSeq(A, Len(to) + 1, Len(A))
    BY <2>1, HandedHolders DEF Handed
  <2>3. \A r \in active \ {p} : msgcount'[r] = msgcount[r]
    BY <1>0, <2>1 DEF Handed, TypeOK
  <2>4. Cardinality(Holders(p)') = Cardinality(Holders(p)) + Len(to)
    <3>1. IsFiniteSet(Range(to)) /\ Cardinality(Range(to)) = Len(to)
      BY <2>2, PlacesCount
    <3>2. IsFiniteSet(Holders(p)) /\ Cardinality(Holders(p)) \in Nat
      BY HoldersFinite
    <3>3. Cardinality(Holders(p) \cup Range(to)) =
            Cardinality(Holders(p)) + Cardinality(Range(to)) - Cardinality({})
      BY <2>2, <3>1, <3>2, FS_Union
    <3> QED
      BY <2>2, <3>1, <3>2, <3>3, FS_EmptySet
  <2>5. Len(Queued(p)') = Len(A) - Len(to)
    <3> DEFINE n == Len(to)
    <3>1. n \in 0..Len(A)
      BY <2>2
    <3> HIDE DEF n
    <3>2. Len(SubSeq(A, n + 1, Len(A))) = Len(A) - n
      BY <2>2, <3>1
    <3> QED
      BY <2>2, <3>2 DEF n
  <2>6. p \in active => msgcount'[p] = msgcount[p] + (Len(A) - Len(Queued(p)))
    <3> DEFINE n == msgcount[p]
    <3>1. n \in Nat /\ Len(Queued(p)) \in Nat
      BY <1>0, <1>2 DEF TypeOK
    <3> HIDE DEF n
    <3>2. CASE A = Queued(p) /\ UNCHANGED <<sent, msgcount>>
      BY <3>1, <3>2 DEF n
    <3>3. CASE \E m \in Message : /\ A = Append(Queued(p), m)
                                  /\ msgcount' = [msgcount EXCEPT ![p] = @ + 1]
      <4>1. Len(A) = Len(Queued(p)) + 1
        BY <1>2, <3>3
      <4>2. msgcount'[p] = n + 1
        BY <1>0, <3>3 DEF TypeOK, n
      <4> QED
        BY <3>1, <4>1, <4>2 DEF n
    <3> QED
      BY <2>1, <3>2, <3>3 DEF Handed
  <2>7. \A r \in Ports : Cardinality(Holders(r)) \in Nat /\ Len(Queued(r)) \in Nat
    BY <1>2, HoldersFinite
  <2>8. ASSUME p \in active
        PROVE  msgcount'[p] = Len(Queued(p)') + Cardinality(Holders(p)')
    <3>1. msgcount[p] = Len(Queued(p)) + Cardinality(Holders(p))
      BY <1>1, <2>8
    <3> QED
      BY <2>2, <2>4, <2>5, <2>6, <2>7, <2>8, <3>1
  <2>9. ASSUME NEW r \in active, r # p
        PROVE  msgcount'[r] = Len(Queued(r)') + Cardinality(Holders(r)')
    BY <1>0, <1>1, <2>2, <2>3, <2>9
  <2> QED
    BY <1>1, <2>2, <2>8, <2>9
<1>5. CASE \E t \in Threads : Counted(t)
  <2>1. PICK t \in Threads : Counted(t)
    BY <1>5
  <2>2. /\ kmsg[t] # None /\ kmsg[t] \in Message /\ kmsg[t].port \in Ports
        /\ \A r \in Ports : Queued(r)' = Queued(r) /\ active' = active
        /\ \A r \in active : msgcount'[r] =
             IF r = kmsg[t].port THEN msgcount[r] - 1 ELSE msgcount[r]
    BY <1>0, <2>1, NamesDisjoint DEF Counted, TypeOK
  <2>3. \A r \in Ports : Holders(r)' = Holders(r) \ {t}
    BY <1>0, <2>1 DEF Counted, Holders, TypeOK
  <2>4. \A r \in Ports : t \in Holders(r) <=> r = kmsg[t].port
    BY <2>2 DEF Holders
  <2>5. ASSUME NEW r \in Ports
        PROVE  Cardinality(Holders(r)') =
                 IF r = kmsg[t].port THEN Cardinality(Holders(r)) - 1 ELSE Cardinality(Holders(r))
    <3>1. IsFiniteSet(Holders(r))
      BY HoldersFinite
    <3>2. Cardinality(Holders(r) \ {t}) =
            IF t \in Holders(r) THEN Cardinality(Holders(r)) - 1 ELSE Cardinality(Holders(r))
      BY <3>1, FS_RemoveElement
    <3> QED
      BY <2>3, <2>4, <3>2
  <2>6. ASSUME NEW r \in active
        PROVE  msgcount'[r] = Len(Queued(r)') + Cardinality(Holders(r)')
    <3>1. r \in Ports /\ Len(Queued(r)) \in Nat /\ Cardinality(Holders(r)) \in Nat
      BY <1>0, <1>2, HoldersFinite
    <3> QED
      BY <1>1, <2>2, <2>5, <3>1
  <2> QED
    BY <1>1, <2>2, <2>6
<1>6. CASE \E p \in Ports : Purged(p)
  <2>1. PICK p \in Ports : Purged(p)
    BY <1>6
  <2>2. /\ p \notin active /\ active' = active /\ msgcount' = msgcount
        /\ \A r \in Ports \ {p} : Queued(r)' = Queued(r) /\ Holders(r)' = Holders(r)
    BY <2>1 DEF Purged, Holders
  <2> QED
    BY <1>0, <1>1, <2>2
<1> QED
  BY <1>3, <1>4, <1>5, <1>6 DEF MessageStep

-----------------------------------------------------------------------------
(* Every step keeps the invariant.                                         *)

LEMMA QueueStep ==
  ASSUME QueueInv, [Next]_vars
  PROVE  TypeOK' /\ WaitInv' /\ MessageStep
<1>1. CASE UNCHANGED vars
  <2>1. TypeOK' /\ WaitInv'
    <3>1. \A q \in Queues : QueueOK(q)'
      BY <1>1 DEF QueueInv, WaitInv, QueueOK, Gone, Home, vars, queues, portvars
    <3>2. \A p \in Ports : PortOK(p)'
      BY <1>1 DEF QueueInv, WaitInv, PortOK, vars, portvars, counts
    <3>3. \A t \in Threads : ThreadOK(t)'
      BY <1>1, ThreadsAlone DEF vars, queues, counts
    <3>4. TypeOK'
      BY <1>1 DEF QueueInv, TypeOK, vars, queues, portvars, counts, call, ith
    <3> QED
      BY <3>1, <3>2, <3>3, <3>4 DEF WaitInv
  <2>2. Quiet
    BY <1>1 DEF QueueInv, TypeOK, Quiet, Queued, Home, vars, queues, portvars, counts, ith
  <2> QED
    BY <2>1, <2>2 DEF MessageStep
<1>2. CASE \E t \in Threads : ThreadStep(t)
  <2>1. PICK t \in Threads : ThreadStep(t)
    BY <1>2
  <2>2. CASE SendWoken(t)
    BY <2>2, SendWokenStep
  <2>3. CASE SendGo(t)
    BY <2>3, SendGoStep DEF MessageStep
  <2>4. CASE DestroyCircular(t)
    BY <2>4, DestroyCircularStep DEF MessageStep
  <2>5. CASE \E poll \in BOOLEAN : SendCircular(t, poll)
    BY <2>5, SendCircularStep
  <2>6. CASE ReceiveWoken(t)
    BY <2>6, ReceiveWokenStep
  <2>7. CASE ReceiveFinish(t)
    BY <2>7, FinishStep DEF MessageStep
  <2> QED
    BY <2>1, <2>2, <2>3, <2>4, <2>5, <2>6, <2>7 DEF ThreadStep
<1>3. CASE \E t \in Threads, why \in {"timed_out", "interrupted"} : ClearWait(t, why)
  BY <1>3, ClearWaitStep DEF MessageStep
<1>4. CASE \E t \in Senders, p \in Ports, sz \in {"fit", "big"}, poll \in BOOLEAN :
             ipc_mqueue_send(t, p, sz, poll)
  <2>1. Senders \subseteq Threads
    BY MsgQueueAssumption
  <2> QED
    BY <1>4, <2>1, SendStep
<1>5. CASE \E t \in Senders, p \in Ports : CopyinCircular(t, p)
  <2>1. Senders \subseteq Threads
    BY MsgQueueAssumption
  <2> QED
    BY <1>5, <2>1, CopyinStep DEF MessageStep
<1>6. CASE \E t \in Threads : mach_msg_interrupt(t)
  BY <1>6, InterruptStep DEF MessageStep
<1>7. CASE \E t \in Threads, q \in Queues : \E sz \in Buffers[t], poll \in BOOLEAN :
             ipc_mqueue_receive(t, q, sz, poll)
  BY <1>7, ReceiveStep
<1>8. CASE \E p \in Ports, sz \in {"fit", "big"} : ipc_mqueue_send_always(p, sz)
  BY <1>8, SendAlwaysStep
<1>9. CASE \E p \in Ports, s \in Psets \cup {None} : ipc_pset_move(p, s)
  BY <1>9, PsetMoveStep
<1>10. CASE \E p \in Ports, n \in QLimits : ipc_port_set_qlimit(p, n)
  BY <1>10, SetQlimitStep DEF MessageStep
<1>11. CASE \E p \in Ports : ipc_port_set_seqno(p, 0)
  BY <1>11, SetSeqnoStep DEF MessageStep
<1>12. CASE \E p \in Ports : KernelReply(p)
  BY <1>12, KernelReplyStep DEF MessageStep
<1>13. CASE \E p \in Ports : MoveReceive(p)
  BY <1>13, MoveReceiveStep DEF MessageStep
<1>14. CASE \E p \in Ports : CopyoutReceive(p)
  BY <1>14, CopyoutStep DEF MessageStep
<1>15. CASE \E p \in Ports : ipc_port_destroy(p)
  BY <1>15, PortDestroyStep DEF MessageStep
<1>16. CASE \E p \in Ports : PurgeMessage(p)
  BY <1>16, PurgeStep DEF MessageStep
<1>17. CASE \E s \in Psets : ipc_pset_destroy(s)
  BY <1>17, PsetDestroyStep DEF MessageStep
<1> QED
  BY <1>1, <1>2, <1>3, <1>4, <1>5, <1>6, <1>7, <1>8, <1>9, <1>10, <1>11, <1>12, <1>13,
     <1>14, <1>15, <1>16, <1>17 DEF Next

LEMMA QueueInit ==
  ASSUME Init
  PROVE  QueueInv
<1> USE DEF Init
<1>0. \A q : OfPort(<<>>, q) = <<>>
  <2>1. <<>> \in Seq(Message)
    OBVIOUS
  <2> QED
    BY <2>1, EmptyRange, OfPortOther
<1>1. TypeOK
  <2>1. MaxSends \in Nat /\ MaxSeqno \in Nat
    BY MsgQueueAssumption
  <2> QED
    BY <2>1 DEF TypeOK, Pcs
<1>2. \A t \in Threads : ThreadOK(t)
  BY EmptyRange, NamesDisjoint DEF ThreadOK, InQueue, IsBlocked
<1>3. \A q \in Queues : QueueOK(q)
  BY EmptyRange DEF QueueOK
<1>4. \A p \in Ports : PortOK(p)
  BY EmptyRange DEF PortOK
<1>5. CountsMatch
  <2> SUFFICES ASSUME NEW p \in active
               PROVE  msgcount[p] = Len(OfPort(messages[Home(p)], p)) + Cardinality(Holders(p))
    BY DEF CountsMatch
  <2>1. Holders(p) = {}
    BY DEF Holders
  <2>2. OfPort(messages[Home(p)], p) = <<>>
    BY <1>0, NamesDisjoint DEF Home
  <2>3. p \in Ports /\ msgcount[p] = 0
    OBVIOUS
  <2> QED
    BY <2>1, <2>2, <2>3, FS_EmptySet
<1> QED
  BY <1>1, <1>2, <1>3, <1>4, <1>5 DEF QueueInv, WaitInv

\* The parts of the invariant hold together in every state.
THEOREM QueueInvariant == Spec => []QueueInv
<1>1. QueueInv /\ [Next]_vars => QueueInv'
  BY QueueStep, CountsStep DEF QueueInv
<1> QED
  BY <1>1, QueueInit, PTL DEF Spec

\* A port's messages are in one queue, none of them while a receiver waits there,
\* and nobody waits where no message can come (ipc_mqueue_send, ipc_mqueue_move,
\* ipc_pset_add, ipc_pset_remove, ipc_port_clear_receiver).
THEOREM MessagesWhereReceiversLook == Spec => []OneQueue
<1>1. QueueInv => OneQueue
  <2> SUFFICES ASSUME QueueInv PROVE OneQueue
    OBVIOUS
  <2>1. TypeOK /\ \A q \in Queues : QueueOK(q)
    BY DEF QueueInv, WaitInv
  <2>2. ASSUME NEW q \in Queues, NEW i \in DOMAIN messages[q]
        PROVE  Home(messages[q][i].port) = q
    <3>1. messages[q][i] \in Range(messages[q])
      BY DEF Range
    <3> QED
      BY <2>1, <3>1 DEF QueueOK
  <2>3. ASSUME NEW p \in Ports, p \notin held \/ pset[p] # None PROVE threads[p] = <<>>
    <3>1. p \in Queues /\ Gone(p)
      BY <2>3, NamesDisjoint DEF Gone
    <3> QED
      BY <2>1, <3>1 DEF QueueOK
  <2> QED
    BY <2>1, <2>2, <2>3 DEF OneQueue, QueueOK
<1> QED
  BY <1>1, QueueInvariant, PTL

\* ip_msgcount is the number of the port's messages that are queued or not yet
\* counted out (ipc_mqueue_send, ipc_mqueue_move and both halves of
\* ipc_mqueue_receive).
THEOREM MessagesCounted == Spec => []CountsMatch
BY QueueInvariant, PTL DEF QueueInv

\* Every sleeper is where somebody will find it, whatever becomes of its port or
\* its set (ipc_port_destroy, ipc_pset_destroy, ipc_pset_add,
\* ipc_port_clear_receiver).
THEOREM SleepersFound == Spec => []NoSleeperForgotten
<1>1. QueueInv => NoSleeperForgotten
  <2> SUFFICES ASSUME QueueInv, NEW t \in Threads, waiting[t],
                      ~\E u \in Threads : pc[u] = "go" /\ obj[u] = t
               PROVE  \/ /\ pc[t] = "sendwait" /\ obj[t] \in active
                         /\ t \in Range(blocked[obj[t]])
                      \/ /\ pc[t] = "rcvwait" /\ ~Gone(obj[t])
                         /\ t \in Range(threads[obj[t]])
    BY DEF NoSleeperForgotten
  <2>1. ThreadOK(t)
    BY DEF QueueInv, WaitInv
  <2>2. state[t] = "in_progress" /\ pc[t] \in {"sendwait", "rcvwait"}
    BY <2>1 DEF ThreadOK, Expected
  <2>3. CASE pc[t] = "sendwait"
    <3>1. obj[t] \in Ports /\ t \in Range(blocked[obj[t]])
      BY <2>1, <2>2, <2>3 DEF ThreadOK, IsBlocked
    <3> QED
      BY <2>3, <3>1, QueueFacts, EmptyRange
  <2>4. CASE pc[t] = "rcvwait"
    <3>1. obj[t] \in Queues /\ t \in Range(threads[obj[t]])
      BY <2>1, <2>2, <2>4 DEF ThreadOK, InQueue
    <3> QED
      BY <2>4, <3>1, QueueFacts, EmptyRange
  <2> QED
    BY <2>2, <2>3, <2>4
<1> QED
  BY <1>1, QueueInvariant, PTL

-----------------------------------------------------------------------------
(* Messages leave in the order in which they were accepted.                *)

\* A hand-over: those who have messages have older ones than the queue has.
LEMMA HandedOrder ==
  ASSUME QueueInv, NEW p \in Ports, OrderOK(p), NEW A, NEW to, Handed(p, A, to)
  PROVE  OrderOK(p)'
<1> DEFINE Q == Queued(p)
           n == Len(to)
           H == Holders(p)
<1>0. TypeOK
  BY DEF QueueInv
<1>1. /\ \A i \in 1..Len(A) : A[i] \in Message /\ A[i].port = p
      /\ Holders(p)' = H \cup Range(to) /\ H \cap Range(to) = {}
      /\ \A t \in Threads \ Range(to) : kmsg'[t] = kmsg[t] /\ ith_seqno'[t] = ith_seqno[t]
      /\ Range(to) = {to[i] : i \in 1..n} /\ Range(to) \subseteq Threads
      /\ n \in Nat /\ Len(A) \in Nat /\ n <= Len(A)
  BY HandedHolders
<1>2. /\ \A i, j \in DOMAIN Q : i < j => Q[i].num < Q[j].num
      /\ \A i \in DOMAIN Q : Q[i].num <= sent[p]
      /\ \A t \in H : kmsg[t].num <= sent[p] /\ \A i \in DOMAIN Q : kmsg[t].num < Q[i].num
      /\ p \notin renumbered =>
           /\ \A t \in H : ith_seqno[t] < seqno[p]
           /\ \A t, u \in H : kmsg[t].num < kmsg[u].num => ith_seqno[t] < ith_seqno[u]
  BY DEF OrderOK
<1>3. /\ Q \in Seq(Message) /\ A \in Seq(Message)
      /\ \A i \in 1..n : kmsg'[to[i]] = A[i] /\ ith_seqno'[to[i]] = seqno[p] + i - 1
      /\ seqno' = [seqno EXCEPT ![p] = @ + n] /\ renumbered' = renumbered
      /\ Queued(p)' = SubSeq(A, n + 1, Len(A))
      /\ \/ A = Q /\ sent' = sent
         \/ \E m \in Message : /\ m.num = sent[p] + 1 /\ A = Append(Q, m)
                               /\ sent' = [sent EXCEPT ![p] = @ + 1]
  <2>1. messages[Home(p)] \in Seq(Message)
    BY HomeFacts, QueueFacts DEF QueueInv
  <2>2. Q \in Seq(Message)
    BY <2>1, OfPortFacts DEF Queued
  <2> QED
    BY <2>2 DEF Handed
<1> HIDE DEF Q, n, H
<1>4. /\ H \subseteq Threads /\ \A t \in H : kmsg[t] \in Message /\ kmsg[t].num \in Nat
      /\ sent[p] \in Nat /\ sent'[p] \in Nat /\ sent[p] <= sent'[p]
      /\ \A i \in 1..Len(A) : A[i].num \in Nat
      /\ seqno[p] \in Nat /\ seqno'[p] = seqno[p] + n
      /\ \A t \in Threads : ith_seqno[t] \in Nat
  <2>1. \A m \in Message : m.num \in Nat
    BY NamesDisjoint
  <2>2. MaxSends \in Nat /\ MaxSeqno \in Nat
    BY MsgQueueAssumption
  <2>3. H \subseteq Threads /\ \A t \in H : kmsg[t] \in Message
    BY <1>0 DEF H, Holders, TypeOK
  <2>4. sent[p] \in Nat /\ sent'[p] \in Nat /\ sent[p] <= sent'[p]
    BY <1>0, <1>3, <2>2 DEF TypeOK
  <2>5. seqno[p] \in Nat /\ seqno'[p] = seqno[p] + n
    BY <1>0, <1>1, <1>3, <2>2 DEF TypeOK
  <2>6. \A t \in Threads : ith_seqno[t] \in Nat
    BY <1>0, <2>2 DEF TypeOK
  <2> QED
    BY <1>1, <2>1, <2>3, <2>4, <2>5, <2>6
<1>5. /\ \A i, j \in 1..Len(A) : i < j => A[i].num < A[j].num
      /\ \A i \in 1..Len(A) : A[i].num <= sent'[p]
      /\ \A t \in H : kmsg[t].num <= sent'[p] /\ \A i \in 1..Len(A) : kmsg[t].num < A[i].num
  <2>1. Len(Q) \in Nat /\ DOMAIN Q = 1..Len(Q) /\ \A i \in 1..Len(Q) : Q[i].num \in Nat
    <3>1. \A i \in 1..Len(Q) : Q[i] \in Message
      BY <1>3
    <3> QED
      BY <1>3, <3>1, NamesDisjoint
  <2>2. CASE A = Q /\ sent' = sent
    BY <1>2, <1>4, <2>1, <2>2
  <2>3. CASE \E m \in Message : /\ m.num = sent[p] + 1 /\ A = Append(Q, m)
                                /\ sent' = [sent EXCEPT ![p] = @ + 1]
    <3>1. PICK m \in Message : /\ m.num = sent[p] + 1 /\ A = Append(Q, m)
                               /\ sent' = [sent EXCEPT ![p] = @ + 1]
      BY <2>3
    <3>2. sent'[p] = sent[p] + 1
      BY <1>0, <3>1 DEF TypeOK
    <3>3. /\ Len(A) = Len(Q) + 1 /\ A[Len(Q) + 1] = m
          /\ \A i \in 1..Len(Q) : A[i] = Q[i]
      BY <1>3, <3>1
    <3>4. \A i \in 1..Len(A) : i \in 1..Len(Q) \/ i = Len(Q) + 1
      BY <2>1, <3>3
    <3>5. \A i, j \in 1..Len(A) : i < j => A[i].num < A[j].num
      <4> SUFFICES ASSUME NEW i \in 1..Len(A), NEW j \in 1..Len(A), i < j
                   PROVE  A[i].num < A[j].num
        OBVIOUS
      <4>1. i \in 1..Len(Q)
        BY <2>1, <3>3
      <4>2. CASE j \in 1..Len(Q)
        BY <1>2, <2>1, <3>3, <4>1, <4>2
      <4>3. CASE j = Len(Q) + 1
        <5>1. A[i].num <= sent[p] /\ A[i].num \in Nat
          BY <1>2, <2>1, <3>3, <4>1
        <5> QED
          BY <1>4, <3>1, <3>3, <4>3, <5>1
      <4> QED
        BY <3>4, <4>2, <4>3
    <3>6. \A i \in 1..Len(A) : A[i].num <= sent'[p]
      BY <1>2, <1>4, <2>1, <3>1, <3>2, <3>3, <3>4
    <3>7. ASSUME NEW t \in H, NEW i \in 1..Len(A) PROVE kmsg[t].num < A[i].num
      BY <1>2, <1>4, <2>1, <3>1, <3>3, <3>4
    <3>8. \A t \in H : kmsg[t].num <= sent'[p]
      BY <1>2, <1>4, <3>2
    <3> QED
      BY <3>5, <3>6, <3>7, <3>8
  <2> QED
    BY <1>3, <2>2, <2>3
<1> DEFINE W == SubSeq(A, n + 1, Len(A))
<1>6. /\ DOMAIN W = 1..(Len(A) - n)
      /\ \A i \in 1..(Len(A) - n) : W[i] = A[n + i] /\ n + i \in 1..Len(A)
  BY <1>1, <1>3
<1>7. Queued(p)' = W
  BY <1>3
<1> HIDE DEF W
<1>8. \A t \in H : t \notin Range(to) /\ kmsg'[t] = kmsg[t] /\ ith_seqno'[t] = ith_seqno[t]
  BY <1>1, <1>4
<1>9. \A t \in Holders(p)' : t \in H \/ \E i \in 1..n : t = to[i]
  BY <1>1
<1>10. \A i \in 1..n : i \in 1..Len(A)
  BY <1>1
<1>11. /\ \A i, j \in DOMAIN W : i < j => W[i].num < W[j].num
       /\ \A i \in DOMAIN W : W[i].num <= sent'[p]
  <2>1. \A i, j \in DOMAIN W : i < j => n + i < n + j
    BY <1>1, <1>6
  <2> QED
    BY <1>5, <1>6, <2>1
<1>12. ASSUME NEW t \in Holders(p)'
       PROVE  kmsg'[t].num <= sent'[p] /\ \A i \in DOMAIN W : kmsg'[t].num < W[i].num
  <2>1. CASE t \in H
    BY <1>5, <1>6, <1>8, <2>1
  <2>2. CASE \E i \in 1..n : t = to[i]
    <3>1. PICK i \in 1..n : t = to[i]
      BY <2>2
    <3>2. kmsg'[t] = A[i] /\ i \in 1..Len(A)
      BY <1>3, <1>10, <3>1
    <3>3. \A j \in DOMAIN W : i < n + j
      BY <1>1, <1>6
    <3> QED
      BY <1>5, <1>6, <3>2, <3>3
  <2> QED
    BY <1>9, <2>1, <2>2
<1>13. ASSUME p \notin renumbered', NEW t \in Holders(p)' PROVE ith_seqno'[t] < seqno'[p]
  <2>1. CASE t \in H
    <3>1. ith_seqno[t] < seqno[p] /\ ith_seqno[t] \in Nat /\ ith_seqno'[t] = ith_seqno[t]
      BY <1>2, <1>3, <1>4, <1>8, <1>13, <2>1
    <3> QED
      BY <1>1, <1>4, <3>1
  <2>2. CASE \E i \in 1..n : t = to[i]
    BY <1>1, <1>3, <1>4, <2>2
  <2> QED
    BY <1>9, <2>1, <2>2
<1>14. ASSUME p \notin renumbered', NEW t \in Holders(p)', NEW u \in Holders(p)',
              kmsg'[t].num < kmsg'[u].num
       PROVE  ith_seqno'[t] < ith_seqno'[u]
  <2>1. CASE t \in H /\ u \in H
    BY <1>2, <1>3, <1>8, <1>14, <2>1
  <2>2. CASE t \in H /\ \E i \in 1..n : u = to[i]
    <3>1. ith_seqno[t] < seqno[p] /\ ith_seqno[t] \in Nat /\ ith_seqno'[t] = ith_seqno[t]
      BY <1>2, <1>3, <1>4, <1>8, <1>14, <2>2
    <3>2. PICK i \in 1..n : u = to[i]
      BY <2>2
    <3>3. ith_seqno'[u] = seqno[p] + i - 1
      BY <1>3, <3>2
    <3> QED
      BY <1>1, <1>4, <3>1, <3>3
  <2>3. CASE (\E i \in 1..n : t = to[i]) /\ u \in H
    <3>1. PICK i \in 1..n : t = to[i]
      BY <2>3
    <3>2. kmsg'[t] = A[i] /\ i \in 1..Len(A) /\ kmsg'[u] = kmsg[u]
      BY <1>3, <1>8, <1>10, <2>3, <3>1
    <3>3. kmsg[u].num < A[i].num /\ kmsg[u].num \in Nat /\ A[i].num \in Nat
      BY <1>4, <1>5, <2>3, <3>2
    <3>4. A[i].num < kmsg[u].num
      BY <1>14, <3>2
    <3> QED
      BY <3>3, <3>4
  <2>4. CASE (\E i \in 1..n : t = to[i]) /\ \E j \in 1..n : u = to[j]
    <3>1. PICK i \in 1..n : t = to[i]
      BY <2>4
    <3>2. PICK j \in 1..n : u = to[j]
      BY <2>4
    <3>3. /\ kmsg'[t] = A[i] /\ i \in 1..Len(A) /\ kmsg'[u] = A[j] /\ j \in 1..Len(A)
          /\ ith_seqno'[t] = seqno[p] + i - 1 /\ ith_seqno'[u] = seqno[p] + j - 1
      BY <1>3, <1>10, <3>1, <3>2
    <3>4. ~(j < i) /\ j # i
      BY <1>4, <1>5, <1>14, <3>3
    <3> QED
      BY <1>1, <1>4, <3>3, <3>4
  <2> QED
    BY <1>9, <2>1, <2>2, <2>3, <2>4
<1> QED
  BY <1>7, <1>11, <1>12, <1>13, <1>14 DEF OrderOK

\* Nothing joins the queue of port p, and nobody is given one of its messages.
LessOf(p) ==
  /\ \/ Queued(p)' = Queued(p)
     \/ Queued(p) # <<>> /\ Queued(p)' = Tail(Queued(p))
  /\ \A t \in Holders(p)' :
       t \in Holders(p) /\ kmsg'[t] = kmsg[t] /\ ith_seqno'[t] = ith_seqno[t]
  /\ sent'[p] = sent[p]
  /\ p \notin renumbered' => p \notin renumbered /\ seqno[p] <= seqno'[p]

LEMMA OrderKept ==
  ASSUME QueueInv, TypeOK', NEW p \in Ports, OrderOK(p), LessOf(p)
  PROVE  OrderOK(p)'
<1> DEFINE Q == Queued(p)
           W == Queued(p)'
<1>0. /\ Q = W \/ (Q # <<>> /\ W = Tail(Q))
      /\ \A t \in Holders(p)' :
           t \in Holders(p) /\ kmsg'[t] = kmsg[t] /\ ith_seqno'[t] = ith_seqno[t]
      /\ sent'[p] = sent[p]
      /\ p \notin renumbered' => p \notin renumbered /\ seqno[p] <= seqno'[p]
  BY DEF LessOf
<1>1. /\ \A i, j \in DOMAIN Q : i < j => Q[i].num < Q[j].num
      /\ \A i \in DOMAIN Q : Q[i].num <= sent[p]
      /\ \A t \in Holders(p) :
           kmsg[t].num <= sent[p] /\ \A i \in DOMAIN Q : kmsg[t].num < Q[i].num
      /\ p \notin renumbered =>
           /\ \A t \in Holders(p) : ith_seqno[t] < seqno[p]
           /\ \A t, u \in Holders(p) : kmsg[t].num < kmsg[u].num => ith_seqno[t] < ith_seqno[u]
  BY DEF OrderOK
<1>2. Q \in Seq(Message)
  <2>1. messages[Home(p)] \in Seq(Message)
    BY HomeFacts, QueueFacts DEF QueueInv
  <2> QED
    BY <2>1, OfPortFacts DEF Queued
<1> HIDE DEF Q, W
<1>3. /\ \A i, j \in DOMAIN W : i < j => W[i].num < W[j].num
      /\ \A i \in DOMAIN W : \E j \in DOMAIN Q : W[i] = Q[j]
  <2>1. CASE W = Q
    BY <1>1, <2>1
  <2>2. CASE Q # <<>> /\ W = Tail(Q)
    <3>1. /\ Len(Q) \in Nat /\ DOMAIN Q = 1..Len(Q) /\ DOMAIN W = 1..(Len(Q) - 1)
          /\ \A i \in 1..(Len(Q) - 1) : W[i] = Q[i + 1]
      BY <1>2, <2>2
    <3>2. \A i \in DOMAIN W : i + 1 \in DOMAIN Q
      BY <3>1
    <3>3. \A i, j \in DOMAIN W : i < j => i + 1 < j + 1
      BY <3>1
    <3> QED
      BY <1>1, <3>1, <3>2, <3>3
  <2> QED
    BY <1>0, <2>1, <2>2
<1>4. /\ seqno[p] \in Nat /\ seqno'[p] \in Nat /\ \A t \in Threads : ith_seqno[t] \in Nat
  <2>1. TypeOK /\ MaxSeqno \in Nat
    BY MsgQueueAssumption DEF QueueInv
  <2> QED
    BY <2>1 DEF TypeOK
<1>5. \A t \in Holders(p)' : p \notin renumbered' => ith_seqno'[t] < seqno'[p]
  <2> SUFFICES ASSUME NEW t \in Holders(p)', p \notin renumbered'
               PROVE  ith_seqno'[t] < seqno'[p]
    OBVIOUS
  <2>1. ith_seqno'[t] < seqno[p] /\ ith_seqno'[t] \in Nat /\ seqno[p] <= seqno'[p]
    BY <1>0, <1>1, <1>4 DEF Holders
  <2> QED
    BY <1>4, <2>1
<1>6. \A t \in Holders(p)' : /\ kmsg'[t].num <= sent'[p]
                             /\ \A i \in DOMAIN W : kmsg'[t].num < W[i].num
  BY <1>0, <1>1, <1>3
<1>7. /\ \A i \in DOMAIN W : W[i].num <= sent'[p]
      /\ p \notin renumbered' => \A t, u \in Holders(p)' :
           kmsg'[t].num < kmsg'[u].num => ith_seqno'[t] < ith_seqno'[u]
  BY <1>0, <1>1, <1>3
<1> QED
  BY <1>3, <1>5, <1>6, <1>7 DEF OrderOK, W

LEMMA OrderStep ==
  ASSUME QueueInv, MessageStep, TypeOK', \A p \in Ports : OrderOK(p)
  PROVE  \A p \in Ports : OrderOK(p)'
<1>0. /\ TypeOK /\ \A p \in Ports : seqno[p] \in Nat
  BY MsgQueueAssumption DEF QueueInv, TypeOK
<1>1. CASE Quiet
  <2>1. \A p \in Ports : LessOf(p)
    BY <1>1 DEF Quiet, LessOf, Holders
  <2> QED
    BY <2>1, OrderKept
<1>2. CASE \E p \in Ports : \E A, to : Handed(p, A, to)
  <2>0. PICK p \in Ports : \E A, to : Handed(p, A, to)
    BY <1>2
  <2>1. PICK A, to : Handed(p, A, to)
    BY <2>0
  <2>2. OrderOK(p)'
    BY <2>1, HandedOrder
  <2>3. ASSUME NEW r \in Ports \ {p} PROVE LessOf(r)
    <3>1. /\ Holders(r)' = Holders(r)
          /\ \A t \in Threads \ Range(to) : kmsg'[t] = kmsg[t] /\ ith_seqno'[t] = ith_seqno[t]
          /\ \A t \in Range(to) : t \in Holders(p)'
      BY <2>1, HandedHolders
    <3>2. \A t \in Holders(r)' : t \in Threads /\ t \notin Holders(p)'
      BY DEF Holders
    <3>3. /\ Queued(r)' = Queued(r) /\ sent'[r] = sent[r] /\ seqno'[r] = seqno[r]
          /\ renumbered' = renumbered
      BY <1>0, <2>1 DEF Handed, TypeOK
    <3>4. \A t \in Holders(r)' :
            t \in Holders(r) /\ kmsg'[t] = kmsg[t] /\ ith_seqno'[t] = ith_seqno[t]
      <4>1. \A t \in Holders(r)' : t \in Threads \ Range(to)
        BY <3>1, <3>2
      <4> QED
        BY <3>1, <4>1
    <3>5. seqno[r] <= seqno'[r]
      BY <1>0, <3>3
    <3> QED
      BY <3>3, <3>4, <3>5 DEF LessOf
  <2> QED
    BY <2>2, <2>3, OrderKept
<1>3. CASE \E t \in Threads : Counted(t)
  <2>1. PICK t \in Threads : Counted(t)
    BY <1>3
  <2>2. /\ kmsg'[t] = None /\ \A u \in Threads \ {t} : kmsg'[u] = kmsg[u]
        /\ \A u \in Threads \ {t} : ith_seqno'[u] = ith_seqno[u]
        /\ sent' = sent /\ seqno' = seqno /\ renumbered' = renumbered
        /\ \A p \in Ports : Queued(p)' = Queued(p)
    BY <1>0, <2>1 DEF Counted, TypeOK
  <2>3. \A p \in Ports : LessOf(p)
    BY <1>0, <2>2 DEF LessOf, Holders
  <2> QED
    BY <2>3, OrderKept
<1>4. CASE \E p \in Ports : Purged(p)
  <2>1. \A p \in Ports : LessOf(p)
    BY <1>0, <1>4 DEF Purged, LessOf, Holders
  <2> QED
    BY <2>1, OrderKept
<1> QED
  BY <1>1, <1>2, <1>3, <1>4 DEF MessageStep

\* The messages of a port are numbered as it accepted them; those that threads
\* have are older than those in the queue.
MessageOrder == \A p \in Ports : OrderOK(p)

LEMMA OrderInvariant == Spec => []MessageOrder
<1>1. Init => MessageOrder
  <2> SUFFICES ASSUME Init, NEW p \in Ports PROVE OrderOK(p)
    BY DEF MessageOrder
  <2>1. Holders(p) = {}
    BY DEF Init, Holders
  <2>2. Queued(p) = <<>>
    <3>1. <<>> \in Seq(Message)
      OBVIOUS
    <3>2. OfPort(<<>>, p) = <<>>
      BY <3>1, EmptyRange, OfPortOther
    <3> QED
      BY <3>2, NamesDisjoint DEF Init, Queued, Home
  <2>3. DOMAIN Queued(p) = {}
    BY <2>2
  <2> QED
    BY <2>1, <2>3 DEF OrderOK
<1>2. QueueInv /\ MessageOrder /\ [Next]_vars => MessageOrder'
  BY QueueStep, OrderStep DEF MessageOrder
<1> QED
  BY <1>1, <1>2, QueueInvariant, PTL DEF Spec

\* The sequence numbers of the messages in the hands of several threads show the
\* order in which the port accepted them (ipc_mqueue_send, ipc_mqueue_move and
\* ipc_mqueue_receive), until somebody renumbers the port.
THEOREM NumbersInOrder == Spec => []SeqnoOrder
<1>1. TypeOK /\ MessageOrder => SeqnoOrder
  <2> SUFFICES ASSUME TypeOK, MessageOrder, NEW t \in Threads, NEW u \in Threads,
                      kmsg[t] # None, kmsg[u] # None, kmsg[t].port = kmsg[u].port,
                      kmsg[t].port \notin renumbered, kmsg[t].num < kmsg[u].num
               PROVE  ith_seqno[t] < ith_seqno[u]
    BY DEF SeqnoOrder
  <2>1. kmsg[t].port \in Ports
    BY NamesDisjoint DEF TypeOK
  <2>2. t \in Holders(kmsg[t].port) /\ u \in Holders(kmsg[t].port)
    BY DEF Holders
  <2> QED
    BY <2>1, <2>2 DEF MessageOrder, OrderOK
<1> QED
  BY <1>1, QueueInvariant, OrderInvariant, PTL DEF QueueInv

-----------------------------------------------------------------------------
(* The queues implement one queue for each port.                           *)

\* What the abstract queue of a port is.
queueOf == [p \in Ports |-> Queued(p)]

LEMMA QueueOfNext ==
  /\ \A p \in Ports : queueOf[p] = Queued(p) /\ queueOf'[p] = Queued(p)'
  /\ queueOf = [p \in Ports |-> OfPort(messages[Home(p)], p)]
  /\ (\A p \in Ports : Queued(p)' = Queued(p)) => queueOf' = queueOf
  /\ \A p \in Ports : \A s :
       /\ Queued(p)' = s
       /\ \A r \in Ports \ {p} : Queued(r)' = Queued(r)
       => queueOf' = [queueOf EXCEPT ![p] = s]
  /\ \A p \in Ports : [queueOf EXCEPT ![p] = Queued(p)] = queueOf
BY DEF queueOf, Queued

LEMMA QuietAbstract ==
  ASSUME Quiet, QueueInv
  PROVE  [Abstract!Next]_(Abstract!avars)
<1>1. queueOf' = queueOf /\ kmsg' = kmsg /\ active \subseteq Ports
  BY QueueOfNext DEF Quiet, QueueInv, TypeOK
<1>2. CASE active' = active
  BY <1>1, <1>2 DEF Abstract!avars, queueOf, Queued
<1>3. CASE \E p \in active : active' = active \ {p}
  <2>1. \E p \in Ports : Abstract!Die(p)
    BY <1>1, <1>3 DEF Abstract!Die, queueOf, Queued
  <2> QED
    BY <2>1 DEF Abstract!Next
<1> QED
  BY <1>2, <1>3 DEF Quiet

LEMMA CountedAbstract ==
  ASSUME QueueInv, NEW t \in Threads, Counted(t)
  PROVE  Abstract!Next
<1>1. /\ queueOf' = queueOf /\ kmsg' = [kmsg EXCEPT ![t] = None] /\ kmsg[t] # None
      /\ active' = active
  BY QueueOfNext DEF Counted
<1>2. Abstract!Return(t)
  BY <1>1 DEF Abstract!Return, queueOf, Queued
<1> QED
  BY <1>2 DEF Abstract!Next

LEMMA PurgedAbstract ==
  ASSUME QueueInv, NEW p \in Ports, Purged(p)
  PROVE  Abstract!Next
<1>1. /\ p \notin active /\ queueOf[p] # <<>> /\ queueOf' = [queueOf EXCEPT ![p] = Tail(@)]
      /\ kmsg' = kmsg /\ active' = active
  BY QueueOfNext DEF Purged
<1>2. Abstract!Discard(p)
  BY <1>1 DEF Abstract!Discard, queueOf, Queued
<1> QED
  BY <1>2 DEF Abstract!Next

\* Messages that were queued go to waiting threads.
LEMMA GivenAbstract ==
  ASSUME QueueInv, TypeOK', NEW p \in Ports, NEW to, Handed(p, Queued(p), to)
  PROVE  [Abstract!Next]_(Abstract!avars)
<1> DEFINE Q == Queued(p)
           k == Len(to)
<1>1. /\ Q \in Seq(Message) /\ to \in Seq(Threads) /\ IsInjective(to)
      /\ queueOf' = [queueOf EXCEPT ![p] = SubSeq(Q, k + 1, Len(Q))]
      /\ \A i \in 1..k : kmsg[to[i]] = None /\ kmsg'[to[i]] = Q[i]
      /\ \A t \in Threads \ Range(to) : kmsg'[t] = kmsg[t]
      /\ active' = active /\ k <= Len(Q)
  BY QueueOfNext DEF Handed
<1>2. /\ k \in Nat /\ Len(Q) \in Nat /\ Range(to) = {to[i] : i \in 1..k} /\ DOMAIN to = 1..k
      /\ \A i \in 1..k : to[i] \in Threads
  BY <1>1, RangeSeq
<1>3. queueOf[p] = Q /\ queueOf = [r \in Ports |-> OfPort(messages[Home(r)], r)]
  BY QueueOfNext
<1>4. kmsg \in [Threads -> Message \cup {None}] /\ kmsg' \in [Threads -> Message \cup {None}]
  BY DEF QueueInv, TypeOK
<1> HIDE DEF Q, k
<1>5. CASE k = 0
  <2>1. SubSeq(Q, 1, Len(Q)) = Q
    BY <1>1
  <2>2. queueOf' = queueOf
    <3>1. SubSeq(Q, k + 1, Len(Q)) = Q
      BY <1>5, <2>1
    <3>2. queueOf' = [queueOf EXCEPT ![p] = Q]
      BY <1>1, <3>1, Zenon
    <3> QED
      BY <3>2, QueueOfNext, Zenon DEF Q
  <2>3. Range(to) = {}
    BY <1>2, <1>5
  <2>4. kmsg' = kmsg
    BY <1>1, <1>4, <2>3
  <2> QED
    BY <1>1, <2>2, <2>4 DEF Abstract!avars, queueOf, Queued
<1>6. CASE k # 0
  <2>1. k \in 1..Len(Q)
    BY <1>1, <1>2, <1>6
  <2>2. to \in [1..k -> {t \in Threads : kmsg[t] = None}]
    BY <1>1, <1>2
  <2>3. \A i, j \in 1..k : to[i] = to[j] => i = j
    BY <1>1, <1>2 DEF IsInjective
  <2>4. ASSUME NEW t \in Threads
        PROVE  kmsg'[t] = IF \E i \in 1..k : to[i] = t
                          THEN Q[CHOOSE i \in 1..k : to[i] = t] ELSE kmsg[t]
    <3>1. CASE \E i \in 1..k : to[i] = t
      <4>1. PICK i \in 1..k : to[i] = t
        BY <3>1
      <4>2. \A j \in 1..k : to[j] = t <=> j = i
        BY <2>3, <4>1
      <4>3. (CHOOSE j \in 1..k : to[j] = t) = i
        BY <4>1, <4>2
      <4> QED
        BY <1>1, <4>1, <4>3
    <3>2. CASE ~\E i \in 1..k : to[i] = t
      BY <1>1, <1>2, <3>2
    <3> QED
      BY <3>1, <3>2
  <2>5. kmsg' = [t \in Threads |->
                   IF \E i \in 1..k : to[i] = t
                   THEN Q[CHOOSE i \in 1..k : to[i] = t] ELSE kmsg[t]]
    BY <1>4, <2>4
  <2>6. queueOf' = [queueOf EXCEPT ![p] = SubSeq(@, k + 1, Len(@))]
    BY <1>1, <1>3 DEF queueOf
  <2>7. Abstract!Give(p, k)
    <3>1. \E f \in [1..k -> {t \in Threads : kmsg[t] = None}] :
            /\ \A i, j \in 1..k : f[i] = f[j] => i = j
            /\ kmsg' = [t \in Threads |->
                          IF \E i \in 1..k : f[i] = t
                          THEN queueOf[p][CHOOSE i \in 1..k : f[i] = t] ELSE kmsg[t]]
      <4>1. kmsg' = [t \in Threads |->
                       IF \E i \in 1..k : to[i] = t
                       THEN queueOf[p][CHOOSE i \in 1..k : to[i] = t] ELSE kmsg[t]]
        BY <1>3, <2>5
      <4> QED
        BY <2>2, <2>3, <4>1, Zenon
    <3> QED
      BY <1>1, <2>6, <3>1, Zenon DEF Abstract!Give, queueOf, Queued
  <2>8. Abstract!Receive(p)
    <3>1. k \in 1..Len(queueOf[p])
      BY <1>3, <2>1
    <3> QED
      BY <2>7, <3>1 DEF Abstract!Receive, queueOf, Queued
  <2> QED
    BY <2>8 DEF Abstract!Next
<1> QED
  BY <1>5, <1>6

\* A new message joins the queue, or goes to a thread at once.
LEMMA AcceptedAbstract ==
  ASSUME QueueInv, TypeOK', NEW p \in Ports, NEW m \in Message, NEW to, p \in active,
         Handed(p, Append(Queued(p), m), to), to = <<>> \/ Queued(p) = <<>>
  PROVE  Abstract!Next
<1> DEFINE Q == Queued(p)
           A == Append(Q, m)
           k == Len(to)
<1>1. /\ A \in Seq(Message) /\ to \in Seq(Threads)
      /\ queueOf' = [queueOf EXCEPT ![p] = SubSeq(A, k + 1, Len(A))]
      /\ \A i \in 1..k : kmsg[to[i]] = None /\ kmsg'[to[i]] = A[i]
      /\ \A t \in Threads \ Range(to) : kmsg'[t] = kmsg[t]
      /\ active' = active /\ k <= Len(A)
  BY QueueOfNext DEF Handed
<1>2. /\ k \in Nat /\ Range(to) = {to[i] : i \in 1..k}
      /\ \A i \in 1..k : to[i] \in Threads
  BY <1>1, RangeSeq
<1>3. queueOf[p] = Q /\ queueOf = [r \in Ports |-> OfPort(messages[Home(r)], r)]
  BY QueueOfNext
<1>4. kmsg \in [Threads -> Message \cup {None}] /\ kmsg' \in [Threads -> Message \cup {None}]
  BY DEF QueueInv, TypeOK
<1> HIDE DEF Q, k
<1>5. CASE to = <<>>
  <2>1. SubSeq(A, 1, Len(A)) = A
    <3> HIDE DEF A
    <3> QED
      BY <1>1
  <2>2. k = 0
    BY <1>5 DEF k
  <2>3. queueOf' = [queueOf EXCEPT ![p] = Append(@, m)]
    <3>1. A = Append(queueOf[p], m)
      BY <1>3
    <3> HIDE DEF A
    <3>2. SubSeq(A, k + 1, Len(A)) = A
      BY <2>1, <2>2
    <3>3. queueOf' = [queueOf EXCEPT ![p] = A]
      BY <1>1, <3>2, Zenon
    <3> QED
      BY <3>1, <3>3, Zenon
  <2>4. kmsg' = kmsg
    <3>1. Range(to) = {}
      BY <1>5, EmptyRange
    <3> QED
      BY <1>1, <1>4, <3>1
  <2>5. Abstract!Accept(p)
    BY <1>1, <2>3, <2>4 DEF Abstract!Accept, queueOf, Queued
  <2> QED
    BY <2>5 DEF Abstract!Next
<1>6. CASE to # <<>>
  <2>1. Q = <<>> /\ A = <<m>>
    <3>1. Q = <<>>
      BY <1>6 DEF Q
    <3>2. Append(<<>>, m) = <<m>>
      OBVIOUS
    <3> QED
      BY <3>1, <3>2
  <2> HIDE DEF A
  <2>2. Len(A) = 1 /\ A[1] = m /\ SubSeq(A, 2, Len(A)) = <<>>
    BY <2>1
  <2>3. k = 1
    <3>1. Len(to) \in Nat /\ Len(to) # 0
      BY <1>1, <1>6
    <3>2. k \in Nat /\ k # 0 /\ k <= 1
      BY <1>1, <2>2, <3>1 DEF k
    <3> QED
      BY <3>2
  <2>4. queueOf' = queueOf
    <3>1. SubSeq(A, k + 1, Len(A)) = Q
      BY <2>1, <2>2, <2>3
    <3>2. queueOf' = [queueOf EXCEPT ![p] = Q]
      BY <1>1, <3>1, Zenon
    <3> QED
      BY <3>2, QueueOfNext, Zenon DEF Q
  <2>5. /\ to[1] \in Threads /\ kmsg[to[1]] = None /\ kmsg'[to[1]] = m /\ Range(to) = {to[1]}
    BY <1>1, <1>2, <2>2, <2>3
  <2>6. kmsg' = [kmsg EXCEPT ![to[1]] = m]
    BY <1>1, <1>4, <2>5
  <2>7. Abstract!Pass(p)
    BY <1>1, <1>3, <2>1, <2>4, <2>5, <2>6 DEF Abstract!Pass, queueOf, Queued
  <2> QED
    BY <2>7 DEF Abstract!Next
<1> QED
  BY <1>5, <1>6

\* Message queues, port sets and the matching of messages with receivers are, for
\* each port, one queue that loses nothing and keeps its order (ipc_mqueue_send,
\* ipc_mqueue_receive, ipc_mqueue_move, ipc_port_destroy).
THEOREM OneFifoEach == Spec => ImplementsFifo
<1>1. ASSUME Init PROVE Abstract!Init
  <2>1. QueueInv
    BY <1>1, QueueInit
  <2>2. <<>> \in Seq(Message)
    OBVIOUS
  <2>3. \A p \in Ports : OfPort(<<>>, p) = <<>>
    BY <2>2, EmptyRange, OfPortOther
  <2>4. \A p \in Ports : OfPort(messages[Home(p)], p) = <<>>
    BY <1>1, <2>3, NamesDisjoint DEF Init, Home
  <2> QED
    BY <1>1, <2>4 DEF Abstract!Init, Init
<1>2. ASSUME QueueInv, [Next]_vars PROVE [Abstract!Next]_(Abstract!avars)
  <2>1. TypeOK' /\ MessageStep
    BY <1>2, QueueStep
  <2>2. CASE Quiet
    BY <1>2, <2>2, QuietAbstract
  <2>3. CASE \E p \in Ports : \E A, to : Handed(p, A, to)
    <3>0. PICK p \in Ports : \E A, to : Handed(p, A, to)
      BY <2>3
    <3>1. PICK A, to : Handed(p, A, to)
      BY <3>0
    <3>2. CASE A = Queued(p)
      BY <1>2, <2>1, <3>1, <3>2, GivenAbstract
    <3>3. CASE \E m \in Message : /\ p \in active /\ A = Append(Queued(p), m)
                                  /\ to = <<>> \/ Queued(p) = <<>>
      BY <1>2, <2>1, <3>1, <3>3, AcceptedAbstract
    <3> QED
      BY <3>1, <3>2, <3>3 DEF Handed
  <2>4. CASE \E t \in Threads : Counted(t)
    BY <1>2, <2>4, CountedAbstract
  <2>5. CASE \E p \in Ports : Purged(p)
    BY <1>2, <2>5, PurgedAbstract
  <2> QED
    BY <2>1, <2>2, <2>3, <2>4, <2>5 DEF MessageStep
<1> QED
  BY <1>1, <1>2, QueueInvariant, PTL DEF Spec, ImplementsFifo, Abstract!Spec

-----------------------------------------------------------------------------
(* No free place is lost while senders sleep.                              *)

\* A port that is about to die with its circular message.
Doomed(p) == \E t \in Threads : pc[t] = "kill" /\ obj[t] = p

\* Places without a sender that was woken for them.
Spare(p) == (qlimit[p] - msgcount[p]) - Cardinality(Woken(p))

\* What a step may do to a port's sleepers.
Served(p) ==
  \/ p \notin active' \/ blocked'[p] = <<>> \/ Doomed(p)' \/ qlimit'[p] <= msgcount'[p]
  \/ /\ p \in active /\ blocked[p] # <<>> /\ (Doomed(p) => Doomed(p)')
     /\ Spare(p)' <= Spare(p)

LEMMA WokenFinite ==
  ASSUME NEW p
  PROVE  /\ IsFiniteSet(Woken(p)) /\ Cardinality(Woken(p)) \in Nat
         /\ IsFiniteSet(Woken(p)') /\ Cardinality(Woken(p)') \in Nat
<1>1. Woken(p) \subseteq Threads /\ Woken(p)' \subseteq Threads /\ IsFiniteSet(Threads)
  BY MsgQueueAssumption DEF Woken
<1> QED
  BY <1>1, FS_Subset, FS_CardinalityType

LEMMA LimitTypes ==
  ASSUME TypeOK, NEW p \in Ports
  PROVE  qlimit[p] \in Nat /\ msgcount[p] \in Nat
BY MsgQueueAssumption DEF TypeOK

LEMMA ServedAll ==
  ASSUME TypeOK, TypeOK', NoSenderStranded, \A p \in Ports : Served(p)
  PROVE  NoSenderStranded'
<1> SUFFICES ASSUME NEW p \in active', blocked'[p] # <<>>, ~Doomed(p)'
             PROVE  qlimit'[p] - msgcount'[p] <= Cardinality(Woken(p)')
  BY DEF NoSenderStranded, Doomed
<1>1. p \in Ports /\ Served(p)
  BY DEF TypeOK
<1>2. /\ Cardinality(Woken(p)) \in Nat /\ Cardinality(Woken(p)') \in Nat
      /\ qlimit[p] \in Nat /\ msgcount[p] \in Nat /\ qlimit'[p] \in Nat /\ msgcount'[p] \in Nat
  <2>1. QLimits \subseteq Nat
    BY MsgQueueAssumption
  <2> QED
    BY <1>1, <2>1, WokenFinite DEF TypeOK
<1>3. CASE qlimit'[p] <= msgcount'[p]
  BY <1>2, <1>3
<1>4. CASE /\ p \in active /\ blocked[p] # <<>> /\ (Doomed(p) => Doomed(p)')
           /\ Spare(p)' <= Spare(p)
  <2>1. qlimit[p] - msgcount[p] <= Cardinality(Woken(p))
    BY <1>4 DEF NoSenderStranded, Doomed
  <2>2. (qlimit'[p] - msgcount'[p]) - Cardinality(Woken(p)')
          <= (qlimit[p] - msgcount[p]) - Cardinality(Woken(p))
    BY <1>4 DEF Spare
  <2> QED
    BY <1>2, <2>1, <2>2
<1> QED
  BY <1>1, <1>3, <1>4 DEF Served

\* A sender's state, seen by others: does it wait, was it woken, is it about to
\* destroy its port.
SameSender(t) ==
  pc[t] \in {"sendwait", "kill"} \/ pc'[t] \in {"sendwait", "kill"} =>
    pc'[t] = pc[t] /\ obj'[t] = obj[t] /\ state'[t] = state[t]

\* A step that is no business of the senders.
SendersAside ==
  /\ \A t \in Threads : SameSender(t)
  /\ UNCHANGED <<qlimit, msgcount, blocked, active>>

LEMMA SameWoken ==
  ASSUME NEW S, \A t \in Threads \ S : SameSender(t), NEW p,
         \A t \in S \cap Threads : pc[t] \in {"sendwait", "kill"} => obj[t] # p,
         \A t \in S \cap Threads : pc'[t] \in {"sendwait", "kill"} => obj'[t] # p
  PROVE  Woken(p)' = Woken(p) /\ (Doomed(p)' <=> Doomed(p))
BY DEF Woken, Doomed, SameSender

LEMMA AsideServes ==
  ASSUME QueueInv, SendersAside
  PROVE  \A p \in Ports : Served(p)
<1> SUFFICES ASSUME NEW p \in Ports, blocked'[p] # <<>>, p \in active' PROVE Served(p)
  BY DEF Served
<1>1. Woken(p)' = Woken(p) /\ (Doomed(p)' <=> Doomed(p))
  <2> DEFINE S == {}
  <2>1. /\ \A t \in Threads \ S : SameSender(t)
        /\ \A t \in S \cap Threads : pc[t] \in {"sendwait", "kill"} => obj[t] # p
        /\ \A t \in S \cap Threads : pc'[t] \in {"sendwait", "kill"} => obj'[t] # p
    BY DEF SendersAside
  <2> HIDE DEF S
  <2> QED
    BY <2>1, SameWoken
<1>2. qlimit[p] \in Nat /\ msgcount[p] \in Nat /\ Cardinality(Woken(p)) \in Nat
  BY LimitTypes, WokenFinite DEF QueueInv
<1>3. Spare(p)' = Spare(p)
  BY <1>1 DEF Spare, SendersAside
<1>4. Spare(p) \in Int
  BY <1>2 DEF Spare
<1> QED
  BY <1>1, <1>3, <1>4 DEF Served, SendersAside

\* A hand-over tells receivers only.
LEMMA HandOverSenders ==
  ASSUME QueueInv, NEW me, NEW p \in Ports, NEW q \in Queues, NEW M \in Seq(Message),
         NEW g \in Matches(threads[q], M), NEW C, C \subseteq Range(threads[p]), NEW late,
         HandOver(me, p, q, M, g, C, late), NEW t \in Threads, t # me, pc[t] # "rcvwait"
  PROVE  state'[t] = state[t]
<1> DEFINE R == threads[q]
           got == Takers(R, g)
           out == Out(R, M, g)
           m(u) == M[Taker(R, g, u)]
<1>1. state' = [u \in Threads |->
                  CASE u \in got -> IF m(u).big /\ size[u] = "short"
                                    THEN "too_large" ELSE "success"
                    [] u \in C -> "changed"
                    [] u \in out \ (got \cup C) -> "too_large"
                    [] u = me -> "none"
                    [] OTHER -> state[u]]
  BY Zenon DEF HandOver, Out
<1>2. got \subseteq out /\ out \subseteq Range(R)
  BY QueueFacts, TakerFacts
<1>3. t \notin Range(R) /\ t \notin Range(threads[p])
  BY WhereFacts, NamesDisjoint DEF QueueInv
<1>4. t \notin got /\ t \notin out /\ t \notin C
  BY <1>2, <1>3
<1> HIDE DEF got, out, m
<1>5. state'[t] = CASE t \in got -> IF m(t).big /\ size[t] = "short"
                                    THEN "too_large" ELSE "success"
                    [] t \in C -> "changed"
                    [] t \in out \ (got \cup C) -> "too_large"
                    [] t = me -> "none"
                    [] OTHER -> state[t]
  BY <1>1
<1> QED
  BY <1>4, <1>5

LEMMA SmallAside ==
  ASSUME QueueInv,
         \/ \E t \in Threads : \E why : ClearWait(t, why)
         \/ \E t \in Threads : SendGo(t)
         \/ \E p \in Ports : PurgeMessage(p) \/ KernelReply(p) \/ CopyoutReceive(p)
         \/ \E p \in Ports : ipc_port_set_seqno(p, 0)
         \/ UNCHANGED vars
  PROVE  SendersAside
<1> USE DEF SendersAside, SameSender
<1>0. TypeOK
  BY DEF QueueInv
<1>1. ASSUME NEW t \in Threads, NEW why, ClearWait(t, why) PROVE SendersAside
  BY <1>1 DEF ClearWait, counts, portvars, call
<1>2. ASSUME NEW t \in Threads, SendGo(t) PROVE SendersAside
  <2>1. /\ pc'[t] = "run" /\ pc[t] = "go"
        /\ \A u \in Threads \ {t} : pc'[u] = pc[u] /\ obj'[u] = obj[u]
    BY <1>0, <1>2, DoneEffect DEF SendGo
  <2> QED
    BY <1>2, <2>1 DEF SendGo, counts, portvars
<1>3. ASSUME NEW p \in Ports, PurgeMessage(p) PROVE SendersAside
  BY <1>3 DEF PurgeMessage, counts, portvars, call, ith
<1>4. ASSUME NEW p \in Ports, KernelReply(p) PROVE SendersAside
  BY <1>4 DEF KernelReply, counts, portvars, call, ith
<1>5. ASSUME NEW p \in Ports, CopyoutReceive(p) PROVE SendersAside
  BY <1>5 DEF CopyoutReceive, counts, call, ith
<1>6. ASSUME NEW p \in Ports, ipc_port_set_seqno(p, 0) PROVE SendersAside
  BY <1>6 DEF ipc_port_set_seqno, counts, call, ith
<1>7. ASSUME UNCHANGED vars PROVE SendersAside
  BY <1>7 DEF vars, counts, portvars, call, ith
<1> HIDE DEF SendersAside, SameSender
<1> QED
  BY <1>1, <1>2, <1>3, <1>4, <1>5, <1>6, <1>7

\* Receivers do not touch senders.
LEMMA ReceiveAside ==
  ASSUME QueueInv, NEW t \in Threads,
         \/ \E q, sz, poll : ipc_mqueue_receive(t, q, sz, poll)
         \/ ReceiveWoken(t)
         \/ mach_msg_interrupt(t)
  PROVE  SendersAside
<1>0. TypeOK
  BY DEF QueueInv
<1> DEFINE Moves == /\ pc[t] \in {"run", "rcvwait"} /\ pc'[t] \in {"run", "got", "rcvwait"}
                    /\ \A u \in Threads \ {t} : /\ pc'[u] = pc[u] /\ obj'[u] = obj[u]
                                                /\ state'[u] = state[u]
<1>1. ASSUME NEW at \in {"run", "got", "rcvwait"}, NEW o, NEW sz, Enter(t, at, o, sz)
      PROVE  /\ pc'[t] \in {"run", "got", "rcvwait"}
             /\ \A u \in Threads \ {t} : pc'[u] = pc[u] /\ obj'[u] = obj[u]
  BY <1>0, <1>1 DEF Enter, TypeOK
<1>2. ASSUME NEW x, state' = [state EXCEPT ![t] = x]
      PROVE  \A u \in Threads \ {t} : state'[u] = state[u]
  BY <1>0, <1>2 DEF TypeOK
<1>3. ASSUME NEW q, NEW sz, NEW poll, NEW msgs, NEW thr,
             ReceiveLoop(t, q, sz, poll, msgs, thr), pc[t] \in {"run", "rcvwait"}
      PROVE  Moves
  BY <1>1, <1>2, <1>3, Zenon DEF ReceiveLoop, Done, Settle, Block
<1>4. ASSUME NEW q, NEW sz, NEW poll, ipc_mqueue_receive(t, q, sz, poll)
      PROVE  Moves /\ UNCHANGED <<qlimit, counts, active>>
  <2>1. /\ pc[t] = "run" /\ UNCHANGED <<qlimit, counts, active>>
        /\ \E msgs : ReceiveLoop(t, q, sz, poll, msgs, threads)
    BY <1>4 DEF ipc_mqueue_receive
  <2> HIDE DEF Moves
  <2> QED
    BY <1>3, <2>1
<1>5. ASSUME ReceiveWoken(t) PROVE Moves /\ UNCHANGED <<qlimit, counts, active>>
  <2>1. /\ pc[t] = "rcvwait" /\ UNCHANGED <<qlimit, counts, active>>
        /\ \/ /\ Enter(t, "got", None, "fit") /\ Settle(t)
           \/ /\ Done(t) /\ Settle(t)
           \/ \E q, sz, msgs, thr : ReceiveLoop(t, q, sz, TRUE, msgs, thr)
    BY <1>5 DEF ReceiveWoken, portvars
  <2>2. ASSUME NEW at \in {"run", "got"}, Enter(t, at, None, "fit"), Settle(t) PROVE Moves
    BY <1>1, <1>2, <2>1, <2>2, Zenon DEF Settle
  <2> HIDE DEF Moves
  <2> QED
    BY <1>3, <2>1, <2>2 DEF Done
<1>6. ASSUME mach_msg_interrupt(t) PROVE Moves /\ UNCHANGED <<qlimit, counts, active>>
  BY <1>1, <1>2, <1>6, Zenon DEF mach_msg_interrupt, Done, Settle, portvars
<1>7. Moves /\ UNCHANGED <<qlimit, counts, active>>
  BY <1>4, <1>5, <1>6
<1> QED
  BY <1>7 DEF SendersAside, SameSender, counts

\* Nor do sets, nor the loss of a receive right.
LEMMA SetsAside ==
  ASSUME QueueInv,
         \/ \E p \in Ports, s \in Psets \cup {None} : ipc_pset_move(p, s)
         \/ \E s \in Psets : ipc_pset_destroy(s)
         \/ \E p \in Ports : MoveReceive(p)
         \/ \E t \in Threads, p \in Ports : CopyinCircular(t, p)
  PROVE  SendersAside
<1>0. TypeOK /\ WaitInv
  BY DEF QueueInv
<1>1. ASSUME NEW q \in Queues, NEW S, S \subseteq Range(threads[q]), NEW why, Tell(S, why),
             NEW u \in Threads, pc[u] # "rcvwait"
      PROVE  state'[u] = state[u]
  <2>1. u \notin S
    BY <1>0, <1>1, WhereFacts
  <2> QED
    BY <1>1, <2>1 DEF Tell
<1>2. ASSUME NEW p \in Ports, NEW s \in Psets \cup {None}, ipc_pset_move(p, s)
      PROVE  SendersAside
  <2>1. UNCHANGED <<qlimit, counts, active, call>>
    BY <1>2 DEF ipc_pset_move
  <2>2. ASSUME NEW u \in Threads, pc[u] # "rcvwait" PROVE state'[u] = state[u]
    <3>1. CASE s = None
      BY <1>2, <3>1 DEF ipc_pset_move, ith
    <3>2. CASE s # None
      <4> DEFINE M == Moving(messages[Home(p)], p)
      <4>1. PICK g \in Matches(threads[s], M) : HandOver(None, p, s, M, g, Range(threads[p]), {})
        BY <1>2, <3>2 DEF ipc_pset_move, PsetAdd
      <4>2. M \in Seq(Message)
        BY <1>0, HomeFacts, QueueFacts, OfPortFacts DEF Moving
      <4>3. u # None /\ s \in Queues
        BY <3>2, NamesDisjoint
      <4> HIDE DEF M
      <4> QED
        BY <2>2, <4>1, <4>2, <4>3, HandOverSenders
    <3> QED
      BY <3>1, <3>2
  <2> QED
    BY <2>1, <2>2 DEF SendersAside, SameSender, counts, call
<1>3. ASSUME NEW s \in Psets, ipc_pset_destroy(s) PROVE SendersAside
  <2>1. /\ UNCHANGED <<qlimit, counts, active, call>> /\ Tell(Range(threads[s]), "died")
        /\ s \in Queues
    BY <1>3, NamesDisjoint DEF ipc_pset_destroy
  <2>2. \A u \in Threads : pc[u] # "rcvwait" => state'[u] = state[u]
    BY <1>1, <2>1
  <2> QED
    BY <2>1, <2>2 DEF SendersAside, SameSender, counts, call
<1>4. ASSUME NEW p \in Ports, Tell(ReceiversOf(p), "died")
      PROVE  \A u \in Threads : pc[u] # "rcvwait" => state'[u] = state[u]
  <2>1. ReceiversOf(p) \subseteq Range(threads[p]) /\ p \in Queues
    BY NamesDisjoint DEF ReceiversOf
  <2> QED
    BY <1>1, <1>4, <2>1
<1>5. ASSUME NEW p \in Ports, MoveReceive(p) PROVE SendersAside
  <2>1. UNCHANGED <<qlimit, counts, active, call>> /\ Tell(ReceiversOf(p), "died")
    BY <1>5 DEF MoveReceive
  <2> QED
    BY <1>4, <2>1 DEF SendersAside, SameSender, counts, call
<1>6. ASSUME NEW t \in Threads, NEW p \in Ports, CopyinCircular(t, p) PROVE SendersAside
  <2>1. /\ UNCHANGED <<qlimit, counts, active>> /\ Tell(ReceiversOf(p), "died")
        /\ pc[t] = "run" /\ Enter(t, "circular", p, "circular")
    BY <1>6 DEF CopyinCircular
  <2>2. /\ pc'[t] = "circular"
        /\ \A u \in Threads \ {t} : pc'[u] = pc[u] /\ obj'[u] = obj[u]
    BY <1>0, <2>1 DEF Enter, TypeOK
  <2> QED
    BY <1>4, <2>1, <2>2 DEF SendersAside, SameSender, counts
<1> QED
  BY <1>2, <1>3, <1>5, <1>6

\* A thread t sends to port p, or fails to.
SenderAlone(t, p) ==
  /\ t \in Threads => /\ pc[t] \in {"run", "circular", "sendwait"}
                      /\ pc[t] = "sendwait" => obj[t] = p
                      /\ pc'[t] \in {"run", "go", "kill", "sendwait"}
                      /\ pc'[t] \in {"kill", "sendwait"} => obj'[t] = p
  /\ \A u \in Threads \ {t} : SameSender(u)
  /\ UNCHANGED <<qlimit, active>>
  /\ \A r \in Ports \ {p} : /\ msgcount'[r] = msgcount[r]
                            /\ blocked[r] = <<>> => blocked'[r] = <<>>

LEMMA OtherPorts ==
  ASSUME QueueInv, NEW t, NEW p \in Ports, SenderAlone(t, p)
  PROVE  \A r \in Ports \ {p} : Served(r)
<1> SUFFICES ASSUME NEW r \in Ports, r # p, blocked'[r] # <<>>, r \in active' PROVE Served(r)
  BY DEF Served
<1>1. Woken(r)' = Woken(r) /\ (Doomed(r)' <=> Doomed(r))
  <2> DEFINE S == {t}
  <2>1. /\ \A u \in Threads \ S : SameSender(u)
        /\ \A u \in S \cap Threads : pc[u] \in {"sendwait", "kill"} => obj[u] # r
        /\ \A u \in S \cap Threads : pc'[u] \in {"sendwait", "kill"} => obj'[u] # r
    BY DEF SenderAlone
  <2> HIDE DEF S
  <2> QED
    BY <2>1, SameWoken
<1>2. qlimit[r] \in Nat /\ msgcount[r] \in Nat /\ Cardinality(Woken(r)) \in Nat
  BY LimitTypes, WokenFinite DEF QueueInv
<1>3. qlimit'[r] = qlimit[r] /\ msgcount'[r] = msgcount[r] /\ r \in active /\ blocked[r] # <<>>
  BY DEF SenderAlone
<1>4. Spare(r)' = Spare(r) /\ Spare(r) \in Int
  BY <1>1, <1>2, <1>3 DEF Spare
<1> QED
  BY <1>1, <1>3, <1>4 DEF Served

\* The port itself, when its message is accepted (k = 1) or the thread gives up
\* (k = 0).
LEMMA OwnPort ==
  ASSUME QueueInv, NEW t, NEW p \in Ports, SenderAlone(t, p), NEW k \in {0, 1},
         msgcount'[p] = msgcount[p] + k, blocked[p] = <<>> => blocked'[p] = <<>>,
         k = 0 => t \notin Woken(p), t \in Threads => pc'[t] \in {"run", "go"}
  PROVE  Served(p)
<1> SUFFICES ASSUME blocked'[p] # <<>>, p \in active' PROVE Served(p)
  BY DEF Served
<1>1. Woken(p)' = Woken(p) \ {t} /\ (Doomed(p) => Doomed(p)')
  BY DEF SenderAlone, Woken, Doomed, SameSender
<1>2. /\ qlimit[p] \in Nat /\ msgcount[p] \in Nat /\ IsFiniteSet(Woken(p))
      /\ Cardinality(Woken(p)) \in Nat
  BY LimitTypes, WokenFinite DEF QueueInv
<1>3. Cardinality(Woken(p) \ {t}) = IF t \in Woken(p) THEN Cardinality(Woken(p)) - 1
                                     ELSE Cardinality(Woken(p))
  BY <1>2, FS_RemoveElement
<1>4. qlimit'[p] = qlimit[p] /\ p \in active /\ blocked[p] # <<>>
  BY DEF SenderAlone
<1>5. Spare(p)' = (qlimit[p] - (msgcount[p] + k)) - Cardinality(Woken(p) \ {t})
  BY <1>1, <1>4 DEF Spare
<1>6. Spare(p)' <= Spare(p)
  <2>1. CASE k = 0
    BY <1>2, <1>3, <1>5, <2>1 DEF Spare
  <2>2. CASE k = 1
    BY <1>2, <1>3, <1>5, <2>2 DEF Spare
  <2> QED
    BY <2>1, <2>2
<1> QED
  BY <1>1, <1>4, <1>6 DEF Served

\* What the senders see of a message that is accepted.
LEMMA DeliverSenders ==
  ASSUME QueueInv, NEW t, NEW p \in Ports, NEW m \in Message,
         NEW g \in Matches(threads[Home(p)], <<m>>), NEW late, Deliver(t, p, m, g, late)
  PROVE  /\ \A u \in Threads \ {t} : pc[u] # "rcvwait" => state'[u] = state[u]
         /\ msgcount' = [msgcount EXCEPT ![p] = @ + 1]
<1> DEFINE M == <<m>>
           q == Home(p)
           C == {}
<1>1. HandOver(t, p, q, M, g, C, late) /\ msgcount' = [msgcount EXCEPT ![p] = @ + 1]
  BY DEF Deliver
<1>2. /\ M \in Seq(Message) /\ q \in Queues /\ C \subseteq Range(threads[p])
      /\ g \in Matches(threads[q], M)
  BY HomeFacts DEF QueueInv
<1> HIDE DEF M, q, C
<1>3. ASSUME NEW u \in Threads, u # t, pc[u] # "rcvwait" PROVE state'[u] = state[u]
  BY <1>1, <1>2, <1>3, HandOverSenders
<1> QED
  BY <1>1, <1>3

LEMMA SendNowServes ==
  ASSUME QueueInv, NEW t, CanSend(t), NEW p \in active, pc[t] = "sendwait" => obj[t] = p,
         NEW sz, SendNow(t, p, sz),
         NotBlocked(blocked', t), UNCHANGED <<portvars, renumbered>>
  PROVE  \A r \in Ports : Served(r)
<1>0. TypeOK /\ p \in Ports /\ t \in Threads
  BY DEF QueueInv, TypeOK, CanSend
<1> DEFINE m == NewMessage(p, sz)
           R == threads[Home(p)]
<1>1. PICK g \in Matches(R, <<m>>) :
        /\ Deliver(t, p, m, g, Late(R, g))
        /\ IF Late(R, g) = {} THEN Done(t) ELSE Enter(t, "go", R[g[1]], "fit")
  BY DEF SendNow
<1>2. m \in Message
  BY <1>0, <1>1, NewMessageType DEF Deliver
<1>3. /\ \A u \in Threads \ {t} : pc[u] # "rcvwait" => state'[u] = state[u]
      /\ msgcount' = [msgcount EXCEPT ![p] = @ + 1]
  <2> HIDE DEF m
  <2> QED
    BY <1>0, <1>1, <1>2, DeliverSenders
<1>4. /\ pc'[t] \in {"run", "go"}
      /\ \A u \in Threads \ {t} : pc'[u] = pc[u] /\ obj'[u] = obj[u]
  BY <1>0, <1>1 DEF Done, Enter, TypeOK
<1>5. SenderAlone(t, p) /\ msgcount'[p] = msgcount[p] + 1
  <2>1. \A r \in Ports : msgcount'[r] = IF r = p THEN msgcount[p] + 1 ELSE msgcount[r]
    BY <1>0, <1>3 DEF TypeOK
  <2>2. \A u \in Threads \ {t} : SameSender(u)
    BY <1>3, <1>4 DEF SameSender
  <2> QED
    BY <1>0, <1>4, <2>1, <2>2 DEF SenderAlone, CanSend, NotBlocked, portvars
<1>6. Served(p)
  <2>1. blocked[p] = <<>> => blocked'[p] = <<>>
    BY <1>0 DEF NotBlocked
  <2> QED
    BY <1>0, <1>4, <1>5, <2>1, OwnPort
<1> QED
  BY <1>0, <1>5, <1>6, OtherPorts

\* A sender that goes on or to sleep touches no other.
LEMMA OneSender ==
  ASSUME TypeOK, NEW t, CanSend(t), NEW p \in Ports, pc[t] = "sendwait" => obj[t] = p,
         NEW at \in {"run", "kill", "sendwait"}, NEW o, at # "run" => o = p, NEW sz,
         Enter(t, at, o, sz), NEW x, state' = [state EXCEPT ![t] = x],
         \A r \in Ports \ {p} : blocked[r] = <<>> => blocked'[r] = <<>>,
         UNCHANGED msgcount, UNCHANGED portvars
  PROVE  SenderAlone(t, p) /\ pc'[t] = at /\ obj'[t] = o
<1>1. /\ pc'[t] = at /\ obj'[t] = o /\ t \in Threads
      /\ \A u \in Threads \ {t} : pc'[u] = pc[u] /\ obj'[u] = obj[u]
      /\ \A u \in Threads \ {t} : state'[u] = state[u]
  BY DEF Enter, TypeOK, CanSend
<1>2. \A u \in Threads \ {t} : SameSender(u)
  BY <1>1 DEF SameSender
<1> QED
  BY <1>1, <1>2 DEF SenderAlone, CanSend, portvars

LEMMA SendLoopServes ==
  ASSUME QueueInv, NEW t, CanSend(t), NEW p \in Ports, pc[t] = "sendwait" => obj[t] = p,
         NEW sz, NEW poll, NEW blk, NotBlocked(blk, t), SendLoop(t, p, sz, poll, blk),
         UNCHANGED <<portvars, renumbered>>
  PROVE  \A r \in Ports : Served(r)
<1>0. /\ TypeOK /\ portvars' = portvars /\ qlimit' = qlimit /\ active' = active
      /\ qlimit[p] \in Nat /\ msgcount[p] \in Nat
  BY LimitTypes DEF QueueInv, portvars
<1>1. ASSUME \/ blocked' = blk
             \/ blocked' = [blk EXCEPT ![p] = Append(@, t)]
      PROVE  \A r \in Ports \ {p} : blocked[r] = <<>> => blocked'[r] = <<>>
  BY <1>1 DEF NotBlocked
<1>2. CASE /\ p \notin active \/ ~Room(p)
           /\ Done(t) /\ blocked' = blk
           /\ Settle(t) /\ UNCHANGED <<queues, msgcount, sent>>
  <2>1. state' = [state EXCEPT ![t] = "none"]
    BY <1>2 DEF Settle
  <2>2. SenderAlone(t, p)
    BY <1>0, <1>1, <1>2, <2>1, OneSender DEF Done
  <2>3. Served(p)
    BY <1>0, <1>2 DEF Served, Room
  <2> QED
    BY <2>2, <2>3, OtherPorts
<1>3. CASE /\ p \in active /\ SendNow(t, p, sz) /\ blocked' = blk
  BY <1>3, SendNowServes
<1>4. CASE /\ Enter(t, "kill", p, sz) /\ blocked' = blk
           /\ Settle(t) /\ UNCHANGED <<queues, msgcount, sent>>
  <2>1. state' = [state EXCEPT ![t] = "none"]
    BY <1>4 DEF Settle
  <2>2. SenderAlone(t, p) /\ pc'[t] = "kill" /\ obj'[t] = p
    BY <1>0, <1>1, <1>4, <2>1, OneSender
  <2>3. Served(p)
    BY <2>2 DEF Served, Doomed, CanSend
  <2> QED
    BY <2>2, <2>3, OtherPorts
<1>5. CASE /\ ~Room(p)
           /\ blocked' = [blk EXCEPT ![p] = Append(@, t)]
           /\ Block(t, "sendwait", p, sz)
           /\ UNCHANGED <<queues, msgcount, sent>>
  <2>1. state' = [state EXCEPT ![t] = "in_progress"] /\ Enter(t, "sendwait", p, sz)
    BY <1>5 DEF Block
  <2>2. SenderAlone(t, p)
    BY <1>0, <1>1, <1>5, <2>1, OneSender
  <2>3. Served(p)
    BY <1>0, <1>5 DEF Served, Room
  <2> QED
    BY <2>2, <2>3, OtherPorts
<1> QED
  BY <1>2, <1>3, <1>4, <1>5 DEF SendLoop

LEMMA SendsServe ==
  ASSUME QueueInv, NEW t \in Threads,
         \/ \E p \in Ports, sz \in {"fit", "big"} : \E poll : ipc_mqueue_send(t, p, sz, poll)
         \/ \E poll : SendCircular(t, poll)
         \/ SendWoken(t)
  PROVE  \A r \in Ports : Served(r)
<1>0. TypeOK /\ WaitInv /\ ThreadOK(t)
  BY DEF QueueInv, WaitInv
<1>1. pc[t] \in {"run", "circular"} => CanSend(t) /\ NotBlocked(blocked, t)
  BY <1>0, WhereFacts, BlockedFacts DEF CanSend
<1>2. ASSUME NEW p \in Ports, NEW sz \in {"fit", "big"}, NEW poll,
             ipc_mqueue_send(t, p, sz, poll)
      PROVE  \A r \in Ports : Served(r)
  BY <1>1, <1>2, SendLoopServes DEF ipc_mqueue_send
<1>3. ASSUME NEW poll, SendCircular(t, poll) PROVE \A r \in Ports : Served(r)
  <2>1. /\ pc[t] = "circular" /\ SendLoop(t, obj[t], "circular", poll, blocked)
        /\ UNCHANGED <<portvars, renumbered>> /\ obj[t] \in Ports
    BY <1>0, <1>3 DEF SendCircular, ThreadOK
  <2> QED
    BY <1>1, <2>1, SendLoopServes
<1>4. ASSUME SendWoken(t) PROVE \A r \in Ports : Served(r)
  <2>1. /\ pc[t] = "sendwait" /\ ~waiting[t] /\ UNCHANGED <<portvars, renumbered>>
        /\ obj[t] \in Ports
    BY <1>0, <1>4 DEF SendWoken, ThreadOK
  <2>2. /\ CanSend(t) /\ NotBlocked(BlockedWithout(t), t)
        /\ Told(t) => NotBlocked(blocked, t)
    BY <1>0, <2>1, WhereFacts, BlockedFacts DEF CanSend
  <2>3. CASE Told(t) /\ SendLoop(t, obj[t], size[t], FALSE, blocked)
    BY <2>1, <2>2, <2>3, SendLoopServes
  <2>4. CASE /\ ~Told(t) /\ Done(t) /\ blocked' = BlockedWithout(t)
             /\ Settle(t) /\ UNCHANGED <<queues, msgcount, sent>>
    <3>1. state' = [state EXCEPT ![t] = "none"] /\ portvars' = portvars
      BY <2>1, <2>4 DEF Settle, portvars
    <3>2. \A r \in Ports : blocked[r] = <<>> => blocked'[r] = <<>>
      BY <2>2, <2>4 DEF NotBlocked
    <3>3. SenderAlone(t, obj[t]) /\ pc'[t] = "run"
      BY <1>0, <2>1, <2>2, <2>4, <3>1, <3>2, OneSender DEF Done
    <3>4. t \notin Woken(obj[t]) /\ msgcount'[obj[t]] = msgcount[obj[t]] + 0
      BY <1>0, <2>1, <2>4 DEF Woken, Told, TypeOK
    <3>5. Served(obj[t])
      BY <2>1, <3>2, <3>3, <3>4, OwnPort
    <3> QED
      BY <2>1, <3>3, <3>5, OtherPorts
  <2>5. CASE SendLoop(t, obj[t], size[t], TRUE, BlockedWithout(t))
    BY <2>1, <2>2, <2>5, SendLoopServes
  <2> QED
    BY <1>4, <2>3, <2>4, <2>5 DEF SendWoken
<1> QED
  BY <1>2, <1>3, <1>4

LEMMA SendAlwaysServes ==
  ASSUME QueueInv, NEW p \in Ports, NEW sz, ipc_mqueue_send_always(p, sz)
  PROVE  \A r \in Ports : Served(r)
<1>0. /\ TypeOK /\ None \notin Threads /\ UNCHANGED <<portvars, blocked, call, renumbered>>
      /\ msgcount[p] \in Nat
  BY NamesDisjoint DEF QueueInv, TypeOK, ipc_mqueue_send_always
<1> DEFINE m == NewMessage(p, sz)
<1>1. PICK g \in Matches(threads[Home(p)], <<m>>) : Deliver(None, p, m, g, {})
  BY DEF ipc_mqueue_send_always
<1>2. m \in Message
  BY <1>0, <1>1, NewMessageType DEF Deliver
<1> HIDE DEF m
<1>3. /\ \A u \in Threads \ {None} : pc[u] # "rcvwait" => state'[u] = state[u]
      /\ msgcount' = [msgcount EXCEPT ![p] = @ + 1]
  BY <1>1, <1>2, DeliverSenders
<1>4. SenderAlone(None, p) /\ msgcount'[p] = msgcount[p] + 1
  <2>1. \A r \in Ports : msgcount'[r] = IF r = p THEN msgcount[p] + 1 ELSE msgcount[r]
    BY <1>0, <1>3 DEF TypeOK
  <2>2. \A u \in Threads : SameSender(u)
    BY <1>0, <1>3 DEF SameSender, call
  <2> QED
    BY <1>0, <2>1, <2>2 DEF SenderAlone, portvars
<1>5. Served(p)
  BY <1>0, <1>4, OwnPort
<1> QED
  BY <1>4, <1>5, OtherPorts

\* Blocked senders S of port p are woken, by a step of t (if t is a thread) that is
\* no sender's, or that ends the life of p.
Rouses(t, p, S) ==
  /\ S \subseteq Range(blocked[p])
  /\ \A u \in S : state'[u] = "success"
  /\ \A u \in Threads \ {t} : pc'[u] = pc[u] /\ obj'[u] = obj[u]
  /\ \A u \in Threads \ S : pc[u] # "rcvwait" => state'[u] = state[u]
  /\ t \in Threads => /\ pc[t] \in {"got", "kill"} /\ pc'[t] = "run"
                      /\ pc[t] = "kill" => obj[t] = p
  /\ \A r \in Ports \ {p} : /\ qlimit'[r] = qlimit[r] /\ msgcount'[r] = msgcount[r]
                            /\ blocked'[r] = blocked[r] /\ (r \in active' => r \in active)

LEMMA RousesOthers ==
  ASSUME QueueInv, NEW t, NEW p \in Ports, NEW S, Rouses(t, p, S)
  PROVE  \A r \in Ports \ {p} : Served(r)
<1> SUFFICES ASSUME NEW r \in Ports, r # p, blocked'[r] # <<>>, r \in active' PROVE Served(r)
  BY DEF Served
<1>1. \A u \in S : u \in Threads /\ pc[u] = "sendwait" /\ obj[u] = p
  <2>1. WaitInv /\ Range(blocked[p]) \subseteq Threads
    BY QueueFacts DEF QueueInv
  <2> QED
    BY <2>1, WhereFacts DEF Rouses, IsBlocked
<1>2. Woken(r)' = Woken(r) /\ (Doomed(r)' <=> Doomed(r))
  <2> DEFINE T == S \cup {t}
  <2>1. /\ \A u \in Threads \ T : SameSender(u)
        /\ \A u \in T \cap Threads : pc[u] \in {"sendwait", "kill"} => obj[u] # r
        /\ \A u \in T \cap Threads : pc'[u] \in {"sendwait", "kill"} => obj'[u] # r
    BY <1>1 DEF Rouses, SameSender
  <2> HIDE DEF T
  <2> QED
    BY <2>1, SameWoken
<1>3. qlimit[r] \in Nat /\ msgcount[r] \in Nat /\ Cardinality(Woken(r)) \in Nat
  BY LimitTypes, WokenFinite DEF QueueInv
<1>4. /\ qlimit'[r] = qlimit[r] /\ msgcount'[r] = msgcount[r] /\ r \in active
      /\ blocked[r] # <<>>
  BY DEF Rouses
<1>5. Spare(r)' = Spare(r) /\ Spare(r) \in Int
  BY <1>2, <1>3, <1>4 DEF Spare
<1> QED
  BY <1>2, <1>4, <1>5 DEF Served

LEMMA RousesOwn ==
  ASSUME QueueInv, NEW t, NEW p \in Ports, NEW S, Rouses(t, p, S), IsFiniteSet(S),
         t \in Threads => pc[t] # "kill"
  PROVE  /\ Cardinality(Woken(p)') = Cardinality(Woken(p)) + Cardinality(S)
         /\ Doomed(p) => Doomed(p)'
<1>1. \A u \in S : /\ u \in Threads /\ pc[u] = "sendwait" /\ obj[u] = p
                   /\ state[u] = "in_progress"
  <2>1. WaitInv /\ Range(blocked[p]) \subseteq Threads
    BY QueueFacts DEF QueueInv
  <2> QED
    BY <2>1, WhereFacts DEF Rouses, IsBlocked
<1>2. Woken(p)' = Woken(p) \cup S
  <2>1. ASSUME NEW u \in Woken(p)' PROVE u \in Woken(p) \cup S
    BY <2>1 DEF Woken, Rouses
  <2>2. ASSUME NEW u \in Woken(p) PROVE u \in Woken(p)'
    BY <2>2 DEF Woken, Rouses
  <2>3. ASSUME NEW u \in S PROVE u \in Woken(p)'
    BY <1>1, <2>3 DEF Woken, Rouses
  <2> QED
    BY <2>1, <2>2, <2>3
<1>3. Woken(p) \cap S = {}
  BY <1>1 DEF Woken
<1>4. IsFiniteSet(Woken(p)) /\ Cardinality(Woken(p)) \in Nat /\ Cardinality(S) \in Nat
  BY WokenFinite, FS_CardinalityType
<1>5. Cardinality(Woken(p) \cup S) = Cardinality(Woken(p)) + Cardinality(S)
                                     - Cardinality(Woken(p) \cap S)
  BY <1>4, FS_Union
<1>6. Doomed(p) => Doomed(p)'
  BY DEF Doomed, Rouses
<1> QED
  BY <1>2, <1>3, <1>4, <1>5, <1>6, FS_EmptySet

LEMMA FinishServes ==
  ASSUME QueueInv, NEW t \in Threads, NEW p, p = kmsg[t].port, ReceiveFinish(t)
  PROVE  \A r \in Ports : Served(r)
<1> DEFINE wake == p \in active /\ blocked[p] # <<>> /\ PlaceFreed(p)
           S == IF wake THEN {Head(blocked[p])} ELSE {}
<1>0. /\ TypeOK /\ WaitInv /\ pc[t] = "got" /\ Done(t)
      /\ msgcount' = IF p \in active THEN [msgcount EXCEPT ![p] = @ - 1] ELSE msgcount
      /\ blocked' = IF wake THEN [blocked EXCEPT ![p] = Tail(@)] ELSE blocked
      /\ state' = [u \in Threads |-> IF u \in S THEN "success" ELSE state[u]]
      /\ qlimit' = qlimit /\ active' = active
  BY DEF ReceiveFinish, QueueInv, portvars
<1>1. kmsg[t] # None /\ p \in Ports
  BY <1>0 DEF WaitInv, ThreadOK, TypeOK, Message
<1>2. p \in active => msgcount[p] - 1 \in Nat
  BY <1>1, HolderCounted
<1>3. PlaceFreed(p) <=> msgcount[p] - 1 < qlimit[p]
  BY DEF PlaceFreed
<1>4. S \subseteq Range(blocked[p])
  <2>1. CASE wake
    <3>1. blocked[p] \in Seq(Threads) /\ IsInjective(blocked[p])
      BY <1>1, QueueFacts
    <3> QED
      BY <2>1, <3>1, TailRange
  <2> QED
    BY <2>1
<1>5. IsFiniteSet(S) /\ Cardinality(S) = IF wake THEN 1 ELSE 0
  BY FS_EmptySet, FS_Singleton
<1>6. wake \/ p \notin active \/ blocked[p] = <<>> \/ ~PlaceFreed(p)
  OBVIOUS
<1>7. wake => p \in active /\ blocked[p] # <<>>
  OBVIOUS
<1> HIDE DEF wake, S
<1>8. Rouses(t, p, S)
  <2>1. /\ pc'[t] = "run"
        /\ \A u \in Threads \ {t} : pc'[u] = pc[u] /\ obj'[u] = obj[u]
    BY <1>0, DoneEffect
  <2>2. \A r \in Ports \ {p} : msgcount'[r] = msgcount[r] /\ blocked'[r] = blocked[r]
    BY <1>0 DEF TypeOK
  <2>3. Range(blocked[p]) \subseteq Threads
    BY <1>1, QueueFacts
  <2>4. /\ \A u \in S : state'[u] = "success"
        /\ \A u \in Threads \ S : state'[u] = state[u]
    BY <1>0, <1>4, <2>3
  <2> QED
    BY <1>0, <1>4, <2>1, <2>2, <2>4 DEF Rouses
<1>9. Served(p)
  <2> SUFFICES ASSUME p \in active, blocked'[p] # <<>>, msgcount'[p] < qlimit[p]
               PROVE  Served(p)
    <3>1. p \in active => msgcount'[p] = msgcount[p] - 1
      BY <1>0, <1>1 DEF TypeOK
    <3>2. qlimit[p] \in Nat
      BY <1>0, <1>1, LimitTypes
    <3> QED
      BY <1>0, <1>2, <3>1, <3>2 DEF Served
  <2>1. msgcount'[p] = msgcount[p] - 1
    BY <1>0, <1>1 DEF TypeOK
  <2>2. wake
    BY <1>0, <1>3, <1>6, <2>1
  <2>3. /\ Cardinality(Woken(p)') = Cardinality(Woken(p)) + 1
        /\ Doomed(p) => Doomed(p)'
    BY <1>0, <1>1, <1>5, <1>8, <2>2, RousesOwn
  <2>4. qlimit[p] \in Nat /\ msgcount[p] \in Nat /\ Cardinality(Woken(p)) \in Nat
    BY <1>0, <1>1, LimitTypes, WokenFinite
  <2>5. Spare(p)' = (qlimit[p] - (msgcount[p] - 1)) - (Cardinality(Woken(p)) + 1)
    BY <1>0, <2>1, <2>3 DEF Spare
  <2>6. Spare(p)' <= Spare(p)
    BY <2>4, <2>5 DEF Spare
  <2> QED
    BY <1>7, <2>2, <2>3, <2>6 DEF Served
<1> QED
  BY <1>1, <1>8, <1>9, RousesOthers

LEMMA LimitServes ==
  ASSUME QueueInv, NEW p \in Ports, NEW n \in QLimits, ipc_port_set_qlimit(p, n)
  PROVE  \A r \in Ports : Served(r)
<1> DEFINE B == blocked[p]
           k == Len(WokenByLimit(p, n))
           S == Range(WokenByLimit(p, n))
           rest == SubSeq(B, k + 1, Len(B))
<1>0. /\ TypeOK /\ Tell(S, "success") /\ B \in Seq(Threads) /\ IsInjective(B)
      /\ k \in 0..Len(B) /\ (k < Len(B) => n - qlimit[p] <= k)
      /\ WokenByLimit(p, n) = SubSeq(B, 1, k)
      /\ blocked' = [blocked EXCEPT ![p] = rest] /\ qlimit' = [qlimit EXCEPT ![p] = n]
      /\ UNCHANGED <<active, msgcount, pc, obj>> /\ p \in active /\ None \notin Threads
  BY LimitFacts, QueueFacts, NamesDisjoint DEF QueueInv, ipc_port_set_qlimit, call
<1>1. /\ B = blocked[p] /\ k = Len(WokenByLimit(p, n)) /\ S = Range(WokenByLimit(p, n))
      /\ rest = SubSeq(B, k + 1, Len(B))
  OBVIOUS
<1> HIDE DEF B, k, S, rest
<1>2. /\ WokenByLimit(p, n) \in Seq(Threads) /\ IsInjective(WokenByLimit(p, n))
      /\ Range(B) = S \cup Range(rest)
  <2>1. /\ SubSeq(B, 1, k) \in Seq(Threads) /\ IsInjective(SubSeq(B, 1, k))
        /\ Range(B) = Range(SubSeq(B, 1, k)) \cup Range(rest)
    BY <1>0, SplitRange DEF rest
  <2> QED
    BY <1>0, <1>1, <2>1
<1>3. IsFiniteSet(S) /\ Cardinality(S) = k
  BY <1>1, <1>2, PlacesCount
<1>4. /\ \A r \in Ports : blocked'[r] = IF r = p THEN rest ELSE blocked[r]
      /\ \A r \in Ports : qlimit'[r] = IF r = p THEN n ELSE qlimit[r]
  BY <1>0 DEF TypeOK
<1>5. Rouses(None, p, S)
  <2>1. /\ \A u \in Threads : u \in S => state'[u] = "success"
        /\ \A u \in Threads : u \notin S => state'[u] = state[u]
        /\ S \subseteq Threads /\ S \subseteq Range(blocked[p])
    <3>1. Range(B) \subseteq Threads
      BY <1>1, QueueFacts
    <3> QED
      BY <1>0, <1>1, <1>2, <3>1, TellEffect
  <2> QED
    BY <1>0, <1>4, <2>1 DEF Rouses
<1>6. Served(p)
  <2>1. CASE k < Len(B)
    <3>1. /\ Cardinality(Woken(p)') = Cardinality(Woken(p)) + k
          /\ Doomed(p) => Doomed(p)'
      BY <1>0, <1>3, <1>5, RousesOwn
    <3>2. /\ qlimit[p] \in Nat /\ msgcount[p] \in Nat /\ Cardinality(Woken(p)) \in Nat
          /\ n \in Nat /\ k \in Nat
      BY <1>0, LimitTypes, WokenFinite, MsgQueueAssumption
    <3>3. Spare(p)' = (n - msgcount[p]) - (Cardinality(Woken(p)) + k)
      BY <1>0, <1>4, <3>1 DEF Spare
    <3>4. Spare(p)' <= Spare(p)
      <4>1. n - qlimit[p] <= k
        BY <1>0, <2>1
      <4> QED
        BY <3>2, <3>3, <4>1 DEF Spare
    <3>5. blocked[p] # <<>>
      BY <1>0, <1>1, <2>1
    <3> QED
      BY <1>0, <3>1, <3>4, <3>5 DEF Served
  <2>2. CASE k = Len(B)
    <3>1. SubSeq(B, Len(B) + 1, Len(B)) = <<>>
      BY <1>0
    <3>2. rest = <<>>
      BY <2>2, <3>1 DEF rest
    <3> QED
      BY <1>4, <3>2 DEF Served
  <2> QED
    BY <1>0, <2>1, <2>2
<1> QED
  BY <1>5, <1>6, RousesOthers

LEMMA DestroyServes ==
  ASSUME QueueInv, NEW p \in Ports, Destroy(p),
         NEW t, t \in Threads => pc[t] = "kill" /\ obj[t] = p /\ pc'[t] = "run",
         \A u \in Threads \ {t} : pc'[u] = pc[u] /\ obj'[u] = obj[u]
  PROVE  \A r \in Ports : Served(r)
<1> DEFINE S == Range(blocked[p])
           D == ReceiversOf(p)
<1>0. /\ TypeOK /\ WaitInv /\ p \in Queues
      /\ active' = active \ {p} /\ qlimit' = qlimit /\ msgcount' = msgcount
      /\ S \subseteq Threads
  BY QueueFacts, NamesDisjoint DEF QueueInv, Destroy
<1>1. \A r \in Ports \ {p} : blocked'[r] = blocked[r]
  BY <1>0 DEF Destroy, TypeOK
<1>2. \A u \in Threads : u \in D => pc[u] = "rcvwait" /\ u \notin S
  BY <1>0, WhereFacts DEF ReceiversOf, InQueue, IsBlocked
<1>3. /\ \A u \in S : state'[u] = "success"
      /\ \A u \in Threads \ S : pc[u] # "rcvwait" => state'[u] = state[u]
  <2>1. state' = [u \in Threads |-> CASE u \in D -> "died"
                                      [] u \in S -> "success" [] OTHER -> state[u]]
    BY DEF Destroy, Roused
  <2> HIDE DEF D, S
  <2>2. ASSUME NEW u \in Threads
        PROVE  /\ u \in S => state'[u] = "success"
               /\ u \notin S /\ pc[u] # "rcvwait" => state'[u] = state[u]
    <3>1. state'[u] = CASE u \in D -> "died" [] u \in S -> "success" [] OTHER -> state[u]
      BY <2>1
    <3> QED
      BY <1>2, <3>1
  <2> QED
    BY <1>0, <2>2
<1>4. S = Range(blocked[p])
  OBVIOUS
<1> HIDE DEF S
<1>5. Rouses(t, p, S)
  BY <1>0, <1>1, <1>3, <1>4 DEF Rouses
<1>6. Served(p)
  BY <1>0 DEF Served
<1> QED
  BY <1>5, <1>6, RousesOthers

LEMMA DestroysServe ==
  ASSUME QueueInv,
         \/ \E p \in Ports : ipc_port_destroy(p)
         \/ \E t \in Threads : DestroyCircular(t)
  PROVE  \A r \in Ports : Served(r)
<1>1. ASSUME NEW p \in Ports, ipc_port_destroy(p) PROVE \A r \in Ports : Served(r)
  <2>1. Destroy(p) /\ None \notin Threads /\ UNCHANGED call
    BY <1>1, NamesDisjoint DEF ipc_port_destroy
  <2> QED
    BY <2>1, DestroyServes DEF call
<1>2. ASSUME NEW t \in Threads, NEW p, p = obj[t], DestroyCircular(t)
      PROVE  \A r \in Ports : Served(r)
  <2>1. Destroy(p) /\ Done(t) /\ pc[t] = "kill" /\ TypeOK /\ p \in Ports
    BY <1>2 DEF DestroyCircular, QueueInv, WaitInv, ThreadOK
  <2>2. pc'[t] = "run" /\ \A u \in Threads \ {t} : pc'[u] = pc[u] /\ obj'[u] = obj[u]
    BY <2>1, DoneEffect
  <2> QED
    BY <1>2, <2>1, <2>2, DestroyServes
<1> QED
  BY <1>1, <1>2

LEMMA ServedStep ==
  ASSUME QueueInv, [Next]_vars
  PROVE  \A p \in Ports : Served(p)
<1>0. Senders \subseteq Threads
  BY MsgQueueAssumption
<1>1. CASE \/ \E t \in Threads : \E why : ClearWait(t, why)
           \/ \E t \in Threads : SendGo(t)
           \/ \E p \in Ports : PurgeMessage(p) \/ KernelReply(p) \/ CopyoutReceive(p)
           \/ \E p \in Ports : ipc_port_set_seqno(p, 0)
           \/ UNCHANGED vars
  BY <1>1, SmallAside, AsideServes
<1>2. CASE \E t \in Threads : \/ \E q, sz, poll : ipc_mqueue_receive(t, q, sz, poll)
                              \/ ReceiveWoken(t)
                              \/ mach_msg_interrupt(t)
  BY <1>2, ReceiveAside, AsideServes
<1>3. CASE \/ \E p \in Ports, s \in Psets \cup {None} : ipc_pset_move(p, s)
           \/ \E s \in Psets : ipc_pset_destroy(s)
           \/ \E p \in Ports : MoveReceive(p)
           \/ \E t \in Threads, p \in Ports : CopyinCircular(t, p)
  BY <1>3, SetsAside, AsideServes
<1>4. CASE \E t \in Threads :
             \/ \E p \in Ports, sz \in {"fit", "big"} : \E poll : ipc_mqueue_send(t, p, sz, poll)
             \/ \E poll : SendCircular(t, poll)
             \/ SendWoken(t)
  BY <1>4, SendsServe
<1>5. CASE \E p \in Ports : \E sz : ipc_mqueue_send_always(p, sz)
  BY <1>5, SendAlwaysServes
<1>6. CASE \E t \in Threads : ReceiveFinish(t)
  BY <1>6, FinishServes
<1>7. CASE \E p \in Ports, n \in QLimits : ipc_port_set_qlimit(p, n)
  BY <1>7, LimitServes
<1>8. CASE \/ \E p \in Ports : ipc_port_destroy(p)
           \/ \E t \in Threads : DestroyCircular(t)
  BY <1>8, DestroysServe
<1> QED
  BY <1>0, <1>1, <1>2, <1>3, <1>4, <1>5, <1>6, <1>7, <1>8 DEF Next, ThreadStep

\* The place that a received message or a raised limit leaves is never lost: while
\* senders sleep on a port, every free place has a sender that was woken for it and
\* has not looked yet (ipc_mqueue_receive, ipc_port_set_qlimit, and the ways in
\* which the loop of ipc_mqueue_send ends).
THEOREM NoPlaceLost == Spec => []NoSenderStranded
<1>1. Init => NoSenderStranded
  BY DEF Init, NoSenderStranded
<1>2. QueueInv /\ QueueInv' /\ NoSenderStranded /\ [Next]_vars => NoSenderStranded'
  BY ServedStep, ServedAll DEF QueueInv
<1> QED
  BY <1>1, <1>2, QueueInvariant, PTL DEF Spec
=============================================================================
