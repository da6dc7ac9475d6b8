------------------------------ MODULE MsgQueue ------------------------------
(***************************************************************************)
(* Message queues, port sets and queue limits of Mach IPC:                 *)
(* ipc/ipc_mqueue.c, ipc/ipc_pset.c, the queue half of ipc/ipc_port.c and  *)
(* the wake-ups of kern/ipc_sched.c.                                       *)
(*                                                                         *)
(* One action is one stretch of code under a port's or a queue's lock; the *)
(* windows in which the code holds neither (a thread blocked or woken and  *)
(* not yet running, a message handed over and not yet counted out, a dead  *)
(* port whose messages are being destroyed) are states of their own.       *)
(*                                                                         *)
(* A message is known by its port, its place in the order of acceptance    *)
(* and whether it is big.  A receiver can take any message ("fit"), takes  *)
(* a big one with an error and the header alone ("short"), or refuses it   *)
(* and is told its size ("large", MACH_RCV_LARGE).  The checks of old      *)
(* formats and of scatter lists end in one of these three ways too.        *)
(***************************************************************************)
EXTENDS Queues, FiniteSets

CONSTANTS
  Ports, Psets, Threads,
  Senders,       \* the threads that send
  None,          \* IPS_NULL, ITH_NULL, IKM_NULL
  Buffers,       \* the buffers that each thread receives with
  QLimits,       \* values of ip_qlimit that tasks set
  MP,            \* NCPUS > 1
  MaxSends,      \* bound on the messages a port accepts
  MaxSeqno       \* bound on ip_seqno

ASSUME MsgQueueAssumption ==
  /\ IsFiniteSet(Threads) /\ Senders \subseteq Threads
  /\ Ports \cap Psets = {} /\ None \notin Ports \cup Psets \cup Threads
  /\ Buffers \in [Threads -> SUBSET {"fit", "short", "large"}]
  /\ QLimits \subseteq Nat /\ QLimits # {}
  /\ MP \in BOOLEAN
  /\ MaxSends \in Nat /\ MaxSeqno \in Nat

Queues == Ports \cup Psets
Message == [port : Ports, num : 1 .. MaxSends, big : BOOLEAN]

ASSUME NullAssumption == None \notin Message

VARIABLES
  messages, threads,          \* imq_messages and imq_threads of every queue
  active, sets,               \* the ports and the port sets that are alive
  held,                       \* ports whose receive right a task holds
  pset, msgcount, qlimit, blocked, seqno,   \* ip_pset .. ip_seqno
  pc,                         \* where a thread is
  obj,                        \* the port or queue it uses, or the thread to wake
  size,                       \* its message (sender) or its buffer (receiver)
  state, kmsg, ith_seqno,     \* ith_state, ith_kmsg, ith_seqno
  waiting, wait_result,       \* TH_WAIT and wait_result
  sent,                       \* history: messages each port has accepted
  renumbered                  \* history: ports whose ip_seqno has been set

queues == <<messages, threads, seqno>>
portvars == <<active, sets, held, pset, qlimit>>
counts == <<msgcount, blocked>>
call == <<pc, obj, size>>
ith == <<state, kmsg, ith_seqno, waiting, wait_result>>
vars == <<queues, portvars, counts, call, ith, sent, renumbered>>

Init ==
  /\ messages = [q \in Queues |-> <<>>] /\ threads = [q \in Queues |-> <<>>]
  /\ active = Ports /\ sets = Psets /\ held = Ports
  /\ pset = [p \in Ports |-> None]
  /\ msgcount = [p \in Ports |-> 0]
  /\ qlimit \in [Ports -> QLimits]
  /\ blocked = [p \in Ports |-> <<>>]
  /\ seqno = [p \in Ports |-> 0]
  /\ pc = [t \in Threads |-> "run"] /\ obj = [t \in Threads |-> None]
  /\ size = [t \in Threads |-> "fit"]
  /\ state = [t \in Threads |-> "none"] /\ kmsg = [t \in Threads |-> None]
  /\ ith_seqno = [t \in Threads |-> 0]
  /\ waiting = [t \in Threads |-> FALSE]
  /\ wait_result = [t \in Threads |-> "none"]
  /\ sent = [p \in Ports |-> 0] /\ renumbered = {}

-----------------------------------------------------------------------------
(* Threads.                                                                *)

\* thread_go on every thread of S, by the thread me.
Go(S, me) ==
  /\ waiting' = [t \in Threads |-> waiting[t] /\ t \notin S]
  /\ wait_result' = [t \in Threads |->
                       IF t \in S /\ waiting[t] THEN "awakened"
                       ELSE IF t = me THEN "none" ELSE wait_result[t]]

Enter(t, at, o, sz) ==
  /\ pc' = [pc EXCEPT ![t] = at] /\ obj' = [obj EXCEPT ![t] = o]
  /\ size' = [size EXCEPT ![t] = sz]

\* The system call returns.
Done(t) == Enter(t, "run", None, "fit")

\* A wait of t is over: how it ended means nothing any more.
Settle(t) ==
  /\ state' = [state EXCEPT ![t] = "none"]
  /\ wait_result' = [wait_result EXCEPT ![t] = "none"]
  /\ UNCHANGED <<kmsg, ith_seqno, waiting>>

\* thread_will_wait and thread_block.
Block(t, at, o, sz) ==
  /\ Enter(t, at, o, sz)
  /\ state' = [state EXCEPT ![t] = "in_progress"]
  /\ waiting' = [waiting EXCEPT ![t] = TRUE]
  /\ wait_result' = [wait_result EXCEPT ![t] = "none"]
  /\ UNCHANGED <<kmsg, ith_seqno>>

\* clear_wait from outside: the timer of a wait that has a timeout, or
\* thread_abort and its like.
ClearWait(t, why) ==
  /\ waiting[t]
  /\ waiting' = [waiting EXCEPT ![t] = FALSE]
  /\ wait_result' = [wait_result EXCEPT ![t] = why]
  /\ UNCHANGED <<queues, portvars, counts, call, state, kmsg, ith_seqno, sent, renumbered>>

-----------------------------------------------------------------------------
(* Matching messages with receivers: the loops of ipc_mqueue_send and      *)
(* ipc_mqueue_move.                                                        *)

\* The queue a port's messages go to.
Home(p) == IF pset[p] = None THEN p ELSE pset[p]

OfPort(s, p) == Without(s, {m \in Message : m.port # p})
NotOfPort(s, p) == Without(s, {m \in Message : m.port = p})

Refuses(sz, m) == m.big /\ sz = "large"

\* g[i] is the place in R of the receiver that gets the i-th message of M: the
\* first one left that does not refuse it.  Messages find no receiver once all
\* have been given a message or have refused one.
Place(g, i) == IF i = 0 THEN 0 ELSE g[i]
Matches(R, M) ==
  {g \in UNION {[1 .. k -> DOMAIN R] : k \in {i \in 0 .. Len(M) : i <= Len(R)}} :
     /\ \A i \in DOMAIN g :
          /\ Place(g, i - 1) < g[i]
          /\ ~Refuses(size[R[g[i]]], M[i])
          /\ \A j \in Place(g, i - 1) + 1 .. g[i] - 1 : Refuses(size[R[j]], M[i])
     /\ Len(g) < Len(M) =>
          \A j \in Place(g, Len(g)) + 1 .. Len(R) : Refuses(size[R[j]], M[Len(g) + 1])}

\* How many receivers leave the queue R, with a message or a refusal.
Passed(R, M, g) == IF Len(g) = Len(M) THEN Place(g, Len(g)) ELSE Len(R)

Taker(R, g, t) == CHOOSE i \in DOMAIN g : R[g[i]] = t
Takers(R, g) == {R[g[i]] : i \in DOMAIN g}

\* As below, one number for all the messages of a move.
SameSeqno(p, i) == seqno[p]

\* ip_seqno++ for every message handed over.
NextSeqno(p, i) == seqno[p] + i - 1

\* Port p's messages M meet the receivers of queue q: each receiver that
\* leaves the queue learns why.  The threads C are told that their port has
\* changed; those of late are woken after the queue is unlocked.
HandOver(me, p, q, M, g, C, late) ==
  LET R == threads[q]
      out == {R[j] : j \in 1 .. Passed(R, M, g)}
      got == Takers(R, g)
      m(t) == M[Taker(R, g, t)]
  IN  /\ state' = [t \in Threads |->
                     CASE t \in got -> IF m(t).big /\ size[t] = "short"
                                       THEN "too_large" ELSE "success"
                       [] t \in C -> "changed"
                       [] t \in out \ (got \cup C) -> "too_large"
                       [] t = me -> "none"
                       [] OTHER -> state[t]]
      /\ kmsg' = [t \in Threads |-> IF t \in got THEN m(t) ELSE kmsg[t]]
      /\ ith_seqno' = [t \in Threads |->
                         IF t \in got THEN NextSeqno(p, Taker(R, g, t))
                         ELSE ith_seqno[t]]
      /\ seqno' = [seqno EXCEPT ![p] = @ + Len(g)]
      /\ Go((out \cup C) \ late, me)

-----------------------------------------------------------------------------
(* ipc_mqueue_send                                                         *)

Room(p) == msgcount[p] < qlimit[p]

\* A receiver that gets the message is woken after the queue is unlocked: with
\* several processors, anything can happen first.
Late(R, g) == IF MP THEN Takers(R, g) ELSE {}

\* The message m for port p is counted, and queued or handed to a receiver.
Deliver(me, p, m, g, late) ==
  LET q == Home(p)
      R == threads[q]
  IN  /\ sent[p] < MaxSends /\ seqno[p] + Len(g) <= MaxSeqno
      /\ sent' = [sent EXCEPT ![p] = @ + 1]
      /\ msgcount' = [msgcount EXCEPT ![p] = @ + 1]
      /\ HandOver(me, p, q, <<m>>, g, {}, late)
      /\ threads' = [threads EXCEPT ![q] = SubSeq(R, Passed(R, <<m>>, g) + 1, Len(R))]
      /\ messages' = [messages EXCEPT ![q] = @ \o SubSeq(<<m>>, Len(g) + 1, 1)]

NewMessage(p, sz) == [port |-> p, num |-> sent[p] + 1, big |-> sz = "big"]

SendNow(t, p, sz) ==
  \E g \in Matches(threads[Home(p)], <<NewMessage(p, sz)>>) :
    /\ Deliver(t, p, NewMessage(p, sz), g, Late(threads[Home(p)], g))
    /\ IF Late(threads[Home(p)], g) = {} THEN Done(t)
       ELSE Enter(t, "go", threads[Home(p)][g[1]], "fit")

\* The loop of ipc_mqueue_send, with the port locked and the threads blk
\* blocked on it.  poll: the timeout is 0, or over.
SendLoop(t, p, sz, poll, blk) ==
  \/ /\ p \notin active        \* as if it had been sent, and then destroyed
     /\ Done(t)
     /\ blocked' = blk
     /\ Settle(t) /\ UNCHANGED <<queues, msgcount, sent>>
  \/ /\ p \in active /\ Room(p) /\ sz # "circular"
     /\ SendNow(t, p, sz)
     /\ blocked' = blk
  \/ /\ p \in active /\ Room(p) /\ sz = "circular"
     /\ Enter(t, "kill", p, sz)
     /\ blocked' = blk
     /\ Settle(t) /\ UNCHANGED <<queues, msgcount, sent>>
  \/ /\ p \in active /\ ~Room(p) /\ poll      \* MACH_SEND_TIMED_OUT
     /\ Done(t)
     /\ blocked' = blk
     /\ Settle(t) /\ UNCHANGED <<queues, msgcount, sent>>
  \/ /\ p \in active /\ ~Room(p) /\ ~poll
     /\ blocked' = [blk EXCEPT ![p] = Append(@, t)]
     /\ Block(t, "sendwait", p, sz)
     /\ UNCHANGED <<queues, msgcount, sent>>

ipc_mqueue_send(t, p, sz, poll) ==
  /\ pc[t] = "run"
  /\ SendLoop(t, p, sz, poll, blocked)
  /\ UNCHANGED <<portvars, renumbered>>

\* As below, a thread that has been woken looks at the wakeup cause alone.
ToldByCause(t) == wait_result[t] = "awakened"

\* Somebody has changed ith_state: it counts, whatever else woke the thread.
Told(t) == state[t] # "in_progress"

BlockedWithout(t) == [blocked EXCEPT ![obj[t]] = Without(@, {t})]

\* After thread_block, in the loop of ipc_mqueue_send: why did we wake up?
SendWoken(t) ==
  LET p == obj[t]
      blk == BlockedWithout(t)
  IN  /\ pc[t] = "sendwait" /\ ~waiting[t]
      /\ \/ /\ Told(t)
            /\ SendLoop(t, p, size[t], FALSE, blocked)
         \/ /\ ~Told(t) /\ wait_result[t] = "interrupted"
            /\ Done(t) /\ blocked' = blk
            /\ Settle(t) /\ UNCHANGED <<queues, msgcount, sent>>
         \/ /\ ~Told(t) /\ wait_result[t] = "timed_out"
            /\ SendLoop(t, p, size[t], TRUE, blk)
      /\ UNCHANGED <<portvars, renumbered>>

\* thread_go(receiver), after imq_unlock.
SendGo(t) ==
  /\ pc[t] = "go"
  /\ Go({obj[t]}, t)
  /\ Done(t)
  /\ UNCHANGED <<queues, portvars, counts, state, kmsg, ith_seqno, sent, renumbered>>

\* A message that never waits: MACH_SEND_ALWAYS, a send-once right, or (not a
\* big one) a driver's interrupt, ipc_mqueue_send_interrupt.  Who sends it does
\* not matter.
ipc_mqueue_send_always(p, sz) ==
  /\ p \in active
  /\ \E g \in Matches(threads[Home(p)], <<NewMessage(p, sz)>>) :
       Deliver(None, p, NewMessage(p, sz), g, {})
  /\ UNCHANGED <<portvars, blocked, call, renumbered>>

-----------------------------------------------------------------------------
(* ipc_mqueue_receive                                                      *)

\* The loop of ipc_mqueue_receive on queue q, with the messages msgs and the
\* waiting threads thr.
ReceiveLoop(t, q, sz, poll, msgs, thr) ==
  \/ /\ msgs[q] # <<>> /\ Refuses(sz, Head(msgs[q]))   \* MACH_RCV_TOO_LARGE
     /\ Done(t)
     /\ messages' = msgs /\ threads' = thr
     /\ Settle(t) /\ UNCHANGED seqno
  \/ /\ msgs[q] # <<>> /\ ~Refuses(sz, Head(msgs[q]))
     /\ LET m == Head(msgs[q])
        IN  /\ seqno[m.port] < MaxSeqno
            /\ seqno' = [seqno EXCEPT ![m.port] = @ + 1]
            /\ kmsg' = [kmsg EXCEPT ![t] = m]
            /\ ith_seqno' = [ith_seqno EXCEPT ![t] = seqno[m.port]]
     /\ messages' = [msgs EXCEPT ![q] = Tail(@)] /\ threads' = thr
     /\ Enter(t, "got", None, "fit")
     /\ state' = [state EXCEPT ![t] = "none"]
     /\ wait_result' = [wait_result EXCEPT ![t] = "none"]
     /\ UNCHANGED waiting
  \/ /\ msgs[q] = <<>> /\ poll                 \* MACH_RCV_TIMED_OUT
     /\ Done(t)
     /\ messages' = msgs /\ threads' = thr
     /\ Settle(t) /\ UNCHANGED seqno
  \/ /\ msgs[q] = <<>> /\ ~poll
     /\ Block(t, "rcvwait", q, sz)
     /\ messages' = msgs /\ threads' = [thr EXCEPT ![q] = Append(@, t)]
     /\ UNCHANGED seqno

\* As below, the messages stay in the set's queue.
MovedNot(p) == messages

\* ipc_pset_remove.  No thread waits on the own queue of a port in a set, so
\* none can be given a message that moves there.
MovedHome(p) ==
  IF pset[p] = None THEN messages
  ELSE [messages EXCEPT ![pset[p]] = NotOfPort(@, p),
                        ![p] = @ \o OfPort(messages[pset[p]], p)]

\* ipc_mqueue_copyin: may q, a port or a port set, be received from?
\* (Not a port in a live set; a dead set lets its port go first.)
Copyin(q) == IF q \in Psets THEN q \in sets
             ELSE q \in active \cap held /\ pset[q] \notin sets

ipc_mqueue_receive(t, q, sz, poll) ==
  /\ pc[t] = "run"
  /\ Copyin(q)
  /\ ReceiveLoop(t, q, sz, poll, IF q \in Psets THEN messages ELSE MovedHome(q), threads)
  /\ pset' = IF q \in Psets THEN pset ELSE [pset EXCEPT ![q] = None]
  /\ UNCHANGED <<active, sets, held, qlimit, counts, sent, renumbered>>

\* A receiver that gives up leaves the queue.
LeavesQueue(t) == [threads EXCEPT ![obj[t]] = Without(@, {t})]

\* After thread_block, in the loop of ipc_mqueue_receive.
ReceiveWoken(t) ==
  /\ pc[t] = "rcvwait" /\ ~waiting[t]
  /\ \/ /\ Told(t)
        /\ \/ state[t] = "success"
           \/ state[t] = "too_large" /\ size[t] # "large"
        /\ Enter(t, "got", None, "fit")
        /\ Settle(t) /\ UNCHANGED queues
     \/ /\ Told(t)
        /\ \/ state[t] = "too_large" /\ size[t] = "large"
           \/ state[t] \in {"changed", "died"}
        /\ Done(t)
        /\ Settle(t) /\ UNCHANGED queues
     \/ /\ ~Told(t) /\ wait_result[t] = "interrupted"
        /\ Done(t)
        /\ threads' = LeavesQueue(t)
        /\ Settle(t) /\ UNCHANGED <<messages, seqno>>
     \/ /\ ~Told(t) /\ wait_result[t] = "timed_out"
        /\ ReceiveLoop(t, obj[t], size[t], TRUE, messages, LeavesQueue(t))
  /\ UNCHANGED <<portvars, counts, sent, renumbered>>

\* An interrupted thread that waits in a continuation is taken out of its
\* receive from outside, unless it has been told something.
mach_msg_interrupt(t) ==
  /\ pc[t] = "rcvwait" /\ ~waiting[t] /\ wait_result[t] = "interrupted"
  /\ ~Told(t)
  /\ threads' = LeavesQueue(t)
  /\ Done(t) /\ Settle(t)
  /\ UNCHANGED <<messages, seqno, portvars, counts, sent, renumbered>>

\* As below, before the message is counted out.
PlaceFreedBefore(p) == msgcount[p] < qlimit[p]

\* There is room for a sender, now that a message has been counted out.
PlaceFreed(p) == msgcount[p] - 1 < qlimit[p]

\* The second half of ipc_mqueue_receive: the message is counted out and a
\* sender may go on.
ReceiveFinish(t) ==
  LET p == kmsg[t].port
      wake == p \in active /\ blocked[p] # <<>> /\ PlaceFreed(p)
      S == IF wake THEN {Head(blocked[p])} ELSE {}
  IN  /\ pc[t] = "got"
      /\ Done(t) /\ kmsg' = [kmsg EXCEPT ![t] = None]
      /\ ith_seqno' = [ith_seqno EXCEPT ![t] = 0]
      /\ msgcount' = IF p \in active THEN [msgcount EXCEPT ![p] = @ - 1] ELSE msgcount
      /\ blocked' = IF wake THEN [blocked EXCEPT ![p] = Tail(@)] ELSE blocked
      /\ state' = [u \in Threads |-> IF u \in S THEN "success" ELSE state[u]]
      /\ Go(S, None)
      /\ UNCHANGED <<queues, portvars, sent, renumbered>>

-----------------------------------------------------------------------------
(* Port sets: ipc_pset.c.                                                  *)

\* As below, from the end of the queue.
MovingBackwards(s, p) ==
  LET m == OfPort(s, p) IN [i \in DOMAIN m |-> m[Len(m) + 1 - i]]

\* ipc_mqueue_move takes the messages of port p from a queue, in their order.
Moving(s, p) == OfPort(s, p)

\* ipc_pset_add, for the messages M of port p: they meet the receivers of the
\* set; the receivers of the port itself are sent away.
PsetAdd(p, s, M, rest) ==
  \E g \in Matches(threads[s], M) :
    /\ seqno[p] + Len(g) <= MaxSeqno
    /\ HandOver(None, p, s, M, g, Range(threads[p]), {})
    /\ messages' = [rest EXCEPT ![s] = @ \o SubSeq(M, Len(g) + 1, Len(M))]
    /\ threads' = [threads EXCEPT
                     ![s] = SubSeq(@, Passed(@, M, g) + 1, Len(@)), ![p] = <<>>]
    /\ pset' = [pset EXCEPT ![p] = s]

\* ipc_pset_move: into a set, from another one or from none; or out of a set.
ipc_pset_move(p, s) ==
  /\ p \in active \cap held /\ s \in sets \cup {None} /\ pset[p] # s
  /\ \/ /\ s # None
        /\ PsetAdd(p, s, Moving(messages[Home(p)], p),
                   [messages EXCEPT ![Home(p)] = NotOfPort(@, p)])
     \/ /\ s = None
        /\ messages' = MovedHome(p)
        /\ pset' = [pset EXCEPT ![p] = None]
        /\ UNCHANGED <<threads, seqno, ith>>
  /\ UNCHANGED <<active, sets, held, qlimit, counts, call, sent, renumbered>>

\* ipc_mqueue_changed: the threads of S learn why their wait is over.
Tell(S, why) ==
  /\ state' = [t \in Threads |-> IF t \in S THEN why ELSE state[t]]
  /\ Go(S, None)
  /\ UNCHANGED <<kmsg, ith_seqno>>

\* The members of the set leave it later, one by one.
ipc_pset_destroy(s) ==
  /\ s \in sets
  /\ sets' = sets \ {s}
  /\ Tell(Range(threads[s]), "died")
  /\ threads' = [threads EXCEPT ![s] = <<>>]
  /\ UNCHANGED <<messages, seqno, active, held, pset, qlimit, counts, call, sent, renumbered>>

-----------------------------------------------------------------------------
(* Ports: ipc_port.c.                                                      *)

\* As many senders go on as the limit was raised by.
WokenByLimit(p, n) ==
  LET k == IF n > qlimit[p] THEN n - qlimit[p] ELSE 0
  IN  SubSeq(blocked[p], 1, IF k < Len(blocked[p]) THEN k ELSE Len(blocked[p]))

ipc_port_set_qlimit(p, n) ==
  /\ p \in active \cap held
  /\ Tell(Range(WokenByLimit(p, n)), "success")
  /\ blocked' = [blocked EXCEPT ![p] =
                   SubSeq(@, Len(WokenByLimit(p, n)) + 1, Len(@))]
  /\ qlimit' = [qlimit EXCEPT ![p] = n]
  /\ UNCHANGED <<queues, active, sets, held, pset, msgcount, call, sent, renumbered>>

\* A dead set lets its port go.
ipc_port_set_seqno(p, n) ==
  /\ p \in active \cap held
  /\ seqno' = [seqno EXCEPT ![p] = n]
  /\ renumbered' = renumbered \cup {p}
  /\ IF pset[p] \in sets THEN UNCHANGED <<messages, pset>>
     ELSE messages' = MovedHome(p) /\ pset' = [pset EXCEPT ![p] = None]
  /\ UNCHANGED <<threads, active, sets, held, qlimit, counts, call, ith, sent>>

\* The receivers that ipc_port_clear_receiver sends away.  (Those of a set
\* that the port is in stay there.)
ReceiversOf(p) == IF p \in held THEN Range(threads[p]) ELSE {}

\* ipc_port_clear_receiver, but for what it tells the threads.
ClearReceiver(p) ==
  /\ messages' = MovedHome(p)
  /\ threads' = [threads EXCEPT ![p] = <<>>]
  /\ pset' = [pset EXCEPT ![p] = None]
  /\ seqno' = [seqno EXCEPT ![p] = 0]
  /\ renumbered' = renumbered \cup {p}

\* The receive right goes into a message, or to the backup port.
MoveReceive(p) ==
  /\ p \in active \cap held
  /\ held' = held \ {p}
  /\ ClearReceiver(p)
  /\ Tell(ReceiversOf(p), "died")
  /\ UNCHANGED <<active, sets, qlimit, counts, call, sent>>

\* ... into a message to the port itself, by thread t.
CopyinCircular(t, p) ==
  /\ pc[t] = "run"
  /\ p \in active \cap held
  /\ held' = held \ {p}
  /\ ClearReceiver(p)
  /\ Tell(ReceiversOf(p), "died")
  /\ Enter(t, "circular", p, "circular")
  /\ UNCHANGED <<active, sets, qlimit, counts, sent>>

SendCircular(t, poll) ==
  /\ pc[t] = "circular"
  /\ SendLoop(t, obj[t], "circular", poll, blocked)
  /\ UNCHANGED <<portvars, renumbered>>

\* The receive right of p is in a message that a thread is sending to p.
Circular(p) == \E t \in Threads : size[t] = "circular" /\ obj[t] = p

\* The message that holds the receive right is received.
CopyoutReceive(p) ==
  /\ p \in active \ held /\ ~Circular(p)
  /\ held' = held \cup {p}
  /\ UNCHANGED <<queues, active, sets, pset, qlimit, counts, call, ith, sent, renumbered>>

\* As below, but the senders sleep on.
RousedNone(p) == {}

Roused(p) == Range(blocked[p])

\* ipc_port_destroy, up to the destruction of the queued messages.
Destroy(p) ==
  /\ active' = active \ {p} /\ held' = held \ {p}
  /\ IF p \in held THEN ClearReceiver(p)
     ELSE UNCHANGED <<messages, threads, pset, seqno, renumbered>>
  /\ state' = [t \in Threads |-> CASE t \in ReceiversOf(p) -> "died"
                                   [] t \in Roused(p) -> "success"
                                   [] OTHER -> state[t]]
  /\ Go(ReceiversOf(p) \cup Roused(p), None)
  /\ blocked' = [blocked EXCEPT ![p] = Without(@, Roused(p))]
  /\ UNCHANGED <<sets, qlimit, msgcount, kmsg, ith_seqno, sent>>

ipc_port_destroy(p) ==
  /\ p \in active /\ ~Circular(p)
  /\ Destroy(p)
  /\ UNCHANGED call

\* ipc_kmsg_destroy of a circular message destroys the receive right in it.
DestroyCircular(t) ==
  /\ pc[t] = "kill"
  /\ Destroy(obj[t])
  /\ Done(t)

\* The next queued message of a dead port is destroyed.
PurgeMessage(p) ==
  /\ p \notin active /\ messages[p] # <<>>
  /\ messages' = [messages EXCEPT ![p] = Tail(@)]
  /\ UNCHANGED <<threads, seqno, portvars, counts, call, ith, sent, renumbered>>

\* msg_rpc_trap and mach_msg_rpc: the reply of the kernel goes to the caller
\* past the queue, if nobody waits for a message and none waits.
ReplyPasses(p) ==
  /\ p \in active \cap held /\ pset[p] = None
  /\ threads[p] = <<>> /\ messages[p] = <<>>

KernelReply(p) ==
  /\ ReplyPasses(p) /\ seqno[p] < MaxSeqno
  /\ seqno' = [seqno EXCEPT ![p] = @ + 1]
  /\ UNCHANGED <<messages, threads, portvars, counts, call, ith, sent, renumbered>>

-----------------------------------------------------------------------------
ThreadStep(t) ==
  \/ SendWoken(t) \/ SendGo(t) \/ DestroyCircular(t)
  \/ \E poll \in BOOLEAN : SendCircular(t, poll)
  \/ ReceiveWoken(t) \/ ReceiveFinish(t)

Next ==
  \/ \E t \in Threads :
       \/ ThreadStep(t)
       \/ \E why \in {"timed_out", "interrupted"} : ClearWait(t, why)
  \/ \E t \in Senders, p \in Ports :
       \/ \E sz \in {"fit", "big"}, poll \in BOOLEAN : ipc_mqueue_send(t, p, sz, poll)
       \/ CopyinCircular(t, p)
  \/ \E t \in Threads :
       \/ mach_msg_interrupt(t)
       \/ \E q \in Queues, sz \in Buffers[t], poll \in BOOLEAN :
            ipc_mqueue_receive(t, q, sz, poll)
  \/ \E p \in Ports :
       \/ \E sz \in {"fit", "big"} : ipc_mqueue_send_always(p, sz)
       \/ \E s \in Psets \cup {None} : ipc_pset_move(p, s)
       \/ \E n \in QLimits : ipc_port_set_qlimit(p, n)
       \/ ipc_port_set_seqno(p, 0) \/ KernelReply(p)
       \/ MoveReceive(p) \/ CopyoutReceive(p)
       \/ ipc_port_destroy(p) \/ PurgeMessage(p)
  \/ \E s \in Psets : ipc_pset_destroy(s)

Spec == Init /\ [][Next]_vars

-----------------------------------------------------------------------------
Pcs == {"run", "sendwait", "circular", "kill", "go", "rcvwait", "got"}

TypeOK ==
  /\ messages \in [Queues -> Seq(Message)]
  /\ threads \in [Queues -> Seq(Threads)]
  /\ active \subseteq Ports /\ held \subseteq active /\ sets \subseteq Psets
  /\ pset \in [Ports -> Psets \cup {None}]
  /\ msgcount \in [Ports -> Nat] /\ qlimit \in [Ports -> QLimits]
  /\ blocked \in [Ports -> Seq(Threads)]
  /\ seqno \in [Ports -> 0 .. MaxSeqno]
  /\ pc \in [Threads -> Pcs]
  /\ obj \in [Threads -> Queues \cup Threads \cup {None}]
  /\ size \in [Threads -> {"fit", "big", "circular", "short", "large"}]
  /\ state \in [Threads -> {"none", "in_progress", "success", "too_large",
                            "changed", "died"}]
  /\ kmsg \in [Threads -> Message \cup {None}]
  /\ ith_seqno \in [Threads -> 0 .. MaxSeqno]
  /\ waiting \in [Threads -> BOOLEAN]
  /\ wait_result \in [Threads -> {"none", "awakened", "timed_out", "interrupted"}]
  /\ sent \in [Ports -> 0 .. MaxSends] /\ renumbered \subseteq Ports

\* ip_msgcount, the number that senders compare with the limit, is the number
\* of the port's messages that are queued (in its own queue or its set's) or
\* in the hands of a thread that has not counted them out: the send, the
\* hand-over, the move between sets and the two halves of ipc_mqueue_receive
\* never count a message twice or forget one.
Holders(p) == {t \in Threads : kmsg[t] # None /\ kmsg[t].port = p}
CountsMatch ==
  \A p \in active : msgcount[p] = Len(OfPort(messages[Home(p)], p)) + Cardinality(Holders(p))

\* A port's messages are in one queue, that of the set it is in or its own;
\* no message waits while a receiver waits in the same queue (the assertions
\* of ipc_mqueue_send and ipc_mqueue_move); and nobody waits on the own queue
\* of a port that is in a set or has no receiver (as ipc_port_clear_receiver
\* and ipc_port_destroy assume).  The types rule out a lost set or receive right.
OneQueue ==
  /\ TypeOK
  /\ \A q \in Queues : \A i \in DOMAIN messages[q] : Home(messages[q][i].port) = q
  /\ \A q \in Queues : messages[q] = <<>> \/ threads[q] = <<>>
  /\ \A p \in Ports : p \notin held \/ pset[p] # None => threads[p] = <<>>

\* The place that a freed message or a raised limit leaves is never lost: while
\* senders sleep, every free place has a sender that was woken for it and
\* has not yet looked (or the port is about to die with its circular message).
Woken(p) == {t \in Threads : /\ pc[t] = "sendwait" /\ obj[t] = p
                             /\ state[t] = "success"}
NoSenderStranded ==
  \A p \in active : blocked[p] # <<>> =>
    \/ qlimit[p] - msgcount[p] <= Cardinality(Woken(p))
    \/ \E t \in Threads : pc[t] = "kill" /\ obj[t] = p

\* As long as nobody renumbers the port, the sequence numbers of messages in
\* the hands of several threads show the order in which the port accepted
\* them.
SeqnoOrder ==
  \A t, u \in Threads :
    /\ kmsg[t] # None /\ kmsg[u] # None
    /\ kmsg[t].port = kmsg[u].port /\ kmsg[t].port \notin renumbered
    /\ kmsg[t].num < kmsg[u].num
    => ith_seqno[t] < ith_seqno[u]

\* The queues implement one queue for each port, in order and without loss.
Abstract == INSTANCE AbstractMsgQueue WITH
              Messages <- Message,
              queue <- [p \in Ports |-> OfPort(messages[Home(p)], p)],
              hold <- kmsg,
              alive <- active
ImplementsFifo == Abstract!Spec

\* Every sleeper is where somebody will find it: a sender among the blocked
\* ones of a live port, a receiver in the queue of a live set, or of a port
\* that a task can receive from and that is in no set.  So the death of a port
\* or of a set, the move of a port into a set and the loss of its receive right
\* leave nobody asleep.  (With several processors, a receiver sleeps on until
\* the sender that gave it a message wakes it.)
Gone(q) == IF q \in Psets THEN q \notin sets ELSE q \notin held \/ pset[q] # None
NoSleeperForgotten ==
  \A t \in Threads : waiting[t] =>
    \/ pc[t] = "sendwait" /\ obj[t] \in active /\ t \in Range(blocked[obj[t]])
    \/ pc[t] = "rcvwait" /\ ~Gone(obj[t]) /\ t \in Range(threads[obj[t]])
    \/ \E u \in Threads : pc[u] = "go" /\ obj[u] = t

\* msg_rpc_trap gives the kernel's reply to the caller past the queue, and
\* asserts that no sender is blocked on the reply port then.
ReplyPortNotFull == \A p \in Ports : ReplyPasses(p) => blocked[p] = <<>>
=============================================================================
