-------------------------- MODULE AbstractMsgQueue --------------------------
(***************************************************************************)
(* What Mach IPC promises about the messages of a port: they are handed    *)
(* to receiving threads in the order in which they were accepted, each to  *)
(* one thread, and none is lost while the port is alive.  Sets of ports,   *)
(* blocked threads and queue limits do not show: whatever is done with     *)
(* them, every port is one first-in first-out queue.                       *)
(***************************************************************************)
EXTENDS Naturals, Sequences

CONSTANTS Ports, Threads, Messages, None

VARIABLES
  queue,   \* the messages a port has accepted and not handed out
  hold,    \* the message a thread has been given, until it returns with it
  alive    \* the ports that are not destroyed

avars == <<queue, hold, alive>>

Init ==
  /\ queue = [p \in Ports |-> <<>>]
  /\ hold = [t \in Threads |-> None]
  /\ alive = Ports

\* A message is accepted and joins the queue.
Accept(p) ==
  /\ p \in alive
  /\ UNCHANGED <<hold, alive>>
  /\ \E m \in Messages : queue' = [queue EXCEPT ![p] = Append(@, m)]

\* A message is accepted and goes at once to a thread that waits for one.
Pass(p) ==
  /\ p \in alive /\ queue[p] = <<>>
  /\ UNCHANGED <<queue, alive>>
  /\ \E t \in Threads, m \in Messages :
       /\ hold[t] = None
       /\ hold' = [hold EXCEPT ![t] = m]

\* The k oldest messages go to k idle threads, one each.
Give(p, k) ==
  /\ queue' = [queue EXCEPT ![p] = SubSeq(@, k + 1, Len(@))]
  /\ UNCHANGED alive
  /\ \E to \in [1 .. k -> {t \in Threads : hold[t] = None}] :
       /\ \A i, j \in 1 .. k : to[i] = to[j] => i = j
       /\ hold' = [t \in Threads |->
                     IF \E i \in 1 .. k : to[i] = t
                     THEN queue[p][CHOOSE i \in 1 .. k : to[i] = t] ELSE hold[t]]

Receive(p) == \E k \in 1 .. Len(queue[p]) : Give(p, k)

Return(t) ==
  /\ hold[t] # None
  /\ UNCHANGED <<queue, alive>>
  /\ hold' = [hold EXCEPT ![t] = None]

Die(p) ==
  /\ p \in alive
  /\ alive' = alive \ {p}
  /\ UNCHANGED <<queue, hold>>

\* Only a dead port throws messages away.
Discard(p) ==
  /\ p \notin alive /\ queue[p] # <<>>
  /\ queue' = [queue EXCEPT ![p] = Tail(@)]
  /\ UNCHANGED <<hold, alive>>

Next ==
  \/ \E p \in Ports : Accept(p) \/ Pass(p) \/ Receive(p) \/ Die(p) \/ Discard(p)
  \/ \E t \in Threads : Return(t)

Spec == Init /\ [][Next]_avars
=============================================================================
