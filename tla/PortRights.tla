----------------------------- MODULE PortRights -----------------------------
(***************************************************************************)
(* Port rights, user references and notifications of Mach IPC:             *)
(* ipc/ipc_right.c, the rights half of ipc/ipc_port.c and ipc_object.c.    *)
(*                                                                         *)
(* One action is one call made with the space locked for writing (and the  *)
(* port locked inside it).  What the code does after it has unlocked both  *)
(* is in states of its own: a right that is naked (in a message, or in the *)
(* hands of the kernel), a port that is dead and still has dead-name       *)
(* requests to answer, a dead space whose entries are being cleaned.       *)
(* Notifications that are on their way have no order among themselves.     *)
(*                                                                         *)
(* The ports that notifications are sent to are not modelled, nor are      *)
(* compatibility entries (MACH_IPC_COMPAT), message-accepted requests and  *)
(* port sets.                                                              *)
(***************************************************************************)
EXTENDS Integers, FiniteSets, FiniteSetsExt

CONSTANTS
  Ports, Spaces,
  Mortal,         \* the spaces that may be destroyed
  Slots,          \* the (space, name) pairs that can be entries
  None,           \* IO_NULL, and "no call under way"
  UrefsMax,       \* MACH_PORT_UREFS_MAX
  MaxNaked,       \* with as many naked rights of a kind, no more are made
  MaxMscount,     \* bound on ip_mscount
  MaxStray,       \* bound on send rights lost on a live port
  MaxDeaths       \* bound on dead-name requests and notifications at a time

ASSUME PortRightsAssumption ==
  /\ \A slot \in Slots : slot[1] \in Spaces
  /\ IsFiniteSet(Slots) /\ IsFiniteSet(Spaces)
  /\ Mortal \subseteq Spaces /\ None \notin Ports \cup Slots
  /\ UrefsMax \in Nat /\ UrefsMax >= 3
  /\ MaxNaked \in Nat /\ MaxMscount \in Nat /\ MaxStray \in Nat /\ MaxDeaths \in Nat

VARIABLES
  alive,      \* the spaces that are alive
  entry,      \* of every slot: the port, the rights, the user references and
              \* whether a dead-name request is registered (ie_request)
  port,       \* of every port: the fields of struct ipc_port
  dnrequests, \* ip_dnrequests: registered requests of every name
  naked,      \* rights that are in no space; "dest" is a send-once right that
              \* a message is being sent to
  busy,       \* the ipc_kmsg_copyin_header that has a space locked
  deaths,     \* dead-name notifications sent to a name's owner and not received
  nosenders,  \* no-senders notifications: the counts they carry, as long as
              \* ip_mscount can still be compared with them
  held,       \* history: user references that a task was given for a name,
              \* with a right or with a notification, less those it gave back
  early,      \* history: the no-senders request was made before any send right
  stray       \* history: send rights that became dead names on a live port

kernel == <<alive, entry, port, dnrequests, naked, busy>>
vars == <<kernel, deaths, nosenders, held, early, stray>>

Empty == [port |-> None, type |-> {}, urefs |-> 0, request |-> FALSE]
Nothing == [send |-> 0, once |-> 0, dest |-> 0, receive |-> 0]

\* ipc_port_alloc has made every port, with its receive right in an entry.
Init ==
  /\ alive = Spaces
  /\ busy = [s \in Spaces |-> None]
  /\ \E home \in [Ports -> Slots] :
       /\ \A p, q \in Ports : p # q => home[p] # home[q]
       /\ entry = [slot \in Slots |->
                     IF \E p \in Ports : home[p] = slot
                     THEN [Empty EXCEPT !.port = CHOOSE p \in Ports : home[p] = slot,
                                        !.type = {"receive"}]
                     ELSE Empty]
       /\ port = [p \in Ports |->
                    [active |-> TRUE, dying |-> FALSE, receiver |-> home[p],
                     srights |-> 0, sorights |-> 0, mscount |-> 0, refs |-> 1,
                     ns |-> FALSE, pd |-> FALSE]]
  /\ dnrequests = [p \in Ports |-> [slot \in Slots |-> 0]]
  /\ naked = [p \in Ports |-> Nothing]
  /\ deaths = [slot \in Slots |-> 0]
  /\ nosenders = [p \in Ports |-> {}]
  /\ held = [slot \in Slots |-> 0]
  /\ early = {} /\ stray = [p \in Ports |-> 0]

-----------------------------------------------------------------------------
(* What the routines are made of.                                          *)

\* The space is alive and nobody has it locked.
Ready(slot) == slot[1] \in alive /\ busy[slot[1]] = None

\* Naked rights that no ipc_kmsg_copyin_header under way holds.
Free(p, right) ==
  naked[p][right]
  - Cardinality({s \in Spaces : /\ busy[s] # None
                                /\ busy[s].port = p /\ busy[s].right = right})

\* As below, without the reference for the notification.
ConvertBare(e) == [Empty EXCEPT !.type = {"dead"}, !.urefs = e.urefs]

\* An entry becomes a dead name.  If a request was registered, the notification
\* comes with a user reference.
Convert(e) ==
  [Empty EXCEPT !.type = {"dead"}, !.urefs = e.urefs + (IF e.request THEN 1 ELSE 0)]

Stale(slot) == entry[slot].port # None /\ ~port[entry[slot].port].active

\* ipc_right_check: what the entry is, once a dead port has been noticed ...
Checked(slot) == IF Stale(slot) THEN Convert(entry[slot]) ELSE entry[slot]

\* As below, but the entry keeps its reference.
CheckedPortsKept(slot) == port

\* ... and the ports, whose reference the entry gives up.
CheckedPorts(slot) ==
  IF Stale(slot) THEN [port EXCEPT ![entry[slot].port].refs = @ - 1] ELSE port

\* A send right goes away: the last one takes the no-senders request with it.
LoseSend(r) == [r EXCEPT !.srights = @ - 1, !.ns = @ /\ r.srights > 1]

\* The notification that goes with it.
NoSendersFor(p) ==
  IF port[p].ns /\ port[p].srights = 1 THEN {port[p].mscount} ELSE {}

\* ipc_right_dncancel: the request, if there is one, leaves the port's table.
Cancelled(slot) ==
  IF entry[slot].request THEN [dnrequests EXCEPT ![entry[slot].port][slot] = @ - 1]
  ELSE dnrequests

\* The task gives back n references.
GiveBack(slot, n) == held' = [held EXCEPT ![slot] = @ - n]

\* ipc_port_destroy, of a port r that has no receiver any more.  If it has a
\* backup, its receive right goes there in a port-destroyed notification
\* (unless the backup is itself in a message to the port); else it dies, and
\* the requests are answered after it is unlocked.  (The counts of a dead port
\* are never read again.)  The caller has made a dead name of lost send rights.
DestroyPort(p, r, lost) ==
  /\ \/ /\ r.pd
        /\ port' = [port EXCEPT ![p] = [r EXCEPT !.pd = FALSE]]
        /\ naked' = [naked EXCEPT ![p].receive = 1]
        /\ stray' = [stray EXCEPT ![p] = @ + lost]
        /\ UNCHANGED early
     \/ /\ port' = [port EXCEPT ![p] = [r EXCEPT !.pd = FALSE, !.ns = FALSE,
                                                 !.srights = 0, !.sorights = 0,
                                                 !.active = FALSE, !.dying = TRUE]]
        /\ naked' = [naked EXCEPT ![p].receive = 0]
        /\ stray' = [stray EXCEPT ![p] = 0]
        /\ early' = early \ {p}
  /\ nosenders' = [nosenders EXCEPT ![p] = {}]

\* ipc_port_clear_receiver
Cleared(r) == [r EXCEPT !.mscount = 0, !.receiver = None]

-----------------------------------------------------------------------------
(* ipc_right_copyin: a task puts a right into a message.  (With deadok, to *)
(* copy a right to a dead port is ipc_right_info, and to move it is        *)
(* ipc_right_dealloc; the message says MACH_PORT_DEAD.)                    *)

\* As below, but the make-send count stays.
MadeSendUncounted(r) == [r EXCEPT !.srights = @ + 1, !.refs = @ + 1]

\* ip_mscount counts the send rights ever made from the receive right.
MadeSend(r) == [r EXCEPT !.mscount = @ + 1, !.srights = @ + 1, !.refs = @ + 1]

MakeSend(slot) ==
  LET p == entry[slot].port
  IN  /\ Ready(slot) /\ "receive" \in entry[slot].type
      /\ naked[p].send < MaxNaked /\ port[p].mscount < MaxMscount
      /\ port' = [port EXCEPT ![p] = MadeSend(@)]
      /\ naked' = [naked EXCEPT ![p].send = @ + 1]
      /\ nosenders' = [nosenders EXCEPT ![p] = {k \in @ : k >= port'[p].mscount}]
      /\ early' = early \ {p}
      /\ UNCHANGED <<alive, entry, dnrequests, busy, deaths, held, stray>>

MakeSendOnce(slot) ==
  LET p == entry[slot].port
  IN  /\ Ready(slot) /\ "receive" \in entry[slot].type
      /\ naked[p].once + naked[p].dest < MaxNaked
      /\ port' = [port EXCEPT ![p].sorights = @ + 1, ![p].refs = @ + 1]
      /\ naked' = [naked EXCEPT ![p].once = @ + 1]
      /\ UNCHANGED <<alive, entry, dnrequests, busy, deaths, nosenders, held, early, stray>>

\* The entry keeps its send right, and with it its reference to the port and
\* its dead-name request.
MoveReceive(slot) ==
  LET e == entry[slot]
      p == e.port
      both == "send" \in e.type
  IN  /\ Ready(slot) /\ "receive" \in e.type
      /\ entry' = [entry EXCEPT ![slot] =
                     IF both THEN [e EXCEPT !.type = {"send"}] ELSE Empty]
      /\ port' = [port EXCEPT ![p] =
                    [Cleared(port[p]) EXCEPT !.refs = IF both THEN @ + 1 ELSE @]]
      /\ naked' = [naked EXCEPT ![p].receive = 1]
      /\ dnrequests' = IF both THEN dnrequests ELSE Cancelled(slot)
      /\ nosenders' = [nosenders EXCEPT ![p] = {}]
      /\ UNCHANGED <<alive, busy, deaths, held, early, stray>>

CopySend(slot) ==
  LET p == entry[slot].port
  IN  /\ "send" \in entry[slot].type /\ port[p].active
      /\ naked[p].send < MaxNaked
      /\ port' = [port EXCEPT ![p].srights = @ + 1, ![p].refs = @ + 1]
      /\ naked' = [naked EXCEPT ![p].send = @ + 1]
      /\ UNCHANGED <<entry, dnrequests, held>>

\* n send rights leave the entry: one with ipc_right_copyin, two with
\* ipc_right_copyin_two.  With the last reference, so does the entry's own.
MoveSend(slot, n) ==
  LET e == entry[slot]
      p == e.port
      last == e.urefs = n
      rest == e.type \ {"send"}
  IN  /\ "send" \in e.type /\ port[p].active
      /\ e.urefs >= n /\ naked[p].send < MaxNaked
      /\ entry' = [entry EXCEPT ![slot] =
                     IF ~last THEN [e EXCEPT !.urefs = @ - n]
                     ELSE IF rest = {} THEN Empty
                     ELSE [e EXCEPT !.type = rest, !.urefs = 0]]
      /\ port' = [port EXCEPT ![p].srights = IF last THEN @ + n - 1 ELSE @ + n,
                              ![p].refs = IF last /\ rest = {} THEN @ + n - 1 ELSE @ + n]
      /\ naked' = [naked EXCEPT ![p].send = @ + n]
      /\ dnrequests' = IF last /\ rest = {} THEN Cancelled(slot) ELSE dnrequests
      /\ GiveBack(slot, n)

MoveSendOnce(slot) ==
  LET p == entry[slot].port
  IN  /\ "once" \in entry[slot].type /\ port[p].active
      /\ naked[p].once + naked[p].dest < MaxNaked
      /\ entry' = [entry EXCEPT ![slot] = Empty]
      /\ naked' = [naked EXCEPT ![p].once = @ + 1]
      /\ dnrequests' = Cancelled(slot)
      /\ GiveBack(slot, 1)
      /\ UNCHANGED port

\* The three rights that a message can be sent to.
Kinds == {"copy", "move", "once"}
CopyinRight(slot, kind) ==
  \/ kind = "copy" /\ CopySend(slot)
  \/ kind = "move" /\ MoveSend(slot, 1)
  \/ kind = "once" /\ MoveSendOnce(slot)

ipc_object_copyin(slot, kind) ==
  /\ Ready(slot)
  /\ CopyinRight(slot, kind)
  /\ UNCHANGED <<alive, busy, deaths, nosenders, early, stray>>

\* The destination is the reply port too, and both rights are moved.
CopyinTwo(slot) ==
  /\ Ready(slot)
  /\ MoveSend(slot, 2)
  /\ UNCHANGED <<alive, busy, deaths, nosenders, early, stray>>

\* ipc_kmsg_copyin_header has copied in the destination, which was alive; the
\* space stays locked until the reply port, of which no more is modelled, has
\* been copied in.
HeaderCopyin(slot, kind) ==
  /\ Ready(slot)
  /\ CopyinRight(slot, kind)
  /\ busy' = [busy EXCEPT ![slot[1]] =
                [slot |-> slot, port |-> entry[slot].port,
                 right |-> IF kind = "once" THEN "once" ELSE "send",
                 back |-> IF kind = "copy" THEN 0 ELSE 1,
                 soright |-> entry'[slot] = Empty /\ entry[slot].request]]
  /\ UNCHANGED <<alive, deaths, nosenders, early, stray>>

HeaderDone(s) ==
  /\ busy[s] # None
  /\ busy' = [busy EXCEPT ![s] = None]
  /\ UNCHANGED <<alive, entry, port, dnrequests, naked, deaths, nosenders, held, early, stray>>

\* The destination has died and so, later, has the reply port, before it was
\* copied in: ipc_right_copyin_undo.
HeaderUndo(s) ==
  LET slot == busy[s].slot
      p == busy[s].port
      e == entry[slot]
      back == busy[s].back
      dead(n) == [Empty EXCEPT !.type = {"dead"}, !.urefs = n]
  IN  /\ busy[s] # None /\ ~port[p].active
      /\ busy' = [busy EXCEPT ![s] = None]
      /\ entry' = [entry EXCEPT ![slot] =
                     IF busy[s].soright THEN dead(2)
                     ELSE IF e = Empty THEN dead(1)
                     ELSE Convert([e EXCEPT !.urefs = @ + back])]
      /\ port' = [port EXCEPT ![p].refs = IF e = Empty THEN @ - 1 ELSE @ - 2]
      /\ naked' = [naked EXCEPT ![p][busy[s].right] = @ - 1]
      /\ deaths' = [deaths EXCEPT ![slot] = IF busy[s].soright THEN @ + 1 ELSE @]
      /\ GiveBack(slot, -back)
      /\ UNCHANGED <<alive, dnrequests, nosenders, early, stray>>

-----------------------------------------------------------------------------
(* ipc_object_copyout: a task takes a right out of a message.  (A right to *)
(* a dead port is released instead, and the message says MACH_PORT_DEAD.)  *)

\* As below, in an entry that is free.
SlotForNew(p, slot) == Ready(slot) /\ entry[slot] = Empty

\* ipc_right_reverse, or an entry that is free.
SlotFor(p, slot) ==
  /\ Ready(slot)
  /\ LET there == {x \in Slots : x[1] = slot[1] /\ entry[x].port = p
                                 /\ entry[x].type \cap {"send", "receive"} # {}}
     IN  IF there = {} THEN entry[slot] = Empty ELSE slot \in there

\* As below, but the count may reach the maximum.
PeggedLate(e) == e.urefs = UrefsMax

\* The count of user references stops one short of the maximum, so that there
\* is a reference left for a dead-name notification.
Pegged(e) == e.urefs + 1 = UrefsMax

\* As below, but two send rights of an entry count twice.
MergedTwice(e, n) == n

\* A send right that meets another one in its entry becomes a user reference.
Merged(e, n) == IF "send" \in e.type THEN n - 1 ELSE n

CopyoutSend(p, slot) ==
  LET e == entry[slot]
      pegged == Pegged(e)
  IN  /\ port[p].active /\ Free(p, "send") > 0
      /\ SlotFor(p, slot)
      /\ entry' = [entry EXCEPT ![slot] =
                     [e EXCEPT !.port = p, !.type = @ \cup {"send"},
                               !.urefs = IF pegged THEN @ ELSE @ + 1]]
      /\ port' = [port EXCEPT
                    ![p].srights = Merged(e, @),
                    ![p].refs = IF e = Empty THEN @ ELSE @ - 1]
      /\ naked' = [naked EXCEPT ![p].send = @ - 1]
      /\ held' = [held EXCEPT ![slot] = IF pegged THEN @ ELSE @ + 1]
      /\ UNCHANGED <<alive, dnrequests, busy, deaths, nosenders, early, stray>>

CopyoutSendOnce(p, slot) ==
  /\ port[p].active /\ Free(p, "once") > 0
  /\ Ready(slot) /\ entry[slot] = Empty
  /\ entry' = [entry EXCEPT ![slot] =
                 [Empty EXCEPT !.port = p, !.type = {"once"}, !.urefs = 1]]
  /\ naked' = [naked EXCEPT ![p].once = @ - 1]
  /\ held' = [held EXCEPT ![slot] = @ + 1]
  /\ UNCHANGED <<alive, port, dnrequests, busy, deaths, nosenders, early, stray>>

CopyoutReceive(p, slot) ==
  /\ naked[p].receive > 0
  /\ SlotFor(p, slot)
  /\ entry' = [entry EXCEPT ![slot] =
                 [entry[slot] EXCEPT !.port = p, !.type = @ \cup {"receive"}]]
  /\ port' = [port EXCEPT ![p].receiver = slot,
                          ![p].refs = IF entry[slot] = Empty THEN @ ELSE @ - 1]
  /\ naked' = [naked EXCEPT ![p].receive = 0]
  /\ UNCHANGED <<alive, dnrequests, busy, deaths, nosenders, held, early, stray>>

-----------------------------------------------------------------------------
(* Naked rights: ipc_port.c, ipc_object.c.                                 *)

\* ipc_port_copy_send, and ipc_object_copyin_from_kernel of a port that may
\* be dead.
CopySendNaked(p) ==
  /\ Free(p, "send") > 0 /\ naked[p].send <= MaxNaked
  /\ port' = [port EXCEPT ![p].srights = IF port[p].active THEN @ + 1 ELSE @,
                          ![p].refs = @ + 1]
  /\ naked' = [naked EXCEPT ![p].send = @ + 1]
  /\ UNCHANGED <<alive, entry, dnrequests, busy, deaths, nosenders, held, early, stray>>

\* The right is in a message that is destroyed, or is the destination of one
\* that is received (ipc_object_copyout_dest).
ipc_port_release_send(p) ==
  /\ Free(p, "send") > 0
  /\ naked' = [naked EXCEPT ![p].send = @ - 1]
  /\ port' = [port EXCEPT ![p] = [(IF port[p].active THEN LoseSend(port[p]) ELSE port[p])
                                    EXCEPT !.refs = @ - 1]]
  /\ nosenders' = [nosenders EXCEPT ![p] =
                     IF port[p].active THEN @ \cup NoSendersFor(p) ELSE @]
  /\ UNCHANGED <<alive, entry, dnrequests, busy, deaths, held, early, stray>>

\* A send-once right is used for its message, or for a notification that it
\* was not.
ipc_notify_send_once(p) ==
  /\ Free(p, "once") > 0
  /\ naked' = [naked EXCEPT ![p].once = @ - 1, ![p].dest = @ + 1]
  /\ UNCHANGED <<alive, entry, port, dnrequests, busy, deaths, nosenders, held, early, stray>>

\* The message is received by the port's receiver (a task that is not the
\* receiver any more has another notification sent), or destroyed.
CopyoutDest(p) ==
  /\ naked[p].dest > 0
  /\ port[p].active => port[p].receiver # None
  /\ naked' = [naked EXCEPT ![p].dest = @ - 1]
  /\ port' = [port EXCEPT ![p].sorights = IF port[p].active THEN @ - 1 ELSE @,
                          ![p].refs = @ - 1]
  /\ UNCHANGED <<alive, entry, dnrequests, busy, deaths, nosenders, held, early, stray>>

ipc_port_release_receive(p) ==
  /\ naked[p].receive > 0
  /\ DestroyPort(p, port[p], 0)
  /\ UNCHANGED <<alive, entry, dnrequests, busy, deaths, held>>

-----------------------------------------------------------------------------
(* ipc_right.c: what a task does with a name.                              *)

\* Every call looks first whether the port has died; this one does no more.
ipc_right_info(slot) ==
  /\ Ready(slot) /\ Stale(slot)
  /\ entry' = [entry EXCEPT ![slot] = Checked(slot)]
  /\ port' = CheckedPorts(slot)
  /\ UNCHANGED <<alive, dnrequests, naked, busy, deaths, nosenders, held, early, stray>>

\* The user references of a dead name change by d.
DeadDelta(slot, d) ==
  LET e == Checked(slot)
  IN  /\ e.type = {"dead"} /\ e.urefs + d \in 0 .. UrefsMax
      /\ entry' = [entry EXCEPT ![slot] =
                     IF e.urefs + d = 0 THEN Empty ELSE [e EXCEPT !.urefs = @ + d]]
      /\ port' = CheckedPorts(slot)
      /\ GiveBack(slot, -d)
      /\ UNCHANGED <<dnrequests, naked, nosenders>>

\* The same for a send right to a live port, which never has UrefsMax.
SendDelta(slot, d) ==
  LET e == entry[slot]
      p == e.port
      rest == e.type \ {"send"}
  IN  /\ "send" \in e.type /\ port[p].active
      /\ e.urefs + d \in 0 .. UrefsMax - 1
      /\ IF e.urefs + d > 0
         THEN /\ entry' = [entry EXCEPT ![slot].urefs = @ + d]
              /\ UNCHANGED <<port, dnrequests, nosenders>>
         ELSE /\ entry' = [entry EXCEPT ![slot] =
                             IF rest = {} THEN Empty
                             ELSE [e EXCEPT !.type = rest, !.urefs = 0]]
              /\ port' = [port EXCEPT ![p] =
                            [LoseSend(port[p]) EXCEPT !.refs = IF rest = {} THEN @ - 1 ELSE @]]
              /\ dnrequests' = IF rest = {} THEN Cancelled(slot) ELSE dnrequests
              /\ nosenders' = [nosenders EXCEPT ![p] = @ \cup NoSendersFor(p)]
      /\ GiveBack(slot, -d)
      /\ UNCHANGED naked

\* A send-once right to a live port goes: its port is told.
OnceGone(slot) ==
  LET p == entry[slot].port
  IN  /\ "once" \in entry[slot].type /\ port[p].active
      /\ entry' = [entry EXCEPT ![slot] = Empty]
      /\ naked' = [naked EXCEPT ![p].dest = @ + 1]
      /\ dnrequests' = Cancelled(slot)
      /\ GiveBack(slot, 1)
      /\ UNCHANGED <<port, nosenders>>

ipc_right_dealloc(slot) ==
  /\ Ready(slot)
  /\ DeadDelta(slot, -1) \/ SendDelta(slot, -1) \/ OnceGone(slot)
  /\ UNCHANGED <<alive, busy, deaths, early, stray>>

\* (A delta of -1 is ipc_right_dealloc; a send-once right allows no other.)
ipc_right_delta(slot, d) ==
  /\ Ready(slot)
  /\ DeadDelta(slot, d) \/ SendDelta(slot, d)
  /\ UNCHANGED <<alive, busy, deaths, early, stray>>

\* ipc_right_delta of a receive right.  The send right that is there too
\* becomes a dead name, though ipc_port_destroy may let the port live on.
DeltaReceive(slot) ==
  LET e == entry[slot]
      p == e.port
      both == "send" \in e.type
  IN  /\ Ready(slot) /\ "receive" \in e.type
      /\ entry' = [entry EXCEPT ![slot] = IF both THEN Convert(e) ELSE Empty]
      /\ dnrequests' = IF both THEN dnrequests ELSE Cancelled(slot)
      /\ DestroyPort(p, Cleared(port[p]), IF both THEN 1 ELSE 0)
      /\ UNCHANGED <<alive, busy, deaths, held>>

\* What ipc_right_destroy and ipc_right_clean do with the right e to a live
\* port.
DestroyRight(slot, e) ==
  LET p == e.port
      r == IF "send" \in e.type THEN LoseSend(port[p]) ELSE port[p]
      told == IF "send" \in e.type THEN NoSendersFor(p) ELSE {}
  IN  /\ dnrequests' = Cancelled(slot)
      /\ \/ /\ "receive" \in e.type
            /\ DestroyPort(p, Cleared(r), 0)
         \/ /\ e.type = {"once"}
            /\ naked' = [naked EXCEPT ![p].dest = @ + 1]
            /\ UNCHANGED <<port, nosenders, early, stray>>
         \/ /\ e.type = {"send"}
            /\ port' = [port EXCEPT ![p] = [r EXCEPT !.refs = @ - 1]]
            /\ nosenders' = [nosenders EXCEPT ![p] = @ \cup told]
            /\ UNCHANGED <<naked, early, stray>>

\* A dead name, or a right to a dead port, just goes, with all its references
\* (that of a dead-name notification on its way included).
ipc_right_destroy(slot) ==
  LET e == entry[slot]
  IN  /\ Ready(slot) /\ e # Empty
      /\ entry' = [entry EXCEPT ![slot] = Empty]
      /\ IF e.port # None /\ port[e.port].active
         THEN DestroyRight(slot, e)
         ELSE /\ port' = CheckedPorts(slot)
              /\ UNCHANGED <<dnrequests, naked, nosenders, early, stray>>
      /\ GiveBack(slot, Checked(slot).urefs)
      /\ UNCHANGED <<alive, busy, deaths>>

ipc_space_destroy(s) ==
  /\ s \in alive \cap Mortal /\ busy[s] = None
  /\ alive' = alive \ {s}
  /\ held' = [slot \in Slots |-> IF slot[1] = s THEN 0 ELSE held[slot]]
  /\ UNCHANGED <<entry, port, dnrequests, naked, busy, deaths, nosenders, early, stray>>

\* One entry of a dead space, which nobody locks.
ipc_right_clean(slot) ==
  LET e == entry[slot]
  IN  /\ slot[1] \notin alive /\ e # Empty
      /\ entry' = [entry EXCEPT ![slot] = Empty]
      /\ IF e.port # None /\ port[e.port].active
         THEN DestroyRight(slot, e)
         ELSE /\ port' = CheckedPorts(slot)
              /\ UNCHANGED <<dnrequests, naked, nosenders, early, stray>>
      /\ UNCHANGED <<alive, busy, deaths, held>>

\* The name o becomes the name n.
ipc_right_rename(o, n) ==
  LET e == IF entry[o].request THEN Checked(o) ELSE entry[o]
      p == e.port
  IN  /\ Ready(o) /\ o[1] = n[1] /\ entry[o] # Empty /\ entry[n] = Empty
      /\ entry' = [entry EXCEPT ![o] = Empty, ![n] = e]
      /\ port' = IF "receive" \in e.type THEN [port EXCEPT ![p].receiver = n]
                 ELSE IF entry[o].request THEN CheckedPorts(o) ELSE port
      /\ dnrequests' = IF e.request
                       THEN [dnrequests EXCEPT ![p][o] = @ - 1, ![p][n] = @ + 1]
                       ELSE dnrequests
      /\ held' = [held EXCEPT ![o] = @ - e.urefs, ![n] = @ + e.urefs]
      /\ UNCHANGED <<alive, naked, busy, deaths, nosenders, early, stray>>

-----------------------------------------------------------------------------
(* Requests for notifications: mach_port_request_notification.             *)

\* The requests for a name, in the tables of all ports.
Requests(slot) == UNION {{p} \X (1 .. dnrequests[p][slot]) : p \in Ports}
Owed(slot) == Cardinality(Requests(slot))

AllDeaths == MapThenSumSet(LAMBDA slot : deaths[slot] + Owed(slot), Slots)

\* ipc_right_dnrequest, with a notify port: a request is made, or replaces the
\* one that is there; a name that is dead already is notified at once.
ipc_right_dnrequest(slot) ==
  LET e == Checked(slot)
  IN  /\ Ready(slot) /\ AllDeaths < MaxDeaths
      /\ \/ /\ e.type # {} /\ e.type # {"dead"}
            /\ entry' = [entry EXCEPT ![slot].request = TRUE]
            /\ dnrequests' = IF e.request THEN dnrequests
                             ELSE [dnrequests EXCEPT ![e.port][slot] = @ + 1]
            /\ UNCHANGED <<port, deaths>>
         \/ /\ e.type = {"dead"} /\ e.urefs < UrefsMax
            /\ entry' = [entry EXCEPT ![slot] = [e EXCEPT !.urefs = @ + 1]]
            /\ port' = CheckedPorts(slot)
            /\ deaths' = [deaths EXCEPT ![slot] = @ + 1]
            /\ UNCHANGED dnrequests
      /\ UNCHANGED <<alive, naked, busy, nosenders, held, early, stray>>

\* ipc_right_dnrequest without one.
CancelRequest(slot) ==
  /\ Ready(slot) /\ ~Stale(slot) /\ entry[slot].request
  /\ entry' = [entry EXCEPT ![slot].request = FALSE]
  /\ dnrequests' = Cancelled(slot)
  /\ UNCHANGED <<alive, port, naked, busy, deaths, nosenders, held, early, stray>>

\* As below, but the task must know of fewer.
AlreadyNoSendersLess(p, sync) == port[p].srights = 0 /\ sync < port[p].mscount

\* The port has no send right, and it has had as many as the task knows of.
AlreadyNoSenders(p, sync) == port[p].srights = 0 /\ sync <= port[p].mscount

\* Without a send-once right to notify, a request only cancels the one before.
ipc_port_nsrequest(p, sync, notify) ==
  /\ port[p].active /\ port[p].receiver # None /\ Ready(port[p].receiver)
  /\ port' = [port EXCEPT ![p].ns = notify /\ ~AlreadyNoSenders(p, sync)]
  /\ nosenders' = [nosenders EXCEPT ![p] =
                     IF notify /\ AlreadyNoSenders(p, sync) THEN @ \cup {port[p].mscount} ELSE @]
  /\ early' = IF notify /\ port[p].srights = 0 /\ sync > port[p].mscount
              THEN early \cup {p} ELSE early \ {p}
  /\ UNCHANGED <<alive, entry, dnrequests, naked, busy, deaths, held, stray>>

ipc_port_pdrequest(p) ==
  /\ stray[p] < MaxStray
  /\ port[p].active /\ port[p].receiver # None /\ Ready(port[p].receiver)
  /\ port' = [port EXCEPT ![p].pd = ~@]
  /\ UNCHANGED <<alive, entry, dnrequests, naked, busy, deaths, nosenders, held, early, stray>>

\* The receiver sets the count itself, and then has nothing to compare with.
mach_port_set_mscount(p, n) ==
  /\ port[p].active /\ port[p].receiver # None /\ Ready(port[p].receiver)
  /\ port' = [port EXCEPT ![p].mscount = n]
  /\ nosenders' = [nosenders EXCEPT ![p] = {}]
  /\ UNCHANGED <<alive, entry, dnrequests, naked, busy, deaths, held, early, stray>>

-----------------------------------------------------------------------------
(* The second half of ipc_port_destroy, with nothing locked.               *)

DeadNameNotification(p, slot) ==
  /\ port[p].dying /\ dnrequests[p][slot] > 0
  /\ dnrequests' = [dnrequests EXCEPT ![p][slot] = @ - 1]
  /\ deaths' = [deaths EXCEPT ![slot] = @ + 1]
  /\ UNCHANGED <<alive, entry, port, naked, busy, nosenders, held, early, stray>>

DestroyDone(p) ==
  /\ port[p].dying /\ \A slot \in Slots : dnrequests[p][slot] = 0
  /\ port' = [port EXCEPT ![p].dying = FALSE, ![p].refs = @ - 1]
  /\ UNCHANGED <<alive, entry, dnrequests, naked, busy, deaths, nosenders, held, early, stray>>

\* The owner of a name learns that it is dead; a reference comes with it.
ReceiveDeath(slot) ==
  /\ deaths[slot] > 0
  /\ deaths' = [deaths EXCEPT ![slot] = @ - 1]
  /\ held' = [held EXCEPT ![slot] = IF slot[1] \in alive THEN @ + 1 ELSE @]
  /\ UNCHANGED <<kernel, nosenders, early, stray>>

-----------------------------------------------------------------------------
SlotStep(slot) ==
  \/ MakeSend(slot) \/ MakeSendOnce(slot) \/ MoveReceive(slot) \/ CopyinTwo(slot)
  \/ \E kind \in Kinds :
       ipc_object_copyin(slot, kind) \/ HeaderCopyin(slot, kind)
  \/ ipc_right_info(slot) \/ ipc_right_dealloc(slot) \/ ipc_right_destroy(slot)
  \/ \E d \in {-2, 1} : ipc_right_delta(slot, d)
  \/ DeltaReceive(slot) \/ ipc_right_clean(slot)
  \/ \E n \in Slots : ipc_right_rename(slot, n)
  \/ ipc_right_dnrequest(slot) \/ CancelRequest(slot) \/ ReceiveDeath(slot)

PortStep(p) ==
  \/ \E slot \in Slots :
       \/ CopyoutSend(p, slot) \/ CopyoutSendOnce(p, slot) \/ CopyoutReceive(p, slot)
       \/ DeadNameNotification(p, slot)
  \/ CopySendNaked(p) \/ ipc_port_release_send(p) \/ ipc_notify_send_once(p)
  \/ CopyoutDest(p) \/ ipc_port_release_receive(p)
  \/ \E n \in 0 .. MaxMscount : \/ mach_port_set_mscount(p, n)
                                \/ \E notify \in BOOLEAN : ipc_port_nsrequest(p, n, notify)
  \/ ipc_port_pdrequest(p) \/ DestroyDone(p)

Next ==
  \/ \E slot \in Slots : SlotStep(slot)
  \/ \E p \in Ports : PortStep(p)
  \/ \E s \in Spaces : HeaderDone(s) \/ HeaderUndo(s) \/ ipc_space_destroy(s)

Spec == Init /\ [][Next]_vars

-----------------------------------------------------------------------------
Types == {{}, {"send"}, {"receive"}, {"send", "receive"}, {"once"}, {"dead"}}

Entries ==
  {e \in [port : Ports \cup {None}, type : Types, urefs : 0 .. UrefsMax, request : BOOLEAN] :
     /\ e.port = None <=> e.type \in {{}, {"dead"}}
     /\ e.urefs = 0 <=> e.type \in {{}, {"receive"}}
     /\ e.type = {"once"} => e.urefs = 1
     /\ e.urefs = UrefsMax => e.type = {"dead"}
     /\ e.request => e.port # None}

PortRecords ==
  [active : BOOLEAN, dying : BOOLEAN, receiver : Slots \cup {None}, srights : Nat,
   sorights : Nat, mscount : 0 .. MaxMscount, refs : Nat, ns : BOOLEAN, pd : BOOLEAN]

NakedRights == [send : Nat, once : Nat, dest : Nat, receive : {0, 1}]

Calls == [slot : Slots, port : Ports, right : {"send", "once"}, back : {0, 1}, soright : BOOLEAN]

TypeOK ==
  /\ alive \subseteq Spaces
  /\ entry \in [Slots -> Entries]
  /\ port \in [Ports -> PortRecords]
  /\ dnrequests \in [Ports -> [Slots -> Nat]]
  /\ naked \in [Ports -> NakedRights]
  /\ busy \in [Spaces -> {None} \cup Calls]
  /\ deaths \in [Slots -> Nat]
  /\ nosenders \in [Ports -> SUBSET (0 .. MaxMscount)]
  /\ held \in [Slots -> Int]
  /\ early \subseteq Ports
  /\ stray \in [Ports -> Nat]

\* The holders of send rights to port p: entries and naked rights.
With(p, right) == {slot \in Slots : entry[slot].port = p /\ right \in entry[slot].type}
Senders(p) == Cardinality(With(p, "send")) + naked[p].send

\* ip_srights and ip_sorights are the numbers of rights that exist, in spaces
\* and in messages, whichever way they were made, merged, moved and taken back.
\* (But for the send rights that DeltaReceive left behind.)
RightsCounted ==
  \A p \in Ports : port[p].active =>
    /\ port[p].srights = Senders(p) + stray[p]
    /\ port[p].sorights = Cardinality(With(p, "once")) + naked[p].once + naked[p].dest

\* "The remaining send right turns into a dead name.  Notice we don't decrement
\* ip_srights ... because the port is destroyed first": so the count of a port
\* that is alive is exact.
SendRightsExact == \A p \in Ports : port[p].active => port[p].srights = Senders(p)

\* A port has a reference for each entry and each naked right that points to
\* it, and one for the thread that destroys it: its memory is not freed under
\* anybody and is freed in the end.
RefsCounted ==
  \A p \in Ports :
    port[p].refs = Cardinality({slot \in Slots : entry[slot].port = p})
                   + naked[p].send + naked[p].once + naked[p].dest + naked[p].receive
                   + (IF port[p].dying THEN 1 ELSE 0)

\* The receive right of a live port is in one place, the one that the port
\* knows: the entry of its receiver or a message.  A space has no two entries
\* with send or receive rights to the same port.
OneReceiver ==
  \A p \in Ports :
    /\ With(p, "receive") = IF port[p].receiver = None THEN {} ELSE {port[p].receiver}
    /\ port[p].active <=> Cardinality(With(p, "receive")) + naked[p].receive = 1
    /\ \A x, y \in With(p, "send") \cup With(p, "receive") : x[1] = y[1] => x = y

\* A task that adds up the user references it was given, with rights and with
\* dead-name notifications, and those it gave back, knows the kernel's count
\* for the name, less the notifications still on their way: a registered
\* request, a dead port's table, the lazy conversion of the entry and the undo
\* of a copyin never make the notification and its reference part.
UrefsMatch ==
  \A slot \in Slots : slot[1] \in alive =>
    entry[slot].urefs + (IF entry[slot].request THEN 1 ELSE 0)
      = held[slot] + deaths[slot] + Owed(slot)

\* If a no-senders notification carries the count that its port still has,
\* there is no send right: so a server that compares the two may free what the
\* port stands for.
NoSendersTrue ==
  \A p \in Ports : port[p].active /\ port[p].mscount \in nosenders[p] => Senders(p) = 0

\* No no-senders notification is lost: a request that is still registered has
\* a send right to wait for, or waits for the first one.
NoSendersNotLost ==
  \A p \in Ports : port[p].active /\ port[p].ns /\ p \notin early /\ stray[p] = 0 =>
    Senders(p) > 0
=============================================================================
