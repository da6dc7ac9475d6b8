--------------------------- MODULE AbstractRWLock ---------------------------
(***************************************************************************)
(* What a sleep lock of the Mach kernel promises its callers               *)
(* (kern/lock.h: "multiple readers, upgrading from read to write").  A     *)
(* thread holds the lock for reading, for writing, or not at all.  An      *)
(* upgrade is one step from "read" to "write": no other thread writes      *)
(* between the two, so what the caller read before the upgrade still       *)
(* holds after it.                                                         *)
(***************************************************************************)
CONSTANT Threads

VARIABLE held

Modes == {"none", "read", "write"}

Init == held = [t \in Threads |-> "none"]

\* No thread but t holds the lock.
OnlyHolder(t) == \A u \in Threads \ {t} : held[u] = "none"

Set(t, m) == held' = [held EXCEPT ![t] = m]

AcquireRead(t) ==
  /\ held[t] = "none"
  /\ \A u \in Threads : held[u] # "write"
  /\ Set(t, "read")

AcquireWrite(t) ==
  /\ held[t] = "none"
  /\ OnlyHolder(t)
  /\ Set(t, "write")

Upgrade(t) ==
  /\ held[t] = "read"
  /\ OnlyHolder(t)
  /\ Set(t, "write")

Downgrade(t) ==
  /\ held[t] = "write"
  /\ Set(t, "read")

Release(t) ==
  /\ held[t] # "none"
  /\ Set(t, "none")

Next == \E t \in Threads :
          \/ AcquireRead(t) \/ AcquireWrite(t)
          \/ Upgrade(t) \/ Downgrade(t) \/ Release(t)

Spec == Init /\ [][Next]_held
=============================================================================
