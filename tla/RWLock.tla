------------------------------- MODULE RWLock -------------------------------
(***************************************************************************)
(* The sleep lock of kern/lock.c: many readers or one writer, upgrade and  *)
(* downgrade, and recursion for the thread that asked for it.              *)
(*                                                                         *)
(* The fields of struct lock are touched only with l->interlock held, and  *)
(* every routine releases the interlock only where it returns or sleeps,   *)
(* so one action is one stretch of code under the interlock: from the      *)
(* entry of a routine, or from a wake-up inside one of its wait loops, to  *)
(* the next return or sleep.                                               *)
(*                                                                         *)
(* thread_sleep (assert_wait, unlock, block) and thread_wakeup are         *)
(* modelled by the set of threads that wait on the event l: assert_wait is *)
(* called before the interlock is released, so no wake-up can fall between *)
(* the test of a condition and the sleep.                                  *)
(***************************************************************************)
EXTENDS Integers, FiniteSets

CONSTANTS
  Threads,                \* the kernel threads that use the lock
  NoThread,               \* (struct thread *)-1: recursion is off
  MaxNest,                \* bound on recursive acquisitions of either kind
  RecursiveAfterUpgrade,  \* do callers ask for recursion after an upgrade?
  WriteAfterDowngrade     \* do owners ask for write holds after a downgrade?

\* The widths of read_count:16 and recursion_depth:12 are never exceeded.
ASSUME LockAssumption ==
  /\ IsFiniteSet(Threads)
  /\ NoThread \notin Threads
  /\ MaxNest \in Nat /\ MaxNest < 4096
  /\ Cardinality(Threads) + MaxNest < 65536
  /\ RecursiveAfterUpgrade \in BOOLEAN /\ WriteAfterDowngrade \in BOOLEAN

VARIABLES
  want_write, want_upgrade, read_count, waiting, can_sleep,
  owner,             \* l->thread
  recursion_depth,
  asleep,            \* threads waiting on the event l
  pc,                \* where each thread is inside the package
  mode,              \* what each thread holds (as seen by the caller)
  nested,            \* recursive reads of the owner (as seen by the caller)
  panicked,          \* panic() was called
  recursive          \* who turned recursion on and not off (the callers' view)

lock == <<want_write, want_upgrade, read_count, waiting, can_sleep, owner,
          recursion_depth>>
vars == <<lock, asleep, pc, mode, nested, panicked, recursive>>

\* "run": outside the package.  The others are the wait loops: the two of
\* lock_write, the one of lock_read, lock_read_to_write, lock_try_read_to_write.
Loops == {"write1", "write2", "read", "upgrade", "tryupgrade"}
Upgrading == {"upgrade", "tryupgrade"}

\* A write hold is "write" if it was got by want_write, "upgraded" if it was
\* got by want_upgrade: the release clears one bit or the other.
WriteModes == {"write", "upgraded"}

Init ==
  /\ want_write = FALSE /\ want_upgrade = FALSE /\ read_count = 0
  /\ waiting = FALSE /\ can_sleep = TRUE
  /\ owner = NoThread /\ recursion_depth = 0
  /\ asleep = {}
  /\ pc = [t \in Threads |-> "run"]
  /\ mode = [t \in Threads |-> "none"]
  /\ nested = 0
  /\ panicked = FALSE
  /\ recursive = {}

-----------------------------------------------------------------------------
(* Sleeping and waking.                                                    *)

\* Thread t stays in a loop.  lock_try_read_to_write sleeps whatever
\* can_sleep says; in the other loops the thread spins when it may not sleep.
StayIn(t, loop) ==
  /\ pc' = [pc EXCEPT ![t] = loop]
  /\ IF can_sleep \/ loop = "tryupgrade"
       THEN waiting' = TRUE /\ asleep' = asleep \cup {t}
       ELSE UNCHANGED <<waiting, asleep>>

\* Thread t leaves the package with hold m.
Return(t, m) ==
  /\ pc' = [pc EXCEPT ![t] = "run"]
  /\ mode' = [mode EXCEPT ![t] = m]

\* thread_wakeup(l), when somebody waits and cond holds.
WakeupIf(cond) ==
  IF waiting /\ cond
    THEN waiting' = FALSE /\ asleep' = {}
    ELSE UNCHANGED <<waiting, asleep>>

\* Nothing runs after a panic.
Running(t) == ~panicked /\ pc[t] = "run"
Awake(t, loops) == ~panicked /\ t \notin asleep /\ pc[t] \in loops

\* The caller holds the lock and has not turned recursion on for itself.
Plain(t) == owner # t

\* May the owner ask for one more write hold?  The code never refuses, though
\* after a downgrade the owner only reads; vm_map_pageable keeps from asking.
MayNest(t) == owner = t /\ (mode[t] \in WriteModes \/ WriteAfterDowngrade)

-----------------------------------------------------------------------------
(* lock_write                                                              *)

\* As below, forgetting the upgrade in progress.
DrainReadersOnly(t) ==
  \/ /\ read_count # 0
     /\ StayIn(t, "write2")
     /\ UNCHANGED mode
  \/ /\ read_count = 0
     /\ Return(t, "write")
     /\ UNCHANGED <<waiting, asleep>>

\* The second loop: wait for readers and upgrades to finish.
DrainReaders(t) ==
  \/ /\ read_count # 0 \/ want_upgrade
     /\ StayIn(t, "write2")
     /\ UNCHANGED mode
  \/ /\ read_count = 0 /\ ~want_upgrade
     /\ Return(t, "write")
     /\ UNCHANGED <<waiting, asleep>>

\* The first loop, which falls into the second when want_write is free.
ClaimWrite(t) ==
  /\ \/ /\ want_write
        /\ StayIn(t, "write1")
        /\ UNCHANGED <<want_write, mode>>
     \/ /\ ~want_write
        /\ want_write' = TRUE
        /\ DrainReaders(t)
  /\ UNCHANGED <<want_upgrade, read_count, can_sleep, owner, recursion_depth,
                 nested, panicked, recursive>>

lock_write(t) ==
  /\ Running(t) /\ Plain(t) /\ mode[t] = "none"
  /\ ClaimWrite(t)

\* Recursive lock_write or lock_try_write: the owner goes one level deeper,
\* whoever else reads.
lock_write_recursive(t) ==
  /\ Running(t) /\ MayNest(t)
  /\ recursion_depth < MaxNest
  /\ recursion_depth' = recursion_depth + 1
  /\ UNCHANGED <<want_write, want_upgrade, read_count, waiting, can_sleep,
                 owner, asleep, pc, mode, nested, panicked, recursive>>

ResumeWrite(t) ==
  \/ Awake(t, {"write1"}) /\ ClaimWrite(t)
  \/ /\ Awake(t, {"write2"})
     /\ DrainReaders(t)
     /\ UNCHANGED <<want_write, want_upgrade, read_count, can_sleep, owner,
                    recursion_depth, nested, panicked, recursive>>

lock_try_write(t) ==
  /\ Running(t) /\ Plain(t) /\ mode[t] = "none"
  /\ ~(want_write \/ want_upgrade \/ read_count # 0)
  /\ want_write' = TRUE
  /\ Return(t, "write")
  /\ UNCHANGED <<want_upgrade, read_count, waiting, can_sleep, owner,
                 recursion_depth, asleep, nested, panicked, recursive>>

-----------------------------------------------------------------------------
(* lock_read                                                               *)

\* A new reader waits for writers that hold or only want the lock.
WriterAhead == want_write \/ want_upgrade

EnterRead(t) ==
  /\ \/ /\ WriterAhead
        /\ StayIn(t, "read")
        /\ UNCHANGED <<read_count, mode>>
     \/ /\ ~WriterAhead
        /\ read_count' = read_count + 1
        /\ Return(t, "read")
        /\ UNCHANGED <<waiting, asleep>>
  /\ UNCHANGED <<want_write, want_upgrade, can_sleep, owner, recursion_depth,
                 nested, panicked, recursive>>

lock_read(t) ==
  /\ Running(t) /\ Plain(t) /\ mode[t] = "none"
  /\ EnterRead(t)

\* Recursive lock_read or lock_try_read: never waits, not even for a writer
\* that has already claimed the lock.
lock_read_recursive(t) ==
  /\ Running(t) /\ owner = t
  /\ nested < MaxNest
  /\ read_count' = read_count + 1
  /\ nested' = nested + 1
  /\ UNCHANGED <<want_write, want_upgrade, waiting, can_sleep, owner,
                 recursion_depth, asleep, pc, mode, panicked, recursive>>

ResumeRead(t) ==
  /\ Awake(t, {"read"})
  /\ EnterRead(t)

lock_try_read(t) ==
  /\ Running(t) /\ Plain(t) /\ mode[t] = "none"
  /\ ~WriterAhead
  /\ EnterRead(t)

-----------------------------------------------------------------------------
(* lock_done, lock_write_to_read                                           *)

\* As below, clearing want_write first.
ClearWriteBitSwapped ==
  IF want_write
    THEN want_write' = FALSE /\ UNCHANGED want_upgrade
    ELSE want_upgrade' = FALSE /\ UNCHANGED want_write

\* The write bit that a release clears: want_upgrade if it is set.
ClearWriteBit ==
  IF want_upgrade
    THEN want_upgrade' = FALSE /\ UNCHANGED want_write
    ELSE want_write' = FALSE /\ UNCHANGED want_upgrade

\* lock_done by a caller that holds the lock.  A caller that turned recursion
\* on releases its last hold only after lock_clear_recursive.
lock_done(t) ==
  /\ Running(t)
  /\ IF owner = t THEN nested + recursion_depth # 0 ELSE mode[t] # "none"
  /\ \/ /\ read_count # 0
        /\ read_count' = read_count - 1
        /\ IF owner = t /\ nested # 0
             THEN nested' = nested - 1 /\ UNCHANGED mode
             ELSE mode' = [mode EXCEPT ![t] = "none"] /\ UNCHANGED nested
        /\ UNCHANGED <<want_write, want_upgrade, recursion_depth>>
     \/ /\ read_count = 0 /\ recursion_depth # 0
        /\ recursion_depth' = recursion_depth - 1
        /\ UNCHANGED <<want_write, want_upgrade, read_count, mode, nested>>
     \/ /\ read_count = 0 /\ recursion_depth = 0
        /\ ClearWriteBit
        /\ mode' = [mode EXCEPT ![t] = "none"]
        /\ UNCHANGED <<read_count, recursion_depth, nested>>
  /\ WakeupIf(read_count' = 0)
  /\ UNCHANGED <<can_sleep, owner, pc, panicked, recursive>>

\* A nested write hold becomes a nested read hold; the last write hold becomes
\* a read hold.
lock_write_to_read(t) ==
  /\ Running(t)
  /\ mode[t] \in WriteModes \/ (owner = t /\ recursion_depth # 0)
  /\ read_count' = read_count + 1
  /\ \/ /\ recursion_depth # 0
        /\ nested < MaxNest
        /\ recursion_depth' = recursion_depth - 1
        /\ nested' = nested + 1
        /\ UNCHANGED <<want_write, want_upgrade, mode>>
     \/ /\ recursion_depth = 0
        /\ ClearWriteBit
        /\ mode' = [mode EXCEPT ![t] = "read"]
        /\ UNCHANGED <<recursion_depth, nested>>
  /\ WakeupIf(TRUE)
  /\ UNCHANGED <<can_sleep, owner, pc, panicked, recursive>>

-----------------------------------------------------------------------------
(* lock_read_to_write, lock_try_read_to_write                              *)

\* The loop of an upgrade: wait until the other readers are gone.  n is the
\* reader count the test sees.
DrainOthers(t, loop, n) ==
  \/ /\ n # 0
     /\ StayIn(t, loop)
     /\ mode' = [mode EXCEPT ![t] = "none"]
  \/ /\ n = 0
     /\ Return(t, "upgraded")
     /\ UNCHANGED <<waiting, asleep>>

\* The caller gives up its own read hold and announces the upgrade.
StartUpgrade(t, loop) ==
  /\ ~want_upgrade
  /\ want_upgrade' = TRUE
  /\ read_count' = read_count - 1
  /\ DrainOthers(t, loop, read_count - 1)
  /\ UNCHANGED <<want_write, can_sleep, owner, recursion_depth, nested,
                 panicked, recursive>>

lock_read_to_write(t) ==
  /\ Running(t) /\ Plain(t) /\ mode[t] = "read"
  /\ StartUpgrade(t, "upgrade")

\* As below, without the wake-up of the upgrading thread.
lock_read_to_write_fails_silent(t) ==
  /\ Running(t) /\ Plain(t) /\ mode[t] = "read"
  /\ want_upgrade
  /\ read_count' = read_count - 1
  /\ mode' = [mode EXCEPT ![t] = "none"]
  /\ UNCHANGED <<want_write, want_upgrade, waiting, can_sleep, owner,
                 recursion_depth, asleep, pc, nested, panicked, recursive>>

\* Another reader is upgrading: the caller's read hold is dropped.
lock_read_to_write_fails(t) ==
  /\ Running(t) /\ Plain(t) /\ mode[t] = "read"
  /\ want_upgrade
  /\ read_count' = read_count - 1
  /\ mode' = [mode EXCEPT ![t] = "none"]
  /\ WakeupIf(read_count' = 0)
  /\ UNCHANGED <<want_write, want_upgrade, can_sleep, owner, recursion_depth,
                 pc, nested, panicked, recursive>>

\* Recursive lock_read_to_write or lock_try_read_to_write: a read hold of the
\* owner becomes a nested write hold, whoever else reads.
lock_read_to_write_recursive(t) ==
  /\ Running(t) /\ MayNest(t)
  /\ recursion_depth < MaxNest
  /\ nested # 0 \/ mode[t] = "read"
  /\ read_count' = read_count - 1
  /\ IF nested # 0
       THEN nested' = nested - 1 /\ UNCHANGED mode
       ELSE mode' = [mode EXCEPT ![t] = "none"] /\ UNCHANGED nested
  /\ recursion_depth' = recursion_depth + 1
  /\ UNCHANGED <<want_write, want_upgrade, waiting, can_sleep, owner,
                 asleep, pc, panicked, recursive>>

\* On failure (want_upgrade set) the caller keeps its read hold: no step.
lock_try_read_to_write(t) ==
  /\ Running(t) /\ Plain(t) /\ mode[t] = "read"
  /\ StartUpgrade(t, "tryupgrade")

ResumeUpgrade(t) ==
  /\ Awake(t, Upgrading)
  /\ DrainOthers(t, pc[t], read_count)
  /\ UNCHANGED <<want_write, want_upgrade, read_count, can_sleep, owner,
                 recursion_depth, nested, panicked, recursive>>

-----------------------------------------------------------------------------
(* Recursion and sleepability.                                             *)

\* The caller holds the lock for writing.  The code tests want_write, which
\* is clear after an upgrade unless another writer has claimed the lock.
lock_set_recursive(t) ==
  /\ Running(t) /\ mode[t] \in WriteModes
  /\ want_upgrade => RecursiveAfterUpgrade
  /\ IF want_write
       THEN /\ owner' = t /\ recursive' = recursive \cup {t}
            /\ UNCHANGED panicked
       ELSE panicked' = TRUE /\ UNCHANGED <<owner, recursive>>
  /\ UNCHANGED <<want_write, want_upgrade, read_count, waiting, can_sleep,
                 recursion_depth, asleep, pc, mode, nested>>

\* Called by who turned recursion on, once its nested reads are over
\* (vm_map_pageable).  With nested writes outstanding the call has no effect;
\* a caller that is not the owner panics ("wrong thread").
lock_clear_recursive(t) ==
  /\ Running(t) /\ t \in recursive /\ nested = 0
  /\ owner = t => recursion_depth = 0
  /\ IF owner = t THEN owner' = NoThread /\ UNCHANGED panicked
                  ELSE panicked' = TRUE /\ UNCHANGED owner
  /\ recursive' = recursive \ {t}
  /\ UNCHANGED <<want_write, want_upgrade, read_count, waiting, can_sleep,
                 recursion_depth, asleep, pc, mode, nested>>

lock_sleepable(b) ==
  /\ ~panicked
  /\ can_sleep' = b
  /\ UNCHANGED <<want_write, want_upgrade, read_count, waiting, owner,
                 recursion_depth, asleep, pc, mode, nested, panicked,
                 recursive>>

-----------------------------------------------------------------------------
Resume(t) == ResumeWrite(t) \/ ResumeRead(t) \/ ResumeUpgrade(t)

Call(t) ==
  \/ lock_write(t) \/ lock_write_recursive(t) \/ lock_try_write(t)
  \/ lock_read(t) \/ lock_read_recursive(t) \/ lock_try_read(t)
  \/ lock_done(t) \/ lock_write_to_read(t)
  \/ lock_read_to_write(t) \/ lock_read_to_write_fails(t)
  \/ lock_read_to_write_recursive(t) \/ lock_try_read_to_write(t)
  \/ lock_set_recursive(t) \/ lock_clear_recursive(t)

Next ==
  \/ \E t \in Threads : Resume(t) \/ Call(t)
  \/ \E b \in BOOLEAN : lock_sleepable(b)

Spec == Init /\ [][Next]_vars

-----------------------------------------------------------------------------
(* Fairness.  The scheduler runs every runnable thread, so a thread that   *)
(* is in a wait loop and not asleep takes its step.  Callers end their     *)
(* critical sections: a hold is released at each depth of nesting (so that *)
(* none is taken again forever), recursion is turned off again.            *)

lock_done_at(t, depth) == nested + recursion_depth = depth /\ lock_done(t)

FairSpec ==
  /\ Spec
  /\ \A t \in Threads :
       /\ WF_vars(Resume(t))
       /\ \A depth \in 0 .. 2 * MaxNest : SF_vars(lock_done_at(t, depth))
       /\ SF_vars(lock_clear_recursive(t))

-----------------------------------------------------------------------------
(* Properties.                                                             *)

Writes(t) == mode[t] \in WriteModes
Readers == {t \in Threads : mode[t] = "read"}

TypeOK ==
  /\ want_write \in BOOLEAN /\ want_upgrade \in BOOLEAN
  /\ waiting \in BOOLEAN /\ can_sleep \in BOOLEAN
  /\ read_count \in Nat /\ recursion_depth \in 0..MaxNest /\ nested \in 0..MaxNest
  /\ owner \in Threads \cup {NoThread}
  /\ asleep \in SUBSET Threads
  /\ pc \in [Threads -> Loops \cup {"run"}]
  /\ mode \in [Threads -> {"none", "read"} \cup WriteModes]
  /\ panicked \in BOOLEAN /\ recursive \in SUBSET Threads

\* Many readers or one writer: while a thread holds the lock for writing no
\* other thread holds it at all, through any sequence of upgrades, downgrades
\* and recursive holds of lock.c.
Exclusion ==
  \A t, u \in Threads : Writes(t) /\ t # u => mode[u] = "none"

\* No lost wake-up: a thread asleep on the lock still has the reason it went
\* to sleep for, and the waiting flag that lock_done tests is set.  This is
\* the claim behind the comment of lock_done ("There is no reason to wakeup a
\* waiting thread if the read-count is non-zero").
SleepersBlocked ==
  /\ asleep # {} => waiting
  /\ \A t \in asleep :
       /\ pc[t] = "write1" => want_write
       /\ pc[t] = "write2" => read_count # 0 \/ want_upgrade
       /\ pc[t] = "read" => WriterAhead
       /\ pc[t] \in Upgrading => read_count # 0
       /\ pc[t] # "run"

\* Each write bit belongs to the thread that holds the lock by it or, having
\* claimed it, waits for the others to leave.
ClaimsWrite(t) == mode[t] = "write" \/ pc[t] = "write2"
ClaimsUpgrade(t) == mode[t] = "upgraded" \/ pc[t] \in Upgrading

CountsMatch == read_count = Cardinality(Readers) + nested

ClaimsMatch ==
  /\ want_write <=> \E t \in Threads : ClaimsWrite(t)
  /\ want_upgrade <=> \E t \in Threads : ClaimsUpgrade(t)
  /\ \A t, u \in Threads : ClaimsWrite(t) /\ ClaimsWrite(u) => t = u
  /\ \A t, u \in Threads : ClaimsUpgrade(t) /\ ClaimsUpgrade(u) => t = u

RecursionMatches ==
  /\ (nested # 0 \/ recursion_depth # 0) => owner # NoThread
  /\ \A t \in Threads : owner = t => mode[t] # "none"
  /\ \A t \in Threads : recursion_depth # 0 /\ owner = t => Writes(t)
  /\ \A t \in Threads : t \in recursive <=> owner = t

\* The fields of struct lock account for every hold: read_count for the
\* readers and the owner's recursive reads, each write bit for exactly one
\* claimant, recursion_depth for an owner that writes, thread for whoever has
\* turned recursion on.  With the types: read_count never goes below zero.
BitsMatchHolders == TypeOK /\ CountsMatch /\ ClaimsMatch /\ RecursionMatches

\* A thread inside a wait loop holds nothing, and a writer sees no reader; one
\* that got the lock by want_write sees no upgrade in progress either.
WaitersHoldNothing ==
  /\ \A t \in Threads : pc[t] # "run" => mode[t] = "none"
  /\ \A t, u \in Threads : Writes(t) => mode[u] # "read"
  /\ \A t \in Threads : mode[t] = "write" => ~want_upgrade

\* The inductive invariant: what Exclusion rests on.
LockInv == TypeOK /\ BitsMatchHolders /\ WaitersHoldNothing

\* lock.c: "Allow a process that has a lock for write to acquire it
\* recursively": turning recursion on with the write lock held, and off by who
\* turned it on, never panics.
NoPanic == ~panicked

\* A writer that has claimed want_write, and a reader whose upgrade was
\* accepted, get the lock: no stream of readers or of other writers can keep
\* them out.
ClaimServed ==
  \A t \in Threads :
    pc[t] \in {"write2"} \cup Upgrading ~> Writes(t)

\* The lock implements the promise of AbstractRWLock.  A thread inside an
\* upgrade loop still counts as a reader: no other thread may write before
\* the upgrade completes, although read_count no longer includes it.
HeldAs(t) ==
  IF Writes(t) THEN "write"
  ELSE IF mode[t] = "read" \/ pc[t] \in Upgrading THEN "read" ELSE "none"

Abstract == INSTANCE AbstractRWLock WITH held <- [t \in Threads |-> HeldAs(t)]

ImplementsAbstract == Abstract!Spec
=============================================================================
