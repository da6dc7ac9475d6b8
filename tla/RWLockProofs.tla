---------------------------- MODULE RWLockProofs ----------------------------
(***************************************************************************)
(* Proofs about RWLock for any finite set of threads and any bound on      *)
(* recursion.  LockInv is inductive as long as no owner of the recursion   *)
(* asks for a write hold after its downgrade (~WriteAfterDowngrade, the    *)
(* rule that vm_map_pageable follows); mutual exclusion, the absence of    *)
(* lost wake-ups and of panics and the refinement of AbstractRWLock follow *)
(* from it.                                                                *)
(***************************************************************************)
EXTENDS RWLock, FiniteSetTheorems, TLAPS

-----------------------------------------------------------------------------
(* Counting readers.                                                       *)

\* The number of readers is a natural number, and zero exactly when no
\* thread reads.
LEMMA ReadersFinite == IsFiniteSet(Readers) /\ Cardinality(Readers) \in Nat
<1>1. IsFiniteSet(Threads)
  BY LockAssumption
<1>2. Readers \subseteq Threads
  BY DEF Readers
<1>3. IsFiniteSet(Readers)
  BY <1>1, <1>2, FS_Subset
<1> QED
  BY <1>3, FS_CardinalityType

LEMMA NoReaders ==
  Cardinality(Readers) = 0 <=> \A u \in Threads : mode[u] # "read"
<1>1. Cardinality(Readers) = 0 <=> Readers = {}
  BY ReadersFinite, FS_EmptySet
<1>2. Readers = {} <=> \A u \in Threads : mode[u] # "read"
  BY DEF Readers
<1> QED
  BY <1>1, <1>2

\* A thread stops reading.
LEMMA ReaderLeaves ==
  ASSUME NEW t \in Threads, NEW m, m # "read", mode[t] = "read",
         mode \in [Threads -> {"none", "read"} \cup WriteModes],
         mode' = [mode EXCEPT ![t] = m]
  PROVE  Cardinality(Readers') = Cardinality(Readers) - 1
<1>1. Readers' = Readers \ {t} /\ t \in Readers
  BY DEF Readers
<1>2. Cardinality(Readers \ {t}) = Cardinality(Readers) - 1
  BY <1>1, ReadersFinite, FS_RemoveElement
<1> QED
  BY <1>1, <1>2

\* A thread starts reading.
LEMMA ReaderEnters ==
  ASSUME NEW t \in Threads, mode[t] # "read",
         mode \in [Threads -> {"none", "read"} \cup WriteModes],
         mode' = [mode EXCEPT ![t] = "read"]
  PROVE  Cardinality(Readers') = Cardinality(Readers) + 1
<1>1. Readers' = Readers \cup {t} /\ t \notin Readers
  BY DEF Readers
<1>2. Cardinality(Readers \cup {t}) = Cardinality(Readers) + 1
  BY <1>1, ReadersFinite, FS_AddElement
<1> QED
  BY <1>1, <1>2

\* Any other change of holds leaves the number alone.
LEMMA ReadersKept ==
  ASSUME NEW t \in Threads, NEW m, m # "read", mode[t] # "read",
         mode \in [Threads -> {"none", "read"} \cup WriteModes],
         mode' = [mode EXCEPT ![t] = m]
  PROVE  Cardinality(Readers') = Cardinality(Readers)
<1>1. Readers' = Readers
  BY DEF Readers
<1> QED
  BY <1>1

LEMMA ReadersSame ==
  ASSUME UNCHANGED mode
  PROVE  Cardinality(Readers') = Cardinality(Readers)
BY DEF Readers

-----------------------------------------------------------------------------
(* The inductive invariant.                                                *)

LEMMA Constants == MaxNest \in Nat /\ NoThread \notin Threads
BY LockAssumption

\* What the tests of read_count in lock.c tell about the holders.
LEMMA CountFacts ==
  ASSUME LockInv
  PROVE  /\ read_count = 0 => nested = 0 /\ \A u \in Threads : mode[u] # "read"
         /\ \A u \in Threads : mode[u] = "read" => read_count - nested >= 1
         /\ read_count - nested \in Nat
<1>1. Cardinality(Readers) \in Nat
  BY ReadersFinite
<1>2. read_count = Cardinality(Readers) + nested /\ nested \in Nat
  BY LockAssumption DEF LockInv, BitsMatchHolders, CountsMatch, TypeOK
<1> QED
  BY <1>1, <1>2, NoReaders

\* Many readers or one writer, as a consequence of the inductive invariant.
LEMMA LockInvExclusion == LockInv => Exclusion
BY DEF LockInv, BitsMatchHolders, ClaimsMatch, WaitersHoldNothing, TypeOK,
   Exclusion, ClaimsWrite, ClaimsUpgrade, Upgrading, Writes, WriteModes

LEMMA LockInvInit == Init => LockInv
<1> SUFFICES ASSUME Init PROVE LockInv
  OBVIOUS
<1>1. TypeOK
  <2>1. recursion_depth \in 0..MaxNest /\ nested \in 0..MaxNest /\ read_count \in Nat
    BY Constants DEF Init
  <2>2. /\ pc \in [Threads -> Loops \cup {"run"}]
        /\ mode \in [Threads -> {"none", "read"} \cup WriteModes]
    BY DEF Init
  <2> QED
    BY <2>1, <2>2 DEF Init, TypeOK
<1>2. CountsMatch
  <2>1. Cardinality(Readers) = 0
    BY NoReaders DEF Init
  <2> QED
    BY <2>1 DEF Init, CountsMatch
<1>3. ClaimsMatch /\ RecursionMatches /\ WaitersHoldNothing
  BY Constants DEF Init, ClaimsMatch, RecursionMatches, WaitersHoldNothing,
     ClaimsWrite, ClaimsUpgrade, Upgrading, Writes, WriteModes
<1> QED
  BY <1>1, <1>2, <1>3 DEF LockInv, BitsMatchHolders

\* A writer in the second loop of lock_write.
LEMMA Step_DrainReaders ==
  ASSUME LockInv, NEW t \in Threads, mode[t] = "none", pc[t] = "write2",
         DrainReaders(t),
         UNCHANGED <<want_write, want_upgrade, read_count, can_sleep, owner,
                     recursion_depth, nested, panicked, recursive>>
  PROVE  LockInv'
<1>1. TypeOK'
  BY CountFacts, Constants DEF LockInv, TypeOK, DrainReaders, StayIn, Return,
     Loops, WriteModes
<1>2. CountsMatch'
  BY ReadersSame, ReadersKept DEF LockInv, BitsMatchHolders, TypeOK,
     CountsMatch, RecursionMatches, WaitersHoldNothing, WriteModes,
     DrainReaders, StayIn, Return
<1>3. ClaimsMatch'
  BY CountFacts DEF LockInv, BitsMatchHolders, TypeOK, ClaimsMatch,
     RecursionMatches, WaitersHoldNothing, ClaimsWrite, ClaimsUpgrade,
     Upgrading, Writes, WriteModes, Loops, DrainReaders, StayIn, Return
<1>4. RecursionMatches'
  BY CountFacts, Constants DEF LockInv, BitsMatchHolders, TypeOK, ClaimsMatch,
     RecursionMatches, WaitersHoldNothing, ClaimsWrite, ClaimsUpgrade,
     Upgrading, Writes, WriteModes, Loops, DrainReaders, StayIn, Return
<1>5. WaitersHoldNothing'
  BY CountFacts DEF LockInv, BitsMatchHolders, TypeOK, ClaimsMatch,
     RecursionMatches, WaitersHoldNothing, ClaimsWrite, ClaimsUpgrade,
     Upgrading, Writes, WriteModes, Loops, DrainReaders, StayIn, Return
<1> QED
  BY <1>1, <1>2, <1>3, <1>4, <1>5 DEF LockInv, BitsMatchHolders

\* A writer at the first loop of lock_write.
LEMMA Step_ClaimWrite ==
  ASSUME LockInv, NEW t \in Threads, mode[t] = "none", owner # t,
         pc[t] \in {"run", "write1"}, ClaimWrite(t)
  PROVE  LockInv'
<1>1. TypeOK'
  BY CountFacts, Constants DEF LockInv, TypeOK, ClaimWrite, DrainReaders,
     StayIn, Return, Loops, WriteModes
<1>2. CountsMatch'
  BY ReadersSame, ReadersKept DEF LockInv, BitsMatchHolders, TypeOK,
     CountsMatch, RecursionMatches, WaitersHoldNothing, WriteModes,
     ClaimWrite, DrainReaders, StayIn, Return
<1>3. ClaimsMatch'
  BY CountFacts DEF LockInv, BitsMatchHolders, TypeOK, ClaimsMatch,
     RecursionMatches, WaitersHoldNothing, ClaimsWrite, ClaimsUpgrade,
     Upgrading, Writes, WriteModes, Loops, ClaimWrite, DrainReaders, StayIn,
     Return
<1>4. RecursionMatches'
  BY CountFacts, Constants DEF LockInv, BitsMatchHolders, TypeOK, ClaimsMatch,
     RecursionMatches, WaitersHoldNothing, ClaimsWrite, ClaimsUpgrade,
     Upgrading, Writes, WriteModes, Loops, ClaimWrite, DrainReaders, StayIn,
     Return
<1>5. WaitersHoldNothing'
  BY CountFacts DEF LockInv, BitsMatchHolders, TypeOK, ClaimsMatch,
     RecursionMatches, WaitersHoldNothing, ClaimsWrite, ClaimsUpgrade,
     Upgrading, Writes, WriteModes, Loops, ClaimWrite, DrainReaders, StayIn,
     Return
<1> QED
  BY <1>1, <1>2, <1>3, <1>4, <1>5 DEF LockInv, BitsMatchHolders

\* The owner goes one level deeper.
LEMMA Step_lock_write_recursive ==
  ASSUME ~WriteAfterDowngrade, LockInv, NEW t \in Threads,
         lock_write_recursive(t)
  PROVE  LockInv'
<1>1. TypeOK'
  BY CountFacts, Constants DEF LockInv, TypeOK, lock_write_recursive, MayNest,
     Running,
     Loops, WriteModes
<1>2. CountsMatch'
  BY ReadersSame DEF LockInv, BitsMatchHolders, TypeOK, CountsMatch,
     RecursionMatches, WaitersHoldNothing, WriteModes, lock_write_recursive, MayNest,
     Running
<1>3. ClaimsMatch'
  BY CountFacts DEF LockInv, BitsMatchHolders, TypeOK, ClaimsMatch,
     RecursionMatches, WaitersHoldNothing, ClaimsWrite, ClaimsUpgrade,
     Upgrading, Writes, WriteModes, Loops, lock_write_recursive, MayNest,
     Running
<1>4. RecursionMatches'
  BY CountFacts, Constants DEF LockInv, BitsMatchHolders, TypeOK, ClaimsMatch,
     RecursionMatches, WaitersHoldNothing, ClaimsWrite, ClaimsUpgrade,
     Upgrading, Writes, WriteModes, Loops, lock_write_recursive, MayNest,
     Running
<1>5. WaitersHoldNothing'
  BY CountFacts DEF LockInv, BitsMatchHolders, TypeOK, ClaimsMatch,
     RecursionMatches, WaitersHoldNothing, ClaimsWrite, ClaimsUpgrade,
     Upgrading, Writes, WriteModes, Loops, lock_write_recursive, MayNest,
     Running
<1> QED
  BY <1>1, <1>2, <1>3, <1>4, <1>5 DEF LockInv, BitsMatchHolders

\* lock_try_write finds the lock free.
LEMMA Step_lock_try_write ==
  ASSUME LockInv, NEW t \in Threads, lock_try_write(t)
  PROVE  LockInv'
<1>1. TypeOK'
  BY CountFacts, Constants DEF LockInv, TypeOK, lock_try_write, Running,
     Plain, Return, Loops, WriteModes
<1>2. CountsMatch'
  BY ReadersKept DEF LockInv, BitsMatchHolders, TypeOK, CountsMatch,
     RecursionMatches, WaitersHoldNothing, WriteModes, lock_try_write,
     Running, Plain, Return
<1>3. ClaimsMatch'
  BY CountFacts DEF LockInv, BitsMatchHolders, TypeOK, ClaimsMatch,
     RecursionMatches, WaitersHoldNothing, ClaimsWrite, ClaimsUpgrade,
     Upgrading, Writes, WriteModes, Loops, lock_try_write, Running, Plain,
     Return
<1>4. RecursionMatches'
  BY CountFacts, Constants DEF LockInv, BitsMatchHolders, TypeOK, ClaimsMatch,
     RecursionMatches, WaitersHoldNothing, ClaimsWrite, ClaimsUpgrade,
     Upgrading, Writes, WriteModes, Loops, lock_try_write, Running, Plain,
     Return
<1>5. WaitersHoldNothing'
  BY CountFacts DEF LockInv, BitsMatchHolders, TypeOK, ClaimsMatch,
     RecursionMatches, WaitersHoldNothing, ClaimsWrite, ClaimsUpgrade,
     Upgrading, Writes, WriteModes, Loops, lock_try_write, Running, Plain,
     Return
<1> QED
  BY <1>1, <1>2, <1>3, <1>4, <1>5 DEF LockInv, BitsMatchHolders

\* A reader at the loop of lock_read.
LEMMA Step_EnterRead ==
  ASSUME LockInv, NEW t \in Threads, mode[t] = "none", owner # t,
         pc[t] \in {"run", "read"}, EnterRead(t)
  PROVE  LockInv'
<1>1. TypeOK'
  <2>1. read_count' \in Nat /\ recursion_depth' \in 0..MaxNest /\ nested' \in 0..MaxNest
    BY CountFacts, Constants DEF LockInv, TypeOK, EnterRead
  <2>2. /\ pc' \in [Threads -> Loops \cup {"run"}]
        /\ mode' \in [Threads -> {"none", "read"} \cup WriteModes]
    BY DEF LockInv, TypeOK, EnterRead, WriterAhead, StayIn, Return, Loops,
       WriteModes
  <2>3. /\ want_write' \in BOOLEAN /\ want_upgrade' \in BOOLEAN /\ waiting' \in BOOLEAN
        /\ asleep' \in SUBSET Threads
    BY DEF LockInv, TypeOK, EnterRead, WriterAhead, StayIn, Return
  <2> QED
    BY <2>1, <2>2, <2>3 DEF LockInv, TypeOK, EnterRead
<1>2. CountsMatch'
  <2>1. CASE WriterAhead
    BY <2>1, ReadersSame DEF EnterRead, LockInv, BitsMatchHolders, CountsMatch
  <2>2. CASE ~WriterAhead
    <3>1. /\ mode' = [mode EXCEPT ![t] = "read"]
          /\ read_count' = read_count + 1 /\ nested' = nested
      BY <2>2 DEF EnterRead, Return
    <3>2. Cardinality(Readers') = Cardinality(Readers) + 1
      BY <3>1, ReaderEnters DEF LockInv, TypeOK
    <3> QED
      BY <3>1, <3>2, ReadersFinite
         DEF LockInv, BitsMatchHolders, CountsMatch, TypeOK
  <2> QED
    BY <2>1, <2>2
<1>3. ClaimsMatch'
  BY CountFacts DEF LockInv, BitsMatchHolders, TypeOK, ClaimsMatch,
     RecursionMatches, WaitersHoldNothing, ClaimsWrite, ClaimsUpgrade,
     Upgrading, Writes, WriteModes, Loops, EnterRead, WriterAhead, StayIn,
     Return
<1>4. RecursionMatches'
  BY CountFacts, Constants DEF LockInv, BitsMatchHolders, TypeOK, ClaimsMatch,
     RecursionMatches, WaitersHoldNothing, ClaimsWrite, ClaimsUpgrade,
     Upgrading, Writes, WriteModes, Loops, EnterRead, WriterAhead, StayIn,
     Return
<1>5. WaitersHoldNothing'
  BY CountFacts DEF LockInv, BitsMatchHolders, TypeOK, ClaimsMatch,
     RecursionMatches, WaitersHoldNothing, ClaimsWrite, ClaimsUpgrade,
     Upgrading, Writes, WriteModes, Loops, EnterRead, WriterAhead, StayIn,
     Return
<1> QED
  BY <1>1, <1>2, <1>3, <1>4, <1>5 DEF LockInv, BitsMatchHolders

\* The owner reads once more.
LEMMA Step_lock_read_recursive ==
  ASSUME LockInv, NEW t \in Threads, lock_read_recursive(t)
  PROVE  LockInv'
<1>1. TypeOK'
  BY CountFacts, Constants DEF LockInv, TypeOK, lock_read_recursive, Running,
     Loops, WriteModes
<1>2. CountsMatch'
  <2>1. read_count' = read_count + 1 /\ nested' = nested + 1 /\ mode' = mode
    BY DEF lock_read_recursive
  <2> QED
    BY <2>1, ReadersSame, ReadersFinite
       DEF LockInv, BitsMatchHolders, CountsMatch, TypeOK
<1>3. ClaimsMatch'
  BY CountFacts DEF LockInv, BitsMatchHolders, TypeOK, ClaimsMatch,
     RecursionMatches, WaitersHoldNothing, ClaimsWrite, ClaimsUpgrade,
     Upgrading, Writes, WriteModes, Loops, lock_read_recursive, Running
<1>4. RecursionMatches'
  BY CountFacts, Constants DEF LockInv, BitsMatchHolders, TypeOK, ClaimsMatch,
     RecursionMatches, WaitersHoldNothing, ClaimsWrite, ClaimsUpgrade,
     Upgrading, Writes, WriteModes, Loops, lock_read_recursive, Running
<1>5. WaitersHoldNothing'
  BY CountFacts DEF LockInv, BitsMatchHolders, TypeOK, ClaimsMatch,
     RecursionMatches, WaitersHoldNothing, ClaimsWrite, ClaimsUpgrade,
     Upgrading, Writes, WriteModes, Loops, lock_read_recursive, Running
<1> QED
  BY <1>1, <1>2, <1>3, <1>4, <1>5 DEF LockInv, BitsMatchHolders

\* lock_done by a reader, by the owner, or by the last writer.
LEMMA Step_lock_done ==
  ASSUME LockInv, NEW t \in Threads, lock_done(t)
  PROVE  LockInv'
<1>0. read_count # 0 /\ ~(owner = t /\ nested # 0) => mode[t] = "read"
  <2> SUFFICES ASSUME read_count # 0, ~(owner = t /\ nested # 0), Writes(t)
               PROVE  FALSE
    BY DEF lock_done, LockInv, TypeOK, Writes, BitsMatchHolders,
       RecursionMatches
  <2>1. \A u \in Threads : mode[u] # "read"
    BY DEF LockInv, WaitersHoldNothing
  <2>2. nested # 0
    BY <2>1, NoReaders, ReadersFinite
       DEF LockInv, BitsMatchHolders, CountsMatch, TypeOK
  <2>3. owner \in Threads /\ owner # t /\ mode[owner] # "none"
    BY <2>2 DEF LockInv, BitsMatchHolders, RecursionMatches, TypeOK
  <2> QED
    BY <2>3, LockInvExclusion DEF Exclusion
<1>1. TypeOK'
  <2>1. read_count' \in Nat /\ recursion_depth' \in 0..MaxNest /\ nested' \in 0..MaxNest
    BY CountFacts, Constants DEF LockInv, TypeOK, lock_done
  <2>2. /\ pc' \in [Threads -> Loops \cup {"run"}]
        /\ mode' \in [Threads -> {"none", "read"} \cup WriteModes]
    BY DEF LockInv, TypeOK, lock_done, ClearWriteBit, WakeupIf, Running, Loops,
       WriteModes
  <2>3. /\ want_write' \in BOOLEAN /\ want_upgrade' \in BOOLEAN /\ waiting' \in BOOLEAN
        /\ asleep' \in SUBSET Threads
    BY DEF LockInv, TypeOK, lock_done, ClearWriteBit, WakeupIf, Running
  <2> QED
    BY <2>1, <2>2, <2>3 DEF LockInv, TypeOK, lock_done
<1>2. CountsMatch'
  <2> USE DEF LockInv, BitsMatchHolders, CountsMatch, TypeOK
  <2>1. CASE read_count # 0 /\ owner = t /\ nested # 0
    <3>1. read_count' = read_count - 1 /\ nested' = nested - 1 /\ mode' = mode
      BY <2>1 DEF lock_done
    <3> QED
      BY <3>1, ReadersSame, ReadersFinite
  <2>2. CASE read_count # 0 /\ ~(owner = t /\ nested # 0)
    <3>1. /\ read_count' = read_count - 1 /\ nested' = nested
          /\ mode' = [mode EXCEPT ![t] = "none"]
      BY <2>2 DEF lock_done
    <3>2. mode[t] = "read"
      BY <1>0, <2>2
    <3>3. Cardinality(Readers') = Cardinality(Readers) - 1
      BY <3>1, <3>2, ReaderLeaves
    <3> QED
      BY <3>1, <3>3, ReadersFinite
  <2>3. CASE read_count = 0 /\ recursion_depth # 0
    BY <2>3, ReadersSame DEF lock_done
  <2>4. CASE read_count = 0 /\ recursion_depth = 0
    <3>1. /\ read_count' = read_count /\ nested' = nested
          /\ mode' = [mode EXCEPT ![t] = "none"]
      BY <2>4 DEF lock_done
    <3>2. mode[t] # "read"
      BY <2>4, CountFacts
    <3>3. Cardinality(Readers') = Cardinality(Readers)
      BY <3>1, <3>2, ReadersKept
    <3> QED
      BY <3>1, <3>3
  <2> QED
    BY <2>1, <2>2, <2>3, <2>4
<1>3. ClaimsMatch'
  BY <1>0, CountFacts DEF LockInv, BitsMatchHolders, TypeOK, ClaimsMatch,
     RecursionMatches, WaitersHoldNothing, ClaimsWrite, ClaimsUpgrade,
     Upgrading, Writes, WriteModes, Loops, lock_done, ClearWriteBit, WakeupIf,
     Running
<1>4. RecursionMatches'
  BY <1>0, CountFacts, Constants DEF LockInv, BitsMatchHolders, TypeOK, ClaimsMatch,
     RecursionMatches, WaitersHoldNothing, ClaimsWrite, ClaimsUpgrade,
     Upgrading, Writes, WriteModes, Loops, lock_done, ClearWriteBit, WakeupIf,
     Running
<1>5. WaitersHoldNothing'
  BY CountFacts DEF LockInv, BitsMatchHolders, TypeOK, ClaimsMatch,
     RecursionMatches, WaitersHoldNothing, ClaimsWrite, ClaimsUpgrade,
     Upgrading, Writes, WriteModes, Loops, lock_done, ClearWriteBit, WakeupIf,
     Running
<1> QED
  BY <1>1, <1>2, <1>3, <1>4, <1>5 DEF LockInv, BitsMatchHolders

\* The downgrade, of a nested hold or of the last one.
LEMMA Step_lock_write_to_read ==
  ASSUME LockInv, NEW t \in Threads, lock_write_to_read(t)
  PROVE  LockInv'
<1>1. TypeOK'
  <2>1. read_count' \in Nat /\ recursion_depth' \in 0..MaxNest /\ nested' \in 0..MaxNest
    BY CountFacts, Constants DEF LockInv, TypeOK, lock_write_to_read
  <2>2. /\ pc' \in [Threads -> Loops \cup {"run"}]
        /\ mode' \in [Threads -> {"none", "read"} \cup WriteModes]
    BY DEF LockInv, TypeOK, lock_write_to_read, ClearWriteBit, WakeupIf,
       Running, Loops, WriteModes
  <2>3. /\ want_write' \in BOOLEAN /\ want_upgrade' \in BOOLEAN /\ waiting' \in BOOLEAN
        /\ asleep' \in SUBSET Threads
    BY DEF LockInv, TypeOK, lock_write_to_read, ClearWriteBit, WakeupIf, Running
  <2> QED
    BY <2>1, <2>2, <2>3 DEF LockInv, TypeOK, lock_write_to_read
<1>2. CountsMatch'
  <2> USE DEF LockInv, BitsMatchHolders, CountsMatch, TypeOK
  <2>1. CASE recursion_depth # 0
    <3>1. read_count' = read_count + 1 /\ nested' = nested + 1 /\ mode' = mode
      BY <2>1 DEF lock_write_to_read
    <3> QED
      BY <3>1, ReadersSame, ReadersFinite
  <2>2. CASE recursion_depth = 0
    <3>1. /\ read_count' = read_count + 1 /\ nested' = nested
          /\ mode' = [mode EXCEPT ![t] = "read"] /\ mode[t] # "read"
      BY <2>2 DEF lock_write_to_read, WriteModes
    <3>2. Cardinality(Readers') = Cardinality(Readers) + 1
      BY <3>1, ReaderEnters
    <3> QED
      BY <3>1, <3>2, ReadersFinite
  <2> QED
    BY <2>1, <2>2
<1>3. ClaimsMatch'
  BY CountFacts DEF LockInv, BitsMatchHolders, TypeOK, ClaimsMatch,
     RecursionMatches, WaitersHoldNothing, ClaimsWrite, ClaimsUpgrade,
     Upgrading, Writes, WriteModes, Loops, lock_write_to_read, ClearWriteBit,
     WakeupIf, Running
<1>4. RecursionMatches'
  BY CountFacts, Constants DEF LockInv, BitsMatchHolders, TypeOK, ClaimsMatch,
     RecursionMatches, WaitersHoldNothing, ClaimsWrite, ClaimsUpgrade,
     Upgrading, Writes, WriteModes, Loops, lock_write_to_read, ClearWriteBit,
     WakeupIf, Running
<1>5. WaitersHoldNothing'
  BY CountFacts DEF LockInv, BitsMatchHolders, TypeOK, ClaimsMatch,
     RecursionMatches, WaitersHoldNothing, ClaimsWrite, ClaimsUpgrade,
     Upgrading, Writes, WriteModes, Loops, lock_write_to_read, ClearWriteBit,
     WakeupIf, Running
<1> QED
  BY <1>1, <1>2, <1>3, <1>4, <1>5 DEF LockInv, BitsMatchHolders

\* A reader announces its upgrade.
LEMMA Step_StartUpgrade ==
  ASSUME LockInv, NEW t \in Threads, mode[t] = "read", owner # t, pc[t] = "run",
         NEW loop \in Upgrading, StartUpgrade(t, loop)
  PROVE  LockInv'
<1>1. TypeOK'
  <2>1. read_count' \in Nat /\ recursion_depth' \in 0..MaxNest /\ nested' \in 0..MaxNest
    BY CountFacts, Constants DEF LockInv, TypeOK, StartUpgrade
  <2>2. /\ pc' \in [Threads -> Loops \cup {"run"}]
        /\ mode' \in [Threads -> {"none", "read"} \cup WriteModes]
    BY DEF LockInv, TypeOK, StartUpgrade, DrainOthers, StayIn, Return,
       Upgrading, Loops, WriteModes
  <2>3. /\ want_write' \in BOOLEAN /\ want_upgrade' \in BOOLEAN /\ waiting' \in BOOLEAN
        /\ asleep' \in SUBSET Threads
    BY DEF LockInv, TypeOK, StartUpgrade, DrainOthers, StayIn, Return, Upgrading
  <2> QED
    BY <2>1, <2>2, <2>3 DEF LockInv, TypeOK, StartUpgrade
<1>2. CountsMatch'
  <2>1. \E m : m # "read" /\ mode' = [mode EXCEPT ![t] = m]
    BY DEF StartUpgrade, DrainOthers, Return
  <2>2. Cardinality(Readers') = Cardinality(Readers) - 1
    BY <2>1, ReaderLeaves DEF LockInv, TypeOK
  <2>3. read_count' = read_count - 1 /\ nested' = nested
    BY DEF StartUpgrade
  <2> QED
    BY <2>2, <2>3, ReadersFinite
       DEF LockInv, BitsMatchHolders, CountsMatch, TypeOK
<1>3. ClaimsMatch'
  BY CountFacts DEF LockInv, BitsMatchHolders, TypeOK, ClaimsMatch,
     RecursionMatches, WaitersHoldNothing, ClaimsWrite, ClaimsUpgrade,
     Upgrading, Writes, WriteModes, Loops, StartUpgrade, DrainOthers, StayIn,
     Return, Upgrading
<1>4. RecursionMatches'
  BY CountFacts, Constants DEF LockInv, BitsMatchHolders, TypeOK, ClaimsMatch,
     RecursionMatches, WaitersHoldNothing, ClaimsWrite, ClaimsUpgrade,
     Upgrading, Writes, WriteModes, Loops, StartUpgrade, DrainOthers, StayIn,
     Return, Upgrading
<1>6. read_count' = 0 => \A u \in Threads : mode'[u] # "read"
  <2>1. (Cardinality(Readers) \in Nat)'
    BY ReadersFinite, PTL
  <2>2. (Cardinality(Readers) = 0 <=> \A u \in Threads : mode[u] # "read")'
    BY NoReaders, PTL
  <2> QED
    BY <1>1, <1>2, <2>1, <2>2 DEF CountsMatch, TypeOK
<1>5. WaitersHoldNothing'
  BY <1>6 DEF LockInv, BitsMatchHolders, TypeOK, ClaimsMatch,
     RecursionMatches, WaitersHoldNothing, ClaimsWrite, ClaimsUpgrade,
     Upgrading, Writes, WriteModes, Loops, StartUpgrade, DrainOthers, StayIn,
     Return, Upgrading
<1> QED
  BY <1>1, <1>2, <1>3, <1>4, <1>5 DEF LockInv, BitsMatchHolders

\* A reader loses its hold to the upgrade in progress.
LEMMA Step_lock_read_to_write_fails ==
  ASSUME LockInv, NEW t \in Threads, lock_read_to_write_fails(t)
  PROVE  LockInv'
<1>1. TypeOK'
  <2>1. read_count' \in Nat /\ recursion_depth' \in 0..MaxNest /\ nested' \in 0..MaxNest
    BY CountFacts, Constants DEF LockInv, TypeOK, lock_read_to_write_fails
  <2>2. /\ pc' \in [Threads -> Loops \cup {"run"}]
        /\ mode' \in [Threads -> {"none", "read"} \cup WriteModes]
    BY DEF LockInv, TypeOK, lock_read_to_write_fails, WakeupIf, Running, Plain,
       Loops, WriteModes
  <2>3. /\ want_write' \in BOOLEAN /\ want_upgrade' \in BOOLEAN /\ waiting' \in BOOLEAN
        /\ asleep' \in SUBSET Threads
    BY DEF LockInv, TypeOK, lock_read_to_write_fails, WakeupIf, Running, Plain
  <2> QED
    BY <2>1, <2>2, <2>3 DEF LockInv, TypeOK, lock_read_to_write_fails
<1>2. CountsMatch'
  <2>1. \E m : m # "read" /\ mode' = [mode EXCEPT ![t] = m]
    BY DEF lock_read_to_write_fails
  <2>2. Cardinality(Readers') = Cardinality(Readers) - 1
    BY <2>1, ReaderLeaves DEF lock_read_to_write_fails, LockInv, TypeOK
  <2>3. read_count' = read_count - 1 /\ nested' = nested
    BY DEF lock_read_to_write_fails
  <2> QED
    BY <2>2, <2>3, ReadersFinite
       DEF LockInv, BitsMatchHolders, CountsMatch, TypeOK
<1>3. ClaimsMatch'
  BY CountFacts DEF LockInv, BitsMatchHolders, TypeOK, ClaimsMatch,
     RecursionMatches, WaitersHoldNothing, ClaimsWrite, ClaimsUpgrade,
     Upgrading, Writes, WriteModes, Loops, lock_read_to_write_fails, WakeupIf,
     Running, Plain
<1>4. RecursionMatches'
  BY CountFacts, Constants DEF LockInv, BitsMatchHolders, TypeOK, ClaimsMatch,
     RecursionMatches, WaitersHoldNothing, ClaimsWrite, ClaimsUpgrade,
     Upgrading, Writes, WriteModes, Loops, lock_read_to_write_fails, WakeupIf,
     Running, Plain
<1>5. WaitersHoldNothing'
  BY CountFacts DEF LockInv, BitsMatchHolders, TypeOK, ClaimsMatch,
     RecursionMatches, WaitersHoldNothing, ClaimsWrite, ClaimsUpgrade,
     Upgrading, Writes, WriteModes, Loops, lock_read_to_write_fails, WakeupIf,
     Running, Plain
<1> QED
  BY <1>1, <1>2, <1>3, <1>4, <1>5 DEF LockInv, BitsMatchHolders

\* The owner turns a nested read into a nested write.
LEMMA Step_lock_read_to_write_recursive ==
  ASSUME ~WriteAfterDowngrade, LockInv, NEW t \in Threads,
         lock_read_to_write_recursive(t)
  PROVE  LockInv'
<1>1. TypeOK'
  BY CountFacts, Constants DEF LockInv, TypeOK, lock_read_to_write_recursive, MayNest,
     Running, Loops, WriteModes
<1>2. CountsMatch'
  <2>1. read_count' = read_count - 1 /\ nested' = nested - 1 /\ mode' = mode
    BY DEF lock_read_to_write_recursive, MayNest, WriteModes
  <2> QED
    BY <2>1, ReadersSame, ReadersFinite
       DEF LockInv, BitsMatchHolders, CountsMatch, TypeOK
<1>3. ClaimsMatch'
  BY CountFacts DEF LockInv, BitsMatchHolders, TypeOK, ClaimsMatch,
     RecursionMatches, WaitersHoldNothing, ClaimsWrite, ClaimsUpgrade,
     Upgrading, Writes, WriteModes, Loops, lock_read_to_write_recursive, MayNest,
     Running
<1>4. RecursionMatches'
  BY CountFacts, Constants DEF LockInv, BitsMatchHolders, TypeOK, ClaimsMatch,
     RecursionMatches, WaitersHoldNothing, ClaimsWrite, ClaimsUpgrade,
     Upgrading, Writes, WriteModes, Loops, lock_read_to_write_recursive, MayNest,
     Running
<1>5. WaitersHoldNothing'
  BY CountFacts DEF LockInv, BitsMatchHolders, TypeOK, ClaimsMatch,
     RecursionMatches, WaitersHoldNothing, ClaimsWrite, ClaimsUpgrade,
     Upgrading, Writes, WriteModes, Loops, lock_read_to_write_recursive, MayNest,
     Running
<1> QED
  BY <1>1, <1>2, <1>3, <1>4, <1>5 DEF LockInv, BitsMatchHolders

\* An upgrade looks at the reader count again.
LEMMA Step_ResumeUpgrade ==
  ASSUME LockInv, NEW t \in Threads, ResumeUpgrade(t)
  PROVE  LockInv'
<1>1. TypeOK'
  <2>1. read_count' \in Nat /\ recursion_depth' \in 0..MaxNest /\ nested' \in 0..MaxNest
    BY CountFacts, Constants DEF LockInv, TypeOK, ResumeUpgrade
  <2>2. /\ pc' \in [Threads -> Loops \cup {"run"}]
        /\ mode' \in [Threads -> {"none", "read"} \cup WriteModes]
    BY DEF LockInv, TypeOK, ResumeUpgrade, Awake, DrainOthers, StayIn, Return,
       Upgrading, Loops, WriteModes
  <2>3. /\ want_write' \in BOOLEAN /\ want_upgrade' \in BOOLEAN /\ waiting' \in BOOLEAN
        /\ asleep' \in SUBSET Threads
    BY DEF LockInv, TypeOK, ResumeUpgrade, Awake, DrainOthers, StayIn, Return,
       Upgrading
  <2> QED
    BY <2>1, <2>2, <2>3 DEF LockInv, TypeOK, ResumeUpgrade
<1>2. CountsMatch'
  <2>1. \E m : m # "read" /\ mode' = [mode EXCEPT ![t] = m]
    BY DEF ResumeUpgrade, DrainOthers, Return
  <2>2. mode[t] # "read"
    BY DEF ResumeUpgrade, Awake, Upgrading, LockInv, WaitersHoldNothing
  <2>3. Cardinality(Readers') = Cardinality(Readers)
    BY <2>1, <2>2, ReadersKept DEF LockInv, TypeOK
  <2> QED
    BY <2>3 DEF ResumeUpgrade, LockInv, BitsMatchHolders, CountsMatch
<1>3. ClaimsMatch'
  BY CountFacts DEF LockInv, BitsMatchHolders, TypeOK, ClaimsMatch,
     RecursionMatches, WaitersHoldNothing, ClaimsWrite, ClaimsUpgrade,
     Upgrading, Writes, WriteModes, Loops, ResumeUpgrade, Awake, DrainOthers,
     StayIn, Return, Upgrading
<1>4. RecursionMatches'
  BY CountFacts, Constants DEF LockInv, BitsMatchHolders, TypeOK, ClaimsMatch,
     RecursionMatches, WaitersHoldNothing, ClaimsWrite, ClaimsUpgrade,
     Upgrading, Writes, WriteModes, Loops, ResumeUpgrade, Awake, DrainOthers,
     StayIn, Return, Upgrading
<1>5. WaitersHoldNothing'
  BY CountFacts DEF LockInv, BitsMatchHolders, TypeOK, ClaimsMatch,
     RecursionMatches, WaitersHoldNothing, ClaimsWrite, ClaimsUpgrade,
     Upgrading, Writes, WriteModes, Loops, ResumeUpgrade, Awake, DrainOthers,
     StayIn, Return, Upgrading
<1> QED
  BY <1>1, <1>2, <1>3, <1>4, <1>5 DEF LockInv, BitsMatchHolders

\* Recursion on.
LEMMA Step_lock_set_recursive ==
  ASSUME LockInv, NEW t \in Threads, lock_set_recursive(t)
  PROVE  LockInv'
<1>1. TypeOK'
  BY CountFacts, Constants DEF LockInv, TypeOK, lock_set_recursive, Running,
     Loops, WriteModes
<1>2. CountsMatch'
  BY ReadersSame DEF LockInv, BitsMatchHolders, TypeOK, CountsMatch,
     RecursionMatches, WaitersHoldNothing, WriteModes, lock_set_recursive,
     Running
<1>3. ClaimsMatch'
  BY CountFacts DEF LockInv, BitsMatchHolders, TypeOK, ClaimsMatch,
     RecursionMatches, WaitersHoldNothing, ClaimsWrite, ClaimsUpgrade,
     Upgrading, Writes, WriteModes, Loops, lock_set_recursive, Running
<1>4. RecursionMatches'
  BY CountFacts, Constants DEF LockInv, BitsMatchHolders, TypeOK, ClaimsMatch,
     RecursionMatches, WaitersHoldNothing, ClaimsWrite, ClaimsUpgrade,
     Upgrading, Writes, WriteModes, Loops, lock_set_recursive, Running
<1>5. WaitersHoldNothing'
  BY CountFacts DEF LockInv, BitsMatchHolders, TypeOK, ClaimsMatch,
     RecursionMatches, WaitersHoldNothing, ClaimsWrite, ClaimsUpgrade,
     Upgrading, Writes, WriteModes, Loops, lock_set_recursive, Running
<1> QED
  BY <1>1, <1>2, <1>3, <1>4, <1>5 DEF LockInv, BitsMatchHolders

\* Recursion off.
LEMMA Step_lock_clear_recursive ==
  ASSUME LockInv, NEW t \in Threads, lock_clear_recursive(t)
  PROVE  LockInv'
<1>1. TypeOK'
  BY CountFacts, Constants DEF LockInv, TypeOK, lock_clear_recursive, Running,
     Loops, WriteModes
<1>2. CountsMatch'
  BY ReadersSame DEF LockInv, BitsMatchHolders, TypeOK, CountsMatch,
     RecursionMatches, WaitersHoldNothing, WriteModes, lock_clear_recursive,
     Running
<1>3. ClaimsMatch'
  BY CountFacts DEF LockInv, BitsMatchHolders, TypeOK, ClaimsMatch,
     RecursionMatches, WaitersHoldNothing, ClaimsWrite, ClaimsUpgrade,
     Upgrading, Writes, WriteModes, Loops, lock_clear_recursive, Running
<1>4. RecursionMatches'
  BY CountFacts, Constants DEF LockInv, BitsMatchHolders, TypeOK, ClaimsMatch,
     RecursionMatches, WaitersHoldNothing, ClaimsWrite, ClaimsUpgrade,
     Upgrading, Writes, WriteModes, Loops, lock_clear_recursive, Running
<1>5. WaitersHoldNothing'
  BY CountFacts DEF LockInv, BitsMatchHolders, TypeOK, ClaimsMatch,
     RecursionMatches, WaitersHoldNothing, ClaimsWrite, ClaimsUpgrade,
     Upgrading, Writes, WriteModes, Loops, lock_clear_recursive, Running
<1> QED
  BY <1>1, <1>2, <1>3, <1>4, <1>5 DEF LockInv, BitsMatchHolders

\* Every step keeps the invariant.
LEMMA LockInvStep ==
  ASSUME ~WriteAfterDowngrade
  PROVE  LockInv /\ [Next]_vars => LockInv'
<1> SUFFICES ASSUME LockInv, [Next]_vars PROVE LockInv'
  OBVIOUS
<1>1. ASSUME NEW t \in Threads, Resume(t) PROVE LockInv'
  <2>0. /\ pc[t] # "run" => mode[t] = "none"
        /\ mode[t] = "none" => owner # t
    BY DEF LockInv, WaitersHoldNothing, BitsMatchHolders, RecursionMatches
  <2>1. CASE Awake(t, {"write1"}) /\ ClaimWrite(t)
    BY <2>0, <2>1, Step_ClaimWrite DEF Awake
  <2>2. CASE /\ Awake(t, {"write2"}) /\ DrainReaders(t)
             /\ UNCHANGED <<want_write, want_upgrade, read_count, can_sleep,
                            owner, recursion_depth, nested, panicked,
                            recursive>>
    BY <2>0, <2>2, Step_DrainReaders DEF Awake
  <2>3. CASE ResumeRead(t)
    BY <2>0, <2>3, Step_EnterRead DEF ResumeRead, Awake
  <2>4. CASE ResumeUpgrade(t)
    BY <2>4, Step_ResumeUpgrade
  <2> QED
    BY <1>1, <2>1, <2>2, <2>3, <2>4 DEF Resume, ResumeWrite
<1>2. ASSUME NEW t \in Threads, Call(t) PROVE LockInv'
  <2>1. CASE lock_write(t)
    BY <2>1, Step_ClaimWrite DEF lock_write, Running, Plain
  <2>2. CASE lock_read(t) \/ lock_try_read(t)
    BY <2>2, Step_EnterRead DEF lock_read, lock_try_read, Running, Plain
  <2>3. CASE lock_read_to_write(t) \/ lock_try_read_to_write(t)
    BY <2>3, Step_StartUpgrade
       DEF lock_read_to_write, lock_try_read_to_write, Running, Plain, Upgrading
  <2>4. CASE lock_write_recursive(t) \/ lock_read_recursive(t)
             \/ lock_read_to_write_recursive(t)
    BY <2>4, Step_lock_write_recursive, Step_lock_read_recursive,
       Step_lock_read_to_write_recursive
  <2>5. CASE lock_try_write(t) \/ lock_done(t) \/ lock_write_to_read(t)
    BY <2>5, Step_lock_try_write, Step_lock_done, Step_lock_write_to_read
  <2>6. CASE lock_read_to_write_fails(t) \/ lock_set_recursive(t)
             \/ lock_clear_recursive(t)
    BY <2>6, Step_lock_read_to_write_fails, Step_lock_set_recursive,
       Step_lock_clear_recursive
  <2> QED
    BY <1>2, <2>1, <2>2, <2>3, <2>4, <2>5, <2>6 DEF Call
<1>3. ASSUME NEW b \in BOOLEAN, lock_sleepable(b) PROVE LockInv'
  <2>1. CountsMatch'
    BY <1>3, ReadersSame
       DEF lock_sleepable, LockInv, BitsMatchHolders, CountsMatch
  <2> QED
    BY <1>3, <2>1 DEF lock_sleepable, LockInv, BitsMatchHolders, TypeOK,
       ClaimsMatch, RecursionMatches, WaitersHoldNothing, ClaimsWrite,
       ClaimsUpgrade, Writes
<1>4. CASE UNCHANGED vars
  <2>1. CountsMatch'
    BY <1>4, ReadersSame DEF vars, lock, LockInv, BitsMatchHolders, CountsMatch
  <2> QED
    BY <1>4, <2>1 DEF vars, lock, LockInv, BitsMatchHolders, TypeOK,
       ClaimsMatch, RecursionMatches, WaitersHoldNothing, ClaimsWrite,
       ClaimsUpgrade, Writes
<1> QED
  BY <1>1, <1>2, <1>3, <1>4 DEF Next

\* The fields of struct lock account for the holders in every reachable state.
THEOREM LockInvariant == ASSUME ~WriteAfterDowngrade PROVE Spec => []LockInv
<1> QED
  BY LockInvInit, LockInvStep, PTL DEF Spec

\* The state of the package has its type.
THEOREM LockTypeOK == ASSUME ~WriteAfterDowngrade PROVE Spec => []TypeOK
<1>1. LockInv => TypeOK
  BY DEF LockInv
<1> QED
  BY <1>1, LockInvariant, PTL

\* Many readers or one writer, for any number of threads and any sequence of
\* the calls of lock.c.
THEOREM LockExclusion == ASSUME ~WriteAfterDowngrade PROVE Spec => []Exclusion
<1> QED
  BY LockInvExclusion, LockInvariant, PTL

\* read_count, want_write, want_upgrade, the recursion depth and the holder that
\* lock.c keeps for a recursive lock say who holds the lock and who claims it,
\* after any sequence of calls by any number of threads.
THEOREM LockBits ==
  ASSUME ~WriteAfterDowngrade PROVE Spec => []BitsMatchHolders
<1>1. LockInv => BitsMatchHolders
  BY DEF LockInv
<1> QED
  BY <1>1, LockInvariant, PTL

-----------------------------------------------------------------------------
(* No panic.                                                               *)

\* Neither panic of lock.c is reached: a writer that turns recursion on has
\* want_write set, unless it got the lock by an upgrade, and the thread that
\* turns it off is still the one that l->thread names.
THEOREM LockNeverPanics ==
  ASSUME ~WriteAfterDowngrade, ~RecursiveAfterUpgrade
  PROVE  Spec => []NoPanic
<1>1. Init => NoPanic
  BY DEF Init, NoPanic
<1>2. ASSUME LockInv, NoPanic, [Next]_vars PROVE NoPanic'
  <2>1. ASSUME NEW t \in Threads, lock_set_recursive(t) PROVE want_write
    <3>1. Writes(t) /\ ~want_upgrade
      BY <2>1 DEF lock_set_recursive, Writes
    <3>2. ClaimsWrite(t)
      BY <1>2, <3>1 DEF LockInv, BitsMatchHolders, ClaimsMatch, ClaimsWrite,
         ClaimsUpgrade, Writes, WriteModes
    <3> QED
      BY <1>2, <3>2 DEF LockInv, BitsMatchHolders, ClaimsMatch
  <2>2. ASSUME NEW t \in Threads, lock_clear_recursive(t) PROVE owner = t
    BY <1>2, <2>2
       DEF lock_clear_recursive, LockInv, BitsMatchHolders, RecursionMatches
  <2>3. ASSUME NEW t \in Threads, Resume(t) PROVE UNCHANGED panicked
    BY <2>3 DEF Resume, ResumeWrite, ClaimWrite, ResumeRead, EnterRead,
       ResumeUpgrade
  <2>4. ASSUME NEW t \in Threads, Call(t) PROVE UNCHANGED panicked
    BY <2>1, <2>2, <2>4 DEF Call, lock_write, ClaimWrite,
       lock_write_recursive, lock_try_write, lock_read, EnterRead,
       lock_read_recursive, lock_try_read, lock_done, lock_write_to_read,
       lock_read_to_write, StartUpgrade, lock_read_to_write_fails,
       lock_read_to_write_recursive, lock_try_read_to_write,
       lock_set_recursive, lock_clear_recursive
  <2> QED
    BY <1>2, <2>3, <2>4 DEF Next, NoPanic, lock_sleepable, vars
<1>3. LockInv /\ NoPanic /\ [Next]_vars => NoPanic'
  BY <1>2
<1> QED
  BY <1>1, <1>3, LockInvariant, PTL DEF Spec

-----------------------------------------------------------------------------
(* No lost wake-up.                                                        *)

LEMMA SleepersInit == Init => SleepersBlocked
BY DEF Init, SleepersBlocked

LEMMA SleepersStep ==
  ASSUME ~WriteAfterDowngrade
  PROVE  LockInv /\ SleepersBlocked /\ [Next]_vars => SleepersBlocked'
<1> SUFFICES ASSUME LockInv, SleepersBlocked, [Next]_vars
             PROVE  SleepersBlocked'
  OBVIOUS
<1> USE DEF LockInv, TypeOK, SleepersBlocked
<1>1. ASSUME NEW t \in Threads, Resume(t) PROVE SleepersBlocked'
  <2>1. CASE ResumeWrite(t)
    BY <2>1 DEF ResumeWrite, Awake, ClaimWrite, DrainReaders, StayIn, Return,
       WriterAhead, Upgrading
  <2>2. CASE ResumeRead(t)
    BY <2>2 DEF ResumeRead, Awake, EnterRead, StayIn, Return, WriterAhead,
       Upgrading
  <2>3. CASE ResumeUpgrade(t)
    BY <2>3 DEF ResumeUpgrade, Awake, DrainOthers, StayIn, Return, WriterAhead,
       Upgrading
  <2> QED
    BY <1>1, <2>1, <2>2, <2>3 DEF Resume
<1>2. ASSUME NEW t \in Threads, Call(t) PROVE SleepersBlocked'
  <2>0. t \notin asleep \/ pc[t] # "run"
    OBVIOUS
  <2>1. CASE lock_write(t)
    BY <2>0, <2>1 DEF lock_write, ClaimWrite, DrainReaders, StayIn, Return,
       Running, Upgrading, WriterAhead
  <2>2. CASE lock_write_recursive(t)
    BY <2>0, <2>2 DEF lock_write_recursive, Running, Upgrading, WriterAhead
  <2>3. CASE lock_try_write(t)
    BY <2>0, <2>3 DEF lock_try_write, Return, Running, Upgrading,
       WriterAhead
  <2>4. CASE lock_read(t)
    BY <2>0, <2>4 DEF lock_read, EnterRead, StayIn, Return, WriterAhead,
       Running, Upgrading
  <2>5. CASE lock_read_recursive(t)
    BY <2>0, <2>5 DEF lock_read_recursive, Running, Upgrading, WriterAhead
  <2>6. CASE lock_try_read(t)
    BY <2>0, <2>6 DEF lock_try_read, EnterRead, StayIn, Return, WriterAhead,
       Running, Upgrading
  <2>7. CASE lock_done(t)
    BY <2>0, <2>7, CountFacts DEF lock_done, ClearWriteBit, WakeupIf,
       WriterAhead, Running, Upgrading, BitsMatchHolders,
       WaitersHoldNothing, ClaimsMatch, ClaimsWrite, ClaimsUpgrade,
       RecursionMatches, WriteModes
  <2>8. CASE lock_write_to_read(t)
    BY <2>0, <2>8 DEF lock_write_to_read, WakeupIf, Running, Upgrading,
       WriterAhead
  <2>9. CASE lock_read_to_write(t)
    BY <2>0, <2>9, CountFacts DEF lock_read_to_write, StartUpgrade,
       DrainOthers, StayIn, Return, WriterAhead, Running, Upgrading,
       BitsMatchHolders, WaitersHoldNothing, ClaimsMatch, ClaimsWrite,
       ClaimsUpgrade, WriteModes
  <2>10. CASE lock_read_to_write_fails(t)
    BY <2>0, <2>10, CountFacts DEF lock_read_to_write_fails, WakeupIf,
       Running, Upgrading, WriterAhead, BitsMatchHolders,
       WaitersHoldNothing, ClaimsMatch, ClaimsWrite, ClaimsUpgrade,
       WriteModes
  <2>11. CASE lock_read_to_write_recursive(t)
    BY <2>0, <2>11, CountFacts DEF lock_read_to_write_recursive, MayNest,
       Running, Upgrading, WriterAhead, BitsMatchHolders, WaitersHoldNothing,
       ClaimsMatch, ClaimsWrite, ClaimsUpgrade, WriteModes
  <2>12. CASE lock_try_read_to_write(t)
    BY <2>0, <2>12, CountFacts DEF lock_try_read_to_write, StartUpgrade,
       DrainOthers, StayIn, Return, WriterAhead, Running, Upgrading,
       BitsMatchHolders, WaitersHoldNothing, ClaimsMatch, ClaimsWrite,
       ClaimsUpgrade, WriteModes
  <2>13. CASE lock_set_recursive(t)
    BY <2>0, <2>13 DEF lock_set_recursive, Running, Upgrading, WriterAhead
  <2>14. CASE lock_clear_recursive(t)
    BY <2>0, <2>14 DEF lock_clear_recursive, Running, Upgrading, WriterAhead
  <2> QED
    BY <1>2, <2>1, <2>2, <2>3, <2>4, <2>5, <2>6, <2>7, <2>8, <2>9, <2>10,
       <2>11, <2>12, <2>13, <2>14 DEF Call
<1>3. ASSUME NEW b \in BOOLEAN, lock_sleepable(b) PROVE SleepersBlocked'
  BY <1>3 DEF lock_sleepable, WriterAhead
<1>4. CASE UNCHANGED vars
  BY <1>4 DEF vars, lock, WriterAhead
<1> QED
  BY <1>1, <1>2, <1>3, <1>4 DEF Next

\* A thread asleep in a loop of lock.c still has the reason it sleeps for, and
\* the waiting flag is set: no release forgets a sleeper it had to wake.
THEOREM NoLostWakeup ==
  ASSUME ~WriteAfterDowngrade PROVE Spec => []SleepersBlocked
<1> QED
  BY SleepersInit, SleepersStep, LockInvariant, PTL DEF Spec

-----------------------------------------------------------------------------
(* RWLock implements AbstractRWLock: every step of lock.c is, through      *)
(* HeldAs, one step of the abstract lock or none.                          *)

\* The value of the abstract variable.
Held == [t \in Threads |-> HeldAs(t)]

\* A step that moves one thread changes what that thread holds, no more.
LEMMA HeldMoves ==
  ASSUME TypeOK, NEW t \in Threads, NEW q, NEW m,
         pc' = [pc EXCEPT ![t] = q], mode' = [mode EXCEPT ![t] = m]
  PROVE  Held' = [Held EXCEPT ![t] =
                    IF m \in WriteModes THEN "write"
                    ELSE IF m = "read" \/ q \in Upgrading THEN "read" ELSE "none"]
BY DEF Held, HeldAs, Writes, TypeOK

\* The abstract actions, once Held is known.
LEMMA AbstractSteps ==
  ASSUME NEW t \in Threads
  PROVE  /\ Abstract!AcquireRead(t) <=>
              /\ Held[t] = "none" /\ \A u \in Threads : Held[u] # "write"
              /\ Held' = [Held EXCEPT ![t] = "read"]
         /\ Abstract!AcquireWrite(t) <=>
              /\ Held[t] = "none" /\ \A u \in Threads \ {t} : Held[u] = "none"
              /\ Held' = [Held EXCEPT ![t] = "write"]
         /\ Abstract!Upgrade(t) <=>
              /\ Held[t] = "read" /\ \A u \in Threads \ {t} : Held[u] = "none"
              /\ Held' = [Held EXCEPT ![t] = "write"]
         /\ Abstract!Downgrade(t) <=>
              /\ Held[t] = "write" /\ Held' = [Held EXCEPT ![t] = "read"]
         /\ Abstract!Release(t) <=>
              /\ Held[t] # "none" /\ Held' = [Held EXCEPT ![t] = "none"]
BY DEF Held, Abstract!AcquireRead, Abstract!AcquireWrite, Abstract!Upgrade,
   Abstract!Downgrade, Abstract!Release, Abstract!OnlyHolder, Abstract!Set

\* What t holds as the invariant relates it to the fields of the lock.
LEMMA HeldFacts ==
  ASSUME LockInv, NEW u \in Threads
  PROVE  /\ Held[u] = "write" <=> Writes(u)
         /\ Held[u] = "read" <=> mode[u] = "read" \/ pc[u] \in Upgrading
         /\ Held[u] = "none" <=> mode[u] = "none" /\ pc[u] \notin Upgrading
<1>1. Held[u] = HeldAs(u)
  BY DEF Held
<1> QED
  BY <1>1 DEF HeldAs, Writes, WriteModes, Upgrading, LockInv, TypeOK,
     WaitersHoldNothing

\* Nobody else holds the lock when a writer leaves its second loop.
LEMMA WriteEntry ==
  ASSUME LockInv, NEW t \in Threads, mode[t] = "none", pc[t] \notin Upgrading,
         read_count = 0, ~want_upgrade, ~want_write \/ pc[t] = "write2"
  PROVE  Held[t] = "none" /\ \A u \in Threads \ {t} : Held[u] = "none"
<1>1. \A u \in Threads : mode[u] # "read"
  BY CountFacts
<1>2. \A u \in Threads : ~ClaimsUpgrade(u)
  BY DEF LockInv, BitsMatchHolders, ClaimsMatch
<1>3. \A u \in Threads \ {t} : ~ClaimsWrite(u)
  BY DEF LockInv, BitsMatchHolders, ClaimsMatch, ClaimsWrite
<1> QED
  BY <1>1, <1>2, <1>3, HeldFacts
     DEF ClaimsWrite, ClaimsUpgrade, LockInv, TypeOK, WriteModes

\* Nobody else holds the lock when an upgrade completes.
LEMMA UpgradeEntry ==
  ASSUME LockInv, NEW t \in Threads,
         \A u \in Threads \ {t} : mode[u] # "read",
         \/ pc[t] \in Upgrading
         \/ mode[t] = "read" /\ ~want_upgrade
  PROVE  Held[t] = "read" /\ \A u \in Threads \ {t} : Held[u] = "none"
<1>1. \A u \in Threads \ {t} : ~ClaimsUpgrade(u)
  BY DEF LockInv, BitsMatchHolders, ClaimsMatch, ClaimsUpgrade
<1>2. \A u \in Threads \ {t} : mode[u] # "write"
  BY DEF LockInv, BitsMatchHolders, ClaimsMatch, ClaimsUpgrade,
     WaitersHoldNothing, Writes, WriteModes
<1> QED
  BY <1>1, <1>2, HeldFacts DEF ClaimsUpgrade, LockInv, TypeOK, WriteModes

LEMMA RefineInit == Init => Abstract!Init
BY DEF Init, Abstract!Init, HeldAs, Writes, WriteModes, Upgrading

LEMMA RefineStep ==
  ASSUME ~WriteAfterDowngrade, LockInv, LockInv', [Next]_vars
  PROVE  (\E t \in Threads :
            \/ Abstract!AcquireRead(t) \/ Abstract!AcquireWrite(t)
            \/ Abstract!Upgrade(t) \/ Abstract!Downgrade(t)
            \/ Abstract!Release(t)) \/ Held' = Held
<1> DEFINE Goal == (\E t \in Threads :
            \/ Abstract!AcquireRead(t) \/ Abstract!AcquireWrite(t)
            \/ Abstract!Upgrade(t) \/ Abstract!Downgrade(t)
            \/ Abstract!Release(t)) \/ Held' = Held
<1>0. ASSUME NEW t \in Threads
      PROVE  (\/ Abstract!AcquireRead(t) \/ Abstract!AcquireWrite(t)
              \/ Abstract!Upgrade(t) \/ Abstract!Downgrade(t)
              \/ Abstract!Release(t)) => Goal
  OBVIOUS
<1>k. ASSUME UNCHANGED <<pc, mode>> PROVE Goal
  BY <1>k DEF Held, HeldAs, Writes
<1>s. ASSUME NEW t \in Threads, NEW loop, loop \notin Upgrading,
             pc[t] \notin Upgrading, mode[t] = "none",
             pc' = [pc EXCEPT ![t] = loop], UNCHANGED mode
      PROVE  Goal
  <2>1. mode' = [mode EXCEPT ![t] = "none"]
    BY <1>s DEF LockInv, TypeOK
  <2>2. Held' = [Held EXCEPT ![t] = "none"]
    BY <1>s, <2>1, HeldMoves DEF LockInv, WriteModes
  <2>3. Held[t] = "none"
    BY <1>s, HeldFacts
  <2> QED
    BY <2>2, <2>3 DEF Held
<1>w. ASSUME NEW t \in Threads, mode[t] = "none", pc[t] \notin Upgrading,
             read_count = 0, ~want_upgrade, ~want_write \/ pc[t] = "write2",
             Return(t, "write")
      PROVE  Goal
  <2>1. Held' = [Held EXCEPT ![t] = "write"]
    BY <1>w, HeldMoves DEF Return, LockInv, WriteModes
  <2>2. Abstract!AcquireWrite(t)
    BY <1>w, <2>1, WriteEntry, AbstractSteps
  <2> QED
    BY <1>0, <2>2
<1>c. ASSUME NEW t \in Threads, mode[t] = "none", pc[t] \in {"run", "write1"},
             ClaimWrite(t)
      PROVE  Goal
  BY <1>c, <1>s, <1>w DEF ClaimWrite, DrainReaders, StayIn, Upgrading
<1>r. ASSUME NEW t \in Threads, mode[t] = "none", pc[t] \in {"run", "read"},
             EnterRead(t)
      PROVE  Goal
  <2>1. CASE WriterAhead
    BY <1>r, <1>s, <2>1 DEF EnterRead, StayIn, Upgrading
  <2>2. CASE ~WriterAhead
    <3>1. Held' = [Held EXCEPT ![t] = "read"]
      BY <1>r, <2>2, HeldMoves DEF EnterRead, Return, LockInv, WriteModes
    <3>2. \A u \in Threads : Held[u] # "write"
      BY <2>2, HeldFacts DEF WriterAhead, Writes, WriteModes, ClaimsWrite,
         ClaimsUpgrade, LockInv, BitsMatchHolders, ClaimsMatch
    <3>3. Held[t] = "none"
      BY <1>r, HeldFacts DEF Upgrading
    <3>4. Abstract!AcquireRead(t)
      BY <3>1, <3>2, <3>3, AbstractSteps
    <3> QED
      BY <1>0, <3>4
  <2> QED
    BY <2>1, <2>2
<1>u. ASSUME NEW t \in Threads, NEW loop \in Upgrading, NEW n,
             DrainOthers(t, loop, n), Held[t] = "read",
             n = 0 => \A u \in Threads \ {t} : Held[u] = "none"
      PROVE  Goal
  <2>1. CASE n # 0
    <3>1. Held' = [Held EXCEPT ![t] = "read"]
      BY <1>u, <2>1, HeldMoves DEF DrainOthers, StayIn, LockInv, WriteModes
    <3> QED
      BY <1>u, <3>1 DEF Held
  <2>2. CASE n = 0
    <3>1. Held' = [Held EXCEPT ![t] = "write"]
      BY <1>u, <2>2, HeldMoves DEF DrainOthers, Return, LockInv, WriteModes
    <3>2. Abstract!Upgrade(t)
      BY <1>u, <2>2, <3>1, AbstractSteps
    <3> QED
      BY <1>0, <3>2
  <2> QED
    BY <2>1, <2>2
<1>f. ASSUME NEW t \in Threads, mode[t] # "none", pc[t] = "run",
             UNCHANGED pc, mode' = [mode EXCEPT ![t] = "none"]
      PROVE  Goal
  <2>1. pc' = [pc EXCEPT ![t] = "run"]
    BY <1>f DEF LockInv, TypeOK
  <2>2. Held' = [Held EXCEPT ![t] = "none"]
    <3>1. Held' = [Held EXCEPT ![t] =
                     IF "none" \in WriteModes THEN "write"
                     ELSE IF "none" = "read" \/ "run" \in Upgrading
                            THEN "read" ELSE "none"]
      BY <1>f, <2>1, HeldMoves DEF LockInv
    <3> QED
      BY <3>1 DEF WriteModes, Upgrading
  <2>3. Held[t] # "none"
    BY <1>f, HeldFacts
  <2>4. Abstract!Release(t)
    BY <2>2, <2>3, AbstractSteps
  <2> QED
    BY <1>0, <2>4
<1>1. ASSUME NEW t \in Threads, Resume(t) PROVE Goal
  <2>0. pc[t] # "run" => mode[t] = "none"
    BY DEF LockInv, WaitersHoldNothing
  <2>1. CASE Awake(t, {"write1"}) /\ ClaimWrite(t)
    BY <1>c, <2>0, <2>1 DEF Awake
  <2>2. CASE Awake(t, {"write2"}) /\ DrainReaders(t)
    BY <1>s, <1>w, <2>0, <2>2 DEF Awake, DrainReaders, StayIn, Upgrading
  <2>3. CASE ResumeRead(t)
    BY <1>r, <2>0, <2>3 DEF ResumeRead, Awake
  <2>4. CASE ResumeUpgrade(t)
    <3>1. pc[t] \in Upgrading /\ DrainOthers(t, pc[t], read_count)
      BY <2>4 DEF ResumeUpgrade, Awake
    <3>2. Held[t] = "read"
      BY <3>1, HeldFacts
    <3>3. read_count = 0 => \A u \in Threads \ {t} : Held[u] = "none"
      BY <3>1, CountFacts, UpgradeEntry
    <3> QED
      BY <1>u, <3>1, <3>2, <3>3
  <2> QED
    BY <1>1, <2>1, <2>2, <2>3, <2>4 DEF Resume, ResumeWrite
<1>2. ASSUME NEW t \in Threads, Call(t) PROVE Goal
  <2>1. CASE lock_write(t)
    BY <1>c, <2>1 DEF lock_write, Running
  <2>2. CASE lock_read(t) \/ lock_try_read(t)
    BY <1>r, <2>2 DEF lock_read, lock_try_read, Running
  <2>3. CASE lock_try_write(t)
    BY <1>w, <2>3 DEF lock_try_write, Running, Upgrading
  <2>4. ASSUME NEW loop \in Upgrading, mode[t] = "read", pc[t] = "run",
               StartUpgrade(t, loop)
        PROVE  Goal
    <3>1. Held[t] = "read"
      BY <2>4, HeldFacts
    <3>2. read_count - 1 = 0 => \A u \in Threads \ {t} : mode[u] # "read"
      <4>1. read_count' = 0 => \A u \in Threads : mode'[u] # "read"
        <5>1. (LockInv => (read_count = 0 => \A u \in Threads : mode[u] # "read"))'
          BY CountFacts, PTL
        <5> QED
          BY <5>1
      <4>2. \A u \in Threads \ {t} : mode'[u] = mode[u]
        BY <2>4 DEF StartUpgrade, DrainOthers, Return, LockInv, TypeOK
      <4> QED
        BY <2>4, <4>1, <4>2 DEF StartUpgrade
    <3>3. read_count - 1 = 0 => \A u \in Threads \ {t} : Held[u] = "none"
      BY <2>4, <3>2, UpgradeEntry DEF StartUpgrade
    <3> QED
      BY <1>u, <2>4, <3>1, <3>3 DEF StartUpgrade
  <2>5. CASE lock_read_to_write(t) \/ lock_try_read_to_write(t)
    BY <2>4, <2>5 DEF lock_read_to_write, lock_try_read_to_write, Running,
       Upgrading
  <2>6. CASE lock_done(t)
    <3>1. pc[t] = "run" /\ mode[t] # "none" /\ UNCHANGED pc
      BY <2>6 DEF lock_done, Running, LockInv, BitsMatchHolders,
         RecursionMatches
    <3>2. UNCHANGED mode \/ mode' = [mode EXCEPT ![t] = "none"]
      BY <2>6 DEF lock_done
    <3> QED
      BY <1>f, <1>k, <3>1, <3>2
  <2>7. CASE lock_read_to_write_fails(t)
    BY <1>f, <2>7 DEF lock_read_to_write_fails, Running
  <2>8. CASE lock_write_to_read(t)
    <3>1. CASE UNCHANGED mode
      BY <1>k, <2>8, <3>1 DEF lock_write_to_read
    <3>2. CASE mode' = [mode EXCEPT ![t] = "read"]
      <4>1. pc' = [pc EXCEPT ![t] = "run"]
        BY <2>8 DEF lock_write_to_read, Running, LockInv, TypeOK
      <4>2. Held' = [Held EXCEPT ![t] = "read"]
        BY <3>2, <4>1, HeldMoves DEF LockInv, WriteModes
      <4>3. Held[t] = "write"
        BY <2>8, HeldFacts DEF lock_write_to_read, Writes, LockInv,
           BitsMatchHolders, RecursionMatches
      <4>4. Abstract!Downgrade(t)
        BY <4>2, <4>3, AbstractSteps
      <4> QED
        BY <1>0, <4>4
    <3> QED
      BY <2>8, <3>1, <3>2 DEF lock_write_to_read
  <2>9. CASE lock_write_recursive(t) \/ lock_read_recursive(t)
             \/ lock_read_to_write_recursive(t)
    BY <1>k, <2>9 DEF lock_write_recursive, lock_read_recursive,
       lock_read_to_write_recursive, MayNest, WriteModes
  <2>10. CASE lock_set_recursive(t) \/ lock_clear_recursive(t)
    BY <1>k, <2>10 DEF lock_set_recursive, lock_clear_recursive
  <2> QED
    BY <1>2, <2>1, <2>2, <2>3, <2>5, <2>6, <2>7, <2>8, <2>9, <2>10 DEF Call
<1>3. ASSUME NEW b \in BOOLEAN, lock_sleepable(b) PROVE Goal
  BY <1>k, <1>3 DEF lock_sleepable
<1>4. CASE UNCHANGED vars
  BY <1>k, <1>4 DEF vars
<1> QED
  BY <1>1, <1>2, <1>3, <1>4 DEF Next

\* The sleep lock is a readers/writer lock with atomic upgrade: every behaviour
\* of lock.c is a behaviour of AbstractRWLock.
THEOREM LockImplementsAbstract ==
  ASSUME ~WriteAfterDowngrade PROVE Spec => ImplementsAbstract
<1>1. LockInv /\ LockInv' /\ [Next]_vars => [Abstract!Next]_Held
  BY RefineStep DEF Abstract!Next
<1> QED
  BY <1>1, RefineInit, LockInvariant, PTL
     DEF Spec, ImplementsAbstract, Abstract!Spec, Held
=============================================================================
