------------------------------ MODULE NfpMutex -------------------------------
(***************************************************************************)
(* The mutexes in NIC memory (user/nfpcore/nfp_mutex.c): a lock word that    *)
(* several interfaces of the NIC take with a test-and-set and give back with *)
(* a write, and in each process a cache of handles with a use count and a    *)
(* nesting depth.  One process at a time uses an interface                   *)
(* (nfp_acquire_process_lock), so an interface stands for its process.       *)
(*                                                                         *)
(* Each access to NIC memory that another interface can observe or disturb   *)
(* is a step.  Reading the key, which nobody changes after boot, is part of  *)
(* the step that follows; a key that does not match is one of the failures   *)
(* of an access.  An access fails without effect: no BAR could be had.       *)
(***************************************************************************)
EXTENDS Naturals

CONSTANTS Interfaces,       \* the interfaces that contend, PCIe ones among them
          NoInterface,      \* interface 0, which belongs to nobody
          Mutexes,          \* addresses of lock words
          MUTEX_DEPTH_MAX,  \* deepest nesting of one handle
          MaxUsage,         \* bound: handles of a mutex open in one process
          Failures          \* accesses may fail and processes may die

ASSUME MutexAssumption ==
    /\ NoInterface \notin Interfaces
    /\ Mutexes # {}
    /\ MUTEX_DEPTH_MAX \in Nat \ {0}
    /\ MaxUsage \in Nat \ {0}
    /\ Failures \in BOOLEAN

VARIABLES word,    \* the lock words in NIC memory
          handle,  \* each process's mutex_cache: usage 0 is "not cached"
          op,      \* the call of nfp_mutex.c each process is in, and its result
          held     \* history: locks taken and not given back, as callers count

mutexVars == <<word, handle, op, held>>

\* Mutant: the owner's number stays in the word when it is unlocked.
UnlockKeepsOwner(i) == [owner |-> i, mark |-> 0]

\* A word: its upper half names the owner, its lower half is 0x000f or 0.
MUTEX_LOCKED(i) == [owner |-> i, mark |-> 15]
MUTEX_UNLOCK(i) == [owner |-> NoInterface, mark |-> 0]

MUTEX_IS_LOCKED(value) == value.mark = 15
MUTEX_IS_UNLOCKED(value) == value.mark = 0

NoHandle == [usage |-> 0, depth |-> 0]

LockWord == [owner : Interfaces \cup {NoInterface}, mark : {0, 15}]

nfp_cpp_mutex == [usage : 0 .. MaxUsage, depth : 0 .. MUTEX_DEPTH_MAX]

MutexOp ==
    [call : {"lock", "trylock", "unlock"},
     pc : {"idle", "test_set", "write_owner", "unlock_read", "unlock_write"},
     m : Mutexes,
     ret : {"ok", "busy", "error"}]

\* The words before the program runs: a process that died may have left some.
MutexInit ==
    /\ word \in [Mutexes -> {MUTEX_UNLOCK(NoInterface)} \cup
                     {MUTEX_LOCKED(i) : i \in {j \in Interfaces : Failures}}]
    /\ handle = [i \in Interfaces |-> [m \in Mutexes |-> NoHandle]]
    /\ op = [i \in Interfaces |->
                [call |-> "unlock", pc |-> "idle", ret |-> "ok",
                 m |-> CHOOSE m \in Mutexes : TRUE]]
    /\ held = [i \in Interfaces |-> [m \in Mutexes |-> 0]]

\* The call of i ends with a result.
Return(i, ret) == op' = [op EXCEPT ![i].pc = "idle", ![i].ret = ret]

At(i, pc) == op[i].pc = pc

-----------------------------------------------------------------------------
\* A cached handle is shared; a new one is made after its key has been read.
nfp_cpp_mutex_alloc(i, m) ==
    /\ At(i, "idle")
    /\ handle[i][m].usage < MaxUsage
    /\ handle' = [handle EXCEPT ![i][m].usage = @ + 1]
    /\ UNCHANGED <<word, op, held>>

\* The last user drops the handle, its depth included; the word is left alone.
nfp_cpp_mutex_free(i, m) ==
    /\ At(i, "idle")
    /\ handle[i][m].usage > 0
    /\ LET mutex == handle[i][m]
           last == mutex.usage = 1 IN
       /\ handle' = [handle EXCEPT ![i][m] =
              IF last THEN NoHandle
                      ELSE [mutex EXCEPT !.usage = mutex.usage - 1]]
       /\ held' = [held EXCEPT ![i][m] = IF last THEN 0 ELSE @]
    /\ UNCHANGED <<word, op>>

\* nfp_cpp_mutex_lock and nfp_cpp_mutex_trylock up to the test-and-set.
MutexCall(i, m, call) ==
    /\ At(i, "idle")
    /\ handle[i][m].usage > 0
    /\ LET depth == handle[i][m].depth
           nests == depth > 0 /\ depth < MUTEX_DEPTH_MAX IN
       /\ op' = [op EXCEPT ![i] =
              [call |-> call, m |-> m,
               pc |-> IF depth = 0 THEN "test_set" ELSE "idle",
               ret |-> IF nests THEN "ok" ELSE "error"]]
       /\ handle' = [handle EXCEPT ![i][m].depth = IF nests THEN @ + 1 ELSE @]
       /\ held' = [held EXCEPT ![i][m] = IF nests THEN @ + 1 ELSE @]
    /\ UNCHANGED word

nfp_cpp_mutex_lock(i, m) == MutexCall(i, m, "lock")
nfp_cpp_mutex_trylock(i, m) == MutexCall(i, m, "trylock")

Take(i, m) ==
    /\ handle' = [handle EXCEPT ![i][m].depth = 1]
    /\ held' = [held EXCEPT ![i][m] = @ + 1]

\* Mutant: the test-and-set stores the caller's number as well.
TestSetTakesWord(i) ==
    LET m == op[i].m
        tmp == word[m] IN
    /\ At(i, "test_set")
    /\ word' = [word EXCEPT ![m] = MUTEX_LOCKED(i)]
    /\ \/ /\ MUTEX_IS_UNLOCKED(tmp)
          /\ op' = [op EXCEPT ![i].pc = "write_owner"]
          /\ UNCHANGED <<handle, held>>
       \/ /\ tmp = MUTEX_LOCKED(i)
          /\ Take(i, m)
          /\ Return(i, "ok")
       \/ /\ MUTEX_IS_LOCKED(tmp)
          /\ tmp # MUTEX_LOCKED(i)
          /\ IF op[i].call = "lock" THEN UNCHANGED op ELSE Return(i, "busy")
          /\ UNCHANGED <<handle, held>>

(***************************************************************************)
(* test_set_imm returns the word and locks it.  A word that was unlocked     *)
(* still needs its owner; one that says "locked by us" is ours; any other is *)
(* busy, and nfp_cpp_mutex_lock tries again.                                 *)
(***************************************************************************)
TestSet(i) ==
    LET m == op[i].m
        tmp == word[m] IN
    /\ At(i, "test_set")
    /\ word' = [word EXCEPT ![m].mark = 15]
    /\ \/ /\ MUTEX_IS_UNLOCKED(tmp)
          /\ op' = [op EXCEPT ![i].pc = "write_owner"]
          /\ UNCHANGED <<handle, held>>
       \/ /\ tmp = MUTEX_LOCKED(i)
          /\ Take(i, m)
          /\ Return(i, "ok")
       \/ /\ MUTEX_IS_LOCKED(tmp)
          /\ tmp # MUTEX_LOCKED(i)
          /\ IF op[i].call = "lock" THEN UNCHANGED op ELSE Return(i, "busy")
          /\ UNCHANGED <<handle, held>>

\* Mutant: the owner is not written, "not strictly necessary".
OwnerNotWritten(i) ==
    /\ At(i, "write_owner")
    /\ Take(i, op[i].m)
    /\ Return(i, "ok")
    /\ UNCHANGED word

WriteOwner(i) ==
    /\ At(i, "write_owner")
    /\ word' = [word EXCEPT ![op[i].m] = MUTEX_LOCKED(i)]
    /\ Take(i, op[i].m)
    /\ Return(i, "ok")

\* nfp_cpp_mutex_unlock of a nested lock, or up to the read of the word.
nfp_cpp_mutex_unlock(i, m) ==
    /\ At(i, "idle")
    /\ handle[i][m].depth > 0
    /\ LET nested == handle[i][m].depth > 1 IN
       /\ op' = [op EXCEPT ![i] =
              [call |-> "unlock", m |-> m, ret |-> "ok",
               pc |-> IF nested THEN "idle" ELSE "unlock_read"]]
       /\ handle' = [handle EXCEPT ![i][m].depth = IF nested THEN @ - 1 ELSE @]
       /\ held' = [held EXCEPT ![i][m] = IF nested THEN @ - 1 ELSE @]
    /\ UNCHANGED word

\* Only the owner may unlock: EACCES otherwise.
UnlockRead(i) ==
    /\ At(i, "unlock_read")
    /\ IF word[op[i].m] = MUTEX_LOCKED(i)
         THEN op' = [op EXCEPT ![i].pc = "unlock_write"]
         ELSE Return(i, "error")
    /\ UNCHANGED <<word, handle, held>>

UnlockWrite(i) ==
    LET m == op[i].m IN
    /\ At(i, "unlock_write")
    /\ word' = [word EXCEPT ![m] = MUTEX_UNLOCK(i)]
    /\ handle' = [handle EXCEPT ![i][m].depth = 0]
    /\ held' = [held EXCEPT ![i][m] = @ - 1]
    /\ Return(i, "ok")

(***************************************************************************)
(* The access a call is at fails and the call returns its error.  But        *)
(* nfp_cpp_mutex_lock looks at errno, which the failed access may have left  *)
(* at the EBUSY of an earlier attempt: then it tries again.                  *)
(***************************************************************************)
AccessFails(i) ==
    /\ Failures
    /\ ~ At(i, "idle")
    /\ \/ Return(i, "error")
       \/ /\ op[i].call = "lock"
          /\ op' = [op EXCEPT ![i].pc = "test_set"]
    /\ UNCHANGED <<word, handle, held>>

\* The process of i dies; what it held in memory is gone, the words stay.
Crash(i) ==
    /\ Failures
    /\ handle' = [handle EXCEPT ![i] = [m \in Mutexes |-> NoHandle]]
    /\ held' = [held EXCEPT ![i] = [m \in Mutexes |-> 0]]
    /\ Return(i, "error")
    /\ UNCHANGED word

-----------------------------------------------------------------------------
\* The steps a call takes by itself.
MutexStep(i) ==
    \/ TestSet(i)
    \/ WriteOwner(i)
    \/ UnlockRead(i)
    \/ UnlockWrite(i)
    \/ AccessFails(i)

\* Processes call in any order, unlocking only what they have locked.
MutexNext ==
    \E i \in Interfaces :
        \/ \E m \in Mutexes :
              \/ nfp_cpp_mutex_alloc(i, m)
              \/ nfp_cpp_mutex_free(i, m)
              \/ nfp_cpp_mutex_lock(i, m)
              \/ nfp_cpp_mutex_trylock(i, m)
              \/ nfp_cpp_mutex_unlock(i, m)
        \/ MutexStep(i)
        \/ Crash(i)

MutexSpec == MutexInit /\ [][MutexNext]_mutexVars

-----------------------------------------------------------------------------
\* The words, the handles and the calls have the shape nfp_mutex.c gives them,
\* and a depth never exceeds MUTEX_DEPTH_MAX.
MutexTypeOK ==
    /\ word \in [Mutexes -> LockWord]
    /\ handle \in [Interfaces -> [Mutexes -> nfp_cpp_mutex]]
    /\ op \in [Interfaces -> MutexOp]
    /\ held \in [Interfaces -> [Mutexes -> Nat]]

(***************************************************************************)
(* Two interfaces never both hold a mutex, as their callers count: through   *)
(* nesting, failed accesses, and processes that die and start again and find *)
(* "Already locked by us? Success!" (nfp_mutex.c:414).                       *)
(***************************************************************************)
Exclusion ==
    \A m \in Mutexes : \A i, j \in Interfaces :
        held[i][m] > 0 /\ held[j][m] > 0 => i = j

(***************************************************************************)
(* The word of a mutex that is held changes only in the step in which its    *)
(* holder gives it up: a contender's test-and-set, which writes to the word  *)
(* of a mutex it does not get, disturbs nothing (nfp_mutex.c:379-390).       *)
(***************************************************************************)
UndisturbedHold ==
    [][\A i \in Interfaces, m \in Mutexes :
          held[i][m] > 0 /\ word'[m] # word[m] => held'[i][m] = 0]_mutexVars

(***************************************************************************)
(* A locked word can be unlocked again: its owner is recorded, so that the   *)
(* owner's process, this one or the next, finds the mutex "already locked by *)
(* us"; or some call is about to record it (nfp_mutex.c:395-412).            *)
(***************************************************************************)
HeldOrRecoverable ==
    \A m \in Mutexes : MUTEX_IS_LOCKED(word[m]) =>
        \/ word[m].owner \in Interfaces
        \/ \E i \in Interfaces : At(i, "write_owner") /\ op[i].m = m
==============================================================================
