--------------------------- MODULE NfpMutexProofs ----------------------------
(***************************************************************************)
(* Mutual exclusion of the mutexes in NIC memory, for any interfaces, any     *)
(* mutexes and any failures, and of the resources built on them; and that     *)
(* the handles and, where no access fails, the locks are given back.          *)
(***************************************************************************)
EXTENDS NfpResource, TLAPS

USE MutexAssumption

\* A word that is locked and does not say by whom: a claim in progress.
Claimed == [owner |-> NoInterface, mark |-> 15]

\* What the words say of those who hold a mutex, and of those who do not yet.
WordInv ==
    /\ \A m \in Mutexes : word[m].mark = 0 => word[m].owner = NoInterface
    /\ \A i \in Interfaces, m \in Mutexes :
          held[i][m] > 0 => word[m] = MUTEX_LOCKED(i)

\* The depth of a handle is what its callers count.
DepthInv ==
    \A i \in Interfaces, m \in Mutexes : handle[i][m].depth = held[i][m]

\* What each place of a call knows.
CallInv ==
    \A i \in Interfaces :
        /\ op[i].pc = "test_set" => held[i][op[i].m] = 0
        /\ op[i].pc = "write_owner" =>
              /\ held[i][op[i].m] = 0
              /\ word[op[i].m] = Claimed
        /\ op[i].pc \in {"unlock_read", "unlock_write"} =>
              /\ held[i][op[i].m] = 1
              /\ op[i].call = "unlock"

\* At most one interface is about to record itself as the owner.
ClaimInv ==
    \A i, j \in Interfaces :
        /\ op[i].pc = "write_owner"
        /\ op[j].pc = "write_owner"
        /\ op[i].m = op[j].m
        => i = j

StateInv == WordInv /\ DepthInv /\ CallInv /\ ClaimInv

MutexInv == MutexTypeOK /\ StateInv

-----------------------------------------------------------------------------
\* The words the code writes are lock words.
LEMMA WordsTyped ==
  /\ \A i \in Interfaces : MUTEX_LOCKED(i) \in LockWord
  /\ \A i : MUTEX_UNLOCK(i) \in LockWord
  /\ \A w \in LockWord : [w EXCEPT !.mark = 15] \in LockWord
BY DEF MUTEX_LOCKED, MUTEX_UNLOCK, LockWord

\* A word names its owner, so that words tell interfaces apart.
LEMMA OwnerNamed ==
  /\ \A i : MUTEX_LOCKED(i).owner = i /\ MUTEX_LOCKED(i).mark = 15
  /\ Claimed.owner = NoInterface /\ Claimed.mark = 15
BY DEF MUTEX_LOCKED, Claimed

\* Changing one field of a handle leaves a handle.
LEMMA HandlesTyped ==
  ASSUME NEW h \in nfp_cpp_mutex
  PROVE  /\ \A u \in 0 .. MaxUsage : [h EXCEPT !.usage = u] \in nfp_cpp_mutex
         /\ \A d \in 0 .. MUTEX_DEPTH_MAX :
               [h EXCEPT !.depth = d] \in nfp_cpp_mutex
         /\ NoHandle \in nfp_cpp_mutex
         /\ h.usage \in 0 .. MaxUsage
         /\ h.depth \in 0 .. MUTEX_DEPTH_MAX
BY DEF nfp_cpp_mutex, NoHandle

\* The handle of one mutex in one process may be exchanged for another.
LEMMA CacheTyped ==
  ASSUME MutexTypeOK, NEW i \in Interfaces, NEW m \in Mutexes,
         NEW h \in nfp_cpp_mutex
  PROVE  [handle EXCEPT ![i][m] = h]
            \in [Interfaces -> [Mutexes -> nfp_cpp_mutex]]
BY DEF MutexTypeOK

\* MutexInv holds before any process has called nfp_mutex.c.
LEMMA MutexInvInit == MutexInit => MutexInv
<1> SUFFICES ASSUME MutexInit PROVE MutexInv
  OBVIOUS
<1>1. \A m \in Mutexes :
         \/ word[m] = MUTEX_UNLOCK(NoInterface)
         \/ \E i \in Interfaces : word[m] = MUTEX_LOCKED(i)
  BY DEF MutexInit
<1>2. MutexTypeOK
  <2>1. word \in [Mutexes -> LockWord]
    BY <1>1, WordsTyped DEF MutexInit
  <2>2. handle \in [Interfaces -> [Mutexes -> nfp_cpp_mutex]]
    BY DEF MutexInit, NoHandle, nfp_cpp_mutex
  <2>3. op \in [Interfaces -> MutexOp]
    <3>1. (CHOOSE m \in Mutexes : TRUE) \in Mutexes
      OBVIOUS
    <3>2. QED BY <3>1 DEF MutexInit, MutexOp
  <2>4. held \in [Interfaces -> [Mutexes -> Nat]]
    BY DEF MutexInit
  <2>5. QED BY <2>1, <2>2, <2>3, <2>4 DEF MutexTypeOK
<1>3. WordInv
  BY <1>1 DEF MutexInit, WordInv, MUTEX_LOCKED, MUTEX_UNLOCK
<1>4. DepthInv /\ CallInv /\ ClaimInv
  BY DEF MutexInit, DepthInv, CallInv, ClaimInv, NoHandle
<1>5. QED BY <1>2, <1>3, <1>4 DEF MutexInv, StateInv

\* Opening and closing handles, and calls up to their first access, keep the
\* types: MutexCall checks the depth against its limit.
LEMMA CallTypes ==
  ASSUME MutexInv, NEW i \in Interfaces, NEW m \in Mutexes,
         \/ nfp_cpp_mutex_alloc(i, m)
         \/ nfp_cpp_mutex_free(i, m)
         \/ nfp_cpp_mutex_lock(i, m)
         \/ nfp_cpp_mutex_trylock(i, m)
         \/ nfp_cpp_mutex_unlock(i, m)
  PROVE  MutexTypeOK'
<1> DEFINE h == handle[i][m]
<1>1. /\ MutexTypeOK
      /\ h \in nfp_cpp_mutex
      /\ op[i] \in MutexOp
      /\ held[i][m] = h.depth
  BY DEF MutexInv, StateInv, MutexTypeOK, DepthInv
<1>2. h.usage \in 0 .. MaxUsage /\ h.depth \in 0 .. MUTEX_DEPTH_MAX
  BY <1>1, HandlesTyped
<1>3. CASE nfp_cpp_mutex_alloc(i, m)
  <2>1. [h EXCEPT !.usage = h.usage + 1] \in nfp_cpp_mutex
    BY <1>1, <1>2, <1>3, HandlesTyped DEF nfp_cpp_mutex_alloc
  <2>2. QED
    BY <1>1, <1>3, <2>1, CacheTyped DEF nfp_cpp_mutex_alloc, MutexTypeOK
<1>4. CASE nfp_cpp_mutex_free(i, m)
  <2>0. h.usage - 1 \in 0 .. MaxUsage
    BY <1>2, <1>4 DEF nfp_cpp_mutex_free
  <2>1. /\ [h EXCEPT !.usage = h.usage - 1] \in nfp_cpp_mutex
        /\ NoHandle \in nfp_cpp_mutex
    <3> HIDE DEF h
    <3>1. QED BY <1>1, <2>0, HandlesTyped
  <2>2. \E g \in nfp_cpp_mutex : handle' = [handle EXCEPT ![i][m] = g]
    <3>1. CASE h.usage = 1
      BY <1>4, <2>1, <3>1 DEF nfp_cpp_mutex_free
    <3>2. CASE h.usage # 1
      <4>1. handle' = [handle EXCEPT ![i][m] =
                         [h EXCEPT !.usage = h.usage - 1]]
        BY <1>4, <3>2 DEF nfp_cpp_mutex_free
      <4>2. QED BY <2>1, <4>1
    <3>3. QED BY <3>1, <3>2
  <2>3. handle' \in [Interfaces -> [Mutexes -> nfp_cpp_mutex]]
    BY <1>1, <2>2, CacheTyped
  <2>4. held' \in [Interfaces -> [Mutexes -> Nat]]
    BY <1>1, <1>4 DEF nfp_cpp_mutex_free, MutexTypeOK
  <2>5. word' = word /\ op' = op
    BY <1>4 DEF nfp_cpp_mutex_free
  <2>6. QED
    BY <1>1, <2>3, <2>4, <2>5 DEF MutexTypeOK
<1>5. ASSUME NEW call \in {"lock", "trylock"}, MutexCall(i, m, call)
      PROVE  MutexTypeOK'
  <2>1. /\ h.depth < MUTEX_DEPTH_MAX =>
              [h EXCEPT !.depth = h.depth + 1] \in nfp_cpp_mutex
        /\ [h EXCEPT !.depth = h.depth] \in nfp_cpp_mutex
    BY <1>1, <1>2, HandlesTyped
  <2>2. handle' \in [Interfaces -> [Mutexes -> nfp_cpp_mutex]]
    BY <1>1, <1>5, <2>1, CacheTyped DEF MutexCall
  <2>3. op' \in [Interfaces -> MutexOp]
    BY <1>1, <1>5 DEF MutexCall, MutexOp, MutexTypeOK
  <2>4. QED
    BY <1>1, <1>5, <2>2, <2>3 DEF MutexCall, MutexTypeOK
<1>6. CASE nfp_cpp_mutex_unlock(i, m)
  <2>0. h.depth - 1 \in 0 .. MUTEX_DEPTH_MAX
    BY <1>2, <1>6 DEF nfp_cpp_mutex_unlock
  <2>1. /\ [h EXCEPT !.depth = h.depth - 1] \in nfp_cpp_mutex
        /\ [h EXCEPT !.depth = h.depth] \in nfp_cpp_mutex
    <3> HIDE DEF h
    <3>1. QED BY <1>1, <1>2, <2>0, HandlesTyped
  <2>2. handle' \in [Interfaces -> [Mutexes -> nfp_cpp_mutex]]
    BY <1>1, <1>6, <2>1, CacheTyped DEF nfp_cpp_mutex_unlock
  <2>3. op' \in [Interfaces -> MutexOp]
    BY <1>1, <1>6 DEF nfp_cpp_mutex_unlock, MutexOp, MutexTypeOK
  <2>4. QED
    BY <1>1, <1>2, <1>6, <2>2, <2>3 DEF nfp_cpp_mutex_unlock, MutexTypeOK
<1>7. QED
  BY <1>3, <1>4, <1>5, <1>6 DEF nfp_cpp_mutex_lock, nfp_cpp_mutex_trylock

\* The same steps keep what the words and the calls mean.
LEMMA CallStates ==
  ASSUME MutexInv, NEW i \in Interfaces, NEW m \in Mutexes,
         \/ nfp_cpp_mutex_alloc(i, m)
         \/ nfp_cpp_mutex_free(i, m)
         \/ nfp_cpp_mutex_lock(i, m)
         \/ nfp_cpp_mutex_trylock(i, m)
         \/ nfp_cpp_mutex_unlock(i, m)
  PROVE  StateInv'
<1> USE DEF At
<1>1. /\ MutexTypeOK
      /\ WordInv /\ DepthInv /\ CallInv /\ ClaimInv
  BY DEF MutexInv, StateInv
<1>2. CASE nfp_cpp_mutex_alloc(i, m)
  <2>1. DepthInv'
    BY <1>1, <1>2 DEF nfp_cpp_mutex_alloc, MutexTypeOK, DepthInv, nfp_cpp_mutex
  <2>2. QED
    BY <1>1, <1>2, <2>1
    DEF nfp_cpp_mutex_alloc, StateInv, WordInv, CallInv, ClaimInv
<1>3. CASE nfp_cpp_mutex_free(i, m)
  <2>1. DepthInv'
    BY <1>1, <1>3
    DEF nfp_cpp_mutex_free, MutexTypeOK, DepthInv, nfp_cpp_mutex, NoHandle
  <2>2. WordInv'
    BY <1>1, <1>3 DEF nfp_cpp_mutex_free, MutexTypeOK, WordInv
  <2>3. CallInv' /\ ClaimInv'
    BY <1>1, <1>3
    DEF nfp_cpp_mutex_free, MutexTypeOK, MutexOp, CallInv, ClaimInv
  <2>4. QED BY <2>1, <2>2, <2>3 DEF StateInv
<1>4. ASSUME NEW call \in {"lock", "trylock"}, MutexCall(i, m, call)
      PROVE  StateInv'
  <2>1. DepthInv'
    BY <1>1, <1>4 DEF MutexCall, MutexTypeOK, DepthInv, nfp_cpp_mutex
  <2>2. WordInv'
    BY <1>1, <1>4 DEF MutexCall, MutexTypeOK, WordInv, DepthInv
  <2>3. CallInv' /\ ClaimInv'
    BY <1>1, <1>4
    DEF MutexCall, MutexTypeOK, MutexOp, CallInv, ClaimInv, DepthInv
  <2>4. QED BY <2>1, <2>2, <2>3 DEF StateInv
<1>5. CASE nfp_cpp_mutex_unlock(i, m)
  <2>1. DepthInv'
    BY <1>1, <1>5 DEF nfp_cpp_mutex_unlock, MutexTypeOK, DepthInv, nfp_cpp_mutex
  <2>2. WordInv'
    BY <1>1, <1>5 DEF nfp_cpp_mutex_unlock, MutexTypeOK, WordInv, DepthInv
  <2>3. CallInv' /\ ClaimInv'
    BY <1>1, <1>5
    DEF nfp_cpp_mutex_unlock, MutexTypeOK, MutexOp, CallInv, ClaimInv, DepthInv
  <2>4. QED BY <2>1, <2>2, <2>3 DEF StateInv
<1>6. QED
  BY <1>2, <1>3, <1>4, <1>5 DEF nfp_cpp_mutex_lock, nfp_cpp_mutex_trylock

\* The accesses of a call, failed ones included, and a crash keep the types.
LEMMA StepTypes ==
  ASSUME MutexInv, NEW i \in Interfaces, MutexStep(i) \/ Crash(i)
  PROVE  MutexTypeOK'
<1> DEFINE m == op[i].m
           h == handle[i][m]
<1>1. /\ MutexTypeOK
      /\ m \in Mutexes
      /\ h \in nfp_cpp_mutex
      /\ op[i] \in MutexOp
      /\ held[i][m] \in Nat
  BY DEF MutexInv, MutexTypeOK, MutexOp
<1>2. \A d \in {0, 1} : [h EXCEPT !.depth = d] \in nfp_cpp_mutex
  <2> HIDE DEF h
  <2>1. QED BY <1>1, HandlesTyped
<1>3. ASSUME Take(i, m)
      PROVE  /\ handle' \in [Interfaces -> [Mutexes -> nfp_cpp_mutex]]
             /\ held' \in [Interfaces -> [Mutexes -> Nat]]
  <2>1. handle' = [handle EXCEPT ![i][m] = [h EXCEPT !.depth = 1]]
    BY <1>3 DEF Take
  <2>2. QED
    BY <1>1, <1>2, <1>3, <2>1, CacheTyped DEF Take, MutexTypeOK
<1>4. \A ret \in {"ok", "busy", "error"} :
         Return(i, ret) => op' \in [Interfaces -> MutexOp]
  <2> SUFFICES ASSUME NEW ret \in {"ok", "busy", "error"}, Return(i, ret)
               PROVE  op' \in [Interfaces -> MutexOp]
    OBVIOUS
  <2>1. [op[i] EXCEPT !.pc = "idle", !.ret = ret] \in MutexOp
    BY <1>1 DEF MutexOp
  <2>2. op' = [op EXCEPT ![i] = [op[i] EXCEPT !.pc = "idle", !.ret = ret]]
    BY <1>1 DEF Return, MutexTypeOK
  <2>3. QED BY <1>1, <2>1, <2>2 DEF MutexTypeOK
<1>5. \A pc \in {"test_set", "write_owner", "unlock_write"} :
         op' = [op EXCEPT ![i].pc = pc] => op' \in [Interfaces -> MutexOp]
  <2> SUFFICES ASSUME NEW pc \in {"test_set", "write_owner", "unlock_write"},
                      op' = [op EXCEPT ![i].pc = pc]
               PROVE  op' \in [Interfaces -> MutexOp]
    OBVIOUS
  <2>1. [op[i] EXCEPT !.pc = pc] \in MutexOp
    BY <1>1 DEF MutexOp
  <2>2. QED BY <1>1, <2>1 DEF MutexTypeOK
<1>6. CASE TestSet(i)
  <2>1. word' \in [Mutexes -> LockWord]
    BY <1>1, <1>6, WordsTyped DEF TestSet, MutexTypeOK
  <2>2. op' \in [Interfaces -> MutexOp]
    BY <1>1, <1>4, <1>5, <1>6 DEF TestSet, MutexTypeOK
  <2>3. /\ handle' \in [Interfaces -> [Mutexes -> nfp_cpp_mutex]]
        /\ held' \in [Interfaces -> [Mutexes -> Nat]]
    BY <1>1, <1>3, <1>6 DEF TestSet, MutexTypeOK
  <2>4. QED BY <2>1, <2>2, <2>3 DEF MutexTypeOK
<1>7. CASE WriteOwner(i)
  <2>1. word' \in [Mutexes -> LockWord]
    BY <1>1, <1>7, WordsTyped DEF WriteOwner, MutexTypeOK
  <2>2. QED
    BY <1>3, <1>4, <1>7, <2>1 DEF WriteOwner, MutexTypeOK
<1>8. CASE UnlockRead(i)
  <2>1. op' \in [Interfaces -> MutexOp]
    BY <1>4, <1>5, <1>8 DEF UnlockRead
  <2>2. QED BY <1>1, <1>8, <2>1 DEF UnlockRead, MutexTypeOK
<1>9. CASE UnlockWrite(i)
  <2>1. word' \in [Mutexes -> LockWord]
    BY <1>1, <1>9, WordsTyped DEF UnlockWrite, MutexTypeOK
  <2>2. handle' \in [Interfaces -> [Mutexes -> nfp_cpp_mutex]]
    <3>1. handle' = [handle EXCEPT ![i][m] = [h EXCEPT !.depth = 0]]
      BY <1>9 DEF UnlockWrite
    <3>2. QED BY <1>1, <1>2, <3>1, CacheTyped
  <2>3. held' \in [Interfaces -> [Mutexes -> Nat]]
    <3>1. held[i][m] = 1
      BY <1>9 DEF UnlockWrite, At, MutexInv, StateInv, CallInv
    <3>2. QED BY <1>1, <1>9, <3>1 DEF UnlockWrite, MutexTypeOK
  <2>4. QED BY <1>4, <1>9, <2>1, <2>2, <2>3 DEF UnlockWrite, MutexTypeOK
<1>10. CASE AccessFails(i)
  <2>1. op' \in [Interfaces -> MutexOp]
    BY <1>4, <1>5, <1>10 DEF AccessFails
  <2>2. QED BY <1>1, <1>10, <2>1 DEF AccessFails, MutexTypeOK
<1>11. CASE Crash(i)
  <2>1. NoHandle \in nfp_cpp_mutex
    BY DEF NoHandle, nfp_cpp_mutex
  <2>2. QED BY <1>1, <1>4, <1>11, <2>1 DEF Crash, MutexTypeOK
<1>12. QED
  BY <1>6, <1>7, <1>8, <1>9, <1>10, <1>11 DEF MutexStep

\* Changing the place and the result of a call leaves what is known of the
\* other calls; at "idle" nothing need be known.
LEMMA ReturnState ==
  ASSUME MutexTypeOK, CallInv, ClaimInv, NEW i \in Interfaces,
         NEW ret \in {"ok", "busy", "error"}, Return(i, ret)
  PROVE  /\ op'[i].pc = "idle"
         /\ \A j \in Interfaces : j # i => op'[j] = op[j]
BY DEF MutexTypeOK, MutexOp, Return

\* The accesses of a call, failed ones included, and a crash keep what the
\* words and the calls mean.
LEMMA StepStates ==
  ASSUME MutexInv, NEW i \in Interfaces, MutexStep(i) \/ Crash(i)
  PROVE  StateInv'
<1> DEFINE m == op[i].m
<1>1. /\ MutexTypeOK
      /\ WordInv /\ DepthInv /\ CallInv /\ ClaimInv
      /\ m \in Mutexes
  BY DEF MutexInv, StateInv, MutexTypeOK, MutexOp
<1> USE DEF At
<1>2. CASE TestSet(i) /\ word[m].mark = 0
  <2>a. word[m] # MUTEX_LOCKED(i) /\ ~ MUTEX_IS_LOCKED(word[m])
    BY <1>2, OwnerNamed DEF MUTEX_IS_LOCKED
  <2>b. [word[m] EXCEPT !.mark = 15] = Claimed
    BY <1>1, <1>2 DEF WordInv, MutexTypeOK, LockWord, Claimed
  <2>1. /\ word' = [word EXCEPT ![m] = Claimed]
        /\ op' = [op EXCEPT ![i].pc = "write_owner"]
        /\ handle' = handle /\ held' = held
    BY <1>2, <2>a, <2>b DEF TestSet
  <2>2. \A j \in Interfaces : held[j][m] = 0
    BY <1>1, <1>2 DEF WordInv, MUTEX_LOCKED, MutexTypeOK
  <2>3. \A j \in Interfaces : op[j].pc = "write_owner" => op[j].m # m
    BY <1>1, <1>2 DEF CallInv, Claimed
  <2>4. WordInv'
    BY <1>1, <2>1, <2>2 DEF WordInv, Claimed, MutexTypeOK
  <2>5. CallInv'
    BY <1>1, <2>1, <2>2 DEF CallInv, MutexTypeOK, MutexOp
  <2>6. ClaimInv'
    BY <1>1, <2>1, <2>3 DEF ClaimInv, MutexTypeOK, MutexOp
  <2>7. QED BY <1>1, <2>1, <2>4, <2>5, <2>6 DEF StateInv, DepthInv
<1>3. CASE TestSet(i) /\ word[m] = MUTEX_LOCKED(i)
  <2>1. /\ word' = word
        /\ Take(i, m)
        /\ Return(i, "ok")
    BY <1>1, <1>3
    DEF TestSet, MUTEX_IS_UNLOCKED, MUTEX_LOCKED, MutexTypeOK, LockWord
  <2>2. held[i][m] = 0
    BY <1>3 DEF TestSet, MutexInv, StateInv, CallInv
  <2>3. WordInv'
    BY <1>1, <1>3, <2>1 DEF WordInv, Take, MutexTypeOK
  <2>4. DepthInv'
    BY <1>1, <2>1, <2>2 DEF DepthInv, Take, MutexTypeOK, nfp_cpp_mutex
  <2>5. CallInv' /\ ClaimInv'
    BY <1>1, <2>1, ReturnState DEF CallInv, ClaimInv, Take, MutexTypeOK
  <2>6. QED BY <2>3, <2>4, <2>5 DEF StateInv
<1>4. CASE TestSet(i) /\ word[m].mark = 15 /\ word[m] # MUTEX_LOCKED(i)
  <2>1. /\ word' = word
        /\ op' = op \/ Return(i, "busy")
        /\ handle' = handle /\ held' = held
    BY <1>1, <1>4
    DEF TestSet, MUTEX_IS_UNLOCKED, MutexTypeOK, LockWord
  <2>2. CallInv' /\ ClaimInv'
    BY <1>1, <2>1, ReturnState DEF CallInv, ClaimInv
  <2>3. QED BY <1>1, <2>1, <2>2 DEF StateInv, WordInv, DepthInv
<1>5. CASE WriteOwner(i)
  <2>1. held[i][m] = 0 /\ word[m] = Claimed
    BY <1>1, <1>5 DEF WriteOwner, CallInv
  <2>2. \A j \in Interfaces : held[j][m] = 0
    BY <1>1, <2>1 DEF WordInv, MUTEX_LOCKED, Claimed, MutexTypeOK
  <2>3. \A j \in Interfaces : j # i /\ op[j].pc = "write_owner" => op[j].m # m
    BY <1>1, <1>5 DEF ClaimInv, WriteOwner
  <2>4. WordInv'
    BY <1>1, <1>5, <2>2 DEF WriteOwner, WordInv, Take, MUTEX_LOCKED, MutexTypeOK
  <2>5. DepthInv'
    BY <1>1, <1>5, <2>1
    DEF WriteOwner, DepthInv, Take, MutexTypeOK, nfp_cpp_mutex
  <2>6. /\ op'[i].pc = "idle"
        /\ \A j \in Interfaces : j # i => op'[j] = op[j] /\ held'[j] = held[j]
        /\ \A n \in Mutexes : n # m => word'[n] = word[n]
    BY <1>1, <1>5, ReturnState DEF WriteOwner, Take, MutexTypeOK
  <2>7. CallInv'
    BY <1>1, <2>3, <2>6 DEF CallInv, MutexTypeOK, MutexOp
  <2>8. ClaimInv'
    BY <1>1, <2>6 DEF ClaimInv
  <2>9. QED BY <2>4, <2>5, <2>7, <2>8 DEF StateInv
<1>6. CASE UnlockRead(i)
  <2>1. /\ op'[i].pc = "idle"
           \/ /\ op'[i].pc = "unlock_write"
              /\ op'[i].m = m /\ op'[i].call = op[i].call
        /\ \A j \in Interfaces : j # i => op'[j] = op[j]
        /\ word' = word /\ held' = held
    BY <1>1, <1>6, ReturnState DEF UnlockRead, MutexTypeOK, MutexOp
  <2>2. held[i][m] = 1 /\ op[i].call = "unlock"
    BY <1>1, <1>6 DEF UnlockRead, CallInv
  <2>3. CallInv'
    BY <1>1, <2>1, <2>2 DEF CallInv
  <2>4. ClaimInv'
    BY <1>1, <2>1 DEF ClaimInv
  <2>5. QED
    BY <1>1, <1>6, <2>3, <2>4 DEF UnlockRead, StateInv, WordInv, DepthInv
<1>7. CASE UnlockWrite(i)
  <2>1. held[i][m] = 1 /\ word[m] = MUTEX_LOCKED(i)
    BY <1>1, <1>7 DEF UnlockWrite, CallInv, WordInv
  <2>2. \A j \in Interfaces : j # i => held[j][m] = 0
    BY <1>1, <2>1 DEF WordInv, MUTEX_LOCKED, MutexTypeOK
  <2>3. \A j \in Interfaces : op[j].pc = "write_owner" => op[j].m # m
    BY <1>1, <2>1 DEF CallInv, Claimed, MUTEX_LOCKED
  <2>4. WordInv'
    BY <1>1, <1>7, <2>1, <2>2 DEF UnlockWrite, WordInv, MUTEX_UNLOCK, MutexTypeOK
  <2>5. DepthInv'
    BY <1>1, <1>7, <2>1 DEF UnlockWrite, DepthInv, MutexTypeOK, nfp_cpp_mutex
  <2>6. /\ op'[i].pc = "idle"
        /\ \A j \in Interfaces : j # i => op'[j] = op[j] /\ held'[j] = held[j]
        /\ \A n \in Mutexes : n # m => word'[n] = word[n]
    BY <1>1, <1>7, ReturnState DEF UnlockWrite, MutexTypeOK
  <2>7. CallInv'
    BY <1>1, <2>3, <2>6 DEF CallInv, MutexTypeOK, MutexOp
  <2>8. ClaimInv'
    BY <1>1, <2>6 DEF ClaimInv
  <2>9. QED BY <2>4, <2>5, <2>7, <2>8 DEF StateInv
<1>8. CASE AccessFails(i)
  <2>1. /\ op'[i].pc = "idle"
           \/ /\ op[i].pc # "idle" /\ op[i].call = "lock"
              /\ op'[i].pc = "test_set" /\ op'[i].m = m
        /\ \A j \in Interfaces : j # i => op'[j] = op[j]
        /\ word' = word /\ held' = held
    BY <1>1, <1>8, ReturnState DEF AccessFails, MutexTypeOK, MutexOp
  <2>2. op[i].pc # "idle" /\ op[i].call = "lock" => held[i][m] = 0
    BY <1>1 DEF CallInv, MutexTypeOK, MutexOp
  <2>3. CallInv'
    BY <1>1, <2>1, <2>2 DEF CallInv
  <2>4. ClaimInv'
    BY <1>1, <2>1 DEF ClaimInv
  <2>5. QED
    BY <1>1, <1>8, <2>3, <2>4 DEF AccessFails, StateInv, WordInv, DepthInv
<1>9. CASE Crash(i)
  <2>1. WordInv' /\ DepthInv'
    BY <1>1, <1>9 DEF Crash, WordInv, DepthInv, MutexTypeOK, NoHandle
  <2>2. CallInv' /\ ClaimInv'
    BY <1>1, <1>9, ReturnState DEF Crash, CallInv, ClaimInv, MutexTypeOK
  <2>3. QED BY <2>1, <2>2 DEF StateInv
<1>10. TestSet(i) => word[m].mark = 0 \/ word[m].mark = 15
  BY <1>1 DEF MutexTypeOK, LockWord
<1>11. QED
  BY <1>2, <1>3, <1>4, <1>5, <1>6, <1>7, <1>8, <1>9, <1>10 DEF MutexStep

-----------------------------------------------------------------------------
\* Every step of the mutexes, and stuttering, preserves MutexInv.
LEMMA MutexInvStep == MutexInv /\ [MutexNext]_mutexVars => MutexInv'
<1> SUFFICES ASSUME MutexInv, [MutexNext]_mutexVars PROVE MutexInv'
  OBVIOUS
<1>1. CASE UNCHANGED mutexVars
  BY <1>1 DEF mutexVars, MutexInv, StateInv, MutexTypeOK, WordInv, DepthInv,
              CallInv, ClaimInv
<1>2. CASE MutexNext
  BY <1>2, CallTypes, CallStates, StepTypes, StepStates DEF MutexNext, MutexInv
<1>3. QED BY <1>1, <1>2

\* Two holders would both have their number in the word.
LEMMA InvExcludes == MutexInv => Exclusion
BY OwnerNamed DEF MutexInv, StateInv, WordInv, Exclusion

(***************************************************************************)
(* At most one interface holds a mutex, whatever fails and whoever dies and  *)
(* comes back: nfp_mutex.c implements mutual exclusion.                      *)
(***************************************************************************)
THEOREM MutexExcludes == MutexSpec => []Exclusion
<1>1. QED BY MutexInvInit, MutexInvStep, InvExcludes, PTL DEF MutexSpec

\* A step that changes the word of a held mutex is its holder's last unlock.
LEMMA WordChanges ==
  ASSUME MutexInv, [MutexNext]_mutexVars, NEW i \in Interfaces,
         NEW m \in Mutexes, held[i][m] > 0, word'[m] # word[m]
  PROVE  held'[i][m] = 0
<1>1. /\ MutexTypeOK /\ WordInv /\ CallInv
      /\ word[m] = MUTEX_LOCKED(i)
      /\ \A j \in Interfaces : op[j].m \in Mutexes
  BY DEF MutexInv, StateInv, WordInv, MutexTypeOK, MutexOp
<1>2. PICK j \in Interfaces : TestSet(j) \/ WriteOwner(j) \/ UnlockWrite(j)
  <2>1. word' # word
    OBVIOUS
  <2>2. MutexNext
    BY <2>1 DEF mutexVars
  <2>3. ASSUME NEW j \in Interfaces, NEW n \in Mutexes
        PROVE  /\ ~ nfp_cpp_mutex_alloc(j, n)
               /\ ~ nfp_cpp_mutex_free(j, n)
               /\ ~ nfp_cpp_mutex_lock(j, n)
               /\ ~ nfp_cpp_mutex_trylock(j, n)
               /\ ~ nfp_cpp_mutex_unlock(j, n)
    BY <2>1
    DEF nfp_cpp_mutex_alloc, nfp_cpp_mutex_free, nfp_cpp_mutex_lock,
        nfp_cpp_mutex_trylock, MutexCall, nfp_cpp_mutex_unlock
  <2>4. ASSUME NEW j \in Interfaces
        PROVE  ~ UnlockRead(j) /\ ~ AccessFails(j) /\ ~ Crash(j)
    BY <2>1 DEF UnlockRead, AccessFails, Crash
  <2>5. QED BY <2>2, <2>3, <2>4 DEF MutexNext, MutexStep
<1>3. CASE TestSet(j)
  <2>1. [word[m] EXCEPT !.mark = 15] = word[m]
    BY <1>1, OwnerNamed DEF MutexTypeOK, LockWord
  <2>2. word'[m] = word[m]
    BY <1>1, <1>3, <2>1 DEF TestSet, MutexTypeOK
  <2>3. QED BY <2>2
<1>4. CASE WriteOwner(j)
  <2>1. op[j].m = m
    BY <1>1, <1>4 DEF WriteOwner, MutexTypeOK
  <2>2. word[m] = Claimed
    BY <1>1, <1>4, <2>1 DEF WriteOwner, At, CallInv
  <2>3. QED BY <1>1, <2>2, OwnerNamed
<1>5. CASE UnlockWrite(j)
  <2>1. op[j].m = m
    BY <1>1, <1>5 DEF UnlockWrite, MutexTypeOK
  <2>2. held[j][m] = 1
    BY <1>1, <1>5, <2>1 DEF UnlockWrite, At, CallInv
  <2>3. i = j
    BY <1>1, <2>2, OwnerNamed DEF WordInv
  <2>4. QED BY <1>1, <1>5, <2>1, <2>2, <2>3 DEF UnlockWrite, MutexTypeOK
<1>6. QED BY <1>2, <1>3, <1>4, <1>5

(***************************************************************************)
(* The word of a held mutex changes only when its holder gives it up:        *)
(* test_set_imm on a mutex that is taken is harmless.                        *)
(***************************************************************************)
THEOREM MutexUndisturbed == MutexSpec => UndisturbedHold
<1>1. MutexInv /\ [MutexNext]_mutexVars =>
        [\A i \in Interfaces, m \in Mutexes :
            held[i][m] > 0 /\ word'[m] # word[m] => held'[i][m] = 0]_mutexVars
  BY WordChanges
<1>2. QED
  BY <1>1, MutexInvInit, MutexInvStep, PTL DEF MutexSpec, UndisturbedHold

-----------------------------------------------------------------------------
(***************************************************************************)
(* What each place of nfp_resource.c knows of the mutexes.  The table's      *)
(* mutex is held from "find" until it is unlocked, and the mutex of the       *)
(* resource from the moment trylock has returned 0 until it is released.      *)
(***************************************************************************)
UserInvOf(i) ==
    LET u == user[i] IN
    /\ u.pc \in {"idle", "lock_dev", "find", "try", "unlock_dev", "own"} =>
          op[i].pc = "idle"
    /\ u.pc = "locking" =>
          /\ op[i].m = DevMutex
          /\ op[i].pc \in {"idle", "test_set", "write_owner"}
          /\ op[i].pc = "idle" /\ op[i].ret = "ok" => held[i][DevMutex] > 0
    /\ u.pc \in {"find", "try", "trying"} => held[i][DevMutex] > 0
    /\ u.pc \in {"try", "trying", "own", "releasing"} => u.res \in Table
    /\ u.pc = "trying" =>
          /\ op[i].m = u.res
          /\ op[i].pc \in {"idle", "test_set", "write_owner"}
          /\ op[i].pc = "idle" /\ op[i].ret = "ok" => held[i][u.res] > 0
    /\ u.pc \in {"unlock_dev", "unlocking"} /\ u.err = 0 =>
          u.res \in Table /\ held[i][u.res] > 0
    /\ u.pc = "unlocking" => op[i].m = DevMutex
    /\ u.pc = "own" => held[i][u.res] > 0

UserInv == \A i \in Interfaces : UserInvOf(i)

ResourceInv == ResourceTypeOK /\ MutexInv /\ UserInv

\* The calls and the steps of nfp_mutex.c that a process can make.
MutexActs(i) ==
    \/ \E m \in Mutexes :
          \/ nfp_cpp_mutex_alloc(i, m)
          \/ nfp_cpp_mutex_free(i, m)
          \/ nfp_cpp_mutex_lock(i, m)
          \/ nfp_cpp_mutex_trylock(i, m)
          \/ nfp_cpp_mutex_unlock(i, m)
    \/ MutexStep(i)
    \/ Crash(i)
    \/ UNCHANGED mutexVars

\* What one process does in nfp_mutex.c leaves the calls of the others alone.
LEMMA ActsLocal ==
  ASSUME MutexTypeOK, NEW i \in Interfaces, MutexActs(i),
         NEW j \in Interfaces, j # i
  PROVE  op'[j] = op[j] /\ held'[j] = held[j]
<1> USE DEF MutexTypeOK
<1>1. ASSUME NEW m \in Mutexes,
             \/ nfp_cpp_mutex_alloc(i, m)
             \/ nfp_cpp_mutex_free(i, m)
             \/ nfp_cpp_mutex_lock(i, m)
             \/ nfp_cpp_mutex_trylock(i, m)
             \/ nfp_cpp_mutex_unlock(i, m)
      PROVE  op'[j] = op[j] /\ held'[j] = held[j]
  BY <1>1
  DEF nfp_cpp_mutex_alloc, nfp_cpp_mutex_free, nfp_cpp_mutex_lock,
      nfp_cpp_mutex_trylock, MutexCall, nfp_cpp_mutex_unlock
<1>2. CASE MutexStep(i)
  <2>1. op'[j] = op[j]
    BY <1>2 DEF MutexStep, TestSet, WriteOwner, UnlockRead, UnlockWrite,
                AccessFails, Return
  <2>2. held'[j] = held[j]
    BY <1>2 DEF MutexStep, TestSet, WriteOwner, UnlockRead, UnlockWrite,
                AccessFails, Take
  <2>3. QED BY <2>1, <2>2
<1>3. CASE Crash(i)
  BY <1>3 DEF Crash, Return
<1>4. CASE UNCHANGED mutexVars
  BY <1>4 DEF mutexVars
<1>5. QED BY <1>1, <1>2, <1>3, <1>4 DEF MutexActs

\* Every step of nfp_resource.c is one of nfp_mutex.c, or none, by one process,
\* whose place alone it changes.
LEMMA ResourceActs ==
  ASSUME ResourceInv, NEW i \in Interfaces,
         \/ \E r \in Resources : nfp_resource_acquire(i, r)
         \/ nfp_resource_release(i)
         \/ UserStep(i)
         \/ FindCrashes(i)
         \/ UserCrash(i)
  PROVE  /\ MutexActs(i)
         /\ \A j \in Interfaces : j # i => user'[j] = user[j]
<1>1. /\ DevMutex \in Mutexes
      /\ \A r \in Table : r \in Mutexes
  BY ResourceAssumption
<1>2. /\ user[i].pc \in {"try", "trying", "own", "releasing"} =>
             user[i].res \in Table
      /\ user \in [Interfaces ->
            [pc : UserPc, res : Resources, count : Nat,
             err : {0, -EPERM, -ENOENT, -EIO, -EBUSY, -EINVAL}]]
  BY DEF ResourceInv, UserInv, UserInvOf, ResourceTypeOK
<1>3. MutexActs(i)
  BY <1>1, <1>2
  DEF MutexActs, UserStep, UserAt, nfp_resource_acquire, nfp_resource_release,
      FindCrashes, UserCrash, LockDev, DevLocked, DevFailed, FindEntry,
      FindFails, TryResource, ResourceLocked, ResourceFailed, UnlockDev,
      AttemptEnds, ReleaseEnds
<1>4. \A j \in Interfaces : j # i => user'[j] = user[j]
  BY <1>2
  DEF UserStep, nfp_resource_acquire, nfp_resource_release,
      FindCrashes, UserCrash, LockDev, DevLocked, DevFailed, FindEntry,
      FindFails, TryResource, ResourceLocked, ResourceFailed, UnlockDev,
      AttemptEnds, ReleaseEnds, Goto, GotoWith
<1>5. QED BY <1>3, <1>4

\* Each step of a process keeps what its own place knows of the mutexes.
LEMMA OwnPlace ==
  ASSUME ResourceInv, NEW i \in Interfaces,
         \/ \E r \in Resources : nfp_resource_acquire(i, r)
         \/ nfp_resource_release(i)
         \/ UserStep(i)
         \/ FindCrashes(i)
         \/ UserCrash(i)
  PROVE  UserInvOf(i)'
<1>1. /\ UserInvOf(i) /\ MutexTypeOK /\ CallInv
      /\ user \in [Interfaces ->
            [pc : UserPc, res : Resources, count : Nat,
             err : {0, -EPERM, -ENOENT, -EIO, -EBUSY, -EINVAL}]]
      /\ op[i] \in MutexOp
  BY DEF ResourceInv, UserInv, ResourceTypeOK, MutexInv, StateInv, MutexTypeOK
<1>2. /\ DevMutex \in Mutexes /\ DevMutex \notin Table
      /\ \A r \in Table : r \in Mutexes
  BY ResourceAssumption
<1> USE DEF UserAt, At
<1>3. ASSUME NEW r \in Resources, nfp_resource_acquire(i, r)
      PROVE  UserInvOf(i)'
  BY <1>1, <1>3 DEF nfp_resource_acquire, nfp_cpp_mutex_alloc, UserInvOf
<1>4. CASE nfp_resource_release(i)
  BY <1>1, <1>2, <1>4
  DEF nfp_resource_release, Goto, nfp_cpp_mutex_unlock, UserInvOf, MutexTypeOK
<1>5. CASE LockDev(i)
  BY <1>1, <1>2, <1>5
  DEF LockDev, Goto, nfp_cpp_mutex_lock, MutexCall, UserInvOf, MutexTypeOK
<1>6. CASE DevLocked(i)
  BY <1>1, <1>6 DEF DevLocked, Goto, mutexVars, UserInvOf
<1>7. CASE DevFailed(i)
  BY <1>1, <1>7 DEF DevFailed, GotoWith, nfp_cpp_mutex_free, UserInvOf
<1>8. CASE FindEntry(i)
  BY <1>1, <1>8 DEF FindEntry, Goto, nfp_cpp_mutex_alloc, UserInvOf
<1>9. CASE FindFails(i)
  BY <1>1, <1>9
  DEF FindFails, GotoWith, mutexVars, UserInvOf, ENOENT, EIO
<1>10. CASE TryResource(i)
  BY <1>1, <1>2, <1>10
  DEF TryResource, Goto, nfp_cpp_mutex_trylock, MutexCall, UserInvOf, MutexTypeOK
<1>11. CASE ResourceLocked(i)
  BY <1>1, <1>11 DEF ResourceLocked, GotoWith, mutexVars, UserInvOf
<1>12. CASE ResourceFailed(i)
  BY <1>1, <1>2, <1>12
  DEF ResourceFailed, GotoWith, nfp_cpp_mutex_free, UserInvOf, EPERM
<1>13. CASE UnlockDev(i)
  BY <1>1, <1>2, <1>13
  DEF UnlockDev, Goto, nfp_cpp_mutex_unlock, UserInvOf, MutexTypeOK
<1>14. CASE AttemptEnds(i)
  <2>1. CASE TriesAgain(i)
    BY <1>1, <1>14, <2>1 DEF AttemptEnds, mutexVars, UserInvOf
  <2>2. CASE ~ TriesAgain(i) /\ user[i].err = 0
    <3>1. /\ user'[i].pc = "own" /\ user'[i].res = user[i].res
          /\ op' = op
      BY <1>1, <1>14, <2>2 DEF AttemptEnds, Goto, nfp_cpp_mutex_free
    <3>2. user[i].res \in Table /\ held[i][user[i].res] > 0
      BY <1>1, <1>14, <2>2 DEF AttemptEnds, UserInvOf
    <3>3. held'[i][user[i].res] = held[i][user[i].res]
      BY <1>1, <1>2, <1>14, <2>2, <3>2
      DEF AttemptEnds, nfp_cpp_mutex_free, MutexTypeOK
    <3>4. QED BY <1>14, <3>1, <3>2, <3>3 DEF AttemptEnds, UserInvOf
  <2>3. CASE ~ TriesAgain(i) /\ user[i].err # 0
    BY <1>1, <1>14, <2>3 DEF AttemptEnds, Goto, nfp_cpp_mutex_free, UserInvOf
  <2>4. QED BY <2>1, <2>2, <2>3
<1>15. CASE ReleaseEnds(i)
  BY <1>1, <1>15 DEF ReleaseEnds, Goto, nfp_cpp_mutex_free, UserInvOf
<1>16. CASE FindCrashes(i) \/ UserCrash(i)
  BY <1>1, <1>16 DEF FindCrashes, UserCrash, Crash, Return, Goto, UserInvOf,
                     MutexTypeOK, MutexOp
<1>17. CASE MutexStep(i) /\ UNCHANGED user
  <2> DEFINE m == op[i].m
  <2>1. m \in Mutexes /\ held[i][m] \in Nat
    BY <1>1 DEF MutexOp, MutexTypeOK
  <2>2. user'[i] = user[i] /\ op[i].pc # "idle"
    BY <1>17 DEF MutexStep, TestSet, WriteOwner, UnlockRead, UnlockWrite,
                 AccessFails
  <2>3. \A n \in Mutexes : n # m => held'[i][n] = held[i][n]
    BY <1>1, <1>17, <2>1
    DEF MutexStep, TestSet, WriteOwner, UnlockRead, UnlockWrite, AccessFails,
        Take, MutexTypeOK
  <2>4. op'[i].m = m
    BY <1>1, <1>17
    DEF MutexStep, TestSet, WriteOwner, UnlockRead, UnlockWrite, AccessFails,
        Return, MutexTypeOK, MutexOp
  <2>5. CASE TestSet(i) \/ WriteOwner(i)
    <3>1. /\ op'[i].pc \in {"idle", "test_set", "write_owner"}
          /\ op'[i].pc = "idle" /\ op'[i].ret = "ok" => held'[i][m] > 0
      BY <1>1, <2>1, <2>5
      DEF TestSet, WriteOwner, Take, Return, MutexTypeOK, MutexOp
    <3>2. held'[i][m] >= held[i][m]
      BY <1>1, <2>1, <2>5 DEF TestSet, WriteOwner, Take, MutexTypeOK
    <3>3. QED
      BY <1>1, <1>2, <2>1, <2>2, <2>3, <2>4, <3>1, <3>2
      DEF UserInvOf, MutexTypeOK
  <2>6. CASE UnlockRead(i) \/ UnlockWrite(i)
    <3>1. user[i].pc \in {"unlocking", "releasing"}
      BY <1>1, <2>6
      DEF UserInvOf, UnlockRead, UnlockWrite, UserPc
    <3>2. QED
      BY <1>1, <1>2, <2>1, <2>2, <2>3, <2>4, <3>1 DEF UserInvOf
  <2>7. CASE AccessFails(i)
    <3>1. /\ \/ op'[i].pc = "idle" /\ op'[i].ret = "error"
             \/ op'[i].pc = "test_set"
          /\ held' = held
      BY <1>1, <2>7 DEF AccessFails, Return, MutexTypeOK, MutexOp
    <3>2. QED BY <1>1, <2>2, <2>4, <3>1 DEF UserInvOf
  <2>8. QED BY <1>17, <2>5, <2>6, <2>7 DEF MutexStep
<1>18. QED
  BY <1>3, <1>4, <1>5, <1>6, <1>7, <1>8, <1>9, <1>10, <1>11, <1>12, <1>13,
     <1>14, <1>15, <1>16, <1>17 DEF UserStep

\* The steps of nfp_resource.c keep its own types.
LEMMA UserTypes ==
  ASSUME ResourceInv, NEW i \in Interfaces,
         \/ \E r \in Resources : nfp_resource_acquire(i, r)
         \/ nfp_resource_release(i)
         \/ UserStep(i)
         \/ FindCrashes(i)
         \/ UserCrash(i)
  PROVE  user' \in [Interfaces ->
            [pc : UserPc, res : Resources, count : Nat,
             err : {0, -EPERM, -ENOENT, -EIO, -EBUSY, -EINVAL}]]
<1> DEFINE Err == {0, -EPERM, -ENOENT, -EIO, -EBUSY, -EINVAL}
           U == [pc : UserPc, res : Resources, count : Nat, err : Err]
<1>1. user \in [Interfaces -> U] /\ user[i] \in U
  BY DEF ResourceInv, ResourceTypeOK
<1>2. \A pc \in UserPc : Goto(i, pc) => user' \in [Interfaces -> U]
  <2> SUFFICES ASSUME NEW pc \in UserPc, Goto(i, pc)
               PROVE  user' \in [Interfaces -> U]
    OBVIOUS
  <2> HIDE DEF Err
  <2>1. [user[i] EXCEPT !.pc = pc] \in U
    BY <1>1
  <2>2. QED BY <1>1, <2>1 DEF Goto
<1>3. \A pc \in UserPc : \A err \in Err :
         GotoWith(i, pc, err) => user' \in [Interfaces -> U]
  <2> SUFFICES ASSUME NEW pc \in UserPc, NEW err \in Err, GotoWith(i, pc, err)
               PROVE  user' \in [Interfaces -> U]
    OBVIOUS
  <2> HIDE DEF Err
  <2>1. [user[i] EXCEPT !.pc = pc, !.err = err] \in U
    BY <1>1
  <2>2. QED BY <1>1, <2>1 DEF GotoWith
<1>4. ASSUME NEW r \in Resources, nfp_resource_acquire(i, r)
      PROVE  user' \in [Interfaces -> U]
  BY <1>1, <1>4 DEF nfp_resource_acquire, UserPc
<1>5. CASE AttemptEnds(i)
  <2>1. CASE TriesAgain(i)
    <3> HIDE DEF Err
    <3>0. user[i].count + 1 \in Nat /\ "lock_dev" \in UserPc
      BY <1>1 DEF UserPc
    <3>1. [user[i] EXCEPT !.pc = "lock_dev", !.count = user[i].count + 1] \in U
      BY <1>1, <3>0
    <3>2. QED BY <1>1, <1>5, <2>1, <3>1 DEF AttemptEnds
  <2>2. CASE ~ TriesAgain(i)
    BY <1>2, <1>5, <2>2 DEF AttemptEnds, UserPc
  <2>3. QED BY <2>1, <2>2
<1>6. CASE \/ nfp_resource_release(i) \/ LockDev(i) \/ DevLocked(i)
           \/ FindEntry(i) \/ TryResource(i) \/ UnlockDev(i)
           \/ ReleaseEnds(i) \/ FindCrashes(i) \/ UserCrash(i)
  BY <1>2, <1>6
  DEF nfp_resource_release, LockDev, DevLocked, FindEntry, TryResource,
      UnlockDev, ReleaseEnds, FindCrashes, UserCrash, UserPc
<1>7. CASE \/ DevFailed(i) \/ FindFails(i) \/ ResourceLocked(i)
           \/ ResourceFailed(i)
  BY <1>3, <1>7
  DEF DevFailed, FindFails, ResourceLocked, ResourceFailed, UserPc
<1>8. CASE UNCHANGED user
  BY <1>1, <1>8
<1>9. QED BY <1>4, <1>5, <1>6, <1>7, <1>8 DEF UserStep

\* ResourceInv holds before any process has asked for a resource.
LEMMA ResourceInvInit == ResourceInit => ResourceInv
<1> SUFFICES ASSUME ResourceInit PROVE ResourceInv
  OBVIOUS
<1>1. MutexInv
  BY MutexInvInit DEF ResourceInit
<1>2. ResourceTypeOK
  BY <1>1 DEF ResourceInit, ResourceTypeOK, MutexInv, UserPc
<1>3. UserInv
  BY DEF ResourceInit, MutexInit, UserInv, UserInvOf
<1>4. QED BY <1>1, <1>2, <1>3 DEF ResourceInv

\* Every step, and stuttering, preserves ResourceInv; and it is a step of the
\* mutexes or leaves them alone.
LEMMA ResourceInvStep ==
  ResourceInv /\ [ResourceNext]_resourceVars =>
     ResourceInv' /\ [MutexNext]_mutexVars
<1> SUFFICES ASSUME ResourceInv, [ResourceNext]_resourceVars
             PROVE  ResourceInv' /\ [MutexNext]_mutexVars
  OBVIOUS
<1>1. CASE ResourceNext
  <2>1. PICK i \in Interfaces :
           \/ \E r \in Resources : nfp_resource_acquire(i, r)
           \/ nfp_resource_release(i)
           \/ UserStep(i)
           \/ FindCrashes(i)
           \/ UserCrash(i)
    BY <1>1 DEF ResourceNext
  <2>2. /\ MutexActs(i)
        /\ \A j \in Interfaces : j # i => user'[j] = user[j]
    BY <2>1, ResourceActs
  <2>3. [MutexNext]_mutexVars
    BY <2>2 DEF MutexActs, MutexNext
  <2>4. MutexInv'
    BY <2>3, MutexInvStep DEF ResourceInv
  <2>5. ResourceTypeOK'
    BY <2>1, <2>4, UserTypes DEF ResourceTypeOK, MutexInv
  <2>6. UserInv'
    <3> SUFFICES ASSUME NEW j \in Interfaces PROVE UserInvOf(j)'
      BY DEF UserInv
    <3>1. CASE j = i
      BY <2>1, <3>1, OwnPlace
    <3>2. CASE j # i
      <4>1. op'[j] = op[j] /\ held'[j] = held[j]
        BY <2>2, <3>2, ActsLocal DEF ResourceInv, MutexInv
      <4>2. user'[j] = user[j]
        BY <2>2, <3>2
      <4>3. QED BY <4>1, <4>2 DEF ResourceInv, UserInv, UserInvOf
    <3>3. QED BY <3>1, <3>2
  <2>7. QED BY <2>3, <2>4, <2>5, <2>6 DEF ResourceInv
<1>2. CASE UNCHANGED resourceVars
  <2>1. UNCHANGED mutexVars /\ user' = user
    BY <1>2 DEF resourceVars
  <2>2. MutexInv'
    BY <2>1, MutexInvStep DEF ResourceInv
  <2>3. UserInv'
    BY <2>1 DEF mutexVars, ResourceInv, UserInv, UserInvOf
  <2>4. QED
    BY <2>1, <2>2, <2>3 DEF ResourceInv, ResourceTypeOK, MutexInv
<1>3. QED BY <1>1, <1>2

\* Owning a resource is holding its mutex, and being between finding an entry
\* and taking its mutex is holding the table's.
LEMMA InvOwns == ResourceInv => OneOwner /\ TableGuarded
<1> SUFFICES ASSUME ResourceInv PROVE OneOwner /\ TableGuarded
  OBVIOUS
<1>1. Exclusion
  BY InvExcludes DEF ResourceInv
<1>2. OneOwner
  BY <1>1, ResourceAssumption
  DEF ResourceInv, UserInv, UserInvOf, OneOwner, Owns, UserAt, Exclusion
<1>3. TableGuarded
  BY <1>1, ResourceAssumption
  DEF ResourceInv, UserInv, UserInvOf, TableGuarded, Exclusion
<1>4. QED BY <1>2, <1>3

(***************************************************************************)
(* nfp_resource.c uses nfp_mutex.c as its callers must: every behaviour of   *)
(* the resources is one of the mutexes.                                      *)
(***************************************************************************)
THEOREM ResourcesUseMutexes == ResourceSpec => MutexSpec
<1>1. ResourceInit => MutexInit
  BY DEF ResourceInit
<1>2. QED
  BY <1>1, ResourceInvInit, ResourceInvStep, PTL DEF ResourceSpec, MutexSpec

(***************************************************************************)
(* A resource of the NIC has at most one owner, whatever fails.              *)
(***************************************************************************)
THEOREM ResourceExcludes == ResourceSpec => []OneOwner
<1>1. QED
  BY ResourceInvInit, ResourceInvStep, InvOwns, PTL DEF ResourceSpec

(***************************************************************************)
(* One process at a time searches the resource table and takes an entry's     *)
(* mutex.                                                                    *)
(***************************************************************************)
THEOREM TableExcludes == ResourceSpec => []TableGuarded
<1>1. QED
  BY ResourceInvInit, ResourceInvStep, InvOwns, PTL DEF ResourceSpec

-----------------------------------------------------------------------------
\* What nfp_mutex.c does to the words and to the other calls, if no access
\* fails and no process dies.
LEMMA RecoverableActs ==
  ASSUME ~ Failures, MutexInv, HeldOrRecoverable, NEW i \in Interfaces,
         MutexActs(i)
  PROVE  HeldOrRecoverable'
<1> DEFINE m == op[i].m
<1>1. /\ MutexTypeOK /\ WordInv /\ CallInv
      /\ m \in Mutexes
      /\ \A n \in Mutexes : word[n] \in LockWord
      /\ op[i] \in MutexOp
  BY DEF MutexInv, StateInv, MutexTypeOK, MutexOp
<1>2. \A j \in Interfaces : j # i => op'[j] = op[j]
  BY <1>1, ActsLocal
<1> USE DEF At
<1>3. ASSUME word' = word, op[i].pc # "write_owner"
      PROVE  HeldOrRecoverable'
  BY <1>2, <1>3 DEF HeldOrRecoverable
<1>4. ASSUME NEW n \in Mutexes,
             \/ nfp_cpp_mutex_alloc(i, n)
             \/ nfp_cpp_mutex_free(i, n)
             \/ nfp_cpp_mutex_lock(i, n)
             \/ nfp_cpp_mutex_trylock(i, n)
             \/ nfp_cpp_mutex_unlock(i, n)
      PROVE  HeldOrRecoverable'
  BY <1>3, <1>4
  DEF nfp_cpp_mutex_alloc, nfp_cpp_mutex_free, nfp_cpp_mutex_lock,
      nfp_cpp_mutex_trylock, MutexCall, nfp_cpp_mutex_unlock
<1>5. CASE TestSet(i)
  <2>1. CASE word[m].mark = 0
    <3>1. op' = [op EXCEPT ![i].pc = "write_owner"]
      BY <1>5, <2>1, OwnerNamed DEF TestSet, MUTEX_IS_LOCKED
    <3>2. op'[i].pc = "write_owner" /\ op'[i].m = m
      BY <1>1, <3>1 DEF MutexTypeOK, MutexOp
    <3>3. \A n \in Mutexes : n # m => word'[n] = word[n]
      BY <1>1, <1>5 DEF TestSet, MutexTypeOK
    <3>4. op[i].pc # "write_owner"
      BY <1>5 DEF TestSet
    <3>5. QED BY <1>2, <3>2, <3>3, <3>4 DEF HeldOrRecoverable
  <2>2. CASE word[m].mark = 15
    <3>1. [word[m] EXCEPT !.mark = 15] = word[m]
      BY <1>1, <2>2 DEF LockWord
    <3>2. word' = word
      BY <1>1, <1>5, <3>1 DEF TestSet, MutexTypeOK
    <3>3. QED BY <1>3, <1>5, <3>2 DEF TestSet
  <2>3. QED BY <1>1, <2>1, <2>2 DEF LockWord
<1>6. CASE WriteOwner(i)
  <2>1. /\ word'[m].owner = i
        /\ \A n \in Mutexes : n # m => word'[n] = word[n]
    BY <1>1, <1>6, OwnerNamed DEF WriteOwner, MutexTypeOK
  <2>2. QED BY <1>2, <2>1 DEF HeldOrRecoverable
<1>7. CASE UnlockRead(i)
  BY <1>3, <1>7 DEF UnlockRead
<1>8. CASE UnlockWrite(i)
  <2>1. /\ word'[m].mark = 0
        /\ \A n \in Mutexes : n # m => word'[n] = word[n]
    BY <1>1, <1>8 DEF UnlockWrite, MutexTypeOK, MUTEX_UNLOCK
  <2>2. op[i].pc # "write_owner"
    BY <1>8 DEF UnlockWrite
  <2>3. QED BY <1>2, <2>1, <2>2 DEF HeldOrRecoverable, MUTEX_IS_LOCKED
<1>9. CASE UNCHANGED mutexVars
  BY <1>9 DEF mutexVars, HeldOrRecoverable
<1>10. QED
  BY <1>4, <1>5, <1>6, <1>7, <1>8, <1>9
  DEF MutexActs, MutexStep, AccessFails, Crash

(***************************************************************************)
(* As long as no access fails and nobody dies, a locked word names an owner  *)
(* who can unlock it, or will as soon as the call in progress has written it: *)
(* no mutex of the NIC is lost.                                              *)
(***************************************************************************)
THEOREM MutexRecoverable ==
  ASSUME ~ Failures
  PROVE  MutexSpec => []HeldOrRecoverable
<1>1. MutexInit => HeldOrRecoverable
  BY DEF MutexInit, HeldOrRecoverable, MUTEX_IS_LOCKED, MUTEX_UNLOCK
<1>2. MutexInv /\ HeldOrRecoverable /\ [MutexNext]_mutexVars
         => HeldOrRecoverable'
  <2> SUFFICES ASSUME MutexInv, HeldOrRecoverable, [MutexNext]_mutexVars
               PROVE  HeldOrRecoverable'
    OBVIOUS
  <2>1. CASE MutexNext
    <3>1. PICK i \in Interfaces : MutexActs(i)
      BY <2>1 DEF MutexNext, MutexActs
    <3>2. QED BY <3>1, RecoverableActs
  <2>2. CASE UNCHANGED mutexVars
    BY <2>2 DEF mutexVars, HeldOrRecoverable, At
  <2>3. QED BY <2>1, <2>2
<1>3. QED
  BY <1>1, <1>2, MutexInvInit, MutexInvStep, PTL DEF MutexSpec

-----------------------------------------------------------------------------
\* A handle that is not in the cache has no depth, and a call in progress
\* keeps the handle it was called with.
UsedInv ==
    \A i \in Interfaces :
        /\ \A m \in Mutexes :
              handle[i][m].usage = 0 => handle[i][m].depth = 0
        /\ op[i].pc # "idle" => handle[i][op[i].m].usage > 0

\* nfp_mutex.c counts the users of a handle in nfp_cpp_mutex_alloc and
\* nfp_cpp_mutex_free and nowhere else.
LEMMA StepKeepsUsage ==
  ASSUME MutexTypeOK, NEW i \in Interfaces, MutexStep(i)
  PROVE  \A j \in Interfaces, m \in Mutexes :
            handle'[j][m].usage = handle[j][m].usage
<1>1. /\ handle \in [Interfaces -> [Mutexes -> nfp_cpp_mutex]]
      /\ op[i].m \in Mutexes
  BY DEF MutexTypeOK, MutexOp
<1>2. CASE handle' = handle
  BY <1>2
<1>3. ASSUME NEW d \in {0, 1},
             handle' = [handle EXCEPT ![i][op[i].m].depth = d]
      PROVE  \A j \in Interfaces, m \in Mutexes :
                handle'[j][m].usage = handle[j][m].usage
  BY <1>1, <1>3 DEF nfp_cpp_mutex
<1>4. \/ handle' = handle
      \/ handle' = [handle EXCEPT ![i][op[i].m].depth = 0]
      \/ handle' = [handle EXCEPT ![i][op[i].m].depth = 1]
  BY DEF MutexStep, TestSet, WriteOwner, UnlockRead, UnlockWrite, AccessFails,
         Take
<1>5. QED BY <1>2, <1>3, <1>4

\* The handles of the other processes are theirs.
LEMMA HandlesLocal ==
  ASSUME MutexTypeOK, NEW i \in Interfaces, MutexActs(i),
         NEW j \in Interfaces, j # i
  PROVE  handle'[j] = handle[j]
<1> USE DEF MutexTypeOK
<1>1. ASSUME NEW m \in Mutexes,
             \/ nfp_cpp_mutex_alloc(i, m)
             \/ nfp_cpp_mutex_free(i, m)
             \/ nfp_cpp_mutex_lock(i, m)
             \/ nfp_cpp_mutex_trylock(i, m)
             \/ nfp_cpp_mutex_unlock(i, m)
      PROVE  handle'[j] = handle[j]
  BY <1>1
  DEF nfp_cpp_mutex_alloc, nfp_cpp_mutex_free, nfp_cpp_mutex_lock,
      nfp_cpp_mutex_trylock, MutexCall, nfp_cpp_mutex_unlock
<1>2. CASE MutexStep(i)
  BY <1>2 DEF MutexStep, TestSet, WriteOwner, UnlockRead, UnlockWrite,
              AccessFails, Take
<1>3. CASE Crash(i)
  BY <1>3 DEF Crash
<1>4. CASE UNCHANGED mutexVars
  BY <1>4 DEF mutexVars
<1>5. QED BY <1>1, <1>2, <1>3, <1>4 DEF MutexActs

\* Every act of nfp_mutex.c keeps UsedInv, failures and crashes included.
LEMMA UsedActs ==
  ASSUME MutexInv, UsedInv, NEW i \in Interfaces, MutexActs(i)
  PROVE  UsedInv'
<1>1. /\ MutexTypeOK /\ CallInv /\ op[i] \in MutexOp
      /\ op[i].m \in Mutexes
      /\ \A m \in Mutexes : handle[i][m] \in nfp_cpp_mutex
  BY DEF MutexInv, StateInv, MutexTypeOK, MutexOp
<1>2. \A j \in Interfaces : j # i => op'[j] = op[j] /\ handle'[j] = handle[j]
  BY <1>1, ActsLocal, HandlesLocal
<1> DEFINE Used(h, o) ==
      /\ \A m \in Mutexes : h[m].usage = 0 => h[m].depth = 0
      /\ o.pc # "idle" => h[o.m].usage > 0
<1>3. SUFFICES Used(handle'[i], op'[i])
  BY <1>2 DEF UsedInv
<1>4. Used(handle[i], op[i])
  BY DEF UsedInv
<1> USE DEF At
<1>5. ASSUME NEW m \in Mutexes, nfp_cpp_mutex_alloc(i, m)
      PROVE  Used(handle'[i], op'[i])
  BY <1>1, <1>4, <1>5 DEF nfp_cpp_mutex_alloc, MutexTypeOK, nfp_cpp_mutex
<1>6. ASSUME NEW m \in Mutexes, nfp_cpp_mutex_free(i, m)
      PROVE  Used(handle'[i], op'[i])
  <2>1. op' = op /\ op[i].pc = "idle"
    BY <1>6 DEF nfp_cpp_mutex_free
  <2>2. \A n \in Mutexes : n # m => handle'[i][n] = handle[i][n]
    BY <1>1, <1>6 DEF nfp_cpp_mutex_free, MutexTypeOK
  <2>3. handle'[i][m].usage = 0 => handle'[i][m].depth = 0
    BY <1>1, <1>6 DEF nfp_cpp_mutex_free, MutexTypeOK, nfp_cpp_mutex, NoHandle
  <2>4. QED BY <1>4, <2>1, <2>2, <2>3
<1>7. ASSUME NEW m \in Mutexes, NEW call, MutexCall(i, m, call)
      PROVE  Used(handle'[i], op'[i])
  <2>1. op'[i].m = m
    BY <1>1, <1>7 DEF MutexCall, MutexTypeOK
  <2>2. \A n \in Mutexes :
           /\ handle'[i][n].usage = handle[i][n].usage
           /\ n # m => handle'[i][n] = handle[i][n]
    BY <1>1, <1>7 DEF MutexCall, MutexTypeOK, nfp_cpp_mutex
  <2>3. handle[i][m].usage > 0
    BY <1>7 DEF MutexCall
  <2>4. QED BY <1>1, <1>4, <2>1, <2>2, <2>3 DEF nfp_cpp_mutex
<1>8. ASSUME NEW m \in Mutexes, nfp_cpp_mutex_unlock(i, m)
      PROVE  Used(handle'[i], op'[i])
  <2>1. op'[i].m = m
    BY <1>1, <1>8 DEF nfp_cpp_mutex_unlock, MutexTypeOK
  <2>2. \A n \in Mutexes :
           /\ handle'[i][n].usage = handle[i][n].usage
           /\ n # m => handle'[i][n] = handle[i][n]
    BY <1>1, <1>8 DEF nfp_cpp_mutex_unlock, MutexTypeOK, nfp_cpp_mutex
  <2>3. handle[i][m].usage > 0
    BY <1>1, <1>4, <1>8 DEF nfp_cpp_mutex_unlock, nfp_cpp_mutex
  <2>4. QED BY <1>1, <1>4, <2>1, <2>2, <2>3 DEF nfp_cpp_mutex
<1>9. CASE MutexStep(i)
  <2>1. \A m \in Mutexes : handle'[i][m].usage = handle[i][m].usage
    BY <1>1, <1>9, StepKeepsUsage
  <2>2. op'[i].m = op[i].m /\ op[i].pc # "idle"
    BY <1>1, <1>9
    DEF MutexStep, TestSet, WriteOwner, UnlockRead, UnlockWrite, AccessFails,
        Return, MutexTypeOK, MutexOp
  <2>3. \A n \in Mutexes : n # op[i].m => handle'[i][n] = handle[i][n]
    BY <1>1, <1>9
    DEF MutexStep, TestSet, WriteOwner, UnlockRead, UnlockWrite, AccessFails,
        Take, MutexTypeOK
  <2>4. handle[i][op[i].m].usage > 0
    BY <1>4, <2>2
  <2>5. QED BY <1>1, <1>4, <2>1, <2>2, <2>3, <2>4 DEF nfp_cpp_mutex
<1>10. CASE Crash(i)
  BY <1>1, <1>10 DEF Crash, Return, MutexTypeOK, NoHandle, MutexOp
<1>11. CASE UNCHANGED mutexVars
  BY <1>4, <1>11 DEF mutexVars
<1>12. QED
  BY <1>5, <1>6, <1>7, <1>8, <1>9, <1>10, <1>11
  DEF MutexActs, nfp_cpp_mutex_lock, nfp_cpp_mutex_trylock

\* From where to where nfp_resource.c has a handle of the table's mutex, and
\* one of the mutex of the resource.
HasTable(u) ==
    u.pc \in {"lock_dev", "locking", "find", "try", "trying", "unlock_dev",
              "unlocking"}

HasEntry(u) ==
    \/ u.pc \in {"try", "trying", "own", "releasing"}
    \/ u.pc \in {"unlock_dev", "unlocking"} /\ u.err = 0

HandleCount(u, m) ==
    IF \/ m = DevMutex /\ HasTable(u)
       \/ m = u.res /\ HasEntry(u)
      THEN 1 ELSE 0

\* A process has the handles that its place in nfp_resource.c calls for.
CountOf(i) ==
    \A m \in Mutexes : handle[i][m].usage = HandleCount(user[i], m)

CountInv == \A i \in Interfaces : CountOf(i)

\* nfp_cpp_mutex_alloc and nfp_cpp_mutex_free count one handle, one up or down.
LEMMA AllocCounts ==
  ASSUME MutexTypeOK, NEW i \in Interfaces, NEW m \in Mutexes,
         nfp_cpp_mutex_alloc(i, m)
  PROVE  /\ handle'[i][m].usage = handle[i][m].usage + 1
         /\ \A n \in Mutexes : n # m => handle'[i][n] = handle[i][n]
BY DEF MutexTypeOK, nfp_cpp_mutex_alloc, nfp_cpp_mutex

LEMMA FreeCounts ==
  ASSUME MutexTypeOK, NEW i \in Interfaces, NEW m \in Mutexes,
         nfp_cpp_mutex_free(i, m)
  PROVE  /\ handle'[i][m].usage = handle[i][m].usage - 1
         /\ \A n \in Mutexes : n # m => handle'[i][n] = handle[i][n]
<1>1. handle[i][m] \in nfp_cpp_mutex
  BY DEF MutexTypeOK
<1>2. \A n \in Mutexes : n # m => handle'[i][n] = handle[i][n]
  BY DEF MutexTypeOK, nfp_cpp_mutex_free
<1>3. handle'[i][m].usage = handle[i][m].usage - 1
  BY <1>1 DEF MutexTypeOK, nfp_cpp_mutex_free, nfp_cpp_mutex, NoHandle
<1>4. QED BY <1>2, <1>3

\* Locking and unlocking do not count handles.
LEMMA CallKeepsUsage ==
  ASSUME MutexTypeOK, NEW i \in Interfaces, NEW m \in Mutexes,
         \/ nfp_cpp_mutex_lock(i, m)
         \/ nfp_cpp_mutex_trylock(i, m)
         \/ nfp_cpp_mutex_unlock(i, m)
  PROVE  \A n \in Mutexes : handle'[i][n].usage = handle[i][n].usage
<1>1. ASSUME NEW d, handle' = [handle EXCEPT ![i][m].depth = d]
      PROVE  \A n \in Mutexes : handle'[i][n].usage = handle[i][n].usage
  BY <1>1 DEF MutexTypeOK, nfp_cpp_mutex
<1>2. ASSUME NEW call, MutexCall(i, m, call)
      PROVE  \E d : handle' = [handle EXCEPT ![i][m].depth = d]
  BY <1>2 DEF MutexCall
<1>3. CASE nfp_cpp_mutex_unlock(i, m)
  <2>1. \E d : handle' = [handle EXCEPT ![i][m].depth = d]
    BY <1>3 DEF nfp_cpp_mutex_unlock
  <2>2. QED BY <1>1, <2>1
<1>4. QED
  BY <1>1, <1>2, <1>3 DEF nfp_cpp_mutex_lock, nfp_cpp_mutex_trylock

\* Each step of a process leaves it with the handles of its new place.
LEMMA OwnCount ==
  ASSUME ResourceInv, NEW i \in Interfaces, CountOf(i),
         \/ \E r \in Resources : nfp_resource_acquire(i, r)
         \/ nfp_resource_release(i)
         \/ UserStep(i)
         \/ FindCrashes(i)
         \/ UserCrash(i)
  PROVE  CountOf(i)'
<1>1. /\ UserInvOf(i) /\ MutexTypeOK
      /\ user \in [Interfaces ->
            [pc : UserPc, res : Resources, count : Nat,
             err : {0, -EPERM, -ENOENT, -EIO, -EBUSY, -EINVAL}]]
  BY DEF ResourceInv, UserInv, ResourceTypeOK, MutexInv, StateInv
<1>2. /\ DevMutex \in Mutexes /\ DevMutex \notin Resources
      /\ \A r \in Table : r \in Mutexes /\ r # DevMutex
      /\ user[i].res \in Resources
  BY <1>1, ResourceAssumption
<1>3. \A m \in Mutexes : handle[i][m].usage = HandleCount(user[i], m)
  BY DEF CountOf
<1>4. SUFFICES \A m \in Mutexes : handle'[i][m].usage = HandleCount(user'[i], m)
  BY DEF CountOf
<1> USE DEF UserAt
<1>5. ASSUME NEW r \in Resources, nfp_resource_acquire(i, r)
      PROVE  \A m \in Mutexes : handle'[i][m].usage = HandleCount(user'[i], m)
  BY <1>1, <1>2, <1>3, <1>5, AllocCounts
  DEF nfp_resource_acquire, HandleCount, HasTable, HasEntry
<1>6. CASE nfp_resource_release(i)
  BY <1>1, <1>2, <1>3, <1>6, CallKeepsUsage
  DEF nfp_resource_release, Goto, UserInvOf, HandleCount, HasTable, HasEntry
<1>7. CASE LockDev(i)
  BY <1>1, <1>2, <1>3, <1>7, CallKeepsUsage
  DEF LockDev, Goto, HandleCount, HasTable, HasEntry
<1>8. CASE DevLocked(i)
  BY <1>1, <1>3, <1>8
  DEF DevLocked, Goto, mutexVars, HandleCount, HasTable, HasEntry
<1>9. CASE DevFailed(i)
  BY <1>1, <1>2, <1>3, <1>9, FreeCounts
  DEF DevFailed, GotoWith, HandleCount, HasTable, HasEntry
<1>10. CASE FindEntry(i)
  BY <1>1, <1>2, <1>3, <1>10, AllocCounts
  DEF FindEntry, Goto, HandleCount, HasTable, HasEntry
<1>11. CASE FindFails(i)
  BY <1>1, <1>2, <1>3, <1>11
  DEF FindFails, GotoWith, mutexVars, HandleCount, HasTable, HasEntry, ENOENT,
      EIO
<1>12. CASE TryResource(i)
  BY <1>1, <1>2, <1>3, <1>12, CallKeepsUsage
  DEF TryResource, Goto, UserInvOf, HandleCount, HasTable, HasEntry
<1>13. CASE ResourceLocked(i)
  BY <1>1, <1>3, <1>13
  DEF ResourceLocked, GotoWith, mutexVars, HandleCount, HasTable, HasEntry
<1>14. CASE ResourceFailed(i)
  <2>1. user[i].res \in Mutexes /\ user[i].res # DevMutex
    BY <1>1, <1>2, <1>14 DEF ResourceFailed, UserInvOf
  <2>2. QED
    BY <1>1, <1>2, <1>3, <1>14, <2>1, FreeCounts
    DEF ResourceFailed, GotoWith, HandleCount, HasTable, HasEntry, EPERM
<1>15. CASE UnlockDev(i)
  BY <1>1, <1>2, <1>3, <1>15, CallKeepsUsage
  DEF UnlockDev, Goto, HandleCount, HasTable, HasEntry
<1>16. CASE AttemptEnds(i)
  <2>1. CASE TriesAgain(i)
    <3>1. user'[i] = [user[i] EXCEPT !.pc = "lock_dev", !.count = @ + 1]
      BY <1>1, <1>16, <2>1 DEF AttemptEnds
    <3>2. /\ user'[i].pc = "lock_dev" /\ user'[i].res = user[i].res
          /\ user[i].err # 0 /\ user[i].pc = "unlocking"
          /\ handle' = handle
      BY <1>1, <1>16, <2>1, <3>1
      DEF AttemptEnds, TriesAgain, EBUSY, mutexVars
    <3>3. QED BY <1>3, <3>2 DEF HandleCount, HasTable, HasEntry
  <2>2. CASE ~ TriesAgain(i)
    BY <1>1, <1>2, <1>3, <1>16, <2>2, FreeCounts
    DEF AttemptEnds, Goto, HandleCount, HasTable, HasEntry
  <2>3. QED BY <2>1, <2>2
<1>17. CASE ReleaseEnds(i)
  <2>1. user[i].res \in Mutexes /\ user[i].res # DevMutex
    BY <1>1, <1>2, <1>17 DEF ReleaseEnds, UserInvOf
  <2>2. QED
    BY <1>1, <1>2, <1>3, <1>17, <2>1, FreeCounts
    DEF ReleaseEnds, Goto, HandleCount, HasTable, HasEntry
<1>18. CASE FindCrashes(i) \/ UserCrash(i)
  BY <1>1, <1>18
  DEF FindCrashes, UserCrash, Crash, Goto, MutexTypeOK, NoHandle, HandleCount,
      HasTable, HasEntry
<1>19. CASE MutexStep(i) /\ UNCHANGED user
  BY <1>1, <1>3, <1>19, StepKeepsUsage
<1>20. QED
  BY <1>5, <1>6, <1>7, <1>8, <1>9, <1>10, <1>11, <1>12, <1>13, <1>14, <1>15,
     <1>16, <1>17, <1>18, <1>19 DEF UserStep

\* The inductive invariant of the handles.
HandlesInv == ResourceInv /\ UsedInv /\ CountInv

LEMMA HandlesInvStep ==
  HandlesInv /\ [ResourceNext]_resourceVars => HandlesInv'
<1> SUFFICES ASSUME HandlesInv, [ResourceNext]_resourceVars PROVE HandlesInv'
  OBVIOUS
<1>1. ResourceInv'
  BY ResourceInvStep DEF HandlesInv
<1>2. CASE ResourceNext
  <2>1. PICK i \in Interfaces :
           \/ \E r \in Resources : nfp_resource_acquire(i, r)
           \/ nfp_resource_release(i)
           \/ UserStep(i)
           \/ FindCrashes(i)
           \/ UserCrash(i)
    BY <1>2 DEF ResourceNext
  <2>2. /\ MutexActs(i)
        /\ \A j \in Interfaces : j # i => user'[j] = user[j]
    BY <2>1, ResourceActs DEF HandlesInv
  <2>3. UsedInv'
    BY <2>2, UsedActs DEF HandlesInv, ResourceInv
  <2>4. CountInv'
    <3> SUFFICES ASSUME NEW j \in Interfaces PROVE CountOf(j)'
      BY DEF CountInv
    <3>1. CASE j = i
      BY <2>1, <3>1, OwnCount DEF HandlesInv, CountInv
    <3>2. CASE j # i
      <4>1. handle'[j] = handle[j] /\ user'[j] = user[j]
        BY <2>2, <3>2, HandlesLocal DEF HandlesInv, ResourceInv, MutexInv
      <4>2. QED BY <4>1 DEF HandlesInv, CountInv, CountOf
    <3>3. QED BY <3>1, <3>2
  <2>5. QED BY <1>1, <2>3, <2>4 DEF HandlesInv
<1>3. CASE UNCHANGED resourceVars
  BY <1>1, <1>3
  DEF resourceVars, mutexVars, HandlesInv, UsedInv, CountInv, CountOf
<1>4. QED BY <1>2, <1>3

(***************************************************************************)
(* nfp_resource.c returns every handle of a mutex that it opens, however a   *)
(* call ends: nothing accumulates in mutex_cache.                            *)
(***************************************************************************)
THEOREM ResourceReturnsHandles == ResourceSpec => []HandlesReturned
<1>1. ResourceInit => HandlesInv
  <2> SUFFICES ASSUME ResourceInit PROVE HandlesInv
    OBVIOUS
  <2>1. UsedInv
    BY DEF ResourceInit, MutexInit, UsedInv, NoHandle
  <2>2. CountInv
    BY DEF ResourceInit, MutexInit, CountInv, CountOf, NoHandle, HandleCount,
           HasTable, HasEntry
  <2>3. QED BY <2>1, <2>2, ResourceInvInit DEF HandlesInv
<1>2. HandlesInv => HandlesReturned
  <2> SUFFICES ASSUME HandlesInv, NEW i \in Interfaces, NEW m \in Mutexes
               PROVE  /\ UserAt(i, "idle") => handle[i][m] = NoHandle
                      /\ UserAt(i, "own") =>
                           handle[i][m].usage = IF m = user[i].res THEN 1 ELSE 0
    BY DEF HandlesReturned
  <2>1. /\ handle[i][m].usage = HandleCount(user[i], m)
        /\ handle[i][m].usage = 0 => handle[i][m].depth = 0
        /\ handle[i][m] \in nfp_cpp_mutex
    BY DEF HandlesInv, CountInv, CountOf, UsedInv, ResourceInv, MutexInv,
           MutexTypeOK
  <2>2. QED
    BY <2>1
    DEF UserAt, HandleCount, HasTable, HasEntry, NoHandle, nfp_cpp_mutex
<1>3. QED
  BY <1>1, <1>2, HandlesInvStep, PTL DEF ResourceSpec

-----------------------------------------------------------------------------
\* From where to where nfp_resource.c has the table's mutex locked, and the
\* mutex of the resource, if no access fails.
LocksTable(i) ==
    \/ user[i].pc \in {"find", "try", "trying", "unlock_dev"}
    \/ user[i].pc = "locking" /\ op[i].pc = "idle"
    \/ user[i].pc = "unlocking" /\ op[i].pc # "idle"

LocksEntry(i) ==
    \/ user[i].pc = "trying" /\ op[i].pc = "idle" /\ op[i].ret = "ok"
    \/ user[i].pc \in {"unlock_dev", "unlocking"} /\ user[i].err = 0
    \/ user[i].pc = "own"
    \/ user[i].pc = "releasing" /\ op[i].pc # "idle"

LockCount(i, m) ==
    IF \/ m = DevMutex /\ LocksTable(i)
       \/ m = user[i].res /\ LocksEntry(i)
      THEN 1 ELSE 0

\* A process has locked, once, what its place in nfp_resource.c calls for, and
\* waiting for the table's mutex ends in having it.
LockOf(i) ==
    /\ \A m \in Mutexes : held[i][m] = LockCount(i, m)
    /\ user[i].pc = "locking" =>
          /\ op[i].call = "lock"
          /\ op[i].pc = "idle" => op[i].ret = "ok"
    /\ user[i].pc \in {"unlocking", "releasing"} =>
          op[i].pc \in {"idle", "unlock_read", "unlock_write"}
    /\ user[i].pc = "releasing" => op[i].m = user[i].res

LockInv == \A i \in Interfaces : LockOf(i)

\* A word names as its owner only a process that counts the lock as its own.
OwnerInv ==
    \A i \in Interfaces, m \in Mutexes : word[m].owner = i => held[i][m] > 0

\* A lock that is not nested begins with the test-and-set.
LEMMA LockBegins ==
  ASSUME MutexInv, NEW i \in Interfaces, NEW m \in Mutexes,
         NEW call \in {"lock", "trylock"}, MutexCall(i, m, call),
         held[i][m] = 0
  PROVE  /\ op'[i].pc = "test_set" /\ op'[i].m = m /\ op'[i].call = call
         /\ \A n \in Mutexes : held'[i][n] = held[i][n]
BY DEF MutexInv, StateInv, DepthInv, MutexTypeOK, MutexCall

\* An unlock that is not nested begins with the read of the word.
LEMMA UnlockBegins ==
  ASSUME MutexInv, NEW i \in Interfaces, NEW m \in Mutexes,
         nfp_cpp_mutex_unlock(i, m), held[i][m] = 1
  PROVE  /\ op'[i].pc = "unlock_read" /\ op'[i].m = m
         /\ \A n \in Mutexes : held'[i][n] = held[i][n]
BY DEF MutexInv, StateInv, DepthInv, MutexTypeOK, nfp_cpp_mutex_unlock

\* Dropping the handle of a mutex that is not locked drops no lock.
LEMMA FreeKeepsLocks ==
  ASSUME MutexInv, NEW i \in Interfaces, NEW m \in Mutexes,
         nfp_cpp_mutex_free(i, m), held[i][m] = 0
  PROVE  /\ op' = op
         /\ \A n \in Mutexes : held'[i][n] = held[i][n]
BY DEF MutexInv, MutexTypeOK, nfp_cpp_mutex_free

\* The owner a word names changes only when its claimant records itself or its
\* owner unlocks it.
LEMMA OwnerChanges ==
  ASSUME MutexInv, NEW i \in Interfaces, MutexActs(i), NEW m \in Mutexes
  PROVE  \/ word'[m].owner = word[m].owner
         \/ word'[m].owner = NoInterface
         \/ word'[m].owner = i /\ held'[i][m] > 0
<1>1. /\ MutexTypeOK /\ op[i].m \in Mutexes
      /\ \A n \in Mutexes : word[n] \in LockWord
  BY DEF MutexInv, MutexTypeOK, MutexOp
<1>2. ASSUME NEW n \in Mutexes,
             \/ nfp_cpp_mutex_alloc(i, n)
             \/ nfp_cpp_mutex_free(i, n)
             \/ nfp_cpp_mutex_lock(i, n)
             \/ nfp_cpp_mutex_trylock(i, n)
             \/ nfp_cpp_mutex_unlock(i, n)
      PROVE  word' = word
  BY <1>2
  DEF nfp_cpp_mutex_alloc, nfp_cpp_mutex_free, nfp_cpp_mutex_lock,
      nfp_cpp_mutex_trylock, MutexCall, nfp_cpp_mutex_unlock
<1>3. CASE TestSet(i)
  <2>1. word' = [word EXCEPT ![op[i].m].mark = 15]
    BY <1>3 DEF TestSet
  <2>2. word'[m].owner = word[m].owner
    BY <1>1, <2>1 DEF MutexTypeOK, LockWord
  <2>3. QED BY <2>2
<1>4. CASE WriteOwner(i)
  <2>1. held'[i][op[i].m] = held[i][op[i].m] + 1
    BY <1>1, <1>4 DEF WriteOwner, Take, MutexTypeOK
  <2>2. held[i][op[i].m] \in Nat
    BY <1>1 DEF MutexTypeOK
  <2>3. /\ word'[op[i].m].owner = i
        /\ m # op[i].m => word'[m] = word[m]
    BY <1>1, <1>4, OwnerNamed DEF WriteOwner, MutexTypeOK
  <2>4. QED BY <2>1, <2>2, <2>3
<1>5. CASE UnlockWrite(i)
  BY <1>1, <1>5 DEF UnlockWrite, MutexTypeOK, MUTEX_UNLOCK
<1>6. CASE UnlockRead(i) \/ AccessFails(i) \/ Crash(i) \/ UNCHANGED mutexVars
  BY <1>6 DEF UnlockRead, AccessFails, Crash, mutexVars
<1>7. QED
  BY <1>2, <1>3, <1>4, <1>5, <1>6 DEF MutexActs, MutexStep

\* The accesses of a call, none of which fails: a lock is had when its call
\* returns "ok", an unlock finds the caller in the word and succeeds.
LEMMA StepLocks ==
  ASSUME ~ Failures, MutexInv, NEW i \in Interfaces, MutexStep(i)
  PROVE  LET m == op[i].m IN
         /\ op'[i].m = m /\ op'[i].call = op[i].call
         /\ \A n \in Mutexes : n # m => held'[i][n] = held[i][n]
         /\ \/ /\ op[i].pc \in {"test_set", "write_owner"}
               /\ op'[i].pc \in {"test_set", "write_owner"}
               /\ held'[i][m] = held[i][m]
            \/ /\ op[i].pc \in {"test_set", "write_owner"}
               /\ op'[i].pc = "idle" /\ op'[i].ret = "ok"
               /\ held[i][m] = 0 /\ held'[i][m] = 1
            \/ /\ op[i].pc = "test_set" /\ op[i].call # "lock"
               /\ op'[i].pc = "idle" /\ op'[i].ret = "busy"
               /\ held'[i][m] = held[i][m]
            \/ /\ op[i].pc = "unlock_read" /\ op'[i].pc = "unlock_write"
               /\ held'[i][m] = held[i][m]
            \/ /\ op[i].pc = "unlock_write" /\ op'[i].pc = "idle"
               /\ held'[i][m] = 0 /\ word'[m].owner = NoInterface
<1> DEFINE m == op[i].m
<1>1. /\ MutexTypeOK /\ WordInv /\ CallInv
      /\ m \in Mutexes /\ op[i] \in MutexOp
  BY DEF MutexInv, StateInv, MutexTypeOK, MutexOp
<1>2. /\ op'[i].m = m /\ op'[i].call = op[i].call
      /\ \A n \in Mutexes : n # m => held'[i][n] = held[i][n]
  <2>1. op'[i].m = m /\ op'[i].call = op[i].call
    BY <1>1
    DEF MutexStep, TestSet, WriteOwner, UnlockRead, UnlockWrite, AccessFails,
        Return, MutexTypeOK, MutexOp
  <2>2. \A n \in Mutexes : n # m => held'[i][n] = held[i][n]
    BY <1>1
    DEF MutexStep, TestSet, WriteOwner, UnlockRead, UnlockWrite, AccessFails,
        Take, MutexTypeOK
  <2>3. QED BY <2>1, <2>2
<1> USE DEF At
<1>3. CASE TestSet(i)
  <2>1. held[i][m] = 0
    BY <1>1, <1>3 DEF TestSet, CallInv
  <2>2. \/ op' = [op EXCEPT ![i].pc = "write_owner"] /\ held' = held
        \/ Take(i, m) /\ Return(i, "ok")
        \/ op' = op /\ held' = held
        \/ op[i].call # "lock" /\ Return(i, "busy") /\ held' = held
    BY <1>3 DEF TestSet
  <2>3. Return(i, "ok") => op'[i].pc = "idle" /\ op'[i].ret = "ok"
    BY <1>1 DEF Return, MutexTypeOK, MutexOp
  <2>4. Return(i, "busy") => op'[i].pc = "idle" /\ op'[i].ret = "busy"
    BY <1>1 DEF Return, MutexTypeOK, MutexOp
  <2>5. Take(i, m) => held'[i][m] = 1
    BY <1>1, <2>1 DEF Take, MutexTypeOK
  <2>6. op' = [op EXCEPT ![i].pc = "write_owner"] => op'[i].pc = "write_owner"
    BY <1>1 DEF MutexTypeOK, MutexOp
  <2>7. op[i].pc = "test_set"
    BY <1>3 DEF TestSet
  <2>8. QED BY <1>2, <2>1, <2>2, <2>3, <2>4, <2>5, <2>6, <2>7
<1>4. CASE WriteOwner(i)
  <2>1. held[i][m] = 0 /\ op[i].pc = "write_owner"
    BY <1>1, <1>4 DEF WriteOwner, CallInv
  <2>2. op'[i].pc = "idle" /\ op'[i].ret = "ok"
    BY <1>1, <1>4 DEF WriteOwner, Return, MutexTypeOK, MutexOp
  <2>3. held'[i][m] = 1
    BY <1>1, <1>4, <2>1 DEF WriteOwner, Take, MutexTypeOK
  <2>4. QED BY <1>2, <2>1, <2>2, <2>3
<1>5. CASE UnlockRead(i)
  <2>1. word[m] = MUTEX_LOCKED(i) /\ op[i].pc = "unlock_read"
    BY <1>1, <1>5 DEF UnlockRead, CallInv, WordInv
  <2>2. op'[i].pc = "unlock_write" /\ held' = held
    BY <1>1, <1>5, <2>1 DEF UnlockRead, MutexTypeOK, MutexOp
  <2>3. QED BY <1>2, <2>1, <2>2
<1>6. CASE UnlockWrite(i)
  <2>1. held[i][m] = 1 /\ op[i].pc = "unlock_write"
    BY <1>1, <1>6 DEF UnlockWrite, CallInv
  <2>2. op'[i].pc = "idle"
    BY <1>1, <1>6 DEF UnlockWrite, Return, MutexTypeOK, MutexOp
  <2>3. held'[i][m] = 0 /\ word'[m].owner = NoInterface
    BY <1>1, <1>6, <2>1 DEF UnlockWrite, MutexTypeOK, MUTEX_UNLOCK
  <2>4. QED BY <1>2, <2>1, <2>2, <2>3
<1>7. QED BY <1>3, <1>4, <1>5, <1>6 DEF MutexStep, AccessFails

\* Each step of a process leaves it with the locks of its new place, and it
\* drops a lock only by unlocking the word.
LEMMA OwnLocks ==
  ASSUME ~ Failures, ResourceInv, NEW i \in Interfaces, LockOf(i),
         \/ \E r \in Resources : nfp_resource_acquire(i, r)
         \/ nfp_resource_release(i)
         \/ UserStep(i)
         \/ FindCrashes(i)
         \/ UserCrash(i)
  PROVE  /\ LockOf(i)'
         /\ \A m \in Mutexes : held[i][m] > 0 /\ held'[i][m] = 0 =>
               word'[m].owner = NoInterface
<1>1. /\ UserInvOf(i) /\ MutexTypeOK /\ MutexInv
      /\ user \in [Interfaces ->
            [pc : UserPc, res : Resources, count : Nat,
             err : {0, -EPERM, -ENOENT, -EIO, -EBUSY, -EINVAL}]]
      /\ op[i] \in MutexOp
  BY DEF ResourceInv, UserInv, ResourceTypeOK, MutexInv, StateInv, MutexTypeOK
<1>2. /\ DevMutex \in Mutexes /\ DevMutex \notin Resources
      /\ \A r \in Table : r \in Mutexes /\ r # DevMutex
      /\ user[i].res \in Resources /\ user[i].res # DevMutex
  BY <1>1, ResourceAssumption
<1>3. \A m \in Mutexes : held[i][m] = LockCount(i, m)
  BY DEF LockOf
<1>4. ASSUME \A m \in Mutexes : held'[i][m] = held[i][m]
      PROVE  \A m \in Mutexes : held[i][m] > 0 /\ held'[i][m] = 0 =>
                word'[m].owner = NoInterface
  BY <1>3, <1>4 DEF LockCount
<1> USE DEF UserAt, At
<1>5. ASSUME NEW r \in Resources, nfp_resource_acquire(i, r)
      PROVE  LockOf(i)' /\ held' = held
  <2>1. /\ user'[i] = [pc |-> "lock_dev", res |-> r, err |-> 0, count |-> 0]
        /\ held' = held /\ op' = op /\ user[i].pc = "idle"
    BY <1>1, <1>5 DEF nfp_resource_acquire, nfp_cpp_mutex_alloc
  <2>2. QED
    BY <1>3, <2>1 DEF LockOf, LockCount, LocksTable, LocksEntry
<1>6. CASE nfp_resource_release(i)
  <2>1. held[i][user[i].res] = 1 /\ user[i].res \in Mutexes
    BY <1>1, <1>2, <1>3, <1>6
    DEF nfp_resource_release, UserInvOf, LockCount, LocksEntry
  <2>2. /\ op'[i].pc = "unlock_read" /\ op'[i].m = user[i].res
        /\ \A n \in Mutexes : held'[i][n] = held[i][n]
    BY <1>1, <1>6, <2>1, UnlockBegins DEF nfp_resource_release
  <2>3. /\ user[i].pc = "own" /\ user'[i].pc = "releasing"
        /\ user'[i].res = user[i].res
    BY <1>1, <1>6 DEF nfp_resource_release, Goto
  <2>4. LockOf(i)'
    BY <1>3, <2>2, <2>3 DEF LockOf, LockCount, LocksTable, LocksEntry
  <2>5. QED BY <1>4, <2>2, <2>4
<1>7. CASE LockDev(i)
  <2>1. /\ user[i].pc = "lock_dev" /\ user'[i].pc = "locking"
        /\ user'[i].res = user[i].res
    BY <1>1, <1>7 DEF LockDev, Goto
  <2>2. held[i][DevMutex] = 0
    BY <1>2, <1>3, <2>1 DEF LockCount, LocksTable, LocksEntry
  <2>3. /\ op'[i].pc = "test_set" /\ op'[i].call = "lock"
        /\ \A n \in Mutexes : held'[i][n] = held[i][n]
    BY <1>1, <1>2, <1>7, <2>2, LockBegins DEF LockDev, nfp_cpp_mutex_lock
  <2>4. LockOf(i)'
    BY <1>3, <2>1, <2>3 DEF LockOf, LockCount, LocksTable, LocksEntry
  <2>5. QED BY <1>4, <2>3, <2>4
<1>8. CASE DevLocked(i)
  <2>1. /\ user[i].pc = "locking" /\ user'[i].pc = "find"
        /\ user'[i].res = user[i].res /\ op[i].pc = "idle"
        /\ op' = op /\ held' = held
    BY <1>1, <1>8 DEF DevLocked, Goto, mutexVars
  <2>2. LockOf(i)'
    BY <1>3, <2>1 DEF LockOf, LockCount, LocksTable, LocksEntry
  <2>3. QED BY <1>4, <2>1, <2>2
<1>9. ~ DevFailed(i)
  BY DEF DevFailed, LockOf
<1>10. CASE FindEntry(i)
  <2>1. /\ user[i].pc = "find" /\ user'[i].pc = "try"
        /\ user'[i].res = user[i].res
        /\ op' = op /\ held' = held
    BY <1>1, <1>10 DEF FindEntry, Goto, nfp_cpp_mutex_alloc
  <2>2. LockOf(i)'
    BY <1>3, <2>1 DEF LockOf, LockCount, LocksTable, LocksEntry
  <2>3. QED BY <1>4, <2>1, <2>2
<1>11. CASE FindFails(i)
  <2>1. /\ user[i].pc = "find" /\ user'[i].pc = "unlock_dev"
        /\ user'[i].res = user[i].res /\ user'[i].err # 0
        /\ op' = op /\ held' = held
    BY <1>1, <1>11 DEF FindFails, GotoWith, mutexVars, ENOENT, EIO
  <2>2. LockOf(i)'
    BY <1>3, <2>1 DEF LockOf, LockCount, LocksTable, LocksEntry
  <2>3. QED BY <1>4, <2>1, <2>2
<1>12. CASE TryResource(i)
  <2>1. /\ user[i].pc = "try" /\ user'[i].pc = "trying"
        /\ user'[i].res = user[i].res /\ user[i].res \in Mutexes
    BY <1>1, <1>2, <1>12 DEF TryResource, Goto, UserInvOf
  <2>2. held[i][user[i].res] = 0
    BY <1>2, <1>3, <2>1 DEF LockCount, LocksTable, LocksEntry
  <2>3. /\ op'[i].pc = "test_set"
        /\ \A n \in Mutexes : held'[i][n] = held[i][n]
    BY <1>1, <1>12, <2>1, <2>2, LockBegins
    DEF TryResource, nfp_cpp_mutex_trylock
  <2>4. LockOf(i)'
    BY <1>3, <2>1, <2>3 DEF LockOf, LockCount, LocksTable, LocksEntry
  <2>5. QED BY <1>4, <2>3, <2>4
<1>13. CASE ResourceLocked(i)
  <2>1. /\ user[i].pc = "trying" /\ user'[i].pc = "unlock_dev"
        /\ user'[i].res = user[i].res /\ user'[i].err = 0
        /\ op[i].pc = "idle" /\ op[i].ret = "ok"
        /\ op' = op /\ held' = held
    BY <1>1, <1>13 DEF ResourceLocked, GotoWith, mutexVars
  <2>2. LockOf(i)'
    BY <1>3, <2>1 DEF LockOf, LockCount, LocksTable, LocksEntry
  <2>3. QED BY <1>4, <2>1, <2>2
<1>14. CASE ResourceFailed(i)
  <2>1. /\ user[i].pc = "trying" /\ user'[i].pc = "unlock_dev"
        /\ user'[i].res = user[i].res /\ user'[i].err # 0
        /\ op[i].pc = "idle" /\ op[i].ret # "ok"
        /\ user[i].res \in Mutexes
    BY <1>1, <1>2, <1>14 DEF ResourceFailed, GotoWith, EPERM, UserInvOf
  <2>2. held[i][user[i].res] = 0
    BY <1>2, <1>3, <2>1 DEF LockCount, LocksTable, LocksEntry
  <2>3. op' = op /\ \A n \in Mutexes : held'[i][n] = held[i][n]
    BY <1>1, <1>14, <2>1, <2>2, FreeKeepsLocks DEF ResourceFailed
  <2>4. LockOf(i)'
    BY <1>3, <2>1, <2>3 DEF LockOf, LockCount, LocksTable, LocksEntry
  <2>5. QED BY <1>4, <2>3, <2>4
<1>15. CASE UnlockDev(i)
  <2>1. /\ user[i].pc = "unlock_dev" /\ user'[i].pc = "unlocking"
        /\ user'[i].res = user[i].res /\ user'[i].err = user[i].err
    BY <1>1, <1>15 DEF UnlockDev, Goto
  <2>2. held[i][DevMutex] = 1
    BY <1>2, <1>3, <2>1 DEF LockCount, LocksTable
  <2>3. /\ op'[i].pc = "unlock_read"
        /\ \A n \in Mutexes : held'[i][n] = held[i][n]
    BY <1>1, <1>2, <1>15, <2>2, UnlockBegins DEF UnlockDev
  <2>4. LockOf(i)'
    BY <1>3, <2>1, <2>3 DEF LockOf, LockCount, LocksTable, LocksEntry
  <2>5. QED BY <1>4, <2>3, <2>4
<1>16. CASE AttemptEnds(i)
  <2>0. user[i].pc = "unlocking" /\ op[i].pc = "idle"
    BY <1>16 DEF AttemptEnds
  <2>1. CASE TriesAgain(i)
    <3>1. user'[i] = [user[i] EXCEPT !.pc = "lock_dev", !.count = @ + 1]
      BY <1>1, <1>16, <2>1 DEF AttemptEnds
    <3>2. /\ user'[i].pc = "lock_dev" /\ user'[i].res = user[i].res
          /\ user[i].err # 0
          /\ op' = op /\ held' = held
      BY <1>1, <1>16, <2>1, <3>1 DEF AttemptEnds, TriesAgain, EBUSY, mutexVars
    <3>3. LockOf(i)'
      BY <1>3, <2>0, <3>2 DEF LockOf, LockCount, LocksTable, LocksEntry
    <3>4. QED BY <1>4, <3>2, <3>3
  <2>2. CASE ~ TriesAgain(i)
    <3>1. held[i][DevMutex] = 0
      BY <1>2, <1>3, <2>0 DEF LockCount, LocksTable
    <3>2. op' = op /\ \A n \in Mutexes : held'[i][n] = held[i][n]
      BY <1>1, <1>2, <1>16, <2>2, <3>1, FreeKeepsLocks DEF AttemptEnds
    <3>3. /\ user'[i].pc = IF user[i].err = 0 THEN "own" ELSE "idle"
          /\ user'[i].res = user[i].res
      BY <1>1, <1>16, <2>2 DEF AttemptEnds, Goto
    <3>4. LockOf(i)'
      BY <1>3, <2>0, <3>2, <3>3 DEF LockOf, LockCount, LocksTable, LocksEntry
    <3>5. QED BY <1>4, <3>2, <3>4
  <2>3. QED BY <2>1, <2>2
<1>17. CASE ReleaseEnds(i)
  <2>1. /\ user[i].pc = "releasing" /\ user'[i].pc = "idle"
        /\ user'[i].res = user[i].res /\ op[i].pc = "idle"
        /\ user[i].res \in Mutexes
    BY <1>1, <1>2, <1>17 DEF ReleaseEnds, Goto, UserInvOf
  <2>2. held[i][user[i].res] = 0
    BY <1>2, <1>3, <2>1 DEF LockCount, LocksTable, LocksEntry
  <2>3. op' = op /\ \A n \in Mutexes : held'[i][n] = held[i][n]
    BY <1>1, <1>17, <2>1, <2>2, FreeKeepsLocks DEF ReleaseEnds
  <2>4. LockOf(i)'
    BY <1>3, <2>1, <2>3 DEF LockOf, LockCount, LocksTable, LocksEntry
  <2>5. QED BY <1>4, <2>3, <2>4
<1>18. ~ FindCrashes(i) /\ ~ UserCrash(i)
  BY DEF FindCrashes, UserCrash, Crash
<1>19. CASE MutexStep(i) /\ UNCHANGED user
  <2> DEFINE m == op[i].m
  <2>1. m \in Mutexes /\ op[i].pc # "idle" /\ user'[i] = user[i]
    BY <1>1, <1>19
    DEF MutexOp, MutexStep, TestSet, WriteOwner, UnlockRead, UnlockWrite,
        AccessFails
  <2>2. user[i].pc \in {"locking", "trying", "unlocking", "releasing"}
    BY <1>1, <2>1 DEF UserInvOf, UserPc
  <2>3. /\ op'[i].m = m /\ op'[i].call = op[i].call
        /\ \A n \in Mutexes : n # m => held'[i][n] = held[i][n]
    BY <1>1, <1>19, StepLocks
  <2>4. CASE user[i].pc = "locking"
    <3>1. /\ m = DevMutex /\ op[i].call = "lock"
          /\ op[i].pc \in {"test_set", "write_owner"}
      BY <1>1, <2>1, <2>4 DEF UserInvOf, LockOf
    <3>2. \/ /\ op'[i].pc \in {"test_set", "write_owner"}
             /\ held'[i][m] = held[i][m]
          \/ /\ op'[i].pc = "idle" /\ op'[i].ret = "ok"
             /\ held[i][m] = 0 /\ held'[i][m] = 1
      BY <1>1, <1>19, <3>1, StepLocks
    <3>3. LockOf(i)'
      BY <1>2, <1>3, <2>1, <2>3, <2>4, <3>1, <3>2
      DEF LockOf, LockCount, LocksTable, LocksEntry
    <3>4. QED BY <1>3, <2>3, <3>2, <3>3 DEF LockCount
  <2>5. CASE user[i].pc = "trying"
    <3>1. m = user[i].res /\ op[i].pc \in {"test_set", "write_owner"}
      BY <1>1, <2>1, <2>5 DEF UserInvOf
    <3>2. \/ /\ op'[i].pc \in {"test_set", "write_owner"}
             /\ held'[i][m] = held[i][m]
          \/ /\ op'[i].pc = "idle" /\ op'[i].ret = "ok"
             /\ held[i][m] = 0 /\ held'[i][m] = 1
          \/ /\ op'[i].pc = "idle" /\ op'[i].ret = "busy"
             /\ held'[i][m] = held[i][m]
      BY <1>1, <1>19, <3>1, StepLocks
    <3>3. LockOf(i)'
      BY <1>2, <1>3, <2>1, <2>3, <2>5, <3>1, <3>2
      DEF LockOf, LockCount, LocksTable, LocksEntry
    <3>4. QED BY <1>3, <2>3, <3>2, <3>3 DEF LockCount
  <2>6. CASE user[i].pc \in {"unlocking", "releasing"}
    <3>1. /\ op[i].pc \in {"unlock_read", "unlock_write"}
          /\ m = IF user[i].pc = "unlocking" THEN DevMutex ELSE user[i].res
      BY <1>1, <2>1, <2>6 DEF UserInvOf, LockOf
    <3>2. \/ op'[i].pc = "unlock_write" /\ held'[i][m] = held[i][m]
          \/ /\ op'[i].pc = "idle"
             /\ held'[i][m] = 0 /\ word'[m].owner = NoInterface
      BY <1>1, <1>19, <3>1, StepLocks
    <3>3. LockOf(i)'
      BY <1>2, <1>3, <2>1, <2>3, <2>6, <3>1, <3>2
      DEF LockOf, LockCount, LocksTable, LocksEntry
    <3>4. QED BY <1>3, <2>3, <3>2, <3>3 DEF LockCount
  <2>7. QED BY <2>2, <2>4, <2>5, <2>6
<1>20. QED
  BY <1>4, <1>5, <1>6, <1>7, <1>8, <1>9, <1>10, <1>11, <1>12, <1>13, <1>14,
     <1>15, <1>16, <1>17, <1>18, <1>19 DEF UserStep

\* The inductive invariant of the locks.
LocksInv == ResourceInv /\ LockInv /\ OwnerInv

LEMMA LocksInvStep ==
  ASSUME ~ Failures
  PROVE  LocksInv /\ [ResourceNext]_resourceVars => LocksInv'
<1> SUFFICES ASSUME LocksInv, [ResourceNext]_resourceVars PROVE LocksInv'
  OBVIOUS
<1>1. ResourceInv'
  BY ResourceInvStep DEF LocksInv
<1>2. CASE ResourceNext
  <2>1. PICK i \in Interfaces :
           \/ \E r \in Resources : nfp_resource_acquire(i, r)
           \/ nfp_resource_release(i)
           \/ UserStep(i)
           \/ FindCrashes(i)
           \/ UserCrash(i)
    BY <1>2 DEF ResourceNext
  <2>2. /\ MutexActs(i) /\ MutexInv /\ MutexTypeOK
        /\ \A j \in Interfaces : j # i => user'[j] = user[j]
    BY <2>1, ResourceActs DEF LocksInv, ResourceInv, MutexInv
  <2>3. \A j \in Interfaces : j # i => op'[j] = op[j] /\ held'[j] = held[j]
    BY <2>2, ActsLocal
  <2>4. /\ LockOf(i)'
        /\ \A m \in Mutexes : held[i][m] > 0 /\ held'[i][m] = 0 =>
              word'[m].owner = NoInterface
    BY <2>1, OwnLocks DEF LocksInv, LockInv
  <2>5. LockInv'
    <3> SUFFICES ASSUME NEW j \in Interfaces PROVE LockOf(j)'
      BY DEF LockInv
    <3>1. CASE j # i
      BY <2>2, <2>3, <3>1
      DEF LocksInv, LockInv, LockOf, LockCount, LocksTable, LocksEntry
    <3>2. QED BY <2>4, <3>1
  <2>6. OwnerInv'
    <3> SUFFICES ASSUME NEW j \in Interfaces, NEW m \in Mutexes,
                        word'[m].owner = j
                 PROVE  held'[j][m] > 0
      BY DEF OwnerInv
    <3>1. held[j][m] \in Nat /\ held'[j][m] \in Nat
      BY <1>1, <2>2 DEF ResourceInv, MutexInv, MutexTypeOK
    <3>2. \/ word'[m].owner = word[m].owner
          \/ word'[m].owner = i /\ held'[i][m] > 0
      BY <2>2, OwnerChanges
    <3>3. CASE word'[m].owner = word[m].owner
      <4>1. held[j][m] > 0
        BY <3>3 DEF LocksInv, OwnerInv
      <4>2. QED BY <2>3, <2>4, <3>1, <4>1
    <3>4. QED BY <3>2, <3>3
  <2>7. QED BY <1>1, <2>5, <2>6 DEF LocksInv
<1>3. CASE UNCHANGED resourceVars
  BY <1>1, <1>3
  DEF resourceVars, mutexVars, LocksInv, LockInv, LockOf, LockCount, LocksTable,
      LocksEntry, OwnerInv
<1>4. QED BY <1>2, <1>3

(***************************************************************************)
(* As long as no access fails and nobody dies, nfp_resource.c gives back     *)
(* every lock it takes but the one of the resource that it acquired: neither  *)
(* the missing entry nor the busy resource leaves the table locked.          *)
(***************************************************************************)
THEOREM ResourceReturnsLocks ==
  ASSUME ~ Failures
  PROVE  ResourceSpec => []LocksReturned
<1>1. ResourceInit => LocksInv
  <2> SUFFICES ASSUME ResourceInit PROVE LocksInv
    OBVIOUS
  <2>1. LockInv
    BY DEF ResourceInit, MutexInit, LockInv, LockOf, LockCount, LocksTable,
           LocksEntry
  <2>2. \A m \in Mutexes : word[m].owner = NoInterface
    BY DEF ResourceInit, MutexInit, MUTEX_UNLOCK
  <2>3. OwnerInv
    BY <2>2 DEF OwnerInv
  <2>4. QED BY <2>1, <2>3, ResourceInvInit DEF LocksInv
<1>2. LocksInv => LocksReturned
  <2> SUFFICES ASSUME LocksInv, NEW i \in Interfaces, NEW m \in Mutexes
               PROVE  /\ UserAt(i, "idle") => word[m].owner # i
                      /\ UserAt(i, "own") =>
                            (word[m].owner = i <=> m = user[i].res)
    BY DEF LocksReturned
  <2>1. /\ held[i][m] = LockCount(i, m)
        /\ word[m].owner = i => held[i][m] > 0
        /\ held[i][m] > 0 => word[m].owner = i
    BY OwnerNamed
    DEF LocksInv, LockInv, LockOf, OwnerInv, ResourceInv, MutexInv, StateInv,
        WordInv
  <2>2. QED
    BY <2>1 DEF UserAt, LockCount, LocksTable, LocksEntry
<1>3. QED
  BY <1>1, <1>2, LocksInvStep, PTL DEF ResourceSpec
==============================================================================
