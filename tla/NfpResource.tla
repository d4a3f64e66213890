----------------------------- MODULE NfpResource -----------------------------
(***************************************************************************)
(* Resources of the NIC (user/nfpcore/nfp_resource.c): the host library finds *)
(* a resource by name in a table in NIC memory and takes its mutex, holding  *)
(* meanwhile the mutex of the table itself.  Each process uses one resource   *)
(* at a time (nfp_nsp_open .. nfp_nsp_close and the like).  Every call into   *)
(* nfp_mutex.c is a step, and takes the steps of NfpMutex.                    *)
(***************************************************************************)
EXTENDS NfpMutex, Integers

CONSTANTS DevMutex,   \* the mutex of the table, its entry 0
          Resources,  \* names that are asked for
          Table,      \* those the table has an entry for
          MAX_TRIES   \* attempts before nfp_resource_acquire times out

ASSUME ResourceAssumption ==
    /\ Table \subseteq Resources
    /\ DevMutex \notin Resources
    /\ Mutexes = {DevMutex} \cup Table
    /\ MAX_TRIES \in Nat

VARIABLE user  \* where each process is in nfp_resource.c, for which resource

resourceVars == <<mutexVars, user>>

UserPc == {"idle", "lock_dev", "locking", "find", "try", "trying",
           "unlock_dev", "unlocking", "own", "releasing"}

\* The error codes that nfp_resource.c tells apart.  Those of nfp_mutex.c are
\* all -1, with the reason in errno.
EPERM == 1
ENOENT == 2
EIO == 5
EBUSY == 16
EINVAL == 22

ResourceInit ==
    /\ MutexInit
    /\ user \in [Interfaces -> [pc : {"idle"}, res : Resources, err : {0},
                                count : {0}]]

UserAt(i, pc) == user[i].pc = pc

Goto(i, pc) == user' = [user EXCEPT ![i].pc = pc]

GotoWith(i, pc, err) == user' = [user EXCEPT ![i].pc = pc, ![i].err = err]

-----------------------------------------------------------------------------
\* nfp_resource_acquire up to its loop: the handle of the table's mutex.
nfp_resource_acquire(i, r) ==
    /\ UserAt(i, "idle")
    /\ nfp_cpp_mutex_alloc(i, DevMutex)
    /\ user' = [user EXCEPT ![i] = [pc |-> "lock_dev", res |-> r, err |-> 0,
                                    count |-> 0]]

\* nfp_resource_try_acquire begins: wait for the table's mutex.
LockDev(i) ==
    /\ UserAt(i, "lock_dev")
    /\ nfp_cpp_mutex_lock(i, DevMutex)
    /\ Goto(i, "locking")

\* Mutant: the result of nfp_cpp_mutex_lock is not looked at.
DevLockedOrNot(i) ==
    /\ UserAt(i, "locking")
    /\ At(i, "idle")
    /\ Goto(i, "find")
    /\ UNCHANGED mutexVars

DevLocked(i) ==
    /\ UserAt(i, "locking")
    /\ At(i, "idle")
    /\ op[i].ret = "ok"
    /\ Goto(i, "find")
    /\ UNCHANGED mutexVars

\* nfp_resource_try_acquire returns -EINVAL: nfp_resource_acquire gives up.
DevFailed(i) ==
    /\ UserAt(i, "locking")
    /\ At(i, "idle")
    /\ op[i].ret # "ok"
    /\ nfp_cpp_mutex_free(i, DevMutex)
    /\ GotoWith(i, "idle", -EINVAL)

\* nfp_cpp_resource_find: the entry with the name's key, and its mutex.
FindEntry(i) ==
    /\ UserAt(i, "find")
    /\ user[i].res \in Table
    /\ nfp_cpp_mutex_alloc(i, user[i].res)
    /\ Goto(i, "try")

\* No entry, or reading the table fails.
FindFails(i) ==
    /\ UserAt(i, "find")
    /\ \E err \in {-ENOENT, -EIO} :
          /\ err = -ENOENT => user[i].res \notin Table
          /\ err = -EIO => Failures
          /\ GotoWith(i, "unlock_dev", err)
    /\ UNCHANGED mutexVars

\* The handle of the entry's mutex could not be made, and trylock of NULL
\* brings the process down with the table's mutex locked.
FindCrashes(i) ==
    /\ UserAt(i, "find")
    /\ user[i].res \in Table
    /\ Crash(i)
    /\ Goto(i, "idle")

\* Mutant: waits for the resource, the table's mutex in hand.
LockResource(i) ==
    /\ UserAt(i, "try")
    /\ nfp_cpp_mutex_lock(i, user[i].res)
    /\ Goto(i, "trying")

TryResource(i) ==
    /\ UserAt(i, "try")
    /\ nfp_cpp_mutex_trylock(i, user[i].res)
    /\ Goto(i, "trying")

\* Mutant: the result of nfp_cpp_mutex_trylock is not looked at.
ResourceLockedOrNot(i) ==
    /\ UserAt(i, "trying")
    /\ At(i, "idle")
    /\ GotoWith(i, "unlock_dev", 0)
    /\ UNCHANGED mutexVars

ResourceLocked(i) ==
    /\ UserAt(i, "trying")
    /\ At(i, "idle")
    /\ op[i].ret = "ok"
    /\ GotoWith(i, "unlock_dev", 0)
    /\ UNCHANGED mutexVars

\* Mutant: the handle of the resource's mutex is not freed.
ResourceFailedKeeps(i) ==
    /\ UserAt(i, "trying")
    /\ At(i, "idle")
    /\ op[i].ret # "ok"
    /\ GotoWith(i, "unlock_dev", -EPERM)
    /\ UNCHANGED mutexVars

ResourceFailed(i) ==
    /\ UserAt(i, "trying")
    /\ At(i, "idle")
    /\ op[i].ret # "ok"
    /\ nfp_cpp_mutex_free(i, user[i].res)
    /\ GotoWith(i, "unlock_dev", -EPERM)

\* Mutant: the error paths return without unlocking the table's mutex.
UnlockDevOnSuccess(i) ==
    /\ UserAt(i, "unlock_dev")
    /\ IF user[i].err = 0 THEN nfp_cpp_mutex_unlock(i, DevMutex)
                          ELSE UNCHANGED mutexVars
    /\ Goto(i, "unlocking")

UnlockDev(i) ==
    /\ UserAt(i, "unlock_dev")
    /\ nfp_cpp_mutex_unlock(i, DevMutex)
    /\ Goto(i, "unlocking")

\* Only -EBUSY is tried again, unless more than MAX_TRIES attempts came before.
TriesAgain(i) == user[i].err = -EBUSY /\ ~ user[i].count > MAX_TRIES

\* nfp_resource_try_acquire has returned, whether or not its unlock succeeded.
AttemptEnds(i) ==
    /\ UserAt(i, "unlocking")
    /\ At(i, "idle")
    /\ IF TriesAgain(i)
         THEN /\ user' = [user EXCEPT ![i].pc = "lock_dev", ![i].count = @ + 1]
              /\ UNCHANGED mutexVars
         ELSE /\ nfp_cpp_mutex_free(i, DevMutex)
              /\ Goto(i, IF user[i].err = 0 THEN "own" ELSE "idle")

nfp_resource_release(i) ==
    /\ UserAt(i, "own")
    /\ nfp_cpp_mutex_unlock(i, user[i].res)
    /\ Goto(i, "releasing")

\* Whether or not the unlock succeeded, the handle goes.
ReleaseEnds(i) ==
    /\ UserAt(i, "releasing")
    /\ At(i, "idle")
    /\ nfp_cpp_mutex_free(i, user[i].res)
    /\ Goto(i, "idle")

UserCrash(i) == Crash(i) /\ Goto(i, "idle")

-----------------------------------------------------------------------------
\* What a process does by itself once it has called nfp_resource_acquire or
\* nfp_resource_release.
UserStep(i) ==
    \/ LockDev(i)
    \/ DevLocked(i)
    \/ DevFailed(i)
    \/ FindEntry(i)
    \/ FindFails(i)
    \/ TryResource(i)
    \/ ResourceLocked(i)
    \/ ResourceFailed(i)
    \/ UnlockDev(i)
    \/ AttemptEnds(i)
    \/ ReleaseEnds(i)
    \/ MutexStep(i) /\ UNCHANGED user

ResourceNext ==
    \E i \in Interfaces :
        \/ \E r \in Resources : nfp_resource_acquire(i, r)
        \/ nfp_resource_release(i)
        \/ UserStep(i)
        \/ FindCrashes(i)
        \/ UserCrash(i)

ResourceSpec == ResourceInit /\ [][ResourceNext]_resourceVars

\* A process that is inside a call keeps running; whether and when it calls
\* again, or gives back what it owns, is its own affair.
FairResourceSpec ==
    ResourceSpec /\ \A i \in Interfaces : WF_resourceVars(UserStep(i))

-----------------------------------------------------------------------------
\* Where the processes are, and the codes their calls of nfp_resource.c return.
ResourceTypeOK ==
    /\ MutexTypeOK
    /\ user \in [Interfaces ->
          [pc : UserPc, res : Resources, count : Nat,
           err : {0, -EPERM, -ENOENT, -EIO, -EBUSY, -EINVAL}]]

Owns(i, r) == UserAt(i, "own") /\ user[i].res = r

(***************************************************************************)
(* Two interfaces never both own a resource: not the one that acquired it    *)
(* before the other, nor one that died owning it and came back               *)
(* (nfp_resource.c:145, "This function locks the acquired resource").        *)
(***************************************************************************)
OneOwner ==
    \A r \in Resources : \A i, j \in Interfaces :
        Owns(i, r) /\ Owns(j, r) => i = j

(***************************************************************************)
(* One process at a time is between finding an entry of the table and taking *)
(* the entry's mutex (nfp_resource.c:119-131).                               *)
(***************************************************************************)
TableGuarded ==
    \A i, j \in Interfaces :
        user[i].pc \in {"find", "try", "trying"} /\
        user[j].pc \in {"find", "try", "trying"} => i = j

(***************************************************************************)
(* On every path out of nfp_resource.c, failed accesses included, a process  *)
(* that owns nothing has no handle left in its cache, and one that owns a    *)
(* resource has one handle of it (nfp_resource.c:134-138, 196-203, 213-218). *)
(***************************************************************************)
HandlesReturned ==
    \A i \in Interfaces, m \in Mutexes :
        /\ UserAt(i, "idle") => handle[i][m] = NoHandle
        /\ UserAt(i, "own") =>
              handle[i][m].usage = IF m = user[i].res THEN 1 ELSE 0

(***************************************************************************)
(* As long as no access fails, a process that is in no call has locked       *)
(* exactly the mutex of the resource it owns: every error path of            *)
(* nfp_resource.c gives the table's mutex back.                              *)
(***************************************************************************)
LocksReturned ==
    \A i \in Interfaces, m \in Mutexes :
        /\ UserAt(i, "idle") => word[m].owner # i
        /\ UserAt(i, "own") => (word[m].owner = i <=> m = user[i].res)

(***************************************************************************)
(* The table's mutex never stays locked: who has it never waits for a        *)
(* resource, which its owner may keep for ever (nfp_resource.c:126 tries).   *)
(***************************************************************************)
TableComesFree ==
    MUTEX_IS_LOCKED(word[DevMutex]) ~> MUTEX_IS_UNLOCKED(word[DevMutex])

(***************************************************************************)
(* As long as no access fails, nfp_resource_acquire gives up on a resource   *)
(* that the table has only after MAX_TRIES attempts found it busy: "Error:   *)
(* resource %s timed out" (nfp_resource.c:184-191).                          *)
(***************************************************************************)
BusyIsRetried ==
    [][\A i \in Interfaces :
          UserAt(i, "unlocking") /\ user'[i].pc = "idle" /\ user[i].res \in Table
             => user[i].count > MAX_TRIES]_resourceVars
==============================================================================
