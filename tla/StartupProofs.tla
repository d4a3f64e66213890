---------------------------- MODULE StartupProofs ----------------------------
(***************************************************************************)
(* At most one user is in a session with the service processor, and a lock    *)
(* that is left taken was left by a death, by an unlock that failed or by an  *)
(* owner that could not be written, for any number of processes and users,    *)
(* whatever fails and whoever dies.  Users of different interfaces are kept   *)
(* apart by the resource lock, the processes of this program, which share an  *)
(* interface, by the process lock: the invariant ties the two together.       *)
(* From this it follows that a user reads the answer to its own command; and  *)
(* the zones that a process reserves are always the same two.                 *)
(***************************************************************************)
EXTENDS Startup, WellFoundedInduction, TLAPS

\* As much of the types as the argument needs.
Shape ==
    /\ DOMAIN session = Hosts
    /\ \A h \in Hosts : "pc" \in DOMAIN session[h]
    /\ DOMAIN main = Processes
    /\ \A p \in Processes : "pc" \in DOMAIN main[p]

\* Whoever is in a session has the lock, by its interface.
SessionLock == \A h \in Hosts : InSession(h) => lock = Interface[h]

\* A process is in a session only in pci_probe,
ProcessSession == \A p \in Processes : InSession(p) => MainAt(p, "session")

\* and comes there only with the process lock.
ProcessLock == \A p \in Processes : main[p].pc \notin {"off", "lock"} => plock = p

IInv == Shape /\ SessionLock /\ ProcessSession /\ ProcessLock /\ LockReturned

USE DEF At, InSession

-----------------------------------------------------------------------------
(***************************************************************************)
(* What a step of a user does to the sessions: it closes its own, or goes on  *)
(* with it.                                                                   *)
(***************************************************************************)
GoesOn(h) ==
    /\ lock' = lock /\ left' = left
    /\ DOMAIN session' = Hosts
    /\ \A g \in Hosts : "pc" \in DOMAIN session'[g]
    /\ \A g \in Hosts : g # h => session'[g] = session[g]
    /\ session'[h].pc # "idle"

(***************************************************************************)
(* Every step of nfp_nsp_command and its callers closes the session of its    *)
(* user or leaves it open.                                                    *)
(***************************************************************************)
LEMMA UserStep ==
    ASSUME NEW h \in Hosts, Shape, NspUser(h)
    PROVE  InSession(h) /\ (nfp_nsp_close(h) \/ GoesOn(h))
  <1>1. CASE NspFill(h)
    BY <1>1 DEF NspFill, Fail, Goto, KeepAllElse, GoesOn, Shape
  <1>2. CASE NspCheck(h)
    BY <1>2 DEF NspCheck, Fail, Goto, KeepAllElse, GoesOn, Shape
  <1>3. CASE NspStart(h)
    BY <1>3 DEF NspStart, Fail, Goto, KeepAllElse, GoesOn, Shape
  <1>4. CASE NspWaitStart(h)
    BY <1>4 DEF NspWaitStart, Poll, Fail, Goto, KeepAllElse, GoesOn, Shape
  <1>5. CASE NspWaitBusy(h)
    BY <1>5 DEF NspWaitBusy, Poll, Fail, Goto, KeepAllElse, GoesOn, Shape
  <1>6. CASE NspResult(h)
    BY <1>6 DEF NspResult, Fail, Succeed, Goto, KeepAllElse, GoesOn, Shape
  <1>7. CASE NspOutput(h)
    BY <1>7 DEF NspOutput, Fail, Succeed, Goto, KeepAllElse, GoesOn, Shape
  <1>8. CASE nfp_eth_set(h)
    BY <1>8 DEF nfp_eth_set, nfp_eth_config_commit_end, Fail, Succeed, Goto, KeepAllElse,
                GoesOn, Shape
  <1> QED BY <1>1, <1>2, <1>3, <1>4, <1>5, <1>6, <1>7, <1>8 DEF NspUser

\* nfp_nsp_open either opens a session or leaves none; it gives the lock back or
\* leaves it without an owner.
LEMMA OpenStep ==
    ASSUME NEW h \in Hosts, NEW op, Shape, nfp_nsp_open(h, op)
    PROVE  /\ ~ InSession(h)
           /\ lock \in {Nobody, Interface[h]}
           /\ \/ nfp_nsp_close(h)
              \/ session' = session /\ lock' = Unowned /\ Unowned \in left'
              \/ /\ lock' = Interface[h] /\ left' = left
                 /\ DOMAIN session' = Hosts
                 /\ \A g \in Hosts : "pc" \in DOMAIN session'[g]
                 /\ \A g \in Hosts : g # h => session'[g] = session[g]
                 /\ InSession(h)'
  BY DEF nfp_nsp_open, OwnerUnwritten, Fail, Opened, Shape

-----------------------------------------------------------------------------
\* The sessions of everybody but h are as they were, and h has none.
LEMMA Closing ==
    ASSUME NEW h \in Hosts, Shape, nfp_nsp_close(h)
    PROVE  /\ DOMAIN session' = Hosts
           /\ \A g \in Hosts : "pc" \in DOMAIN session'[g]
           /\ \A g \in Hosts : g # h => session'[g] = session[g]
           /\ session'[h].pc = "idle"
           /\ lock' = Nobody \/ lock' \in left'
  BY DEF nfp_nsp_close, nfp_resource_release, Shape, Closed

\* The same when h dies in one.
LEMMA Dying ==
    ASSUME NEW h \in Hosts, Shape, Die(h)
    PROVE  /\ DOMAIN session' = Hosts
           /\ \A g \in Hosts : "pc" \in DOMAIN session'[g]
           /\ \A g \in Hosts : g # h => session'[g] = session[g]
           /\ session'[h].pc = "idle"
           /\ lock' = lock
           /\ left' = IF InSession(h) THEN left \cup {Interface[h]} ELSE left
  BY DEF Die, Shape, Closed

\* The process p ends.
LEMMA Ending ==
    ASSUME NEW p \in Processes, Shape, Gone(p)
    PROVE  /\ DOMAIN main' = Processes
           /\ \A q \in Processes : "pc" \in DOMAIN main'[q]
           /\ \A q \in Processes : q # p => main'[q] = main[q]
           /\ main'[p].pc = "off"
           /\ plock' = IF plock = p THEN NoHost ELSE plock
  BY DEF Gone, Shape, Off

\* The process p goes on.
LEMMA Moving ==
    ASSUME NEW p \in Processes, NEW pc, Shape, MainGoto(p, pc)
    PROVE  /\ DOMAIN main' = Processes
           /\ \A q \in Processes : "pc" \in DOMAIN main'[q]
           /\ \A q \in Processes : q # p => main'[q] = main[q]
           /\ main'[p].pc = pc
  BY DEF MainGoto, Shape

(***************************************************************************)
(* The invariant gives exclusion: two users in a session share an interface,  *)
(* so they are processes of this program, and both have the process lock.     *)
(***************************************************************************)
LEMMA Alone ==
    ASSUME NEW g \in Hosts, NEW h \in Hosts, IInv, InSession(g), lock = Interface[h],
           InSession(h) \/ (h \in Processes => main[h].pc \notin {"off", "lock"})
    PROVE  g = h
  <1>1. Interface[g] = Interface[h] BY DEF IInv, SessionLock
  <1>2. CASE {g, h} \subseteq Processes
    <2>1. plock = g BY <1>2 DEF IInv, ProcessSession, ProcessLock, MainAt
    <2>2. plock = h BY <1>2 DEF IInv, ProcessSession, ProcessLock, MainAt
    <2> QED BY <2>1, <2>2
  <1> QED BY <1>1, <1>2, StartupAssumption

\* While one opens a session, nobody is in one.
LEMMA OpensAlone ==
    ASSUME NEW h \in Hosts, NEW op, IInv, nfp_nsp_open(h, op),
           h \in Processes => main[h].pc \notin {"off", "lock"}
    PROVE  \A g \in Hosts : ~ InSession(g)
  <1> SUFFICES ASSUME NEW g \in Hosts, InSession(g) PROVE FALSE
    OBVIOUS
  <1>1. ~ InSession(h) /\ lock \in {Nobody, Interface[h]} BY OpenStep DEF IInv
  <1>2. lock = Interface[g] BY DEF IInv, SessionLock
  <1>3. lock = Interface[h] BY <1>1, <1>2, NspAssumption DEF Nobody
  <1>4. g = h BY <1>3, Alone
  <1> QED BY <1>1, <1>4

\* While one is in a session, nobody else is.
LEMMA UsesAlone ==
    ASSUME NEW h \in Hosts, IInv, InSession(h)
    PROVE  \A g \in Hosts : InSession(g) => g = h
  BY Alone DEF IInv, SessionLock

-----------------------------------------------------------------------------
\* At first nobody is in a session and nobody runs.
LEMMA InitInv == Init => IInv
  BY StartupAssumption
     DEF Init, NspInit, IInv, Shape, SessionLock, ProcessSession, ProcessLock, LockReturned,
         Closed, Off

\* A process that ends outside a session; main gives up, whatever failed.
LEMMA Returning == ASSUME NEW p \in Processes, IInv, Return(p), ~ InSession(p) PROVE IInv'
  <1>1. /\ DOMAIN main' = Processes
        /\ \A q \in Processes : "pc" \in DOMAIN main'[q]
        /\ \A q \in Processes : q # p => main'[q] = main[q]
        /\ main'[p].pc = "off"
        /\ plock' = IF plock = p THEN NoHost ELSE plock
    BY Ending DEF Return, IInv
  <1>2. UNCHANGED <<session, lock, left>> BY DEF Return, nspVars
  <1>3. Shape' BY <1>1, <1>2 DEF IInv, Shape
  <1>4. SessionLock' /\ LockReturned' BY <1>2 DEF IInv, SessionLock, LockReturned
  <1>5. ProcessSession' BY <1>1, <1>2, StartupAssumption DEF IInv, ProcessSession, MainAt
  <1>6. ProcessLock' BY <1>1 DEF IInv, ProcessLock
  <1> QED BY <1>3, <1>4, <1>5, <1>6 DEF IInv

\* A process that goes on with the process lock, or stays without it.
LEMMA Advancing ==
    ASSUME NEW p \in Processes, NEW pc, IInv, UNCHANGED <<session, lock, left>>,
           ~ InSession(p),
           DOMAIN main' = Processes,
           \A q \in Processes : "pc" \in DOMAIN main'[q],
           \A q \in Processes : q # p => main'[q] = main[q],
           main'[p].pc = pc,
           \/ pc \in {"off", "lock"} /\ plock' = plock
           \/ plock = p /\ plock' = p
           \/ plock = NoHost /\ plock' = p
    PROVE  IInv'
  <1>1. Shape' BY DEF IInv, Shape
  <1>2. SessionLock' /\ LockReturned' BY DEF IInv, SessionLock, LockReturned
  <1>3. ProcessSession' BY StartupAssumption DEF IInv, ProcessSession, MainAt
  <1>4. ProcessLock' BY StartupAssumption, NspAssumption DEF IInv, ProcessLock, NoHost
  <1> QED BY <1>1, <1>2, <1>3, <1>4 DEF IInv

-----------------------------------------------------------------------------
\* One lemma per action.  A process starts: it has neither lock nor session.
LEMMA StartInv == ASSUME NEW p \in Processes, IInv, Start(p) PROVE IInv'
  <1>1. ~ InSession(p) BY DEF Start, IInv, ProcessSession, MainAt
  <1>2. UNCHANGED <<session, lock, left, plock>> BY DEF Start, nspVars
  <1>3. PICK pc \in {"off", "lock"} :
           /\ DOMAIN main' = Processes
           /\ \A q \in Processes : "pc" \in DOMAIN main'[q]
           /\ \A q \in Processes : q # p => main'[q] = main[q]
           /\ main'[p].pc = pc
    <2> PICK dev \in {pci_scan(machine) : machine \in Machines} :
              main' = [main EXCEPT
                         ![p].pc = IF dev # None /\ pci_map_device(dev) THEN "lock" ELSE "off",
                         ![p].starts = @ + 1]
      BY DEF Start
    <2> DEFINE pc == IF dev # None /\ pci_map_device(dev) THEN "lock" ELSE "off"
    <2>1. pc \in {"off", "lock"} OBVIOUS
    <2>2. main' = [main EXCEPT ![p].pc = pc, ![p].starts = @ + 1] OBVIOUS
    <2> HIDE DEF pc
    <2>3. /\ DOMAIN main' = Processes
          /\ \A q \in Processes : "pc" \in DOMAIN main'[q]
          /\ \A q \in Processes : q # p => main'[q] = main[q]
          /\ main'[p].pc = pc
      BY <2>2 DEF IInv, Shape
    <2> QED BY <2>1, <2>3
  <1> QED BY <1>1, <1>2, <1>3, Advancing

\* It waits for the process lock.
LEMMA AllocInv == ASSUME NEW p \in Processes, IInv, nfp_cpp_alloc(p) PROVE IInv'
  <1>1. ~ InSession(p) BY DEF nfp_cpp_alloc, IInv, ProcessSession, MainAt
  <1>2. CASE Return(p) BY <1>1, <1>2, Returning
  <1>3. CASE nfp_acquire_process_lock(p) /\ MainGoto(p, "hwinfo")
             /\ UNCHANGED <<worker, zones, files, meta, deaths, nspVars>>
    <2>1. plock = NoHost /\ plock' = p /\ UNCHANGED <<session, lock, left>>
      BY <1>3 DEF nfp_acquire_process_lock, nspVars
    <2> QED BY <1>1, <1>3, <2>1, Moving, Advancing DEF IInv
  <1> QED BY <1>2, <1>3 DEF nfp_cpp_alloc

\* It reads the hardware table.
LEMMA HwinfoInv == ASSUME NEW p \in Processes, IInv, nfp_hwinfo_read(p) PROVE IInv'
  <1>1. ~ InSession(p) BY DEF nfp_hwinfo_read, IInv, ProcessSession, MainAt
  <1>2. plock = p BY DEF nfp_hwinfo_read, IInv, ProcessLock, MainAt
  <1>3. CASE Return(p) BY <1>1, <1>3, Returning
  <1>4. CASE OnlyMain /\ main' = [main EXCEPT ![p].fetches = @ + 1]
    <2>1. UNCHANGED <<session, lock, left, plock>> BY <1>4 DEF OnlyMain, nspVars
    <2>2. /\ DOMAIN main' = Processes
          /\ \A q \in Processes : "pc" \in DOMAIN main'[q]
          /\ \A q \in Processes : q # p => main'[q] = main[q]
          /\ main'[p].pc = main[p].pc
      BY <1>4 DEF IInv, Shape
    <2> QED BY <1>1, <1>2, <2>1, <2>2, Advancing
  <1>5. CASE OnlyMain /\ main' = [main EXCEPT ![p].pc = "ports", ![p].fetches = 0]
    <2>1. UNCHANGED <<session, lock, left, plock>> BY <1>5 DEF OnlyMain, nspVars
    <2>2. /\ DOMAIN main' = Processes
          /\ \A q \in Processes : "pc" \in DOMAIN main'[q]
          /\ \A q \in Processes : q # p => main'[q] = main[q]
          /\ main'[p].pc = "ports"
      BY <1>5 DEF IInv, Shape
    <2> QED BY <1>1, <1>2, <2>1, <2>2, Advancing
  <1> QED BY <1>3, <1>4, <1>5 DEF nfp_hwinfo_read, FetchAgain

\* It reserves its zones.
LEMMA ReserveInv == ASSUME NEW p \in Processes, IInv, Reserve(p) PROVE IInv'
  <1>1. ~ InSession(p) BY DEF Reserve, IInv, ProcessSession, MainAt
  <1>2. plock = p BY DEF Reserve, IInv, ProcessLock, MainAt
  <1>3. UNCHANGED <<session, lock, left>> BY DEF Reserve, nspVars
  <1>4. PICK rx, tx : Serve(p, rx, tx) BY DEF Reserve
  <1>5. CASE Gone(p)
    <2>1. UNCHANGED <<session, lock, left>> BY <1>3
    <2>2. Shape' BY <1>5, <2>1, Ending DEF IInv, Shape
    <2>3. SessionLock' /\ LockReturned' BY <2>1 DEF IInv, SessionLock, LockReturned
    <2>4. ProcessSession'
      BY <1>5, <2>1, <1>1, Ending, StartupAssumption DEF IInv, ProcessSession, MainAt
    <2>5. ProcessLock' BY <1>5, Ending DEF IInv, ProcessLock
    <2> QED BY <2>2, <2>3, <2>4, <2>5 DEF IInv
  <1>6. CASE Serving(p, rx, tx)
    <2>1. plock' = p BY <1>2, <1>6 DEF Serving
    <2>2. /\ DOMAIN main' = Processes
          /\ \A q \in Processes : "pc" \in DOMAIN main'[q]
          /\ \A q \in Processes : q # p => main'[q] = main[q]
          /\ main'[p].pc = "serving"
      BY <1>6 DEF Serving, IInv, Shape
    <2> QED BY <1>1, <1>2, <1>3, <2>1, <2>2, Advancing
  <1> QED BY <1>4, <1>5, <1>6 DEF Serve

\* It opens a session, with the process lock.
LEMMA ReadPortsInv == ASSUME NEW p \in Processes, IInv, ReadPorts(p) PROVE IInv'
  <1>0. p \in Hosts BY StartupAssumption
  <1>1. ~ InSession(p) BY DEF ReadPorts, IInv, ProcessSession, MainAt
  <1>2. plock = p BY DEF ReadPorts, IInv, ProcessLock, MainAt
  <1>3. CASE Return(p) BY <1>1, <1>3, Returning
  <1>4. CASE /\ nfp_nsp_open(p, [kind |-> "ports"])
             /\ IF InSession(p)' THEN MainGoto(p, "session") /\ UNCHANGED <<worker, plock, zones>>
                                 ELSE Gone(p)
    <2>1. main[p].pc \notin {"off", "lock"} BY DEF ReadPorts, MainAt
    <2>2. \A g \in Hosts : ~ InSession(g) BY <1>0, <1>4, <2>1, OpensAlone
    <2>3. CASE nfp_nsp_close(p)
      <3>1. Shape /\ ~ InSession(p)' BY <1>0, <2>3, Closing DEF IInv
      <3>2. Gone(p) BY <1>4, <3>1
      <3>3. \A g \in Hosts : ~ InSession(g)' BY <1>0, <2>2, <2>3, <3>1, Closing
      <3>4. Shape' BY <1>0, <2>3, <3>1, <3>2, Closing, Ending DEF Shape
      <3>5. SessionLock' /\ ProcessSession' BY <3>3, StartupAssumption DEF SessionLock, ProcessSession
      <3>6. LockReturned' BY <1>0, <2>3, <3>1, Closing DEF LockReturned
      <3>7. ProcessLock' BY <3>1, <3>2, Ending DEF IInv, ProcessLock
      <3> QED BY <3>4, <3>5, <3>6, <3>7 DEF IInv
    <2>4. CASE /\ lock' = Interface[p]
               /\ DOMAIN session' = Hosts
               /\ \A g \in Hosts : "pc" \in DOMAIN session'[g]
               /\ \A g \in Hosts : g # p => session'[g] = session[g]
               /\ InSession(p)'
      <3>1. MainGoto(p, "session") /\ plock' = plock BY <1>4, <2>4
      <3>2. \A g \in Hosts : InSession(g)' => g = p BY <2>2, <2>4
      <3>3. Shape' BY <2>4, <3>1, Moving DEF IInv, Shape
      <3>4. SessionLock' BY <2>4, <3>2 DEF SessionLock
      <3>5. ProcessSession'
        BY <3>1, <3>2, Moving, StartupAssumption DEF IInv, ProcessSession, MainAt
      <3>6. ProcessLock' BY <1>2, <3>1, Moving DEF IInv, ProcessLock
      <3>7. LockReturned' BY <1>0, <2>4 DEF LockReturned
      <3> QED BY <3>3, <3>4, <3>5, <3>6, <3>7 DEF IInv
    <2>5. CASE session' = session /\ lock' = Unowned /\ Unowned \in left'
      <3>1. Shape /\ ~ InSession(p)' BY <1>1, <2>5 DEF IInv
      <3>2. Gone(p) BY <1>4, <3>1
      <3>3. \A g \in Hosts : ~ InSession(g)' BY <2>2, <2>5
      <3>4. Shape' BY <2>5, <3>1, <3>2, Ending DEF Shape
      <3>5. SessionLock' /\ ProcessSession' BY <3>3, StartupAssumption DEF SessionLock, ProcessSession
      <3>6. LockReturned' BY <2>5 DEF LockReturned
      <3>7. ProcessLock' BY <3>1, <3>2, Ending DEF IInv, ProcessLock
      <3> QED BY <3>4, <3>5, <3>6, <3>7 DEF IInv
    <2> QED BY <1>0, <1>4, <2>3, <2>4, <2>5, OpenStep DEF IInv
  <1> QED BY <1>3, <1>4 DEF ReadPorts

\* Another user opens one.
LEMMA BeginInv ==
    ASSUME NEW m \in Hosts \ Processes, NEW op, IInv, NspBegin(m, op)
    PROVE  IInv'
  <1>1. nfp_nsp_open(m, op) /\ UNCHANGED <<main, plock>> BY DEF NspBegin, mainVars
  <1>2. \A g \in Hosts : ~ InSession(g) BY <1>1, OpensAlone
  <1>3. CASE nfp_nsp_close(m)
    <2>1. \A g \in Hosts : ~ InSession(g)' BY <1>2, <1>3, Closing DEF IInv
    <2>2. Shape' BY <1>1, <1>3, Closing DEF IInv, Shape
    <2>3. SessionLock' /\ ProcessSession' BY <2>1, StartupAssumption DEF SessionLock, ProcessSession
    <2>4. LockReturned' BY <1>3, Closing DEF IInv, LockReturned
    <2>5. ProcessLock' BY <1>1 DEF IInv, ProcessLock
    <2> QED BY <2>2, <2>3, <2>4, <2>5 DEF IInv
  <1>4. CASE /\ lock' = Interface[m]
             /\ DOMAIN session' = Hosts
             /\ \A g \in Hosts : "pc" \in DOMAIN session'[g]
             /\ \A g \in Hosts : g # m => session'[g] = session[g]
             /\ InSession(m)'
    <2>1. \A g \in Hosts : InSession(g)' => g = m BY <1>2, <1>4
    <2>2. Shape' BY <1>1, <1>4 DEF IInv, Shape
    <2>3. SessionLock' BY <1>4, <2>1 DEF SessionLock
    <2>4. ProcessSession' BY <2>1, StartupAssumption DEF ProcessSession
    <2>5. ProcessLock' BY <1>1 DEF IInv, ProcessLock
    <2>6. LockReturned' BY <1>4 DEF LockReturned
    <2> QED BY <2>2, <2>3, <2>4, <2>5, <2>6 DEF IInv
  <1>5. CASE session' = session /\ lock' = Unowned /\ Unowned \in left'
    <2>1. \A g \in Hosts : ~ InSession(g)' BY <1>2, <1>5
    <2>2. Shape' BY <1>1, <1>5 DEF IInv, Shape
    <2>3. SessionLock' /\ ProcessSession' BY <2>1, StartupAssumption DEF SessionLock, ProcessSession
    <2>4. LockReturned' BY <1>5 DEF LockReturned
    <2>5. ProcessLock' BY <1>1 DEF IInv, ProcessLock
    <2> QED BY <2>2, <2>3, <2>4, <2>5 DEF IInv
  <1> QED BY <1>1, <1>3, <1>4, <1>5, OpenStep DEF IInv

\* A user goes on with its session, or closes it.
LEMMA UseInv == ASSUME NEW h \in Hosts, IInv, NspUse(h) PROVE IInv'
  <1>1. NspUser(h) BY DEF NspUse
  <1>2. InSession(h) /\ (nfp_nsp_close(h) \/ GoesOn(h)) BY <1>1, UserStep DEF IInv
  <1>3. \A g \in Hosts : InSession(g) => g = h BY <1>2, UsesAlone
  <1>4. h \in Processes => MainAt(h, "session") /\ plock = h
    BY <1>2 DEF IInv, ProcessSession, ProcessLock, MainAt
  <1>5. CASE GoesOn(h)
    <2>1. InSession(h)' BY <1>5 DEF GoesOn
    <2>2. UNCHANGED <<main, plock>> BY <2>1 DEF NspUse
    <2>3. Shape' BY <1>5, <2>2 DEF IInv, Shape, GoesOn
    <2>4. \A g \in Hosts : InSession(g)' => InSession(g) BY <1>2, <1>5 DEF GoesOn
    <2>5. SessionLock' BY <1>5, <2>4 DEF IInv, SessionLock, GoesOn
    <2>6. ProcessSession' BY <2>2, <2>4, StartupAssumption DEF IInv, ProcessSession, MainAt
    <2>7. ProcessLock' BY <2>2 DEF IInv, ProcessLock
    <2>8. LockReturned' BY <1>2, <1>5, <2>1 DEF IInv, SessionLock, LockReturned, GoesOn
    <2> QED BY <2>3, <2>5, <2>6, <2>7, <2>8 DEF IInv
  <1>6. CASE nfp_nsp_close(h)
    <2>1. \A g \in Hosts : ~ InSession(g)' BY <1>3, <1>6, Closing DEF IInv
    <2>2. SessionLock' /\ ProcessSession' BY <2>1, StartupAssumption DEF SessionLock, ProcessSession
    <2>3. LockReturned' BY <1>6, Closing DEF IInv, LockReturned
    <2>4. CASE h \in Processes /\ Gone(h)
      <3>1. Shape' BY <1>6, <2>4, Closing, Ending DEF IInv, Shape
      <3>2. ProcessLock' BY <2>4, Ending DEF IInv, ProcessLock
      <3> QED BY <2>2, <2>3, <3>1, <3>2 DEF IInv
    <2>5. CASE h \in Processes /\ MainGoto(h, "reserve") /\ plock' = plock
      <3>1. Shape' BY <1>6, <2>5, Closing, Moving DEF IInv, Shape
      <3>2. ProcessLock' BY <1>4, <2>5, Moving DEF IInv, ProcessLock
      <3> QED BY <2>2, <2>3, <3>1, <3>2 DEF IInv
    <2>6. CASE h \notin Processes /\ UNCHANGED <<main, plock>>
      <3>1. Shape' BY <1>6, <2>6, Closing DEF IInv, Shape
      <3>2. ProcessLock' BY <2>6 DEF IInv, ProcessLock
      <3> QED BY <2>2, <2>3, <3>1, <3>2 DEF IInv
    <2> QED BY <2>1, <2>4, <2>5, <2>6 DEF NspUse
  <1> QED BY <1>2, <1>5, <1>6

\* Whoever dies in a session, process or other user, leaves it with the lock.
LEMMA DyingInv ==
    ASSUME NEW h \in Hosts, IInv, Die(h), Shape', ProcessLock',
           \A p \in Processes : p # h => main'[p] = main[p]
    PROVE  IInv'
  <1>1. /\ \A g \in Hosts : g # h => session'[g] = session[g]
        /\ session'[h].pc = "idle"
        /\ lock' = lock
        /\ left' = IF InSession(h) THEN left \cup {Interface[h]} ELSE left
    BY Dying DEF IInv
  <1>2. \A g \in Hosts : InSession(g)' => InSession(g) /\ g # h BY <1>1
  <1>3. SessionLock' BY <1>1, <1>2 DEF IInv, SessionLock
  <1>4. ProcessSession' BY <1>2, StartupAssumption DEF IInv, ProcessSession, MainAt
  <1>5. LockReturned'
    <2> SUFFICES ASSUME lock # Nobody
                 PROVE  \/ lock \in left'
                        \/ \E g \in Hosts : InSession(g)' /\ Interface[g] = lock
      BY <1>1 DEF LockReturned
    <2>1. CASE lock \in left BY <1>1, <2>1
    <2>2. ASSUME NEW g \in Hosts, InSession(g), Interface[g] = lock
          PROVE  \/ lock \in left'
                 \/ \E i \in Hosts : InSession(i)' /\ Interface[i] = lock
      <3>1. CASE g = h BY <1>1, <2>2, <3>1
      <3>2. CASE g # h BY <1>1, <2>2, <3>2
      <3> QED BY <3>1, <3>2
    <2> QED BY <2>1, <2>2 DEF IInv, LockReturned
  <1> QED BY <1>3, <1>4, <1>5 DEF IInv

\* A process is killed: the kernel gives the process lock back, nobody the other.
LEMMA CrashInv == ASSUME NEW p \in Processes, IInv, Crash(p) PROVE IInv'
  <1>1. p \in Hosts /\ Gone(p) /\ Die(p) BY StartupAssumption DEF Crash
  <1>2. Shape' BY <1>1, Ending, Dying DEF IInv, Shape
  <1>3. ProcessLock' BY <1>1, Ending DEF IInv, ProcessLock
  <1>4. \A q \in Processes : q # p => main'[q] = main[q] BY <1>1, Ending DEF IInv
  <1> QED BY <1>1, <1>2, <1>3, <1>4, DyingInv

\* Another user of the service processor dies.
LEMMA UserDiesInv == ASSUME NEW m \in Hosts \ Processes, IInv, NspUserDies(m) PROVE IInv'
  <1>1. Die(m) /\ UNCHANGED <<main, plock>> BY DEF NspUserDies
  <1>2. Shape' BY <1>1, Dying DEF IInv, Shape
  <1>3. ProcessLock' BY <1>1 DEF IInv, ProcessLock
  <1> QED BY <1>1, <1>2, <1>3, DyingInv

\* The worker, the service processor and stuttering touch none of this.
LEMMA ElsewhereInv ==
    ASSUME IInv, UNCHANGED <<session, lock, left, main, plock>>
    PROVE  IInv'
  BY DEF IInv, Shape, SessionLock, ProcessSession, ProcessLock, LockReturned, MainAt

(***************************************************************************)
(* Every step of the processes, of the other users and of the service         *)
(* processor keeps the invariant.                                             *)
(***************************************************************************)
LEMMA NextInv == IInv /\ [Next]_vars => IInv'
  <1> SUFFICES ASSUME IInv, [Next]_vars PROVE IInv'
    OBVIOUS
  <1>1. ASSUME NEW p \in Processes, Start(p) \/ Main(p) \/ Worker(p) \/ Crash(p)
        PROVE  IInv'
    <2>1. CASE Start(p) BY <2>1, StartInv
    <2>2. CASE Main(p)
      BY <2>2, AllocInv, HwinfoInv, ReadPortsInv, ReserveInv DEF Main
    <2>3. CASE Worker(p)
      <3>1. UNCHANGED <<session, lock, left, main, plock>>
        BY <2>3 DEF Worker, WorkerMap, WorkerConfigure, WorkerStep, nspVars
      <3> QED BY <3>1, ElsewhereInv
    <2>4. CASE Crash(p) BY <2>4, CrashInv
    <2> QED BY <1>1, <2>1, <2>2, <2>3, <2>4
  <1>2. ASSUME NEW h \in Hosts, NspUse(h) PROVE IInv' BY <1>2, UseInv
  <1>3. ASSUME NEW m \in Hosts \ Processes,
               NspUserDies(m) \/ \E op \in Operations : NspBegin(m, op)
        PROVE  IInv'
    BY <1>3, UserDiesInv, BeginInv
  <1>4. CASE NspProcessor /\ UNCHANGED mainVars
    <2>1. UNCHANGED <<session, lock, left, main, plock>>
      BY <1>4 DEF NspProcessor, NspTake, NspFinish, mainVars
    <2> QED BY <2>1, ElsewhereInv
  <1>5. CASE UNCHANGED vars
    <2>1. UNCHANGED <<session, lock, left, main, plock>>
      BY <1>5 DEF vars, mainVars, nspVars
    <2> QED BY <2>1, ElsewhereInv
  <1> QED BY <1>1, <1>2, <1>3, <1>4, <1>5 DEF Next

-----------------------------------------------------------------------------
(***************************************************************************)
(* Two users are never between nfp_nsp_open and nfp_nsp_close at once,        *)
(* however many processes and interfaces there are, whatever fails and        *)
(* whoever dies: the command buffer and the command register of nfp_nsp.c     *)
(* have one writer.                                                           *)
(***************************************************************************)
THEOREM StartupExclusive == StartupSpec => []NspExclusive
  <1>1. IInv => NspExclusive BY UsesAlone DEF NspExclusive
  <1> QED BY <1>1, InitInv, NextInv, PTL DEF StartupSpec

(***************************************************************************)
(* However a call of nfp_nsp.c or nfp_nsp_eth.c ends, with whatever other     *)
(* error: if nobody is in a session, the lock of the service processor is     *)
(* free, or a user died in its session, or nfp_resource_release did not       *)
(* notice that the unlock failed, or the owner of the lock was not written.   *)
(***************************************************************************)
THEOREM StartupLockReturned == StartupSpec => []LockReturned
  <1>1. IInv => LockReturned BY DEF IInv
  <1> QED BY <1>1, InitInv, NextInv, PTL DEF StartupSpec

-----------------------------------------------------------------------------
(***************************************************************************)
(* The answers.  Where a user is in nfp_nsp_command says what the registers   *)
(* hold: its command is written, or runs, or has run, and nothing else can    *)
(* have come between.  A command that was given up can only run before it.    *)
(***************************************************************************)
Waiting == {"wait_start", "wait_busy", "result"}

Runs(h) == IF status.busy THEN status.by = h ELSE done.by = h

AnswerOf(h) ==
    /\ At(h, "wait_start") => IF command.start THEN command.by = h ELSE Runs(h)
    /\ At(h, "wait_busy") => ~ command.start /\ Runs(h)
    /\ At(h, "result") => ~ command.start /\ ~ status.busy /\ done.by = h

AnswerInv == \A h \in Hosts : AnswerOf(h)

\* The registers stay, and whoever moves does not move on in nfp_nsp_command.
Settles(h) ==
    /\ UNCHANGED <<command, status, done>>
    /\ \A g \in Hosts : g # h => session'[g].pc = session[g].pc
    /\ session'[h].pc = session[h].pc \/ session'[h].pc \notin Waiting

LEMMA SettlesAnswers == ASSUME NEW h \in Hosts, AnswerInv, Settles(h) PROVE AnswerInv'
  BY DEF AnswerInv, AnswerOf, Runs, Settles, Waiting

\* Closing a session, opening one and dying in one settle.
LEMMA CloseSettles ==
    ASSUME NEW h \in Hosts, Shape, Fail(h) \/ Succeed(h) PROVE Settles(h)
  BY Closing DEF Fail, Succeed, Settles, Waiting

LEMMA OpenSettles ==
    ASSUME NEW h \in Hosts, NEW op, Shape, nfp_nsp_open(h, op) PROVE Settles(h)
  <1>1. CASE Fail(h) BY <1>1, CloseSettles
  <1>2. CASE UNCHANGED <<command, status, done>> /\ session' = Opened(h, op)
    BY <1>2 DEF Opened, Shape, Settles, Waiting
  <1>3. CASE OwnerUnwritten BY <1>3 DEF OwnerUnwritten, Settles
  <1> QED BY <1>1, <1>2, <1>3 DEF nfp_nsp_open

LEMMA DieSettles == ASSUME NEW h \in Hosts, Shape, Die(h) PROVE Settles(h)
  BY Dying DEF Die, Settles, Waiting

\* The user h writes its command while nobody else is in a session,
LEMMA StartAnswers == ASSUME NEW h \in Hosts, IInv, AnswerInv, NspStart(h) PROVE AnswerInv'
  <1>1. CASE Fail(h) BY <1>1, CloseSettles, SettlesAnswers DEF IInv
  <1>2. CASE /\ command' = [start |-> TRUE, by |-> h, code |-> session[h].code]
             /\ session' = [session EXCEPT ![h].pc = "wait_start", ![h].polls = 0]
    <2>1. InSession(h) BY DEF NspStart
    <2>2. \A g \in Hosts : g # h => session'[g].pc = "idle" BY <1>2, <2>1, UsesAlone DEF IInv, Shape
    <2>3. session'[h].pc = "wait_start" /\ command'.start /\ command'.by = h
      BY <1>2 DEF IInv, Shape
    <2> QED BY <2>2, <2>3 DEF AnswerInv, AnswerOf
  <1> QED BY <1>1, <1>2 DEF NspStart

\* waits until it has been started,
LEMMA WaitStartAnswers ==
    ASSUME NEW h \in Hosts, IInv, AnswerInv, NspWaitStart(h) PROVE AnswerInv'
  <1>1. CASE Fail(h) BY <1>1, CloseSettles, SettlesAnswers DEF IInv
  <1>2. CASE Poll(h, command.start, "wait_busy") /\ KeepAllElse
    <2>1. UNCHANGED <<command, status, done>> BY <1>2 DEF KeepAllElse
    <2>2. CASE command.start
      BY <1>2, <2>1, <2>2, SettlesAnswers DEF Poll, Settles, IInv, Shape
    <2>3. CASE ~ command.start
      <3>1. /\ \A g \in Hosts : g # h => session'[g].pc = session[g].pc
            /\ session'[h].pc = "wait_busy"
        BY <1>2, <2>3 DEF Poll, IInv, Shape
      <3>2. Runs(h) BY <2>3 DEF NspWaitStart, AnswerInv, AnswerOf
      <3> QED BY <2>1, <2>3, <3>1, <3>2 DEF AnswerInv, AnswerOf, Runs
    <2> QED BY <2>2, <2>3
  <1> QED BY <1>1, <1>2 DEF NspWaitStart

\* and until it has ended.
LEMMA WaitBusyAnswers ==
    ASSUME NEW h \in Hosts, IInv, AnswerInv, NspWaitBusy(h) PROVE AnswerInv'
  <1>1. CASE Fail(h) BY <1>1, CloseSettles, SettlesAnswers DEF IInv
  <1>2. CASE Poll(h, status.busy, "result") /\ KeepAllElse
    <2>1. UNCHANGED <<command, status, done>> BY <1>2 DEF KeepAllElse
    <2>2. CASE status.busy
      BY <1>2, <2>1, <2>2, SettlesAnswers DEF Poll, Settles, IInv, Shape
    <2>3. CASE ~ status.busy
      <3>1. /\ \A g \in Hosts : g # h => session'[g].pc = session[g].pc
            /\ session'[h].pc = "result"
        BY <1>2, <2>3 DEF Poll, IInv, Shape
      <3>2. ~ command.start /\ done.by = h
        BY <2>3 DEF NspWaitBusy, AnswerInv, AnswerOf, Runs
      <3> QED BY <2>1, <2>3, <3>1, <3>2 DEF AnswerInv, AnswerOf, Runs
    <2> QED BY <2>2, <2>3
  <1> QED BY <1>1, <1>2 DEF NspWaitBusy

\* All other steps of a user settle.
LEMMA UserAnswers == ASSUME NEW h \in Hosts, IInv, AnswerInv, NspUser(h) PROVE AnswerInv'
  <1>0. Shape BY DEF IInv
  <1>1. CASE NspFill(h)
    <2>1. Settles(h) BY <1>0, <1>1, CloseSettles DEF NspFill, Goto, Settles, Waiting, Shape
    <2> QED BY <2>1, SettlesAnswers
  <1>2. CASE NspCheck(h)
    <2>1. Settles(h)
      BY <1>0, <1>2, CloseSettles DEF NspCheck, Goto, KeepAllElse, Settles, Waiting, Shape
    <2> QED BY <2>1, SettlesAnswers
  <1>3. CASE NspResult(h)
    <2>1. Settles(h)
      BY <1>0, <1>3, CloseSettles DEF NspResult, Goto, KeepAllElse, Settles, Waiting, Shape
    <2> QED BY <2>1, SettlesAnswers
  <1>4. CASE NspOutput(h)
    <2>1. Settles(h)
      BY <1>0, <1>4, CloseSettles DEF NspOutput, KeepAllElse, Settles, Waiting, Shape
    <2> QED BY <2>1, SettlesAnswers
  <1>5. CASE nfp_eth_set(h)
    <2>1. Settles(h)
      BY <1>0, <1>5, CloseSettles
      DEF nfp_eth_set, nfp_eth_config_commit_end, KeepAllElse, Settles, Waiting, Shape
    <2> QED BY <2>1, SettlesAnswers
  <1> QED BY <1>1, <1>2, <1>3, <1>4, <1>5, StartAnswers, WaitStartAnswers, WaitBusyAnswers
          DEF NspUser

\* The service processor starts what the waiting user wrote, and finishes it.
LEMMA ProcessorAnswers == ASSUME AnswerInv, NspProcessor PROVE AnswerInv'
  <1> SUFFICES ASSUME NEW h \in Hosts PROVE AnswerOf(h)'
    BY DEF AnswerInv
  <1>0. AnswerOf(h) BY DEF AnswerInv
  <1>1. CASE NspTake
    BY <1>0, <1>1 DEF NspTake, AnswerOf, Runs
  <1>2. ASSUME NEW result, NspFinish(result) PROVE AnswerOf(h)'
    BY <1>0, <1>2 DEF NspFinish, AnswerOf, Runs
  <1> QED BY <1>1, <1>2 DEF NspProcessor

\* Every step keeps what is known of the registers.
LEMMA NextAnswers == IInv /\ AnswerInv /\ [Next]_vars => AnswerInv'
  <1> SUFFICES ASSUME IInv, AnswerInv, [Next]_vars PROVE AnswerInv'
    OBVIOUS
  <1>0. ASSUME UNCHANGED nspVars PROVE AnswerInv'
    BY <1>0 DEF nspVars, AnswerInv, AnswerOf, Runs
  <1>1. ASSUME NEW p \in Processes, Start(p) \/ Main(p) \/ Worker(p) \/ Crash(p)
        PROVE  AnswerInv'
    <2>0. p \in Hosts /\ Shape BY StartupAssumption DEF IInv
    <2>1. CASE Start(p) BY <1>0, <2>1 DEF Start
    <2>2. CASE nfp_cpp_alloc(p) BY <1>0, <2>2 DEF nfp_cpp_alloc, Return
    <2>3. CASE nfp_hwinfo_read(p)
      BY <1>0, <2>3 DEF nfp_hwinfo_read, FetchAgain, Return, OnlyMain
    <2>4. CASE Reserve(p) BY <1>0, <2>4 DEF Reserve
    <2>5. CASE ReadPorts(p)
      <3>1. CASE Return(p) BY <1>0, <3>1 DEF Return
      <3>2. CASE nfp_nsp_open(p, [kind |-> "ports"])
        BY <2>0, <3>2, OpenSettles, SettlesAnswers
      <3> QED BY <2>5, <3>1, <3>2 DEF ReadPorts
    <2>6. CASE Worker(p)
      BY <1>0, <2>6 DEF Worker, WorkerMap, WorkerConfigure, WorkerStep
    <2>7. CASE Crash(p) BY <2>0, <2>7, DieSettles, SettlesAnswers DEF Crash
    <2> QED BY <1>1, <2>1, <2>2, <2>3, <2>4, <2>5, <2>6, <2>7 DEF Main
  <1>2. ASSUME NEW h \in Hosts, NspUse(h) PROVE AnswerInv'
    BY <1>2, UserAnswers DEF NspUse
  <1>3. ASSUME NEW m \in Hosts \ Processes, NspUserDies(m) PROVE AnswerInv'
    BY <1>3, DieSettles, SettlesAnswers DEF NspUserDies, IInv
  <1>4. ASSUME NEW m \in Hosts \ Processes, NEW op \in Operations, NspBegin(m, op)
        PROVE  AnswerInv'
    BY <1>4, OpenSettles, SettlesAnswers DEF NspBegin, IInv
  <1>5. CASE NspProcessor BY <1>5, ProcessorAnswers
  <1>6. CASE UNCHANGED vars BY <1>0, <1>6 DEF vars
  <1> QED BY <1>1, <1>2, <1>3, <1>4, <1>5, <1>6 DEF Next

(***************************************************************************)
(* The result that nfp_nsp_command reads is always that of its own command,   *)
(* for any number of users, however long the polling is and whatever the      *)
(* processor still does for those who gave up.                                *)
(***************************************************************************)
THEOREM StartupAnswers == StartupSpec => []AnswerIsOwn
  <1>1. Init => IInv /\ AnswerInv
    BY InitInv DEF Init, NspInit, Closed, AnswerInv, AnswerOf
  <1>2. AnswerInv => AnswerIsOwn BY DEF AnswerInv, AnswerOf, AnswerIsOwn
  <1> QED BY <1>1, <1>2, NextInv, NextAnswers, PTL DEF StartupSpec

-----------------------------------------------------------------------------
(***************************************************************************)
(* The buffers.  A process reserves twice, with no handle taken, and so gets  *)
(* the zones 0 and 1 if it gets any; nothing else reaches the device.  The    *)
(* worker writes only to a symbol that it has found, by its name and size.    *)
(***************************************************************************)
Serves(p) == MainAt(p, "serving")

ZonesShape ==
    /\ DOMAIN main = Processes /\ DOMAIN worker = Processes /\ DOMAIN zones = Processes
    /\ \A p \in Processes : {"pc", "rx", "tx"} \subseteq DOMAIN main[p]
    /\ \A p \in Processes : {"pc", "sym"} \subseteq DOMAIN worker[p]

IsConfig(sym) == sym.name = "i32._cfg" /\ sym.size >= MetaSize

ZonesOf(p) ==
    /\ ~ Serves(p) => zones[p] = {} /\ worker[p].pc = "none"
    /\ Serves(p) => main[p].rx = 0 /\ main[p].tx = 1 /\ zones[p] = {0, 1}
    /\ worker[p].pc \in {"configure", "running"} => IsConfig(worker[p].sym)
    /\ worker[p].pc = "running" => meta.start_signal = 1

Told == meta.start_signal = 1 => meta.rx = 0 /\ meta.tx = 1

ZonesInv == ZonesShape /\ (\A p \in Processes : ZonesOf(p)) /\ Told

\* alloc_memzone finds zone 0 first, and then zone 1.
LEMMA FirstZone == alloc_memzone({}) \in {0, NoZone}
  <1> DEFINE free == Zones \ {}
  <1>1. CASE free = {} BY <1>1 DEF alloc_memzone
  <1>2. CASE free # {}
    <2>1. 0 \in free /\ \A y \in free : y \in Nat BY <1>2, StartupAssumption DEF Zones
    <2>2. \A y \in free : 0 <= y BY <2>1
    <2>3. \E z \in free : \A y \in free : z <= y BY <2>1, <2>2
    <2> DEFINE z == CHOOSE z \in free : \A y \in free : z <= y
    <2>4. z \in free /\ \A y \in free : z <= y BY <2>3
    <2>5. alloc_memzone({}) = z BY <1>2 DEF alloc_memzone
    <2> HIDE DEF z
    <2>6. z = 0 BY <2>1, <2>4
    <2> QED BY <2>5, <2>6
  <1> QED BY <1>1, <1>2

LEMMA SecondZone == alloc_memzone({0}) \in {1, NoZone}
  <1> DEFINE free == Zones \ {0}
  <1>1. CASE free = {} BY <1>1 DEF alloc_memzone
  <1>2. CASE free # {}
    <2>1. 1 \in free /\ \A y \in free : y \in Nat \ {0} BY <1>2, StartupAssumption DEF Zones
    <2>2. \A y \in free : 1 <= y BY <2>1
    <2>3. \E z \in free : \A y \in free : z <= y BY <2>1, <2>2
    <2> DEFINE z == CHOOSE z \in free : \A y \in free : z <= y
    <2>4. z \in free /\ \A y \in free : z <= y BY <2>3
    <2>5. alloc_memzone({0}) = z BY <1>2 DEF alloc_memzone
    <2> HIDE DEF z
    <2>6. z = 1 BY <2>1, <2>2, <2>4
    <2> QED BY <2>5, <2>6
  <1> QED BY <1>1, <1>2

\* What a call gives that gives a zone.
LEMMA Reserved ==
    ASSUME NEW taken, NEW present, NEW r \in memzone_reserve(taken, present),
           r.zone # NoZone
    PROVE  r.zone = alloc_memzone(taken) /\ r.taken = taken \cup {alloc_memzone(taken)}
  BY DEF memzone_reserve

\* Of the numbers of a set there is a first.
LEMMA HasFirst ==
    ASSUME NEW T, T \subseteq Nat, T # {}
    PROVE  \E i \in T : \A j \in T : i <= j
  <1> DEFINE R == {ss \in Nat \X Nat : ss[1] < ss[2]}
  <1>1. IsWellFoundedOn(R, Nat) BY NatLessThanWellFounded DEF OpToRel
  <1> HIDE DEF R
  <1>2. PICK i \in T : \A j \in T : ~ (<<j, i>> \in R) BY <1>1, WFMin
  <1>3. ASSUME NEW j \in T PROVE i <= j
    <2>1. i \in Nat /\ j \in Nat OBVIOUS
    <2>2. j < i => <<j, i>> \in R BY <2>1 DEF R
    <2> QED BY <1>2, <2>1, <2>2
  <1> QED BY <1>3

\* What nfp_rtsym_map finds has the name and at least the size asked for.
LEMMA SymbolFound ==
    ASSUME NEW f \in Firmwares,
           nfp_rtsym_map(nfp_rtsym_table_read(f), "i32._cfg", MetaSize) # None
    PROVE  IsConfig(nfp_rtsym_map(nfp_rtsym_table_read(f), "i32._cfg", MetaSize))
  <1> DEFINE rtbl == nfp_rtsym_table_read(f)
             found == {i \in DOMAIN rtbl : rtbl[i].name = "i32._cfg"}
             first == CHOOSE i \in found : \A j \in found : i <= j
  <1>1. DOMAIN rtbl \subseteq Nat BY StartupAssumption
  <1> HIDE DEF rtbl
  <1>2. nfp_rtsym_lookup(rtbl, "i32._cfg") = IF found = {} THEN None ELSE rtbl[first]
    BY DEF nfp_rtsym_lookup, FirstWith
  <1>3. /\ nfp_rtsym_map(rtbl, "i32._cfg", MetaSize) = nfp_rtsym_lookup(rtbl, "i32._cfg")
        /\ nfp_rtsym_lookup(rtbl, "i32._cfg") # None
        /\ nfp_rtsym_lookup(rtbl, "i32._cfg").size >= MetaSize
    BY DEF nfp_rtsym_map, rtbl
  <1>4. found # {} /\ found \subseteq Nat BY <1>1, <1>2, <1>3
  <1> HIDE DEF found
  <1>5. first \in found BY <1>4, HasFirst
  <1> HIDE DEF first
  <1>6. rtbl[first].name = "i32._cfg" BY <1>5 DEF found
  <1> QED BY <1>2, <1>3, <1>4, <1>6 DEF IsConfig, rtbl

\* Only the process p moves, and the device is left alone.
OnlyProcess(p) ==
    /\ meta' = meta
    /\ \A q \in Processes : q # p => main'[q] = main[q] /\ worker'[q] = worker[q]
                                       /\ zones'[q] = zones[q]

LEMMA ProcessZones ==
    ASSUME NEW p \in Processes, ZonesInv, OnlyProcess(p), ZonesShape', ZonesOf(p)'
    PROVE  ZonesInv'
  BY DEF ZonesInv, OnlyProcess, ZonesOf, Told, Serves, MainAt

\* A process that ends has no zones.
LEMMA GoneZones == ASSUME NEW p \in Processes, ZonesInv, Gone(p), meta' = meta PROVE ZonesInv'
  <1>1. ZonesShape' /\ OnlyProcess(p)
    BY DEF Gone, ZonesInv, ZonesShape, OnlyProcess, Off, NoWorker
  <1>2. ZonesOf(p)' BY DEF Gone, ZonesInv, ZonesShape, ZonesOf, Serves, MainAt, Off, NoWorker
  <1> QED BY <1>1, <1>2, ProcessZones

\* One that goes on before it serves has none yet.
LEMMA MovingZones ==
    ASSUME NEW p \in Processes, NEW pc, ZonesInv, UNCHANGED <<meta, worker, zones>>,
           ~ Serves(p), pc # "serving",
           DOMAIN main' = Processes,
           \A q \in Processes : q # p => main'[q] = main[q],
           {"pc", "rx", "tx"} \subseteq DOMAIN main'[p],
           main'[p].pc = pc
    PROVE  ZonesInv'
  <1>1. ZonesShape' /\ OnlyProcess(p) BY DEF ZonesInv, ZonesShape, OnlyProcess
  <1>2. ZonesOf(p)' BY DEF ZonesInv, ZonesOf, Serves, MainAt
  <1> QED BY <1>1, <1>2, ProcessZones

LEMMA GotoZones ==
    ASSUME NEW p \in Processes, NEW pc, ZonesInv, UNCHANGED <<meta, worker, zones>>,
           ~ Serves(p), pc # "serving", MainGoto(p, pc)
    PROVE  ZonesInv'
  <1>1. /\ DOMAIN main' = Processes
        /\ \A q \in Processes : q # p => main'[q] = main[q]
        /\ {"pc", "rx", "tx"} \subseteq DOMAIN main'[p]
        /\ main'[p].pc = pc
    BY DEF MainGoto, ZonesInv, ZonesShape
  <1> QED BY <1>1, MovingZones

\* main reserves both zones, or ends.
LEMMA ReserveZones == ASSUME NEW p \in Processes, ZonesInv, Reserve(p) PROVE ZonesInv'
  <1>1. zones[p] = {} BY DEF Reserve, ZonesInv, ZonesOf, Serves, MainAt
  <1>2. PICK rx \in memzone_reserve({}, files) :
           \E tx \in memzone_reserve(rx.taken, rx.files) : Serve(p, rx, tx)
    BY <1>1 DEF Reserve
  <1>3. PICK tx \in memzone_reserve(rx.taken, rx.files) : Serve(p, rx, tx) BY <1>2
  <1>4. meta' = meta BY DEF Reserve
  <1>5. CASE NoZone \in {rx.zone, tx.zone} BY <1>3, <1>4, <1>5, GoneZones DEF Serve
  <1>6. CASE NoZone \notin {rx.zone, tx.zone}
    <2>1. rx.zone = 0 /\ rx.taken = {0} BY <1>6, Reserved, FirstZone
    <2>2. tx.zone = 1 /\ tx.taken = {0, 1} BY <1>6, <2>1, Reserved, SecondZone
    <2>3. Serving(p, rx, tx) BY <1>3, <1>6 DEF Serve
    <2>4. ZonesShape' /\ OnlyProcess(p)
      BY <1>4, <2>3 DEF Serving, ZonesInv, ZonesShape, OnlyProcess
    <2>5. /\ main'[p].pc = "serving" /\ main'[p].rx = 0 /\ main'[p].tx = 1
          /\ zones'[p] = {0, 1} /\ worker'[p].pc = "symbols"
      BY <2>1, <2>2, <2>3 DEF Serving, ZonesInv, ZonesShape
    <2>6. ZonesOf(p)' BY <2>5 DEF ZonesOf, Serves, MainAt
    <2> QED BY <2>4, <2>6, ProcessZones
  <1> QED BY <1>5, <1>6

\* The worker of a process that serves tells the device its zones.
LEMMA WorkerZones ==
    ASSUME NEW p \in Processes, ZonesInv, Worker(p)
    PROVE  ZonesInv' /\ (meta' = meta \/ (meta'.rx = 0 /\ meta'.tx = 1))
  <1>1. Serves(p) /\ ZonesOf(p) BY DEF Worker, WorkerMap, WorkerConfigure, ZonesInv, ZonesOf
  <1> DEFINE Becomes(next) ==
               /\ main' = main /\ zones' = zones
               /\ worker' = [worker EXCEPT ![p] = next]
               /\ {"pc", "sym"} \subseteq DOMAIN next
               /\ next.pc \in {"configure", "running"} => IsConfig(next.sym)
               /\ IF next.pc = "running"
                    THEN meta' = [start_signal |-> 1, rx |-> 0, tx |-> 1]
                    ELSE meta' = meta
  <1>2. PICK next : Becomes(next)
    <2>1. ASSUME NEW pc \in {"ended", "configure"}, NEW sym, meta' = meta,
                 WorkerStep(p, [pc |-> pc, sym |-> sym]),
                 pc = "configure" => IsConfig(sym)
          PROVE  Becomes([pc |-> pc, sym |-> sym])
      BY <2>1 DEF WorkerStep
    <2>2. CASE WorkerMap(p)
      <3>1. meta' = meta BY <2>2 DEF WorkerMap
      <3>2. CASE WorkerStep(p, [pc |-> "ended", sym |-> None])
        <4>1. Becomes([pc |-> "ended", sym |-> None]) BY <2>1, <3>1, <3>2
        <4> HIDE DEF Becomes
        <4> QED BY <4>1
      <3>3. ASSUME NEW f \in Firmwares,
                   nfp_rtsym_map(nfp_rtsym_table_read(f), "i32._cfg", MetaSize) # None,
                   WorkerStep(p, [pc |-> "configure",
                                  sym |-> nfp_rtsym_map(nfp_rtsym_table_read(f), "i32._cfg", MetaSize)])
            PROVE  \E next : Becomes(next)
        <4> DEFINE s == nfp_rtsym_map(nfp_rtsym_table_read(f), "i32._cfg", MetaSize)
        <4>1. IsConfig(s) /\ WorkerStep(p, [pc |-> "configure", sym |-> s])
          BY <3>3, SymbolFound
        <4> HIDE DEF s
        <4>2. Becomes([pc |-> "configure", sym |-> s]) BY <2>1, <3>1, <4>1
        <4> HIDE DEF Becomes
        <4> QED BY <4>2
      <3> HIDE DEF Becomes
      <3> QED BY <2>2, <3>2, <3>3 DEF WorkerMap
    <2>3. CASE WorkerConfigure(p)
      <3> DEFINE next == [worker[p] EXCEPT !.pc = "running"]
      <3>1. /\ worker[p].pc = "configure"
            /\ meta' = [start_signal |-> 1, rx |-> main[p].rx, tx |-> main[p].tx]
            /\ WorkerStep(p, next)
        BY <2>3 DEF WorkerConfigure
      <3>2. /\ main[p].rx = 0 /\ main[p].tx = 1 /\ IsConfig(worker[p].sym)
            /\ {"pc", "sym"} \subseteq DOMAIN worker[p]
        BY <1>1, <3>1 DEF ZonesOf, ZonesInv, ZonesShape
      <3>3. next.pc = "running" /\ next.sym = worker[p].sym /\ {"pc", "sym"} \subseteq DOMAIN next
        BY <3>2
      <3> HIDE DEF next
      <3>4. Becomes(next) BY <3>1, <3>2, <3>3 DEF WorkerStep
      <3> HIDE DEF Becomes
      <3> QED BY <3>4
    <2> HIDE DEF Becomes
    <2> QED BY <2>2, <2>3 DEF Worker
  <1>3. meta' = meta \/ (meta'.start_signal = 1 /\ meta'.rx = 0 /\ meta'.tx = 1)
    BY <1>2
  <1>4. ZonesShape' BY <1>2 DEF ZonesInv, ZonesShape
  <1>5. worker'[p] = next /\ \A q \in Processes : q # p => worker'[q] = worker[q]
    BY <1>2 DEF ZonesInv, ZonesShape
  <1>6. ZonesOf(p)' BY <1>1, <1>2, <1>5 DEF ZonesOf, Serves, MainAt
  <1>7. ASSUME NEW q \in Processes, q # p PROVE ZonesOf(q)'
    <2>1. ZonesOf(q) BY DEF ZonesInv
    <2> QED BY <1>2, <1>3, <1>5, <1>7, <2>1 DEF ZonesOf, Serves, MainAt
  <1>8. Told' BY <1>3 DEF ZonesInv, Told
  <1> QED BY <1>3, <1>4, <1>6, <1>7, <1>8 DEF ZonesInv

\* Every step keeps the zones where they are.
LEMMA NextZones ==
    ASSUME IInv, ZonesInv, [Next]_vars
    PROVE  ZonesInv' /\ (meta' = meta \/ (meta'.rx = 0 /\ meta'.tx = 1))
  <1>0. ASSUME UNCHANGED <<main, worker, zones, meta>> PROVE ZonesInv' /\ meta' = meta
    BY <1>0 DEF ZonesInv, ZonesShape, ZonesOf, Told, Serves, MainAt
  <1>1. ASSUME NEW p \in Processes, Start(p) PROVE ZonesInv' /\ meta' = meta
    <2>1. ~ Serves(p) BY <1>1 DEF Start, Serves, MainAt
    <2>2. UNCHANGED <<meta, worker>> /\ zones' = [zones EXCEPT ![p] = {}] BY <1>1 DEF Start
    <2>3. PICK dev : main' = [main EXCEPT
                                ![p].pc = IF dev # None /\ pci_map_device(dev)
                                          THEN "lock" ELSE "off",
                                ![p].starts = @ + 1]
      BY <1>1 DEF Start
    <2>4. /\ DOMAIN main' = Processes
          /\ \A q \in Processes : q # p => main'[q] = main[q]
          /\ {"pc", "rx", "tx"} \subseteq DOMAIN main'[p]
          /\ main'[p].pc \in {"off", "lock"}
      BY <2>3 DEF ZonesInv, ZonesShape
    <2>5. ZonesShape' /\ OnlyProcess(p)
      BY <2>2, <2>4 DEF ZonesInv, ZonesShape, OnlyProcess
    <2>6. ZonesOf(p)' BY <2>1, <2>2, <2>4 DEF ZonesInv, ZonesShape, ZonesOf, Serves, MainAt
    <2> QED BY <2>2, <2>5, <2>6, ProcessZones
  <1>2. ASSUME NEW p \in Processes, nfp_cpp_alloc(p) PROVE ZonesInv' /\ meta' = meta
    <2>1. ~ Serves(p) BY <1>2 DEF nfp_cpp_alloc, Serves, MainAt
    <2>2. CASE Return(p) BY <2>2, GoneZones DEF Return
    <2>3. CASE MainGoto(p, "hwinfo") /\ UNCHANGED <<worker, zones, meta>>
      BY <2>1, <2>3, GotoZones
    <2> QED BY <1>2, <2>2, <2>3 DEF nfp_cpp_alloc
  <1>3. ASSUME NEW p \in Processes, nfp_hwinfo_read(p) PROVE ZonesInv' /\ meta' = meta
    <2>1. ~ Serves(p) BY <1>3 DEF nfp_hwinfo_read, Serves, MainAt
    <2>2. CASE Return(p) BY <2>2, GoneZones DEF Return
    <2>3. CASE OnlyMain /\ main' = [main EXCEPT ![p].fetches = @ + 1]
      <3>1. /\ DOMAIN main' = Processes
            /\ \A q \in Processes : q # p => main'[q] = main[q]
            /\ {"pc", "rx", "tx"} \subseteq DOMAIN main'[p]
            /\ main'[p].pc = "hwinfo"
        BY <1>3, <2>3 DEF nfp_hwinfo_read, MainAt, ZonesInv, ZonesShape
      <3> QED BY <2>1, <2>3, <3>1, MovingZones DEF OnlyMain
    <2>4. CASE OnlyMain /\ main' = [main EXCEPT ![p].pc = "ports", ![p].fetches = 0]
      <3>1. /\ DOMAIN main' = Processes
            /\ \A q \in Processes : q # p => main'[q] = main[q]
            /\ {"pc", "rx", "tx"} \subseteq DOMAIN main'[p]
            /\ main'[p].pc = "ports"
        BY <2>4 DEF ZonesInv, ZonesShape
      <3> QED BY <2>1, <2>4, <3>1, MovingZones DEF OnlyMain
    <2> QED BY <1>3, <2>2, <2>3, <2>4 DEF nfp_hwinfo_read, FetchAgain
  <1>4. ASSUME NEW p \in Processes, ReadPorts(p) PROVE ZonesInv' /\ meta' = meta
    <2>1. ~ Serves(p) BY <1>4 DEF ReadPorts, Serves, MainAt
    <2>2. meta' = meta /\ (Gone(p) \/ (MainGoto(p, "session") /\ UNCHANGED <<worker, zones>>))
      BY <1>4 DEF ReadPorts, Return
    <2> QED BY <2>1, <2>2, GoneZones, GotoZones
  <1>5. ASSUME NEW p \in Processes, Crash(p) PROVE ZonesInv' /\ meta' = meta
    BY <1>5, GoneZones DEF Crash
  <1>6. ASSUME NEW p \in Processes, Reserve(p) PROVE ZonesInv' /\ meta' = meta
    BY <1>6, ReserveZones DEF Reserve
  <1>7. ASSUME NEW h \in Hosts, NspUse(h) PROVE ZonesInv' /\ meta' = meta
    <2>1. meta' = meta BY <1>7 DEF NspUse
    <2>2. CASE UNCHANGED <<main, worker, plock, zones>>
      BY <2>1, <2>2 DEF ZonesInv, ZonesShape, ZonesOf, Told, Serves, MainAt
    <2>3. CASE h \in Processes /\ Gone(h) BY <2>1, <2>3, GoneZones
    <2>4. CASE h \in Processes /\ MainGoto(h, "reserve") /\ UNCHANGED <<worker, plock, zones>>
      <3>1. InSession(h) BY <1>7, UserStep DEF NspUse, IInv
      <3>2. ~ Serves(h) BY <1>7, <2>4, <3>1 DEF IInv, ProcessSession, Serves, MainAt
      <3> QED BY <2>1, <2>4, <3>2, GotoZones
    <2> QED BY <1>7, <2>2, <2>3, <2>4 DEF NspUse
  <1>8. ASSUME NEW m \in Hosts \ Processes,
               NspUserDies(m) \/ \E op \in Operations : NspBegin(m, op)
        PROVE  ZonesInv' /\ meta' = meta
    <2>1. UNCHANGED <<main, worker, zones, meta>>
      BY <1>8 DEF NspUserDies, NspBegin, mainVars
    <2> QED BY <1>0, <2>1
  <1>9. CASE NspProcessor /\ UNCHANGED mainVars
    <2>1. UNCHANGED <<main, worker, zones, meta>> BY <1>9 DEF mainVars
    <2> QED BY <1>0, <2>1
  <1>10. CASE UNCHANGED vars
    <2>1. UNCHANGED <<main, worker, zones, meta>> BY <1>10 DEF vars, mainVars
    <2> QED BY <1>0, <2>1
  <1>11. ASSUME NEW p \in Processes, Start(p) \/ Main(p) \/ Worker(p) \/ Crash(p)
         PROVE  ZonesInv' /\ (meta' = meta \/ (meta'.rx = 0 /\ meta'.tx = 1))
    <2>1. CASE Worker(p) BY <2>1, WorkerZones
    <2>2. CASE Main(p) BY <1>2, <1>3, <1>4, <1>6, <2>2 DEF Main
    <2> QED BY <1>1, <1>5, <1>11, <2>1, <2>2
  <1> QED BY <1>7, <1>8, <1>9, <1>10, <1>11 DEF Next

(***************************************************************************)
(* Once memzone.c has given the device its two buffers, no later process,     *)
(* however many start, fail and die, gives it others.                         *)
(***************************************************************************)
THEOREM StartupBuffersStay == StartupSpec => BuffersStay
  <1>1. Init => IInv /\ ZonesInv
    <2>1. Init => ZonesInv
      BY DEF Init, ZonesInv, ZonesShape, ZonesOf, Told, Serves, MainAt, Off, NoWorker
    <2> QED BY <2>1, InitInv
  <1>2. IInv /\ ZonesInv /\ [Next]_vars => IInv' /\ ZonesInv' BY NextInv, NextZones
  <1>3. IInv /\ ZonesInv /\ [Next]_vars
           => [meta.start_signal = 1 => meta'.rx = meta.rx /\ meta'.tx = meta.tx]_vars
    BY NextZones DEF ZonesInv, Told
  <1> QED BY <1>1, <1>2, <1>3, PTL DEF StartupSpec, BuffersStay

(***************************************************************************)
(* When the device is told to start, it has two zones of its process for its  *)
(* two buffers, and the symbol written to (nfp_rtsym_map, app_main.c) can     *)
(* hold its configuration: for any firmware and any number of processes, and  *)
(* although main looks at no result.                                          *)
(***************************************************************************)
THEOREM StartupConfigures == StartupSpec => []ConfiguredZones
  <1>1. Init => IInv /\ ZonesInv
    <2>1. Init => ZonesInv
      BY DEF Init, ZonesInv, ZonesShape, ZonesOf, Told, Serves, MainAt, Off, NoWorker
    <2> QED BY <2>1, InitInv
  <1>2. IInv /\ ZonesInv /\ [Next]_vars => IInv' /\ ZonesInv' BY NextInv, NextZones
  <1>3. ZonesInv => ConfiguredZones
    BY DEF ZonesInv, ZonesOf, Told, ConfiguredZones, IsConfig
  <1> QED BY <1>1, <1>2, <1>3, PTL DEF StartupSpec

-----------------------------------------------------------------------------
(***************************************************************************)
(* The data.  As long as nobody has given up a command, the processor works   *)
(* only for the user in the session, on the buffer that user has filled; and  *)
(* the table differs from what was agreed only between the moment a commit    *)
(* has run and the moment its user knows.                                     *)
(***************************************************************************)
SessionShape ==
    /\ DOMAIN session = Hosts
    /\ \A h \in Hosts : {"pc", "op", "code", "polls", "entries"} \subseteq DOMAIN session[h]
    /\ {"by", "code", "data"} \subseteq DOMAIN buffer

\* The command of h has run, with success.
Finished(h) ==
    /\ session[h].pc \in {"wait_start", "wait_busy", "result"}
    /\ ~ command.start /\ ~ status.busy /\ done.result = "ok"

\* The registers and the buffer are those of h.
CommandOf(h) ==
    LET s == session[h] IN
    /\ command.start => s.pc = "wait_start" /\ command.by = h /\ command.code = s.code
    /\ status.busy => /\ ~ command.start
                      /\ s.pc \in {"wait_start", "wait_busy"}
                      /\ status.by = h /\ status.code = s.code
    /\ s.pc \in {"check", "start", "wait_start", "wait_busy"} /\ HasBuffer(s.code) =>
          buffer.by = h /\ buffer.code = s.code

\* Only the set functions commit, after they have read the table.
SettingOf(h) ==
    LET s == session[h] IN
    /\ s.code = "ETH_CONTROL" => s.op.kind = "set"
    /\ s.op.kind = "set" => s.code \in {"ETH_RESCAN", "ETH_CONTROL"}
    /\ s.pc = "modify" => s.op.kind = "set" /\ s.code = "ETH_RESCAN"
    /\ s.code = "ETH_CONTROL" =>
          s.pc \in {"buffer", "check", "start", "wait_start", "wait_busy", "result"}

\* What h has read, and what it is about to write back.
TableOf(h) ==
    LET s == session[h] IN
    /\ s.code = "ETH_RESCAN" /\ (Finished(h) \/ s.pc = "output") => buffer.data = table
    /\ s.pc = "modify" => s.entries = agreed
    /\ s.code = "ETH_CONTROL" => s.entries = [agreed EXCEPT ![s.op.port] = s.op.value]
    /\ s.code = "ETH_CONTROL" /\ s.pc \in {"check", "start", "wait_start", "wait_busy"} =>
          buffer.data = s.entries
    /\ table = IF s.code = "ETH_CONTROL" /\ Finished(h) THEN s.entries ELSE agreed

DataOf(h) == CommandOf(h) /\ SettingOf(h) /\ TableOf(h)

AtRest == ~ command.start /\ ~ status.busy /\ table = agreed

DataInv ==
    ~ givenUp =>
        /\ \A h \in Hosts : InSession(h) => DataOf(h)
        /\ (\A h \in Hosts : ~ InSession(h)) => AtRest

\* What the users may begin: ReadPorts of a process, Operations the others.
AllOperations == Operations \cup {[kind |-> "ports"]}

\* A step either leaves the service processor alone or is one of these.
LEMMA NspKinds ==
    ASSUME IInv, [Next]_vars
    PROVE  \/ UNCHANGED nspVars
           \/ \E h \in Hosts : NspUser(h)
           \/ \E h \in Hosts : \E op \in AllOperations :
                 nfp_nsp_open(h, op) /\ \A g \in Hosts : ~ InSession(g)
           \/ \E h \in Hosts : Die(h)
           \/ NspProcessor
  <1>1. ASSUME NEW p \in Processes, Start(p) \/ Main(p) \/ Worker(p) \/ Crash(p)
        PROVE  \/ UNCHANGED nspVars
               \/ \E h \in Hosts : \E op \in AllOperations :
                     nfp_nsp_open(h, op) /\ \A g \in Hosts : ~ InSession(g)
               \/ \E h \in Hosts : Die(h)
    <2>0. p \in Hosts BY StartupAssumption
    <2>1. CASE Start(p) BY <2>1 DEF Start
    <2>2. CASE nfp_cpp_alloc(p) BY <2>2 DEF nfp_cpp_alloc, Return
    <2>3. CASE nfp_hwinfo_read(p) BY <2>3 DEF nfp_hwinfo_read, FetchAgain, Return, OnlyMain
    <2>4. CASE Reserve(p) BY <2>4 DEF Reserve
    <2>5. CASE ReadPorts(p)
      <3>1. CASE Return(p) BY <3>1 DEF Return
      <3>2. CASE nfp_nsp_open(p, [kind |-> "ports"])
        <4>1. main[p].pc \notin {"off", "lock"} BY <2>5 DEF ReadPorts, MainAt
        <4>2. \A g \in Hosts : ~ InSession(g) BY <2>0, <3>2, <4>1, OpensAlone
        <4>3. [kind |-> "ports"] \in AllOperations BY DEF AllOperations
        <4> QED BY <2>0, <3>2, <4>2, <4>3
      <3> QED BY <2>5, <3>1, <3>2 DEF ReadPorts
    <2>6. CASE Worker(p) BY <2>6 DEF Worker, WorkerMap, WorkerConfigure, WorkerStep
    <2>7. CASE Crash(p) BY <2>0, <2>7 DEF Crash
    <2> QED BY <1>1, <2>1, <2>2, <2>3, <2>4, <2>5, <2>6, <2>7 DEF Main
  <1>2. ASSUME NEW h \in Hosts, NspUse(h) PROVE \E g \in Hosts : NspUser(g)
    BY <1>2 DEF NspUse
  <1>3. ASSUME NEW m \in Hosts \ Processes, NspUserDies(m) PROVE \E h \in Hosts : Die(h)
    BY <1>3 DEF NspUserDies
  <1>4. ASSUME NEW m \in Hosts \ Processes, NEW op \in Operations, NspBegin(m, op)
        PROVE  \E h \in Hosts : \E o \in AllOperations :
                  nfp_nsp_open(h, o) /\ \A g \in Hosts : ~ InSession(g)
    <2>1. nfp_nsp_open(m, op) BY <1>4 DEF NspBegin
    <2>2. \A g \in Hosts : ~ InSession(g) BY <2>1, OpensAlone
    <2> QED BY <2>1, <2>2 DEF AllOperations
  <1>5. CASE UNCHANGED vars BY <1>5 DEF vars
  <1> QED BY <1>1, <1>2, <1>3, <1>4, <1>5 DEF Next

\* Closing, or dying, leaves a session of the same shape.
LEMMA ClosedShape ==
    ASSUME NEW h \in Hosts, SessionShape, session' = [session EXCEPT ![h] = Closed],
           {"by", "code", "data"} \subseteq DOMAIN buffer'
    PROVE  SessionShape'
  BY DEF SessionShape, Closed

\* So does everything else.
LEMMA ShapeStep == ASSUME IInv, SessionShape, [Next]_vars PROVE SessionShape'
  <1>1. CASE UNCHANGED nspVars BY <1>1 DEF nspVars, SessionShape
  <1>2. ASSUME NEW h \in Hosts, Fail(h) \/ Succeed(h) \/ Die(h) PROVE SessionShape'
    <2>1. session' = [session EXCEPT ![h] = Closed] /\ buffer' = buffer
      BY <1>2 DEF Fail, Succeed, Die, nfp_nsp_close
    <2> QED BY <2>1, ClosedShape DEF SessionShape
  <1>3. ASSUME NEW h \in Hosts, NspUser(h) PROVE SessionShape'
    <2>1. CASE NspFill(h) BY <1>2, <2>1 DEF NspFill, Goto, SessionShape
    <2>2. CASE NspCheck(h) BY <1>2, <2>2 DEF NspCheck, Goto, KeepAllElse, SessionShape
    <2>3. CASE NspStart(h) BY <1>2, <2>3 DEF NspStart, SessionShape
    <2>4. CASE NspWaitStart(h)
      BY <1>2, <2>4 DEF NspWaitStart, Poll, KeepAllElse, SessionShape
    <2>5. CASE NspWaitBusy(h)
      BY <1>2, <2>5 DEF NspWaitBusy, Poll, KeepAllElse, SessionShape
    <2>6. CASE NspResult(h)
      BY <1>2, <2>6 DEF NspResult, Goto, KeepAllElse, SessionShape
    <2>7. CASE NspOutput(h) BY <1>2, <2>7 DEF NspOutput, KeepAllElse, SessionShape
    <2>8. CASE nfp_eth_set(h)
      BY <1>2, <2>8 DEF nfp_eth_set, nfp_eth_config_commit_end, KeepAllElse, SessionShape
    <2> QED BY <1>3, <2>1, <2>2, <2>3, <2>4, <2>5, <2>6, <2>7, <2>8 DEF NspUser
  <1>4. ASSUME NEW h \in Hosts, NEW op, nfp_nsp_open(h, op) PROVE SessionShape'
    BY <1>2, <1>4 DEF nfp_nsp_open, OwnerUnwritten, Opened, SessionShape
  <1>5. CASE NspProcessor
    BY <1>5 DEF NspProcessor, NspTake, NspFinish, SessionShape
  <1> QED BY <1>1, <1>2, <1>3, <1>4, <1>5, NspKinds

-----------------------------------------------------------------------------
\* If only h may be in a session, only what is known of h matters.
LEMMA OneUser ==
    ASSUME NEW h \in Hosts, \A g \in Hosts : g # h => ~ InSession(g)',
           ~ givenUp' => IF InSession(h)' THEN DataOf(h)' ELSE AtRest'
    PROVE  DataInv'
  BY DEF DataInv

\* A call that ends without success before its command is written, or after it
\* was seen to fail, leaves nothing behind.
LEMMA LeavingRests ==
    ASSUME NEW h \in Hosts, SessionShape, InSession(h), DataOf(h), ~ Awaiting(h),
           UNCHANGED <<command, status, done, buffer, table, agreed>>
    PROVE  AtRest'
  <1>1. session[h].pc \notin {"wait_start", "wait_busy"} BY DEF Awaiting
  <1>2. ~ command.start /\ ~ status.busy BY <1>1 DEF DataOf, CommandOf
  <1>3. session[h].code = "ETH_CONTROL" => ~ Finished(h) BY <1>1 DEF Awaiting, Finished
  <1>4. table = agreed BY <1>3 DEF DataOf, TableOf
  <1> QED BY <1>2, <1>4 DEF AtRest

LEMMA FailRests ==
    ASSUME NEW h \in Hosts, SessionShape, InSession(h), DataOf(h), Fail(h), ~ givenUp'
    PROVE  ~ InSession(h)' /\ AtRest'
  <1>1. ~ InSession(h)' BY DEF Fail, nfp_nsp_close, SessionShape, Closed
  <1>2. ~ Awaiting(h) /\ UNCHANGED <<command, status, done, buffer, table, agreed>> BY DEF Fail
  <1> QED BY <1>1, <1>2, LeavingRests

\* nfp_nsp_command_buf fills the buffer,
LEMMA FillData ==
    ASSUME NEW h \in Hosts, SessionShape, InSession(h), DataOf(h), NspFill(h), ~ givenUp'
    PROVE  IF InSession(h)' THEN DataOf(h)' ELSE AtRest'
  <1>1. CASE Fail(h) BY <1>1, FailRests
  <1>2. CASE ~ Fail(h)
    <2>1. /\ session[h].pc = "buffer" /\ session'[h].pc = "check"
          /\ session'[h].code = session[h].code /\ session'[h].op = session[h].op
          /\ session'[h].entries = session[h].entries
          /\ buffer' = [by |-> h, code |-> session[h].code, data |-> session[h].entries]
          /\ UNCHANGED <<command, status, done, table, agreed>>
      BY <1>2 DEF NspFill, Goto, SessionShape
    <2>2. CommandOf(h)' BY <2>1 DEF DataOf, CommandOf
    <2>3. SettingOf(h)' BY <2>1 DEF DataOf, SettingOf
    <2>4. TableOf(h)' BY <2>1 DEF DataOf, TableOf, Finished
    <2> QED BY <2>1, <2>2, <2>3, <2>4 DEF DataOf
  <1> QED BY <1>1, <1>2

\* nfp_nsp_command checks,
LEMMA CheckData ==
    ASSUME NEW h \in Hosts, SessionShape, InSession(h), DataOf(h), NspCheck(h), ~ givenUp'
    PROVE  IF InSession(h)' THEN DataOf(h)' ELSE AtRest'
  <1>1. CASE Fail(h) BY <1>1, FailRests
  <1>2. CASE ~ Fail(h)
    <2>1. /\ session[h].pc = "check" /\ session'[h].pc = "start"
          /\ session'[h].code = session[h].code /\ session'[h].op = session[h].op
          /\ session'[h].entries = session[h].entries
          /\ UNCHANGED <<command, status, done, buffer, table, agreed>>
      BY <1>2 DEF NspCheck, Goto, KeepAllElse, SessionShape
    <2>2. CommandOf(h)' BY <2>1 DEF DataOf, CommandOf
    <2>3. SettingOf(h)' BY <2>1 DEF DataOf, SettingOf
    <2>4. TableOf(h)' BY <2>1 DEF DataOf, TableOf, Finished
    <2> QED BY <2>1, <2>2, <2>3, <2>4 DEF DataOf
  <1> QED BY <1>1, <1>2

\* writes its command, with no other running,
LEMMA CommandData ==
    ASSUME NEW h \in Hosts, SessionShape, InSession(h), DataOf(h), NspStart(h), ~ givenUp'
    PROVE  IF InSession(h)' THEN DataOf(h)' ELSE AtRest'
  <1>1. CASE Fail(h) BY <1>1, FailRests
  <1>2. CASE ~ Fail(h)
    <2>1. /\ session[h].pc = "start" /\ session'[h].pc = "wait_start"
          /\ session'[h].code = session[h].code /\ session'[h].op = session[h].op
          /\ session'[h].entries = session[h].entries
          /\ command' = [start |-> TRUE, by |-> h, code |-> session[h].code]
          /\ UNCHANGED <<status, done, buffer, table, agreed>>
      BY <1>2 DEF NspStart, SessionShape
    <2>2. ~ status.busy /\ ~ Finished(h) BY <2>1 DEF DataOf, CommandOf, Finished
    <2>3. CommandOf(h)' BY <2>1, <2>2 DEF DataOf, CommandOf
    <2>4. SettingOf(h)' BY <2>1 DEF DataOf, SettingOf
    <2>5. TableOf(h)' BY <2>1, <2>2 DEF DataOf, TableOf, Finished
    <2> QED BY <2>1, <2>3, <2>4, <2>5 DEF DataOf
  <1> QED BY <1>1, <1>2

\* polls,
LEMMA PollData ==
    ASSUME NEW h \in Hosts, SessionShape, InSession(h), DataOf(h),
           NspWaitStart(h) \/ NspWaitBusy(h), ~ givenUp'
    PROVE  IF InSession(h)' THEN DataOf(h)' ELSE AtRest'
  <1>1. CASE Fail(h) BY <1>1, FailRests
  <1>2. CASE ~ Fail(h)
    <2>1. /\ session'[h].code = session[h].code /\ session'[h].op = session[h].op
          /\ session'[h].entries = session[h].entries
          /\ UNCHANGED <<command, status, done, buffer, table, agreed>>
          /\ \/ session[h].pc = "wait_start" /\ session'[h].pc = "wait_start"
             \/ session[h].pc = "wait_busy" /\ session'[h].pc = "wait_busy"
             \/ session[h].pc = "wait_start" /\ session'[h].pc = "wait_busy" /\ ~ command.start
             \/ session[h].pc = "wait_busy" /\ session'[h].pc = "result" /\ ~ status.busy
      BY <1>2 DEF NspWaitStart, NspWaitBusy, Poll, KeepAllElse, SessionShape
    <2>2. CommandOf(h)' BY <2>1 DEF DataOf, CommandOf
    <2>3. SettingOf(h)' BY <2>1 DEF DataOf, SettingOf
    <2>4. Finished(h)' <=> Finished(h) BY <2>1 DEF Finished
    <2>5. TableOf(h)' BY <2>1, <2>4 DEF DataOf, TableOf
    <2> QED BY <2>1, <2>2, <2>3, <2>5 DEF DataOf
  <1> QED BY <1>1, <1>2

\* A call that succeeds: what it set is what the table holds.
LEMMA SucceedRests ==
    ASSUME NEW h \in Hosts, SessionShape, InSession(h), DataOf(h), Succeed(h),
           session[h].pc \notin {"wait_start", "wait_busy"},
           session[h].op.kind = "set" =>
               table = [agreed EXCEPT ![session[h].op.port] = session[h].op.value],
           session[h].op.kind # "set" => table = agreed
    PROVE  ~ InSession(h)' /\ AtRest'
  <1>1. ~ InSession(h)' BY DEF Succeed, nfp_nsp_close, SessionShape, Closed
  <1>2. ~ command.start /\ ~ status.busy BY DEF DataOf, CommandOf
  <1>3. UNCHANGED <<command, status, table>> BY DEF Succeed
  <1>4. table = agreed' BY DEF Succeed
  <1> QED BY <1>1, <1>2, <1>3, <1>4 DEF AtRest

\* takes the result,
LEMMA ResultData ==
    ASSUME NEW h \in Hosts, SessionShape, InSession(h), DataOf(h), NspResult(h), ~ givenUp'
    PROVE  IF InSession(h)' THEN DataOf(h)' ELSE AtRest'
  <1>1. CASE Fail(h) BY <1>1, FailRests
  <1>2. CASE ~ Fail(h)
    <2>1. session[h].pc = "result" /\ done.result = "ok" BY <1>2 DEF NspResult
    <2>2. Finished(h) BY <2>1 DEF DataOf, CommandOf, Finished
    <2>3. CASE HasOutput(session[h].code)
      <3>1. /\ session'[h].pc = "output"
            /\ session'[h].code = session[h].code /\ session'[h].op = session[h].op
            /\ session'[h].entries = session[h].entries
            /\ UNCHANGED <<command, status, done, buffer, table, agreed>>
        BY <1>2, <2>3 DEF NspResult, Goto, KeepAllElse, SessionShape
      <3>2. session[h].code # "ETH_CONTROL" BY <2>3 DEF HasOutput
      <3>3. CommandOf(h)' BY <2>1, <3>1 DEF DataOf, CommandOf
      <3>4. SettingOf(h)' BY <2>1, <3>1, <3>2 DEF DataOf, SettingOf
      <3>5. TableOf(h)' BY <2>1, <2>2, <3>1, <3>2 DEF DataOf, TableOf
      <3> QED BY <3>1, <3>3, <3>4, <3>5 DEF DataOf
    <2>4. CASE ~ HasOutput(session[h].code)
      <3>1. Succeed(h) BY <1>2, <2>4 DEF NspResult
      <3>2. session[h].op.kind = "set" <=> session[h].code = "ETH_CONTROL"
        BY <2>4 DEF DataOf, SettingOf, HasOutput
      <3>3. /\ session[h].op.kind = "set" =>
                  table = [agreed EXCEPT ![session[h].op.port] = session[h].op.value]
            /\ session[h].op.kind # "set" => table = agreed
        BY <2>2, <3>2 DEF DataOf, TableOf
      <3> QED BY <2>1, <3>1, <3>3, SucceedRests
    <2> QED BY <2>3, <2>4
  <1> QED BY <1>1, <1>2

\* reads the answer,
LEMMA OutputData ==
    ASSUME NEW h \in Hosts, SessionShape, InSession(h), DataOf(h), NspOutput(h), ~ givenUp'
    PROVE  IF InSession(h)' THEN DataOf(h)' ELSE AtRest'
  <1>1. CASE Fail(h) BY <1>1, FailRests
  <1>2. CASE ~ Fail(h)
    <2>1. session[h].pc = "output" BY DEF NspOutput
    <2>2. session[h].code # "ETH_CONTROL" BY <2>1 DEF DataOf, SettingOf
    <2>3. table = agreed BY <2>2 DEF DataOf, TableOf
    <2>4. CASE session[h].op.kind # "set"
      BY <1>2, <2>1, <2>3, <2>4, SucceedRests DEF NspOutput
    <2>5. CASE session[h].op.kind = "set"
      <3>1. /\ session'[h].pc = "modify"
            /\ session'[h].code = session[h].code /\ session'[h].op = session[h].op
            /\ session'[h].entries = buffer.data
            /\ UNCHANGED <<command, status, done, buffer, table, agreed>>
        BY <1>2, <2>5 DEF NspOutput, KeepAllElse, SessionShape
      <3>2. session[h].code = "ETH_RESCAN" BY <2>2, <2>5 DEF DataOf, SettingOf
      <3>3. buffer.data = table BY <2>1, <3>2 DEF DataOf, TableOf
      <3>4. CommandOf(h)' BY <2>1, <3>1 DEF DataOf, CommandOf
      <3>5. SettingOf(h)' BY <2>5, <3>1, <3>2 DEF SettingOf
      <3>6. TableOf(h)' BY <2>3, <3>1, <3>2, <3>3 DEF TableOf, Finished
      <3> QED BY <3>1, <3>4, <3>5, <3>6 DEF DataOf
    <2> QED BY <2>4, <2>5
  <1> QED BY <1>1, <1>2

\* and changes the table it has read.
LEMMA SetData ==
    ASSUME NEW h \in Hosts, SessionShape, InSession(h), DataOf(h), nfp_eth_set(h), ~ givenUp'
    PROVE  IF InSession(h)' THEN DataOf(h)' ELSE AtRest'
  <1> DEFINE s == session[h]
             new == [s.entries EXCEPT ![s.op.port] = s.op.value]
  <1>1. /\ s.pc = "modify" /\ s.op.kind = "set" /\ s.code = "ETH_RESCAN"
        /\ s.entries = agreed /\ table = agreed
    BY DEF nfp_eth_set, DataOf, SettingOf, TableOf
  <1>2. CASE Fail(h) BY <1>2, FailRests
  <1>3. CASE Succeed(h) /\ new = s.entries
    BY <1>1, <1>3, SucceedRests
  <1>4. CASE /\ session' = [session EXCEPT ![h].pc = "buffer", ![h].code = "ETH_CONTROL",
                                           ![h].entries = new]
             /\ KeepAllElse
    <2>1. /\ session'[h].pc = "buffer" /\ session'[h].code = "ETH_CONTROL"
          /\ session'[h].op = s.op /\ session'[h].entries = new
          /\ UNCHANGED <<command, status, done, buffer, table, agreed>>
      <3> HIDE DEF new
      <3> QED BY <1>4 DEF KeepAllElse, SessionShape
    <2>2. CommandOf(h)' BY <1>1, <2>1 DEF DataOf, CommandOf
    <2>3. SettingOf(h)' BY <1>1, <2>1 DEF SettingOf
    <2>4. TableOf(h)' BY <1>1, <2>1 DEF TableOf, Finished
    <2> QED BY <2>1, <2>2, <2>3, <2>4 DEF DataOf
  <1> QED BY <1>2, <1>3, <1>4 DEF nfp_eth_set, nfp_eth_config_commit_end

\* A user opens a session: everything is at rest.
LEMMA OpenData ==
    ASSUME NEW h \in Hosts, NEW op \in AllOperations, SessionShape, ~ InSession(h),
           nfp_nsp_open(h, op), AtRest, ~ givenUp'
    PROVE  IF InSession(h)' THEN DataOf(h)' ELSE AtRest'
  <1>1. CASE Fail(h)
    <2>1. ~ InSession(h)' BY <1>1 DEF Fail, nfp_nsp_close, SessionShape, Closed
    <2>2. UNCHANGED <<command, status, table, agreed>> BY <1>1 DEF Fail
    <2> QED BY <2>1, <2>2 DEF AtRest
  <1>2. CASE OwnerUnwritten
    BY <1>2 DEF OwnerUnwritten, AtRest
  <1>3. CASE ~ Fail(h) /\ ~ OwnerUnwritten
    <2>1. /\ session'[h].code = FirstCode(op) /\ session'[h].op = op
          /\ session'[h].pc = IF HasBuffer(FirstCode(op)) THEN "buffer" ELSE "check"
          /\ UNCHANGED <<command, status, done, buffer, table, agreed>>
      BY <1>3 DEF nfp_nsp_open, Opened, SessionShape
    <2>2. /\ FirstCode(op) # "ETH_CONTROL"
          /\ op.kind = "set" => FirstCode(op) = "ETH_RESCAN"
      <3>1. CASE op = [kind |-> "ports"] BY <3>1 DEF FirstCode
      <3>2. CASE op \in Operations BY <3>2, NspAssumption DEF FirstCode
      <3> QED BY <3>1, <3>2 DEF AllOperations
    <2>3. CommandOf(h)' BY <2>1 DEF AtRest, CommandOf
    <2>4. SettingOf(h)' BY <2>1, <2>2 DEF SettingOf
    <2>5. TableOf(h)' BY <2>1, <2>2 DEF AtRest, TableOf, Finished
    <2> QED BY <2>1, <2>3, <2>4, <2>5 DEF DataOf
  <1> QED BY <1>1, <1>2, <1>3

\* The processor works for the user in the session, on its buffer.
LEMMA ProcessorData ==
    ASSUME NEW h \in Hosts, SessionShape, InSession(h), DataOf(h), NspProcessor
    PROVE  DataOf(h)'
  <1>1. session' = session /\ agreed' = agreed
    BY DEF NspProcessor, NspTake, NspFinish
  <1>2. SettingOf(h)' BY <1>1 DEF DataOf, SettingOf
  <1>3. CASE NspTake
    <2>1. /\ command.start /\ ~ status.busy
          /\ command' = [start |-> FALSE, by |-> NoHost, code |-> "none"]
          /\ status' = [busy |-> TRUE, by |-> command.by, code |-> command.code]
          /\ UNCHANGED <<buffer, table>>
      BY <1>3 DEF NspTake
    <2>2. ~ Finished(h) /\ ~ Finished(h)' BY <2>1 DEF Finished
    <2>3. CommandOf(h)' BY <1>1, <2>1 DEF DataOf, CommandOf
    <2>4. TableOf(h)' BY <1>1, <2>1, <2>2 DEF DataOf, TableOf
    <2> QED BY <1>2, <2>3, <2>4 DEF DataOf
  <1>4. ASSUME NEW result, NspFinish(result) PROVE DataOf(h)'
    <2>1. /\ status.busy /\ ~ command.start
          /\ session[h].pc \in {"wait_start", "wait_busy"}
          /\ status.by = h /\ status.code = session[h].code
      BY <1>4 DEF NspFinish, DataOf, CommandOf
    <2>2. /\ status' = [busy |-> FALSE, by |-> NoHost, code |-> "none"]
          /\ done' = [by |-> status.by, result |-> result]
          /\ buffer' = IF result = "ok" /\ session[h].code = "ETH_RESCAN"
                       THEN [buffer EXCEPT !.data = table] ELSE buffer
          /\ table' = IF result = "ok" /\ session[h].code = "ETH_CONTROL"
                      THEN buffer.data ELSE table
          /\ command' = command
      BY <1>4, <2>1 DEF NspFinish
    <2>3. ~ Finished(h) /\ (Finished(h)' <=> result = "ok")
      BY <1>1, <2>1, <2>2 DEF Finished
    <2>4. CommandOf(h)' BY <1>1, <2>1, <2>2 DEF DataOf, CommandOf, SessionShape
    <2>5. TableOf(h)' BY <1>1, <2>1, <2>2, <2>3 DEF DataOf, TableOf, SessionShape
    <2> QED BY <1>2, <2>4, <2>5 DEF DataOf
  <1> QED BY <1>3, <1>4 DEF NspProcessor

\* Every step keeps it, until a command is given up.
LEMMA DataStep == ASSUME IInv, SessionShape, DataInv, [Next]_vars PROVE DataInv'
  <1>1. CASE UNCHANGED nspVars
    BY <1>1 DEF nspVars, DataInv, DataOf, CommandOf, SettingOf, TableOf, Finished, AtRest
  <1>2. ASSUME NEW h \in Hosts, NspUser(h) PROVE DataInv'
    <2>1. InSession(h) /\ (nfp_nsp_close(h) \/ GoesOn(h)) BY <1>2, UserStep DEF IInv
    <2>2. \A g \in Hosts : InSession(g) => g = h BY <2>1, UsesAlone
    <2>3. \A g \in Hosts : g # h => ~ InSession(g)'
      BY <2>1, <2>2, Closing DEF GoesOn, IInv
    <2>4. ASSUME ~ givenUp' PROVE IF InSession(h)' THEN DataOf(h)' ELSE AtRest'
      <3>1. ~ givenUp
        <4>1. givenUp => givenUp'
          BY <1>2 DEF NspUser, NspFill, NspCheck, NspStart, NspWaitStart, NspWaitBusy, NspResult,
                      NspOutput, nfp_eth_set, nfp_eth_config_commit_end, Fail, Succeed, KeepAllElse
        <4> QED BY <2>4, <4>1
      <3>2. DataOf(h) BY <2>1, <3>1 DEF DataInv
      <3> QED BY <1>2, <2>1, <2>4, <3>2, FillData, CheckData, CommandData, PollData, ResultData,
                 OutputData, SetData DEF NspUser
    <2> QED BY <2>3, <2>4, OneUser
  <1>3. ASSUME NEW h \in Hosts, NEW op \in AllOperations, nfp_nsp_open(h, op),
               \A g \in Hosts : ~ InSession(g)
        PROVE  DataInv'
    <2>1. \A g \in Hosts : g # h => ~ InSession(g)' BY <1>3, OpenStep, Closing DEF IInv
    <2>2. ASSUME ~ givenUp' PROVE IF InSession(h)' THEN DataOf(h)' ELSE AtRest'
      <3>1. ~ givenUp BY <1>3, <2>2 DEF nfp_nsp_open, OwnerUnwritten, Fail
      <3>2. AtRest BY <1>3, <3>1 DEF DataInv
      <3> QED BY <1>3, <2>2, <3>2, OpenData
    <2> QED BY <2>1, <2>2, OneUser
  <1>4. ASSUME NEW h \in Hosts, Die(h) PROVE DataInv'
    <2>1. /\ \A g \in Hosts : g # h => session'[g] = session[g]
          /\ session'[h].pc = "idle"
      BY <1>4, Dying DEF IInv
    <2>2. /\ givenUp' = (givenUp \/ Awaiting(h))
          /\ UNCHANGED <<command, status, done, buffer, table, agreed>>
      BY <1>4 DEF Die
    <2>3. CASE InSession(h)
      <3>1. \A g \in Hosts : g # h => ~ InSession(g)' BY <2>1, <2>3, UsesAlone
      <3>2. ASSUME ~ givenUp' PROVE AtRest'
        <4>1. ~ givenUp /\ ~ Awaiting(h) BY <2>2, <3>2
        <4>2. DataOf(h) BY <2>3, <4>1 DEF DataInv
        <4> QED BY <2>2, <2>3, <4>1, <4>2, LeavingRests
      <3> QED BY <2>1, <3>1, <3>2, OneUser
    <2>4. CASE ~ InSession(h)
      <3>1. ~ givenUp' => ~ givenUp BY <2>2
      <3>2. \A g \in Hosts : InSession(g)' <=> InSession(g) BY <2>1, <2>4
      <3>3. ASSUME NEW g \in Hosts, InSession(g), DataOf(g) PROVE DataOf(g)'
        <4>1. session'[g] = session[g] BY <2>1, <2>4, <3>3
        <4> QED BY <2>2, <3>3, <4>1 DEF DataOf, CommandOf, SettingOf, TableOf, Finished
      <3>4. AtRest => AtRest' BY <2>2 DEF AtRest
      <3> QED BY <3>1, <3>2, <3>3, <3>4 DEF DataInv
    <2> QED BY <2>3, <2>4
  <1>5. CASE NspProcessor
    <2>1. UNCHANGED <<session, givenUp>> BY <1>5 DEF NspProcessor, NspTake, NspFinish
    <2>2. ASSUME NEW h \in Hosts, InSession(h), DataOf(h) PROVE DataOf(h)'
      BY <1>5, <2>2, ProcessorData
    <2>3. ASSUME AtRest PROVE FALSE
      BY <1>5, <2>3 DEF NspProcessor, NspTake, NspFinish, AtRest
    <2> QED BY <2>1, <2>2, <2>3 DEF DataInv
  <1> QED BY <1>1, <1>2, <1>3, <1>4, <1>5, NspKinds

\* At first nothing runs and nothing is set.
LEMMA DataInit == Init => SessionShape /\ DataInv
  BY DEF Init, NspInit, SessionShape, DataInv, AtRest, Closed

\* What is known of the data holds as long as no command was given up.
LEMMA DataInvariant == StartupSpec => [](IInv /\ SessionShape /\ DataInv)
  <1>1. Init => IInv /\ SessionShape /\ DataInv BY InitInv, DataInit
  <1>2. (IInv /\ SessionShape /\ DataInv) /\ [Next]_vars => (IInv /\ SessionShape /\ DataInv)'
    BY NextInv, ShapeStep, DataStep
  <1> QED BY <1>1, <1>2, PTL DEF StartupSpec

(***************************************************************************)
(* For any number of users and any operations: unless a command was given up  *)
(* after it was written, the processor runs every command on the buffer its   *)
(* own user filled for it (nfp_nsp_command_buf).                              *)
(***************************************************************************)
THEOREM StartupBuffers == StartupSpec => []BufferBelongs
  <1>1. IInv /\ SessionShape /\ DataInv => BufferBelongs
    <2> SUFFICES ASSUME DataInv, ~ givenUp, status.busy, HasBuffer(status.code)
                 PROVE  buffer.by = status.by /\ buffer.code = status.code
      BY DEF BufferBelongs
    <2>1. PICK h \in Hosts : InSession(h) /\ DataOf(h) BY DEF DataInv, AtRest
    <2> QED BY <2>1 DEF DataOf, CommandOf
  <1> QED BY <1>1, DataInvariant, PTL

(***************************************************************************)
(* For any number of users, ports and values: unless a command was given up,  *)
(* what nfp_eth_set_* and nfp_eth_config_commit_end reported as set is what   *)
(* the table holds, although every user writes back the whole table.          *)
(***************************************************************************)
THEOREM StartupConfigSticks == StartupSpec => []ConfigSticks
  <1>1. IInv /\ SessionShape /\ DataInv => ConfigSticks
    BY DEF DataInv, AtRest, ConfigSticks
  <1> QED BY <1>1, DataInvariant, PTL
==============================================================================
