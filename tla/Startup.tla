------------------------------- MODULE Startup -------------------------------
(***************************************************************************)
(* The life of the host process (user/app_main.c): it finds and maps the card *)
(* (user/lib/driver.c), waits for its turn at the process lock and opens the  *)
(* CPP (user/nfpcore/nfp_cpp_pcie_ops.c, nfp_cppcore.c), reads the hardware   *)
(* table (nfp_hwinfo.c) and the ports (Nsp), reserves two zones of huge pages *)
(* (user/lib/memzone.c) and starts the worker, which looks for the device's   *)
(* configuration (FirmwareTables) and writes it.  Processes fail, die and are *)
(* started again; other users of the NSP and an update of the hardware table  *)
(* go on meanwhile.  What the worker does next is HostWorker.                 *)
(***************************************************************************)
EXTENDS Nsp, FirmwareTables, FiniteSets

CONSTANTS Processes,     \* host processes of this program; the other Hosts
                         \* use the NSP on their own
          MAX_MEMZONES,  \* zones of a process: 1024 in the code
          MaxFetches,    \* tries at the hardware table: 201 in the code
          MaxStarts,     \* bound: how often a process is started
          MaxDeaths,     \* bound: how many processes die
          Machines,      \* what the host may consist of
          Firmwares,     \* what the NIC may have been loaded with
          MetaSize       \* sizeof(struct device_meta_t)

ASSUME StartupAssumption ==
    /\ Processes \subseteq Hosts
    /\ \A g, h \in Hosts : Interface[g] = Interface[h] => g = h \/ {g, h} \subseteq Processes
    /\ MAX_MEMZONES \in Nat /\ MaxFetches \in Nat
    /\ MaxStarts \in Nat /\ MaxDeaths \in Nat /\ MetaSize \in Nat
    \* A symbol table is a sequence.
    /\ \A f \in Firmwares : DOMAIN nfp_rtsym_table_read(f) \subseteq Nat

VARIABLES main,     \* where main is, and its two zones
          worker,   \* where udp_worker is, and the symbol it has mapped
          plock,    \* who holds /var/lock/nfp_<device>
          zones,    \* the handles of each process that are taken
          files,    \* the zone files in the huge page file system; they stay
          meta,     \* the configuration of the device: the I/O addresses
          deaths

mainVars == <<main, worker, plock, zones, files, meta, deaths>>
vars == <<mainVars, nspVars>>

NoZone == MAX_MEMZONES + 1
Zones == 0 .. (MAX_MEMZONES - 1)
Off(starts) == [pc |-> "off", starts |-> starts, fetches |-> 0,
                rx |-> NoZone, tx |-> NoZone]
NoWorker == [pc |-> "none", sym |-> None]

Init ==
    /\ NspInit
    /\ main = [p \in Processes |-> Off(0)]
    /\ worker = [p \in Processes |-> NoWorker]
    /\ plock = NoHost
    /\ zones = [p \in Processes |-> {}]
    /\ files = {}
    /\ meta = [start_signal |-> 0, rx |-> NoZone, tx |-> NoZone]
    /\ deaths = 0

MainAt(p, pc) == main[p].pc = pc
MainGoto(p, pc) == main' = [main EXCEPT ![p].pc = pc]
OnlyMain == UNCHANGED <<worker, plock, zones, files, meta, deaths, nspVars>>

-----------------------------------------------------------------------------
\* The process ends: the kernel drops its lock, its memory and its threads,
\* the zone files and what the device was told stay.
Gone(p) ==
    /\ main' = [main EXCEPT ![p] = Off(@.starts)]
    /\ worker' = [worker EXCEPT ![p] = NoWorker]
    /\ plock' = IF plock = p THEN NoHost ELSE plock
    /\ zones' = [zones EXCEPT ![p] = {}]

\* main returns 0, whatever failed.
Return(p) == Gone(p) /\ UNCHANGED <<files, meta, deaths, nspVars>>

\* It is killed, at any point.
Crash(p) ==
    /\ ~ MainAt(p, "off")
    /\ deaths < MaxDeaths
    /\ deaths' = deaths + 1
    /\ Gone(p)
    /\ Die(p)
    /\ UNCHANGED <<files, meta>>

-----------------------------------------------------------------------------
\* memzone_init, the scan and the mapping, which touch nothing shared.
Start(p) ==
    /\ MainAt(p, "off")
    /\ main[p].starts < MaxStarts
    /\ \E dev \in {pci_scan(machine) : machine \in Machines} :
          main' = [main EXCEPT
                     ![p].pc = IF dev # None /\ pci_map_device(dev) THEN "lock" ELSE "off",
                     ![p].starts = @ + 1]
    /\ zones' = [zones EXCEPT ![p] = {}]
    /\ UNCHANGED <<worker, plock, files, meta, deaths, nspVars>>

\* Mutant: a lock that is taken is no reason to wait.
ProcessLockTried(p) == plock' = IF plock = NoHost THEN p ELSE plock

\* It waits as long as it takes.
nfp_acquire_process_lock(p) == plock = NoHost /\ plock' = p

\* nfp6000_init: the lock first; interface and serial number from the
\* configuration space, the BARs, then the IMB tables over XPB.
nfp_cpp_alloc(p) ==
    /\ MainAt(p, "lock")
    /\ \/ Return(p)
       \/ /\ nfp_acquire_process_lock(p)
          /\ MainGoto(p, "hwinfo")
          /\ UNCHANGED <<worker, zones, files, meta, deaths, nspVars>>

-----------------------------------------------------------------------------
\* Mutant: the count starts again with every try.
FetchRecounted(p) == main' = [main EXCEPT ![p].fetches = 1 - @] /\ OnlyMain

\* nfp_hwinfo_fetch after a try that failed: once more, or never.
FetchAgain(p) ==
    IF main[p].fetches >= MaxFetches THEN Return(p)
    ELSE main' = [main EXCEPT ![p].fetches = @ + 1] /\ OnlyMain

\* nfp_hwinfo_read.  A try fails while the table is being updated; an update
\* that begins while it is read shows in the checksum, and ends the process.
nfp_hwinfo_read(p) ==
    /\ MainAt(p, "hwinfo")
    /\ \/ FetchAgain(p)
       \/ Return(p)
       \/ main' = [main EXCEPT ![p].pc = "ports", ![p].fetches = 0] /\ OnlyMain

\* nfp_eth_read_ports opens a session (Nsp), or cannot.
ReadPorts(p) ==
    /\ MainAt(p, "ports")
    /\ \/ Return(p)
       \/ /\ nfp_nsp_open(p, [kind |-> "ports"])
          /\ IF InSession(p)' THEN MainGoto(p, "session") /\ UNCHANGED <<worker, plock, zones>>
                              ELSE Gone(p)
          /\ UNCHANGED <<files, meta, deaths>>

\* A step of a user of the NSP.  With the session the call of a process ends:
\* if there was an answer to read, perhaps with a table, else without.
NspUse(h) ==
    /\ NspUser(h)
    /\ IF h \in Processes /\ ~ InSession(h)'
       THEN \/ Gone(h)
            \/ /\ At(h, "output")
               /\ MainGoto(h, "reserve")
               /\ UNCHANGED <<worker, plock, zones>>
       ELSE UNCHANGED <<main, worker, plock, zones>>
    /\ UNCHANGED <<files, meta, deaths>>

\* One of the others begins something.
NspBegin(m, op) ==
    /\ nfp_nsp_open(m, op)
    /\ UNCHANGED mainVars

NspUserDies(m) ==
    /\ InSession(m)
    /\ deaths < MaxDeaths
    /\ deaths' = deaths + 1
    /\ Die(m)
    /\ UNCHANGED <<main, worker, plock, zones, files, meta>>

-----------------------------------------------------------------------------
\* Mutant: a zone whose file is there already is passed over.
AllocFresh(taken) ==
    LET free == Zones \ (taken \cup files)
    IN  IF free = {} THEN NoZone ELSE CHOOSE z \in free : \A y \in free : z <= y

\* The first handle that is not taken; NoZone if all are.
alloc_memzone(taken) ==
    LET free == Zones \ taken
    IN  IF free = {} THEN NoZone ELSE CHOOSE z \in free : \A y \in free : z <= y

(***************************************************************************)
(* What may come of a call when some handles are taken and some files there.  *)
(* The zone's file is opened, or created, and mapped: shared pages, so a zone *)
(* is the same memory, at the same I/O address, whoever maps it.  The file    *)
(* may be there although the call fails; free_memzone then frees the handle.  *)
(***************************************************************************)
memzone_reserve(taken, present) ==
    LET z == alloc_memzone(taken)
        Failed(f) == [zone |-> NoZone, taken |-> taken, files |-> f]
    IN  IF z = NoZone THEN {Failed(present)}
        ELSE {Failed(present), Failed(present \cup {z}),
              [zone |-> z, taken |-> taken \cup {z}, files |-> present \cup {z}]}

Serving(p, rx, tx) ==
    /\ main' = [main EXCEPT ![p].pc = "serving", ![p].rx = rx.zone, ![p].tx = tx.zone]
    /\ zones' = [zones EXCEPT ![p] = tx.taken]
    /\ worker' = [worker EXCEPT ![p].pc = "symbols"]
    /\ UNCHANGED plock

\* Mutant: nothing looks at the zones before the worker does.
ServeUnchecked(p, rx, tx) == Serving(p, rx, tx)

\* Both zones are cleared through pointers that nobody has checked: a zone that
\* could not be reserved ends the process here.  Else the threads are created
\* and main becomes the device server (CppDevice).
Serve(p, rx, tx) ==
    IF NoZone \in {rx.zone, tx.zone} THEN Gone(p) ELSE Serving(p, rx, tx)

\* main after pci_probe.
Reserve(p) ==
    /\ MainAt(p, "reserve")
    /\ \E rx \in memzone_reserve(zones[p], files) :
          \E tx \in memzone_reserve(rx.taken, rx.files) :
             /\ Serve(p, rx, tx)
             /\ files' = tx.files
    /\ UNCHANGED <<meta, deaths, nspVars>>

-----------------------------------------------------------------------------
WorkerStep(p, next) ==
    /\ worker' = [worker EXCEPT ![p] = next]
    /\ UNCHANGED <<main, plock, zones, files, deaths, nspVars>>

\* The symbol table is read and i32._cfg mapped; any of it may fail, and then the
\* worker ends while the process goes on serving.
WorkerMap(p) ==
    /\ worker[p].pc = "symbols"
    /\ \/ WorkerStep(p, [pc |-> "ended", sym |-> None])
       \/ \E sym \in {nfp_rtsym_map(nfp_rtsym_table_read(f), "i32._cfg", MetaSize) : f \in Firmwares} :
             sym # None /\ WorkerStep(p, [pc |-> "configure", sym |-> sym])
    /\ UNCHANGED meta

\* configure_device: the two I/O addresses, then the start signal.
WorkerConfigure(p) ==
    /\ worker[p].pc = "configure"
    /\ meta' = [start_signal |-> 1, rx |-> main[p].rx, tx |-> main[p].tx]
    /\ WorkerStep(p, [worker[p] EXCEPT !.pc = "running"])

-----------------------------------------------------------------------------
Main(p) ==
    \/ nfp_cpp_alloc(p) \/ nfp_hwinfo_read(p) \/ ReadPorts(p) \/ Reserve(p)

Worker(p) == WorkerMap(p) \/ WorkerConfigure(p)

Next ==
    \/ \E p \in Processes : Start(p) \/ Main(p) \/ Worker(p) \/ Crash(p)
    \/ \E h \in Hosts : NspUse(h)
    \/ \E m \in Hosts \ Processes :
          NspUserDies(m) \/ \E op \in Operations : NspBegin(m, op)
    \/ NspProcessor /\ UNCHANGED mainVars

(***************************************************************************)
(* The threads of the host run when they can.  Nothing is asked of the        *)
(* service processor or of the other users: every wait for them is bounded.   *)
(***************************************************************************)
StartupSpec ==
    /\ Init /\ [][Next]_vars
    /\ \A p \in Processes :
          WF_vars(Main(p)) /\ WF_vars(Worker(p)) /\ WF_vars(NspUse(p))

-----------------------------------------------------------------------------
StartupTypeOK ==
    /\ NspTypeOK
    /\ \A p \in Processes :
          /\ main[p].pc \in {"off", "lock", "hwinfo", "ports", "session", "reserve",
                             "serving"}
          /\ {main[p].rx, main[p].tx} \ {NoZone} \subseteq zones[p]
          /\ zones[p] \subseteq files
    /\ files \subseteq Zones

(***************************************************************************)
(* When the device is told to start, its two buffers are two different zones, *)
(* and the symbol the worker writes to holds a struct device_meta_t: main     *)
(* checks no result, and still no failed reserve gets so far.                 *)
(***************************************************************************)
ConfiguredZones ==
    \A p \in Processes : worker[p].pc = "running" =>
        /\ {meta.rx, meta.tx} \subseteq zones[p]
        /\ meta.rx # meta.tx
        /\ worker[p].sym.name = "i32._cfg" /\ worker[p].sym.size >= MetaSize

(***************************************************************************)
(* The I/O addresses of the device stay what they were when it was started:   *)
(* a process that takes over from one that died while the engines were        *)
(* running gives them the same memory again.                                  *)
(***************************************************************************)
BuffersStay ==
    [][meta.start_signal = 1 => meta'.rx = meta.rx /\ meta'.tx = meta.tx]_vars

(***************************************************************************)
(* A process that has the process lock comes to serve or ends; its worker     *)
(* runs or ends.  No answer of the NSP or of the hardware table is waited for *)
(* without end.                                                               *)
(***************************************************************************)
StartupEnds ==
    \A p \in Processes :
        /\ MainAt(p, "hwinfo") ~> main[p].pc \in {"off", "serving"}
        /\ worker[p].pc = "symbols" ~> worker[p].pc \in {"running", "ended", "none"}
==============================================================================
