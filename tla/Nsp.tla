--------------------------------- MODULE Nsp ---------------------------------
(***************************************************************************)
(* The service processor of the NIC and its users (user/nfpcore/nfp_nsp.c,    *)
(* nfp_nsp_cmds.c, nfp_nsp_eth.c).  A user takes the resource lock, puts its  *)
(* data into the one command buffer, writes a command into a register and     *)
(* polls until the processor has started and finished it.  The polling is     *)
(* bounded, the processor is not: a command that was given up may still run.  *)
(*                                                                         *)
(* The resource lock knows interfaces, not processes (NfpMutex): processes of *)
(* one interface are all let in.  A step is one access to the processor.      *)
(***************************************************************************)
EXTENDS Integers

CONSTANTS Hosts,       \* users of the library: processes
          Interface,   \* the CPP interface of each
          Ports,       \* entries of the Ethernet table
          Disabled,    \* ports without lanes
          Minors,      \* what the minor ABI version may be
          Operations,  \* what the users do
          MaxPolls     \* how often nfp_nsp_wait_reg polls: 1001 in the code

ASSUME NspAssumption ==
    /\ "none" \notin Hosts
    /\ Interface \in [Hosts -> Nat \ {0}]
    /\ Disabled \subseteq Ports
    /\ Minors \subseteq Nat
    /\ \A op \in Operations :
          /\ op.kind \in {"ports", "set", "sensor", "identify", "load", "plain"}
          /\ op.kind = "plain" => op.code \in {"SOFT_RESET", "MAC_INIT", "NOOP"}
    /\ MaxPolls \in Nat

VARIABLES minor,      \* the ABI of this NSP
          lock,       \* the lock word of the NSP resource: Nobody if unlocked,
                      \* else the interface it names, Unowned if none
          command,    \* the command register: START, the code, and who wrote it
          status,     \* the status register: BUSY, what runs and for whom
          done,       \* its RESULT, and whose command that was
          buffer,     \* the default buffer: who filled it, for what, with what
          table,      \* the Ethernet table of the NSP
          session,    \* where each user is between open and close
          left,       \* history: locks left behind by a death or a failed access
          givenUp,    \* history: some command was given up once it was written
          agreed      \* history: what the successful calls have set

nspVars == <<minor, lock, command, status, done, buffer, table, session,
             left, givenUp, agreed>>

Nobody == 0
Unowned == -1
NoHost == "none"
Zero == [p \in Ports |-> 0]
Closed == [pc |-> "idle", op |-> [kind |-> "none"], code |-> "none", polls |-> 0,
           entries |-> Zero]

NspInit ==
    /\ minor \in Minors
    /\ lock = Nobody
    /\ command = [start |-> FALSE, by |-> NoHost, code |-> "none"]
    /\ status = [busy |-> FALSE, by |-> NoHost, code |-> "none"]
    /\ done = [by |-> NoHost, result |-> "none"]
    /\ buffer = [by |-> NoHost, code |-> "none", data |-> Zero]
    /\ table = Zero
    /\ session = [h \in Hosts |-> Closed]
    /\ left = {}
    /\ givenUp = FALSE
    /\ agreed = Zero

At(h, pc) == session[h].pc = pc
Goto(h, pc) == session' = [session EXCEPT ![h].pc = pc]
InSession(h) == ~ At(h, "idle")
KeepAllElse == UNCHANGED <<minor, lock, command, status, done, buffer, table, left,
                           givenUp, agreed>>

\* The command of h is written, and h does not know what became of it.
Awaiting(h) ==
    \/ session[h].pc \in {"wait_start", "wait_busy"}
    \/ At(h, "result") /\ session[h].code = "ETH_CONTROL" /\ done.result = "ok"

-----------------------------------------------------------------------------
(***************************************************************************)
(* Leaving a session: nfp_nsp_close, by way of nfp_eth_config_cleanup_end or  *)
(* not, gives the lock back.  The unlock may fail like any other access, and  *)
(* nobody looks at its result: then the word goes on naming the interface.    *)
(***************************************************************************)
nfp_resource_release(h) ==
    \/ lock' = Nobody /\ left' = left \ {Interface[h]}
    \/ lock' = Interface[h] /\ left' = left \cup {Interface[h]}

nfp_nsp_close(h) ==
    /\ nfp_resource_release(h)
    /\ session' = [session EXCEPT ![h] = Closed]

\* An access failed, a check did, or the polling came to its end.
Fail(h) ==
    /\ nfp_nsp_close(h)
    /\ givenUp' = (givenUp \/ Awaiting(h))
    /\ UNCHANGED <<minor, command, status, done, buffer, table, agreed>>

\* The operation is done.  nfp_eth_config_commit_end returns 0 or 1.
Succeed(h) ==
    LET op == session[h].op IN
    /\ nfp_nsp_close(h)
    /\ agreed' = IF op.kind = "set" THEN [agreed EXCEPT ![op.port] = op.value]
                                    ELSE agreed
    /\ UNCHANGED <<minor, command, status, done, buffer, table, givenUp>>

\* The process of h dies and leaves everything as it is.
Die(h) ==
    /\ session' = [session EXCEPT ![h] = Closed]
    /\ left' = IF InSession(h) THEN left \cup {Interface[h]} ELSE left
    /\ givenUp' = (givenUp \/ Awaiting(h))
    /\ UNCHANGED <<minor, lock, command, status, done, buffer, table, agreed>>

-----------------------------------------------------------------------------
\* Magic and major version are what they should be; NSP_MINOR is 8.
nfp_nsp_check == ~ status.busy /\ minor >= 8

\* The command an operation starts with; a set reads the table first.
FirstCode(op) ==
    CASE op.kind \in {"ports", "set"} -> "ETH_RESCAN"
      [] op.kind = "sensor" -> "NSP_SENSORS"
      [] op.kind = "identify" -> "NSP_IDENTIFY"
      [] op.kind = "load" -> "FW_LOAD"
      [] op.kind = "plain" -> op.code     \* SOFT_RESET, MAC_INIT, NOOP

HasBuffer(code) == code \notin {"NOOP", "SOFT_RESET", "MAC_INIT"}

\* The answer comes back in the buffer.
HasOutput(code) == code \in {"ETH_RESCAN", "NSP_SENSORS", "NSP_IDENTIFY"}

Opened(h, op) ==
    [session EXCEPT ![h].op = op, ![h].code = FirstCode(op),
                    ![h].pc = IF HasBuffer(FirstCode(op)) THEN "buffer" ELSE "check"]

\* nfp_cpp_mutex_trylock has set the word and fails, or dies, before it has
\* written the owner.
OwnerUnwritten ==
    /\ lock = Nobody
    /\ lock' = Unowned
    /\ left' = left \cup {Unowned}
    /\ UNCHANGED <<minor, command, status, done, buffer, table, session, givenUp, agreed>>

\* The lock, then the check.  A busy lock is given up at once (NfpResource), as
\* is one that cannot be read, and that changes nothing.
nfp_nsp_open(h, op) ==
    /\ At(h, "idle")
    /\ lock \in {Nobody, Interface[h]}
    /\ \/ OwnerUnwritten
       \/ Fail(h)
       \/ /\ nfp_nsp_check
          /\ lock' = Interface[h]
          /\ session' = Opened(h, op)
          /\ UNCHANGED <<minor, command, status, done, buffer, table, left,
                         givenUp, agreed>>

\* Mutant: the input is written only if an answer is to come.
BufferUnwritten(h) ==
    /\ At(h, "buffer")
    /\ Goto(h, "check")
    /\ buffer' = IF HasOutput(session[h].code)
                 THEN [by |-> h, code |-> session[h].code, data |-> Zero]
                 ELSE buffer
    /\ UNCHANGED <<minor, lock, command, status, done, table, left, givenUp, agreed>>

\* nfp_nsp_command_buf before the command: the input, or zeros for the answer.
NspFill(h) ==
    /\ At(h, "buffer")
    /\ \/ Fail(h)
       \/ /\ minor >= 13
          /\ session[h].code = "NSP_IDENTIFY" => minor >= 15
          /\ Goto(h, "check")
          /\ buffer' = [by |-> h, code |-> session[h].code, data |-> session[h].entries]
          /\ UNCHANGED <<minor, lock, command, status, done, table, left, givenUp, agreed>>

\* nfp_nsp_command checks again and writes the address of the buffer,
NspCheck(h) ==
    /\ At(h, "check")
    /\ \/ Fail(h)
       \/ /\ nfp_nsp_check
          /\ Goto(h, "start")
          /\ KeepAllElse

\* writes the command,
NspStart(h) ==
    /\ At(h, "start")
    /\ \/ Fail(h)
       \/ /\ command' = [start |-> TRUE, by |-> h, code |-> session[h].code]
          /\ session' = [session EXCEPT ![h].pc = "wait_start", ![h].polls = 0]
          /\ UNCHANGED <<minor, lock, status, done, buffer, table, left, givenUp, agreed>>

\* nfp_nsp_wait_reg: one poll of a bit that must become 0.
Poll(h, bit, next) ==
    IF ~ bit THEN session' = [session EXCEPT ![h].pc = next, ![h].polls = 0]
             ELSE /\ session[h].polls < MaxPolls
                  /\ session' = [session EXCEPT ![h].polls = @ + 1]

\* Mutant: START is not waited for.
StartNotAwaited(h) ==
    /\ At(h, "wait_start")
    /\ Goto(h, "wait_busy")
    /\ KeepAllElse

\* waits for it to start,
NspWaitStart(h) ==
    /\ At(h, "wait_start")
    /\ \/ Fail(h)
       \/ /\ Poll(h, command.start, "wait_busy")
          /\ KeepAllElse

\* waits for it to end,
NspWaitBusy(h) ==
    /\ At(h, "wait_busy")
    /\ \/ Fail(h)
       \/ /\ Poll(h, status.busy, "result")
          /\ KeepAllElse

\* and takes the result.
NspResult(h) ==
    /\ At(h, "result")
    /\ \/ Fail(h)
       \/ /\ done.result = "ok"
          /\ IF HasOutput(session[h].code) THEN Goto(h, "output") /\ KeepAllElse
                                           ELSE Succeed(h)

\* Mutant: the table is read in a session of its own, as nfp_eth_read_ports does.
TableReadApart(h) ==
    /\ At(h, "output")
    /\ session' = [session EXCEPT ![h].pc = "modify", ![h].entries = buffer.data]
    /\ lock' = Nobody
    /\ UNCHANGED <<minor, command, status, done, buffer, table, left, givenUp, agreed>>

\* The answer is read.  What nfp_eth_read_ports and the sensor and identity
\* calls make of it leaves the NSP alone; a count that does not match fails.
NspOutput(h) ==
    /\ At(h, "output")
    /\ \/ Fail(h)
       \/ IF session[h].op.kind # "set" THEN Succeed(h)
          ELSE /\ session' = [session EXCEPT ![h].pc = "modify", ![h].entries = buffer.data]
               /\ KeepAllElse

\* nfp_eth_config_start: no lanes, no configuration.
PortRefused(op) == op.port \in Disabled

\* The set functions know from which minor version on the NSP heeds them.
AbiRefused(op) == minor < op.abi

\* What is already set costs no command; else the table is written back.
nfp_eth_config_commit_end(h, entries) ==
    IF entries = session[h].entries THEN Succeed(h)
    ELSE /\ session' = [session EXCEPT ![h].pc = "buffer", ![h].code = "ETH_CONTROL",
                                       ![h].entries = entries]
         /\ KeepAllElse

\* Mutant: a set function that the ABI refuses returns without cleanup_end.
SetReturnsAtOnce(h) ==
    LET op == session[h].op IN
    /\ At(h, "modify")
    /\ IF PortRefused(op) THEN Fail(h)
       ELSE IF AbiRefused(op) THEN session' = [session EXCEPT ![h] = Closed] /\ KeepAllElse
       ELSE nfp_eth_config_commit_end(h, [session[h].entries EXCEPT ![op.port] = op.value])

\* One of the set functions, from the table it has read to its commit.
nfp_eth_set(h) ==
    LET op == session[h].op IN
    /\ At(h, "modify")
    /\ IF PortRefused(op) \/ AbiRefused(op) THEN Fail(h)
       ELSE nfp_eth_config_commit_end(h, [session[h].entries EXCEPT ![op.port] = op.value])

NspUser(h) ==
    \/ NspFill(h) \/ NspCheck(h) \/ NspStart(h) \/ NspWaitStart(h) \/ NspWaitBusy(h)
    \/ NspResult(h) \/ NspOutput(h) \/ nfp_eth_set(h)

-----------------------------------------------------------------------------
(***************************************************************************)
(* The processor, from what its users rely on: BUSY is up before START goes   *)
(* down, and it works on the buffer while it is busy.                         *)
(***************************************************************************)
NspTake ==
    /\ command.start /\ ~ status.busy
    /\ command' = [start |-> FALSE, by |-> NoHost, code |-> "none"]
    /\ status' = [busy |-> TRUE, by |-> command.by, code |-> command.code]
    /\ done' = [by |-> NoHost, result |-> "none"]
    /\ UNCHANGED <<minor, lock, buffer, table, session, left, givenUp, agreed>>

NspFinish(result) ==
    /\ status.busy
    /\ status' = [busy |-> FALSE, by |-> NoHost, code |-> "none"]
    /\ done' = [by |-> status.by, result |-> result]
    /\ buffer' = IF result = "ok" /\ status.code = "ETH_RESCAN"
                 THEN [buffer EXCEPT !.data = table] ELSE buffer
    /\ table' = IF result = "ok" /\ status.code = "ETH_CONTROL"
                THEN buffer.data ELSE table
    /\ UNCHANGED <<minor, lock, command, session, left, givenUp, agreed>>

NspProcessor == NspTake \/ \E result \in {"ok", "error"} : NspFinish(result)

-----------------------------------------------------------------------------
NspTypeOK ==
    /\ minor \in Minors
    /\ lock \in {Nobody, Unowned} \cup {Interface[h] : h \in Hosts}
    /\ \A h \in Hosts : session[h].polls \in 0 .. MaxPolls

(***************************************************************************)
(* At most one user at a time is between nfp_nsp_open and nfp_nsp_close: the  *)
(* one buffer and the one command register have one writer.  Between          *)
(* interfaces the resource lock sees to it, between processes of one          *)
(* interface only the process lock.                                           *)
(***************************************************************************)
NspExclusive == \A g, h \in Hosts : InSession(g) /\ InSession(h) => g = h

(***************************************************************************)
(* The result nfp_nsp_command takes from the status register is that of the   *)
(* command it wrote, even when the one before it was given up and is still    *)
(* running.                                                                   *)
(***************************************************************************)
AnswerIsOwn == \A h \in Hosts : At(h, "result") => done.by = h

(***************************************************************************)
(* Unless a command was given up, the processor runs each command on what its *)
(* own user put into the buffer for it.                                       *)
(***************************************************************************)
BufferBelongs ==
    ~ givenUp /\ status.busy /\ HasBuffer(status.code)
        => buffer.by = status.by /\ buffer.code = status.code

(***************************************************************************)
(* Unless a command was given up, the Ethernet table is what the calls that   *)
(* returned success have set: read, change and write of the whole table by    *)
(* several users lose no update.                                              *)
(***************************************************************************)
ConfigSticks == ~ givenUp /\ (\A h \in Hosts : At(h, "idle")) => table = agreed

(***************************************************************************)
(* The lock is with a user in a session, or it was left behind: by a death in *)
(* a session, an unlock that failed or an owner that could not be written.    *)
(* So every return out of a session gives it back, and so does the next       *)
(* session of an interface that finds the word naming it (nfp_nsp.c:127-146,  *)
(* nfp_nsp_eth.c:355-421, 490-497, 611-616).                                  *)
(***************************************************************************)
LockReturned ==
    lock # Nobody => \/ lock \in left
                     \/ \E h \in Hosts : InSession(h) /\ Interface[h] = lock
==============================================================================
