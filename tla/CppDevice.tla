------------------------------ MODULE CppDevice ------------------------------
(***************************************************************************)
(* The CPP device: tools that open /dev/nfp-cpp-0 are given a socket by the   *)
(* shim (shim/interpose.c), which turns pread, pwrite and ioctl into words on *)
(* it; the main thread of the host process serves all sockets, one request    *)
(* after the other, with blocking reads (user/nfpcore/nfp_cpp_dev.c and       *)
(* nfp_cpp_dev_ops.c).                                                        *)
(*                                                                         *)
(* A stream is the sequence of what single writes put into it.  Neither side  *)
(* handles SIGPIPE: a write to a socket whose other end is closed ends the    *)
(* process.  A read from it gives 0 bytes, or fails once if the other end was *)
(* closed with data that it had not read.                                     *)
(*                                                                         *)
(* The widths of the code's integers are parameters, so that TLC meets their  *)
(* limits: IntLimit is 2^31, OffsetSpace 2^64 (in units of half a page).      *)
(***************************************************************************)
EXTENDS Integers, SequencesExt

CONSTANTS Clients,          \* processes that use the shim
          Calls,            \* calls they make
          MaxCalls,         \* bound: calls of all clients
          MAX_CONNECTIONS,  \* entries of the poll table, the listener included
          FreeBars,         \* BARs the worker has left to the server
          Boundary,         \* NFP_CPP_MEMIO_BOUNDARY
          Window,           \* what a BAR shows, a multiple of Boundary
          Heap,             \* malloc of more than this may fail
          IntLimit,         \* an int is below this
          OffsetSpace       \* an unsigned long is below this

ASSUME DeviceAssumption ==
    /\ {MaxCalls, FreeBars, Heap} \subseteq Nat
    /\ IntLimit \in Nat /\ IntLimit > 26  \* there are errors up to ETXTBSY
    /\ OffsetSpace \in Nat \ {0} /\ OffsetSpace % 2 = 0
    /\ MAX_CONNECTIONS \in Nat \ {0}
    /\ {Boundary, Window} \subseteq Nat \ {0}
    /\ Window % Boundary = 0
    /\ \A call \in Calls :
          \/ call.fn \in {"pread", "pwrite"} /\ {call.count, call.offset} \subseteq Nat
          \/ call.fn = "ioctl" /\ call.request \in Nat /\ call.mapped \in BOOLEAN

VARIABLES client,   \* the shim of each client: where its call is
          sock,     \* the socket of each client, and who has closed it
          up,       \* requests, from client to server
          down,     \* replies
          backlog,  \* clients that are connected but not accepted
          conns,    \* the clients in data->connections, the listener left out
          server,   \* the poll loop: connections to serve, and what was read
          areas,    \* data->req.list
          bars,     \* how many BARs are in use
          spoiled,  \* history: streams with something in them that nobody asks for
          calls     \* history: how many calls were made

deviceVars ==
    <<client, sock, up, down, backlog, conns, server, areas, bars, spoiled, calls>>

OP_PREAD == 1
OP_PWRITE == 2
OP_IOCTL == 3

NFP_IOCTL_CPP_AREA_REQUEST == 128
NFP_IOCTL_CPP_AREA_RELEASE == 129
NFP_IOCTL_CPP_EXPL_REQUEST == 130
NFP_IOCTL_CPP_IDENTIFICATION == 143
Served == {NFP_IOCTL_CPP_AREA_REQUEST, NFP_IOCTL_CPP_AREA_RELEASE,
           NFP_IOCTL_CPP_EXPL_REQUEST, NFP_IOCTL_CPP_IDENTIFICATION}

\* Requests that the shim passes on and the server does not know: the obsolete
\* release, events, and the firmware's load and name.
NFP_IOCTL_FIRMWARE_LAST == 142
PassedOn == {1129, 131, 132, 141, NFP_IOCTL_FIRMWARE_LAST}

PAGE_SIZE == 2  \* in units of half a page, so that an offset can be unaligned
Anywhere == OffsetSpace - 1  \* the offset ~0

NoCall == [fn |-> "none"]

DeviceInit ==
    /\ client = [c \in Clients |-> [pc |-> "new", call |-> NoCall, sent |-> 0]]
    /\ sock = [c \in Clients |-> "none"]
    /\ up = [c \in Clients |-> <<>>]
    /\ down = [c \in Clients |-> <<>>]
    /\ backlog = <<>>
    /\ conns = <<>>
    /\ server = [pc |-> "poll", todo |-> {}, got |-> <<>>]
    /\ areas = <<>>
    /\ bars = 0
    /\ spoiled = [c \in Clients |-> {}]
    /\ calls = 0

-----------------------------------------------------------------------------
(***************************************************************************)
(* The shim.                                                                *)
(***************************************************************************)
serverVars == <<conns, server, areas, bars>>

Word(n) == [kind |-> "word", v |-> n]
Struct(s) == [kind |-> "struct", v |-> s]
Payload == [kind |-> "payload", v |-> "data"]

\* ioctl returns before it has sent the request: nothing to fill in, or a
\* request it does not know.
Refused(call) ==
    /\ call.fn = "ioctl"
    /\ \/ call.request = NFP_IOCTL_CPP_IDENTIFICATION /\ call.arg = "NULL"
       \/ call.request \notin Served \cup PassedOn

\* A word cast to int.
AsInt(word) == ((word + IntLimit) % (2 * IntLimit)) - IntLimit

(***************************************************************************)
(* What pread and pwrite, pread64 and pwrite64, and ioctl write.  If argp is  *)
(* not mapped, the write of the argument fails with -1, which                 *)
(* "ret < arg_size" takes for a large number.                                 *)
(***************************************************************************)
Message(call) ==
    CASE call.fn = "pread" ->
            <<Word(OP_PREAD), Word(call.count), Word(call.offset)>>
      [] call.fn = "pwrite" ->
            <<Word(OP_PWRITE), Word(call.count), Word(call.offset)>>
               \o (IF call.count > 0 THEN <<Payload>> ELSE <<>>)
      [] Refused(call) -> <<Word(OP_IOCTL)>>
      [] OTHER ->
            <<Word(OP_IOCTL), Word(call.request)>>
               \o (IF call.request = NFP_IOCTL_FIRMWARE_LAST \/ ~ call.mapped THEN <<>>
                   ELSE <<Struct(call.arg)>>)

\* The message is not what the server waits for.
Incomplete(call) ==
    \/ Refused(call)
    \/ call.fn = "ioctl" /\ ~ call.mapped /\ call.request \in Served

\* The reply goes on after a return value that is no error.
HasBody(call, ret) ==
    \/ call.fn = "pread" /\ ret > 0
    \/ /\ call.fn = "ioctl"
       /\ call.request \in (Served \cup {NFP_IOCTL_FIRMWARE_LAST})
                               \ {NFP_IOCTL_CPP_AREA_RELEASE}

CallEnds(c, pc) ==
    client' = [client EXCEPT ![c] = [pc |-> pc, call |-> NoCall, sent |-> 0]]
Gone(c) == CallEnds(c, "gone")
Returns(c) == CallEnds(c, "idle")

\* open64 returns the socket; open, and openat with it, return 0 instead, and
\* no later call of the client finds the socket.
Open(c, open64) ==
    /\ client[c].pc = "new"
    /\ server.pc # "killed"
    /\ client' = [client EXCEPT ![c].pc = IF open64 THEN "idle" ELSE "adrift"]
    /\ sock' = [sock EXCEPT ![c] = "open"]
    /\ backlog' = Append(backlog, c)
    /\ UNCHANGED <<up, down, spoiled, calls, serverVars>>

Call(c, call) ==
    /\ client[c].pc = "idle"
    /\ calls < MaxCalls
    /\ calls' = calls + 1
    /\ client' = [client EXCEPT ![c] = [pc |-> "send", call |-> call, sent |-> 0]]
    /\ UNCHANGED <<sock, up, down, backlog, spoiled, serverVars>>

\* One write.  A refused call returns after the first; any other waits for its
\* reply after the last, also if it could not send its argument.
Send(c) ==
    LET message == Message(client[c].call)
        sent == client[c].sent + 1 IN
    /\ client[c].pc = "send"
    /\ \/ /\ sock[c] # "open"
          /\ Gone(c)
          /\ UNCHANGED <<up, spoiled>>
       \/ /\ sock[c] = "open"
          /\ up' = [up EXCEPT ![c] = Append(@, message[sent])]
          /\ IF sent < Len(message) THEN client' = [client EXCEPT ![c].sent = sent]
             ELSE IF Refused(client[c].call) THEN Returns(c)
             ELSE client' = [client EXCEPT ![c].pc = "ret"]
          /\ spoiled' = IF sent = Len(message) /\ Incomplete(client[c].call)
                        THEN [spoiled EXCEPT ![c] = @ \cup {"up"}] ELSE spoiled
    /\ UNCHANGED <<sock, down, backlog, calls, serverVars>>

\* The reply is read: the return value, and what follows it if, as an int, it is
\* no error: to pread, 2 GiB are one.  What a call makes of the rest of an older reply
\* is not followed ("astray").
Receive(c) ==
    LET reply == Head(down[c])
        taken == IF HasBody(client[c].call, reply.v) /\ AsInt(reply.v) >= 0
                 THEN 2 ELSE 1 IN
    /\ client[c].pc = "ret"
    /\ down[c] # <<>>
    /\ IF reply.part = "ret"
         THEN /\ Returns(c)
              /\ down' = [down EXCEPT ![c] = SubSeq(@, taken + 1, Len(@))]
         ELSE /\ CallEnds(c, "astray")
              /\ UNCHANGED down
    /\ UNCHANGED <<sock, up, backlog, spoiled, calls, serverVars>>

(***************************************************************************)
(* The server has closed the socket.  Nothing to read: the shim closes it too *)
(* (EIO).  A failed read, though, is -1, which "ret < sizeof(temp)" takes for *)
(* a large number: the call goes on with the word that it wrote last, as if   *)
(* that were the reply.  pread then waits for as many bytes, for ever; ioctl  *)
(* takes a request with an answer (_IOR, _IOWR) for an error, as it is        *)
(* negative, and finds the end of the stream after another one.               *)
(***************************************************************************)
ReceiveNothing(c) ==
    LET call == client[c].call IN
    /\ client[c].pc = "ret"
    /\ down[c] = <<>>
    /\ \/ /\ sock[c] = "shut"
          /\ Gone(c)
          /\ UNCHANGED sock
       \/ /\ sock[c] = "shut_unread"
          /\ sock' = [sock EXCEPT ![c] = "shut"]
          /\ CallEnds(c, CASE call.fn = "pread" /\ call.offset > 0
                                 /\ AsInt(call.offset) >= 0 -> "spins"
                            [] call.fn = "ioctl" /\ call.request \in
                                  {NFP_IOCTL_CPP_EXPL_REQUEST,
                                   NFP_IOCTL_CPP_IDENTIFICATION} -> "gone"
                            [] OTHER -> "idle")
    /\ UNCHANGED <<up, down, backlog, spoiled, calls, serverVars>>

\* The client closes its socket, or its process ends, at any point; so do pread
\* and pwrite if their buffer is not mapped.
Exit(c) ==
    /\ client[c].pc \notin {"new", "gone"}
    /\ Gone(c)
    /\ sock' = [sock EXCEPT ![c] =
                   IF @ # "open" THEN @
                   ELSE IF down[c] = <<>> THEN "ended" ELSE "ended_unread"]
    /\ UNCHANGED <<up, down, backlog, spoiled, calls, serverVars>>

-----------------------------------------------------------------------------
(***************************************************************************)
(* The poll loop.                                                           *)
(***************************************************************************)
shimVars == <<client, backlog, calls>>

Ready(c) == up[c] # <<>> \/ sock[c] # "open"

\* poll returns; a client is accepted if there is place, and the connections
\* that were ready are served in their order.
nfp_cpp_dev_poll ==
    LET ready == {c \in ToSet(conns) : Ready(c)}
        accepts == backlog # <<>> /\ Len(conns) + 1 < MAX_CONNECTIONS IN
    /\ server.pc = "poll"
    /\ ready # {} \/ accepts
    /\ conns' = IF accepts THEN Append(conns, Head(backlog)) ELSE conns
    /\ backlog' = IF accepts THEN Tail(backlog) ELSE backlog
    /\ server' = [server EXCEPT !.pc = IF ready = {} THEN "poll" ELSE "read",
                                !.todo = ready]
    /\ UNCHANGED <<client, sock, up, down, areas, bars, spoiled, calls>>

\* The first connection in the table that is still to be served.
Current == conns[SelectInSeq(conns, LAMBDA c : c \in server.todo)]

\* Mutant: the server waits for the argument of a request that has none.
ExpectedArgument(got) ==
    LET op == got[1].v IN
    CASE got = <<>> -> "word"
      [] got # <<>> /\ op \in {OP_PREAD, OP_PWRITE} /\ Len(got) < 3 -> "word"
      [] Len(got) = 3 /\ op = OP_PWRITE /\ got[2].v > 0 -> "payload"
      [] Len(got) = 1 /\ op = OP_IOCTL -> "word"
      [] Len(got) = 2 /\ op = OP_IOCTL -> "struct"
      [] OTHER -> "nothing"

\* What the handler of the current connection reads next.
Expected(got) ==
    LET op == got[1].v IN
    CASE got = <<>> -> "word"
      [] got # <<>> /\ op \in {OP_PREAD, OP_PWRITE} /\ Len(got) < 3 -> "word"
      [] Len(got) = 3 /\ op = OP_PWRITE /\ got[2].v > 0 -> "payload"
      [] Len(got) = 1 /\ op = OP_IOCTL -> "word"
      [] Len(got) = 2 /\ op = OP_IOCTL /\ got[2].v \in Served -> "struct"
      [] OTHER -> "nothing"

Reading(c) ==
    server.pc = "read" /\ c = Current /\ Expected(server.got) # "nothing"

\* The round goes on with the next connection that was ready.
Proceed ==
    server' = [pc |-> IF server.todo = {Current} THEN "poll" ELSE "read",
               todo |-> server.todo \ {Current}, got |-> <<>>]

Shut(c) ==
    IF sock[c] # "open" THEN sock[c]
    ELSE IF up[c] = <<>> THEN "shut" ELSE "shut_unread"

\* A handler that returns an error has its connection closed and removed.
Fail(c) ==
    /\ Proceed
    /\ conns' = RemoveFirst(conns, c)
    /\ sock' = [sock EXCEPT ![c] = Shut(c)]
    /\ up' = [up EXCEPT ![c] = <<>>]
    /\ UNCHANGED <<shimVars, down, spoiled>>

\* The host process ends, and all its sockets are closed.
Killed ==
    /\ server' = [server EXCEPT !.pc = "killed", !.todo = {}]
    /\ sock' = [c \in Clients |-> Shut(c)]
    /\ UNCHANGED <<shimVars, up, down, conns, spoiled>>

ReadNext(c) ==
    /\ Reading(c)
    /\ up[c] # <<>>
    /\ server' = [server EXCEPT !.got = Append(@, Head(up[c]))]
    /\ up' = [up EXCEPT ![c] = Tail(@)]
    /\ UNCHANGED <<shimVars, sock, down, conns, areas, bars, spoiled>>

\* Mutant: the sockets do not block.
ReadEndEarly(c) ==
    /\ Reading(c)
    /\ up[c] = <<>>
    /\ Expected(server.got) = "payload"
    /\ server' = [server EXCEPT !.pc = "spins"]
    /\ UNCHANGED <<shimVars, sock, up, down, conns, areas, bars, spoiled>>

(***************************************************************************)
(* The client is gone and read gives 0.  A word keeps the value that was read *)
(* before, and the first is not initialised; a structure is too short; and    *)
(* nfp_cpp_dev_write asks for the payload for ever.                           *)
(***************************************************************************)
ReadEnd(c) ==
    /\ Reading(c)
    /\ up[c] = <<>>
    /\ sock[c] = "ended"
    /\ \/ /\ Expected(server.got) = "word"
          /\ \E word \in IF server.got = <<>> THEN {Word(n) : n \in 0 .. OP_IOCTL}
                                              ELSE {Last(server.got)} :
                server' = [server EXCEPT !.got = Append(@, word)]
          /\ UNCHANGED <<shimVars, sock, up, down, conns, areas, bars, spoiled>>
       \/ /\ Expected(server.got) = "struct"
          /\ Fail(c)
          /\ UNCHANGED <<areas, bars>>
       \/ /\ Expected(server.got) = "payload"
          /\ server' = [server EXCEPT !.pc = "spins"]
          /\ UNCHANGED <<shimVars, sock, up, down, conns, areas, bars, spoiled>>

(***************************************************************************)
(* Read fails: -1 is noticed for a word and for the payload, but not where it *)
(* is compared with the size of a structure; the reply then ends the process. *)
(***************************************************************************)
ReadError(c) ==
    /\ Reading(c)
    /\ up[c] = <<>>
    /\ sock[c] = "ended_unread"
    /\ IF Expected(server.got) = "struct" THEN Killed ELSE Fail(c)
    /\ UNCHANGED <<areas, bars>>

\* malloc had nothing for the payload of nfp_cpp_dev_write, and read fails.
PayloadUnplaced(c) ==
    /\ Reading(c)
    /\ up[c] # <<>>
    /\ Expected(server.got) = "payload"
    /\ server.got[2].v > Heap
    /\ Fail(c)
    /\ UNCHANGED <<areas, bars>>

Handling(c, op) ==
    /\ server.pc = "read"
    /\ c = Current
    /\ Expected(server.got) = "nothing"
    /\ server.got[1].v = op

Ioctl(c, request) == Handling(c, OP_IOCTL) /\ server.got[2].v = request

(***************************************************************************)
(* The handler writes its reply, which ends the process if the client is      *)
(* gone.  extra: the client does not ask for all of it.  If that is a whole   *)
(* read of 2 GiB, no socket takes it, and the server stays in its write.      *)
(***************************************************************************)
Reply(c, ret, body, extra) ==
    \/ /\ sock[c] # "open"
       /\ Killed
    \/ /\ sock[c] = "open"
       /\ IF extra /\ ret > 0 THEN server' = [server EXCEPT !.pc = "writes"]
                              ELSE Proceed
       /\ down' = [down EXCEPT ![c] =
                      Append(@, [part |-> "ret", v |-> ret])
                         \o (IF body THEN <<[part |-> "body", v |-> 0]>> ELSE <<>>)]
       /\ spoiled' = [spoiled EXCEPT ![c] = IF extra THEN @ \cup {"down"} ELSE @]
       /\ UNCHANGED <<shimVars, sock, up, conns>>

\* The client that did not read on has gone.
WriteBroken(c) ==
    /\ server.pc = "writes"
    /\ c = Current
    /\ sock[c] # "open"
    /\ Killed
    /\ UNCHANGED <<areas, bars>>

-----------------------------------------------------------------------------
(***************************************************************************)
(* Reads and writes of NIC memory: one area after the other, each with a BAR  *)
(* that is given back.                                                        *)
(***************************************************************************)
EIO == 5
EINVAL == 22
ENOENT == 2
ETXTBSY == 26

\* A read is cut at the boundaries; a write computes the cut and drops it.
ReadAreas(offset, count) ==
    LET cuts == {offset, offset + count} \cup
                   {b \in offset .. offset + count : b % Boundary = 0} IN
    {area \in cuts \X cuts : /\ area[1] < area[2]
                             /\ \A b \in cuts : b <= area[1] \/ b >= area[2]}

WriteAreas(offset, count) ==
    IF count = 0 THEN {} ELSE {<<offset, offset + count>>}

\* nfp_reconfigure_bar refuses such an area, and the BAR it was to have is lost.
Crosses(area) == area[1] \div Window # (area[2] - 1) \div Window

\* The first area that fails ends the request; any access may fail.
Transfer(c, chunks, count, body) ==
    LET lost == bars < FreeBars /\ \E area \in chunks : Crosses(area)
        possible == bars < FreeBars /\ \A area \in chunks : ~ Crosses(area) IN
    /\ bars' = IF lost THEN bars + 1 ELSE bars
    /\ UNCHANGED areas
    /\ \/ /\ possible \/ chunks = {}
          /\ Reply(c, count, body, body /\ AsInt(count) < 0)
       \/ chunks # {} /\ Reply(c, -EIO, FALSE, FALSE)

\* Mutant: a read that fails is not answered.
ReadSilent(c) ==
    /\ Handling(c, OP_PREAD)
    /\ Proceed
    /\ UNCHANGED <<shimVars, sock, up, down, conns, areas, bars, spoiled>>

\* If malloc fails, what was read from the NIC is copied to NULL.
nfp_cpp_dev_read(c) ==
    LET count == server.got[2].v
        offset == server.got[3].v IN
    /\ Handling(c, OP_PREAD)
    /\ \/ Transfer(c, ReadAreas(offset, count), count, count > 0)
       \/ /\ count > Heap
          /\ bars < FreeBars
          /\ Killed
          /\ UNCHANGED <<areas, bars>>

nfp_cpp_dev_write(c) ==
    LET count == server.got[2].v
        offset == server.got[3].v IN
    /\ Handling(c, OP_PWRITE)
    /\ Transfer(c, WriteAreas(offset, count), count, FALSE)

-----------------------------------------------------------------------------
\* The fields of struct nfp_cpp_area_request that matter here; where: what a BAR
\* can show of it.
AreaRequest ==
    [offset : 0 .. OffsetSpace - 1, size : 0 .. OffsetSpace - 1,
     where : {"window", "crosses", "unknown"}]

\* offset + size, as an unsigned long.
AreaEnd(area) ==
    LET end == area.offset + area.size IN
    IF end < OffsetSpace THEN end ELSE end - OffsetSpace

\* Mutant: only areas that begin before the new one are looked at.
RangeCheckBefore(req) ==
    \A i \in DOMAIN areas :
        ~ (req.offset < AreaEnd(areas[i]) /\ req.offset > areas[i].offset)

nfp_dev_cpp_range_check(req) ==
    \A i \in DOMAIN areas :
        ~ (req.offset < AreaEnd(areas[i]) /\ AreaEnd(req) > areas[i].offset)

\* The offset that is granted: for "anywhere" 0, or else the end of the first
\* area after which there is place (of the last one, if there is none).
Placed(req) ==
    LET at(o) == [req EXCEPT !.offset = o]
        ends == [i \in 0 .. Len(areas) |-> IF i = 0 THEN 0 ELSE AreaEnd(areas[i])]
        fits == {i \in DOMAIN ends : nfp_dev_cpp_range_check(at(ends[i]))} IN
    IF req.offset # Anywhere THEN req
    ELSE at(ends[IF fits = {} THEN Len(areas)
                 ELSE CHOOSE i \in fits : \A j \in fits : i <= j])

(***************************************************************************)
(* A page, or nothing, at a page boundary that no other area covers.  A BAR   *)
(* is taken for the area; if it cannot show the area, the BAR is lost.  The   *)
(* structure is sent back after an error too.                                 *)
(***************************************************************************)
ioctl_area_request(c) ==
    LET req == server.got[3].v
        placed == Placed(req)
        valid == /\ req \in AreaRequest /\ req.size \in {0, PAGE_SIZE}
                 /\ req.offset # Anywhere => req.offset % PAGE_SIZE = 0
        clear == nfp_dev_cpp_range_check(placed)
        known == valid /\ clear /\ bars < FreeBars /\ req.where # "unknown" IN
    /\ Ioctl(c, NFP_IOCTL_CPP_AREA_REQUEST)
    /\ bars' = IF known THEN bars + 1 ELSE bars
    /\ IF known /\ req.where = "window"
         THEN /\ areas' = Append(areas, placed)
              /\ Reply(c, 0, TRUE, FALSE)
         ELSE /\ UNCHANGED areas
              /\ Reply(c, IF valid /\ ~ clear THEN -ETXTBSY ELSE -EINVAL, TRUE, TRUE)

\* Mutant: the structure is sent back as for a request.
ReleaseEchoes(c) ==
    /\ Ioctl(c, NFP_IOCTL_CPP_AREA_RELEASE)
    /\ Reply(c, -ENOENT, TRUE, FALSE)
    /\ UNCHANGED <<areas, bars>>

\* The first area with this offset goes, whoever asked for it; its BAR stays.
ioctl_area_release(c) ==
    LET same == {i \in DOMAIN areas : areas[i].offset = server.got[3].v.offset} IN
    /\ Ioctl(c, NFP_IOCTL_CPP_AREA_RELEASE)
    /\ \/ /\ same = {}
          /\ UNCHANGED areas
          /\ Reply(c, -ENOENT, FALSE, FALSE)
       \/ /\ \E i \in same : /\ \A j \in same : i <= j
                            /\ areas' = RemoveAt(areas, i)
          /\ Reply(c, 0, FALSE, FALSE)
    /\ UNCHANGED bars

\* Explicit transactions are always refused, with the structure sent back.
ioctl_expl_request(c) ==
    /\ Ioctl(c, NFP_IOCTL_CPP_EXPL_REQUEST)
    /\ Reply(c, -EINVAL, TRUE, TRUE)
    /\ UNCHANGED <<areas, bars>>

ioctl_cpp_identification(c) ==
    /\ Ioctl(c, NFP_IOCTL_CPP_IDENTIFICATION)
    /\ Reply(c, 20, TRUE, FALSE)
    /\ UNCHANGED <<areas, bars>>

\* Any other request, or no operation at all.
InvalidRequest(c) ==
    /\ \/ Handling(c, OP_IOCTL) /\ server.got[2].v \notin Served
       \/ Handling(c, 0)
    /\ Fail(c)
    /\ UNCHANGED <<areas, bars>>

-----------------------------------------------------------------------------
ShimStep(c) == Send(c) \/ Receive(c) \/ ReceiveNothing(c)

ServerStep ==
    \/ nfp_cpp_dev_poll
    \/ \E c \in Clients :
          \/ ReadNext(c) \/ ReadEnd(c) \/ ReadError(c)
          \/ PayloadUnplaced(c) \/ WriteBroken(c)
          \/ nfp_cpp_dev_read(c) \/ nfp_cpp_dev_write(c)
          \/ ioctl_area_request(c) \/ ioctl_area_release(c)
          \/ ioctl_expl_request(c) \/ ioctl_cpp_identification(c)
          \/ InvalidRequest(c)

DeviceNext ==
    \/ ServerStep
    \/ \E c \in Clients :
          \/ \E open64 \in BOOLEAN : Open(c, open64)
          \/ \E call \in Calls : Call(c, call)
          \/ ShimStep(c)
          \/ Exit(c)

\* The server runs, and so does a client in the middle of a call.
DeviceSpec ==
    /\ DeviceInit /\ [][DeviceNext]_deviceVars
    /\ WF_deviceVars(ServerStep)
    /\ \A c \in Clients : WF_deviceVars(ShimStep(c))

-----------------------------------------------------------------------------
\* Shapes, and the limits of the table and of the BARs: nfp_cpp_dev_poll stores
\* no connection behind the end of data->connections.
DeviceTypeOK ==
    /\ \A c \in Clients :
          /\ client[c].pc \in {"new", "idle", "adrift", "send", "ret", "astray",
                               "spins", "gone"}
          /\ client[c].call \in Calls \cup {NoCall}
          /\ sock[c] \in {"none", "open", "ended", "ended_unread", "shut", "shut_unread"}
    /\ server.pc \in {"poll", "read", "writes", "spins", "killed"}
    /\ server.pc = "read" => server.todo # {}
    /\ Len(conns) < MAX_CONNECTIONS
    /\ ToSet(conns) \cap ToSet(backlog) = {}
    /\ bars \in 0 .. FreeBars

(***************************************************************************)
(* The two sides stay in step.  Until ioctl returns with its first word sent  *)
(* (interpose.c:443 and :491) or fails to send its argument (:501), what the  *)
(* server has read is the beginning of the call the client is in, and what it *)
(* reads next has the size it expects.  Until the server has sent a structure *)
(* after an error (ioctl_area_request, ioctl_expl_request) or a read of 2 GiB *)
(* (nfp_cpp_dev_read), the reply a client finds is the whole reply to its     *)
(* call, and a call that has returned leaves nothing behind.                  *)
(***************************************************************************)
StreamsInStep ==
    \A c \in Clients :
        /\ Reading(c) /\ sock[c] = "open" =>
              /\ "up" \notin spoiled[c] /\ client[c].pc # "astray" =>
                    /\ client[c].pc \in {"send", "ret"}
                    /\ IsPrefix(server.got \o up[c], Message(client[c].call))
              /\ up[c] # <<>> => Head(up[c]).kind = Expected(server.got)
        /\ "down" \notin spoiled[c] =>
              IF client[c].pc = "ret" /\ down[c] # <<>>
                THEN LET ret == Head(down[c]) IN
                     /\ ret.part = "ret"
                     /\ Len(down[c]) =
                           (IF AsInt(ret.v) >= 0 /\ HasBody(client[c].call, ret.v)
                              THEN 2 ELSE 1)
                ELSE client[c].pc \in {"idle", "send", "spins"} => down[c] = <<>>

Overlap(a, b) == a.offset < b.offset + b.size /\ b.offset < a.offset + a.size

AtTop(a) == a.offset + a.size = OffsetSpace

(***************************************************************************)
(* Whatever clients request and release, in any order, the areas that are     *)
(* listed do not overlap in the offsets meant for mmap ("Look for colliding   *)
(* offsets", nfp_cpp_dev_ops.c:96 and 182), except that the last page can be   *)
(* granted any number of times: its end is 0 to nfp_dev_cpp_range_check.       *)
(***************************************************************************)
AreasDisjoint ==
    \A i, j \in DOMAIN areas :
        i # j /\ Overlap(areas[i], areas[j]) => AtTop(areas[i]) /\ AtTop(areas[j])

\* A read that malloc has no memory for, or whose length is negative as an int.
Oversized(got) ==
    /\ Len(got) > 2
    /\ got[1].v = OP_PREAD
    /\ got[2].v > Heap \/ AsInt(got[2].v) < 0

Stopped == server.pc \in {"writes", "spins", "killed"}

(***************************************************************************)
(* The server spins, hangs in a write or is ended by a signal only after some *)
(* client has closed its end, or on a read that is too large (malloc is not   *)
(* checked at nfp_cpp_dev_ops.c:422, and the shim takes 2 GiB for an error):  *)
(* no other call, known or not, stops it.                                     *)
(***************************************************************************)
StopsOnlyAfterEnd ==
    Stopped => \/ \E c \in Clients : sock[c] \in {"ended", "ended_unread"}
               \/ Oversized(server.got)

(***************************************************************************)
(* The loop that serves everyone waits in the middle of a request for the     *)
(* rest of it only while the client is sending it, or if ioctl returned with  *)
(* its first word sent or failed to send its argument.                        *)
(***************************************************************************)
WaitsOnlyForSender ==
    \A c \in Clients :
        Reading(c) /\ server.got # <<>> /\ up[c] = <<>> /\ sock[c] = "open" =>
            client[c].pc = "send" \/ "up" \in spoiled[c]

(***************************************************************************)
(* A call of a client returns, or its client is waiting for a place in the    *)
(* table, or the server has stopped, or an ioctl did not send all that the    *)
(* server waits for.  The client's own earlier calls must not have left part  *)
(* of a reply.                                                                *)
(***************************************************************************)
CallsReturn ==
    \A c \in Clients :
        client[c].pc \in {"send", "ret"} ~>
            \/ client[c].pc \notin {"send", "ret", "spins"}
            \/ c \in ToSet(backlog) /\ Len(conns) + 1 = MAX_CONNECTIONS
            \/ Stopped
            \/ \E d \in Clients : "up" \in spoiled[d]
==============================================================================
