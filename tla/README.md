# Verification of the NFP UDP echo server

The repository is a UDP echo server for Netronome SmartNICs. Frames that arrive
at the NIC are filtered and rewritten by a *receive* microengine, moved by DMA
into a ring in host memory, copied by a host thread into a second ring, fetched
from there by a *transmit* microengine and sent. Besides this data path there is
a user-space port of Netronome's CPP driver library, through which the host
reaches the NIC's memory, and a server that lets unmodified BSP tools use it.

This directory holds TLA+ models of that system, TLC configurations that check
them on small instances, and TLAPS proofs. `PROJECT.json` maps every definition
to the source lines it models.

## Inventory

| Component | Source | State | Operations | What makes it correct |
|---|---|---|---|---|
| Ring library | `user/lib/ring_buffer.*` | entry size, capacity, head, tail (byte offsets) | empty, size, full, push, pop | size is exact; no push overwrites an entry |
| Shared device state | `devcfg.h` | `device_meta_t` in CLS: sizes, start signal, four indices; two rings in host memory | read and written by all parties | each index has one writer and tells the truth |
| Packet operations | `firmware/rxops.c` | packet header, NBI metadata | receive, filter, rewrite, drop | only well-formed packets pass; source and destination swapped |
| Receive engine, single context | `firmware/rx.c` | local tail, packet in hand | wait for start; receive, wait for room, DMA, publish | never laps the worker; publishes whole packets |
| Transmit engine, single context | `firmware/tx.c`, `txops.c` | local head, packet, buffer credits | wait for start; allocate, wait for data, DMA, publish, send | sends what was handed over, once, in order; loses no buffer |
| Receive engine, multi context | `firmware/multi_rx.c` | shared `shadow_tail`, `init`; per context as above | reserve at `shadow_tail`, DMA, publish in turn | distinct entries, ordered publication, no overrun |
| Transmit engine, multi context | `firmware/multi_tx.c` | shared `shadow_head`, `init` | claim at `shadow_head`, DMA, publish in turn, send | as above, and no claim of an empty ring |
| DMA | `firmware/dma.c` | outstanding transfers, completion signals | one or two DMAs per packet, wait for all | nothing is published before all parts are in |
| Host worker | `user/app_main.c` | its two `ringbuffer_t` | configure, start, poll, copy, hand over, give back | decides safely on values that may be old |
| CPP core, BARs | `user/nfpcore/nfp_cppcore.c`, `nfp_cpp_pcie_ops.c` | areas, three BARs and who uses them | alloc, acquire, map, read, write, release, free | a BAR serves one area at a time and is given back; an access reaches what was asked for |
| Addressing | `nfp-common/nfp_cppat.h`, `nfp_target.h` | the IMB table | encode, decode, clear the island; widths of commands | an address keeps everything but its island |
| Mutex, resources | `nfp_mutex.c`, `nfp_resource.c` | lock words in NIC memory; per process a cache of handles with use count and depth | alloc, free, lock, trylock, unlock; acquire, release | exclusion through nesting, failures and restarts; what was taken is given back on every path; retry until timeout |
| CPP device server, shim | `nfp_cpp_dev*.c`, `shim/interpose.c` | connections, the list of areas, byte streams | open, close, pread, pwrite, ioctl over a socket | both ends agree on the request that is on the stream; one client does not stop the others |
| NSP | `nfp_nsp*.c` | command, status and buffer registers; the port table | open, command, wait, read tables, write tables, close | an answer belongs to the command it answers; no update is lost; the lock is returned |
| Memory zones | `user/lib/memzone.c` | table of handles, files of huge pages | reserve, free | zones do not overlap; a new process gets the same memory |
| PCI driver | `user/lib/driver.c` | the device and its mappings | scan, map, probe | a device that is incomplete is not used |
| Tables | `nfp_rtsym.c`, `nfp_hwinfo.c`, `nfp_mip.c`, `nffw.c` | parsed tables | read at start, with retries | the symbol that is mapped is the one that was asked for |

How they interact: the engines and the worker share only `device_meta_t` and the
two rings. The receive engine is the only writer of `rx_tail`, the worker of
`rx_head` and `tx_tail`, the transmit engine of `tx_head` (the worker also clears
all four before it raises the start signal). Nobody locks anything: every party
polls a word of another and then acts on the value it saw.

At its start the host process scans for the card, waits for the process lock, reads
the hardware table and, through the service processor (NSP), the ports, reserves the
two zones and creates its threads; its main thread then serves the CPP device. Worker
and server use one `struct nfp_cpp`: one list of areas, three BARs, one cache of
mutexes, no lock. A tool with the shim preloaded talks to the server over a Unix
socket, a write per word. The NSP is shared by everyone who can reach the NIC.

The mutexes are shared by all interfaces of the NIC: the host process, the NIC's
own processors, a second host function. A process that dies leaves its lock words
as they were; its successor on the same interface inherits them.

What is hard here: all decisions are made on values that may be old when they
are used; a packet moves in two DMAs that complete in any order; with several
contexts per engine, a context gives up the engine between reading an index and
using it; a ring of bytes is full, empty and wrapping at its boundaries; taking a
mutex is two accesses, either of which may fail, with a death possible between them; a
command to the NSP that is given up may still run; a client of the device server may end
in the middle of a request, and the server reads blocking.
`PROJECT.json` lists these hazards line by line.

## Modules

Data path, shared parts:

- `RingOps`: the ring arithmetic as operators (`Advance`, `ringbuffer_*`).
- `RingBuffer`: one ring whose user pushes and pops as `udp_worker` does; what each shared ring of
  `EchoPath` implements.
- `DeviceMeta`: `cfg` (the `device_meta_t`), the two host memories `rx_mem` and
  `tx_mem` as functions from byte offsets, storing and fetching parts of a
  packet, and how a packet splits into DMAs (`DmaParts`).
- `PacketOps`: `filter_packets` and `modify_packet_header`.
- `HostWorker`: `configure_device` and `udp_worker`, a step per device access.

Single context (`app_sc`):

- `RxSingle`, `TxSingle`: the two engines, a step per shared access; `rx.pc` and
  `tx.pc` are the place in `rx_process` and `tx_process`. A polling loop is a guard on the polled word: an iteration that finds nothing
  changes nothing.
- `EchoPath`: engines and worker composed; the properties.
- `EchoService`: what the application promises, refined by `EchoPath`.

Multi context (`app_mc`):

- `Contexts`: how the contexts of an engine take turns.
- `RxMulti`, `TxMulti`: the engines with `shadow_tail` and `shadow_head` in local
  memory (`rxl`, `txl`) and a record per context (`rxc`, `txc`). A CLS read is two
  steps, because the context is swapped out between the word being read and the
  context running again with it.
- `EchoMulti`: the composition; `UnorderedEcho`: what it promises. Packets that
  different contexts hold may overtake one another on the way to the NBI, since
  `send_packet` follows the publication of the head.

Mutexes of the NIC:

- `NfpMutex`: the lock words (`word`, owner and mark), each interface's cache of handles
  (`handle`), the call of `nfp_mutex.c` it is in (`op`), a step per access to NIC memory
  that others can see. `held` is a history: what the callers believe they hold.
- `NfpResource` extends it: `user` is the place in `nfp_resource_acquire`,
  `nfp_resource_try_acquire` or `nfp_resource_release`. Its calls of `nfp_mutex.c` are
  the actions of `NfpMutex`.

The CPP library:

- `CppAddress`: `nfp_cppat.h`. An address is the set of its upper bits (those above the
  window of a BAR) and a number below; encode, decode and clear are set operations.
- `CppTarget`: `nfp_target.h`, the widths a target pushes and pulls for a command.
- `CppAreas`: the BARs (`bar`: flag and window), the call each thread is in (`call`) and
  the areas it keeps (`kept`). `nfp_alloc_bar` reads one flag per step (`ScanBar`) and sets
  it in another (`TakeBar`). `leaked` is a history of BARs that no area has any more.

The CPP device:

- `CppDevice`: shim and server. `up` and `down` are the two directions of a client's
  socket, as the sequence of single writes; `client` is the place in a call of the shim;
  `server` the set of connections that `poll` reported and that are still to be served, in
  the order of the table (`Current` is the first), and what has been read of the current
  request. Every read, every handler and every write of the shim is a step. `spoiled`
  records which stream has something in it that nobody asks for, or lacks what the server
  waits for. The widths of `int` and `unsigned long`, and the memory `malloc` is sure to have, are
  constants.

Start, restart and the NSP:

- `Nsp`: the registers, the buffer, the port table and the sessions of all users. A step
  per access of `nfp_nsp_command` and `nfp_nsp_command_buf`; the processor itself is external,
  and starts and finishes commands when it likes, in error or not. `left`, `agreed` and
  `givenUp` are histories.
- `PciDriver`, `FirmwareTables`: what the scan makes of sysfs, and what the firmware entry,
  the MIP and the symbol table make of the NIC's memory, as operators.
- `Startup` extends these three: `main` is the place of each process in `main` and `pci_probe`,
  `worker` that of its worker until the device runs; `zones` and `files` are the memory
  zones, `meta` what the device was told.

Proofs: `RingLemmas` (division with remainder), `RingBufferProofs`, `EchoPathProofs`,
`EchoMultiProofs`, `NfpMutexProofs`, `CppAreasProofs`, `CppDeviceProofs`, `StartupProofs`.
MC modules `MCEchoPath`, `MCEchoMulti`, `MCCppAreas`, `MCCppDevice` and `MCStartup` give frames,
tables, requests, calls, firmware and machines for TLC. Operators whose comment begins "Mutant" are
not part of the specification: each changes one definition the way a plausible
mistake in the code would, and shows that the property it is paired with in
`PROJECT.json` notices.

### Abstractions

- A byte of a packet is the pair of the packet and the byte's position, so a torn
  or overwritten entry is visible. The rewritten header stands for the header;
  the number of the arrival stands for the payload.
- `sent`, `admitted`, `echoed`, `claimed` are histories: they record what happened
  and guard nothing. A packet is *admitted* when the receive engine finds room for
  it; before that the NIC may drop frames at will.
- The CTM credits and the MU buffers are one pool of `TxBuffers` packets.
- The ingress buffers, and the NBI's sequencer that `drop_packet` informs, are not
  modelled: a received packet's buffers are held exactly while a packet is in
  hand. Egress (`NbiTransmit`) is external.
- The device writes of the worker are posted, its reads are not, and PCIe lets no
  read pass a write: a write that arrives late is the same as one made late. The
  start signal is 64 bits written in two halves, of which only the low one is not
  zero, so it is one write.
- `configure_device` up to its barrier is one step: the engines look at nothing
  before the start signal.
- An interface stands for its process: `nfp_acquire_process_lock` lets one process
  at a time use it, and one thread of that process (the worker) uses mutexes. The
  statistics thread would be a second one; it exists only under `PKT_STATS`.
- A mutex's key never changes, so its read is part of the next access, and a key
  that does not match is one of the failures of an access. A failed access has no
  effect. `nfp_cpp_mutex_lock` decides by `errno` whether to try again, and a failed
  access need not set it: after a failure it may or may not try again.
- Resource names are their own keys; the table does not change after boot.
- One entry of the IMB table stands for the entries of all targets. An access changes nothing
  in `CppAreas`; what it may do is `AccessError`. Configuring a window is part of `TakeBar`: it
  touches only the BAR that was taken.
- On a stream, what one `write` sends is read by one `read` of the same size: the words and
  structures are small, and a Unix socket delivers them whole. The payload of a `pwrite` is
  one item. An argument that the shim cannot read is a call that is not `mapped`. `Boundary`
  and `Window` scale 1 MiB and the 16 MiB of a BAR down to units of half
  a page. An unknown value of the operation word at the end of a stream is one of the
  operations or 0. What a client does with the rest of an older reply is not followed.
- An offset of the device carries the CPP identity in its upper bits; in `CppDevice` a request
  says directly whether its area lies within a window, crosses one or is unknown.
- A failed access may happen at any step of `Nsp` and ends the session, and the unlock at its
  end may fail too. The port table has one value per port; magic and major version match.
- A busy NSP resource is given up at once (`resource_busy`), so it is no step. Taking it is one
  step in `Nsp`, and `OwnerUnwritten` the way in which that goes wrong half-way; the accesses
  it is made of are in `NfpResource`.
- `Startup` takes the initialisation of `nfp6000_init` after the process lock, of the hardware
  table and of the zones each as one step: nobody else looks at what they write. The zones
  are shared mappings of files that are never removed, so a zone's number stands for its
  memory and I/O address.

## Runs

| Run | Result | What it shows |
|---|---|---|
| `echo_path` | pass | The single-context path: types, `NoOverrun`, `EntriesIntact`, `ConfiguredBeforeUse`; refinement of `RingBuffer` by each of the shared rings (`RingsSafe`); refinement of `EchoService`, both its safety (`EchoSafety`) and that every admitted packet is eventually sent back (`EchoLiveness`). |
| `echo_multi` | pass | The multi-context path if contexts run again in the order of their CLS reads: `EntriesIntact`, `OrderedPublication`, `ReserveOnlyFree`, `ClaimOnlyHanded`; none works before context 0 has loaded the sizes (`ConfiguredBeforeUse`), no packet buffer is lost or reused (`BuffersConserved`); refinement of `UnorderedEcho` (`EchoSafety`), and contexts that publish in turn never wait for ever (`EchoLiveness`). |
| `multi_reserve` | violation | With contexts running again in any order, a stale head lets a context reserve an entry of a full ring. |
| `resource` | pass | Three interfaces, no failures: outside the calls exactly the owned resource's mutex is locked (`LocksReturned`), a locked word always has an owner or gets one (`HeldOrRecoverable`), and the table's mutex always comes free (`TableComesFree`), although owners may keep their resources for ever. |
| `resource_failures` | pass | With failures and deaths: a resource has one owner (`OneOwner`), the table is searched by one process at a time (`TableGuarded`), no path leaks a handle (`HandlesReturned`), no mutex has two holders (`Exclusion`), and nothing but the holder's own unlock changes the word of a held mutex (`UndisturbedHold`). |
| `resource_busy` | violation | A busy resource is never tried again. |
| `cpp_areas` | pass | One thread in the library: one area per BAR (`OneAreaPerBar`), every BAR in use has its area or was lost in one of two known ways (`BarsAccounted`), an access that is not refused reaches target, command, island and words of the request (`AccessReachesRequest`), and translation writes nothing but the island (`TranslationKeepsRest`). |
| `areas_shared` | violation | Two threads, as in the program: two areas share a BAR. |
| `cpp_device` | pass | Two clients and the server: the streams stay in step but for the calls named in `StreamsInStep`; the server stops only after a client has closed its end or on an oversized read (`StopsOnlyAfterEnd`), and waits inside a request only for a client that is sending, or whose `ioctl` did not send all of it (`WaitsOnlyForSender`). Calls return, unless the server was stopped or an `ioctl` left it waiting (`CallsReturn`). |
| `device_areas` | pass | Areas requested and released in any order, anywhere and at named offsets: those granted do not overlap, but for the last page (`AreasDisjoint`). |
| `startup` | pass | Two processes and another user of the NSP, with deaths: one session at a time (`NspExclusive`), every result is taken by the one whose command it answers (`AnswerIsOwn`), commands run on their own buffer (`BufferBelongs`); the device is started with two zones that are there (`ConfiguredZones`), which stay when another process takes over (`BuffersStay`); a start ends, serving or not (`StartupEnds`). |
| `setters` | pass | Two users on interfaces of their own set ports, with failing accesses and deaths: no update of the port table is lost (`ConfigSticks`), and no return out of a session skips the unlock (`LockReturned`). |

The type invariant of `EchoPath` is checked in its run and proved, that of `EchoMulti` is
proved (in whatever order contexts run again), those of the ring, the mutexes and the
resources are part of their proofs' invariants; in the other modules the type invariant
documents the state and no run asks for it alone.
`BuffersConserved` of the single path is a theorem only; `echo_multi` checks the one of the multi-context path.

Bounds. `echo_path` uses packets of three bytes and three entries per ring, with
DMA windows of one and two bytes: both directions split a packet in two, at
different bytes, two packets fill a ring, and five frames wrap both rings. Frames
include one rejected by each clause of the filter. `echo_multi` uses one-byte
packets (the split is the subject of `echo_path`), two contexts per engine and
three entries, so both contexts can hold an entry of a ring that then is full. The
run with contexts in any order, `multi_reserve`, uses two entries, as many as contexts (the
default configuration is at the same boundary: eight contexts, 512 / 64 = 8 entries). That
`ConfiguredBeforeUse` and `BuffersConserved` do not depend on the order is proved.
`MaxFrames` bounds the arrivals; nothing else is bounded in the path models. That more contexts
and larger rings add nothing to the safety properties is what the theorems show.

The resource runs use `MaxUsage = 2` handles of one mutex per process, which tell the last
free from an earlier one; three interfaces let one hold a mutex while two contend for
it; `resource_failures` has two interfaces, two resources in the table and one name
that is not in it. `MAX_TRIES = 2` stands for 1000 and is never reached, which is what
`resource_busy` shows. `Failures` says whether accesses fail and processes die. Nested locks,
which `nfp_resource.c` does not use, are covered by the theorem on mutexes.

`cpp_areas` has every mode and width of the IMB table, and requests for memory by
islands of both kinds, an atomic operation (a fixed window), a target with an entry of
its own, areas that cross a window or the end of the bus, and commands a target lacks;
three BARs run out because lost ones stay lost. `areas_shared` needs two threads and two
requests.

`cpp_device` has two clients and two calls in all, out of eleven: one client
can leave its stream out of step, or end, while another's call is in progress. Its integers
are small so that their limits are met: `IntLimit = 27` stands for 2^31 (it must be
above the error numbers), `Heap = 26` for what `malloc` is sure to give, `OffsetSpace = 8` for
2^64, four pages. Reads and writes of 27 exceed the first two. A table that is full needs more
clients than this and stays unexplored, as `MAX_CONNECTIONS = 3` holds both. `device_areas` has one client
that makes five calls, enough to fill the four pages, or to release one in the middle and to
have it granted again, anywhere or by name.

`startup` lets each of the two processes start once, so the second takes over from
the first; one of all users dies, at any step; `MaxPolls = 1` (1001 in the code) distinguishes
an answer in time, a late one and a command that is given up; `MaxFetches = 1` stands for
201. The other user sets a port; the sensor, identity, load and plain commands are in the
model and take the same steps, but not in this instance. `setters` has no process of this
program but two users that differ in their interface, three ports (one without lanes), and
sets of one port to two values, of another, and one that the ABI refuses: an update can be
undone by the other's table read before it, if the lock allows that.

Deadlock is not checked in the path models: the worker returns when the device
symbol cannot be mapped, and after `MaxFrames` arrivals everybody waits. Nor is it in
the runs of `CppDevice` and `Startup`, where calls and starts are bounded and everyone may be gone.

### What the violations mean

`multi_reserve`: the ring is full and two contexts poll. Context A reads
`rx_head`; the worker gives an entry back; context B reads the newer `rx_head`, runs first
and reserves the entry, which moves `shadow_tail`. A runs with the old head: the
moved `shadow_tail` plus one entry is not the old head any more, so A reserves
too. The entry it takes is the one that is kept free to tell a full ring from an empty one, so
once A has published, the ring reads as empty; the next reservations overwrite packets the
worker has not copied. The reads are served in order; what matters is the order in which
the contexts run again. The arbiter goes round the contexts, so A, whose data
arrives just after its turn has passed, runs after B if B's data arrives while another
context is still running.

The transmit engine has the mirror image (`multi_tx.c:42`). Context A reads
`tx_tail` of an empty ring; the worker hands an entry over; B reads the newer `tx_tail`,
runs first and claims it. A's comparison of the moved `shadow_head` with the old tail misses,
and A claims, fetches and sends what an earlier packet left in the next entry. `MCMultiReserve`
with `ClaimOnlyHanded` in place of its invariant shows it. Under `InOrder = TRUE`
`ReserveOnlyFree` and `ClaimOnlyHanded` hold, so the order is the only cause of both.

`resource_busy`: `nfp_resource_acquire` tries again only after `-EBUSY`, but gets `-1`
from `nfp_cpp_mutex_trylock` by way of `nfp_resource_try_acquire`. It gives up on the
first attempt, and the timeout with its message is never reached.

`areas_shared`: `nfp_alloc_bar` reads `bar->lock` and sets it with nothing in between that
keeps another thread out. The worker reads the symbol table and maps its symbol while
the main thread already serves clients; the second to configure the BAR turns the window
away under the first, whose reads and writes then go to another part of the NIC.

### Other behaviour met while modelling

These are in the models, or follow from the source; no run is dedicated to them.

- `ringbuffer_full` takes `tail + entry_size` modulo the capacity (`ring_buffer.h:37`),
  `ringbuffer_push` restarts at 0 as soon as the end is reached. If the capacity is no multiple
  of the entry size, a push goes through on a full ring, although `ring_buffer.c:5` says
  "Crash if buffer is full!". Nothing checks the two configuration parameters against each
  other.
- If the write of the owner into a mutex that was just locked fails, or its process dies before
  it (`nfp_mutex.c:406`), the word names nobody: unlocking is refused to everyone and nobody
  finds it "Already locked by us". The comment at 401-404 calls the write "not strictly
  necessary". `resource` shows that without failures this does not happen.
- A command that was given up may still run when the next user has filled the buffer: then it
  works on that user's data. `BufferBelongs` and `ConfigSticks` say so by their condition
  `~ givenUp`; `AnswerIsOwn` needs no such condition.
- `nfp_resource_release` does not look at what `nfp_cpp_mutex_unlock` returns (`nfp_resource.c:215`):
  if the unlock fails, the NSP stays locked for every other interface until its own takes it
  again, and for good if the word names nobody. `LockReturned` counts these locks as left behind.
- `ioctl` of the shim sends the operation before it looks at the request: a request it
  does not know, or a NULL pointer for the identification, leaves a word on the stream, and the
  server waits there for the rest, serving nobody. A failed area or explicit request is
  answered with a structure that the shim does not read.
- Comparisons such as `ret < sizeof(temp)` are unsigned and do not notice -1, in the shim and
  in the server. An `ioctl` whose argument is not mapped is one case (`interpose.c:502`): the
  shim waits for the reply, the server for the argument.
- The shim looks for an error in the lower 32 bits of the reply, as an `int` (`interpose.c:206`).
  A `pread` of 2 GiB that the server could carry out returns an error and leaves its data on
  the stream, while the server, which no socket buffer can relieve of it, waits in its write.
- Neither `malloc` of the server's read and write is checked: what was read from the NIC is copied
  to NULL and ends the process (`nfp_cpp_dev_ops.c:422`, `:467`), while a write only fails, as
  `read` refuses the address.
- At the end of a stream the server takes the value of an uninitialised word for an operation,
  and a reply to a client that is gone raises SIGPIPE, which nothing handles: an ordinary close
  can end the host process. A client that ends after the header of a `pwrite` makes the
  server read for ever.
- `nfp_cpp_dev_write` computes the cut at the boundary and then overwrites it: a write across a
  window fails, and the BAR that was taken for it stays taken.
- The server releases by offset alone (`nfp_ioctl.h:37` names all fields), from a list that all
  clients share and that a close leaves as it is; an area it frees keeps its BAR.
- An area's end, offset plus size, is an `unsigned long` (`nfp_cpp_dev_ops.c:98`). The end of the
  last page of the offsets is 0, so that nothing begins before it and it begins before nothing: the
  range check passes any second area there, and one page is granted as often as it is
  requested. `AreasDisjoint` says that this page is the only one.
- `open` of the shim returns 0 instead of the socket (`interpose.c:87`); `open64` does not.
- When the symbol table cannot be read, the worker ends without a word and the process goes on
  as a device server.
- In mode 3 the address of an MU target that is given with the lower locality bit keeps it
  and, unless it is for an EMU, is no direct address afterwards: the island that was written
  into it is read as part of the offset. `AccessReachesRequest` and `TranslationKeepsRest` leave this
  case out.
- An island is a number of eight bits (`nfp_resid.h:138`), the field in an address has six. In
  mode 0, for direct MU addresses and for CTXPB the upper two are cut off without an error
  (`nfp_cppat.h:106`, `:384`), and the access goes to another island.

## Fairness

`FairSpec` assumes that each engine (each context, in `EchoMulti`) takes its next
step if it stays possible, that the worker thread is scheduled, and that the NBI
drains. An engine runs nothing but its own loop, the worker thread polls for
ever, and the NBI needs nothing from the program. Weak fairness is enough:
no step of one party is disabled by another for good. Nothing is assumed
about the arrival of frames.

`FairResourceSpec` assumes that a process inside a call of `nfp_resource.c` keeps
running; it assumes nothing about when it calls, or whether it ever gives a resource
back. It does not promise that a process waiting for the table's mutex gets it:
`nfp_cpp_mutex_lock` polls, and others may always be quicker.

`DeviceSpec` assumes that the server's thread runs and that a client in the middle of a call
does; no call has to be made and no client has to end. `StartupSpec` assumes that the
threads of a started process run, and nothing of the NSP, of the other users or of the
process lock: every wait for the NSP is bounded by its count of polls. Waiting for the process
lock is not bounded, so `StartupEnds` begins behind it.

## Proofs

All theorems hold for every value of the constants that satisfies the assumptions.

The assumptions say only what a configuration is: sizes are positive and a packet fits its
ring, the contexts of an engine are finite in number, interfaces of different users differ, a
symbol table has natural sizes, and the calls and operations that the environment may make
are records of the forms the code knows. What a theorem needs beyond that is in its own
hypotheses: `WholeSlots` and `Divides` (a ring is a whole number of entries, at least two),
`InOrder`, `~ Failures`, `SingleThread`. Each of these is necessary, as said below.

The ring library (`RingBufferProofs`), under `Divides`:

- `SizeCounts`. `SizeIsItems` is not inductive: `RingInv` adds that both offsets
  are those of entries. Only then does a push stop exactly before the head instead of jumping
  over it, and only then does the wrap at the end agree with the modulo in `ringbuffer_full`.

The single-context path (`EchoPathProofs`):

- `TypeCorrect`, `ConfigurationSafe`, `BuffersSafe` need no hypothesis. The
  inductive invariant `TypeInv` adds to `TypeOK` that the sizes every party computes
  with are the configured ones from the moment it uses them (else an offset could
  leave the ring), that the start signal is up only then, that the packet in hand is
  a packet, and the count of buffers (else the pool could leave its bounds).
- `NoOverrunSafe`, under `WholeSlots`. `OffsetOf` turns wrapping offsets into counting; its lemmas
  (one step of `Advance` is the next packet, once around is the same offset, within
  one turn entries are disjoint) rest on `RingLemmas`. `NoOverrun` is not
  inductive: `IndexInv` adds what the snapshots mean. The tail the worker has read is
  the offset of a count between `echoed` and `Published`; the head it has read is that of
  a count at most `Fetched` and less than one turn behind, so that an old
  value can only make the ring look fuller; the engines' own indices are current.
- `RingsCorrect` (`RingsSafe`), under `WholeSlots`, from the same invariant: both shared rings refine
  `RingBuffer`. Since the offsets are those of the counters before and after a step, it is enough
  that each counter is moved by one action only, by one, and never both at once (`PublishedMoves`,
  `FetchedMoves`, `WorkerMoves`), and that counters less than a turn apart have different offsets.
- `EntriesSafe` and `EchoCorrect`, under `WholeSlots` too:
  `DataInv` adds what is known of an entry or a packet that a DMA is still filling.
  From it every step of the path is a step of `EchoService` or leaves it alone:
  `RxAwaitSpace` admits, `TxSend` sends.

`WholeSlots` cannot be dropped: the uneven ring described above is the counterexample in
the worker's half.

The multi-context path (`EchoMultiProofs`), for any finite number of contexts per engine:

- `MultiTypes`, `MultiConfigured` and `MultiBuffers`, in whatever order contexts run again and for
  uneven rings too: no index leaves its ring, no context works before the sizes are loaded, and
  no packet buffer is lost or used twice. The invariant is like that of the single path, with
  one more part: the queue of an engine lists exactly the contexts that have a CLS read under way,
  each once. The count of buffers is a cardinality of the contexts that work on a packet.

The rest needs `InOrder`, without which `multi_reserve` and its mirror image are counterexamples,
and which the hardware does not grant: these theorems say that nothing else is wrong.

- `PublicationOrdered`, `ReservationsSafe`, `ClaimsSafe`, under `WholeSlots`. None of the three
  properties is inductive. `IndexInv` says that the contexts of an engine hold the entries from
  the published count to the reserved one, each its own (`RxTurns`, `TxTurns`: a one-to-one
  numbering), so that the context whose tail equals the published one is the one whose turn it
  is. And it says what the reads under way are worth (`RxReads`, `TxReads`): in the order of
  the queue they saw a growing count, and even the oldest of them leaves room for everything
  that was reserved since. That holds because every context that reserved in between read
  before it, which is what `InOrder` grants and a stale head destroys.
- `MultiEntriesSafe`: `DataInv`, as on the single path, for each entry that a context holds.
- `MultiEchoCorrect`: every step is a step of `UnorderedEcho` or leaves it alone. Since
  contexts send in any order, "at most once" cannot be read off a prefix: `OnceInv` says that no
  packet is admitted twice and that those not yet admitted are others, `ReplyInv` that the
  replies sent and those in the hands of contexts are different and together as many as were
  fetched.

The mutexes (`NfpMutexProofs`), for any number of interfaces and mutexes, any depth, and
with failures and deaths unless said otherwise:

- `MutexExcludes` and `MutexUndisturbed`. Exclusion alone is not inductive, because the
  test-and-set keeps the old owner's number in the word. `MutexInv` adds: a word that is
  not locked names nobody, and a word held by an interface names it (`WordInv`);
  the depth in the handle is what the callers count (`DepthInv`); a process about to
  write its number finds the word locked by nobody, one about to write the unlocked
  word still owns it (`CallInv`); and two processes are never about to write their
  numbers into one word (`ClaimInv`). The first part of `WordInv` is what the argument turns on: were
  the number left in the word on unlock, a contender's test-and-set would make the
  old owner believe that it had locked the mutex. The mutant of `Exclusion` is that change.
- `ResourcesUseMutexes`: every behaviour of `NfpResource` is one of `NfpMutex`, so
  `nfp_resource.c` keeps to the rules under which the mutexes are correct (it unlocks
  only what it has locked).
- `ResourceExcludes` and `TableExcludes`: `OneOwner` and `TableGuarded`, from `UserInv`, which
  says for each place in `nfp_resource.c` which mutexes the process holds there.
- `ResourceReturnsHandles` (`HandlesReturned`), with failures and deaths. `HandlesInv` gives for
  every place in `nfp_resource.c` the handles its process has there (`HandleCount`), so that each
  error path has to free what was opened, and no more; and a handle that is in use by a
  call is not freed under it (`UsedInv`).
- `ResourceReturnsLocks` (`LocksReturned`) and `MutexRecoverable` (`HeldOrRecoverable`), both under
  `~ Failures`: a failed unlock leaves the mutex locked, and a failed write of the owner
  leaves a word that names nobody. `LocksInv` counts the locks per place as `HandlesInv` counts
  handles, and adds that a word names only somebody who counts the lock as its own
  (`OwnerInv`): otherwise an acquisition would find "Already locked by us" and lock nothing.

The areas (`CppAreasProofs`), for any IMB tables and requests, under `SingleThread`: a thread
has the library to itself, which `areas_shared` shows to be necessary.

- `SingleThreadBars` and `SingleThreadAccounts`: `OneAreaPerBar` and `BarsAccounted` are proved
  together, since each needs the other: a BAR found free has no area only because every BAR
  with an area is marked. The inductive invariant adds that an area being
  accessed or kept has a BAR and no other has (`AreaHasBar`), that the flag found free is free
  until it is set (`TakesFree`, the fact a second thread destroys), that a call's area is not
  among the kept ones (`CallIsOwn`), and that a lost BAR is no area's (`LostIsLost`).
- `SingleThreadReaches` and `SingleThreadTranslates` (`AccessReachesRequest`, `TranslationKeepsRest`),
  for every address, island, mode, width and target. `WindowsInv` says what an area knows of its
  request from `nfp_cpp_area_alloc` on (`Translated`), and that the window of its BAR was computed
  from it (`Opened`); that nobody else has turned the window away is `OneAreaPerBar`. The rest is
  about `nfp_cppat.h`: a number written into a field of an address is read back from
  it (`ValueIs`, from the digits of numbers below 64), `PutIsland` and `EncodeIndex` change only
  their fields, and writing the island of an MU address leaves its locality alone
  (`LocalityStays`), so that encoding and decoding agree on which form the address has. The
  proof fails for `LowLocality` requests, and so does the property: that is why both
  leave them out.

The device server (`CppDeviceProofs`), for any clients, calls and sizes, and any widths of its
integers:

- `DeviceAreasDisjoint`: the granted areas do not overlap, but for the last page. `AreasDisjoint` is
  inductive once the list is known to be a sequence of areas of at most a page at page
  boundaries (`AreasInv`), none of which therefore reaches beyond the end of the offsets; the
  argument is that the range check is symmetric overlap of areas that do not wrap, that it is
  made on the offset that is finally granted, also where that is an end that has wrapped
  to 0, and that removing an element keeps the others.
- `ServerStopsAfterEnd` (`StopsOnlyAfterEnd`), from `BasicInv`: a client is at most once in the
  backlog or the table, what is still to be served is in the table (`TableInv`), whoever is
  in the table has a socket that the server has not closed (`SockInv`), and a client that
  sends or waits does so for a call that it makes (`CallOf`). A server step that does not stop
  the server reads one item, fails and closes, or answers; a stop is the end of a stream,
  a write to a closed one, or a read that is oversized.
- `StreamsStayInStep` and `ServerWaitsForSender` (`StreamsInStep`, `WaitsOnlyForSender`), from
  `StreamsInv`, which adds to `BasicInv` what lies on the two streams of a client at each of
  its places. In step, what the server has read and what lies unread together are the
  first items of the message of the current call (`Along`), all of them once the client
  waits; out of step, they are the lone operation word of a refused `ioctl` and at most the first word of
  another call, which the server can only wait for or refuse, closing the socket
  (`OutOfStep`), or the message of an `ioctl` without its argument, whose client waits (`CutShort`). That
  second half is needed although the property speaks of streams in step: a client can only
  be believed to wait for its reply if the server cannot answer a call that is not there.
  `DownOf` says that a reply is on the stream only when the request has been read whole, and
  that its length is what the shim will read.

Start and NSP (`StartupProofs`), for any users, any processes on the shared interface and any
bounds, with deaths:

- `StartupExclusive` and `StartupLockReturned` (`LockReturned`: a lock without a session was left
  behind by a death, a failed unlock or an unwritten owner). `NspExclusive` is not inductive: who is in a
  session has the lock by its interface (`SessionLock`), a process is in a session only inside
  `pci_probe` (`ProcessSession`), and is there only with the process lock (`ProcessLock`). Two
  users in a session would share an interface, hence be two processes, hence both have the
  process lock. That interfaces of other users are their own is an assumption on the
  constants (`StartupAssumption`).
- `StartupAnswers` (`AnswerIsOwn`). The invariant `AnswerInv` says what the registers hold at each
  place of `nfp_nsp_command`: the command of the user that waits is written, or runs, or has
  run. One that was given up can only run before it, because START is overwritten and is
  taken only when BUSY is not set.
- `StartupBuffersStay` (`BuffersStay`). The invariant `ZonesInv`: before a process serves none of
  its handles is taken, so what it reserves, if it gets both, is zones 0 and 1 (`FirstZone`,
  `SecondZone`), and these are all that a device is ever told.
- `StartupConfigures` (`ConfiguredZones`), from the same invariant and from what `nfp_rtsym_map`
  requires of a symbol, for any firmware.
- `StartupBuffers` and `StartupConfigSticks` (`BufferBelongs`, `ConfigSticks`). `DataInv` of this module
  says, as long as no command was given up: the registers and the buffer are those of
  the one who is in a session (`CommandOf`), only the set functions commit (`SettingOf`), the
  entries it is about to write back are the agreed table with its own change, and the table
  is the agreed one until its command has run (`TableOf`); when nobody is in a session
  nothing runs and the table is the agreed one (`AtRest`). It rests on `NspExclusive`: a second
  user in a session could change the table between the read and the commit of the first.

Only model-checked: liveness (`EchoLiveness`, `TableComesFree`, `CallsReturn`, `StartupEnds`), since
the prover does not handle fairness. Every other property of a passing run is also a theorem.

## Not modelled

- Vendored and support headers (`rte_*.h`, `list.h`): third-party code.
- Threads of one process that share the cache of mutex handles: `NfpMutex` has one thread per
  process. The race for BARs, which the same threads run, is `areas_shared`.
- A host process that resets the ring indices while engines of an earlier run are still at
  work. The firmware is meant to be loaded afresh; that the memory stays the same is checked.
- `nfp_cpp_mutex_init`, `nfp_nsp_wait`, `memzone_free`, `dma_send`, `dma_recv`, `receive_packet`: no
  caller in the repository.
- The secondary process's BARs and lock (the program is a primary process), the register
  writes behind a reconfiguration, XPB accesses, model, serial number and interface, which are
  read once.
- The server's own `nfp_enable_bars` (`nfp_cpp_dev.c:196-284`), which fills a table once, and the
  shim's look-up of the C library's functions.
- The layout of the port table (lanes, rates, media), the look-up of physical addresses in
  `/proc`, the checksum, and the log and statistics threads, which only read and print.
