# Formal models of yield-stm32f401

The repository is the firmware of a USB device on an STM32F401: a cooperative
scheduler with its synchronisation primitives, and on top of it a TCP/IP stack
that talks over USB (EEM), a DHCP and an mDNS server and an HTTP server with
websockets. This directory models it in TLA+, model-checks it with TLC
and proves theorems about it with TLAPS.

`PROJECT.json` lists the parts of the system, the checks, the source lines of
every definition, the hazards of the code and the theorems.

## 1. Inventory

### How the program runs

There is one core and no preemption between tasks. A task runs until it calls
`Yield()` (directly, or inside a wait); interrupts only set flags and move USB
data. So the unit of atomicity in every module is *what runs between two
calls of the scheduler*. The code often yields where a reader does not see it:
`for (...; Yield())` yields once **after** the pass that succeeded, and
`Sem_Lock`, `Queue_PutWait`, `Ev_Notify`, `TCPIPRxTx_Alloc`, `Sleep` and
everything that calls them yield as well. Most hazards of this code are state
that was read before such a call and is used after it.

### Components

| Part | State | Operations | What is hard | What makes it correct |
|---|---|---|---|---|
| scheduler `sys/src/yield.c` | ring of task blocks, running task, ids, pool of coroutine slots, flags | `Yield_Task`, `Yield_Run`, `Yield`, `Yield_Wait`, cancel, shield, end of a task | reuse of slots, waiting for a task that ended, relinking | the ring holds every live task once; nobody is skipped; waits and cancellations hit the task they were meant for |
| semaphores `sem.c` | owner id per semaphore, one byte wide | lock, lock several, release, timeouts | lists in opposite orders, partial locks | exclusion, no leftovers, no deadlock among list lockers |
| queues `queue.c` | two free-running counters and a ring | put, get, peek, drop, waiting variants, direct access to memory | wrap of counters and ring, transfers longer than the ring, reserved memory | behaves as a bounded FIFO; long transfers end |
| events `ev.c` | event id, argument, listener entries | notify, listen, capture, acknowledge | argument on the notifier's stack, more listeners than entries | everybody sees every event while the argument lives |
| heap `heap.c` | chain of headers in memory | init, malloc, free | split and join in any order | used blocks disjoint, chain tiles the memory |
| TCP `net/tcpip/src/tcp_sock.c` | socket record, two queues, sequence numbers, link states | input, output task, listen, connect, send, receive, close, reset | loss, repetition, delay; output yields in the middle; wrapping numbers | streams arrive in order, honest acknowledgements, nothing dropped too early |
| frame buffers, ARP, IP output `rxtx.c`, `arp.c`, `arp_table.c`, `ip.c` | buffers with two flags, address table, EEM queue | alloc, transmit, discard, resolve, request, reply, reset | a buffer held while another is needed; table changes during a sleep | one owner per buffer, frames complete and to the right host, buffers come back |
| IP, ICMP, UDP frames, UDP sockets | frame descriptor, checksums, datagram queues | send, input, bind, receive | bytes left over from earlier frames; datagrams as bytes in one queue | what one station sends the other reads; boundaries of datagrams |
| DHCP server `net/dhcp` | record book | discover, request, expiry, reset; options rendered and parsed | records change while an answer waits for a buffer | one address per client, kept for its lease |
| mDNS server `net/mdns` | none | parse a query, answer | compressed names, several questions, a small buffer | one answer per question, or none |
| USB device driver `dev/src/usb.c` | endpoint control blocks, FIFOs | start, finish, wait, reset, enumeration | resets in the middle of a transfer | every transfer ends once, with its own data |
| USB control transfers `usb_core.c` | stage, device state, address, configuration | setup, data, status, requests | stages back to back, refused requests, resets | never deaf, right answers, host and device agree |
| VCP `usb_vcp.c`, EEM `usb_eem.c` | queues, rings of frames, byte order | send, receive, two tasks each | repeated and short transfers; several frames in a transfer | no byte or frame lost, torn or reordered |
| HTTP server `net/uhttpsrv`, web site, API, `ffs` | request, response, pool of files, shared read buffer | accept, parse, respond, open, read, close | tasks share the buffer and the pool; connections live on | whole answers, no body taken for a request, files closed |
| websockets `uhttpsrv/src/ws.c`, `net/websocket` | frame state, masking key | receive, send, ping, close | frames in pieces, control frames in between | frame boundaries, unmasked data |
| text `util/src/stdio.c` | none | print, scan | cut at the buffer, rounding, widths | what is written stays within the size and reads back |
| time, peripherals, start-up, diagnostics, other utilities | - | - | - | see section 7 |

### How they interact

* Everything uses the scheduler through `Yield()`, `Sleep()` and waits.
* Queues and semaphores are used by sockets, HTTP and the drivers; events
  connect the USB core and the stack (`usbcore_ev`, `tcpip_ev`).
* EEM hands frames to the reception task, which calls ARP, ICMP, UDP, TCP in
  its own step and may itself wait for a frame buffer or an address.
* The TCP output task builds frames in buffers of `rxtx.c`, which a transmission
  task passes to EEM.
* A USB reset runs the reset functions of the stack and clears tables and
  sockets while other tasks are in the middle of a call.

## 2. Modules

| Module | Models | Checked in |
|---|---|---|
| `BoundedFifo` | what a queue promises (abstract specification) | `MCKernel` |
| `Queue`, `MemoryProofs` | `sys/src/queue.c`; refines `BoundedFifo` | `MCKernel` |
| `Sem`, `TaskProofs` | `sys/src/sem.c` | `MCKernel` |
| `Yield`, `TaskProofs` | `sys/src/yield.c` | `MCKernel` |
| `Ev`, `TaskProofs` | `sys/src/ev.c` | `MCKernel` |
| `Heap`, `MemoryProofs` | `sys/src/heap.c` | `MCKernel` |
| `Induction` | nothing: the lemmas on naturals and sequences the proofs share | |
| `Wire` | the frames of `eth.c`, `ip.c`, `ip_addr.c`, `arp.c`, `icmp.c`, `udp.c`, `tcp.c` and their checksums | `MCNet` |
| `DhcpFrame` | `net/dhcp/frame.h`, `src/frame.c` | `MCNet` |
| `MdnsFrame` | `net/mdns` | `MCNet` |
| `UdpSock`, `DatagramProofs` | `net/tcpip/src/udp_sock.c` | `MCNet` |
| `Dhcp`, `DatagramProofs` | `net/dhcp/src/server.c` with its clients | `MCNet` |
| `TcpSock`, `TcpProofs` | `net/tcpip/src/tcp_sock.c` with a remote TCP and a network | `MCNet` |
| `RxTx`, `RxTxProofs` | `rxtx.c`, `arp.c`, `arp_table.c`, `TCPIPIp_Send` and the EEM queue: composes four files | `MCRxTx` |
| `Usb` | one endpoint of `dev/src/usb.c` and its registers, as operators | through the next three |
| `UsbCore`, `UsbProofs` | `dev/src/usb_core.c`, `usb_desc.c`, requests of `usb_vcp.c`, on `Usb`, with a host | `MCUsb` |
| `Vcp`, `UsbProofs` | `dev/src/usb_vcp.c` on `Usb`, with a host | `MCBulk` |
| `Eem` | `dev/src/usb_eem.c` on `Usb`, with a host | `MCBulk` |
| `Http`, `HttpProofs` | `net/uhttpsrv/src/uhttpsrv.c`, `www/src/website.c`, `www/src/api.c`, `ffs/src/ffs.c` | `MCWeb` |
| `Ws`, `HttpProofs` | `net/uhttpsrv/src/ws.c`, `net/websocket/src/websocket.c`, `www/src/ws.c` | `MCWeb` |
| `Stdio` | `util/src/stdio.c` | `MCWeb` |

A module `...Proofs` extends the module next to it and holds its theorems (section 4).

An `MC` module puts components that share no state side by side: a variable
(`part` or `which`) says which of them a behaviour runs, and the others keep
their initial state. So one run covers several components, and its state space is the
sum of theirs.

**Queue.** `head`, `tail` are the counters modulo `Wrap`, `buf` the memory.
Put, get, peek, drop and drop-all are one step each; each pass of
`Queue_PutWait` and `Queue_GetWait` is a step, with its progress in `call`.
`GetFreeLinearMem` hands out a pointer that `IncreaseCount` uses in a later step.
The refinement maps the slots between the counters to the items of the FIFO
and carries along the chunk that moved, so a chunk stored or read at a
wrong place is not a FIFO step.

**Sem.** `sem` is what is stored, `held` what callers may rely on. One pass of a
locking loop is one step; `LockMultipleRetry` is the pass that fails half way and
gives back what it took. A task may pass `Sem_LockMultiple` a list with a semaphore it
already holds; when the pass fails, that one is given back as well, although its task still
relies on it. `lost` is history: the semaphores this has happened to.

**Yield.** The ring is kept as the two link fields of every block, with the
assignments of the code. `pc` says where in this file a task is; in
particular `RunSearch` and `RunStart` are the two halves of `Yield_Run` with the
extra yield between them. `owed` and `asked` are history: who must still run
before a task runs again, and which ids somebody cancelled.

**Ev.** `Notify` publishes id and argument and runs until the first yield;
`NotifyReturn` is the pass that finds every entry acknowledged. `missing` is history.

**Heap.** Headers are records at addresses of the modelled memory; the links
are the ones in memory, stale ones included.

**TcpSock.** `sk` is the socket record. `Input` is the whole of the input handler
(`ProcessIncoming` and its stages in source order: RST, SYN, ACK, data,
acknowledged bytes, FIN). The output task is split where it yields: `OutPick`
chooses flags, `OutSent` builds and commits after the waits, `OutFailed` is the
error path, `OutStalled` the retry limit. The application's calls are steps that may fall
in between. The peer is a well-behaved TCP that is external to the repository; frames
may be lost, repeated and delayed. Timers are steps that may
happen at any time, which includes every real timing.

**RxTx.** A task's progress is a record: what it sends, which buffer it
holds, which one its search has `found` but not marked. `TxPass` is one pass of the
transmission loop: of the buffers it finds ready, in order of their index, it sends as many as
EEM has room for. `TxDiscard` is its end when the EEM queue is full, `EemDrain` the host
reading a frame.

**Wire.** Frames are sequences of bytes. A sender lays a message out in a
buffer that still holds the previous frame, the link may damage one byte, and the
same code at the other end reads it, through a frame descriptor that is static and
keeps its pointers. What it `got` is compared field by field with what was sent.

**DhcpFrame, MdnsFrame.** The rendering and parsing of options and names, on bytes,
with the limits of the buffers and the unsigned remainders of the code.

**UdpSock.** A socket's queue holds units: the header of a datagram and its data.
`pending` is history: what the socket still owes.

**Dhcp.** `book` is the record book, with the age of each record. The server
takes a datagram in one step (`SrvInput`) and sends in another (`SrvSend`), because it waits
for a buffer in between; clients retry, renew, forget, and time passes in ticks.

**Usb, UsbCore, Vcp, Eem.** `USB_HandlerTask` polls flags; one pass of its loop is
one step. `Usb` maps the control block of an endpoint to its next value; the other
three make actions of it. A setup frame has its 16-bit fields: descriptor type and index, and the number
and the direction of an endpoint, are taken from them as in the code. The host is external: it issues control transfers,
sends and takes packets, and resets the bus at any moment; a reset has two
halves (reset, enumeration) between which the tasks run. In `Vcp` and `Eem` each
task is split where it waits for a transfer, a queue or a ring. In `Eem` a header is two bytes, in
either order, with a flag for commands and one for commands without payload, so that an echo carries
data that must be skipped; `vague` is history: the byte order was settled by a length that fits both ways.

**Http.** A step of a serving task is the code between two waits that other
tasks can tell apart. They share the pool of files and the buffer `fbuf` under its
semaphore. Every socket call may fail, and a failed send may be followed by one that
works, as in the code, which does not check every result. `hout` is what the client got.
`NoRefusal` and `WellFormed` say what clients send; they are hypotheses of two theorems, and
`MCWeb` assumes them of its requests, so TLC evaluates them.

**Ws.** A byte is the frame and the position it has in it, so that a byte that is
unmasked with the wrong key byte, or taken for a header, shows. Both libraries and
both roles share the engine; `wlib` and `wrole` choose. The socket delivers a frame in pieces of any
size, and frames come with every size of the length field, with and without the mask bit. Where the
code does not handle what comes, the model does what the code does; from there on the place in the
stream is lost (`lost`). `wodd`, `wtorn` and `wgarbled` are history: something came that is not handled, a piece of
payload ended inside the key, a byte met the wrong byte of the key.

**Stdio.** `fs_process`, the print and scan functions and the two drivers as operators
on sequences of characters, with the flags, widths, precisions and the size of the
buffer. Doubles are exact decimals: the logarithms that find mantissa and exponent
in `print_double` are left out, and so is printing with `%a`. A text that is written beyond the size of its buffer
is longer than the size in the model too.

Two constants named `Exclusive` (in `Yield` and `RxTx`) say that two tasks are
never at the same time between search and use of a slot or buffer. The code
does not enforce this. With `TRUE` the modules show that everything else is right,
with `FALSE` the runs `yield_race` and `rxtx_race` show what goes wrong.

## 3. Checks and what they show

| Run | Module, cfg | Result |
|---|---|---|
| `kernel` | `MCKernel` | a transfer longer than its queue, started at every counter position, loses nothing (`StreamIntact`) and ends (`StreamEnds`); failed attempts to lock several semaphores leave nothing locked (`NoDeadlock`) and somebody is served (`SomeoneServed`); listeners get every event while its argument lives (`Delivered`) and `Ev_Notify` returns (`NotifyReturns`); the ring of tasks is well formed (`TasksOK`), ids hit the task they were meant for (`IdSafe`), rounds are full (`FullRound`) and nobody starves (`NoStarvation`) |
| `memory` | `MCKernel`, `MCMemory.cfg` | every step of a queue, with counters that wrap, is a FIFO step (`ImplementsFifo`); queue and heap are well formed (`MemoryOK`); allocations are disjoint (`NoOverlap`); no two tasks rely on one semaphore, however calls nest, unless it is `lost` (`MutualExclusion`) |
| `net` | `MCNet` | frames read as they were sent (`WireRight`), DHCP options too, with leftovers behind them (`OptionsRight`), mDNS answers are complete or absent, and only a name that points at itself hangs the server (`MdnsRight`), datagrams keep their boundaries (`UdpFramed`), leases keep their records (`LeaseKept`); TCP: both streams in order (`InOrder`), acknowledgements only for stored data (`AckHonest`), sent data kept until the peer has it (`TxKept`), consistent links (`SocketOK`) |
| `rxtx` | `MCRxTx` | one owner per buffer (`OneOwner`), complete frames to the right host (`SentRight`), every frame is sent and buffers come back (`Progress`) |
| `usb` | `MCUsb` | the control endpoint never goes deaf (`NeverDeaf`), answers with the right data (`AnswerRight`), agrees with the host on address and configuration (`HostAgrees`), and every control transfer ends (`TransferEnds`) |
| `bulk` | `MCBulk` | the serial port delivers streams (`VcpStream`); Ethernet frames arrive whole and in order as long as the byte order is certain (`EemIntact`), leave the ring only when the host has them (`EemSent`), and do get there (`EemDelivers`) |
| `web` | `MCWeb` | whole answers (`AnswerWhole`), no body taken for a request (`InSync`), files owned and closed (`PoolOwned`); websocket frames keep their boundaries (`Framed`) and payload (`EchoRight`) until something comes that the code does not handle; text is cut at its size and reads back, but for the calls the code gets wrong (`TextRight`) |
| `yield_race` | `MCKernel`, `MCYieldRace.cfg` | violation: `Yield_Run` uses a slot another task took meanwhile, and tasks drop out of the ring |
| `heap_split` | `MCKernel`, `MCHeapSplit.cfg` | violation: a split in the middle leaves a stale back link, and memory in use is joined with free memory |
| `tcp_fin` | `MCNet`, `MCNetFin.cfg` | violation: an acknowledgement that arrives before the FIN was sent ends the closing |
| `rxtx_race` | `MCRxTx`, `MCRxTxRace.cfg` | violation: two tasks get the same buffer |
| `dhcp_unique` | `MCNet`, `MCNetUnique.cfg` | violation: two clients get the same address |

The violations are explained under `findings` in `PROJECT.json`, next to the lines of
the repository that say otherwise.

### Bounds and why they are enough

* Queues: 3 slots, counters modulo 6, requests of up to 3 elements, 2 values;
  the long transfer has 8 elements. Both the ring and the counters wrap, requests are shorter
  than, equal to and longer than what is free. `Wrap` is a multiple of `Count`, as
  2^32 is of the sizes of the program. One producer and one consumer: calls are atomic
  between yields, and in the program each queue has one task on each side.
* Semaphores: in `kernel` two tasks and three semaphores, so that a list may hold one
  that is held, one that is free and one that is taken; in `memory` three tasks and two semaphores, so that a
  third task waits behind every conflict. Lists in both orders, any nesting of calls. The proofs cover the rest.
* Scheduler: the first task, one plain task, two coroutine slots, three ids:
  every slot is used, freed and used again, and rings of one to three tasks
  occur. `yield_race` allows five ids so that the broken ring is walked.
* Events: three listeners for two entries, ids modulo 3.
* Heap: 14 units with headers of 2 and requests of 1 and 2: up to four
  blocks in every order of frees. `heap_split` needs 20 units and a request of 5.
* `Wire`: every order of the messages, so that each frame meets the
  leftovers of each other one; empty and odd payloads, payloads that sum to zero, options, every
  kind of destination.
* `DhcpFrame`: subsets of the options, with and without their end, against a buffer that some
  of them do not fit and one that all do, with and without options of others in front and
  with a 0 or a 255 behind the frame.
  `MdnsFrame`: all lists of up to three questions of seven kinds (names spelled out, pointed at, in
  parts, behind the frame, pointing at themselves, other types and classes), and the
  longest list of answers that fits and the one that does not; whole and cut short by two and four bytes, with
  two sorts of leftovers behind. `Rounds` bounds what is followed of a name: it is more than any name of
  the run takes that ends.
* `UdpSock`: two sockets, queues of nine units, datagrams of none and three units:
  a queue holds one datagram and refuses the next.
* `Dhcp`: two clients, two records, a lease of one tick, one datagram queued.
* `TcpSock`: queues of one byte, two bytes in and one out, one frame under way in
  each direction, which stays there until replaced, so that it may be delivered again and
  again or never; sequence numbers modulo 13, starting just before the wrap. The
  connection is used once, after which the model has nothing left to do: deadlock is not
  checked in `net`.
* `RxTx`: three buffers, the reception task and another, two hosts that
  compete for a table of one entry, two ARP attempts, one frame in EEM.
* USB control transfers: packets of 3 units (a setup frame and a status must fit in one), a FIFO of one packet;
  the configuration descriptor takes two packets, requests ask for less and for more than there is, for a
  descriptor that does not exist, for both sides of an endpoint, and are refused.
* Bulk endpoints: packets of 2 units, a FIFO of one. `Vcp`: queues
  of 2, 3 bytes each way, one reset. `Eem`: header bytes of 8 values, frames of 8 and 2 bytes. The
  first, with its checksum, has the length 9, whose two bytes are equal; it stands for the lengths 257, 514 and so on
  of the code. Rings of 1 and 2 frames, hosts of both byte orders, and three transfers in any order:
  that frame, a command without payload, an echo in front of the other frame. One reset. `EemXfers` bounds
  the transfers of the host. When all bytes were sent the bulk
  behaviours stop: deadlock is not checked there.
* `Http`: two serving tasks, two open files, a file of two chunks and one shorter
  than the gzip probe, five requests for the site and those of the API. `Ws`: a key
  of 2 bytes, all sequences of up to three data and control frames with 7- and 16-bit sizes, and each of them
  before and behind a frame the code does not handle; every cut of every frame. `Stdio`: five
  combinations of flags with and without width and precision, three lengths and the conversions `d i u x`
  over all integers of 3 to 5 bits (`o` and `hh` with fewer of them); texts as the program prints and scans
  them, with `s`, `c`, `%` and `*`; doubles around the edges of rounding with `f` and `e`, in widths that hold them, cut them and
  exceed the buffer; buffers that cut and that do not. A text is printed and read back once, after which it stops.

### Conditions under which the passing runs hold

Each is a hazard in `PROJECT.json` or a line of the code that is wrong beyond it. The
model follows the code there too, unless the last paragraph says otherwise: the property fails when the
condition is dropped. So what a condition excludes is not caught by the property.

* Semaphores: task ids fit in a `sem_t` (`IdsFit`). An id that is a multiple of 256 is
  stored as "released". A failing pass of `Sem_LockMultiple` releases every semaphore it has locked, also one
  that its task held before the call (`sem.c:55-56`): another task may then lock it while both
  rely on it. `MutualExclusion` excepts those semaphores and no others (`lost`).
* Events: one notifier per event, as in the program. A second one replaces the
  argument before it was delivered.
* Heap: allocations are served from the last block and fit (`TidyNext`). The
  search returns the first free block whatever its size.
* `Yield`, `RxTx`: `Exclusive`, see above.
* `RxTx`: more buffers than tasks that resolve addresses. Otherwise each holds one
  buffer and waits for another.
* `Wire`: an ICMP frame has a header as long as the ICMP frame before it (`SameHdr`): the
  input function reads the pointer before it sets it. Fragments are recognised
  only by the bits the masks of `ip_frame.h` name, and a broadcast to the subnet is not
  recognised at all; the model drops and accepts frames as the code does.
* `DhcpFrame`: the DNS addresses have room in the buffer behind the options before them (`DnsFits`): only
  the room for their header is checked (`frame.h:729`). A list of options without its end is refused, unless
  the byte behind the frame is a stale 255: the parser looks at it (`frame.c:168-174`) and accepts the list. `OptionsRight`
  says so, and that nothing else of what lies there is taken.
* `MdnsFrame`: a first name that points at itself makes `MDNSFrame_DecodeName` loop for ever without a
  `Yield()`, which stops the device (`frame.c:64-97` counts no pointers). `MdnsRight` says that nothing else in
  the run does that. Type and class are read without a look at the size of the frame (`server.c:151-157`): of a query
  that is cut short they are what an earlier frame left in the buffer. Such a query may be
  answered; `MdnsRight` then claims only that the answer is well formed and that nothing is written behind the buffer.
* `UdpSock`: readers have room for a datagram (`RoomToRead`).
* `Dhcp`: `LeaseUnique` is the violation, so `LeaseKept` is about records only. It holds
  with resets at any moment; one that falls between an answer and the update of its
  record leaves a record that is assigned to nobody until it expires.
* USB: no reset while the data of a transfer waits for its FIFO and no transfer started
  while a reset is driven (`QuietReset`): the FIFO interrupt mask survives a reset. In `Eem` a
  quiet reset also finds the reception task waiting for a transfer: a transfer that was received but not yet taken apart
  would be read with a byte order that is forgotten.
  `HostPolite`: the host does not abandon a transfer for a new one. No request cuts a
  descriptor to a whole number of packets, and a packet has room for a status of two bytes and more (`CoreAssumption`). A
  configuration or string that does not exist is answered with no data instead of a refusal; `AnswerRight`
  takes that for the right answer.
* `Eem`: the first transfer after a reset carries one frame (`FirstSingle`), from
  which the byte order is guessed. Big endian is tried first, so a length whose two bytes are equal (257, 514, 771, 1028 and
  1285 are possible) fixes big endian for every host. `EemIntact` and `EemSent` claim nothing of a little endian
  host from such a guess on (`Certain`); a reset clears the guess but not the history, so nothing is claimed after it either.
* `Http`: OPTIONS comes without a body, which its handler would leave in the stream, and
  no request is answered with 405, whose status line does not fit in its 32 bytes
  and loses its end of line. An answer 101 is followed by the websocket and is not looked at.
* `Ws`: `Framed` and `EchoRight` hold until something comes that the code does not handle (`wodd`): a header
  of which a socket call returns only a part, which the code takes for complete; a 64-bit size, of which it fetches
  four bytes instead of eight (`ws.c:88-91`, `websocket.c:642-644`); a mask bit that is not the one the role
  expects, after which the next two bytes are taken for a header; a ping or close frame larger than the
  125 bytes RFC 6455 allows and the code reads, whose rest is taken for a header. Every piece of payload is
  unmasked from the start of the key (`ws.c:164`), so `EchoRight` speaks of the key only until a piece
  ended inside it while its frame went on (`wtorn`): a cut by TCP may do that, and so does `www/src/ws.c:40`, which reads
  63 bytes at a time. Senders encode a size in the shortest form that holds it.
* `Stdio`: doubles whose digits are within the table of powers (`InTable`). `TextRight` excepts the calls the code gets
  wrong, which the run makes all the same. Beyond the size of the buffer (`Overruns`): a width on a double that exceeds it
  (`stdio.c:800` sets the end from the width), and a literal percent sign at a full buffer. Not read back (`Distorts`): `%o`, which
  prints decimal digits (`stdio.c:527`) and reads octal ones, a negative `%hhd`, and a
  double in a width that is smaller than its text.

Three places read or write memory the models do not have. `TCPIPArpTable_UpdateTable` writes the entry before the
table when no entry is older than the current tick (`arp_table.c:54-66`): in `RxTx` that update is
lost and nothing else happens. `UHTTPSrv_ParseRequestLine` uses a null pointer for a version that is not in its table
(`uhttpsrv.c:278-285`): in `Http` requests have a version of the table. `GetMimeTypeForFileExt` walks back
from the end of the URL to its last dot and beyond its start when it has none (`website.c:45-48`): in `Http` the walk is left out, since
only the content type depends on where it stops.

### Fairness and what justifies it

* `Yield`: weak fairness of the calls that switch context: a task is
  cooperative, which is the contract of the scheduler. That every task gets its turn
  is then checked (`NoStarvation`), not assumed.
* `Sem`, `Queue`, `Ev`, `RxTx`: weak fairness of every step of a task that is
  inside a call, which is what `NoStarvation` provides. No fairness for starting
  a call, for releasing a semaphore, or for timeouts.
* `Ev`: a listener that captured acknowledges; the `ev_listen` loop does it at the
  end of its body.
* `RxTx`: the host reading a frame is fair: it polls the endpoint while it is attached.
* `UsbCore` (`CoreFair`): the handler task runs, and a host that began a transfer
  goes on with it. It need not begin one, and it may reset the bus or not.
* `Eem` (`EemFair`): the handler, the two tasks, and the host polling its endpoints.
* The others state no liveness. For TCP it would need a fair network, and
  the code gives up after its time limits anyway.

## 4. Proofs

Each theorem holds for every value of the constants that satisfies the assumption of its
module. A condition the code does not guarantee is not an assumption of the module but a
hypothesis of the theorem (`ASSUME ... PROVE`), so that it can be seen where it is used. Each
invariant was checked by TLC on the small instance before it was proved.

| Module | Theorem | States | Hypothesis |
|---|---|---|---|
| `TaskProofs` | `Ownership` | `[](TypeOK /\ OwnerExact)` | `IdsFit` |
| | `Exclusion` | `[]MutualExclusion`: but for `lost` semaphores | `IdsFit` |
| | `DeadlockFreedom` | `[]NoDeadlock` | `IdsFit` |
| | `Entries` | `[](EvTypeOK /\ EntryOwned)` | |
| | `Delivery` | `[]Delivered` | `OneNotifier` |
| | `TaskIdentity` | `[](YieldTypeOK /\ RingLinked /\ IdSafe)` | `Exclusive` |
| | `RoundRobin` | `[]FullRound` | `Exclusive` |
| `MemoryProofs` | `RingSafe` | `[](QueueTypeOK /\ UsedBounded /\ ReservationStable)` | |
| | `RingIsFifo` | `ImplementsFifo`: the refinement of `BoundedFifo` | |
| | `TransferIntact` | `[]StreamIntact` of `StreamSpec` | `OnePair` |
| | `AllocationsDisjoint` | `[]NoOverlap` | `TidySpec` |
| | `HeapSound` | `[](HeapTypeOK /\ Tiles /\ Restored)` | `TidySpec` |
| `RxTxProofs` | `BufferOwner` | `[]OneOwner` | `Exclusive` |
| | `FramesRight` | `[]SentRight` | `Exclusive` |
| `DatagramProofs` | `DatagramsFramed` | `[]UdpFramed` | `RoomToRead` |
| | `LeasesKept` | `[]LeaseKept` | |
| `TcpProofs` | `StreamsInOrder` | `[]InOrder` | |
| | `AcksHonest` | `[]AckHonest` | |
| | `NothingLost` | `[]TxKept` | |
| | `SocketSound` | `[]SocketOK` | |
| `HttpProofs` | `FilesOwned` | `[]PoolOwned` | |
| | `AnswersWhole` | `[]AnswerWhole` | `NoRefusal` |
| | `BodiesConsumed` | `[]InSync` | `WellFormed` |
| | `FramesKept` | `[]Framed`: until `wodd` | |
| | `EchoesRight` | `[]EchoRight`: until `wodd`, the key until `wtorn` | |
| `UsbProofs` | `ControlNeverDeaf` | `[]NeverDeaf` | `HostPolite`, `QuietReset` |
| | `AnswersRight` | `[]AnswerRight` | `HostPolite`, `QuietReset` |
| | `HostAndDeviceAgree` | `[]HostAgrees` | `HostPolite`, `QuietReset` |
| | `SerialStreams` | `[]VcpStream` | `QuietReset` |

### The arguments

**Semaphores.** `MutualExclusion` is not inductive, because it does not say that a
semaphore somebody relies on is marked in memory. `OwnerExact` says that a semaphore that
stores an id names a task that relies on it, and that one a task relies on stores its id
unless it was `lost`; with the types it is inductive. The action
that needs most care is the failing pass of `Sem_LockMultiple`: what it gives back was free or held by its
own task before, and the latter are exactly what it adds to `lost` (`PrefixLockable`). A semaphore leaves `lost` when nobody relies on it
any more. `IdsFit` (ids below 2^8) is a hypothesis because the
code does not guarantee it.

**Events.** The entries are sound for any use. `Delivered` needs two more facts: the
entry of a listener that still has something to do is at an id other than the event's, which is
what `Ev_Notify` waits for (`Unacked`), and between two calls all entries are at the
event's id (`Quiet`). The second is false with two notifiers, hence `OneNotifier`.

**Scheduler.** That the links agree does not say that the ring is one cycle. The invariant
numbers the tasks in the order in which they will run, the running one being 0, and says
that a task is owed a run only by tasks before it. Starting a task, ending one and waiting
renumber it. From it follows also that everybody who polls the block of a task that ended has
seen it before the block is released.

**Queue.** The k-th oldest element lies k - 1 slots behind slot `tail % Count`
(`ItemsPlaced`). A write fills the slots behind the last one, a read copies the first, moving
the tail renumbers the rest. Underneath is arithmetic: an index does not notice the wrap of the
counter it was computed from (`WrapIndex`), which needs `Wrap % Count = 0`, as 2^32 is
a multiple of the queue sizes of the program. With it every step is a step of `BoundedFifo`
or a stutter.

`TransferIntact` is about one `Queue_PutWait` of a message `Msg` of any length against one
`Queue_GetWait` of that length (`StreamSpec`, `OnePair`; `MCKernel` assumes `OnePair` of its constants,
so TLC evaluates it). Its invariant (`Transfer`) adds the count of the reader to `StreamIntact`: what the
reader still misses is the length of the message less what it has. So when it returns, ring and
writer have nothing left. A pass of either side cuts a sequence in two and moves the first part; with
`ItemsPlaced` the part read is the front of the ring (`PeekedItems`), and joining is associative.

**Heap.** `NoOverlap` speaks of the allocations only. The invariant is that there is a set of
blocks that tiles the memory in the order of its addresses and agrees with the links of the
headers both ways (`Linked`), of which those in use are the allocations (`Given`) and no
two free ones are neighbours (`Merged`). Each join of `Heap_Free` takes one block out of the set
(`JoinLinked`, `JoinGiven`), a split adds one. The code reaches blocks only by walking the links from
the first header; that walk stays within the set (`ChainIn`, by the induction described below),
so the search ends on one of its blocks (`BestFitFree`). The theorems are about `TidySpec`: with
`HeapSpec` they are false, as the run of `MCHeapSplit` shows.

**Frame buffers.** The one task between search and mark found a buffer that is still free and
is alone there (`Senders`); complete buffers are marked as taken (`Buffers`); the address table
never pairs an address with a host that does not own it (`Addresses`). `Exclusive` is
what makes the first inductive. Hosts and the addresses they own are arbitrary; an ARP answer is
assumed to come from a host that owns the address.

**UDP.** The queue of a socket is the join of the datagrams it still owes, and between two calls
of `TCPIPUdpSock_RecvFrom` the socket stands at the start of one (`SockFramed`). Storing a datagram is
joining it at the end (`CodesAppend`), reading takes the first one away (`CodesTail`); both are facts
about `FlattenSeq` that need an induction over its definition (`FlattenAppend`, `FlattenTail` in module
`Induction`). `RoomToRead` is a hypothesis
because a read that does not finish its datagram takes units of the next one.

**DHCP.** A record is safe as long as it is not old, and it is never older than the lease
its client counts, since the server counts from its answer and the client from its
question. This holds only of answers to what the client asked last, so `DhcpIInv` follows the
transaction identifier through the queue of the socket, the server and the link, across resets.

**TCP.** Positions in the streams are counted behind the first sequence numbers.
`TcpIInv` says where every number in the system is: in the socket, in the peer, and in every
frame the network may still deliver. Two lemmas, `RecvStep` and `OpenStep`, carry what is said of old
frames across a step, so that the proof of an action is about the socket, the peer and the
new frame. `TcpAssumption` bounds the data of a connection by half of the sequence number
space: in longer connections a frame that was delayed long enough passes for a new one, and
only the life time of frames, which is not modelled, excludes that.

**HTTP.** `HttpIInv` says who has the buffer and the files, and for each place where a callback
may wait how far request, file, buffer and answer have come together. It speaks of the
buffer only for the task that holds it, so the steps of the other tasks keep it (`TaskStep`), and
the proof of an action is about one task. `Told` adds that the length in the header is that of the file,
`Consumed` that the unread part of a request is as long as its length field says. `NoRefusal`
excludes the answer 405, whose status line is cut; `WellFormed` excludes requests that are not
requests, and a body behind OPTIONS, which the API does not read.

**Websockets.** `Framed` says nothing of the bytes that are still in the socket, and a later header
is only found if they are the right ones. `WsIInv` says that those bytes follow each other and that the
peer goes on behind the last of them (`WsStream`), and for every place of the task which byte it reads
next (`WsWhere`): the first of a frame before a header, the third behind the first two, and within a
payload byte `rx_offs` plus what was taken. All of it is said only while `wodd` is false, and what has to be shown of
a step is that it either keeps it or makes `wodd` true: a header in parts, a 64-bit size or a wrong mask bit
is noticed where the header is read, a large control frame where it begins, since its `rx_offs` is not kept. Pieces of payload may end
anywhere (`Take`). `WsEInv` adds how much of the peer's payload has been sent back:
all of the frames before the current one and `rx_offs` bytes of it, less the part the application still has
in its hands (`EchoWhere`). `EchoRight` compares whole streams, which are joins, so its proof rests on the
lemmas about `FlattenSeq` too (`HeardNext`, `SaidNext`). That the bytes met the right bytes of the key is a third invariant (`Keyed`): as
long as no piece was torn, a part of a frame that is read starts at a multiple of the key unless the frame is over. While the
connection is being closed nothing is echoed, and what was sent remains right.

**USB control transfers.** None of the three properties says what the endpoint waits for, so none is
inductive. `CoreInv` describes a transfer as phases: listening for a setup frame, taking it from the
FIFO, refusing it, sending a packet of the answer, having sent it, waiting for the status, receiving data,
confirming. Each phase fixes both control blocks, the registers, the FIFOs, how much of the answer the host has and
how far the request has been applied. One pass of `USB_HandlerTask` runs a callback that starts
the next transfer, so its proof goes phase by phase, and within "the frame is complete" request by request;
each step of the host leads from a phase to a phase. The phases overlap in one place, and there the invariant would be
false without care: the host may have sent the next setup frame while the handler has not yet seen the end
of the transfer before (`Between`). During a reset both endpoints are flushed and the host has forgotten
everything (`Flushed`); the enumeration leads back to listening. `HostPolite` and `QuietReset` are
hypotheses because the code does not guarantee either (section 3). `CoreAssumption` says what the
requests are: frames whose direction fits the request, and none that cuts the configuration descriptor
to exactly one packet. The last part is needed: for such a request `USBCore_DataINCallback`
queues an empty packet behind the data, which a host that has all it asked for does not fetch, and the
next answer is then refused by a busy endpoint. A packet holds more than two units (`Mps > 2`), so that
the two bytes of a status do not fill one, as they do not fill the 64 bytes of the code.

**USB serial port.** The two directions share nothing but the bus, so `VcpInv` has two halves and each step
disturbs one of them, except the pass of the handler. Towards the host (`TxInv`) the buffer of
`USBVCP_TxTask` and its queue hold the last bytes the application sent, in order (`Numbered`); the
transfer of the buffer is to be written, in the FIFO, taken by the host, followed by its empty packet, cut off
by a reset or over; and the host has everything before the buffer, and the buffer too once the transfer is
past the point where the host took it (`Known`), although the task learns that only later. A reset takes this
knowledge away and the task repeats the buffer. Towards the application (`RxInv`) the bytes the application
has, the queue, the buffer and the endpoint together are one rising sequence (`Arrived`), and what is still in the
reception FIFO is above it (`InLine`): that is what makes it safe to drop a packet that arrives without a
transfer, or the end of one that a reset interrupts. Without a reset nothing is dropped (`RxExact`), because a transfer
takes exactly one packet and its buffer has room for it.

### Only model-checked

* All liveness: it is out of the prover's reach.
* `Wire`, `DhcpFrame`, `MdnsFrame`, `Stdio`: functions on bytes, which TLC compares with their
  inverse over bounded inputs. What a recursive definition computes needs induction
  over data, whose library theorems the provers cannot instantiate. (Where a proof needed a least
  element or a short induction over the naturals, it is obtained from their
  well-foundedness for a property given as a set; see `Least`, `NatInduct`
  and `Recursion` in module `Induction`.)
* The network interface (`EemIntact`, `EemSent`): not proved. `Eem` packs frames into transfers and takes
  them apart again with recursive functions, so its invariant has to say what these compute.
* `TasksOK` and `MemoryOK` of `MCKernel`: statements about an instance, which consist of invariants
  that are theorems above.

## 5. Plan

Done: the kernel (queues, semaphores, scheduler, events, heap), the network stack
(frames, UDP, one TCP connection, frame buffers with ARP), DHCP and mDNS, the USB stack
with both of its users, HTTP, websockets, text; proofs for the kernel, and for frame buffers,
UDP, DHCP, TCP, HTTP, websockets, USB control
transfers and the serial port.

To prove: `Eem`, on the facts about `Usb` in `UsbProofs` (a proof module may extend several components
that share no names).

To model:

1. `TcpSock`: several sockets on a port, reuse of a socket; its composition
   with `RxTx`, where the output task holds the lock of the sockets during address
   resolution and the reception task that would deliver the answer waits for it.
2. Two tasks on one websocket, composed with `Sem`: the error paths that keep `rx_sem`.
3. `Yield_WaitAll` with a clock; `Ev_Subscribe`.

Abstract specifications worth stating: a lossless byte stream for `TcpSock` and `Vcp`, a
transfer that ends exactly once for `Usb`, a lease book for `Dhcp`.

## 6. Running

```
tlc -workers 2 -config MCKernel.cfg MCKernel
tlc -workers 2 -config MCMemory.cfg MCKernel
tlc -workers 2 -config MCNet.cfg MCNet
tlapm TaskProofs.tla
```

and so on for `MCRxTx`, `MCUsb`, `MCBulk`, `MCWeb` and the cfg files of the violations, and for
`MemoryProofs`, `RxTxProofs`, `DatagramProofs`, `TcpProofs`, `HttpProofs`,
`UsbProofs` and `Induction`.

## 7. Not modelled, and why

* Context switch, stacks, register access and DMA: below the level of a state machine.
* The peripheral drivers (serial port, SPI, I2C, analog inputs, flash): their correctness is
  that of a hardware protocol, not of state in the code.
* The contents of pages and files: constant data.
* Real time: timers are steps that may happen at any moment, so the arithmetic of
  `time.c` and the subtraction of elapsed time in `Yield_WaitAll` and in the receive
  functions of the websockets are not seen.
* The logarithms of `print_double`; `string.c`, `sha1.c`, `sha2.c`, `base64.c`: pure
  functions, for which test vectors are the better check.
* `TCPIPIcmp_Ping`, `Yield_Parallel`: nothing in the program calls them or they are loops over modelled
  calls.
* Drivers outside the source list of the Makefile.
