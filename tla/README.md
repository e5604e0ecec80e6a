# A TLA+ verification project for vcam

vcam is a virtual PTP camera: a C program that answers a PTP initiator
(libgphoto2, a vendor's app, a PTP/IP client) the way Canon, Nikon, Sony and
Fuji bodies do. This directory holds TLA+ modules that model its core, TLC
configurations that check them on small instances, and TLAPS proofs, for every
value of the parameters, of every safety invariant the runs check. Paths below
are relative to the repository; `PROJECT.json` maps every definition to the lines it models.

Contents: 1 inventory - 2 modules and code - 3 runs - 4 fairness - 5 proofs -
6 disagreements found - 7 what is left out - 8 plan.

## 1. Inventory

One `vcam` structure per camera. All camera code runs in the thread of the
backend that serves the host; several cameras may live in one process
(`vcam.h`: "vcam can run with concurrent cameras").

| component | state | operations | properties that make it correct |
|---|---|---|---|
| event list (`vcamera.c`) | `first_interrupt`, a list sorted by trigger time; three channels in one list | inject; four consumers: interrupt endpoint, Fuji pop loops, EOS GetEvent, Nikon GetEvent | sorted; each event out once, on its channel, oldest first, not early; replies complete; polls make progress |
| transaction engine (`vcamera.c`, `ops.c`) | bulk-out and bulk-in buffers, `seqnr`, `session`, `ptpcmd` | write a chunk, dispatch command and data containers, answer, read | one response per transaction, every container handled once however it is cut, matching ids, no hang |
| object store (`vcamera.c`, `ops.c`, `canon/objects.c`) | `first_dirent`, `ptp_objectid` | scan, capture (standard, EOS, Nikon), delete one/all, list, read | handles unique and never reused, parents never dangle, captures announced once, no crash |
| USB transfer splitter (`usbthing.c`) | static `last_length` | one bulk-in transfer | no transfer mixes two containers, the stream is whole |
| Fuji multiple transfer (`fuji/fuji.c`) | list head, handle 1, `sent_images`, kill switch | GetObjectInfo, GetPartialObject, completion | images arrive whole, both ends count alike, the transfer ends |
| device properties (`props.c`, `vcamera.c`) | a list of properties with typed values and forms | register, get, set, describe, step | no value is shorter than its readers copy; every change reaches the client's cache |
| Canon EOS, Nikon, Sony operations | event mode, SDRAM object, capture destination, live view flag, step properties | vendor opcodes | a captured image can be downloaded whole; announcements carry the value after the change; a step lands where it should |
| Fuji import and wireless modes (`fuji/fuji.c`) | import steps, current handle, card, queued events | prelude, enumeration, thumbnail, dates, remote mode | the gate is earned on the connection that passes it; answers agree with the card; a request ends the process only for a reason the code has; one thread serves live view |
| Fuji server, PTP/IP server (`fuji/server.c`, `ptpip.c`, `packet.c`) | sockets, init packet, bridge to the engine, threads of the event and remote ports | accept, receive, convert, forward, reset | each client gets the answers to its own requests in order; the next client is served |
| libusb backend (`usb/libusb.c`) | list of pending transfers, deadlines | submit, cancel, walk with callbacks, interrupt poll | a submission is reported once; no event is lost; waits end |
| vhci backend (`usb/vhci.c`, `usb/device.c`) | USB/IP stream, URBs | submit, unlink, control requests | both ends agree where an answer begins; every URB is answered or given up |
| discovery (`*/ssdp.c`), start-up, logging, packing | - | - | - |

How they interact: a backend (libusb replacement, vhci, PTP/IP, Fuji server)
hands the bytes of the host to `vcam_write`; the engine cuts containers off and
calls opcode handlers; handlers change the object store and the properties,
inject events, and append containers to the bulk-in buffer; the backend reads
that buffer back, over USB through the splitter, and polls `vcam_readint`.

What is hard here: containers cut anywhere by the host; two handlers (command
and data phase) sharing one transaction; three event channels in one list with
a wall clock that may move back; buffers at their limit; static state shared by
cameras; handles that outlive their object; a client that works with handle 1
while the camera redefines it. `PROJECT.json` lists the hazards line by line.

## 2. Modules and the code they model

**EventQueue** - `ptp_inject_event_data`, `vcam_readint`, `find_due_entry`, the
three `ptp_pop_*` and the handlers that loop over them. A list entry is a record
with its channel, size and trigger time; trigger times are second/millisecond
pairs with the code's arithmetic, including the `>` in the carry test, which
lets a time of exactly one full second stand in the sub-second field. The
clock's unit is a millisecond and a second has `MsPerSec` of them. A drain takes
one step to begin and one per loop iteration, so the clock may move between two
pops, as it can in the code. `hist`, `delivered` and `dropped` are history.

**PtpServer** - what a responder promises: a call is answered once, atomically,
with its transaction id. **Responder** - the engine: buffers as sequences of
4-byte words, `vcam_write` with any cut, `vcam_process_output` with its checks in
order, the handlers of sessions and device properties including the
two-phase `SetDevicePropValue`, responses stamped from `seqnr`. It implements
`PtpServer` under the mapping at the end of the module. The initiator is
synchronous; the constant `Careless` widens what it may do.

**UrbSplitter** - `urb_splitter` for several cameras and one `last_length`. A
read of the length field from an empty buffer yields any value of
`GarbageLens`: the code reads an uninitialised buffer there.

**ObjectStore** - the scan (`read_tree` adds a DCIM entry when the card has
none), InitiateCapture, the EOS and Nikon card captures, DeleteObject,
GetObjectHandles/GetNumObjects and the operations that look a handle up, with
their refusals. A pointer to an entry is its handle, which `HandlesUnique`
justifies. It assumes an open session and does not ask for the information of
handle 0 (the root's parent pointer is never initialised). A Fuji body
behaves like one that never triggers a card capture; Sony refuses both captures
and deletes of this kind.

**FujiTransfer** - multiple-transfer mode: `fuji_find_downloadable_object`, the
wrapper around GetPartialObject with its own completion test, the standard
handler's cap, `fuji_downloaded_object`, the kill switch, and a client that
waits for an offer and fetches parts up to the announced size. The same call in
`ops.c:703` is under `#ifdef VCAM_FUJI`, which no build defines.

**RemoteCapture** - captures of Canon, Nikon and Sony bodies into memory (one
picture) and onto the card, their announcements, the whole and partial transfer
operations with the order in which each looks at memory and card and its own
limit, TransferComplete, DeleteObject, DelImageSDRAM, Sony's shutter controls
and its ObjectInMemory and FocusFound properties. Pictures are numbered; a
download remembers which pictures its bytes came from. Announcements form a
queue because a family gives all of them the same delay (the order itself is
`OldestFirst` of EventQueue). The client finishes one download before it reads
the next announcement. Assumptions on it: Nikon and Sony clients do not release
the shutter during a download (all pictures in memory have the same handle, so
the rest would come from the new one), Canon clients may; the properties the
camera drives itself are not written. A source file that cannot be loaded ends
the program on Nikon and Sony and makes a Canon capture do nothing.

**LibusbAsync** - asynchronous transfers of the drop-in libusb. The pending list is
a sequence and the walk's pointer `pp` a position in it; `finish_entry` unlinks
first and then runs the callback, which is a stack here because a callback may
cancel another transfer, whose callback runs inside it. A client of kind "pool"
keeps to what the comment on `finish_entry` allows; one of kind "free" also
cancels and re-submits others from callbacks (there the walk may meet a freed
entry, so `WalkSafe` is stated for "pool").

**TcpBridge** - both TCP servers over an abstract camera that answers as Responder
does. A packet arrives in up to three parts; the client may leave at any
moment; the first `send` to a client that left succeeds and the next is SIGPIPE.
`reset_client_bridge`, the first-write flag and the init packet are in the
model; contents are transaction ids.

**FujiWifi** - the GFX100 II import gate (ten steps, one bit each in the code, a set
here), enumeration with the code's two exchange sorts, dates with their array
limit, thumbnails of the current object, the event list with its buffer, and
the threads that bind the remote ports. A property is written with the expected
value, another one, or one of the wrong length, against which most of the cases
assert (`Asserted`; nothing defines `NDEBUG`). Events are packed into the list
without a bound, as in the code: writing beyond the buffer is undefined
behaviour, after which the process ends or goes on (`Overflow`). A bind fails because
a thread has the port or for reasons outside of the process (`refused`), and the
frame file may be missing (`jpeg`). Threads never end. The loops of the code (collecting the
files, a pass of the exchange sort, the sort, the dates) are recursive
functions on the position they have reached. A request with its data and answer is
one step: the camera runs it in one call, and TcpBridge has how it travels.

**Vhci** - the USB/IP server and a kernel that enumerates, sends the control requests
of drivers (`Requests`), submits on the endpoints it was told of, unlinks and
detaches. Control requests are those of chapter 9 and of the still image class;
`ABORT` stands for the calls of `abort()` and the failed assertions among them. The
kernel polls the interrupt endpoint without knowing whether there is an event.
Answers are headers and data in one stream; lengths are units. The length -20 of a
poll that found none goes into the header, and the `send` of -20 bytes fails or
puts bytes on the socket that no header announces; the kernel drops the connection
when it meets them.

**DeviceProps** - registration of table rows (`write_typed` cuts to the width), the
property list with the number of bytes actually stored, EOS writes, captures
and GetEvent, Nikon writes and live view, Sony writes of any length and its step
control, against a client that keeps a cache as libgphoto2 does. `StepExact`
compares the code's clamped arithmetic with the nearest admissible value.

**SeqLemmas** and the seven modules **EventQueueProofs**, **ObjectStoreProofs**,
**ResponderProofs** (Responder and TcpBridge), **UsbProofs** (LibusbAsync,
UrbSplitter and Vhci), **FujiProofs** (FujiWifi and FujiTransfer),
**RemoteCaptureProofs** and **DevicePropsProofs** - see section 5. Each extends the
modules it is about; so UrbSplitter, Vhci, TcpBridge and FujiTransfer have a
prefix in `SplitterSpec`, `UsbipSpec`, `BridgeSpec`, `TransferSpec` and the other usual
names. The **MC** modules only give values to constants.

## 3. Runs

A property named here is a conjunction of the named parts above it in its module.

| run | question | result |
|---|---|---|
| event_queue | all list invariants and consumer rules, clock also stepping back; interrupt polls get past EOS entries nobody drains | holds |
| responder | one answer per transaction, every cut handled, ids match (`PipelineSound`), no hang, implements PtpServer | holds |
| urb_splitter | phases separate (`Framed`) and the stream whole, hosts taking turns | holds |
| object_store | handles unique, parents listed (`ListSound`); known handles stay valid, captures announced once (`ClientInformed`); no reuse, no crash | holds |
| fuji_transfer | images whole, counts agree (`TransferExact`), the transfer ends | holds |
| remote_capture | every download one whole picture, the right one (`DownloadsRight`); memory and card disjoint, Sony's flags agree (`MemorySound`); nothing lost by a confirmation; downloads end | holds |
| libusb_async | each submission listed and reported once, the walk never in a freed entry (`PendingSound`); events served once and in order, nothing stale (`NothingLost`); time-outs real, waits end (`WaitKept`) | holds |
| tcp_bridge | answers in order and only the client's own (`RepliesInOrder`); nothing left over, the server ends only when TCP makes it (`BridgeSound`); answers come, the next client is accepted, event connections acknowledged (`ServerResponds`) | holds |
| fuji_wifi | the gate (`ImportGated`); what is enumerated (`ImportExact`); one thread at most serves live view, and the process ends only for a bad write, a full list, or a port it cannot have (`RemoteSafe`); the live view starts (`StreamStarts`) | holds |
| vhci | both ends in step until a poll finds no event, no URB answered twice, an abort only for a request the device does not handle or for data in too many pieces (`UsbipSound`); every URB answered (`EveryUrbAnswered`) | holds |
| device_props | value widths, flags and properties agree (`PropsSound`); the client's cache (`ViewTrue`); `StepExact`; stepping and frame polling end (`ClientArrives`) | holds |
| device_props_dump | `ViewTrue` for EOS bodies with two-byte exposure settings | violated |

Bounds, and why they are enough:

- *EventQueue*: three entries on three channels make every order of two
  competing entries plus one in front of or between them; a second of 3 ms and
  delays 2 and 3 reach the carry below, at and above the limit; the EOS reply
  holds one entry of 6 with room for one of 4 only without the terminator, so the
  overflow branch happens; `NikonMaxEvents` is below the number of entries. The
  proofs remove all of these bounds for the safety properties.
- *Responder*: transaction ids up to 3 give four transactions in a row, enough
  for a session to be opened, used, closed and used again; containers have up to
  five words and every cut of them is tried.
- *UrbSplitter*: lengths 1 to 4 against packets of 2 and containers of 3 and 5
  words: shorter than, equal to and longer than each.
- *ObjectStore*: an empty card, one with DCIM and a picture, one with a picture
  outside DCIM; three captures, so that two pictures share a virtual folder and
  a third comes after it was deleted.
- *FujiTransfer*: one image (fewer than the camera counts to), two, five (more);
  sizes 1 and 3 with a chunk limit of 2, so images need one part and several.
  Parts are no larger than the chunk limit: see section 6.

- *RemoteCapture*: three pictures let a second replace the first before, during
  and after its download, with a third on the card or pending; sizes 1 and 3
  against limits of 1, 2 and 3 and parts of 1, 2 and 4, so that a download needs
  one part or several and a part may be cut by the limit, by the end or by
  neither. The card may or may not have the folder of captures already.

- *LibusbAsync*: two interrupt transfers compete for two events due at once, with a
  bulk transfer in the list before, between or behind them; time-outs of none
  and 1 against a clock up to 3, a second of 2 units so that deadlines carry.
- *TcpBridge*: three requests on each of two connections, of every kind; every cut
  of every packet; a client may leave after any step.
- *FujiWifi*: two connections, so that one client's steps could leak to the next;
  cards with fewer, as many and more dates than the array; one picture taken or
  deleted between any two requests. The clients of a behaviour come for the import or
  for the remote mode, which does not look at the card (`Cards` has one for it). Two
  openings of the remote ports, of one client or of two. An event list of 164
  bytes holds exactly the start-up events and one request of 21, and the client
  may send two before it fetches (`MaxNotices`), so that the list fits, is full and
  overflows; 4096 bytes hold 32 such requests.
- *Vhci*: seven URBs are enumeration (four) and three of any kind; OUT data of 1
  and 3 units read in at most two pieces. The control requests are one
  for every way in which the device treats them (`FewRequests`); the invariant alone
  also holds for all of them (`AllRequests`).
- *DeviceProps*: `ValueHalf = 4`: values are 0 to 7, which `sony_apply_step` reads
  as -4 to 3 in ranges of one and two bytes and as 0 to 7 in ranges of four (the
  widths share one modulus; what differs is the sign); steps of -2 to 1: ranges
  whose bounds are negative, reached and overshot; an enumeration whose order is not
  that of its numbers, and an empty one; the third viewfinder call succeeds
  where the code's fifteenth does; four writes with two announcements waiting.

Runs that switch the deadlock check off may stop: at the bound on what the
client or host asks for, because a transfer is over, or because the server has
ended as the code does.

## 4. Fairness

- *EventQueue*: the clock runs and a handler's loop goes on (weak fairness); the
  interrupt endpoint is served again and again (strong fairness), because
  libgphoto2 keeps interrupt transfers submitted and the backends poll them in
  turn with other requests. Nothing is assumed of GetEvent, which a client may
  never send. A clock that is set back for ever makes nothing due, so the
  property supposes that it is set back finitely often.
- *Responder*, *UrbSplitter*, *FujiTransfer*, *RemoteCapture*: an initiator that has begun a
  transaction or a download goes through with it. The camera's part runs to its
  end inside the call that brings the bytes, so it needs no fairness of its own.
- *LibusbAsync*: the library's loops run without waiting for anyone, callbacks
  return, and the clock advances. *TcpBridge*: the server's thread and its event
  thread run when they can, and TCP delivers what was sent; nothing is assumed
  of the client. *FujiWifi*: the port thread runs and an application connects to
  the ports it asked for. *Vhci*: the server runs, sockets deliver, the kernel
  reads its answers. *DeviceProps*: the client polls its event channel, goes on
  asking for a frame and goes on stepping, as libgphoto2's loops do.

## 5. Proofs

Each theorem below holds for every value of the constants that satisfies the
named `ASSUME`s of its module (types, and what the code's tables guarantee, such as
an upper bound on a counter); a further hypothesis is part of the theorem and
given here with its reason. A property seldom follows from itself: each module
defines an inductive invariant, proves that `Init` establishes it, that every
action preserves it (one lemma per action or group of actions), and that it
implies the property. `SeqLemmas` says what inserting into, removing from, appending to and
concatenating sequences does to their elements, for the modules that need it.

| module | theorem | states |
|---|---|---|
| EventQueueProofs | `TypeCorrect` | `TypeOK` |
| | `Sorted`, `Isolation` | `QueueSorted`, `ChannelIsolation` |
| | `ServedOnTime`, `ServedInOrder` | the action properties `NotEarly`, `OldestFirst` |
| | `EventsConserved` | `Conservation` |
| | `RepliesComplete` | the action property `DrainComplete` |
| ObjectStoreProofs | `ListStaysSound` | `ListSound` |
| | `ClientStaysInformed` | `ClientInformed` |
| | `HandlesAreFresh` | the action property `HandlesNotReused` |
| | `ProcessSurvives` | `NeverCrashes`, if `~DeleteAllAfterCapture` |
| ResponderProofs | `PipelineStaysSound` | `PipelineSound`, if `~Careless` |
| | `EngineRefinesServer` | initial states and steps are those of PtpServer, if `~Careless` |
| | `BridgeStaysSound`, `RepliesStayInOrder` | `BridgeSound`, `RepliesInOrder` of TcpBridge |
| UsbProofs | `PendingStaysSound`, `NothingIsLost` | `PendingSound`, `NothingLost` |
| | `TimeoutsStayReal` | `TimeoutsAreReal`, the safety part of `WaitKept` |
| | `TransfersFramed`, `TransfersIntact` | `Framed`, `StreamIntact` of UrbSplitter, if `~Concurrent` |
| | `UsbipConnectionSound` | `UsbipSound` of Vhci |
| FujiProofs | `ImportStaysGated` | `ImportGated` |
| | `ImportStaysExact` | `ImportExact` |
| | `RemoteStaysSafe` | `RemoteSafe` |
| | `MultipleTransferExact` | `TransferExact` of FujiTransfer, if no part exceeds the chunk limit |
| RemoteCaptureProofs | `DownloadsStayRight`, `MemoryStaysSound` | `DownloadsRight`, `MemorySound` |
| | `MemoryIsDelivered` | the action property `EmptiedIsDelivered` |
| DevicePropsProofs | `PropsStaySound` | `PropsSound`, if `CardFirst` |
| | `ViewStaysTrue` | `ViewTrue`, if `FullWidth` |
| | `StepsAreExact` | the action property `StepExact`, if `OrderedRanges` |

**Event list.** Sortedness by the *instants* entries trigger at does not follow
from the field-by-field comparison alone, because a stored time may be
denormalised; `TriggerTimeProperties` and `LaterProperties` show that with at
most one full second in the sub-second field the comparison may call two equal
instants different but never orders two different ones wrongly. The inductive
invariant `IInv` adds to the properties that an entry in the list carries the
channel and the instant history recorded for its id (`QueueMatches`) and that a
delivered id is known (`DeliveredKnown`); without the first, nothing connects
what a consumer pops to when it was scheduled. `StepShape` reduces every step to
four shapes (injects one entry, delivers one, drops one, leaves list and
history alone), and each conjunct is preserved by each shape. `Conservation` is
then inductive relative to `IInv`. For `DrainComplete` the loops must be right to
stop at the first entry that is not due: `NotDueIsLater` shows that such an entry
triggers after this instant, because the clock, unlike a trigger time, is always
normalised, and sortedness carries that to everything behind it;
`NikonCounted` keeps the count in Nikon's reply within its array.

**Object store.** `TreeInv` joins uniqueness and parents with two facts nobody
states in the code: the counter is ahead of every handle in the list and in every
event (`CounterAhead`), although a scan counts on from it and a capture
increments it first; and a list with a picture has a DCIM entry (`DcimKept`),
which InitiateCapture dereferences without a test. The hypothesis of
`ProcessSurvives` is the defect of section 6.

**Engine.** `PipeInv` says in which of five phases a transaction is - no request,
command on its way, between command and data, data on its way, answered - and
for each what the wire, both buffers and the two handlers have done (`Phase`),
next to what connects the camera's counter with the initiator's (`TidInv`).
Cutting containers anywhere then only moves words within a phase. For the
refinement each phase determines the abstract call and answer (`CallShape`,
`AnswerShape`); `Request` maps to the server's call, the last chunk of the
transaction's last container to its atomic answer, the read of the response to
its return, and everything else stutters. With `Careless` initiators the
property fails (section 6).

**TCP servers.** `BridgeInv`: what the client has sent is orderly, a command
followed by the data it announces (`WireInv`); where the server is in its loop
tells how much of it was read, down to the part of a packet, and which packet
came last (`LoopInv`); there is something to send whenever the server sends
(`QueueInv`). Then (`StepInv`) a client that is still there has received exactly
what it is owed for the packets read so far - the concatenation `Owed` - except
for the answer that is just being sent. The reset between two connections and
the dropped connection are the steps this could fail at; `RepliesInOrder` is
carried in the invariant beside it because a client that left keeps a front.
Both are about connections in step (`InStep`): over PTP/IP a refused write ends
that, in the code too (section 6).

**libusb.** `LInv`: the list holds exactly the transfers the client has pending,
each once (`ListInv`), and the walk's pointer is a position of the list, whatever
callbacks did to it (`CallInv`). `TimeoutsStayReal` rests on `ReachedDeadline`:
deadlines carry at most one full second in their microseconds, and the
comparison of the two fields still never reports one early.

**Transfer splitter.** `UrbInv`: one transaction at a time is under way in the
process, so that the shared `last_length` is its own, and what the camera still
holds is the tail of that transaction's two containers, with `last_length` the
rest of the container being read, or 0 at its beginning (`CameraInv`). Every
transfer then ends at or before the end of a container. The stream is compared as
one concatenation: a read moves a front of the buffer to its end. The hypothesis
`~Concurrent` is the defect of section 6.

**vhci.** `UsbipInv`: a URB is in the commands, in the server's hands or answered,
and in one of these only once (`UsbipCommandInv`, `UsbipServerInv`,
`UsbipAnswerInv`), and in the stream of answers data stands behind a header that
announces it and nowhere else, also when the host has read the header and not the
data (`UsbipFraming`). Negative lengths and bytes that no header announces are on
the socket only behind the answer to an empty poll (`UsbipLengths`). The theorem has
no hypothesis: what it says of an abort is that the server holds the request that
explains it, and for the other two calls of `abort()` - an endpoint the device does
not have, data both ways - that they are never reached, because the host only knows
the endpoints of the configuration it read (`UsbipHostInv`) and every request with
data for the device is answered without any.

**Fuji wireless.** `WifiInv`: the steps the gate remembers are those the present
client took, in order, and the current object is the one it described
(`GateInv`); the events waiting are bounded by the requests since the last fetch
(`EventsInv`: 6 of the start and 21 for each). For the ports, a thread has each port it
has tried to bind, or the bind was refused, or another thread has it; no port has
two threads, and none gets past an accept without its port (`PortsInv`), so that
a frame comes from the one thread that sleeps with both (`FramesInv`). `RemoteSafe`
follows without a hypothesis on the client: it says what must have happened when
the process ends. The events of one fetch overrun the code's 4096 bytes only if the
client has sent more than 32 requests of the largest kind since the last one,
`2 + 6 * (6 + 21 * waited) > EventBytes`. For `ImportStaysExact` the invariant is
joined by `ToldInv`: handles on the card differ, those of files are not 0
(`CardDistinct`), and what was told last is exact. The sorts are proved for
lists of any length: an exchange permutes the list (`Shuffled`), pass *i* brings
the *i*-th value to its place (`PassResult`), and after the last pass the list
is a permutation in order (`SortResult`). The loop over the dates keeps that
the dates found so far are those of the files seen, each counted, and that the
list is only incomplete when the array was full.

**Fuji multiple transfer.** `FujiTransferInv`: which entry handle 1 stands for -
the second entry first, afterwards the head of the list - and that every
completion moved the head by one (`HandleInv`); and that a client within a
download either misses a part that the camera will count as incomplete or has
the whole image, which the camera has counted and the client has not
(`ClientInv`). With parts above the 16 MiB cap the completion test is wrong (section
6), which is the hypothesis.

**Remote capture.** `CaptureInv` says of every picture anyone can still name (on the
card, in memory, announced, being downloaded) that its handle names no other,
except the fixed handle of Nikon's and Sony's memory, which names the newest
(`KnownInv`), and of a download that its bytes are from one picture which its
handle still names if it names any (`Source` in `JobInv`). This is where the
assumption that the counter stays below the fixed handle (`0xffff0001`,
`0xffffc001` in the code) is used.

**Device properties.** `Core` is the type of the property list: stored lengths,
queued announcements, the client's goal. On top of it, for `PropsSound`, that the
copies of a property agree with it (`FlagInv`); for `ViewTrue`, that the last
announcement of a property that is still waiting carries its present value
(`Told` in `ViewInv`: without it a stale announcement could overwrite a true
belief); for `StepExact`, that ranges stay in order (`RangesInv`), with `NumberStored`
(storing a number of the width and reading it back) and `ClampNearest` (the
clamped result is the nearest admissible number). Hypotheses: `CardFirst` fails for the 200D and
`FullWidth` for the models with two-byte settings, both disagreements of section 6;
`OrderedRanges` fails for Sony's 0xd215 only.

What the attempts changed in the models: CASE expressions with overlapping
guards, which TLC evaluates in order and the semantics does not (Responder,
TcpBridge); a frame counted although the accept before it had aborted
(FujiWifi); ranges of four bytes read as signed, and the lower bound tested after
the upper one (DeviceProps); filters and sorts written as the code's loops
(FujiWifi).

**Induction over data.** The provers cannot instantiate a theorem that has an
operator as a parameter, as the library's induction theorems do. Where a proof
needs induction, the set of the numbers for which the claim holds is defined and
`SetInduction` of SeqLemmas shows that it is all of `Nat`; the values of a
recursive function come from `LoopValues`, which shows that a function with the
equations of the definition exists. The folds of the libraries are recursive in
the same way (`FlatExists` and `FlatNext`, for FlattenSeq).

**Only model-checked.** Everything about progress - `InterruptServed`,
`TransactionCompletes`, `ResponseArrives`, `TransferEnds`, `DownloadEnds`, `WaitKept` but for its safety
part, `ServerResponds`, `StreamStarts`, `EveryUrbAnswered`, `ClientArrives`, the fairness in
`ImplementsServer` - because the prover has neither fairness nor ENABLED.

## 6. Disagreements between the code and what it says

The run `device_props_dump` refutes `ViewTrue`: *EOS announcements of properties that
are not 4 bytes wide carry 0* (`canon/canon.c:116`), and most models register
the exposure settings with two bytes. `PROJECT.json` quotes the lines.

The following are properties of the modules that TLC refutes when the named
constant is changed in the run's configuration (or, where none is named, when
the property is added to it):

| module, property | constant | what the code does |
|---|---|---|
| EventQueue, `EosDrainLosesNothing` | - | an EOS entry that does not fit the reply was already popped and is freed (`canon.c:529`); `canon.c:518` says "Drain the EOS event channel into one response" |
| Responder, `InSync` | `Careless = TRUE` | a refused SetDevicePropValue is refused again in its data phase, and every later transaction is answered one late (`ops.c:1012`); `ops.c:1019` says "we emitted the response already in _write" |
| UrbSplitter, `PhasesSeparate` | `Concurrent = TRUE` | two cameras share the static rest length (`usbthing.c:203`); `vcam.h:270` forbids static data in handlers |
| ObjectStore, `DeleteAllSurvives` | `DeleteAllAfterCapture = TRUE` | delete-all frees a string literal after a capture (`ops.c:807`, `vcamera.c:361`) |
| FujiTransfer, `NoImageTwice` | - | handle 1 is given to the second entry, and the first completion moves the head to the same entry: the first image is offered twice (`fuji.c:237`, `fuji.c:1133`) |
| FujiWifi, `NextClientIsServed` | - | each InitiateOpenCapture starts a thread that holds the remote ports for ever; the bind of the next one fails and its `accept(-1)` aborts the process (`fuji/server.c:330`); `fuji/server.c:454` says "Connection closed; waiting for a new client" |
| Vhci, `LengthsSane` | - | a poll without an event returns -20, of which only -1 is taken for no answer, and is answered with that length (`usb/vhci.c:75`); `usb/usbthing.h:20` says "bytes read/written, -1 for no response" |
| Vhci, `StandardRequestsHandled` | - | CLEAR_FEATURE and GET_CONFIGURATION end the process (`usb/device.c:175`); `usb/usbthing.h:55` says "will handle all standard control requests and state logic" |
| DeviceProps, `PropsSound` | `Bodies <- SdramBodies` | the 200D reports SDRAM while captures go to the card until the property is written (`canon/models/200d.c:56`, `canon.h:23`) |

More were met while modelling and have no run of their own: an accepted
container is not moved out of the bulk-out buffer, unlike on the error paths,
so a command and its data in one write would not both be handled (no backend
does that); Sony's GetPartialObject serves the live-view JPEG without the 4-byte
header that GetObjectInfo counts and GetObject sends; `capcnt` in
InitiateCapture is a local variable, so the store never becomes full although
the code "declares store full at picture 151"; `ptp_pop_event` is documented as
FIFO (`vcam.h:373`) while equal trigger times come out in reverse; Fuji's
completion test ignores the 16 MiB cap of the standard handler, so one request
beyond the cap counts as complete when only the cap was sent - `ImagesIntact`
is checked for parts up to the cap.
The Fuji event list has no bound (`fuji/fuji.c:841`), and a property written with the
wrong length, or EnableCorrectFileSize with a value above 1, ends the process
(`fuji/fuji.c:776` to `815`). A descriptor of an endpoint, of a second configuration or a
string longer than 255 bytes ends it over vhci.
A client that leaves before its answer was sent kills either TCP server by
SIGPIPE. The PTP/IP server ends when TCP delivers a packet in parts or a write
comes without the data the camera waits for, sends one
answer per round, so that the second answer of a refused write stays in the
buffer and later replies are late by one, and does not carry the parameters of
a response. Sony's 0xd215 is a two-byte range 0 to 65535, whose upper
bound the signed comparison of the step control reads as -1: the range is empty,
and every step stores 0xFFFF (`OrderedRanges` of DevicePropsProofs leaves such
ranges out). Nikon's descriptions send the
Get/Set byte inverted with respect to the standard. In Fuji's raw-conversion
mode (`fuji/usb.c:316`) the object handlers registered by `fuji/fs.c`, whose comment
says "Override entire filesystem API", are replaced by the ones registered
after them (`fuji/usb.c:350`). After a detach the vhci loop spins on a `recv` of 0.

## 7. Not modelled

Wording, logging and dataset layout (DeviceInfo, ObjectInfo, property
descriptions, live view frames) carry no control. A container whose size field
is zero, which makes the engine meet the same header for ever
(`vcamera.c:457`), is left out of Responder. `usb/otg.c` is stale and
not built. Discovery formats and parses text and shares no state with the
camera. Start-up, `pack.c`, `data.c`, `log.c`, `socket.c` and `usb/usbstring.c` are I/O,
tables or byte order. The Fuji USB modes (`fuji/usb.c`, `fuji/fs.c`) mostly repeat
the control of ObjectStore and EventQueue over the splitter; their event list of 512
bytes (`fuji/fuji.c:860`) is packed like the one of FujiWifi. What an overrun of the
event list does to the heap beyond ending the process, now or not at all, is not
modelled, nor is what the vhci server sends after the kernel has detached.

## 8. Plan

1. **FujiUsb** - card reader and raw conversion next to ObjectStore.
2. **Discovery** - registration and autosave dialogue of the Fuji server.
