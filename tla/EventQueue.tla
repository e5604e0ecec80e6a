----------------------------- MODULE EventQueue -----------------------------
(***************************************************************************)
(* The event list of one virtual camera (cam->first_interrupt, vcamera.c): *)
(* a singly linked list of timed entries, kept sorted by trigger time.     *)
(* Operation handlers inject entries on one of three client-facing         *)
(* channels; four consumers take them out again:                           *)
(*   - the USB interrupt endpoint (vcam_readint),                          *)
(*   - Fuji's event opcode and the 0xD212 property (ptp_pop_event loops),  *)
(*   - Canon's EOS GetEvent 0x9116 (ptp_pop_eos_event loop),               *)
(*   - Nikon's GetEvent 0x90C7 / GetEventEx 0x941C (ptp_pop_nikon_event    *)
(*     loop).                                                              *)
(* The camera runs one handler at a time, but the wall clock moves between *)
(* the pops of a draining handler, so a drain is one step per pop and only *)
(* the clock interleaves with it.                                          *)
(*                                                                         *)
(* hist, delivered and dropped are history variables: an entry's id is its *)
(* position in hist.                                                       *)
(***************************************************************************)
EXTENDS Integers, Sequences, SequencesExt

CONSTANTS
    Vendors,          \* camera families of the run, a subset of AllVendors
    MsPerSec,         \* 1000 in the code
    Delays,           \* the "when" arguments the handlers pass, in ms
    EosSizes,         \* sizes of EOS entries, in bytes
    EosBuffer,        \* size of the GetEvent reply buffer, 10000 in the code
    EosTrailer,       \* room kept for the terminator, 12 in the code
    NikonMaxEvents,   \* NIKON_MAX_EVENTS, 64 in the code
    MaxEvents,        \* bound: entries injected in a behaviour
    MaxClock,         \* bound: last instant of the wall clock
    ClockStepsBack    \* TRUE iff gettimeofday may be set back (NTP, admin)

AllVendors == {"canon", "fuji", "nikon", "sony"}

ASSUME ConstantsAssumption ==
    /\ Vendors \subseteq AllVendors
    /\ MsPerSec \in Nat \ {0}
    /\ Delays \subseteq Nat
    /\ EosSizes \subseteq Nat
    /\ EosBuffer \in Nat
    /\ EosTrailer \in Nat
    /\ NikonMaxEvents \in Nat
    /\ MaxEvents \in Nat
    /\ MaxClock \in Nat
    /\ ClockStepsBack \in BOOLEAN

VARIABLES
    vendor,     \* the camera's family, fixed by vcam_new
    clock,      \* what gettimeofday reports, in ms
    queue,      \* cam->first_interrupt, first entry first
    reply,      \* the GetEvent handler in progress, if any
    hist,       \* history: every injected entry, in injection order
    delivered,  \* history: entries handed to a client, in order
    dropped     \* history: ids popped and freed without being delivered

vars == <<vendor, clock, queue, reply, hist, delivered, dropped>>

-----------------------------------------------------------------------------
(* struct timeval arithmetic *)

Channels == {"CLASSIC", "EOS", "NIKON"}

\* A normalised timeval has ms < MsPerSec. The code's carry test is ">", so a
\* stored trigger time may also have ms = MsPerSec.
TimeVal == [sec : Nat, ms : 0 .. MsPerSec]

\* The instant a timeval denotes.
Instant(t) == t.sec * MsPerSec + t.ms

gettimeofday == [sec |-> clock \div MsPerSec, ms |-> clock % MsPerSec]

\* Mutant: no carry into the seconds.
TriggerTimeNoCarry(when) ==
    [sec |-> clock \div MsPerSec + (when \div MsPerSec),
     ms  |-> (clock % MsPerSec) + (when % MsPerSec)]

TriggerTime(when) ==
    LET now == gettimeofday
        ms  == now.ms + (when % MsPerSec)
        sec == now.sec + (when \div MsPerSec)
    IN  IF ms > MsPerSec THEN [sec |-> sec + 1, ms |-> ms - MsPerSec]
                         ELSE [sec |-> sec, ms |-> ms]

\* The field-by-field comparison of the insertion loop and of the due tests.
Later(a, b) ==
    \/ a.sec > b.sec
    \/ a.sec = b.sec /\ a.ms > b.ms

\* Mutant: the due test forgets the sub-second part.
DueSecondsOnly(e) == e.trigger.sec <= gettimeofday.sec

Due(e) == ~Later(e.trigger, gettimeofday)

-----------------------------------------------------------------------------
(* Injecting *)

\* Mutant: the loop compares the seconds only.
InsertPosSecondsOnly(q, t) ==
    CHOOSE i \in 1 .. Len(q) + 1 :
        /\ \A j \in 1 .. i - 1 : t.sec > q[j].trigger.sec
        /\ i <= Len(q) => t.sec <= q[i].trigger.sec

\* Mutant: the list is not sorted, new entries go to its end.
InsertPosTail(q, t) == Len(q) + 1

\* Where the insertion loop stops: behind every leading entry that triggers
\* strictly earlier, so before the first entry with an equal trigger time.
InsertPos(q, t) ==
    CHOOSE i \in 1 .. Len(q) + 1 :
        /\ \A j \in 1 .. i - 1 : Later(t, q[j].trigger)
        /\ i <= Len(q) => ~Later(t, q[i].trigger)

VendorChannels(v) ==
    CASE v = "canon" -> {"CLASSIC", "EOS"}
      [] v = "nikon" -> {"CLASSIC", "NIKON"}
      [] OTHER       -> {"CLASSIC"}

\* Classic and Nikon entries are 16-byte interrupt containers.
EntrySizes(ch) == IF ch = "EOS" THEN EosSizes ELSE {16}

NoReply == [op |-> "none", used |-> 0]

ptp_inject_event_data(ch, when, size) ==
    LET e == [id |-> Len(hist) + 1, channel |-> ch, size |-> size,
              trigger |-> TriggerTime(when)]
    IN  /\ reply = NoReply
        /\ queue' = InsertAt(queue, InsertPos(queue, e.trigger), e)
        /\ hist' = Append(hist, [channel |-> ch, instant |-> clock + when])
        /\ UNCHANGED <<vendor, clock, reply, delivered, dropped>>

-----------------------------------------------------------------------------
(* Finding and removing *)

\* Mutant: only the head of the list is looked at.
find_channel_entry_head(ch) ==
    IF queue # <<>> /\ queue[1].channel = ch THEN 1 ELSE 0

\* Position of the first entry of a channel, 0 if there is none.
find_channel_entry(ch) == SelectInSeq(queue, LAMBDA e : e.channel = ch)

\* Position of the first due entry of the served channels, 0 if there is none.
find_due_entry(served) ==
    SelectInSeq(queue, LAMBDA e : e.channel \in served /\ Due(e))

Deliver(i, via) ==
    /\ queue' = RemoveAt(queue, i)
    /\ delivered' = Append(delivered, [id |-> queue[i].id, via |-> via])

\* Mutant: every channel is served on the interrupt endpoint.
readint_any_channel ==
    LET i == find_due_entry(Channels)
    IN  /\ reply = NoReply
        /\ i # 0
        /\ Deliver(i, "interrupt")
        /\ UNCHANGED <<vendor, clock, reply, hist, dropped>>

\* Mutant: only the head of the list is served.
readint_head_only ==
    /\ reply = NoReply
    /\ find_due_entry({"CLASSIC", "NIKON"}) = 1
    /\ Deliver(1, "interrupt")
    /\ UNCHANGED <<vendor, clock, reply, hist, dropped>>

\* A poll of the USB interrupt endpoint that finds an entry. (A poll that finds
\* none answers GP_ERROR_TIMEOUT and changes nothing.)
vcam_readint ==
    LET i == find_due_entry({"CLASSIC", "NIKON"})
    IN  /\ reply = NoReply
        /\ i # 0
        /\ Deliver(i, "interrupt")
        /\ UNCHANGED <<vendor, clock, reply, hist, dropped>>

-----------------------------------------------------------------------------
(* The draining handlers: one step to start, one per loop iteration *)

BeginReply(v, op) ==
    /\ vendor = v
    /\ reply = NoReply
    /\ reply' = [op |-> op, used |-> 0]
    /\ UNCHANGED <<vendor, clock, queue, hist, delivered, dropped>>

EndReply ==
    /\ reply' = NoReply
    /\ UNCHANGED <<vendor, clock, queue, hist, delivered, dropped>>

\* fuji_send_events and d212_getvalue pop classic entries, due or not, until
\* ptp_pop_event finds none.
fuji_events_begin == BeginReply("fuji", "FujiEvents")

ptp_pop_event ==
    LET i == find_channel_entry("CLASSIC")
    IN  /\ reply.op = "FujiEvents"
        /\ \/ /\ i = 0
              /\ EndReply
           \/ /\ i # 0
              /\ Deliver(i, "FujiEvents")
              /\ reply' = [reply EXCEPT !.used = @ + 1]
              /\ UNCHANGED <<vendor, clock, hist, dropped>>

\* vusb_ptp_eos_events (its first reply after SetRemoteMode or SetEventMode is a
\* dump of the properties that leaves the list alone): an entry that does not fit the reply is popped, freed
\* and ends the loop.
eos_events_begin == BeginReply("canon", "EosGetEvent")

ptp_pop_eos_event ==
    LET i == find_channel_entry("EOS")
        found == i # 0 /\ Due(queue[i])
        fits == reply.used + queue[i].size + EosTrailer <= EosBuffer
    IN  /\ reply.op = "EosGetEvent"
        /\ \/ /\ ~found
              /\ EndReply
           \/ /\ found
              /\ fits
              /\ Deliver(i, "EosGetEvent")
              /\ reply' = [reply EXCEPT !.used = @ + queue[i].size]
              /\ UNCHANGED <<vendor, clock, hist, dropped>>
           \/ /\ found
              /\ ~fits
              /\ queue' = RemoveAt(queue, i)
              /\ dropped' = dropped \cup {queue[i].id}
              /\ reply' = NoReply
              /\ UNCHANGED <<vendor, clock, hist, delivered>>

\* nikon_pop_events: the count is checked before an entry is popped.
nikon_events_begin == BeginReply("nikon", "NikonGetEvent")

\* Mutant: the count is checked after the pop.
pop_nikon_then_check ==
    LET i == find_due_entry({"NIKON"})
    IN  /\ reply.op = "NikonGetEvent"
        /\ \/ /\ i = 0
              /\ EndReply
           \/ /\ i # 0
              /\ reply.used >= NikonMaxEvents
              /\ queue' = RemoveAt(queue, i)
              /\ reply' = NoReply
              /\ UNCHANGED <<vendor, clock, hist, delivered, dropped>>
           \/ /\ i # 0
              /\ reply.used < NikonMaxEvents
              /\ Deliver(i, "NikonGetEvent")
              /\ reply' = [reply EXCEPT !.used = @ + 1]
              /\ UNCHANGED <<vendor, clock, hist, dropped>>

ptp_pop_nikon_event ==
    LET i == find_due_entry({"NIKON"})
    IN  /\ reply.op = "NikonGetEvent"
        /\ \/ /\ reply.used >= NikonMaxEvents \/ i = 0
              /\ EndReply
           \/ /\ reply.used < NikonMaxEvents
              /\ i # 0
              /\ Deliver(i, "NikonGetEvent")
              /\ reply' = [reply EXCEPT !.used = @ + 1]
              /\ UNCHANGED <<vendor, clock, hist, dropped>>

-----------------------------------------------------------------------------
(* The wall clock *)

Tick ==
    /\ clock < MaxClock
    /\ clock' = clock + 1
    /\ UNCHANGED <<vendor, queue, reply, hist, delivered, dropped>>

StepBack ==
    /\ ClockStepsBack
    /\ clock > 0
    /\ clock' = clock - 1
    /\ UNCHANGED <<vendor, queue, reply, hist, delivered, dropped>>

-----------------------------------------------------------------------------

Init ==
    /\ vendor \in Vendors
    /\ clock = 0
    /\ queue = <<>>
    /\ reply = NoReply
    /\ hist = <<>>
    /\ delivered = <<>>
    /\ dropped = {}

Inject ==
    /\ Len(hist) < MaxEvents
    /\ \E ch \in VendorChannels(vendor), when \in Delays :
          /\ clock + when <= MaxClock
          /\ \E size \in EntrySizes(ch) : ptp_inject_event_data(ch, when, size)

Drain == ptp_pop_event \/ ptp_pop_eos_event \/ ptp_pop_nikon_event

StartDrain == fuji_events_begin \/ eos_events_begin \/ nikon_events_begin

Next ==
    \/ Inject
    \/ vcam_readint
    \/ StartDrain
    \/ Drain
    \/ Tick
    \/ StepBack

Spec == Init /\ [][Next]_vars

\* The clock keeps running, a drain that has begun goes on (handlers do not
\* block), and the host keeps an interrupt transfer submitted, which the USB
\* backends serve in turn with the other requests: hence the strong fairness.
\* Nothing is assumed of the client that may or may not send GetEvent.
Fairness ==
    /\ WF_vars(Tick)
    /\ WF_vars(Drain)
    /\ SF_vars(vcam_readint)

FairSpec == Spec /\ Fairness

-----------------------------------------------------------------------------
(* Properties *)

Ids == 1 .. Len(hist)

Entry == [id : Nat \ {0}, channel : Channels, size : Nat, trigger : TimeVal]

Vias == {"interrupt", "FujiEvents", "EosGetEvent", "NikonGetEvent"}

Ops == (Vias \ {"interrupt"}) \cup {"none"}

\* Every variable keeps its type; in particular a stored trigger time is never
\* further denormalised than ms = MsPerSec.
TypeOK ==
    /\ vendor \in Vendors
    /\ clock \in Nat
    /\ queue \in Seq(Entry)
    /\ reply \in [op : Ops, used : Nat]
    /\ hist \in Seq([channel : Channels, instant : Nat])
    /\ delivered \in Seq([id : Nat \ {0}, via : Vias])
    /\ dropped \subseteq Nat

\* "Insert into list, sorted by trigger time, next triggering one first"
\* (vcamera.c, ptp_inject_event_data): the list is sorted by the instant at
\* which the entries trigger, whatever the clock did between injections.
QueueSorted ==
    \A i, j \in 1 .. Len(queue) :
        i < j => Instant(queue[i].trigger) <= Instant(queue[j].trigger)

QueuedIds == {queue[i].id : i \in 1 .. Len(queue)}

DeliveredIds == {delivered[i].id : i \in 1 .. Len(delivered)}

\* No event is lost, duplicated or resurrected: an injected entry is in the
\* list, was delivered, or was dropped, exactly one of the three and once.
Conservation ==
    /\ QueuedIds \cup DeliveredIds \cup dropped = Ids
    /\ QueuedIds \cap DeliveredIds = {}
    /\ QueuedIds \cap dropped = {}
    /\ DeliveredIds \cap dropped = {}
    /\ \A i, j \in 1 .. Len(queue) : queue[i].id = queue[j].id => i = j
    /\ \A i, j \in 1 .. Len(delivered) :
          delivered[i].id = delivered[j].id => i = j

\* "EOS GetEvent entries must not leak onto the USB interrupt endpoint"
\* (vcam_readint), and no GetEvent serves another family's entries.
ChannelIsolation ==
    \A i \in 1 .. Len(delivered) :
        LET ch == hist[delivered[i].id].channel
        IN  CASE delivered[i].via = "interrupt"     -> ch # "EOS"
              [] delivered[i].via = "FujiEvents"    -> ch = "CLASSIC"
              [] delivered[i].via = "EosGetEvent"   -> ch = "EOS"
              [] delivered[i].via = "NikonGetEvent" -> ch = "NIKON"

ServesDue ==
    Len(delivered') > Len(delivered) =>
        LET d == delivered'[Len(delivered')]
        IN  d.via # "FujiEvents" => hist[d.id].instant <= clock

\* An event scheduled "when" ms ahead is not served before that instant, on
\* every consumer that looks at the clock (Fuji's pop loops do not), through
\* the seconds/microseconds carry and however the clock was set.
NotEarly == [][ServesDue]_vars

Served(via) ==
    CASE via = "interrupt"     -> {"CLASSIC", "NIKON"}
      [] via = "FujiEvents"    -> {"CLASSIC"}
      [] via = "EosGetEvent"   -> {"EOS"}
      [] via = "NikonGetEvent" -> {"NIKON"}

ServesOldest ==
    Len(delivered') > Len(delivered) =>
        LET d == delivered'[Len(delivered')]
        IN  \A i \in 1 .. Len(queue') :
               queue'[i].channel \in Served(d.via) =>
                   hist[d.id].instant <= hist[queue'[i].id].instant

\* "The list is sorted by trigger time, so the first hit is the oldest due
\* entry" (find_due_entry): a consumer never leaves behind an entry of its own
\* channels that was scheduled for an earlier instant than the one it serves.
OldestFirst == [][ServesOldest]_vars

DueIds(served) ==
    {id \in QueuedIds : hist[id].channel \in served /\ hist[id].instant <= clock}

\* The loop of a GetEvent handler ends.
EndsComplete ==
    reply # NoReply /\ reply' = NoReply =>
        CASE reply.op = "FujiEvents" ->
               \A i \in 1 .. Len(queue) : queue[i].channel # "CLASSIC"
          [] reply.op = "EosGetEvent" ->
               dropped' = dropped => DueIds({"EOS"}) = {}
          [] reply.op = "NikonGetEvent" ->
               reply.used = NikonMaxEvents \/ DueIds({"NIKON"}) = {}

\* A GetEvent reply is complete when its loop ends: Fuji's leaves no classic
\* entry, EOS's no due EOS entry unless the reply overflowed ("if the first EOS
\* entry is not due yet, none are"), Nikon's no due Nikon entry unless the reply
\* is full - the entries beyond NIKON_MAX_EVENTS wait for the next poll.
DrainComplete == [][EndsComplete]_vars

\* A host that polls the interrupt endpoint eventually gets every classic and
\* every Nikon event out of the list, even if the client never asks for the EOS
\* entries queued in front of them; a clock that is set back delays them, and
\* as long as it is set back again and again they may wait.
InterruptServed ==
    <>[][~StepBack]_vars => \A id \in 1 .. MaxEvents :
        (id \in QueuedIds /\ hist[id].channel # "EOS") ~> (id \notin QueuedIds)

\* canon.c on the GetEvent handler: "Drain the EOS event channel into one
\* response, then terminate".
EosDrainLosesNothing == dropped = {}

=============================================================================
