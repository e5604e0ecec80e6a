-------------------------- MODULE EventQueueProofs --------------------------
(***************************************************************************)
(* Proofs about the event list, for every value of the constants: any      *)
(* number of events, any delays, any clock, whatever the seconds and       *)
(* milliseconds of the trigger times carry.                                *)
(***************************************************************************)
EXTENDS EventQueue, SeqLemmas

-----------------------------------------------------------------------------
(* timeval arithmetic *)

\* Scheduling by seconds and milliseconds with a carry reaches the instant
\* clock + when, and leaves at most MsPerSec in the milliseconds.
LEMMA TriggerTimeProperties ==
    ASSUME clock \in Nat, NEW when \in Nat
    PROVE  /\ TriggerTime(when) \in TimeVal
           /\ Instant(TriggerTime(when)) = clock + when
<1> DEFINE M == MsPerSec
           cs == clock \div M
           cm == clock % M
           ws == when \div M
           wm == when % M
<1>1. M \in Nat /\ M > 0
  BY ConstantsAssumption
<1>2. /\ cs \in Nat /\ cm \in 0 .. M - 1
      /\ clock = M * cs + cm
  BY <1>1, Z3
<1>3. /\ ws \in Nat /\ wm \in 0 .. M - 1
      /\ when = M * ws + wm
  BY <1>1, Z3
<1> HIDE DEF cs, cm, ws, wm
<1>4. TriggerTime(when) =
        IF cm + wm > M THEN [sec |-> cs + ws + 1, ms |-> cm + wm - M]
                       ELSE [sec |-> cs + ws, ms |-> cm + wm]
  BY <1>1, <1>2, <1>3 DEF TriggerTime, gettimeofday, cs, cm, ws, wm
<1>5. /\ (cs + ws) * M = M * cs + M * ws
      /\ (cs + ws + 1) * M = M * cs + M * ws + M
  BY <1>1, <1>2, <1>3
<1>6. M * cs \in Nat /\ M * ws \in Nat
  BY <1>1, <1>2, <1>3
<1> HIDE DEF M
<1>7. TriggerTime(when) \in TimeVal
  BY <1>1, <1>2, <1>3, <1>4 DEF TimeVal, M
<1>8. Instant(TriggerTime(when)) = clock + when
  <2>1. CASE cm + wm > M
    <3>1. Instant(TriggerTime(when)) = (cs + ws + 1) * M + (cm + wm - M)
      BY <1>4, <2>1 DEF Instant, M
    <3> QED BY <3>1, <1>1, <1>2, <1>3, <1>5, <1>6
  <2>2. CASE ~(cm + wm > M)
    <3>1. Instant(TriggerTime(when)) = (cs + ws) * M + (cm + wm)
      BY <1>4, <2>2 DEF Instant, M
    <3> QED BY <3>1, <1>1, <1>2, <1>3, <1>5, <1>6
  <2> QED BY <2>1, <2>2
<1> QED BY <1>7, <1>8

\* The field-by-field comparison agrees with the order of the instants, also
\* for a timeval that is not normalised.
LEMMA LaterProperties ==
    ASSUME NEW a \in TimeVal, NEW b \in TimeVal
    PROVE  /\ Instant(a) \in Nat
           /\ Later(a, b) => Instant(b) <= Instant(a)
           /\ ~Later(a, b) => Instant(a) <= Instant(b)
<1>1. MsPerSec \in Nat
  BY ConstantsAssumption
<1>2. /\ a.sec \in Nat /\ a.ms \in 0 .. MsPerSec
      /\ b.sec \in Nat /\ b.ms \in 0 .. MsPerSec
  BY DEF TimeVal
<1>3. ASSUME NEW x \in Nat, NEW y \in Nat, x > y
      PROVE  y * MsPerSec + MsPerSec <= x * MsPerSec
  <2>1. PICK d \in Nat : x = y + 1 + d
    <3>1. x - y - 1 \in Nat /\ x = y + 1 + (x - y - 1)
      BY <1>3
    <3> QED BY <3>1
  <2>2. x * MsPerSec = y * MsPerSec + MsPerSec + d * MsPerSec
    BY <2>1, <1>1
  <2>3. d * MsPerSec \in Nat /\ y * MsPerSec \in Nat
    BY <1>1
  <2> QED BY <2>2, <2>3, <1>1
<1> DEFINE A == a.sec * MsPerSec
           B == b.sec * MsPerSec
<1>4. /\ A \in Nat /\ B \in Nat
      /\ a.sec > b.sec => B + MsPerSec <= A
      /\ b.sec > a.sec => A + MsPerSec <= B
      /\ a.sec = b.sec => A = B
  <2>1. A \in Nat /\ B \in Nat
    BY <1>1, <1>2
  <2>2. a.sec > b.sec => B + MsPerSec <= A
    BY <1>2, <1>3, Zenon
  <2>3. b.sec > a.sec => A + MsPerSec <= B
    BY <1>2, <1>3, Zenon
  <2> QED BY <2>1, <2>2, <2>3
<1>5. Instant(a) = A + a.ms /\ Instant(b) = B + b.ms
  BY DEF Instant
<1> HIDE DEF A, B
<1> QED BY <1>1, <1>2, <1>4, <1>5 DEF Later

-----------------------------------------------------------------------------
(* The loops over the list *)

\* The insertion loop stops, at a position all of whose predecessors trigger
\* strictly earlier and whose entry, if any, does not.
LEMMA InsertPosProperties ==
    ASSUME NEW q \in Seq(Entry), NEW t \in TimeVal
    PROVE  /\ InsertPos(q, t) \in 1 .. Len(q) + 1
           /\ \A j \in 1 .. InsertPos(q, t) - 1 : Later(t, q[j].trigger)
           /\ InsertPos(q, t) <= Len(q) => ~Later(t, q[InsertPos(q, t)].trigger)
<1> DEFINE T == {i \in 1 .. Len(q) + 1 : i <= Len(q) => ~Later(t, q[i].trigger)}
<1>1. Len(q) \in Nat
  OBVIOUS
<1>2. T \subseteq Nat /\ Len(q) + 1 \in T
  BY <1>1
<1>3. PICK m \in T : \A n \in T : m <= n
  <2> HIDE DEF T
  <2> QED BY <1>2, LeastNat
<1>4. /\ m \in 1 .. Len(q) + 1
      /\ \A j \in 1 .. m - 1 : Later(t, q[j].trigger)
      /\ m <= Len(q) => ~Later(t, q[m].trigger)
  BY <1>1, <1>3
<1> QED BY <1>4 DEF InsertPos

\* A search for a channel finds its first entry, or there is none.
LEMMA FindChannelProperties ==
    ASSUME TypeOK, NEW ch
    PROVE  /\ find_channel_entry(ch) \in 0 .. Len(queue)
           /\ find_channel_entry(ch) # 0 =>
                 /\ queue[find_channel_entry(ch)].channel = ch
                 /\ \A j \in 1 .. find_channel_entry(ch) - 1 :
                       queue[j].channel # ch
           /\ find_channel_entry(ch) = 0 =>
                 \A j \in 1 .. Len(queue) : queue[j].channel # ch
<1> DEFINE I == {i \in 1 .. Len(queue) : queue[i].channel = ch}
<1>1. find_channel_entry(ch) = IF I # {} THEN Min(I) ELSE 0
  BY DEF find_channel_entry, SelectInSeq
<1>2. Len(queue) \in Nat /\ I \subseteq Nat
  BY DEF TypeOK
<1>3. I # {} => Min(I) \in I /\ \A n \in I : Min(I) <= n
  <2> HIDE DEF I
  <2> QED BY <1>2, MinIsLeast
<1>4. CASE I = {}
  BY <1>1, <1>2, <1>4
<1>5. CASE I # {}
  <2> DEFINE m == find_channel_entry(ch)
  <2>1. m \in I /\ \A n \in I : m <= n
    <3> HIDE DEF I
    <3> QED BY <1>1, <1>3, <1>5
  <2>2. m \in 1 .. Len(queue) /\ \A j \in 1 .. m - 1 : j \notin I
    <3> HIDE DEF m
    <3> QED BY <1>2, <2>1
  <2> QED BY <1>2, <2>1, <2>2
<1> QED BY <1>4, <1>5

\* A search for a due entry finds the first one of the served channels.
LEMMA FindDueProperties ==
    ASSUME TypeOK, NEW served
    PROVE  /\ find_due_entry(served) \in 0 .. Len(queue)
           /\ find_due_entry(served) # 0 =>
                 /\ queue[find_due_entry(served)].channel \in served
                 /\ Due(queue[find_due_entry(served)])
                 /\ \A j \in 1 .. find_due_entry(served) - 1 :
                       ~(queue[j].channel \in served /\ Due(queue[j]))
           /\ find_due_entry(served) = 0 =>
                 \A j \in 1 .. Len(queue) :
                     ~(queue[j].channel \in served /\ Due(queue[j]))
<1> DEFINE I == {i \in 1 .. Len(queue) :
                    queue[i].channel \in served /\ Due(queue[i])}
<1>1. find_due_entry(served) = IF I # {} THEN Min(I) ELSE 0
  BY DEF find_due_entry, SelectInSeq
<1>2. Len(queue) \in Nat /\ I \subseteq Nat
  BY DEF TypeOK
<1>3. I # {} => Min(I) \in I /\ \A n \in I : Min(I) <= n
  <2> HIDE DEF I
  <2> QED BY <1>2, MinIsLeast
<1>4. CASE I = {}
  BY <1>1, <1>2, <1>4
<1>5. CASE I # {}
  <2> DEFINE m == find_due_entry(served)
  <2>1. m \in I /\ \A n \in I : m <= n
    <3> HIDE DEF I
    <3> QED BY <1>1, <1>3, <1>5
  <2>2. m \in 1 .. Len(queue) /\ \A j \in 1 .. m - 1 : j \notin I
    <3> HIDE DEF m
    <3> QED BY <1>2, <2>1
  <2> QED BY <1>2, <2>1, <2>2
<1> QED BY <1>4, <1>5

-----------------------------------------------------------------------------
(* Type correctness *)

\* Handing entry i to a client.
LEMMA DeliverType ==
    ASSUME TypeOK, NEW i \in 1 .. Len(queue), NEW via \in Vias, Deliver(i, via)
    PROVE  queue' \in Seq(Entry) /\ delivered' \in Seq([id : Nat \ {0}, via : Vias])
<1>1. queue \in Seq(Entry) /\ delivered \in Seq([id : Nat \ {0}, via : Vias])
  BY DEF TypeOK
<1>2. queue' \in Seq(Entry)
  BY <1>1, RemoveAtProperties DEF Deliver
<1>3. queue[i] \in Entry
  BY <1>1
<1>4. [id |-> queue[i].id, via |-> via] \in [id : Nat \ {0}, via : Vias]
  BY <1>3 DEF Entry
<1> QED BY <1>1, <1>2, <1>4, AppendProperties DEF Deliver

\* Counting an entry into the reply.
LEMMA ReplyType ==
    ASSUME TypeOK, NEW n \in Nat
    PROVE  [reply EXCEPT !.used = @ + n] \in [op : Ops, used : Nat]
<1>1. reply \in [op : Ops, used : Nat]
  BY DEF TypeOK
<1>2. reply.used + n \in Nat
  BY <1>1
<1> QED BY <1>1, <1>2

\* Injecting an entry.
LEMMA InjectType ==
    ASSUME TypeOK, NEW ch \in Channels, NEW when \in Nat, NEW size \in Nat,
           ptp_inject_event_data(ch, when, size)
    PROVE  TypeOK'
<1> DEFINE e == [id |-> Len(hist) + 1, channel |-> ch, size |-> size,
                 trigger |-> TriggerTime(when)]
<1>1. TriggerTime(when) \in TimeVal
  BY TriggerTimeProperties DEF TypeOK
<1>2. queue \in Seq(Entry) /\ Len(hist) \in Nat
  BY DEF TypeOK
<1>3. e \in Entry
  BY <1>1, <1>2 DEF Entry
<1>4. InsertPos(queue, e.trigger) \in 1 .. Len(queue) + 1
  BY <1>1, <1>2, InsertPosProperties
<1>5. queue' \in Seq(Entry)
  <2>1. queue' = InsertAt(queue, InsertPos(queue, e.trigger), e)
    BY DEF ptp_inject_event_data
  <2> HIDE DEF e
  <2> QED BY <1>2, <1>3, <1>4, <2>1, InsertAtProperties
<1>6. hist' \in Seq([channel : Channels, instant : Nat])
  <2>1. [channel |-> ch, instant |-> clock + when] \in [channel : Channels, instant : Nat]
    BY DEF TypeOK
  <2> QED BY <2>1, AppendProperties DEF ptp_inject_event_data, TypeOK
<1> QED BY <1>5, <1>6 DEF ptp_inject_event_data, TypeOK

LEMMA InitType == Init => TypeOK
BY ConstantsAssumption DEF Init, TypeOK, NoReply, Ops, Vias

\* Every step of Next keeps the types.
LEMMA NextType == TypeOK /\ [Next]_vars => TypeOK'
<1> SUFFICES ASSUME TypeOK, [Next]_vars PROVE TypeOK'
  OBVIOUS
<1>0. NoReply \in [op : Ops, used : Nat]
  BY DEF NoReply, Ops, Vias
<1>1. CASE Inject
  <2>1. PICK ch \in VendorChannels(vendor), when \in Delays :
            \E size \in EntrySizes(ch) : ptp_inject_event_data(ch, when, size)
    BY <1>1 DEF Inject
  <2>2. PICK size \in EntrySizes(ch) : ptp_inject_event_data(ch, when, size)
    BY <2>1
  <2>3. ch \in Channels /\ when \in Nat /\ size \in Nat
    BY ConstantsAssumption DEF VendorChannels, Channels, EntrySizes
  <2> QED BY <2>2, <2>3, InjectType
<1>2. CASE vcam_readint
  <2> DEFINE i == find_due_entry({"CLASSIC", "NIKON"})
  <2>1. i \in 1 .. Len(queue)
    BY <1>2, FindDueProperties DEF vcam_readint
  <2>2. Deliver(i, "interrupt")
    BY <1>2 DEF vcam_readint
  <2>3. queue' \in Seq(Entry) /\ delivered' \in Seq([id : Nat \ {0}, via : Vias])
    BY <2>1, <2>2, DeliverType DEF Vias
  <2> QED BY <1>2, <2>3 DEF vcam_readint, TypeOK
<1>3. CASE StartDrain
  <2>1. ASSUME NEW v, NEW op \in Ops, BeginReply(v, op) PROVE TypeOK'
    BY <2>1 DEF BeginReply, TypeOK
  <2> QED BY <1>3, <2>1 DEF StartDrain, fuji_events_begin, eos_events_begin,
                            nikon_events_begin, Ops, Vias
<1>4. CASE EndReply
  BY <1>0, <1>4 DEF EndReply, TypeOK
<1>5. CASE ptp_pop_event
  <2> DEFINE i == find_channel_entry("CLASSIC")
  <2>1. CASE i = 0
    BY <1>4, <1>5, <2>1 DEF ptp_pop_event
  <2>2. CASE i # 0
    <3>1. i \in 1 .. Len(queue)
      BY <2>2, FindChannelProperties
    <3>2. Deliver(i, "FujiEvents")
      BY <1>5, <2>2 DEF ptp_pop_event
    <3>3. queue' \in Seq(Entry) /\ delivered' \in Seq([id : Nat \ {0}, via : Vias])
      BY <3>1, <3>2, DeliverType DEF Vias
    <3>4. reply' = [reply EXCEPT !.used = @ + 1] /\ UNCHANGED <<vendor, clock, hist, dropped>>
      BY <1>5, <2>2 DEF ptp_pop_event
    <3> QED BY <3>3, <3>4, ReplyType DEF TypeOK
  <2> QED BY <2>1, <2>2
<1>6. CASE ptp_pop_eos_event
  <2> DEFINE i == find_channel_entry("EOS")
             found == i # 0 /\ Due(queue[i])
             fits == reply.used + queue[i].size + EosTrailer <= EosBuffer
  <2>1. CASE ~found
    BY <1>4, <1>6, <2>1 DEF ptp_pop_eos_event
  <2>2. CASE found
    <3>1. i \in 1 .. Len(queue)
      BY <2>2, FindChannelProperties
    <3>2. queue[i].size \in Nat /\ queue[i].id \in Nat
      <4> HIDE DEF i
      <4>1. queue[i] \in Entry
        BY <3>1 DEF TypeOK
      <4> QED BY <4>1 DEF Entry
    <3>3. CASE fits
      <4>1. Deliver(i, "EosGetEvent")
        BY <1>6, <2>2, <3>3 DEF ptp_pop_eos_event
      <4>2. queue' \in Seq(Entry) /\ delivered' \in Seq([id : Nat \ {0}, via : Vias])
        BY <3>1, <4>1, DeliverType DEF Vias
      <4>3. /\ reply' = [reply EXCEPT !.used = @ + queue[i].size]
            /\ UNCHANGED <<vendor, clock, hist, dropped>>
        BY <1>6, <2>2, <3>3 DEF ptp_pop_eos_event
      <4> HIDE DEF i
      <4> QED BY <3>2, <4>2, <4>3, ReplyType DEF TypeOK
    <3>4. CASE ~fits
      <4>1. queue' \in Seq(Entry)
        BY <1>6, <2>2, <3>1, <3>4, RemoveAtProperties DEF ptp_pop_eos_event, TypeOK
      <4> QED BY <1>0, <1>6, <2>2, <3>2, <3>4, <4>1 DEF ptp_pop_eos_event, TypeOK
    <3> QED BY <3>3, <3>4
  <2> QED BY <2>1, <2>2
<1>7. CASE ptp_pop_nikon_event
  <2> DEFINE i == find_due_entry({"NIKON"})
  <2>1. CASE reply.used >= NikonMaxEvents \/ i = 0
    <3>1. EndReply
      BY <1>7, <2>1, ConstantsAssumption DEF ptp_pop_nikon_event, TypeOK
    <3> QED BY <1>4, <3>1
  <2>2. CASE ~(reply.used >= NikonMaxEvents \/ i = 0)
    <3>1. i \in 1 .. Len(queue)
      BY <2>2, FindDueProperties
    <3>2. Deliver(i, "NikonGetEvent")
      BY <1>7, <2>2 DEF ptp_pop_nikon_event
    <3>3. queue' \in Seq(Entry) /\ delivered' \in Seq([id : Nat \ {0}, via : Vias])
      BY <3>1, <3>2, DeliverType DEF Vias
    <3>4. reply' = [reply EXCEPT !.used = @ + 1] /\ UNCHANGED <<vendor, clock, hist, dropped>>
      BY <1>7, <2>2 DEF ptp_pop_nikon_event
    <3> QED BY <3>3, <3>4, ReplyType DEF TypeOK
  <2> QED BY <2>1, <2>2
<1>8. CASE Tick
  BY <1>8 DEF Tick, TypeOK
<1>9. CASE StepBack
  BY <1>9 DEF StepBack, TypeOK
<1>10. CASE UNCHANGED vars
  BY <1>10 DEF vars, TypeOK
<1> QED BY <1>1, <1>2, <1>3, <1>5, <1>6, <1>7, <1>8, <1>9, <1>10 DEF Next, Drain

\* Every variable keeps its type in every behaviour of the event list; in
\* particular a stored trigger time (ptp_inject_event_data) is never further
\* denormalised than one full second of milliseconds.
THEOREM TypeCorrect == Spec => []TypeOK
BY InitType, NextType, PTL DEF Spec

-----------------------------------------------------------------------------
(* The three things a step may do to the list *)

\* An entry goes to the client of a consumer: it is of a channel the consumer
\* serves, and no entry in front of it is both served and due, if the consumer
\* looks at the clock; otherwise none in front of it is served.
Delivery(i, via) ==
    /\ Deliver(i, via)
    /\ queue[i].channel \in Served(via)
    /\ via # "FujiEvents" => Due(queue[i])
    /\ \A j \in 1 .. i - 1 :
          queue[j].channel \in Served(via) => via # "FujiEvents" /\ ~Due(queue[j])
    /\ UNCHANGED <<clock, hist, dropped>>

\* An entry is popped and freed.
Drop(i) ==
    /\ queue' = RemoveAt(queue, i)
    /\ dropped' = dropped \cup {queue[i].id}
    /\ UNCHANGED <<hist, delivered>>

\* Every step injects, delivers or drops one entry, or leaves the list alone.
LEMMA StepShape ==
    ASSUME TypeOK, [Next]_vars
    PROVE  \/ \E ch \in Channels, when \in Nat, size \in Nat :
                 ptp_inject_event_data(ch, when, size)
           \/ \E i \in 1 .. Len(queue), via \in Vias : Delivery(i, via)
           \/ \E i \in 1 .. Len(queue) : Drop(i)
           \/ UNCHANGED <<queue, hist, delivered, dropped>>
<1> DEFINE Delivers == \E i \in 1 .. Len(queue), via \in Vias : Delivery(i, via)
<1>1. CASE Inject
  <2>1. PICK ch \in VendorChannels(vendor), when \in Delays :
            \E size \in EntrySizes(ch) : ptp_inject_event_data(ch, when, size)
    BY <1>1 DEF Inject
  <2>2. ch \in Channels /\ when \in Nat /\ EntrySizes(ch) \subseteq Nat
    BY ConstantsAssumption DEF VendorChannels, Channels, EntrySizes
  <2> QED BY <2>1, <2>2
<1>2. CASE vcam_readint
  <2> DEFINE i == find_due_entry({"CLASSIC", "NIKON"})
  <2>1. i \in 1 .. Len(queue)
    BY <1>2, FindDueProperties DEF vcam_readint
  <2>2. Delivery(i, "interrupt")
    BY <1>2, <2>1, FindDueProperties DEF vcam_readint, Delivery, Served
  <2> HIDE DEF i
  <2> QED BY <2>1, <2>2 DEF Vias
<1>3. CASE EndReply \/ StartDrain \/ Tick \/ StepBack \/ UNCHANGED vars
  BY <1>3 DEF EndReply, StartDrain, fuji_events_begin, eos_events_begin,
              nikon_events_begin, BeginReply, Tick, StepBack, vars
<1>4. CASE ptp_pop_event
  <2> DEFINE i == find_channel_entry("CLASSIC")
  <2>1. CASE i # 0
    <3>1. i \in 1 .. Len(queue)
      BY <2>1, FindChannelProperties
    <3>2. Delivery(i, "FujiEvents")
      BY <1>4, <2>1, FindChannelProperties DEF ptp_pop_event, Delivery, Served
    <3> HIDE DEF i
    <3> QED BY <3>1, <3>2 DEF Vias
  <2> QED BY <1>3, <1>4, <2>1 DEF ptp_pop_event
<1>5. CASE ptp_pop_eos_event
  <2> DEFINE i == find_channel_entry("EOS")
             found == i # 0 /\ Due(queue[i])
             fits == reply.used + queue[i].size + EosTrailer <= EosBuffer
  <2>1. CASE found
    <3>1. i \in 1 .. Len(queue)
      BY <2>1, FindChannelProperties
    <3>2. CASE fits
      <4>1. Delivery(i, "EosGetEvent")
        BY <1>5, <2>1, <3>2, FindChannelProperties
        DEF ptp_pop_eos_event, Delivery, Served
      <4> HIDE DEF i
      <4> QED BY <3>1, <4>1 DEF Vias
    <3>3. CASE ~fits
      <4>1. Drop(i)
        BY <1>5, <2>1, <3>3 DEF ptp_pop_eos_event, Drop
      <4> HIDE DEF i
      <4> QED BY <3>1, <4>1
    <3> QED BY <3>2, <3>3
  <2> QED BY <1>3, <1>5, <2>1 DEF ptp_pop_eos_event
<1>6. CASE ptp_pop_nikon_event
  <2> DEFINE i == find_due_entry({"NIKON"})
  <2>1. CASE ~EndReply
    <3>1. i # 0 /\ Deliver(i, "NikonGetEvent") /\ UNCHANGED <<clock, hist, dropped>>
      BY <1>6, <2>1 DEF ptp_pop_nikon_event
    <3>2. i \in 1 .. Len(queue)
      BY <3>1, FindDueProperties
    <3>3. Delivery(i, "NikonGetEvent")
      BY <3>1, FindDueProperties DEF Delivery, Served
    <3> HIDE DEF i
    <3> QED BY <3>2, <3>3 DEF Vias
  <2> QED BY <1>3, <2>1
<1> QED BY <1>1, <1>2, <1>3, <1>4, <1>5, <1>6 DEF Next, Drain

-----------------------------------------------------------------------------
(* The inductive invariant *)

\* An entry of the list is what was injected under its id: the link between
\* the stored trigger times and the instants the properties speak of.
QueueMatches ==
    \A i \in 1 .. Len(queue) :
        /\ queue[i].id \in Ids
        /\ queue[i].channel = hist[queue[i].id].channel
        /\ Instant(queue[i].trigger) = hist[queue[i].id].instant

DeliveredKnown == \A i \in 1 .. Len(delivered) : delivered[i].id \in Ids

IInv ==
    /\ TypeOK
    /\ QueueMatches
    /\ DeliveredKnown
    /\ QueueSorted
    /\ ChannelIsolation

LEMMA InitIInv == Init => IInv
<1> SUFFICES ASSUME Init PROVE IInv
  OBVIOUS
<1>1. TypeOK
  BY InitType
<1>2. Len(queue) = 0 /\ Len(delivered) = 0
  BY DEF Init
<1> QED BY <1>1, <1>2 DEF IInv, QueueMatches, DeliveredKnown, QueueSorted, ChannelIsolation

\* Removing an entry keeps the rest matching and sorted.
LEMMA RemoveKeeps ==
    ASSUME IInv, NEW i \in 1 .. Len(queue),
           queue' = RemoveAt(queue, i), hist' = hist
    PROVE  QueueMatches' /\ QueueSorted'
<1>1. queue \in Seq(Entry)
  BY DEF IInv, TypeOK
<1>2. /\ Len(queue') = Len(queue) - 1
      /\ \A j \in 1 .. Len(queue) - 1 :
            queue'[j] = queue[IF j < i THEN j ELSE j + 1]
  BY <1>1, RemoveAtProperties
<1>3. \A j \in 1 .. Len(queue') : (IF j < i THEN j ELSE j + 1) \in 1 .. Len(queue)
  BY <1>1, <1>2
<1>4. QueueMatches'
  <2> SUFFICES ASSUME NEW j \in 1 .. Len(queue')
               PROVE  /\ queue'[j].id \in 1 .. Len(hist)
                      /\ queue'[j].channel = hist[queue'[j].id].channel
                      /\ Instant(queue'[j].trigger) = hist[queue'[j].id].instant
    BY DEF QueueMatches, Ids, Instant
  <2>1. PICK k \in 1 .. Len(queue) : queue'[j] = queue[k]
    BY <1>2, <1>3
  <2> QED BY <2>1 DEF IInv, QueueMatches, Ids
<1>5. QueueSorted'
  <2> SUFFICES ASSUME NEW j \in 1 .. Len(queue'), NEW k \in 1 .. Len(queue'), j < k
               PROVE  Instant(queue'[j].trigger) <= Instant(queue'[k].trigger)
    BY DEF QueueSorted, Instant
  <2>1. PICK jj \in 1 .. Len(queue), kk \in 1 .. Len(queue) :
            queue'[j] = queue[jj] /\ queue'[k] = queue[kk] /\ jj < kk
    <3> DEFINE f(n) == IF n < i THEN n ELSE n + 1
    <3>1. f(j) < f(k)
      BY <1>1
    <3>2. f(j) \in 1 .. Len(queue) /\ f(k) \in 1 .. Len(queue)
      BY <1>3
    <3>3. queue'[j] = queue[f(j)] /\ queue'[k] = queue[f(k)]
      BY <1>2
    <3> HIDE DEF f
    <3> QED BY <3>1, <3>2, <3>3
  <2> QED BY <2>1 DEF IInv, QueueSorted
<1> QED BY <1>4, <1>5

\* Appending to the history keeps what it says of the entries it has.
LEMMA HistoryGrows ==
    ASSUME TypeOK, NEW r \in [channel : Channels, instant : Nat],
           hist' = Append(hist, r)
    PROVE  /\ Len(hist') = Len(hist) + 1
           /\ Ids \subseteq Ids'
           /\ Len(hist') \in Ids'
           /\ \A id \in Ids : hist'[id] = hist[id]
           /\ hist'[Len(hist) + 1] = r
<1>1. hist \in Seq([channel : Channels, instant : Nat])
  BY DEF TypeOK
<1> QED BY <1>1, AppendProperties DEF Ids

\* Injecting keeps the invariant: the new entry goes where the order wants it.
LEMMA InjectKeeps ==
    ASSUME IInv, NEW ch \in Channels, NEW when \in Nat, NEW size \in Nat,
           ptp_inject_event_data(ch, when, size)
    PROVE  IInv'
<1> DEFINE e == [id |-> Len(hist) + 1, channel |-> ch, size |-> size,
                 trigger |-> TriggerTime(when)]
           p == InsertPos(queue, e.trigger)
           r == [channel |-> ch, instant |-> clock + when]
<1>1. TypeOK /\ TypeOK'
  BY InjectType DEF IInv
<1>2. /\ queue \in Seq(Entry) /\ Len(queue) \in Nat /\ Len(hist) \in Nat
      /\ \A j \in 1 .. Len(queue) : queue[j].trigger \in TimeVal
  <2>1. queue \in Seq(Entry) /\ Len(queue) \in Nat /\ Len(hist) \in Nat
    BY <1>1 DEF TypeOK
  <2>2. \A j \in 1 .. Len(queue) : queue[j] \in Entry
    BY <2>1
  <2> QED BY <2>1, <2>2 DEF Entry
<1>3. e.trigger \in TimeVal /\ Instant(e.trigger) = clock + when
  BY <1>1, TriggerTimeProperties DEF TypeOK
<1>4. e \in Entry
  BY <1>2, <1>3 DEF Entry
<1>5. /\ e.id = Len(hist) + 1
      /\ e.channel = r.channel
      /\ Instant(e.trigger) = r.instant
      /\ r \in [channel : Channels, instant : Nat]
  BY <1>1, <1>3 DEF TypeOK
<1>6. /\ queue' = InsertAt(queue, p, e)
      /\ hist' = Append(hist, r)
      /\ delivered' = delivered
  BY DEF ptp_inject_event_data
<1>7. /\ p \in 1 .. Len(queue) + 1
      /\ \A j \in 1 .. p - 1 : Later(e.trigger, queue[j].trigger)
      /\ p <= Len(queue) => ~Later(e.trigger, queue[p].trigger)
  BY <1>2, <1>3, InsertPosProperties
<1> HIDE DEF e, p, r
<1>8. /\ Len(queue') = Len(queue) + 1
      /\ \A j \in 1 .. Len(queue) + 1 :
            queue'[j] = IF j < p THEN queue[j] ELSE IF j = p THEN e ELSE queue[j - 1]
  <2>1. /\ Len(InsertAt(queue, p, e)) = Len(queue) + 1
        /\ \A j \in 1 .. Len(queue) + 1 :
              InsertAt(queue, p, e)[j] =
                  IF j < p THEN queue[j] ELSE IF j = p THEN e ELSE queue[j - 1]
    BY <1>2, <1>4, <1>7, InsertAtProperties
  <2> QED BY <1>6, <2>1
<1>9. /\ Ids \subseteq Ids' /\ Len(hist) + 1 \in Ids'
      /\ \A id \in Ids : hist'[id] = hist[id]
      /\ hist'[Len(hist) + 1] = r
  BY <1>1, <1>5, <1>6, HistoryGrows
<1>10. QueueMatches'
  <2> SUFFICES ASSUME NEW j \in 1 .. Len(queue')
               PROVE  /\ queue'[j].id \in Ids'
                      /\ queue'[j].channel = hist'[queue'[j].id].channel
                      /\ Instant(queue'[j].trigger) = hist'[queue'[j].id].instant
    BY DEF QueueMatches, Instant
  <2>1. CASE queue'[j] = e
    BY <1>5, <1>9, <2>1
  <2>2. CASE \E k \in 1 .. Len(queue) : queue'[j] = queue[k]
    BY <1>9, <2>2 DEF IInv, QueueMatches
  <2> QED BY <1>2, <1>7, <1>8, <2>1, <2>2
<1>11. DeliveredKnown'
  BY <1>6, <1>9 DEF IInv, DeliveredKnown
<1>12. QueueSorted'
  <2>1. \A j \in 1 .. p - 1 : Instant(queue[j].trigger) <= Instant(e.trigger)
    BY <1>2, <1>3, <1>7, LaterProperties
  <2>2. \A j \in p .. Len(queue) : Instant(e.trigger) <= Instant(queue[j].trigger)
    <3> SUFFICES ASSUME NEW j \in p .. Len(queue)
                 PROVE  Instant(e.trigger) <= Instant(queue[j].trigger)
      OBVIOUS
    <3>1. p \in 1 .. Len(queue) /\ j \in 1 .. Len(queue)
      BY <1>2, <1>7
    <3>2. Instant(e.trigger) <= Instant(queue[p].trigger)
      BY <1>2, <1>3, <1>7, <3>1, LaterProperties
    <3>3. Instant(queue[p].trigger) <= Instant(queue[j].trigger)
      <4>1. CASE p = j
        BY <1>2, <3>1, <4>1, LaterProperties
      <4>2. CASE p # j
        BY <1>2, <3>1, <4>2 DEF IInv, QueueSorted
      <4> QED BY <4>1, <4>2
    <3>4. /\ Instant(e.trigger) \in Nat
          /\ Instant(queue[p].trigger) \in Nat
          /\ Instant(queue[j].trigger) \in Nat
      BY <1>2, <1>3, <3>1, LaterProperties
    <3> QED BY <3>2, <3>3, <3>4
  <2> SUFFICES ASSUME NEW j \in 1 .. Len(queue'), NEW k \in 1 .. Len(queue'), j < k
               PROVE  Instant(queue'[j].trigger) <= Instant(queue'[k].trigger)
    BY DEF QueueSorted, Instant
  <2>3. CASE j = p
    <3>1. k - 1 \in p .. Len(queue) /\ queue'[j] = e /\ queue'[k] = queue[k - 1]
      BY <1>2, <1>7, <1>8, <2>3
    <3> QED BY <2>2, <3>1
  <2>4. CASE k = p
    <3>1. j \in 1 .. p - 1 /\ queue'[j] = queue[j] /\ queue'[k] = e
      BY <1>2, <1>7, <1>8, <2>4
    <3> QED BY <2>1, <3>1
  <2>5. CASE j # p /\ k # p
    <3>1. PICK jj \in 1 .. Len(queue), kk \in 1 .. Len(queue) :
              queue'[j] = queue[jj] /\ queue'[k] = queue[kk] /\ jj < kk
      <4> DEFINE f(n) == IF n < p THEN n ELSE n - 1
      <4>1. /\ f(j) < f(k)
            /\ f(j) \in 1 .. Len(queue) /\ f(k) \in 1 .. Len(queue)
        BY <1>2, <1>7, <1>8, <2>5
      <4>2. queue'[j] = queue[f(j)] /\ queue'[k] = queue[f(k)]
        BY <1>2, <1>7, <1>8, <2>5
      <4> HIDE DEF f
      <4> QED BY <4>1, <4>2
    <3> QED BY <3>1 DEF IInv, QueueSorted
  <2> QED BY <2>3, <2>4, <2>5
<1>13. ChannelIsolation'
  <2>1. \A j \in 1 .. Len(delivered) :
          hist'[delivered[j].id].channel = hist[delivered[j].id].channel
    BY <1>9 DEF IInv, DeliveredKnown
  <2> DEFINE Suits(via, c) ==
               CASE via = "interrupt"     -> c # "EOS"
                 [] via = "FujiEvents"    -> c = "CLASSIC"
                 [] via = "EosGetEvent"   -> c = "EOS"
                 [] via = "NikonGetEvent" -> c = "NIKON"
  <2>2. \A j \in 1 .. Len(delivered) :
          Suits(delivered[j].via, hist[delivered[j].id].channel)
    BY DEF IInv, ChannelIsolation
  <2>3. ChannelIsolation' = \A j \in 1 .. Len(delivered) :
          Suits(delivered[j].via, hist'[delivered[j].id].channel)
    BY <1>6 DEF ChannelIsolation
  <2> HIDE DEF Suits
  <2> QED BY <2>1, <2>2, <2>3
<1> QED BY <1>1, <1>10, <1>11, <1>12, <1>13 DEF IInv

\* Delivering keeps the invariant: the entry is of a channel the consumer may
\* have.
LEMMA DeliveryKeeps ==
    ASSUME IInv, TypeOK', NEW i \in 1 .. Len(queue), NEW via \in Vias,
           Delivery(i, via)
    PROVE  IInv'
<1> DEFINE d == [id |-> queue[i].id, via |-> via]
<1>1. /\ queue' = RemoveAt(queue, i)
      /\ delivered' = Append(delivered, d)
      /\ hist' = hist
  BY DEF Delivery, Deliver
<1>2. QueueMatches' /\ QueueSorted'
  BY <1>1, RemoveKeeps
<1>3. d.id \in Ids /\ hist[d.id].channel \in Served(d.via) /\ d.via \in Vias
  BY DEF IInv, QueueMatches, Delivery
<1>4. delivered \in Seq([id : Nat \ {0}, via : Vias])
  BY DEF IInv, TypeOK
<1>5. d \in [id : Nat \ {0}, via : Vias]
  <2>1. queue[i] \in Entry
    BY DEF IInv, TypeOK
  <2> QED BY <2>1 DEF Entry
<1> HIDE DEF d
<1>6. /\ Len(delivered') = Len(delivered) + 1
      /\ \A j \in 1 .. Len(delivered) : delivered'[j] = delivered[j]
      /\ delivered'[Len(delivered) + 1] = d
  BY <1>1, <1>4, <1>5, AppendProperties
<1>7. \A j \in 1 .. Len(delivered') :
          j \in 1 .. Len(delivered) \/ j = Len(delivered) + 1
  BY <1>4, <1>6
<1>8. DeliveredKnown'
  BY <1>1, <1>3, <1>6, <1>7 DEF IInv, DeliveredKnown, Ids
<1>9. ChannelIsolation'
  <2> SUFFICES ASSUME NEW j \in 1 .. Len(delivered')
               PROVE  LET ch == hist[delivered'[j].id].channel
                      IN  CASE delivered'[j].via = "interrupt"     -> ch # "EOS"
                            [] delivered'[j].via = "FujiEvents"    -> ch = "CLASSIC"
                            [] delivered'[j].via = "EosGetEvent"   -> ch = "EOS"
                            [] delivered'[j].via = "NikonGetEvent" -> ch = "NIKON"
    BY <1>1 DEF ChannelIsolation
  <2>1. CASE j \in 1 .. Len(delivered)
    BY <1>6, <2>1 DEF IInv, ChannelIsolation
  <2>2. CASE j = Len(delivered) + 1
    BY <1>3, <1>6, <2>2 DEF Served, Vias
  <2> QED BY <1>7, <2>1, <2>2
<1> QED BY <1>2, <1>8, <1>9 DEF IInv

\* Every step of Next keeps the invariant.
LEMMA NextIInv == IInv /\ [Next]_vars => IInv'
<1> SUFFICES ASSUME IInv, [Next]_vars PROVE IInv'
  OBVIOUS
<1>1. TypeOK /\ TypeOK'
  BY NextType DEF IInv
<1>2. CASE \E ch \in Channels, when \in Nat, size \in Nat :
              ptp_inject_event_data(ch, when, size)
  BY <1>2, InjectKeeps
<1>3. CASE \E i \in 1 .. Len(queue), via \in Vias : Delivery(i, via)
  BY <1>1, <1>3, DeliveryKeeps
<1>4. CASE \E i \in 1 .. Len(queue) : Drop(i)
  <2>1. QueueMatches' /\ QueueSorted'
    BY <1>4, RemoveKeeps DEF Drop
  <2> QED BY <1>1, <1>4, <2>1 DEF Drop, IInv, DeliveredKnown, ChannelIsolation, Ids
<1>5. CASE UNCHANGED <<queue, hist, delivered, dropped>>
  BY <1>1, <1>5 DEF IInv, QueueMatches, DeliveredKnown, QueueSorted,
                    ChannelIsolation, Ids, Instant
<1> QED BY <1>1, <1>2, <1>3, <1>4, <1>5, StepShape

\* The invariant holds throughout.
THEOREM Invariance == Spec => []IInv
BY InitIInv, NextIInv, PTL DEF Spec

\* ptp_inject_event_data keeps the list sorted by the instants at which its
\* entries trigger, for any delays, through the carry of the milliseconds and
\* however the wall clock moves between two injections.
THEOREM Sorted == Spec => []QueueSorted
<1>1. IInv => QueueSorted
  BY DEF IInv
<1> QED BY <1>1, Invariance, PTL

\* No consumer ever hands out an entry of a channel it does not serve: EOS
\* entries stay off the interrupt endpoint, and each GetEvent serves its own.
THEOREM Isolation == Spec => []ChannelIsolation
<1>1. IInv => ChannelIsolation
  BY DEF IInv
<1> QED BY <1>1, Invariance, PTL

-----------------------------------------------------------------------------
(* Action properties *)

\* The clock's timeval denotes the clock.
LEMMA NowProperties ==
    ASSUME clock \in Nat
    PROVE  gettimeofday \in TimeVal /\ Instant(gettimeofday) = clock
<1>1. MsPerSec \in Nat /\ MsPerSec > 0
  BY ConstantsAssumption
<1>2. /\ clock \div MsPerSec \in Nat /\ clock % MsPerSec \in 0 .. MsPerSec
      /\ clock = MsPerSec * (clock \div MsPerSec) + (clock % MsPerSec)
  BY <1>1, Z3
<1>3. (clock \div MsPerSec) * MsPerSec = MsPerSec * (clock \div MsPerSec)
  BY <1>1, <1>2
<1> QED BY <1>1, <1>2, <1>3 DEF gettimeofday, TimeVal, Instant

\* A due entry's instant has come; that of an entry which is not due has not
\* passed.
LEMMA DueProperties ==
    ASSUME IInv, NEW i \in 1 .. Len(queue)
    PROVE  /\ Due(queue[i]) => hist[queue[i].id].instant <= clock
           /\ ~Due(queue[i]) => clock <= hist[queue[i].id].instant
<1>1. gettimeofday \in TimeVal /\ Instant(gettimeofday) = clock
  BY NowProperties DEF IInv, TypeOK
<1>2. queue[i].trigger \in TimeVal
  <2>1. queue[i] \in Entry
    BY DEF IInv, TypeOK
  <2> QED BY <2>1 DEF Entry
<1>3. Instant(queue[i].trigger) = hist[queue[i].id].instant
  BY DEF IInv, QueueMatches
<1> QED BY <1>1, <1>2, <1>3, LaterProperties DEF Due

\* The history holds instants.
LEMMA HistoryInstants ==
    ASSUME TypeOK
    PROVE  \A id \in Ids : hist[id].instant \in Nat
<1>1. hist \in Seq([channel : Channels, instant : Nat])
  BY DEF TypeOK
<1>2. \A id \in 1 .. Len(hist) : hist[id] \in [channel : Channels, instant : Nat]
  BY <1>1, ElementOfSeq, Zenon
<1> QED BY <1>2 DEF Ids

\* The only steps that hand something to a client are the deliveries.
LEMMA NewDelivery ==
    ASSUME IInv, [Next]_vars, Len(delivered') > Len(delivered)
    PROVE  \E i \in 1 .. Len(queue), via \in Vias :
              /\ Delivery(i, via)
              /\ delivered'[Len(delivered')] = [id |-> queue[i].id, via |-> via]
<1>1. delivered \in Seq([id : Nat \ {0}, via : Vias]) /\ TypeOK
  BY DEF IInv, TypeOK
<1>2. delivered' # delivered
  BY <1>1
<1>3. PICK i \in 1 .. Len(queue), via \in Vias : Delivery(i, via)
  BY <1>1, <1>2, StepShape DEF ptp_inject_event_data, Drop
<1>4. delivered' = Append(delivered, [id |-> queue[i].id, via |-> via])
  BY <1>3 DEF Delivery, Deliver
<1>5. Len(delivered') = Len(delivered) + 1
  BY <1>1, <1>4
<1> QED BY <1>1, <1>3, <1>4, <1>5

\* An event scheduled "when" ms ahead is not served before that instant by the
\* interrupt endpoint, the EOS and the Nikon GetEvent.
THEOREM ServedOnTime == Spec => NotEarly
<1>1. ASSUME IInv, [Next]_vars
      PROVE  ServesDue
  <2> SUFFICES ASSUME Len(delivered') > Len(delivered),
                      delivered'[Len(delivered')].via # "FujiEvents"
               PROVE  hist[delivered'[Len(delivered')].id].instant <= clock
    BY DEF ServesDue
  <2>1. PICK i \in 1 .. Len(queue), via \in Vias :
            /\ Delivery(i, via)
            /\ delivered'[Len(delivered')] = [id |-> queue[i].id, via |-> via]
    BY <1>1, NewDelivery
  <2>2. Due(queue[i])
    BY <2>1 DEF Delivery
  <2> QED BY <1>1, <2>1, <2>2, DueProperties
<1> QED BY <1>1, Invariance, PTL DEF Spec, NotEarly

\* "The list is sorted by trigger time, so the first hit is the oldest due
\* entry" (find_due_entry): no consumer leaves an earlier entry of its channels
\* behind.
THEOREM ServedInOrder == Spec => OldestFirst
<1>1. ASSUME IInv, [Next]_vars
      PROVE  ServesOldest
  <2> DEFINE d == delivered'[Len(delivered')]
  <2> SUFFICES ASSUME Len(delivered') > Len(delivered),
                      NEW k \in 1 .. Len(queue'),
                      queue'[k].channel \in Served(d.via)
               PROVE  hist[d.id].instant <= hist[queue'[k].id].instant
    BY DEF ServesOldest
  <2>1. PICK i \in 1 .. Len(queue), via \in Vias :
            /\ Delivery(i, via)
            /\ d = [id |-> queue[i].id, via |-> via]
    BY <1>1, NewDelivery
  <2>2. queue \in Seq(Entry) /\ queue' = RemoveAt(queue, i)
    BY <1>1, <2>1 DEF IInv, TypeOK, Delivery, Deliver
  <2>3. PICK j \in 1 .. Len(queue) : j # i /\ queue'[k] = queue[j]
    <3> DEFINE f == IF k < i THEN k ELSE k + 1
    <3>1. /\ Len(queue') = Len(queue) - 1
          /\ \A m \in 1 .. Len(queue) - 1 :
                queue'[m] = IF m < i THEN queue[m] ELSE queue[m + 1]
      BY <2>2, RemoveAtProperties
    <3>2. f \in 1 .. Len(queue) /\ f # i
      BY <2>2, <3>1
    <3>3. queue'[k] = queue[f]
      BY <3>1
    <3> HIDE DEF f
    <3> QED BY <3>2, <3>3
  <2>4. /\ hist[queue[i].id].instant \in Nat
        /\ hist[queue[j].id].instant \in Nat
        /\ Instant(queue[i].trigger) = hist[queue[i].id].instant
        /\ Instant(queue[j].trigger) = hist[queue[j].id].instant
    BY <1>1, HistoryInstants DEF IInv, QueueMatches
  <2>5. CASE i < j
    BY <1>1, <2>1, <2>3, <2>4, <2>5 DEF IInv, QueueSorted
  <2>6. CASE j < i
    <3>1. j \in 1 .. i - 1
      BY <2>2, <2>6
    <3>2. Due(queue[i]) /\ ~Due(queue[j])
      BY <2>1, <2>3, <3>1 DEF Delivery
    <3>3. clock \in Nat
      BY <1>1 DEF IInv, TypeOK
    <3>4. /\ hist[queue[i].id].instant <= clock
          /\ clock <= hist[queue[j].id].instant
      BY <1>1, <2>1, <2>3, <3>2, DueProperties
    <3> QED BY <2>1, <2>3, <2>4, <3>3, <3>4
  <2> QED BY <2>3, <2>5, <2>6
<1> QED BY <1>1, Invariance, PTL DEF Spec, OldestFirst

-----------------------------------------------------------------------------
(* Conservation *)

\* No two entries of the list share an id.
QueueDistinct == \A i, j \in 1 .. Len(queue) : queue[i].id = queue[j].id => i = j

DeliveredDistinct ==
    \A i, j \in 1 .. Len(delivered) : delivered[i].id = delivered[j].id => i = j

\* Removing an entry removes its id, and no other.
LEMMA RemoveId ==
    ASSUME IInv, Conservation, NEW i \in 1 .. Len(queue),
           queue' = RemoveAt(queue, i)
    PROVE  QueuedIds' = QueuedIds \ {queue[i].id} /\ QueueDistinct'
<1> DEFINE f(n) == IF n < i THEN n ELSE n + 1
<1>1. queue \in Seq(Entry) /\ QueueDistinct
  BY DEF IInv, TypeOK, Conservation, QueueDistinct
<1>2. /\ Len(queue') = Len(queue) - 1
      /\ \A j \in 1 .. Len(queue) - 1 : queue'[j] = queue[f(j)]
  BY <1>1, RemoveAtProperties
<1>3. \A j \in 1 .. Len(queue') : f(j) \in 1 .. Len(queue) /\ f(j) # i
  BY <1>1, <1>2
<1>4. \A j, k \in 1 .. Len(queue') : f(j) = f(k) => j = k
  BY <1>1, <1>2
<1>5. \A k \in 1 .. Len(queue) : k # i => \E j \in 1 .. Len(queue') : f(j) = k
  <2> SUFFICES ASSUME NEW k \in 1 .. Len(queue), k # i
               PROVE  \E j \in 1 .. Len(queue') : f(j) = k
    OBVIOUS
  <2>1. CASE k < i
    <3>1. k \in 1 .. Len(queue') /\ f(k) = k
      BY <1>1, <1>2, <2>1
    <3> QED BY <3>1
  <2>2. CASE k > i
    <3>1. k - 1 \in 1 .. Len(queue') /\ f(k - 1) = k
      BY <1>1, <1>2, <2>2
    <3> QED BY <3>1
  <2> QED BY <1>1, <2>1, <2>2
<1> HIDE DEF f
<1>6. QueueDistinct'
  BY <1>1, <1>2, <1>3, <1>4 DEF QueueDistinct
<1>7. QueuedIds' = QueuedIds \ {queue[i].id}
  <2>1. QueuedIds' = {queue'[j].id : j \in 1 .. Len(queue')}
    BY DEF QueuedIds
  <2>2. ASSUME NEW x \in QueuedIds' PROVE x \in QueuedIds \ {queue[i].id}
    <3>1. PICK j \in 1 .. Len(queue') : x = queue'[j].id
      BY <2>1
    <3>2. f(j) \in 1 .. Len(queue) /\ f(j) # i /\ x = queue[f(j)].id
      BY <1>2, <1>3, <3>1
    <3> QED BY <1>1, <3>2 DEF QueuedIds, QueueDistinct
  <2>3. ASSUME NEW x \in QueuedIds \ {queue[i].id} PROVE x \in QueuedIds'
    <3>1. PICK k \in 1 .. Len(queue) : x = queue[k].id
      BY DEF QueuedIds
    <3>2. PICK j \in 1 .. Len(queue') : f(j) = k
      BY <1>5, <3>1
    <3> QED BY <1>2, <2>1, <3>1, <3>2
  <2> QED BY <2>2, <2>3
<1> QED BY <1>6, <1>7

\* Inserting an entry adds its id, which is new.
LEMMA InsertId ==
    ASSUME IInv, Conservation, NEW e \in Entry, NEW p \in 1 .. Len(queue) + 1,
           e.id \notin QueuedIds, queue' = InsertAt(queue, p, e)
    PROVE  QueuedIds' = QueuedIds \cup {e.id} /\ QueueDistinct'
<1> DEFINE f(n) == IF n < p THEN n ELSE n - 1
<1>1. queue \in Seq(Entry) /\ QueueDistinct
  BY DEF IInv, TypeOK, Conservation, QueueDistinct
<1>2. /\ Len(queue') = Len(queue) + 1
      /\ \A j \in 1 .. Len(queue) + 1 :
            queue'[j] = IF j = p THEN e ELSE queue[f(j)]
  <2>1. /\ Len(InsertAt(queue, p, e)) = Len(queue) + 1
        /\ \A j \in 1 .. Len(queue) + 1 :
              InsertAt(queue, p, e)[j] =
                  IF j < p THEN queue[j] ELSE IF j = p THEN e ELSE queue[j - 1]
    BY <1>1, InsertAtProperties
  <2> QED BY <1>1, <2>1
<1>3. \A j \in 1 .. Len(queue') : j # p => f(j) \in 1 .. Len(queue)
  BY <1>1, <1>2
<1>4. \A j, k \in 1 .. Len(queue') : j # p /\ k # p /\ f(j) = f(k) => j = k
  BY <1>1, <1>2
<1>5. \A k \in 1 .. Len(queue) : \E j \in 1 .. Len(queue') : j # p /\ f(j) = k
  <2> SUFFICES ASSUME NEW k \in 1 .. Len(queue)
               PROVE  \E j \in 1 .. Len(queue') : j # p /\ f(j) = k
    OBVIOUS
  <2>1. CASE k < p
    BY <1>1, <1>2, <2>1
  <2>2. CASE k >= p
    <3>1. k + 1 \in 1 .. Len(queue') /\ k + 1 # p /\ f(k + 1) = k
      BY <1>1, <1>2, <2>2
    <3> QED BY <3>1
  <2> QED BY <1>1, <2>1, <2>2
<1>6. p \in 1 .. Len(queue') /\ queue'[p] = e
  BY <1>1, <1>2
<1> HIDE DEF f
<1>7. QueueDistinct'
  <2> SUFFICES ASSUME NEW j \in 1 .. Len(queue'), NEW k \in 1 .. Len(queue'),
                      queue'[j].id = queue'[k].id
               PROVE  j = k
    BY DEF QueueDistinct
  <2>1. CASE j # p /\ k # p
    BY <1>1, <1>2, <1>3, <1>4, <2>1 DEF QueueDistinct
  <2>2. CASE j = p /\ k # p
    BY <1>2, <1>3, <1>6, <2>2 DEF QueuedIds
  <2>3. CASE j # p /\ k = p
    BY <1>2, <1>3, <1>6, <2>3 DEF QueuedIds
  <2> QED BY <2>1, <2>2, <2>3
<1>8. QueuedIds' = QueuedIds \cup {e.id}
  <2>1. QueuedIds' = {queue'[j].id : j \in 1 .. Len(queue')}
    BY DEF QueuedIds
  <2>2. ASSUME NEW x \in QueuedIds' PROVE x \in QueuedIds \cup {e.id}
    BY <1>2, <1>3, <2>1 DEF QueuedIds
  <2>3. ASSUME NEW x \in QueuedIds PROVE x \in QueuedIds'
    BY <1>2, <1>5, <2>1 DEF QueuedIds
  <2>4. e.id \in QueuedIds'
    BY <1>6, <2>1
  <2> QED BY <2>2, <2>3, <2>4
<1> QED BY <1>7, <1>8

\* Handing an entry out adds its id to the delivered ones.
LEMMA DeliverId ==
    ASSUME TypeOK, NEW d \in [id : Nat \ {0}, via : Vias],
           delivered' = Append(delivered, d)
    PROVE  /\ DeliveredIds' = DeliveredIds \cup {d.id}
           /\ DeliveredDistinct /\ d.id \notin DeliveredIds => DeliveredDistinct'
<1> DEFINE n == Len(delivered)
<1>1. delivered \in Seq([id : Nat \ {0}, via : Vias])
  BY DEF TypeOK
<1>2. /\ n \in Nat
      /\ Len(delivered') = n + 1
      /\ \A j \in 1 .. n : delivered'[j] = delivered[j]
      /\ delivered'[n + 1] = d
  BY <1>1, AppendProperties
<1> HIDE DEF n
<1>3. \A j \in 1 .. Len(delivered') : j \in 1 .. n \/ j = n + 1
  BY <1>2
<1>4. DeliveredIds' = {delivered'[j].id : j \in 1 .. Len(delivered')}
  BY DEF DeliveredIds
<1>5. DeliveredIds = {delivered[j].id : j \in 1 .. n}
  BY DEF DeliveredIds, n
<1>6. ASSUME NEW x \in DeliveredIds' PROVE x \in DeliveredIds \cup {d.id}
  BY <1>2, <1>3, <1>4, <1>5
<1>7. ASSUME NEW x \in DeliveredIds PROVE x \in DeliveredIds'
  <2>1. PICK j \in 1 .. n : x = delivered[j].id
    BY <1>5
  <2>2. j \in 1 .. Len(delivered') /\ x = delivered'[j].id
    BY <1>2, <2>1
  <2> QED BY <1>4, <2>2
<1>8. d.id \in DeliveredIds'
  <2>1. n + 1 \in 1 .. Len(delivered')
    BY <1>2
  <2> QED BY <1>2, <1>4, <2>1
<1>9. ASSUME DeliveredDistinct, d.id \notin DeliveredIds PROVE DeliveredDistinct'
  BY <1>2, <1>3, <1>5, <1>9 DEF DeliveredDistinct, n
<1> QED BY <1>6, <1>7, <1>8, <1>9

\* Conservation is inductive once the entries match their history.
LEMMA NextConservation == IInv /\ Conservation /\ [Next]_vars => Conservation'
<1> SUFFICES ASSUME IInv, Conservation, [Next]_vars PROVE Conservation'
  OBVIOUS
<1> USE DEF Conservation
<1>1. TypeOK /\ Len(hist) \in Nat
  BY DEF IInv, TypeOK
<1>2. CASE \E ch \in Channels, when \in Nat, size \in Nat :
              ptp_inject_event_data(ch, when, size)
  <2>1. PICK ch \in Channels, when \in Nat, size \in Nat :
                ptp_inject_event_data(ch, when, size)
    BY <1>2
  <2> DEFINE e == [id |-> Len(hist) + 1, channel |-> ch, size |-> size,
                   trigger |-> TriggerTime(when)]
             r == [channel |-> ch, instant |-> clock + when]
  <2>2. /\ queue' = InsertAt(queue, InsertPos(queue, e.trigger), e)
        /\ hist' = Append(hist, r)
        /\ UNCHANGED <<delivered, dropped>>
    BY <2>1 DEF ptp_inject_event_data
  <2>3. e.trigger \in TimeVal /\ r \in [channel : Channels, instant : Nat]
    BY <1>1, TriggerTimeProperties DEF TypeOK
  <2>4. e \in Entry /\ e.id = Len(hist) + 1
    BY <1>1, <2>3 DEF Entry
  <2>5. InsertPos(queue, e.trigger) \in 1 .. Len(queue) + 1
    BY <1>1, <2>3, InsertPosProperties DEF TypeOK
  <2> HIDE DEF e, r
  <2>6. e.id \notin Ids
    BY <1>1, <2>4 DEF Ids
  <2>7. QueuedIds' = QueuedIds \cup {e.id} /\ QueueDistinct'
    BY <2>2, <2>4, <2>5, <2>6, InsertId
  <2>8. Len(hist') = Len(hist) + 1
    BY <1>1, <2>2, <2>3, HistoryGrows
  <2>9. Ids' = Ids \cup {e.id}
    BY <1>1, <2>4, <2>8 DEF Ids
  <2>10. UNCHANGED <<DeliveredIds, dropped>>
    BY <2>2 DEF DeliveredIds
  <2> QED BY <2>2, <2>6, <2>7, <2>9, <2>10 DEF QueueDistinct
<1>3. CASE \E i \in 1 .. Len(queue), via \in Vias : Delivery(i, via)
  <2>1. PICK i \in 1 .. Len(queue), via \in Vias : Delivery(i, via)
    BY <1>3
  <2> DEFINE d == [id |-> queue[i].id, via |-> via]
  <2>2. /\ queue' = RemoveAt(queue, i)
        /\ delivered' = Append(delivered, d)
        /\ UNCHANGED <<Ids, dropped>>
    BY <2>1 DEF Delivery, Deliver, Ids
  <2>3. QueuedIds' = QueuedIds \ {queue[i].id} /\ QueueDistinct'
    BY <2>2, RemoveId
  <2>4. queue[i].id \in QueuedIds
    BY DEF QueuedIds
  <2>5. d \in [id : Nat \ {0}, via : Vias] /\ d.id = queue[i].id
    <3>1. queue[i] \in Entry
      BY <1>1 DEF TypeOK
    <3> QED BY <3>1 DEF Entry
  <2> HIDE DEF d
  <2>6. DeliveredIds' = DeliveredIds \cup {queue[i].id} /\ DeliveredDistinct'
    BY <1>1, <2>2, <2>4, <2>5, DeliverId DEF DeliveredDistinct
  <2> QED BY <2>2, <2>3, <2>4, <2>6 DEF QueueDistinct, DeliveredDistinct
<1>4. CASE \E i \in 1 .. Len(queue) : Drop(i)
  <2>1. PICK i \in 1 .. Len(queue) : Drop(i)
    BY <1>4
  <2>2. QueuedIds' = QueuedIds \ {queue[i].id} /\ QueueDistinct'
    BY <2>1, RemoveId DEF Drop
  <2>3. queue[i].id \in QueuedIds
    BY DEF QueuedIds
  <2>4. /\ UNCHANGED <<Ids, DeliveredIds, delivered>>
        /\ dropped' = dropped \cup {queue[i].id}
    BY <2>1 DEF Drop, Ids, DeliveredIds
  <2> QED BY <2>2, <2>3, <2>4 DEF QueueDistinct
<1>5. CASE UNCHANGED <<queue, hist, delivered, dropped>>
  <2>1. UNCHANGED <<QueuedIds, DeliveredIds, Ids>>
    BY <1>5 DEF QueuedIds, DeliveredIds, Ids
  <2> QED BY <1>5, <2>1
<1> QED BY <1>1, <1>2, <1>3, <1>4, <1>5, StepShape

\* No event is lost, duplicated or resurrected by the sorted insertion and the
\* four consumers' unlinking, except the one EOS entry a full GetEvent reply
\* drops: every injected entry is in the list, delivered or dropped, once.
THEOREM EventsConserved == Spec => []Conservation
<1>1. Init => Conservation
  <2> SUFFICES ASSUME Init PROVE Conservation
    OBVIOUS
  <2>1. Len(queue) = 0 /\ Len(delivered) = 0 /\ Len(hist) = 0 /\ dropped = {}
    BY DEF Init
  <2>2. QueuedIds = {} /\ DeliveredIds = {} /\ Ids = {}
    BY <2>1 DEF QueuedIds, DeliveredIds, Ids
  <2> QED BY <2>1, <2>2 DEF Conservation
<1> QED BY <1>1, Invariance, NextConservation, PTL DEF Spec

-----------------------------------------------------------------------------
(* Replies are complete *)

\* The clock's timeval is normalised, so an entry that is not due yet triggers
\* at a later instant, never at this one.
LEMMA NotDueIsLater ==
    ASSUME IInv, NEW i \in 1 .. Len(queue), ~Due(queue[i])
    PROVE  clock < hist[queue[i].id].instant
<1>1. MsPerSec \in Nat /\ MsPerSec > 0 /\ clock \in Nat
  BY ConstantsAssumption DEF IInv, TypeOK
<1>2. PICK s \in Nat, m \in 0 .. MsPerSec - 1 :
        /\ s = clock \div MsPerSec /\ m = clock % MsPerSec
        /\ clock = MsPerSec * s + m
  <2>1. /\ clock \div MsPerSec \in Nat /\ clock % MsPerSec \in 0 .. MsPerSec - 1
        /\ clock = MsPerSec * (clock \div MsPerSec) + (clock % MsPerSec)
    BY <1>1, Z3
  <2> QED BY <2>1
<1>3. PICK t \in TimeVal : t = queue[i].trigger
  <2>1. queue[i] \in Entry
    BY DEF IInv, TypeOK
  <2> QED BY <2>1 DEF Entry
<1>4. t.sec \in Nat /\ t.ms \in 0 .. MsPerSec
  BY DEF TimeVal
<1>5. t.sec > s \/ (t.sec = s /\ t.ms > m)
  BY <1>2, <1>3 DEF Due, Later, gettimeofday
<1>6. Instant(t) > clock
  <2>1. CASE t.sec > s
    <3>1. PICK d \in Nat : t.sec = s + 1 + d
      <4>1. t.sec - s - 1 \in Nat /\ t.sec = s + 1 + (t.sec - s - 1)
        BY <1>4, <2>1
      <4> QED BY <4>1
    <3>2. t.sec * MsPerSec = MsPerSec * s + MsPerSec + d * MsPerSec
      BY <1>1, <3>1
    <3>3. d * MsPerSec \in Nat /\ MsPerSec * s \in Nat
      BY <1>1
    <3> QED BY <1>1, <1>2, <1>4, <3>2, <3>3 DEF Instant
  <2>2. CASE t.sec = s /\ t.ms > m
    <3>1. t.sec * MsPerSec = MsPerSec * s /\ MsPerSec * s \in Nat
      BY <1>1, <2>2
    <3> QED BY <1>1, <1>2, <1>4, <2>2, <3>1 DEF Instant
  <2> QED BY <1>5, <2>1, <2>2
<1>7. Instant(t) = hist[queue[i].id].instant
  BY <1>3 DEF IInv, QueueMatches
<1> QED BY <1>6, <1>7

\* Nikon's reply never holds more than its array.
NikonCounted == reply.op = "NikonGetEvent" => reply.used <= NikonMaxEvents

\* The loop checks the count before it pops.
LEMMA NikonCountKept ==
    ASSUME TypeOK, NikonCounted, [Next]_vars
    PROVE  NikonCounted'
<1>1. NikonMaxEvents \in Nat /\ reply.used \in Nat
  BY ConstantsAssumption DEF TypeOK
<1>2. CASE reply' = reply
  BY <1>2 DEF NikonCounted
<1>3. CASE reply' = NoReply
  BY <1>3 DEF NikonCounted, NoReply
<1>4. CASE StartDrain
  BY <1>1, <1>4 DEF NikonCounted, StartDrain, fuji_events_begin, eos_events_begin,
                    nikon_events_begin, BeginReply
<1>5. CASE reply.op # "NikonGetEvent" /\ Drain
  <2>1. reply'.op # "NikonGetEvent"
    <3>1. PICK r \in [op : Ops, used : Nat] : r = reply
      BY DEF TypeOK
    <3>2. \A n : [r EXCEPT !.used = n].op = r.op
      BY <3>1
    <3> QED BY <1>5, <3>1, <3>2 DEF Drain, ptp_pop_event, ptp_pop_eos_event,
               ptp_pop_nikon_event, EndReply, NoReply
  <2> QED BY <2>1 DEF NikonCounted
<1>6. CASE reply.op = "NikonGetEvent" /\ Drain
  <2>1. PICK r \in [op : Ops, used : Nat] : r = reply
    BY DEF TypeOK
  <2>2. ptp_pop_nikon_event
    BY <1>6 DEF Drain, ptp_pop_event, ptp_pop_eos_event
  <2>3. \/ reply' = NoReply
        \/ r.used < NikonMaxEvents /\ reply' = [r EXCEPT !.used = r.used + 1]
    BY <2>1, <2>2 DEF ptp_pop_nikon_event, EndReply
  <2>4. [r EXCEPT !.used = r.used + 1].used = r.used + 1
    OBVIOUS
  <2> QED BY <1>1, <1>3, <2>1, <2>3, <2>4 DEF NikonCounted
<1>7. CASE Inject \/ vcam_readint \/ Tick \/ StepBack \/ UNCHANGED vars
  <2>1. reply' = reply
    BY <1>7 DEF Inject, ptp_inject_event_data, vcam_readint, Tick, StepBack, vars
  <2> QED BY <1>2, <2>1
<1> QED BY <1>4, <1>5, <1>6, <1>7 DEF Next

\* Nothing of a channel is due if the search finds nothing due.
LEMMA NoneDue ==
    ASSUME IInv, NEW ch \in Channels,
           \A j \in 1 .. Len(queue) : queue[j].channel = ch => ~Due(queue[j])
    PROVE  DueIds({ch}) = {}
<1> SUFFICES ASSUME NEW id \in DueIds({ch}) PROVE FALSE
  OBVIOUS
<1>1. PICK j \in 1 .. Len(queue) : queue[j].id = id
  BY DEF DueIds, QueuedIds
<1>2. hist[id].channel = ch /\ hist[id].instant <= clock
  BY DEF DueIds
<1>3. queue[j].channel = ch
  BY <1>1, <1>2 DEF IInv, QueueMatches
<1>4. clock < hist[id].instant
  BY <1>1, <1>3, NotDueIsLater
<1>5. id \in Ids
  BY <1>1 DEF IInv, QueueMatches
<1>6. clock \in Nat /\ hist[id].instant \in Nat
  BY <1>5, HistoryInstants DEF IInv, TypeOK
<1> QED BY <1>2, <1>4, <1>6

\* The list is sorted, so behind an EOS entry that is not due none is.
LEMMA FirstNotDue ==
    ASSUME IInv, NEW i \in 1 .. Len(queue), ~Due(queue[i]), NEW ch \in Channels,
           \A j \in 1 .. i - 1 : queue[j].channel # ch
    PROVE  DueIds({ch}) = {}
<1> SUFFICES ASSUME NEW id \in DueIds({ch}) PROVE FALSE
  OBVIOUS
<1>1. PICK j \in 1 .. Len(queue) : queue[j].id = id
  BY DEF DueIds, QueuedIds
<1>2. hist[id].channel = ch /\ hist[id].instant <= clock
  BY DEF DueIds
<1>3. queue[j].channel = ch /\ id \in Ids /\ queue[i].id \in Ids
  BY <1>1, <1>2 DEF IInv, QueueMatches
<1>4. Len(queue) \in Nat
  BY DEF IInv, TypeOK
<1>5. i = j \/ i < j
  BY <1>3, <1>4
<1>6. hist[queue[i].id].instant \in Nat /\ hist[id].instant \in Nat /\ clock \in Nat
  BY <1>3, HistoryInstants DEF IInv, TypeOK
<1>7. hist[queue[i].id].instant <= hist[id].instant
  <2>1. CASE i = j
    BY <1>1, <1>6, <2>1
  <2>2. CASE i < j
    BY <1>1, <2>2 DEF IInv, QueueSorted, QueueMatches
  <2> QED BY <1>5, <2>1, <2>2
<1>8. clock < hist[queue[i].id].instant
  BY NotDueIsLater
<1> QED BY <1>2, <1>6, <1>7, <1>8

\* The three loops end where they should.
LEMMA LoopsComplete ==
    ASSUME IInv, Conservation, NikonCounted, [Next]_vars
    PROVE  EndsComplete
<1> SUFFICES ASSUME reply # NoReply, reply' = NoReply
             PROVE  CASE reply.op = "FujiEvents" ->
                           \A i \in 1 .. Len(queue) : queue[i].channel # "CLASSIC"
                      [] reply.op = "EosGetEvent" ->
                           dropped' = dropped => DueIds({"EOS"}) = {}
                      [] reply.op = "NikonGetEvent" ->
                           reply.used = NikonMaxEvents \/ DueIds({"NIKON"}) = {}
  BY DEF EndsComplete
<1>1. TypeOK
  BY DEF IInv
<1>2. PICK r \in [op : Ops, used : Nat] : r = reply
  BY <1>1 DEF TypeOK
<1>3. \A n \in Nat : [r EXCEPT !.used = n].op = r.op
  OBVIOUS
<1>4. Drain
  <2>1. ~(Inject \/ vcam_readint \/ Tick \/ StepBack \/ UNCHANGED vars)
    BY DEF Inject, ptp_inject_event_data, vcam_readint, Tick, StepBack, vars
  <2>2. ~StartDrain
    BY DEF StartDrain, fuji_events_begin, eos_events_begin, nikon_events_begin, BeginReply
  <2> QED BY <2>1, <2>2 DEF Next
<1>5. CASE ptp_pop_event
  <2>1. reply.op = "FujiEvents"
    BY <1>5 DEF ptp_pop_event
  <2>2. NoReply.op # "FujiEvents"
    BY DEF NoReply
  <2>3. find_channel_entry("CLASSIC") = 0
    <3>1. r.used + 1 \in Nat
      OBVIOUS
    <3> QED BY <1>2, <1>3, <1>5, <2>1, <2>2, <3>1 DEF ptp_pop_event
  <2>4. \A i \in 1 .. Len(queue) : queue[i].channel # "CLASSIC"
    BY <1>1, <2>3, FindChannelProperties
  <2> QED BY <2>1, <2>4
<1>6. CASE ptp_pop_eos_event
  <2>1. reply.op = "EosGetEvent"
    BY <1>6 DEF ptp_pop_eos_event
  <2>2. NoReply.op # "EosGetEvent"
    BY DEF NoReply
  <2>3. PICK i : i = find_channel_entry("EOS")
    OBVIOUS
  <2>4. /\ i \in 0 .. Len(queue)
        /\ i # 0 => \A j \in 1 .. i - 1 : queue[j].channel # "EOS"
        /\ i = 0 => \A j \in 1 .. Len(queue) : queue[j].channel # "EOS"
    BY <1>1, <2>3, FindChannelProperties
  <2>5. "EOS" \in Channels /\ Len(queue) \in Nat
    BY <1>1 DEF Channels, TypeOK
  <2> SUFFICES ASSUME dropped' = dropped PROVE DueIds({"EOS"}) = {}
    BY <2>1
  <2>6. CASE i = 0
    BY <2>4, <2>5, <2>6, NoneDue
  <2>7. CASE i # 0 /\ ~Due(queue[i])
    BY <2>4, <2>5, <2>7, FirstNotDue
  <2>8. CASE i # 0 /\ Due(queue[i])
    <3>1. i \in 1 .. Len(queue)
      BY <2>4, <2>5, <2>8
    <3>2. queue[i].id \in QueuedIds
      BY <3>1 DEF QueuedIds
    <3>3. queue[i] \in Entry
      BY <1>1, <3>1 DEF TypeOK
    <3>4. r.used + queue[i].size \in Nat
      BY <3>3 DEF Entry
    <3>5. dropped' = dropped \cup {queue[i].id}
      BY <1>2, <1>3, <1>6, <2>1, <2>2, <2>3, <2>8, <3>4 DEF ptp_pop_eos_event, EndReply
    <3> QED BY <3>2, <3>5 DEF Conservation
  <2> QED BY <2>6, <2>7, <2>8
<1>7. CASE ptp_pop_nikon_event
  <2>1. reply.op = "NikonGetEvent"
    BY <1>7 DEF ptp_pop_nikon_event
  <2>2. NoReply.op # "NikonGetEvent"
    BY DEF NoReply
  <2>3. reply.used >= NikonMaxEvents \/ find_due_entry({"NIKON"}) = 0
    <3>1. r.used + 1 \in Nat
      OBVIOUS
    <3> QED BY <1>2, <1>3, <1>7, <2>1, <2>2, <3>1 DEF ptp_pop_nikon_event
  <2>4. CASE reply.used >= NikonMaxEvents
    <3>1. reply.used \in Nat /\ NikonMaxEvents \in Nat
      BY <1>1, ConstantsAssumption DEF TypeOK
    <3>2. reply.used = NikonMaxEvents
      BY <2>1, <2>4, <3>1 DEF NikonCounted
    <3> QED BY <2>1, <3>2
  <2>5. CASE find_due_entry({"NIKON"}) = 0
    <3>1. \A j \in 1 .. Len(queue) : ~(queue[j].channel \in {"NIKON"} /\ Due(queue[j]))
      BY <1>1, <2>5, FindDueProperties
    <3>2. \A j \in 1 .. Len(queue) : queue[j].channel = "NIKON" => ~Due(queue[j])
      BY <3>1
    <3>3. DueIds({"NIKON"}) = {}
      BY <3>2, NoneDue DEF Channels
    <3> QED BY <2>1, <3>3
  <2> QED BY <2>3, <2>4, <2>5
<1> QED BY <1>4, <1>5, <1>6, <1>7 DEF Drain

\* Every GetEvent reply is complete: Fuji's leaves no classic entry behind, the
\* one of EOS no due entry unless it overflowed, and Nikon's none unless it is
\* full (the loops of fuji_send_events, vusb_ptp_eos_events, nikon_pop_events).
THEOREM RepliesComplete == Spec => DrainComplete
<1>1. Init => NikonCounted
  BY DEF Init, NikonCounted, NoReply
<1>2. IInv /\ NikonCounted /\ [Next]_vars => NikonCounted'
  BY NikonCountKept DEF IInv
<1>3. IInv /\ Conservation /\ NikonCounted /\ [Next]_vars => [EndsComplete]_vars
  BY LoopsComplete
<1> QED BY <1>1, <1>2, <1>3, Invariance, EventsConserved, PTL DEF Spec, DrainComplete

=============================================================================
