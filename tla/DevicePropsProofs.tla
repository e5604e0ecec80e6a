------------------------- MODULE DevicePropsProofs -------------------------
(***************************************************************************)
(* Proofs about the device properties of the three vendors, for any tables *)
(* of properties, any widths of values and steps, and any sequence of      *)
(* requests.                                                               *)
(***************************************************************************)
EXTENDS DeviceProps, SeqLemmas, FiniteSetTheorems

-----------------------------------------------------------------------------
(* The inductive invariant *)

\* A registered description: like its row, cut to the width of the property.
IsDesc(d) ==
    /\ d.width \in 1 .. 4 /\ d.form \in {"none", "enum", "range"}
    /\ d.avail \in Seq(Values)
    /\ d.min \in Values /\ d.max \in Values /\ d.step \in Nat

BodyInv ==
    /\ body.vendor \in {"canon", "nikon", "sony"}
    /\ IsFiniteSet(Props)
    /\ \A p \in Props : IsDesc(body.props[p])
    /\ Vendor("canon") => "CaptureDestination" \in Props
    /\ Vendor("nikon") =>
          /\ LiveView \in Props /\ body.props[LiveView].width = 1
          /\ ~body.props[LiveView].rw

Note == [p : Props \cup {"unregistered"}, v : Values]

\* Values are stored whole, whoever wrote them.
DataInv ==
    /\ value \in [Props -> Values] /\ stored \in [Props -> 1 .. 4]
    /\ \A p \in Props : stored[p] >= body.props[p].width
    /\ queue \in Seq(Note) /\ Len(queue) <= MaxQueue + Cardinality(Props)
    /\ view \in [Props -> Values \cup {Unknown}]

ControlInv ==
    /\ first_events \in BOOLEAN /\ waiting \in BOOLEAN
    /\ capture_destination \in Values /\ calls_to_liveview \in 0 .. FirstFrame
    /\ liveview_status \in {0, 1} /\ writes \in 0 .. MaxWrites

\* A client steps towards an entry of the enumeration.
GoalInv ==
    goal # NoGoal =>
        /\ goal.p \in Props
        /\ \E i \in DOMAIN body.props[goal.p].avail :
              body.props[goal.p].avail[i] = goal.t

Core == BodyInv /\ DataInv /\ ControlInv /\ GoalInv

\* The copy of the destination that captures go by agrees with the property as
\* far as captures ask.
FlagInv ==
    /\ Vendor("nikon") => liveview_status = value[LiveView]
    /\ Vendor("canon") =>
          (capture_destination = Sdram <=> value["CaptureDestination"] = Sdram)
    /\ saved.to = saved.said

\* The last announcement of a property that waits in the channel of an EOS body
\* carries the value the property has.
Told(p) ==
    \A i \in 1 .. Len(queue) :
        queue[i].p = p /\ (\A j \in i + 1 .. Len(queue) : queue[j].p # p)
            => queue[i].v = value[p]

ViewInv ==
    /\ ViewTrue
    /\ Vendor("canon") => \A p \in Props : body.props[p].width = 4 /\ Told(p)

-----------------------------------------------------------------------------
(* Helpers *)

\* The values of a property are numbers below the modulus.
LEMMA ValueFacts ==
    /\ Modulus \in Nat /\ Modulus >= 8 /\ ValueHalf \in Nat /\ Modulus = 2 * ValueHalf
    /\ Values \subseteq Nat /\ 0 \in Values /\ 1 \in Values
    /\ WriteValues \subseteq Values /\ Card \in Values
    /\ \A x \in Int : x % Modulus \in Values
<1>1. ValueHalf \in Nat /\ ValueHalf >= 4
  BY BoundsAssumption
<1>2. Modulus \in Nat /\ Modulus >= 8 /\ Modulus = 2 * ValueHalf
  BY <1>1 DEF Modulus
<1>3. Values \subseteq Nat /\ 0 \in Values /\ 1 \in Values
      /\ WriteValues \subseteq Values /\ Card \in Values
  BY <1>2 DEF Values, WriteValues, Card, Sdram
<1>4. \A x \in Int : x % Modulus \in 0 .. Modulus - 1
  BY <1>2
<1> QED BY <1>1, <1>2, <1>3, <1>4 DEF Values

\* A number below the modulus is its own remainder; a negative one above minus
\* the modulus has the modulus added.
LEMMA Remainders ==
    /\ \A x \in 0 .. Modulus - 1 : x % Modulus = x
    /\ \A x \in -Modulus .. -1 : x % Modulus = x + Modulus
<1>1. PICK m \in Nat : m = Modulus /\ m >= 8
  BY ValueFacts
<1>2. \A x \in 0 .. m - 1 : x % m = x
  BY <1>1
<1>3. \A x \in -m .. -1 : x % m = x + m
  BY <1>1
<1> QED BY <1>1, <1>2, <1>3

\* SetToSeq of a finite set lists its members.
LEMMA SetToSeqLists ==
    ASSUME NEW S, IsFiniteSet(S)
    PROVE  SetToSeq(S) \in [1 .. Cardinality(S) -> S] /\ Cardinality(S) \in Nat
<1>1. Cardinality(S) \in Nat /\ ExistsBijection(1 .. Cardinality(S), S)
  BY FS_CardinalityType
<1>2. \E f \in [1 .. Cardinality(S) -> S] : IsInjective(f)
  BY <1>1 DEF ExistsBijection, Bijection, Injection, IsInjective
<1> QED BY <1>1, <1>2 DEF SetToSeq

\* The first place of a value in a list.
LEMMA IndexFirst ==
    ASSUME NEW S, NEW s \in Seq(S), NEW v, \E i \in DOMAIN s : s[i] = v
    PROVE  Index(s, v) \in 1 .. Len(s) /\ s[Index(s, v)] = v
<1> DEFINE I == {i \in DOMAIN s : s[i] = v}
<1>1. DOMAIN s = 1 .. Len(s) /\ Len(s) \in Nat
  OBVIOUS
<1>2. I \subseteq Nat /\ I # {}
  BY <1>1
<1>3. PICK m \in I : \A n \in I : m <= n
  BY <1>2, LeastNat
<1>4. m \in DOMAIN s /\ s[m] = v /\ \A j \in 1 .. m - 1 : s[j] # v
  BY <1>1, <1>3
<1>5. \E i \in DOMAIN s : s[i] = v /\ \A j \in 1 .. i - 1 : s[j] # v
  BY <1>4
<1> QED BY <1>1, <1>5 DEF Index

\* The last announcement of a property.
LEMMA LastOfIs ==
    ASSUME NEW S, NEW q \in Seq(S), NEW p, \E i \in DOMAIN q : q[i].p = p
    PROVE  /\ LastOf(p, q) \in 1 .. Len(q) /\ q[LastOf(p, q)].p = p
           /\ \A j \in LastOf(p, q) + 1 .. Len(q) : q[j].p # p
<1> DEFINE I == {i \in DOMAIN q : q[i].p = p}
<1>1. DOMAIN q = 1 .. Len(q) /\ Len(q) \in Nat
  OBVIOUS
<1>2. I \subseteq 0 .. Len(q) /\ I # {}
  BY <1>1
<1>3. Max(I) \in I /\ \A k \in I : Max(I) >= k
  BY <1>1, <1>2, MaxIsGreatest
<1>4. \E i \in I : \A j \in I : j <= i
  BY <1>1, <1>3
<1>5. LastOf(p, q) \in I /\ \A j \in I : j <= LastOf(p, q)
  BY <1>4 DEF LastOf
<1>6. LastOf(p, q) \in 1 .. Len(q) /\ q[LastOf(p, q)].p = p
  BY <1>1, <1>5
<1>7. ASSUME NEW j \in LastOf(p, q) + 1 .. Len(q) PROVE q[j].p # p
  <2>1. j \in 1 .. Len(q) /\ ~(j <= LastOf(p, q))
    BY <1>1, <1>6
  <2> QED BY <1>1, <1>5, <2>1
<1> QED BY <1>6, <1>7

\* The body is never changed.
LEMMA BodyKept ==
    ASSUME [Next]_vars
    PROVE  body' = body
<1>1. CanonNext => body' = body
  BY DEF CanonNext, ptp_eos_set_property_data, ptp_eos_generic, eos_capture_trigger,
         eos_pack_all_props, vusb_ptp_eos_events, ptp_eos_viewfinder_data
<1>2. NikonNext => body' = body
  BY DEF NikonNext, nikon_setdevicepropvalue_data, nikon_liveview_op,
         nikon_getliveviewimg_op, NikonEvent, ptp_getdevicepropdesc_write
<1>3. SonyNext => body' = body
  BY DEF SonyNext, sony_setdevicepropvalue_data, Dial, sony_controldevice_data,
         sony_getalldevicepropinfo_op, SonyEvent, StartStepping, StepOn, StopStepping
<1>4. WantFrame \/ Reconnect => body' = body
  BY DEF WantFrame, Reconnect
<1>5. UNCHANGED vars => body' = body
  BY DEF vars
<1> QED BY <1>1, <1>2, <1>3, <1>4, <1>5 DEF Next

\* What is said of the body alone.
LEMMA BodyKeeps ==
    ASSUME BodyInv, body' = body
    PROVE  BodyInv' /\ Props' = Props /\ Note' = Note
<1>1. Props' = Props
  BY DEF Props
<1>2. BodyInv'
  BY <1>1 DEF BodyInv, Vendor
<1>3. Note' = Note
  BY <1>1 DEF Note
<1> QED BY <1>1, <1>2, <1>3

\* A write of at least the property's width leaves a whole value behind.
LEMMA DataSet ==
    ASSUME Core, NEW p, NEW v \in Values, NEW length \in 1 .. 4,
           p \in Props => length >= body.props[p].width,
           vcam_set_prop_data(p, v, length)
    PROVE  /\ value' \in [Props -> Values] /\ stored' \in [Props -> 1 .. 4]
           /\ \A q \in Props : stored'[q] >= body.props[q].width
           /\ \A q \in Props : value'[q] = IF q = p THEN v ELSE value[q]
<1>1. /\ value \in [Props -> Values] /\ stored \in [Props -> 1 .. 4]
      /\ \A q \in Props : stored[q] >= body.props[q].width
  BY DEF Core, DataInv
<1>2. CASE p \in Props
  <2>1. /\ value' = [value EXCEPT ![p] = v] /\ stored' = [stored EXCEPT ![p] = length]
    BY <1>2 DEF vcam_set_prop_data
  <2> QED BY <1>1, <1>2, <2>1
<1>3. CASE p \notin Props
  BY <1>1, <1>3 DEF vcam_set_prop_data
<1> QED BY <1>2, <1>3

\* An announcement joins the queue.
LEMMA QueueAdd ==
    ASSUME Core, NEW p \in Props \cup {"unregistered"}, NEW v \in Values,
           Announce(p, v), Len(queue) < MaxQueue
    PROVE  /\ queue' \in Seq(Note) /\ Len(queue) \in Nat
           /\ Len(queue') = Len(queue) + 1
           /\ Len(queue') <= MaxQueue + Cardinality(Props)
           /\ \A i \in 1 .. Len(queue) : queue'[i] = queue[i]
           /\ queue'[Len(queue) + 1].p = p /\ queue'[Len(queue) + 1].v = v
<1>1. queue \in Seq(Note) /\ Len(queue) \in Nat /\ MaxQueue \in Nat
      /\ Cardinality(Props) \in Nat
  BY BoundsAssumption, FS_CardinalityType DEF Core, DataInv, BodyInv
<1>2. PICK e : e = [p |-> p, v |-> v]
  OBVIOUS
<1>3. e \in Note /\ e.p = p /\ e.v = v
  BY <1>2 DEF Note
<1>4. queue' = Append(queue, e)
  BY <1>2 DEF Announce
<1>5. /\ queue' \in Seq(Note) /\ Len(queue') = Len(queue) + 1
      /\ \A i \in 1 .. Len(queue) : queue'[i] = queue[i]
      /\ queue'[Len(queue) + 1] = e
  BY <1>1, <1>3, <1>4, AppendProperties
<1> QED BY <1>1, <1>3, <1>5

-----------------------------------------------------------------------------
(* Values are stored whole *)

\* The parts of the data that a step may leave alone.
Data(v, s) ==
    /\ v \in [Props -> Values] /\ s \in [Props -> 1 .. 4]
    /\ \A p \in Props : s[p] >= body.props[p].width

Queued(q) == q \in Seq(Note) /\ Len(q) <= MaxQueue + Cardinality(Props)

Seen(w) == w \in [Props -> Values \cup {Unknown}]

\* The invariant after a step, from its parts.
LEMMA CoreFrom ==
    ASSUME Core, body' = body, Data(value', stored'), Queued(queue'), Seen(view'),
           ControlInv', goal' = goal \/ goal' = NoGoal
    PROVE  Core'
<1>1. BodyInv' /\ Props' = Props /\ Note' = Note
  BY BodyKeeps DEF Core
<1>2. DataInv'
  BY <1>1 DEF DataInv, Data, Queued, Seen
<1>3. GoalInv'
  BY <1>1 DEF Core, GoalInv, NoGoal
<1> QED BY <1>1, <1>2, <1>3 DEF Core

\* What a step leaves alone keeps its type.
LEMMA CoreParts ==
    ASSUME Core
    PROVE  /\ Data(value, stored) /\ Queued(queue) /\ Seen(view) /\ Seen(value)
           /\ Seen([p \in Props |-> Unknown])
           /\ Len(queue) \in Nat /\ DOMAIN queue = 1 .. Len(queue)
           /\ Cardinality(Props) \in Nat /\ MaxQueue \in Nat /\ MaxWrites \in Nat
           /\ FirstFrame \in Nat
<1>1. Data(value, stored) /\ Queued(queue) /\ Seen(view) /\ Seen(value)
  BY DEF Core, DataInv, Data, Queued, Seen
<1>2. Seen([p \in Props |-> Unknown])
  BY DEF Seen
<1>3. Len(queue) \in Nat /\ DOMAIN queue = 1 .. Len(queue)
  BY <1>1 DEF Queued
<1>4. Cardinality(Props) \in Nat /\ MaxQueue \in Nat /\ MaxWrites \in Nat
      /\ FirstFrame \in Nat
  BY BoundsAssumption, FS_CardinalityType DEF Core, BodyInv
<1> QED BY <1>1, <1>2, <1>3, <1>4

\* SetDevicePropValueEx of an EOS body.
LEMMA EosSetCore ==
    ASSUME Core, NEW p \in Props \cup {"unregistered"}, NEW v \in WriteValues,
           ptp_eos_set_property_data(p, v)
    PROVE  Core'
<1>1. v \in Values /\ 0 \in Values
  BY ValueFacts
<1>2. /\ Len(queue) < MaxQueue /\ writes < MaxWrites /\ writes' = writes + 1
      /\ capture_destination' = IF p = "CaptureDestination" THEN v ELSE capture_destination
      /\ vcam_set_prop_data(p, v, 4) /\ Announce(p, EntryValue(p, v))
      /\ UNCHANGED <<body, view, first_events, calls_to_liveview, liveview_status,
                     waiting, goal>>
  BY DEF ptp_eos_set_property_data, Write
<1>3. Data(value', stored')
  <2>1. p \in Props => 4 >= body.props[p].width
    BY DEF Core, BodyInv, IsDesc
  <2> QED BY <1>1, <1>2, <2>1, DataSet DEF Data
<1>4. Queued(queue')
  <2>1. EntryValue(p, v) \in Values
    BY <1>1 DEF EntryValue
  <2> QED BY <1>2, <2>1, QueueAdd DEF Queued
<1>5. Seen(view')
  BY <1>2, CoreParts
<1>6. ControlInv'
  <2>1. MaxWrites \in Nat
    BY CoreParts
  <2> QED BY <1>1, <1>2, <2>1 DEF Core, ControlInv
<1> QED BY <1>2, <1>3, <1>4, <1>5, <1>6, CoreFrom

\* The exposure settings announced by a capture.
ExposureNotes ==
    [i \in 1 .. Cardinality(Exposure) |->
        LET p == SetToSeq(Exposure)[i] IN [p |-> p, v |-> EntryValue(p, value[p])]]

\* They are of registered properties, with the values these have.
LEMMA ExposureTyped ==
    ASSUME Core
    PROVE  /\ ExposureNotes \in Seq(Note)
           /\ Len(ExposureNotes) \in Nat /\ Len(ExposureNotes) <= Cardinality(Props)
           /\ \A i \in 1 .. Len(ExposureNotes) :
                 /\ ExposureNotes[i].p \in Props
                 /\ ExposureNotes[i].v = EntryValue(ExposureNotes[i].p,
                                                    value[ExposureNotes[i].p])
<1>1. /\ IsFiniteSet(Exposure) /\ Cardinality(Exposure) <= Cardinality(Props)
      /\ Exposure \subseteq Props
  <2>1. IsFiniteSet(Props) /\ Exposure \subseteq Props
    BY DEF Core, BodyInv, Exposure
  <2> QED BY <2>1, FS_Subset
<1>2. PICK f : f = SetToSeq(Exposure)
  OBVIOUS
<1>3. f \in [1 .. Cardinality(Exposure) -> Exposure] /\ Cardinality(Exposure) \in Nat
  BY <1>1, <1>2, SetToSeqLists
<1>4. PICK n \in Nat : n = Cardinality(Exposure)
  BY <1>3
<1> DEFINE E(i) == [p |-> f[i], v |-> EntryValue(f[i], value[f[i]])]
<1>5. ASSUME NEW i \in 1 .. n
      PROVE  E(i) \in Note /\ E(i).p = f[i] /\ E(i).v = EntryValue(f[i], value[f[i]])
             /\ f[i] \in Props
  <2>1. f[i] \in Props
    BY <1>1, <1>3, <1>4
  <2>2. value[f[i]] \in Values /\ 0 \in Values
    BY <2>1, ValueFacts DEF Core, DataInv
  <2>3. EntryValue(f[i], value[f[i]]) \in Values
    BY <2>2 DEF EntryValue
  <2> QED BY <2>1, <2>3 DEF Note
<1>6. ExposureNotes = [i \in 1 .. n |-> E(i)]
  BY <1>2, <1>4 DEF ExposureNotes
<1> HIDE DEF E
<1>7. /\ [i \in 1 .. n |-> E(i)] \in Seq(Note) /\ Len([i \in 1 .. n |-> E(i)]) = n
      /\ \A i \in 1 .. n : [j \in 1 .. n |-> E(j)][i] = E(i)
  BY <1>5
<1> QED BY <1>1, <1>4, <1>5, <1>6, <1>7

\* A capture.
LEMMA EosTriggerCore ==
    ASSUME Core, eos_capture_trigger
    PROVE  Core'
<1>1. /\ Len(queue) < MaxQueue /\ writes < MaxWrites /\ writes' = writes + 1
      /\ queue' = queue \o ExposureNotes
      /\ UNCHANGED <<body, value, stored, view, first_events, capture_destination,
                     calls_to_liveview, liveview_status, waiting, goal>>
  BY DEF eos_capture_trigger, Write, ExposureNotes
<1>2. Queued(queue')
  <2>1. /\ ExposureNotes \in Seq(Note) /\ Len(ExposureNotes) \in Nat
        /\ Len(ExposureNotes) <= Cardinality(Props)
    BY ExposureTyped
  <2>2. queue \in Seq(Note) /\ Len(queue) \in Nat /\ MaxQueue \in Nat
        /\ Cardinality(Props) \in Nat
    BY CoreParts DEF Queued
  <2>3. queue' \in Seq(Note) /\ Len(queue') = Len(queue) + Len(ExposureNotes)
    BY <1>1, <2>1, <2>2, ConcatProperties
  <2> QED BY <1>1, <2>1, <2>2, <2>3 DEF Queued
<1>3. ControlInv'
  <2>1. MaxWrites \in Nat
    BY CoreParts
  <2> QED BY <1>1, <2>1 DEF Core, ControlInv
<1> QED BY <1>1, <1>2, <1>3, CoreParts, CoreFrom

\* The events of an EOS body: all properties, or the channel.
LEMMA EosEventsCore ==
    ASSUME Core, eos_pack_all_props \/ vusb_ptp_eos_events
    PROVE  Core'
<1>1. /\ UNCHANGED <<body, value, stored, capture_destination, calls_to_liveview,
                     liveview_status, waiting, goal, writes>>
      /\ first_events' = first_events \/ first_events' = FALSE
      /\ queue' = queue \/ queue' = <<>>
  BY DEF eos_pack_all_props, vusb_ptp_eos_events, canon, client
<1>2. Queued(queue')
  <2>1. Queued(<<>>)
    BY CoreParts DEF Queued
  <2> QED BY <1>1, <2>1, CoreParts
<1>3. Seen(view')
  <2>1. CASE eos_pack_all_props
    BY <2>1, CoreParts DEF eos_pack_all_props
  <2>2. CASE vusb_ptp_eos_events
    <3>1. ASSUME NEW p \in Props, \E i \in DOMAIN queue : queue[i].p = p
          PROVE  queue[LastOf(p, queue)].v \in Values
      <4>1. queue \in Seq(Note)
        BY DEF Core, DataInv
      <4>2. LastOf(p, queue) \in 1 .. Len(queue)
        BY <3>1, <4>1, LastOfIs
      <4>3. queue[LastOf(p, queue)] \in Note
        BY <4>1, <4>2
      <4> QED BY <4>3 DEF Note
    <3>2. \A p \in Props : view[p] \in Values \cup {Unknown}
      BY DEF Core, DataInv
    <3> QED BY <2>2, <3>1, <3>2 DEF vusb_ptp_eos_events, Seen
  <2> QED BY <2>1, <2>2
<1>4. first_events' \in BOOLEAN
  <2>1. first_events \in BOOLEAN
    BY DEF Core, ControlInv
  <2> QED BY <1>1, <2>1, Zenon
<1>5. ControlInv'
  BY <1>1, <1>4 DEF Core, ControlInv
<1>6. Data(value', stored')
  BY <1>1, CoreParts
<1> QED BY <1>1, <1>2, <1>3, <1>5, <1>6, CoreFrom

\* The modes, and the polls for a live view frame.
LEMMA EosModesCore ==
    ASSUME Core, ptp_eos_generic \/ ptp_eos_viewfinder_data
    PROVE  Core'
<1>1. /\ UNCHANGED <<body, value, stored, queue, view, capture_destination,
                     liveview_status, goal, writes>>
      /\ first_events' = first_events \/ first_events' = TRUE
      /\ waiting' = waiting \/ waiting' = (calls_to_liveview' < FirstFrame)
      /\ \/ calls_to_liveview' = calls_to_liveview
         \/ calls_to_liveview' = IF calls_to_liveview < FirstFrame
                                 THEN calls_to_liveview + 1 ELSE calls_to_liveview
  BY DEF ptp_eos_generic, ptp_eos_viewfinder_data, state, client
<1>2. calls_to_liveview' \in 0 .. FirstFrame
  <2>1. FirstFrame \in Nat
    BY CoreParts
  <2> QED BY <1>1, <2>1 DEF Core, ControlInv
<1>3. first_events' \in BOOLEAN /\ waiting' \in BOOLEAN
  <2>1. first_events \in BOOLEAN /\ waiting \in BOOLEAN
    BY DEF Core, ControlInv
  <2>2. (calls_to_liveview' < FirstFrame) \in BOOLEAN
    OBVIOUS
  <2> QED BY <1>1, <2>1, <2>2, Zenon
<1>4. ControlInv'
  BY <1>1, <1>2, <1>3 DEF Core, ControlInv
<1>5. Data(value', stored') /\ Queued(queue') /\ Seen(view')
  BY <1>1, CoreParts
<1> QED BY <1>1, <1>4, <1>5, CoreFrom

\* A Nikon client writes a property it may write, of its width at least.
LEMMA NikonSetCore ==
    ASSUME Core, NEW p \in Props, NEW v \in WriteValues, NEW len \in {0, 1, 2, 4},
           len = 0 \/ len >= body.props[p].width,
           nikon_setdevicepropvalue_data(p, v, len)
    PROVE  Core'
<1>1. v \in Values /\ 0 \in Values
  BY ValueFacts
<1>2. /\ Len(queue) < MaxQueue /\ writes < MaxWrites /\ writes' = writes + 1
      /\ len = 0 => UNCHANGED <<value, stored>>
      /\ len # 0 => vcam_set_prop_data(p, v, len)
      /\ queue' = queue \/ Announce(p, 0)
      /\ UNCHANGED <<body, view, first_events, capture_destination, calls_to_liveview,
                     liveview_status, waiting, goal>>
  BY DEF nikon_setdevicepropvalue_data, Write, canon
<1>3. Data(value', stored')
  <2>1. CASE len = 0
    BY <1>2, <2>1, CoreParts
  <2>2. CASE len # 0
    <3>1. len \in 1 .. 4 /\ len >= body.props[p].width
      BY <2>2
    <3> QED BY <1>1, <1>2, <2>2, <3>1, DataSet DEF Data
  <2> QED BY <2>1, <2>2
<1>4. Queued(queue')
  <2>1. CASE queue' = queue
    BY <2>1, CoreParts
  <2>2. CASE Announce(p, 0)
    BY <1>1, <1>2, <2>2, QueueAdd DEF Queued
  <2> QED BY <1>2, <2>1, <2>2
<1>5. Seen(view')
  BY <1>2, CoreParts
<1>6. ControlInv'
  <2>1. MaxWrites \in Nat
    BY CoreParts
  <2> QED BY <1>2, <2>1 DEF Core, ControlInv
<1> QED BY <1>2, <1>3, <1>4, <1>5, <1>6, CoreFrom

\* Live view begins, ends, or has a frame.
LEMMA NikonLiveCore ==
    ASSUME Core, (\E on \in {0, 1} : nikon_liveview_op(on)) \/ nikon_getliveviewimg_op
    PROVE  Core'
<1>1. CASE \E on \in {0, 1} : nikon_liveview_op(on)
  <2>1. PICK on \in {0, 1} :
          /\ Vendor("nikon") /\ liveview_status' = on
          /\ vcam_set_prop_data(LiveView, on, 1)
          /\ UNCHANGED <<body, queue, view, first_events, capture_destination,
                         calls_to_liveview, waiting, goal, writes>>
    BY <1>1 DEF nikon_liveview_op, canon, client
  <2>2. on \in Values /\ 1 >= body.props[LiveView].width
    BY <2>1, ValueFacts DEF Core, BodyInv
  <2>3. Data(value', stored')
    BY <2>1, <2>2, DataSet DEF Data
  <2>4. ControlInv'
    BY <2>1 DEF Core, ControlInv
  <2>5. Queued(queue') /\ Seen(view')
    BY <2>1, CoreParts
  <2> QED BY <2>1, <2>3, <2>4, <2>5, CoreFrom
<1>2. CASE nikon_getliveviewimg_op
  <2>1. /\ waiting' = FALSE
        /\ UNCHANGED <<body, value, stored, queue, view, first_events,
                       capture_destination, calls_to_liveview, liveview_status, goal,
                       writes>>
    BY <1>2 DEF nikon_getliveviewimg_op, state, canon
  <2>2. waiting' \in BOOLEAN
    BY <2>1, Zenon
  <2>3. ControlInv'
    BY <2>1, <2>2 DEF Core, ControlInv
  <2>4. Data(value', stored') /\ Queued(queue') /\ Seen(view')
    BY <2>1, CoreParts
  <2> QED BY <2>1, <2>3, <2>4, CoreFrom
<1> QED BY <1>1, <1>2

\* A step of the client, or of an event on its way to it, that only touches the
\* view and takes announcements away.
LEMMA ViewCore ==
    ASSUME Core,
           UNCHANGED <<body, value, stored, first_events, capture_destination,
                       calls_to_liveview, liveview_status, waiting, goal, writes>>,
           Queued(queue'), Seen(view')
    PROVE  Core'
<1>1. ControlInv'
  BY DEF Core, ControlInv
<1>2. Data(value', stored')
  BY CoreParts
<1> QED BY <1>1, <1>2, CoreFrom

\* A change of one entry of the view.
LEMMA SeenExcept ==
    ASSUME Core, NEW p, NEW w \in Values \cup {Unknown}
    PROVE  Seen([view EXCEPT ![p] = w])
BY DEF Core, DataInv, Seen

\* Events and descriptions of a Nikon body.
LEMMA NikonViewCore ==
    ASSUME Core, NikonEvent \/ \E p \in Props : ptp_getdevicepropdesc_write(p)
    PROVE  Core'
<1>1. UNCHANGED <<body, value, stored, first_events, capture_destination,
                  calls_to_liveview, liveview_status, waiting, goal, writes>>
  BY DEF NikonEvent, ptp_getdevicepropdesc_write, canon, client
<1>2. CASE NikonEvent
  <2>1. PICK i \in 1 .. Len(queue) :
          queue' = RemoveAt(queue, i) /\ view' = [view EXCEPT ![queue[i].p] = Unknown]
    BY <1>2, CoreParts DEF NikonEvent
  <2>2. queue \in Seq(Note) /\ Len(queue) \in Nat /\ Len(queue) <= MaxQueue + Cardinality(Props)
        /\ MaxQueue + Cardinality(Props) \in Nat
    BY CoreParts DEF Queued
  <2>3. queue' \in Seq(Note) /\ Len(queue') = Len(queue) - 1
    BY <2>1, <2>2, RemoveAtProperties
  <2>4. Queued(queue')
    BY <2>2, <2>3 DEF Queued
  <2>5. Seen(view')
    BY <2>1, SeenExcept
  <2> QED BY <1>1, <2>4, <2>5, ViewCore
<1>3. CASE \E p \in Props : ptp_getdevicepropdesc_write(p)
  <2>1. PICK p \in Props : view' = [view EXCEPT ![p] = value[p]] /\ queue' = queue
    BY <1>3 DEF ptp_getdevicepropdesc_write
  <2>2. value[p] \in Values
    BY DEF Core, DataInv
  <2>3. Seen(view') /\ Queued(queue')
    BY <2>1, <2>2, SeenExcept, CoreParts
  <2> QED BY <1>1, <2>3, ViewCore
<1> QED BY <1>2, <1>3

\* Clamping to a nonempty interval: the nearest number of it.
LEMMA ClampNearest ==
    ASSUME NEW x \in Int, NEW lo \in Int, NEW hi \in Int
    PROVE  /\ Clamp(x, lo, hi) \in Int
           /\ lo <= hi =>
                 /\ Clamp(x, lo, hi) \in lo .. hi
                 /\ \A y \in lo .. hi : Distance(Clamp(x, lo, hi), x) <= Distance(y, x)
BY DEF Clamp, Distance

\* A step stays within the values.
LEMMA StepTyped ==
    ASSUME Core, NEW p \in Props, NEW step \in Int
    PROVE  sony_apply_step(body.props[p], value[p], step) \in Values
<1>1. PICK d : d = body.props[p]
  OBVIOUS
<1>2. IsDesc(d) /\ value[p] \in Values
  BY <1>1 DEF Core, BodyInv, DataInv
<1>3. PICK cur \in Values : cur = value[p]
  BY <1>2
<1>4. PICK s \in Seq(Values) : s = d.avail
  BY <1>2 DEF IsDesc
<1>5. StepHalf \in Nat /\ Delta(step) \in Int
  BY BoundsAssumption DEF Delta
<1>6. PICK delta \in Int : delta = Delta(step)
  BY <1>5
<1>7. ASSUME s # <<>> PROVE StepEnum(s, cur, delta) \in Values
  <2>1. Len(s) \in Nat /\ Len(s) >= 1
    BY <1>7, EmptySeq
  <2>2. CASE \E i \in DOMAIN s : s[i] = cur
    <3>1. Index(s, cur) \in 1 .. Len(s)
      BY <2>2, IndexFirst
    <3>2. Clamp(Index(s, cur) + delta, 1, Len(s)) \in 1 .. Len(s)
      <4>1. PICK k \in Int : k = Index(s, cur) + delta
        BY <2>1, <3>1
      <4>2. PICK n \in Int : n = Len(s) /\ 1 <= n
        BY <2>1
      <4>3. Clamp(k, 1, n) \in 1 .. n
        BY <4>2 DEF Clamp
      <4> QED BY <4>1, <4>2, <4>3
    <3> QED BY <2>2, <3>2 DEF StepEnum
  <2>3. CASE ~\E i \in DOMAIN s : s[i] = cur
    <3>1. s[1] \in Values /\ s[Len(s)] \in Values
      BY <2>1
    <3> QED BY <2>3, <3>1 DEF StepEnum
  <2> QED BY <2>2, <2>3
<1>8. StepRange(d, cur, delta) \in Values
  <2>1. PICK m \in Int : m = delta * d.step
    BY <1>2 DEF IsDesc
  <2>2. \A v \in Values : Number(d, v) \in Int
    BY ValueFacts DEF Number
  <2>3. Number(d, cur) + m \in Int /\ Number(d, d.min) \in Int /\ Number(d, d.max) \in Int
    BY <1>2, <2>2 DEF IsDesc
  <2>4. Clamp(Number(d, cur) + m, Number(d, d.min), Number(d, d.max)) \in Int
    BY <2>3, ClampNearest
  <2> QED BY <2>1, <2>4, ValueFacts DEF StepRange
<1>9. sony_apply_step(d, cur, step) \in Values
  BY <1>4, <1>6, <1>7, <1>8 DEF sony_apply_step
<1> QED BY <1>1, <1>3, <1>9

\* SDIO_SetExtDevicePropValue.
LEMMA SonySetCore ==
    ASSUME Core, NEW p \in Props \cup {"unregistered"}, NEW v \in WriteValues,
           NEW len \in {0, 1, 2, 4}, sony_setdevicepropvalue_data(p, v, len)
    PROVE  Core'
<1>1. v \in Values /\ 0 \in Values
  BY ValueFacts
<1>2. /\ Len(queue) < MaxQueue /\ writes < MaxWrites /\ writes' = writes + 1
      /\ \/ p \in Props /\ vcam_set_prop_data(p, v, body.props[p].width)
         \/ UNCHANGED <<value, stored>>
      /\ Announce(p, 0)
      /\ UNCHANGED <<body, view, first_events, capture_destination, calls_to_liveview,
                     liveview_status, waiting, goal>>
  BY DEF sony_setdevicepropvalue_data, Write, canon
<1>3. Data(value', stored')
  <2>1. CASE p \in Props /\ vcam_set_prop_data(p, v, body.props[p].width)
    <3>1. PICK w \in 1 .. 4 : w = body.props[p].width
      BY <2>1 DEF Core, BodyInv, IsDesc
    <3>2. vcam_set_prop_data(p, v, w) /\ w >= body.props[p].width
      BY <2>1, <3>1
    <3> QED BY <1>1, <3>2, DataSet DEF Data
  <2>2. CASE UNCHANGED <<value, stored>>
    BY <2>2, CoreParts
  <2> QED BY <1>2, <2>1, <2>2
<1>4. Queued(queue')
  BY <1>1, <1>2, QueueAdd DEF Queued
<1>5. Seen(view')
  BY <1>2, CoreParts
<1>6. ControlInv'
  <2>1. MaxWrites \in Nat
    BY CoreParts
  <2> QED BY <1>2, <2>1 DEF Core, ControlInv
<1> QED BY <1>2, <1>3, <1>4, <1>5, <1>6, CoreFrom

\* What SDIO_ControlDevice does to the data.
LEMMA ControlData ==
    ASSUME Core, NEW p \in Props, NEW step \in Int, sony_controldevice_data(p, step),
           Len(queue) < MaxQueue
    PROVE  /\ Data(value', stored') /\ Queued(queue')
           /\ \E new \in Values :
                 /\ new = sony_apply_step(body.props[p], value[p], step)
                 /\ \A q \in Props : value'[q] = IF q = p THEN new ELSE value[q]
                 /\ new # value[p] => Announce(p, 0)
                 /\ new = value[p] => queue' = queue
           /\ UNCHANGED <<body, first_events, capture_destination, calls_to_liveview,
                          saved, liveview_status, waiting>>
<1>1. PICK new \in Values : new = sony_apply_step(body.props[p], value[p], step)
  BY StepTyped
<1>2. /\ value' = [value EXCEPT ![p] = new] /\ stored' = stored
      /\ new # value[p] => Announce(p, 0)
      /\ new = value[p] => queue' = queue
      /\ UNCHANGED <<body, first_events, capture_destination, calls_to_liveview,
                     saved, liveview_status, waiting>>
  BY <1>1 DEF sony_controldevice_data, canon
<1>3. Data(value', stored') /\ \A q \in Props : value'[q] = IF q = p THEN new ELSE value[q]
  <2>1. Data(value, stored)
    BY CoreParts
  <2> QED BY <1>2, <2>1 DEF Data
<1>4. Queued(queue')
  <2>1. CASE new # value[p]
    BY <1>2, <2>1, ValueFacts, QueueAdd DEF Queued
  <2>2. CASE new = value[p]
    BY <1>2, <2>2, CoreParts
  <2> QED BY <2>1, <2>2
<1> QED BY <1>1, <1>2, <1>3, <1>4

\* The steps a client sends are numbers.
LEMMA StepsAreNumbers ==
    ASSUME Core, goal # NoGoal,
           NEW d \in StepsToSend(body.props[goal.p].avail, view[goal.p], goal.t)
    PROVE  d % (2 * StepHalf) \in Int /\ goal.p \in Props
<1>1. goal.p \in Props
  BY DEF Core, GoalInv
<1>2. PICK s \in Seq(Values) : s = body.props[goal.p].avail
  BY <1>1 DEF Core, BodyInv, IsDesc
<1>3. PICK t : t = goal.t /\ \E i \in DOMAIN s : s[i] = t
  BY <1>2 DEF Core, GoalInv
<1>4. PICK cur : cur = view[goal.p]
  OBVIOUS
<1>5. StepHalf \in Nat /\ StepHalf >= 1 /\ Len(s) \in Nat
  BY BoundsAssumption
<1>6. d \in StepsToSend(s, cur, t)
  BY <1>2, <1>3, <1>4
<1>7. d \in Int
  <2>1. CASE \E i \in DOMAIN s : s[i] = cur
    <3>1. Index(s, t) \in 1 .. Len(s) /\ Index(s, cur) \in 1 .. Len(s)
      BY <1>3, <2>1, IndexFirst
    <3>2. PICK x \in Int : x = Index(s, t) - Index(s, cur)
      BY <1>5, <3>1
    <3>3. Clamp(x, -StepHalf, StepHalf - 1) \in Int
      BY <1>5, ClampNearest
    <3> QED BY <1>6, <2>1, <3>2, <3>3 DEF StepsToSend
  <2>2. CASE ~\E i \in DOMAIN s : s[i] = cur
    BY <1>6, <2>2 DEF StepsToSend
  <2> QED BY <2>1, <2>2
<1>8. PICK m \in Nat : m = 2 * StepHalf /\ m > 0
  BY <1>5
<1>9. d % m \in Int
  BY <1>7, <1>8
<1> QED BY <1>1, <1>8, <1>9

\* A step control: sent blindly, or by the stepping loop.
LEMMA SonyStepCore ==
    ASSUME Core, (\E p \in Props, step \in 0 .. 2 * StepHalf - 1 : Dial(p, step)) \/ StepOn
    PROVE  Core'
<1>1. CASE \E p \in Props, step \in 0 .. 2 * StepHalf - 1 : Dial(p, step)
  <2>1. PICK p \in Props, step \in 0 .. 2 * StepHalf - 1 : Dial(p, step)
    BY <1>1
  <2>2. /\ Len(queue) < MaxQueue /\ writes < MaxWrites /\ writes' = writes + 1
        /\ sony_controldevice_data(p, step) /\ UNCHANGED <<view, goal>>
    BY <2>1 DEF Dial, Write
  <2>3. step \in Int
    BY BoundsAssumption
  <2>4. /\ Data(value', stored') /\ Queued(queue')
        /\ UNCHANGED <<body, first_events, capture_destination, calls_to_liveview,
                       liveview_status, waiting>>
    BY <2>2, <2>3, ControlData
  <2>5. ControlInv'
    <3>1. MaxWrites \in Nat
      BY CoreParts
    <3> QED BY <2>2, <2>4, <3>1 DEF Core, ControlInv
  <2>6. Seen(view')
    BY <2>2, CoreParts
  <2> QED BY <2>2, <2>4, <2>5, <2>6, CoreFrom
<1>2. CASE StepOn
  <2>1. PICK d \in StepsToSend(body.props[goal.p].avail, view[goal.p], goal.t) :
          sony_controldevice_data(goal.p, d % (2 * StepHalf))
    BY <1>2 DEF StepOn
  <2>2. /\ goal # NoGoal /\ Len(queue) < MaxQueue /\ UNCHANGED <<goal, writes>>
        /\ view' = [view EXCEPT ![goal.p] = Unknown]
    BY <1>2 DEF StepOn
  <2>3. d % (2 * StepHalf) \in Int /\ goal.p \in Props
    BY <2>1, <2>2, StepsAreNumbers
  <2>4. /\ Data(value', stored') /\ Queued(queue')
        /\ UNCHANGED <<body, first_events, capture_destination, calls_to_liveview,
                       liveview_status, waiting>>
    BY <2>1, <2>2, <2>3, ControlData
  <2>5. ControlInv'
    BY <2>2, <2>4 DEF Core, ControlInv
  <2>6. Seen(view')
    BY <2>2, SeenExcept
  <2> QED BY <2>2, <2>4, <2>5, <2>6, CoreFrom
<1> QED BY <1>1, <1>2

\* A Sony client reads the properties.
LEMMA SonyViewCore ==
    ASSUME Core, sony_getalldevicepropinfo_op \/ SonyEvent
    PROVE  Core'
<1>1. /\ UNCHANGED <<body, value, stored, first_events, capture_destination,
                     calls_to_liveview, liveview_status, waiting, goal, writes>>
      /\ view' = value
  BY DEF sony_getalldevicepropinfo_op, SonyEvent, canon, client
<1>2. Queued(queue')
  <2>1. CASE queue' = queue
    BY <2>1, CoreParts
  <2>2. CASE queue # <<>> /\ queue' = Tail(queue)
    <3>1. queue \in Seq(Note) /\ Len(queue) \in Nat /\ Len(queue) <= MaxQueue + Cardinality(Props)
          /\ MaxQueue + Cardinality(Props) \in Nat
      BY CoreParts DEF Queued
    <3>2. queue' \in Seq(Note) /\ Len(queue') = Len(queue) - 1
      BY <2>2, <3>1
    <3> QED BY <3>1, <3>2 DEF Queued
  <2> QED BY <2>1, <2>2 DEF sony_getalldevicepropinfo_op, SonyEvent
<1>3. Seen(view')
  BY <1>1, CoreParts
<1> QED BY <1>1, <1>2, <1>3, ViewCore

\* A stepping loop begins and ends; a client wants a frame, or another comes.
LEMMA ClientCore ==
    ASSUME Core,
           \/ \E p \in Enumerated : \E i \in DOMAIN body.props[p].avail :
                 StartStepping(p, body.props[p].avail[i])
           \/ StopStepping \/ WantFrame \/ Reconnect
    PROVE  Core'
<1>1. /\ UNCHANGED <<body, value, stored, queue, first_events, capture_destination,
                     calls_to_liveview, liveview_status>>
      /\ waiting' = waiting \/ waiting' = TRUE \/ waiting' = FALSE
      /\ writes' = writes \/ (writes < MaxWrites /\ writes' = writes + 1)
  BY DEF StartStepping, StopStepping, WantFrame, Reconnect, state, canon
<1>2. waiting' \in BOOLEAN
  <2>1. waiting \in BOOLEAN
    BY DEF Core, ControlInv
  <2> QED BY <1>1, <2>1, Zenon
<1>3. ControlInv'
  <2>1. MaxWrites \in Nat
    BY CoreParts
  <2> QED BY <1>1, <1>2, <2>1 DEF Core, ControlInv
<1>4. Data(value', stored') /\ Queued(queue')
  BY <1>1, CoreParts
<1>5. CASE StopStepping \/ WantFrame \/ Reconnect
  <2>1. /\ view' = view \/ view' = [p \in Props |-> Unknown]
        /\ goal' = goal \/ goal' = NoGoal
    BY <1>5 DEF StopStepping, WantFrame, Reconnect, state
  <2>2. Seen(view')
    BY <2>1, CoreParts
  <2> QED BY <1>1, <1>3, <1>4, <2>1, <2>2, CoreFrom
<1>6. CASE \E p \in Enumerated : \E i \in DOMAIN body.props[p].avail :
              StartStepping(p, body.props[p].avail[i])
  <2>1. PICK p, t :
          /\ p \in Props
          /\ \E i \in DOMAIN body.props[p].avail : body.props[p].avail[i] = t
          /\ goal' = [p |-> p, t |-> t] /\ view' = [view EXCEPT ![p] = Unknown]
    BY <1>6 DEF StartStepping, Enumerated
  <2>2. BodyInv' /\ Props' = Props /\ Note' = Note
    BY <1>1, BodyKeeps DEF Core
  <2>3. GoalInv'
    BY <1>1, <2>1, <2>2 DEF GoalInv
  <2>4. Seen(view')
    BY <2>1, SeenExcept
  <2>5. DataInv'
    BY <1>1, <1>4, <2>2, <2>4 DEF DataInv, Data, Queued, Seen
  <2> QED BY <1>3, <2>2, <2>3, <2>5 DEF Core
<1> QED BY <1>5, <1>6

\* A row of a table is registered as a description of the same kind.
LEMMA RowRegistered ==
    ASSUME NEW row, IsRow(row)
    PROVE  /\ IsDesc(add_prop(row)) /\ add_prop(row).width = row.width
           /\ add_prop(row).value \in Values /\ add_prop(row).rw = row.rw
           /\ add_prop(row).value = write_typed(row.value)
<1>1. \A x \in Int : write_typed(x) \in Values
  BY ValueFacts DEF write_typed
<1>2. PICK s \in Seq(Int) : s = row.avail
  BY DEF IsRow
<1>3. add_form(s) \in Seq(Values)
  <2>1. PICK n \in Nat : n = Len(s)
    OBVIOUS
  <2>2. DOMAIN s = 1 .. n /\ \A i \in 1 .. n : s[i] \in Int
    BY <2>1
  <2>3. \A i \in 1 .. n : write_typed(s[i]) \in Values
    BY <1>1, <2>2
  <2>4. add_form(s) = [i \in 1 .. n |-> write_typed(s[i])]
    BY <2>2 DEF add_form
  <2> QED BY <2>3, <2>4
<1>4. /\ write_typed(row.min) \in Values /\ write_typed(row.max) \in Values
      /\ write_typed(row.value) \in Values
  BY <1>1 DEF IsRow
<1>5. /\ add_prop(row).width = row.width /\ add_prop(row).form = row.form
      /\ add_prop(row).step = row.step /\ add_prop(row).min = write_typed(row.min)
      /\ add_prop(row).max = write_typed(row.max) /\ add_prop(row).avail = add_form(row.avail)
      /\ add_prop(row).value = write_typed(row.value)
  BY DEF add_prop
<1>6. add_prop(row).rw = row.rw
  BY Zenon DEF add_prop
<1>7. IsDesc(add_prop(row))
  BY <1>2, <1>3, <1>4, <1>5 DEF IsDesc, IsRow
<1> QED BY <1>4, <1>5, <1>6, <1>7

\* The registered body: the rows of its table, and on an EOS body the
\* destination, whether the table has it or not.
LEMMA Registered ==
    ASSUME NEW b \in Bodies, body = register_model(b)
    PROVE  /\ body.vendor = b.vendor
           /\ \A p \in DOMAIN b.props : p \in Props /\ body.props[p] = add_prop(b.props[p])
           /\ \A p \in Props \ DOMAIN b.props :
                 /\ b.vendor = "canon" /\ p = "CaptureDestination"
                 /\ IsDesc(body.props[p]) /\ body.props[p].width = 4
                 /\ body.props[p].value = Card /\ body.props[p].form = "none"
           /\ b.vendor = "canon" => "CaptureDestination" \in Props
           /\ IsFiniteSet(Props)
<1> DEFINE rows == [p \in DOMAIN b.props |-> add_prop(b.props[p])]
           extra == [width |-> 4, rw |-> TRUE, form |-> "none", avail |-> <<>>,
                     min |-> 0, max |-> 0, step |-> 1, value |-> Card]
<1>1. body.vendor = b.vendor
  BY DEF register_model
<1>2. body.props = IF b.vendor = "canon" THEN canon_ensure_capture_props(rows) ELSE rows
  BY DEF register_model
<1>3. IsFiniteSet(DOMAIN b.props)
  BY BodiesAssumption
<1>4. CASE b.vendor # "canon" \/ "CaptureDestination" \in DOMAIN b.props
  <2>1. body.props = rows
    BY <1>2, <1>4 DEF canon_ensure_capture_props
  <2>2. Props = DOMAIN b.props /\ \A p \in DOMAIN b.props : body.props[p] = add_prop(b.props[p])
    BY <2>1 DEF Props
  <2> QED BY <1>1, <1>3, <1>4, <2>2
<1>5. CASE b.vendor = "canon" /\ "CaptureDestination" \notin DOMAIN b.props
  <2>1. extra.width = 4 /\ extra.form = "none" /\ extra.value = Card /\ IsDesc(extra)
    <3>1. 0 \in Values /\ <<>> \in Seq(Values)
      BY ValueFacts
    <3> QED BY <3>1 DEF IsDesc
  <2> HIDE DEF extra
  <2>2. body.props = [q \in DOMAIN b.props \cup {"CaptureDestination"} |->
                        IF q = "CaptureDestination" THEN extra ELSE rows[q]]
    BY <1>2, <1>5 DEF canon_ensure_capture_props, vcam_register_prop, extra
  <2>3. Props = DOMAIN b.props \cup {"CaptureDestination"}
    BY <2>2 DEF Props
  <2>4. IsFiniteSet(Props)
    BY <1>3, <2>3, FS_AddElement
  <2>5. \A p \in DOMAIN b.props : body.props[p] = add_prop(b.props[p])
    BY <1>5, <2>2
  <2>6. body.props["CaptureDestination"] = extra
    BY <2>2
  <2> QED BY <1>1, <1>5, <2>1, <2>3, <2>4, <2>5, <2>6
<1> QED BY <1>4, <1>5

\* A camera that was just started.
LEMMA InitCore ==
    ASSUME Init
    PROVE  Core
<1>1. PICK b \in Bodies : body = register_model(b)
  BY DEF Init
<1>2. /\ b.vendor \in {"canon", "nikon", "sony"}
      /\ \A p \in DOMAIN b.props : IsRow(b.props[p])
      /\ b.vendor = "nikon" =>
            /\ LiveView \in DOMAIN b.props
            /\ b.props[LiveView].width = 1 /\ ~b.props[LiveView].rw
  BY BodiesAssumption
<1>3. /\ body.vendor = b.vendor
      /\ \A p \in DOMAIN b.props : p \in Props /\ body.props[p] = add_prop(b.props[p])
      /\ \A p \in Props \ DOMAIN b.props :
            IsDesc(body.props[p]) /\ body.props[p].value = Card
      /\ b.vendor = "canon" => "CaptureDestination" \in Props
      /\ IsFiniteSet(Props)
  BY <1>1, Registered
<1>4. \A p \in Props : IsDesc(body.props[p]) /\ body.props[p].value \in Values
  BY <1>2, <1>3, RowRegistered, ValueFacts
<1>5. Vendor("nikon") =>
        /\ LiveView \in Props /\ body.props[LiveView].width = 1
        /\ ~body.props[LiveView].rw
  <2> SUFFICES ASSUME b.vendor = "nikon"
               PROVE  /\ LiveView \in Props /\ body.props[LiveView].width = 1
                      /\ ~body.props[LiveView].rw
    BY <1>3 DEF Vendor
  <2>1. LiveView \in DOMAIN b.props /\ b.props[LiveView].width = 1 /\ ~b.props[LiveView].rw
        /\ IsRow(b.props[LiveView])
    BY <1>2
  <2>2. LiveView \in Props /\ body.props[LiveView] = add_prop(b.props[LiveView])
    BY <1>3, <2>1
  <2>3. body.props[LiveView].width = b.props[LiveView].width
    BY <2>1, <2>2, RowRegistered
  <2>4. body.props[LiveView].rw = b.props[LiveView].rw
    BY <2>1, <2>2, RowRegistered, Zenon
  <2>5. ~body.props[LiveView].rw
    BY <2>1, <2>4, Zenon
  <2> QED BY <2>1, <2>2, <2>3, <2>5
<1>6. BodyInv
  BY <1>2, <1>3, <1>4, <1>5 DEF BodyInv, Vendor
<1>7. DataInv
  <2>1. value \in [Props -> Values]
    BY <1>4 DEF Init
  <2>2. \A p \in Props : body.props[p].width \in 1 .. 4
    BY <1>4 DEF IsDesc
  <2>3. stored \in [Props -> 1 .. 4] /\ \A p \in Props : stored[p] >= body.props[p].width
    BY <2>2 DEF Init
  <2>4. queue \in Seq(Note) /\ Len(queue) = 0
    BY DEF Init
  <2>5. MaxQueue \in Nat /\ Cardinality(Props) \in Nat
    BY <1>3, BoundsAssumption, FS_CardinalityType
  <2>6. view \in [Props -> Values \cup {Unknown}]
    BY DEF Init
  <2> QED BY <2>1, <2>3, <2>4, <2>5, <2>6 DEF DataInv
<1>8. ControlInv
  <2>1. FirstFrame \in Nat /\ MaxWrites \in Nat /\ Card \in Values
    BY BoundsAssumption, ValueFacts
  <2>2. first_events \in BOOLEAN /\ waiting \in BOOLEAN
    BY Zenon DEF Init
  <2> QED BY <2>1, <2>2 DEF Init, ControlInv
<1>9. GoalInv
  BY DEF Init, GoalInv
<1> QED BY <1>6, <1>7, <1>8, <1>9 DEF Core

\* Every step keeps the types, the widths and the goal of a stepping client.
LEMMA CoreNext ==
    ASSUME Core, [Next]_vars
    PROVE  Core'
<1>1. CASE CanonNext
  BY <1>1, EosSetCore, EosTriggerCore, EosEventsCore, EosModesCore DEF CanonNext
<1>2. CASE NikonNext
  BY <1>2, NikonSetCore, NikonLiveCore, NikonViewCore DEF NikonNext
<1>3. CASE SonyNext
  BY <1>3, SonySetCore, SonyStepCore, SonyViewCore, ClientCore DEF SonyNext
<1>4. CASE WantFrame \/ Reconnect
  BY <1>4, ClientCore
<1>5. CASE UNCHANGED vars
  <2>1. UNCHANGED <<body, value, stored, queue, view, first_events, capture_destination,
                    calls_to_liveview, liveview_status, waiting, goal, writes>>
    BY <1>5 DEF vars, state, canon, client
  <2>2. ControlInv'
    BY <2>1 DEF Core, ControlInv
  <2> QED BY <2>1, <2>2, CoreParts, CoreFrom
<1> QED BY <1>1, <1>2, <1>3, <1>4, <1>5 DEF Next

-----------------------------------------------------------------------------
(* The camera acts on what its properties say *)

\* A body starts with captures going to the card: its table gives the
\* destination no other value.  canon_init does not read the property back.
CardFirst ==
    \A b \in Bodies : b.vendor = "canon" =>
        \/ "CaptureDestination" \notin DOMAIN b.props
        \/ write_typed(b.props["CaptureDestination"].value) # Sdram

\* A camera that was just started.
LEMMA InitFlag ==
    ASSUME Init, CardFirst
    PROVE  FlagInv
<1>1. PICK b \in Bodies : body = register_model(b)
  BY DEF Init
<1>2. /\ body.vendor = b.vendor
      /\ \A p \in DOMAIN b.props : p \in Props /\ body.props[p] = add_prop(b.props[p])
      /\ \A p \in Props \ DOMAIN b.props : body.props[p].value = Card
      /\ b.vendor = "canon" => "CaptureDestination" \in Props
  BY <1>1, Registered
<1>3. \A p \in DOMAIN b.props :
         p \in Props /\ body.props[p].value = write_typed(b.props[p].value)
  BY <1>2, RowRegistered, BodiesAssumption
<1>4. \A p \in Props : value[p] = body.props[p].value
  BY DEF Init
<1>5. Vendor("nikon") => liveview_status = value[LiveView]
  <2> SUFFICES ASSUME b.vendor = "nikon" PROVE liveview_status = value[LiveView]
    BY <1>2 DEF Vendor
  <2>1. LiveView \in DOMAIN b.props /\ b.props[LiveView].value = 0
    BY BodiesAssumption
  <2>2. value[LiveView] = 0 % Modulus
    BY <1>3, <1>4, <2>1 DEF write_typed
  <2>3. 0 % Modulus = 0
    BY ValueFacts, Remainders
  <2> QED BY <2>2, <2>3 DEF Init
<1>6. Vendor("canon") => capture_destination # Sdram /\ value["CaptureDestination"] # Sdram
  <2> SUFFICES ASSUME b.vendor = "canon"
               PROVE  capture_destination # Sdram /\ value["CaptureDestination"] # Sdram
    BY <1>2 DEF Vendor
  <2>1. capture_destination = Card /\ Card # Sdram
    BY DEF Init, Card, Sdram
  <2>2. CASE "CaptureDestination" \in DOMAIN b.props
    BY <1>3, <1>4, <2>1, <2>2 DEF CardFirst
  <2>3. CASE "CaptureDestination" \notin DOMAIN b.props
    BY <1>2, <1>4, <2>1, <2>3
  <2> QED BY <2>2, <2>3
<1>7. saved.to = saved.said
  <2>1. saved = [to |-> FALSE, said |-> FALSE]
    BY Zenon DEF Init
  <2> QED BY <2>1, Zenon
<1> QED BY <1>5, <1>6, <1>7 DEF FlagInv

\* Most steps leave alone what the invariant is about.
LEMMA FlagKept ==
    ASSUME FlagInv, UNCHANGED <<body, saved>>,
           \/ UNCHANGED <<value, liveview_status, capture_destination>>
           \/ Vendor("sony")
    PROVE  FlagInv'
<1>1. (saved.to = saved.said)'
  <2>1. saved' = saved /\ saved.to = saved.said
    BY DEF FlagInv
  <2> QED BY <2>1, Zenon
<1>2. (Vendor("nikon") => liveview_status = value[LiveView])'
  BY DEF FlagInv, Vendor
<1>3. (Vendor("canon") =>
          (capture_destination = Sdram <=> value["CaptureDestination"] = Sdram))'
  BY DEF FlagInv, Vendor, Sdram
<1> QED BY <1>1, <1>2, <1>3 DEF FlagInv

\* The steps that do not: the destination is written twice, and captures ask the
\* copy.
LEMMA FlagCanon ==
    ASSUME Core, FlagInv, CanonNext
    PROVE  FlagInv'
<1>1. Vendor("canon") /\ body' = body /\ Vendor("canon")' /\ ~Vendor("nikon")'
  BY DEF CanonNext, ptp_eos_set_property_data, ptp_eos_generic, eos_capture_trigger,
         eos_pack_all_props, vusb_ptp_eos_events, ptp_eos_viewfinder_data, Vendor
<1>2. ASSUME NEW p \in Props \cup {"unregistered"}, NEW v \in WriteValues,
             ptp_eos_set_property_data(p, v)
      PROVE  FlagInv'
  <2>1. /\ capture_destination' = IF p = "CaptureDestination" THEN v ELSE capture_destination
        /\ vcam_set_prop_data(p, v, 4) /\ saved' = saved
    BY <1>2 DEF ptp_eos_set_property_data
  <2>2. v \in Values
    BY ValueFacts
  <2>3. \A q \in Props : value'[q] = IF q = p THEN v ELSE value[q]
    <3>1. p \in Props => 4 >= body.props[p].width
      BY DEF Core, BodyInv, IsDesc
    <3> QED BY <2>1, <2>2, <3>1, DataSet
  <2>4. "CaptureDestination" \in Props
    BY <1>1 DEF Core, BodyInv
  <2>5. (capture_destination = Sdram <=> value["CaptureDestination"] = Sdram)'
    BY <1>1, <2>1, <2>3, <2>4 DEF FlagInv, Sdram
  <2>6. (saved.to = saved.said)'
    <3>1. saved.to = saved.said
      BY DEF FlagInv
    <3> QED BY <2>1, <3>1, Zenon
  <2> QED BY <1>1, <2>5, <2>6 DEF FlagInv
<1>3. ASSUME eos_capture_trigger PROVE FlagInv'
  <2>1. /\ UNCHANGED <<value, capture_destination>>
        /\ capture_destination = Sdram <=> value["CaptureDestination"] = Sdram
    BY <1>1, <1>3 DEF eos_capture_trigger, FlagInv
  <2>2. PICK a \in BOOLEAN, c \in BOOLEAN :
          a = (capture_destination = Sdram) /\ c = (value["CaptureDestination"] = Sdram)
    BY Zenon
  <2>3. a = c
    BY <2>1, <2>2, Zenon
  <2>4. saved' = [to |-> a, said |-> c]
    BY <1>3, <2>2, Zenon DEF eos_capture_trigger
  <2>5. saved'.to = saved'.said
    BY <2>3, <2>4, Zenon
  <2>6. (capture_destination = Sdram <=> value["CaptureDestination"] = Sdram)'
    BY <2>1 DEF Sdram
  <2> QED BY <1>1, <2>5, <2>6 DEF FlagInv
<1>4. ASSUME ptp_eos_generic \/ eos_pack_all_props \/ vusb_ptp_eos_events
             \/ ptp_eos_viewfinder_data
      PROVE  FlagInv'
  <2>1. UNCHANGED <<body, saved, value, liveview_status, capture_destination>>
    BY <1>4 DEF ptp_eos_generic, eos_pack_all_props, vusb_ptp_eos_events,
                ptp_eos_viewfinder_data, state, canon
  <2> QED BY <2>1, FlagKept
<1> QED BY <1>2, <1>3, <1>4 DEF CanonNext

\* A client of a Nikon body cannot write LiveViewStatus, and the two live view
\* operations set the flag and the property.
LEMMA FlagNikon ==
    ASSUME Core, FlagInv, NikonNext
    PROVE  FlagInv'
<1>1. /\ Vendor("nikon") /\ body' = body /\ saved' = saved
      /\ Vendor("nikon")' /\ ~Vendor("canon")'
  BY DEF NikonNext, nikon_setdevicepropvalue_data, nikon_liveview_op,
         nikon_getliveviewimg_op, NikonEvent, ptp_getdevicepropdesc_write, canon, Vendor
<1>2. LiveView \in Props /\ body.props[LiveView].width = 1 /\ ~body.props[LiveView].rw
      /\ liveview_status = value[LiveView]
  BY <1>1 DEF Core, BodyInv, FlagInv
<1>3. (saved.to = saved.said)'
  <2>1. saved.to = saved.said
    BY DEF FlagInv
  <2> QED BY <1>1, <2>1, Zenon
<1>4. ASSUME NEW p \in {q \in Props : body.props[q].rw}, NEW v \in WriteValues,
             NEW len \in {0, 1, 2, 4}, len = 0 \/ len >= body.props[p].width,
             nikon_setdevicepropvalue_data(p, v, len)
      PROVE  FlagInv'
  <2>1. /\ len = 0 => UNCHANGED <<value, stored>>
        /\ len # 0 => vcam_set_prop_data(p, v, len)
        /\ liveview_status' = liveview_status
    BY <1>4 DEF nikon_setdevicepropvalue_data
  <2>2. p # LiveView
    BY <1>2, Zenon
  <2>3. value'[LiveView] = value[LiveView]
    <3>1. CASE len = 0
      BY <2>1, <3>1
    <3>2. CASE len # 0
      <4>1. v \in Values /\ len \in 1 .. 4 /\ len >= body.props[p].width
        BY <1>4, <3>2, ValueFacts
      <4> QED BY <1>2, <2>1, <2>2, <3>2, <4>1, DataSet
    <3> QED BY <3>1, <3>2
  <2> QED BY <1>1, <1>2, <1>3, <2>1, <2>3 DEF FlagInv
<1>5. ASSUME NEW on \in {0, 1}, nikon_liveview_op(on) PROVE FlagInv'
  <2>1. liveview_status' = on /\ vcam_set_prop_data(LiveView, on, 1)
    BY <1>5 DEF nikon_liveview_op
  <2>2. on \in Values /\ 1 >= body.props[LiveView].width
    BY <1>2, ValueFacts
  <2>3. value'[LiveView] = on
    BY <1>2, <2>1, <2>2, DataSet
  <2> QED BY <1>1, <1>3, <2>1, <2>3 DEF FlagInv
<1>6. ASSUME nikon_getliveviewimg_op \/ NikonEvent
             \/ (\E p \in Props : ptp_getdevicepropdesc_write(p))
      PROVE  FlagInv'
  <2>1. UNCHANGED <<value, liveview_status, capture_destination>>
    BY <1>6 DEF nikon_getliveviewimg_op, NikonEvent, ptp_getdevicepropdesc_write, state, canon
  <2> QED BY <1>1, <2>1, FlagKept
<1> QED BY <1>4, <1>5, <1>6 DEF NikonNext

\* Every step keeps the flags.
LEMMA FlagNext ==
    ASSUME Core, FlagInv, [Next]_vars
    PROVE  FlagInv'
<1>1. CASE CanonNext
  BY <1>1, FlagCanon
<1>2. CASE NikonNext
  BY <1>2, FlagNikon
<1>3. CASE SonyNext
  <2>1. UNCHANGED <<body, saved>> /\ (Vendor("sony") \/ UNCHANGED <<value, liveview_status,
                                                                    capture_destination>>)
    BY <1>3 DEF SonyNext, sony_setdevicepropvalue_data, Dial, sony_controldevice_data,
         sony_getalldevicepropinfo_op, SonyEvent, StartStepping, StepOn, StopStepping,
         canon, state
  <2> QED BY <2>1, FlagKept
<1>4. CASE WantFrame \/ Reconnect \/ UNCHANGED vars
  <2>1. UNCHANGED <<body, saved, value, liveview_status, capture_destination>>
    BY <1>4 DEF WantFrame, Reconnect, vars, canon, state
  <2> QED BY <2>1, FlagKept
<1> QED BY <1>1, <1>2, <1>3, <1>4 DEF Next

\* The values of the properties, what is allocated for them and the counters
\* keep their types.
LEMMA CoreTypes ==
    ASSUME Core
    PROVE  TypeOK
BY DEF Core, DataInv, ControlInv, TypeOK

\* Property storage is sound on every body whose captures start on the card: no
\* value is shorter than its readers copy (vcam_get_prop_data), Nikon live view
\* is served exactly while LiveViewStatus is 1 and EOS captures go where
\* CaptureDestination says.
THEOREM PropsStaySound ==
    ASSUME CardFirst
    PROVE  Spec => []PropsSound
<1>1. Init => Core /\ FlagInv
  BY InitCore, InitFlag
<1>2. Core /\ FlagInv /\ [Next]_vars => (Core /\ FlagInv)'
  BY CoreNext, FlagNext
<1>3. Core /\ FlagInv => PropsSound
  BY CoreTypes DEF FlagInv, FlagsTold, PropsSound
<1> QED BY <1>1, <1>2, <1>3, PTL DEF Spec

-----------------------------------------------------------------------------
(* What the client believes *)

\* The tables of EOS bodies have four-byte properties only, the one width that
\* eos_notify_prop_changed carries.
FullWidth ==
    \A b \in Bodies : b.vendor = "canon" => \A p \in DOMAIN b.props : b.props[p].width = 4

\* An announcement of the property waits.
Waits(p, q) == \E i \in 1 .. Len(q) : q[i].p = p

\* The view is true after a step, property by property.
LEMMA ViewFrom ==
    ASSUME Core, ViewTrue, body' = body, queue' \in Seq(Note),
           \A p \in Props :
              \/ view'[p] \in {Unknown, value'[p]}
              \/ ~body.props[p].rw
              \/ Waits(p, queue')
              \/ /\ value'[p] = value[p] /\ view'[p] = view[p]
                 /\ Waits(p, queue) => Waits(p, queue')
    PROVE  ViewTrue'
<1>1. Props' = Props /\ queue \in Seq(Note)
  BY DEF Props, Core, DataInv
<1>2. DOMAIN queue = 1 .. Len(queue) /\ DOMAIN queue' = 1 .. Len(queue')
  BY <1>1
<1>3. \A p \in Props : \/ view[p] \in {Unknown, value[p]} \/ ~body.props[p].rw
                       \/ Waits(p, queue)
  BY <1>2 DEF ViewTrue, Waits
<1>4. \A p \in Props : \/ view'[p] \in {Unknown, value'[p]} \/ ~body'.props[p].rw
                       \/ Waits(p, queue')
  BY <1>3, Zenon
<1> QED BY <1>1, <1>2, <1>4 DEF ViewTrue, Waits, Unknown

\* An announcement that joins the queue leaves the others in it.
LEMMA WaitsOn ==
    ASSUME Core, NEW p \in Props \cup {"unregistered"}, NEW v \in Values,
           Announce(p, v), Len(queue) < MaxQueue
    PROVE  /\ queue' \in Seq(Note) /\ Waits(p, queue')
           /\ \A q : Waits(q, queue) => Waits(q, queue')
<1>1. /\ queue' \in Seq(Note) /\ Len(queue) \in Nat /\ Len(queue') = Len(queue) + 1
      /\ \A i \in 1 .. Len(queue) : queue'[i] = queue[i]
      /\ queue'[Len(queue) + 1].p = p
  BY QueueAdd
<1>2. Len(queue) + 1 \in 1 .. Len(queue') /\ 1 .. Len(queue) \subseteq 1 .. Len(queue')
  BY <1>1
<1> QED BY <1>1, <1>2 DEF Waits

\* Nothing waits, or what waits stays.
LEMMA QueueStays ==
    ASSUME Core, queue' = queue
    PROVE  queue' \in Seq(Note) /\ \A q : Waits(q, queue) => Waits(q, queue')
BY DEF Core, DataInv, Waits

\* SetDevicePropValueEx: the last announcement is that of the new value.
LEMMA EosSetView ==
    ASSUME Core, ViewInv, NEW p \in Props \cup {"unregistered"}, NEW v \in WriteValues,
           ptp_eos_set_property_data(p, v)
    PROVE  ViewInv'
<1>1. /\ Vendor("canon") /\ Len(queue) < MaxQueue /\ body' = body /\ view' = view
      /\ vcam_set_prop_data(p, v, 4) /\ Announce(p, EntryValue(p, v))
  BY DEF ptp_eos_set_property_data, Write
<1>2. v \in Values /\ EntryValue(p, v) \in Values
  BY ValueFacts DEF EntryValue
<1>3. \A q \in Props : value'[q] = IF q = p THEN v ELSE value[q]
  <2>1. p \in Props => 4 >= body.props[p].width
    BY DEF Core, BodyInv, IsDesc
  <2> QED BY <1>1, <1>2, <2>1, DataSet
<1>4. /\ queue' \in Seq(Note) /\ Waits(p, queue')
      /\ \A q : Waits(q, queue) => Waits(q, queue')
  BY <1>1, <1>2, WaitsOn
<1>5. ViewTrue'
  <2>1. \A q \in Props : q = p \/ (value'[q] = value[q] /\ view'[q] = view[q])
    BY <1>1, <1>3
  <2> QED BY <1>1, <1>4, <2>1, ViewFrom DEF ViewInv
<1>6. \A q \in Props : body.props[q].width = 4 /\ Told(q)
  BY <1>1 DEF ViewInv
<1>7. ASSUME NEW q \in Props PROVE Told(q)'
  <2>1. /\ Len(queue) \in Nat /\ Len(queue') = Len(queue) + 1
        /\ \A i \in 1 .. Len(queue) : queue'[i] = queue[i]
        /\ queue'[Len(queue) + 1].p = p /\ queue'[Len(queue) + 1].v = EntryValue(p, v)
    BY <1>1, <1>2, QueueAdd
  <2> SUFFICES ASSUME NEW i \in 1 .. Len(queue'), queue'[i].p = q,
                      \A j \in i + 1 .. Len(queue') : queue'[j].p # q
               PROVE  queue'[i].v = value'[q]
    BY DEF Told
  <2>2. CASE i = Len(queue) + 1
    <3>1. q = p /\ EntryValue(p, v) = v
      BY <1>6, <2>1, <2>2 DEF EntryValue
    <3> QED BY <1>3, <2>1, <2>2, <3>1
  <2>3. CASE i # Len(queue) + 1
    <3>1. i \in 1 .. Len(queue) /\ Len(queue) + 1 \in i + 1 .. Len(queue')
      BY <2>1, <2>3
    <3>2. q # p
      BY <2>1, <3>1
    <3>3. \A j \in i + 1 .. Len(queue) : queue[j].p # q
      <4>1. \A j \in i + 1 .. Len(queue) : j \in 1 .. Len(queue) /\ j \in i + 1 .. Len(queue')
        BY <2>1, <3>1
      <4> QED BY <2>1, <4>1
    <3>4. queue[i].v = value[q]
      BY <1>6, <2>1, <3>1, <3>3 DEF Told
    <3> QED BY <1>3, <2>1, <3>1, <3>2, <3>4
  <2> QED BY <2>2, <2>3
<1>8. Props' = Props
  BY <1>1 DEF Props
<1> QED BY <1>1, <1>5, <1>6, <1>7, <1>8 DEF ViewInv

\* A capture announces values that the properties have.
LEMMA EosTriggerView ==
    ASSUME Core, ViewInv, eos_capture_trigger
    PROVE  ViewInv'
<1>1. /\ Vendor("canon") /\ UNCHANGED <<body, value, view>>
      /\ queue' = queue \o ExposureNotes
  BY DEF eos_capture_trigger, ExposureNotes
<1>2. /\ ExposureNotes \in Seq(Note) /\ Len(ExposureNotes) \in Nat
      /\ \A i \in 1 .. Len(ExposureNotes) :
            /\ ExposureNotes[i].p \in Props
            /\ ExposureNotes[i].v = EntryValue(ExposureNotes[i].p, value[ExposureNotes[i].p])
  BY ExposureTyped
<1>3. queue \in Seq(Note) /\ Len(queue) \in Nat
  BY CoreParts DEF Queued
<1>4. PICK N \in Seq(Note) : N = ExposureNotes
  BY <1>2
<1>5. \A q \in Props : body.props[q].width = 4 /\ Told(q)
  BY <1>1 DEF ViewInv
<1>6. Len(N) \in Nat /\ \A i \in 1 .. Len(N) : N[i].v = value[N[i].p]
  BY <1>2, <1>4, <1>5 DEF EntryValue
<1>7. /\ queue' \in Seq(Note) /\ Len(queue') = Len(queue) + Len(N)
      /\ \A i \in 1 .. Len(queue) : queue'[i] = queue[i]
      /\ \A i \in Len(queue) + 1 .. Len(queue') : queue'[i] = N[i - Len(queue)]
  <2>1. queue' = queue \o N
    BY <1>1, <1>4
  <2> QED BY <1>3, <1>6, <2>1
<1>8. ViewTrue'
  <2>1. \A q : Waits(q, queue) => Waits(q, queue')
    <3>1. 1 .. Len(queue) \subseteq 1 .. Len(queue')
      BY <1>3, <1>6, <1>7
    <3> QED BY <1>7, <3>1 DEF Waits
  <2> QED BY <1>1, <1>7, <2>1, ViewFrom DEF ViewInv
<1>9. ASSUME NEW q \in Props PROVE Told(q)'
  <2> SUFFICES ASSUME NEW i \in 1 .. Len(queue'), queue'[i].p = q,
                      \A j \in i + 1 .. Len(queue') : queue'[j].p # q
               PROVE  queue'[i].v = value'[q]
    BY DEF Told
  <2>1. CASE i > Len(queue)
    <3>1. i \in Len(queue) + 1 .. Len(queue') /\ i - Len(queue) \in 1 .. Len(N)
      BY <1>3, <1>6, <1>7, <2>1
    <3> QED BY <1>1, <1>6, <1>7, <3>1
  <2>2. CASE i <= Len(queue)
    <3>1. i \in 1 .. Len(queue)
      BY <1>3, <1>6, <1>7, <2>2
    <3>2. \A j \in i + 1 .. Len(queue) : j \in 1 .. Len(queue) /\ j \in i + 1 .. Len(queue')
      BY <1>3, <1>6, <1>7, <3>1
    <3>3. queue[i].p = q /\ \A j \in i + 1 .. Len(queue) : queue[j].p # q
      BY <1>7, <3>1, <3>2
    <3>4. queue[i].v = value[q]
      BY <1>5, <3>1, <3>3 DEF Told
    <3> QED BY <1>1, <1>7, <3>1, <3>4
  <2> QED BY <1>3, <1>7, <2>1, <2>2
<1>10. Props' = Props
  BY <1>1 DEF Props
<1> QED BY <1>1, <1>5, <1>8, <1>9, <1>10 DEF ViewInv

\* GetEvent: the client takes over all values, or the last one announced of each
\* property.
LEMMA EosEventsView ==
    ASSUME Core, ViewInv, eos_pack_all_props \/ vusb_ptp_eos_events
    PROVE  ViewInv'
<1>1. /\ Vendor("canon") /\ UNCHANGED <<body, value>>
      /\ queue' = queue \/ queue' = <<>>
  BY DEF eos_pack_all_props, vusb_ptp_eos_events
<1>2. queue \in Seq(Note) /\ Props' = Props /\ DOMAIN queue = 1 .. Len(queue)
  BY <1>1 DEF Core, DataInv, Props
<1>3. \A q \in Props : body.props[q].width = 4 /\ Told(q)
  BY <1>1 DEF ViewInv
<1>4. \A q \in Props : Told(q)'
  <2>1. CASE queue' = queue
    BY <1>1, <1>3, <2>1 DEF Told
  <2>2. CASE queue' = <<>>
    <3>1. Len(queue') = 0
      BY <2>2
    <3> QED BY <3>1 DEF Told
  <2> QED BY <1>1, <2>1, <2>2
<1>5. queue' \in Seq(Note)
  <2>1. <<>> \in Seq(Note)
    OBVIOUS
  <2> QED BY <1>1, <1>2, <2>1, Zenon
<1>6. ViewTrue'
  <2>1. CASE eos_pack_all_props
    <3>1. view' = value
      BY <2>1 DEF eos_pack_all_props
    <3>2. \A p \in Props : view'[p] \in {Unknown, value'[p]}
      BY <1>1, <3>1
    <3> QED BY <1>1, <1>5, <3>2, ViewFrom DEF ViewInv
  <2>2. CASE vusb_ptp_eos_events
    <3>1. \A p \in Props : view'[p] = IF Waits(p, queue) THEN queue[LastOf(p, queue)].v
                                      ELSE view[p]
      BY <1>2, <2>2 DEF vusb_ptp_eos_events, Waits
    <3>2. ASSUME NEW p \in Props, Waits(p, queue) PROVE view'[p] = value'[p]
      <4>1. /\ LastOf(p, queue) \in 1 .. Len(queue) /\ queue[LastOf(p, queue)].p = p
            /\ \A j \in LastOf(p, queue) + 1 .. Len(queue) : queue[j].p # p
        BY <1>2, <3>2, LastOfIs DEF Waits
      <4>2. queue[LastOf(p, queue)].v = value[p]
        BY <1>3, <4>1 DEF Told
      <4> QED BY <1>1, <3>1, <3>2, <4>2
    <3>3. \A p \in Props : \/ view'[p] \in {Unknown, value'[p]}
                           \/ /\ value'[p] = value[p] /\ view'[p] = view[p]
                              /\ Waits(p, queue) => Waits(p, queue')
      BY <1>1, <3>1, <3>2
    <3> QED BY <1>1, <1>5, <3>3, ViewFrom DEF ViewInv
  <2> QED BY <2>1, <2>2
<1> QED BY <1>1, <1>2, <1>3, <1>4, <1>6 DEF ViewInv

\* Steps that leave the values, the view and the queue alone.
LEMMA ViewStays ==
    ASSUME Core, ViewInv, UNCHANGED <<body, value, queue, view>>
    PROVE  ViewInv'
<1>1. Props' = Props /\ (Vendor("canon")' => Vendor("canon"))
  BY DEF Props, Vendor
<1>2. ViewTrue'
  BY QueueStays, ViewFrom DEF ViewInv
<1>3. \A p \in Props : Told(p) => Told(p)'
  BY DEF Told
<1> QED BY <1>1, <1>2, <1>3 DEF ViewInv

\* Steps of a Nikon body: writes announce, the two live view operations change
\* a property that no client sets, and an event is about one property only.
LEMMA NikonView ==
    ASSUME Core, ViewTrue, NikonNext
    PROVE  ViewTrue'
<1>1. Vendor("nikon") /\ body' = body
  BY DEF NikonNext, nikon_setdevicepropvalue_data, nikon_liveview_op,
         nikon_getliveviewimg_op, NikonEvent, ptp_getdevicepropdesc_write
<1>2. ASSUME NEW p \in {q \in Props : body.props[q].rw}, NEW v \in WriteValues,
             NEW len \in {0, 1, 2, 4}, len = 0 \/ len >= body.props[p].width,
             nikon_setdevicepropvalue_data(p, v, len)
      PROVE  ViewTrue'
  <2>1. view' = view /\ Len(queue) < MaxQueue
    BY <1>2 DEF nikon_setdevicepropvalue_data, Write
  <2>2. CASE len = 0
    <3>1. value' = value /\ queue' = queue
      BY <1>2, <2>2 DEF nikon_setdevicepropvalue_data
    <3> QED BY <1>1, <2>1, <3>1, QueueStays, ViewFrom
  <2>3. CASE len # 0
    <3>1. v \in Values /\ 0 \in Values /\ len \in 1 .. 4 /\ len >= body.props[p].width
      BY <1>2, <2>3, ValueFacts
    <3>2. vcam_set_prop_data(p, v, len) /\ Announce(p, 0)
      BY <1>2, <2>3, <3>1 DEF nikon_setdevicepropvalue_data
    <3>3. \A q \in Props : q = p \/ (value'[q] = value[q] /\ view'[q] = view[q])
      BY <2>1, <3>1, <3>2, DataSet
    <3>4. /\ queue' \in Seq(Note) /\ Waits(p, queue')
          /\ \A q : Waits(q, queue) => Waits(q, queue')
      BY <2>1, <3>1, <3>2, WaitsOn
    <3> QED BY <1>1, <3>3, <3>4, ViewFrom
  <2> QED BY <2>2, <2>3
<1>3. ASSUME NEW on \in {0, 1}, nikon_liveview_op(on) PROVE ViewTrue'
  <2>1. vcam_set_prop_data(LiveView, on, 1) /\ UNCHANGED <<queue, view>>
    BY <1>3 DEF nikon_liveview_op
  <2>2. on \in Values /\ 1 >= body.props[LiveView].width /\ ~body.props[LiveView].rw
    BY <1>1, ValueFacts DEF Core, BodyInv
  <2>3. \A q \in Props : q = LiveView \/ (value'[q] = value[q] /\ view'[q] = view[q])
    BY <2>1, <2>2, DataSet
  <2>4. \A q \in Props : ~body.props[q].rw \/ (value'[q] = value[q] /\ view'[q] = view[q])
    BY <2>2, <2>3, Zenon
  <2> QED BY <1>1, <2>1, <2>4, QueueStays, ViewFrom
<1>4. ASSUME nikon_getliveviewimg_op PROVE ViewTrue'
  <2>1. UNCHANGED <<value, queue, view>>
    BY <1>4 DEF nikon_getliveviewimg_op, state
  <2> QED BY <1>1, <2>1, QueueStays, ViewFrom
<1>5. ASSUME NikonEvent PROVE ViewTrue'
  <2>1. PICK i \in 1 .. Len(queue) :
          queue' = RemoveAt(queue, i) /\ view' = [view EXCEPT ![queue[i].p] = Unknown]
    BY <1>5, CoreParts DEF NikonEvent
  <2>2. queue \in Seq(Note) /\ Len(queue) \in Nat /\ value' = value
        /\ view \in [Props -> Values \cup {Unknown}]
    BY <1>5 DEF Core, DataInv, NikonEvent
  <2>3. queue' \in Seq(Note) /\ Len(queue') = Len(queue) - 1
    BY <2>1, <2>2, RemoveAtProperties
  <2>4. \A k \in 1 .. Len(queue) : k # i =>
           \E j \in 1 .. Len(queue) - 1 : RemoveAt(queue, i)[j] = queue[k]
    BY <2>2, RemoveAtEntries
  <2>5. \A q \in Props : view'[q] = IF q = queue[i].p THEN Unknown ELSE view[q]
    BY <2>1, <2>2
  <2>6. ASSUME NEW q \in Props, q # queue[i].p, Waits(q, queue) PROVE Waits(q, queue')
    <3>1. PICK k \in 1 .. Len(queue) : queue[k].p = q
      BY <2>6 DEF Waits
    <3>2. k # i
      BY <2>6, <3>1
    <3>3. PICK j \in 1 .. Len(queue') : queue'[j] = queue[k]
      BY <2>1, <2>3, <2>4, <3>2
    <3> QED BY <3>1, <3>3 DEF Waits
  <2>7. \A q \in Props : \/ view'[q] \in {Unknown, value'[q]}
                         \/ /\ value'[q] = value[q] /\ view'[q] = view[q]
                            /\ Waits(q, queue) => Waits(q, queue')
    BY <2>2, <2>5, <2>6
  <2> QED BY <1>1, <2>3, <2>7, ViewFrom
<1>6. ASSUME NEW p \in Props, ptp_getdevicepropdesc_write(p) PROVE ViewTrue'
  <2>1. UNCHANGED <<value, queue>> /\ view' = [view EXCEPT ![p] = value[p]]
    BY <1>6 DEF ptp_getdevicepropdesc_write
  <2>2. \A q \in Props : view'[q] = value'[q] \/ (value'[q] = value[q] /\ view'[q] = view[q])
    BY <2>1 DEF Core, DataInv
  <2> QED BY <1>1, <2>1, <2>2, QueueStays, ViewFrom
<1> QED BY <1>2, <1>3, <1>4, <1>5, <1>6 DEF NikonNext

\* A step control announces a value it changed.
LEMMA ControlView ==
    ASSUME Core, ViewTrue, NEW p \in Props, NEW step \in Int,
           sony_controldevice_data(p, step), Len(queue) < MaxQueue,
           view' = view \/ view' = [view EXCEPT ![p] = Unknown]
    PROVE  ViewTrue'
<1>1. PICK new \in Values :
        /\ \A q \in Props : value'[q] = IF q = p THEN new ELSE value[q]
        /\ new # value[p] => Announce(p, 0)
        /\ new = value[p] => queue' = queue
  BY ControlData
<1>2. body' = body
  BY ControlData
<1>3. \A q \in Props : view'[q] = view[q] \/ view'[q] = Unknown
  BY DEF Core, DataInv
<1>4. CASE new = value[p]
  <2>1. \A q \in Props : value'[q] = value[q]
    BY <1>1, <1>4
  <2> QED BY <1>1, <1>2, <1>3, <1>4, <2>1, QueueStays, ViewFrom
<1>5. CASE new # value[p]
  <2>1. /\ queue' \in Seq(Note) /\ Waits(p, queue')
        /\ \A q : Waits(q, queue) => Waits(q, queue')
    BY <1>1, <1>5, ValueFacts, WaitsOn
  <2>2. \A q \in Props : q = p \/ value'[q] = value[q]
    BY <1>1
  <2> QED BY <1>2, <1>3, <2>1, <2>2, ViewFrom
<1> QED BY <1>4, <1>5

\* Steps of a Sony body.
LEMMA SonyView ==
    ASSUME Core, ViewTrue, SonyNext
    PROVE  ViewTrue'
<1>1. body' = body
  BY DEF SonyNext, sony_setdevicepropvalue_data, Dial, sony_controldevice_data,
         sony_getalldevicepropinfo_op, SonyEvent, StartStepping, StepOn, StopStepping
<1>2. ASSUME NEW p \in Props \cup {"unregistered"}, NEW v \in WriteValues,
             NEW len \in {0, 1, 2, 4}, sony_setdevicepropvalue_data(p, v, len)
      PROVE  ViewTrue'
  <2>1. /\ Len(queue) < MaxQueue /\ view' = view /\ Announce(p, 0)
        /\ \/ p \in Props /\ vcam_set_prop_data(p, v, body.props[p].width)
           \/ value' = value
    BY <1>2 DEF sony_setdevicepropvalue_data, Write
  <2>2. /\ queue' \in Seq(Note) /\ Waits(p, queue')
        /\ \A q : Waits(q, queue) => Waits(q, queue')
    BY <2>1, ValueFacts, WaitsOn
  <2>3. \A q \in Props : q = p \/ value'[q] = value[q]
    BY <2>1 DEF vcam_set_prop_data, Core, DataInv
  <2> QED BY <1>1, <2>1, <2>2, <2>3, ViewFrom
<1>3. ASSUME NEW p \in Props, NEW step \in 0 .. 2 * StepHalf - 1, Dial(p, step)
      PROVE  ViewTrue'
  <2>1. Len(queue) < MaxQueue /\ view' = view /\ sony_controldevice_data(p, step)
    BY <1>3 DEF Dial, Write
  <2>2. step \in Int
    BY BoundsAssumption
  <2> QED BY <2>1, <2>2, ControlView
<1>4. ASSUME sony_getalldevicepropinfo_op \/ SonyEvent PROVE ViewTrue'
  <2>1. view' = value /\ value' = value
    BY <1>4 DEF sony_getalldevicepropinfo_op, SonyEvent
  <2>2. queue' \in Seq(Note)
    BY <1>4, SonyViewCore, BodyKeeps, <1>1 DEF Core, DataInv
  <2>3. \A q \in Props : view'[q] \in {Unknown, value'[q]}
    BY <2>1
  <2> QED BY <1>1, <2>2, <2>3, ViewFrom
<1>5. ASSUME NEW p \in Enumerated, NEW i \in DOMAIN body.props[p].avail,
             StartStepping(p, body.props[p].avail[i])
      PROVE  ViewTrue'
  <2>1. UNCHANGED <<value, queue>> /\ view' = [view EXCEPT ![p] = Unknown]
    BY <1>5 DEF StartStepping
  <2>2. \A q \in Props : view'[q] = Unknown \/ (value'[q] = value[q] /\ view'[q] = view[q])
    BY <2>1 DEF Core, DataInv
  <2> QED BY <1>1, <2>1, <2>2, QueueStays, ViewFrom
<1>6. ASSUME StepOn PROVE ViewTrue'
  <2>1. PICK d \in StepsToSend(body.props[goal.p].avail, view[goal.p], goal.t) :
          sony_controldevice_data(goal.p, d % (2 * StepHalf))
    BY <1>6 DEF StepOn
  <2>2. /\ goal # NoGoal /\ Len(queue) < MaxQueue
        /\ view' = [view EXCEPT ![goal.p] = Unknown]
    BY <1>6 DEF StepOn
  <2>3. PICK n \in Int : n = d % (2 * StepHalf)
    BY <2>1, <2>2, StepsAreNumbers
  <2>4. PICK p \in Props : p = goal.p
    BY <2>1, <2>2, StepsAreNumbers
  <2> QED BY <2>1, <2>2, <2>3, <2>4, ControlView
<1>7. ASSUME StopStepping PROVE ViewTrue'
  <2>1. UNCHANGED <<value, queue, view>>
    BY <1>7 DEF StopStepping, state
  <2> QED BY <1>1, <2>1, QueueStays, ViewFrom
<1> QED BY <1>2, <1>3, <1>4, <1>5, <1>6, <1>7 DEF SonyNext

\* Every step keeps the view true.
LEMMA ViewNext ==
    ASSUME Core, ViewInv, [Next]_vars
    PROVE  ViewInv'
<1>1. body' = body
  BY BodyKept
<1>2. CASE CanonNext
  <2>1. ASSUME ptp_eos_generic \/ ptp_eos_viewfinder_data PROVE ViewInv'
    <3>1. UNCHANGED <<body, value, queue, view>>
      BY <2>1 DEF ptp_eos_generic, ptp_eos_viewfinder_data, state
    <3> QED BY <3>1, ViewStays
  <2> QED BY <1>2, <2>1, EosSetView, EosTriggerView, EosEventsView DEF CanonNext
<1>3. CASE NikonNext \/ SonyNext
  <2>1. ViewTrue'
    BY <1>3, NikonView, SonyView DEF ViewInv
  <2>2. CASE ~Vendor("canon")
    BY <1>1, <2>1, <2>2 DEF ViewInv, Vendor
  <2>3. CASE UNCHANGED <<body, value, queue, view>>
    BY <2>3, ViewStays
  <2>4. NikonNext => ~Vendor("canon")
    BY DEF NikonNext, nikon_setdevicepropvalue_data, nikon_liveview_op,
           nikon_getliveviewimg_op, NikonEvent, ptp_getdevicepropdesc_write, Vendor
  <2>5. SonyNext => ~Vendor("canon") \/ StopStepping
    BY DEF SonyNext, sony_setdevicepropvalue_data, Dial, sony_controldevice_data,
           sony_getalldevicepropinfo_op, SonyEvent, StartStepping, StepOn, Vendor
  <2>6. StopStepping => UNCHANGED <<body, value, queue, view>>
    BY DEF StopStepping, state
  <2> QED BY <1>3, <2>2, <2>3, <2>4, <2>5, <2>6
<1>4. CASE Reconnect
  <2>1. UNCHANGED <<value, queue>> /\ view' = [p \in Props |-> Unknown]
    BY <1>4 DEF Reconnect
  <2>2. \A q \in Props : view'[q] = Unknown
    BY <2>1
  <2>3. ViewTrue'
    BY <1>1, <2>1, <2>2, QueueStays, ViewFrom DEF ViewInv
  <2>4. \A p \in Props : Told(p) => Told(p)'
    BY <2>1 DEF Told
  <2>5. Props' = Props /\ (Vendor("canon")' => Vendor("canon"))
    BY <1>1 DEF Props, Vendor
  <2> QED BY <1>1, <2>3, <2>4, <2>5 DEF ViewInv
<1>5. CASE WantFrame \/ UNCHANGED vars
  <2>1. UNCHANGED <<body, value, queue, view>>
    BY <1>5 DEF WantFrame, vars, state
  <2> QED BY <2>1, ViewStays
<1> QED BY <1>2, <1>3, <1>4, <1>5 DEF Next

\* A new client knows nothing, and nothing was announced yet.
LEMMA InitView ==
    ASSUME Init, FullWidth
    PROVE  ViewInv
<1>1. PICK b \in Bodies : body = register_model(b)
  BY DEF Init
<1>2. /\ body.vendor = b.vendor
      /\ \A p \in DOMAIN b.props : p \in Props /\ body.props[p] = add_prop(b.props[p])
      /\ \A p \in Props \ DOMAIN b.props : body.props[p].width = 4
  BY <1>1, Registered
<1>3. \A p \in DOMAIN b.props : body.props[p].width = b.props[p].width
  BY <1>2, RowRegistered, BodiesAssumption
<1>4. Vendor("canon") => \A p \in Props : body.props[p].width = 4
  BY <1>2, <1>3 DEF FullWidth, Vendor
<1>5. Len(queue) = 0
  BY DEF Init
<1>6. \A p : Told(p)
  BY <1>5 DEF Told
<1>7. ViewTrue
  BY DEF Init, ViewTrue
<1> QED BY <1>4, <1>6, <1>7 DEF ViewInv

\* What the client believes about a property it can set is true or about to be
\* corrected, on every EOS body with four-byte properties (the channel carries
\* nothing for others) and on every Nikon and Sony body.
THEOREM ViewStaysTrue ==
    ASSUME FullWidth
    PROVE  Spec => []ViewTrue
<1>1. Init => Core /\ ViewInv
  BY InitCore, InitView
<1>2. Core /\ ViewInv /\ [Next]_vars => (Core /\ ViewInv)'
  BY CoreNext, ViewNext
<1>3. Core /\ ViewInv => ViewTrue
  BY DEF ViewInv
<1> QED BY <1>1, <1>2, <1>3, PTL DEF Spec

-----------------------------------------------------------------------------
(* Steps are exact *)

RangeOrdered(d) == d.form = "range" => Number(d, d.min) <= Number(d, d.max)

\* The ranges of the tables are not empty, as sony_apply_step reads them: a
\* range of two bytes that ends above 0x7FFF is.
OrderedRanges == \A b \in Bodies : \A p \in DOMAIN b.props : RangeOrdered(add_prop(b.props[p]))

RangesInv == \A p \in Props : RangeOrdered(body.props[p])

\* A number of the property's width survives being stored.
LEMMA NumberStored ==
    ASSUME NEW d, d.width \in 1 .. 4, NEW lo \in Values, NEW hi \in Values,
           NEW c \in Number(d, lo) .. Number(d, hi)
    PROVE  Number(d, c % Modulus) = c
<1>1. PICK h \in Nat : h = ValueHalf /\ h >= 4
  BY BoundsAssumption
<1>2. Modulus = 2 * h /\ Values = 0 .. 2 * h - 1
  BY <1>1 DEF Modulus, Values
<1>3. /\ \A x \in 0 .. 2 * h - 1 : x % Modulus = x
      /\ \A x \in -(2 * h) .. -1 : x % Modulus = x + 2 * h
  BY <1>2, Remainders
<1>4. CASE d.width <= 2
  <2>1. Number(d, lo) \in -h .. h - 1 /\ Number(d, hi) \in -h .. h - 1
    BY <1>1, <1>2, <1>4 DEF Number
  <2>2. c \in -h .. h - 1
    BY <1>1, <2>1
  <2>3. CASE c >= 0
    <3>1. c % Modulus = c
      BY <1>1, <1>3, <2>2, <2>3
    <3> QED BY <1>1, <2>2, <2>3, <3>1 DEF Number
  <2>4. CASE c < 0
    <3>1. c % Modulus = c + 2 * h
      BY <1>1, <1>3, <2>2, <2>4
    <3>2. PICK y \in Int : y = c % Modulus /\ y >= ValueHalf /\ y - Modulus = c
      BY <1>1, <1>2, <2>2, <3>1
    <3>3. Number(d, y) = c
      BY <1>4, <3>2 DEF Number
    <3> QED BY <3>2, <3>3
  <2> QED BY <2>2, <2>3, <2>4
<1>5. CASE ~(d.width <= 2)
  <2>1. Number(d, lo) = lo /\ Number(d, hi) = hi
    BY <1>5 DEF Number
  <2>2. c \in 0 .. 2 * h - 1
    BY <1>1, <1>2, <2>1
  <2>3. c % Modulus = c
    BY <1>3, <2>2
  <2> QED BY <1>5, <2>3 DEF Number
<1> QED BY <1>4, <1>5

\* A step through an enumeration.
LEMMA EnumNearest ==
    ASSUME NEW s \in Seq(Values), NEW cur, NEW delta \in Int,
           \E i \in DOMAIN s : s[i] = cur
    PROVE  \E i \in {n \in DOMAIN s : s[n] = cur}, j \in DOMAIN s :
              /\ s[j] = StepEnum(s, cur, delta)
              /\ \A k \in DOMAIN s : Distance(j, i + delta) <= Distance(k, i + delta)
<1>1. Index(s, cur) \in 1 .. Len(s) /\ s[Index(s, cur)] = cur
  BY IndexFirst
<1>2. PICK n \in Nat : n = Len(s)
  OBVIOUS
<1>3. PICK i \in 1 .. n : i = Index(s, cur) /\ s[i] = cur
  BY <1>1, <1>2
<1>4. PICK x \in Int : x = i + delta
  OBVIOUS
<1>5. PICK j : j = Clamp(x, 1, n)
  OBVIOUS
<1>6. j \in 1 .. n /\ \A k \in 1 .. n : Distance(j, x) <= Distance(k, x)
  <2>1. 1 <= n /\ 1 \in Int /\ n \in Int
    BY <1>3
  <2> QED BY <1>5, <2>1 DEF Clamp, Distance
<1>7. s[j] = StepEnum(s, cur, delta)
  BY <1>2, <1>3, <1>4, <1>5 DEF StepEnum
<1>8. DOMAIN s = 1 .. n
  BY <1>2
<1> QED BY <1>3, <1>4, <1>6, <1>7, <1>8

\* A step through a range.
LEMMA RangeNearest ==
    ASSUME NEW d, IsDesc(d), Number(d, d.min) <= Number(d, d.max),
           NEW cur \in Values, NEW delta \in Int
    PROVE  LET n == Number(d, StepRange(d, cur, delta))
               want == Number(d, cur) + delta * d.step IN
           /\ n \in Number(d, d.min) .. Number(d, d.max)
           /\ \A x \in Number(d, d.min) .. Number(d, d.max) :
                 Distance(n, want) <= Distance(x, want)
<1>1. \A v \in Values : Number(d, v) \in Int
  BY ValueFacts DEF Number
<1>2. d.min \in Values /\ d.max \in Values /\ d.width \in 1 .. 4 /\ d.step \in Nat
  BY DEF IsDesc
<1>3. PICK lo \in Int, hi \in Int : lo = Number(d, d.min) /\ hi = Number(d, d.max) /\ lo <= hi
  BY <1>1, <1>2
<1>4. PICK want \in Int : want = Number(d, cur) + delta * d.step
  <2>1. delta * d.step \in Int /\ Number(d, cur) \in Int
    BY <1>1, <1>2
  <2> QED BY <2>1
<1>5. PICK c : c = Clamp(want, lo, hi)
  OBVIOUS
<1>6. c \in lo .. hi /\ \A x \in lo .. hi : Distance(c, want) <= Distance(x, want)
  BY <1>3, <1>5, ClampNearest
<1>7. StepRange(d, cur, delta) = c % Modulus
  BY <1>3, <1>4, <1>5 DEF StepRange
<1>8. Number(d, c % Modulus) = c
  BY <1>2, <1>3, <1>6, NumberStored
<1> QED BY <1>3, <1>4, <1>6, <1>7, <1>8

\* Where a step control of a Sony client leaves a property.
LEMMA DialNearest ==
    ASSUME Core, RangesInv, NEW p \in Props, NEW step \in 0 .. 2 * StepHalf - 1,
           Dial(p, step)
    PROVE  AtNearest(p, step)
<1>1. PICK d : d = body.props[p]
  OBVIOUS
<1>2. IsDesc(d) /\ value[p] \in Values /\ RangeOrdered(d)
  BY <1>1 DEF Core, BodyInv, DataInv, RangesInv
<1>3. PICK cur \in Values : cur = value[p]
  BY <1>2
<1>4. PICK s \in Seq(Values) : s = d.avail
  BY <1>2 DEF IsDesc
<1>5. PICK delta \in Int : delta = Delta(step)
  <2>1. StepHalf \in Nat /\ step \in Int
    BY BoundsAssumption
  <2> QED BY <2>1 DEF Delta
<1>6. value'[p] = sony_apply_step(d, cur, step)
  <2>1. sony_controldevice_data(p, step)
    BY DEF Dial
  <2>2. value' = [value EXCEPT ![p] = sony_apply_step(body.props[p], value[p], step)]
    BY <2>1 DEF sony_controldevice_data
  <2> QED BY <1>1, <1>3, <2>2 DEF Core, DataInv
<1>7. CASE delta = 0 \/ d.form = "none"
  <2>1. sony_apply_step(d, cur, step) = cur
    BY <1>5, <1>7 DEF sony_apply_step
  <2> QED BY <1>1, <1>3, <1>5, <1>6, <1>7, <2>1 DEF AtNearest
<1>8. CASE delta # 0 /\ d.form = "enum"
  <2>1. CASE \E i \in DOMAIN s : s[i] = cur
    <3>1. s # <<>>
      BY <2>1
    <3>2. value'[p] = StepEnum(s, cur, delta)
      BY <1>4, <1>5, <1>6, <1>8, <3>1 DEF sony_apply_step
    <3>3. \E i \in {n \in DOMAIN s : s[n] = cur}, j \in DOMAIN s :
             /\ s[j] = value'[p]
             /\ \A k \in DOMAIN s : Distance(j, i + delta) <= Distance(k, i + delta)
      BY <2>1, <3>2, EnumNearest
    <3> QED BY <1>1, <1>3, <1>4, <1>5, <1>8, <2>1, <3>3 DEF AtNearest
  <2>2. CASE ~\E i \in DOMAIN s : s[i] = cur
    <3>1. value'[p] \in {cur} \cup Range(s)
      <4>1. CASE s = <<>>
        BY <1>4, <1>5, <1>6, <1>8, <4>1 DEF sony_apply_step
      <4>2. CASE s # <<>>
        <5>1. value'[p] = StepEnum(s, cur, delta)
          BY <1>4, <1>5, <1>6, <1>8, <4>2 DEF sony_apply_step
        <5>2. 1 \in DOMAIN s /\ Len(s) \in DOMAIN s
          BY <4>2, EmptySeq
        <5> QED BY <2>2, <5>1, <5>2 DEF StepEnum, Range
      <4> QED BY <4>1, <4>2
    <3> QED BY <1>1, <1>3, <1>4, <1>5, <1>8, <2>2, <3>1 DEF AtNearest
  <2> QED BY <2>1, <2>2
<1>9. CASE delta # 0 /\ d.form = "range"
  <2>1. value'[p] = StepRange(d, cur, delta)
    BY <1>5, <1>6, <1>9 DEF sony_apply_step
  <2>2. Number(d, d.min) <= Number(d, d.max)
    BY <1>2, <1>9 DEF RangeOrdered
  <2>3. /\ Number(d, value'[p]) \in Number(d, d.min) .. Number(d, d.max)
        /\ \A x \in Number(d, d.min) .. Number(d, d.max) :
              Distance(Number(d, value'[p]), Number(d, cur) + delta * d.step)
                <= Distance(x, Number(d, cur) + delta * d.step)
    BY <1>2, <2>1, <2>2, RangeNearest
  <2> QED BY <1>1, <1>3, <1>5, <1>9, <2>3 DEF AtNearest
<1> QED BY <1>2, <1>7, <1>8, <1>9 DEF IsDesc

\* The ranges are those of the table.
LEMMA InitRanges ==
    ASSUME Init, OrderedRanges
    PROVE  RangesInv
<1>1. PICK b \in Bodies : body = register_model(b)
  BY DEF Init
<1>2. /\ \A p \in DOMAIN b.props : p \in Props /\ body.props[p] = add_prop(b.props[p])
      /\ \A p \in Props \ DOMAIN b.props : body.props[p].form = "none"
  BY <1>1, Registered
<1> QED BY <1>2 DEF RangesInv, RangeOrdered, OrderedRanges

\* Every step control of a Sony client moves the property to the entry or the
\* number nearest to the one it asks for, whatever the lists, the ranges in
\* order and the step.
THEOREM StepsAreExact ==
    ASSUME OrderedRanges
    PROVE  Spec => StepExact
<1>1. Init => Core /\ RangesInv
  BY InitCore, InitRanges
<1>2. Core /\ RangesInv /\ [Next]_vars => (Core /\ RangesInv)'
  <2>1. Core /\ [Next]_vars => Core'
    BY CoreNext
  <2>2. RangesInv /\ [Next]_vars => RangesInv'
    <3>1. [Next]_vars => body' = body
      BY BodyKept
    <3> QED BY <3>1 DEF RangesInv, Props
  <2> QED BY <2>1, <2>2
<1>3. Core /\ RangesInv /\ [Next]_vars =>
        [\A p \in Props, step \in 0 .. 2 * StepHalf - 1 :
            Dial(p, step) => AtNearest(p, step)]_vars
  BY DialNearest
<1> QED BY <1>1, <1>2, <1>3, PTL DEF Spec, StepExact

=============================================================================
