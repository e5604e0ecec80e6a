---------------------------- MODULE DeviceProps ----------------------------
(***************************************************************************)
(* The device properties of a camera and the three vendor protocols that   *)
(* change them and tell the client: the EOS property channel               *)
(* (canon/canon.c, canon/props.c), the Nikon SetDevicePropValue and live   *)
(* view handlers (nikon/ops.c, nikon/props.c) and Sony's SDIO writes and   *)
(* stepping controls (sony/ops.c, sony/props.c), over the property list of *)
(* vcamera.c.  The client keeps a cached view of the properties, as        *)
(* libgphoto2 does: on Nikon an announcement drops the cached value, on    *)
(* EOS it carries the new value, on Sony it makes the client fetch all     *)
(* properties again.                                                       *)
(*                                                                         *)
(* Announcements wait in the event list of module EventQueue; here each    *)
(* property's announcements keep their order and nothing else is assumed.  *)
(***************************************************************************)
EXTENDS Integers, Sequences, FiniteSets, SequencesExt, TLC

CONSTANTS
    Bodies,    \* camera bodies: [vendor, props : name -> row of the model's table]
    ValueHalf, \* half the values of a property (2^7, 2^15 and 2^31 in the code)
    StepHalf,  \* half the values of the one-byte step control (128 in the code)
    FirstFrame,\* call of GetViewFinderData that is the first to succeed (15)
    MaxQueue,  \* bound: announcements waiting at a time
    MaxWrites  \* bound: requests of the client that change a property

ASSUME BoundsAssumption ==
    /\ ValueHalf \in Nat /\ ValueHalf >= 4
    /\ StepHalf \in Nat \ {0} /\ FirstFrame \in Nat \ {0}
    /\ MaxQueue \in Nat \ {0} /\ MaxWrites \in Nat

LiveView == "LiveViewStatus"

\* A row of a model's table; and what the two Nikon tables have in common
IsRow(row) ==
    /\ row.width \in 1 .. 4 /\ row.rw \in BOOLEAN
    /\ row.form \in {"none", "enum", "range"}
    /\ row.avail \in Seq(Int)
    /\ row.min \in Int /\ row.max \in Int /\ row.step \in Nat /\ row.value \in Int

ASSUME BodiesAssumption ==
    \A b \in Bodies :
        /\ b.vendor \in {"canon", "nikon", "sony"}
        /\ IsFiniteSet(DOMAIN b.props)
        /\ \A p \in DOMAIN b.props : IsRow(b.props[p])
        /\ b.vendor = "nikon" =>
              /\ LiveView \in DOMAIN b.props
              /\ b.props[LiveView].width = 1 /\ b.props[LiveView].value = 0
              /\ ~b.props[LiveView].rw

VARIABLES
    body,      \* [vendor, props]: the body and its registered descriptions
    value,     \* property -> current value, as the bytes read back
    stored,    \* property -> bytes allocated for it
    queue,     \* announcements: <<[p, v]>>, v is 0 where the event has no value
    view,      \* property -> what the client believes, or Unknown
    first_events, capture_destination, calls_to_liveview,   \* struct CanonBase
    liveview_status,                                        \* struct Nikon
    saved,     \* the last EOS capture went to SDRAM, and the property said so: [to, said]
    waiting,   \* the client is polling for a live view frame
    goal,      \* [p, t]: value a Sony client is stepping towards
    writes

state == <<value, stored, queue, view>>
canon == <<first_events, capture_destination, calls_to_liveview, saved>>
client == <<waiting, goal, writes>>
vars == <<body, state, canon, liveview_status, client>>

Unknown == -1
NoGoal == [p |-> "none", t |-> Unknown]
Modulus == 2 * ValueHalf
Values == 0 .. Modulus - 1
Props == DOMAIN body.props
Vendor(v) == body.vendor = v

(* Registration                                                            *)

\* write_typed: the table's number cut to the width of the property
write_typed(v) == v % Modulus

\* The form of a row: its entries are stored like the value
add_form(avail) == [i \in DOMAIN avail |-> write_typed(avail[i])]

\* One row of a model table made into a description
add_prop(row) ==
    [width |-> row.width, rw |-> row.rw, form |-> row.form, step |-> row.step,
     min |-> write_typed(row.min), max |-> write_typed(row.max),
     avail |-> add_form(row.avail), value |-> write_typed(row.value)]

\* vcam_register_prop: a code that is already listed is replaced
vcam_register_prop(props, p, desc) ==
    [q \in DOMAIN props \cup {p} |-> IF q = p THEN desc ELSE props[q]]

\* canon_ensure_capture_props: a dump without the capture properties gets them
Card == 2
Sdram == 4
canon_ensure_capture_props(props) ==
    IF "CaptureDestination" \in DOMAIN props THEN props
    ELSE vcam_register_prop(props, "CaptureDestination",
             [width |-> 4, rw |-> TRUE, form |-> "none", avail |-> <<>>,
              min |-> 0, max |-> 0, step |-> 1, value |-> Card])

register_model(b) ==
    LET props == [p \in DOMAIN b.props |-> add_prop(b.props[p])] IN
    [vendor |-> b.vendor,
     props |-> IF b.vendor = "canon" THEN canon_ensure_capture_props(props) ELSE props]

Init ==
    /\ body \in {register_model(b) : b \in Bodies}
    /\ value = [p \in Props |-> body.props[p].value]
    /\ stored = [p \in Props |-> body.props[p].width]
    /\ queue = <<>>
    /\ view = [p \in Props |-> Unknown]
    /\ first_events = FALSE /\ capture_destination = Card /\ calls_to_liveview = 0
    /\ liveview_status = 0
    /\ saved = [to |-> FALSE, said |-> FALSE]
    /\ waiting = FALSE /\ goal = NoGoal /\ writes = 0

(* The property list                                                       *)

\* vcam_set_prop_data: a fresh allocation of the length the caller names.
\* Readers copy the property's own width, so a shorter one is read past its
\* end (TypeOK)
vcam_set_prop_data(p, v, length) ==
    IF p \in Props
    THEN /\ value' = [value EXCEPT ![p] = v]
         /\ stored' = [stored EXCEPT ![p] = length]
    ELSE UNCHANGED <<value, stored>>

Announce(p, v) == queue' = Append(queue, [p |-> p, v |-> v])

Write ==
    /\ writes < MaxWrites /\ Len(queue) < MaxQueue
    /\ writes' = writes + 1

(* Canon EOS                                                               *)

\* eos_notify_prop_changed: the entry holds four bytes of value, taken from
\* the property list after the write, and zero for a property of another
\* width or one that is not registered
EntryValue(p, v) == IF p \in Props /\ body.props[p].width = 4 THEN v ELSE 0

\* Mutant: the change is announced before it is made
ptp_eos_set_property_data_early(p, v) ==
    /\ Vendor("canon") /\ Write
    /\ capture_destination' = IF p = "CaptureDestination" THEN v ELSE capture_destination
    /\ Announce(p, EntryValue(p, IF p \in Props THEN value[p] ELSE 0))
    /\ vcam_set_prop_data(p, v, 4)
    /\ UNCHANGED <<body, view, first_events, calls_to_liveview, saved, liveview_status,
                   waiting, goal>>

\* SetDevicePropValueEx, data phase: always four bytes; the destination is
\* also kept in CanonBase
ptp_eos_set_property_data(p, v) ==
    /\ Vendor("canon") /\ Write
    /\ capture_destination' = IF p = "CaptureDestination" THEN v ELSE capture_destination
    /\ vcam_set_prop_data(p, v, 4)
    /\ Announce(p, EntryValue(p, v))
    /\ UNCHANGED <<body, view, first_events, calls_to_liveview, saved, liveview_status,
                   waiting, goal>>

\* SetRemoteMode and SetEventMode of ptp_eos_generic
ptp_eos_generic ==
    /\ Vendor("canon") /\ ~first_events
    /\ first_events' = TRUE
    /\ UNCHANGED <<body, state, capture_destination, calls_to_liveview, saved,
                   liveview_status, client>>

\* eos_capture_trigger: the exposure settings are announced again, and the
\* picture goes where capture_destination says; without a source picture
\* nothing happens
Exposure == Props \ {"CaptureDestination"}
eos_capture_trigger ==
    /\ Vendor("canon") /\ Write
    /\ queue' = queue \o [i \in 1 .. Cardinality(Exposure) |->
                            LET p == SetToSeq(Exposure)[i] IN [p |-> p, v |-> EntryValue(p, value[p])]]
    /\ saved' = [to |-> capture_destination = Sdram,
                 said |-> value["CaptureDestination"] = Sdram]
    /\ UNCHANGED <<body, value, stored, view, first_events, capture_destination,
                   calls_to_liveview, liveview_status, waiting, goal>>

\* GetEvent right after the event mode was set: every property with its
\* value; the channel is left alone
eos_pack_all_props ==
    /\ Vendor("canon") /\ first_events
    /\ view' = value
    /\ first_events' = FALSE
    /\ UNCHANGED <<body, value, stored, queue, capture_destination, calls_to_liveview,
                   saved, liveview_status, client>>

\* GetEvent otherwise: the whole channel, oldest first
LastOf(p, q) ==
    LET s == {i \in DOMAIN q : q[i].p = p} IN CHOOSE i \in s : \A j \in s : j <= i
vusb_ptp_eos_events ==
    /\ Vendor("canon") /\ ~first_events /\ queue # <<>>
    /\ view' = [p \in Props |-> IF \E i \in DOMAIN queue : queue[i].p = p
                                THEN queue[LastOf(p, queue)].v ELSE view[p]]
    /\ queue' = <<>>
    /\ UNCHANGED <<body, value, stored, canon, liveview_status, client>>

\* GetViewFinderData: not ready for the first calls of the camera's life
ptp_eos_viewfinder_data ==
    /\ Vendor("canon") /\ waiting
    /\ calls_to_liveview' = IF calls_to_liveview < FirstFrame
                            THEN calls_to_liveview + 1 ELSE calls_to_liveview
    /\ waiting' = (calls_to_liveview' < FirstFrame)
    /\ UNCHANGED <<body, state, first_events, capture_destination, saved,
                   liveview_status, goal, writes>>

(* Nikon                                                                   *)

\* SetDevicePropValue: an empty write is refused and not announced; a
\* property that the table marks read-only is changed and not announced
nikon_setdevicepropvalue_data(p, v, len) ==
    /\ Vendor("nikon") /\ Write
    /\ IF len = 0 THEN UNCHANGED <<value, stored>> ELSE vcam_set_prop_data(p, v, len)
    /\ IF len > 0 /\ body.props[p].rw THEN Announce(p, 0) ELSE UNCHANGED queue
    /\ UNCHANGED <<body, view, canon, liveview_status, waiting, goal>>

\* Mutant: ending live view forgets the property
nikon_liveview_op_flag_only(on) ==
    /\ Vendor("nikon") /\ (on = 1) = waiting
    /\ liveview_status # on
    /\ liveview_status' = on
    /\ IF on = 1 THEN vcam_set_prop_data(LiveView, on, 1) ELSE UNCHANGED <<value, stored>>
    /\ UNCHANGED <<body, queue, view, canon, client>>

\* StartLiveView and EndLiveView: the flag and the property, no announcement
nikon_liveview_op(on) ==
    /\ Vendor("nikon") /\ (on = 1) = waiting
    /\ liveview_status # on
    /\ liveview_status' = on
    /\ vcam_set_prop_data(LiveView, on, 1)
    /\ UNCHANGED <<body, queue, view, canon, client>>

\* GetLiveViewImg: refused with NotLiveView unless the flag is set
nikon_getliveviewimg_op ==
    /\ Vendor("nikon") /\ waiting
    /\ liveview_status = 1
    /\ waiting' = FALSE
    /\ UNCHANGED <<body, state, canon, liveview_status, goal, writes>>

\* An event from GetEvent or the interrupt endpoint: the client drops its
\* cached description
NikonEvent ==
    /\ Vendor("nikon") /\ queue # <<>>
    /\ \E i \in DOMAIN queue :
         /\ queue' = RemoveAt(queue, i)
         /\ view' = [view EXCEPT ![queue[i].p] = Unknown]
    /\ UNCHANGED <<body, value, stored, canon, liveview_status, client>>

\* GetDevicePropDesc for a property that is not in the client's cache
ptp_getdevicepropdesc_write(p) ==
    /\ Vendor("nikon") /\ view[p] = Unknown
    /\ view' = [view EXCEPT ![p] = value[p]]
    /\ UNCHANGED <<body, value, stored, queue, canon, liveview_status, client>>

(* Sony                                                                    *)

\* SDIO_SetExtDevicePropValue: a write shorter than the property is ignored,
\* but announced and answered like any other
sony_setdevicepropvalue_data(p, v, len) ==
    /\ Vendor("sony") /\ goal = NoGoal /\ Write
    /\ IF p \in Props /\ len >= body.props[p].width
       THEN vcam_set_prop_data(p, v, body.props[p].width)
       ELSE UNCHANGED <<value, stored>>
    /\ Announce(p, 0)
    /\ UNCHANGED <<body, view, canon, liveview_status, waiting, goal>>

\* The control byte is a signed step
Delta(step) == IF step < StepHalf THEN step ELSE step - 2 * StepHalf

\* Values of a range are compared as numbers, those of one and two bytes as
\* signed ones
Number(desc, v) == IF desc.width <= 2 /\ v >= ValueHalf THEN v - Modulus ELSE v

\* First the lower bound, then the upper one
Clamp(x, lo, hi) == LET y == IF x < lo THEN lo ELSE x IN IF y > hi THEN hi ELSE y

Index(s, v) == CHOOSE i \in DOMAIN s : s[i] = v /\ \A j \in 1 .. i - 1 : s[j] # v

\* Mutant: no step applies to a value off the list
StepEnum_on_list_only(avail, cur, delta) ==
    IF \E i \in DOMAIN avail : avail[i] = cur
    THEN avail[Clamp(Index(avail, cur) + delta, 1, Len(avail))]
    ELSE cur

\* sony_apply_step on an enumeration: a value off the list jumps to the end
\* the step points at
StepEnum(avail, cur, delta) ==
    IF \E i \in DOMAIN avail : avail[i] = cur
    THEN avail[Clamp(Index(avail, cur) + delta, 1, Len(avail))]
    ELSE IF delta > 0 THEN avail[Len(avail)] ELSE avail[1]

\* Mutant: the bounds of the range are taken as unsigned
StepRange_unsigned(desc, cur, delta) ==
    Clamp(cur + delta * desc.step, desc.min, desc.max) % Modulus

\* sony_apply_step on a range
StepRange(desc, cur, delta) ==
    Clamp(Number(desc, cur) + delta * desc.step,
          Number(desc, desc.min), Number(desc, desc.max)) % Modulus

\* The value after a step: the same one where no step applies
sony_apply_step(desc, cur, step) ==
    CASE Delta(step) = 0 -> cur
      [] desc.form = "enum" /\ desc.avail # <<>> /\ Delta(step) # 0 ->
             StepEnum(desc.avail, cur, Delta(step))
      [] desc.form = "range" /\ Delta(step) # 0 -> StepRange(desc, cur, Delta(step))
      [] OTHER -> cur

\* SDIO_ControlDevice with anything but the shutter buttons; announced only
\* when the value changed
sony_controldevice_data(p, step) ==
    LET new == sony_apply_step(body.props[p], value[p], step) IN
    /\ Vendor("sony")
    /\ value' = [value EXCEPT ![p] = new]
    /\ IF new # value[p] THEN Announce(p, 0) ELSE UNCHANGED queue
    /\ UNCHANGED <<body, stored, canon, liveview_status, waiting>>

\* SDIO_GetAllExtDevicePropInfo: all properties, packed from the live values
sony_getalldevicepropinfo_op ==
    /\ Vendor("sony") /\ view # value
    /\ view' = value
    /\ UNCHANGED <<body, value, stored, queue, canon, liveview_status, client>>

\* A 0xC203 event: the client reads everything again
SonyEvent ==
    /\ Vendor("sony") /\ queue # <<>>
    /\ queue' = Tail(queue)
    /\ view' = value
    /\ UNCHANGED <<body, value, stored, canon, liveview_status, client>>

(* The client                                                              *)

WantFrame ==
    /\ body.vendor # "sony" /\ ~waiting /\ writes < MaxWrites
    /\ waiting' = TRUE /\ writes' = writes + 1
    /\ UNCHANGED <<body, state, canon, liveview_status, goal>>

\* A step control sent without looking: the client relies on the event
Dial(p, step) ==
    /\ goal = NoGoal /\ Write
    /\ sony_controldevice_data(p, step)
    /\ UNCHANGED <<view, goal>>

\* libgphoto2's stepping loop: read the properties, send the distance to the
\* goal in entries of the enumeration, read again
StartStepping(p, t) ==
    /\ Vendor("sony") /\ goal = NoGoal /\ writes < MaxWrites
    /\ goal' = [p |-> p, t |-> t]
    /\ view' = [view EXCEPT ![p] = Unknown]
    /\ writes' = writes + 1
    /\ UNCHANGED <<body, value, stored, queue, canon, liveview_status, waiting>>

StepsToSend(avail, cur, t) ==
    IF \E i \in DOMAIN avail : avail[i] = cur
    THEN {Clamp(Index(avail, t) - Index(avail, cur), -StepHalf, StepHalf - 1)}
    ELSE {-1, 1}

StepOn ==
    /\ goal # NoGoal /\ Len(queue) < MaxQueue
    /\ view[goal.p] \notin {Unknown, goal.t}
    /\ \E d \in StepsToSend(body.props[goal.p].avail, view[goal.p], goal.t) :
         sony_controldevice_data(goal.p, d % (2 * StepHalf))
    /\ view' = [view EXCEPT ![goal.p] = Unknown]
    /\ UNCHANGED <<goal, writes>>

StopStepping ==
    /\ goal # NoGoal /\ view[goal.p] = goal.t
    /\ goal' = NoGoal
    /\ UNCHANGED <<body, state, canon, liveview_status, waiting, writes>>

\* CloseSession and OpenSession: nothing the camera keeps here is reset, and
\* the next client knows nothing
Reconnect ==
    /\ writes < MaxWrites
    /\ view # [p \in Props |-> Unknown]
    /\ view' = [p \in Props |-> Unknown]
    /\ waiting' = FALSE /\ goal' = NoGoal /\ writes' = writes + 1
    /\ UNCHANGED <<body, value, stored, queue, canon, liveview_status>>

Enumerated == {p \in Props : body.props[p].form = "enum" /\ body.props[p].avail # <<>>}

\* The values a client writes: the two destinations and two others
WriteValues == {1, Card, Sdram, Modulus - 1}

CanonNext ==
    \/ \E p \in Props \cup {"unregistered"}, v \in WriteValues : ptp_eos_set_property_data(p, v)
    \/ ptp_eos_generic
    \/ eos_capture_trigger
    \/ eos_pack_all_props
    \/ vusb_ptp_eos_events
    \/ ptp_eos_viewfinder_data

NikonNext ==
    \/ \E p \in {q \in Props : body.props[q].rw}, v \in WriteValues, len \in {0, 1, 2, 4} :
         /\ len = 0 \/ len >= body.props[p].width
         /\ nikon_setdevicepropvalue_data(p, v, len)
    \/ \E on \in {0, 1} : nikon_liveview_op(on)
    \/ nikon_getliveviewimg_op
    \/ NikonEvent
    \/ \E p \in Props : ptp_getdevicepropdesc_write(p)

SonyNext ==
    \/ \E p \in Props \cup {"unregistered"}, v \in WriteValues, len \in {0, 1, 2, 4} :
         sony_setdevicepropvalue_data(p, v, len)
    \/ \E p \in Props, step \in 0 .. 2 * StepHalf - 1 : Dial(p, step)
    \/ sony_getalldevicepropinfo_op
    \/ SonyEvent
    \/ \E p \in Enumerated : \E i \in DOMAIN body.props[p].avail :
         StartStepping(p, body.props[p].avail[i])
    \/ StepOn
    \/ StopStepping

Next == CanonNext \/ NikonNext \/ SonyNext \/ WantFrame \/ Reconnect

Spec == Init /\ [][Next]_vars

\* The client polls for events and for the frame it wants, and goes on with
\* its stepping loop; every request is answered
FairSpec ==
    /\ Spec
    /\ WF_vars(vusb_ptp_eos_events) /\ WF_vars(eos_pack_all_props)
    /\ WF_vars(ptp_eos_viewfinder_data)
    /\ WF_vars(nikon_liveview_op(1)) /\ WF_vars(nikon_getliveviewimg_op)
    /\ WF_vars(NikonEvent) /\ WF_vars(SonyEvent)
    /\ WF_vars(sony_getalldevicepropinfo_op) /\ WF_vars(StepOn) /\ WF_vars(StopStepping)

(* Properties                                                              *)

\* Types, and every stored value is at least as wide as its readers copy
\* (vcam_get_prop_data, sony_pack_dpd): Sony's writes of any length and the
\* four bytes of EOS never leave a shorter one behind.
TypeOK ==
    /\ value \in [Props -> Values] /\ stored \in [Props -> 1 .. 4]
    /\ Len(queue) <= MaxQueue + Cardinality(Props)
    /\ view \in [Props -> Values \cup {Unknown}]
    /\ first_events \in BOOLEAN /\ waiting \in BOOLEAN
    /\ capture_destination \in Values /\ calls_to_liveview \in 0 .. FirstFrame
    /\ liveview_status \in {0, 1} /\ writes \in 0 .. MaxWrites
    /\ \A p \in Props : stored[p] >= body.props[p].width

\* What the client still believes about a property it can set is the
\* property's value, unless an announcement for it is on its way: every
\* change is announced, after it was made, with the value it got
\* (sony/ops.c:277, nikon/ops.c:755, canon/canon.c:414).
ViewTrue ==
    \A p \in Props :
        \/ view[p] \in {Unknown, value[p]}
        \/ ~body.props[p].rw
        \/ \E i \in DOMAIN queue : queue[i].p = p

\* The camera acts on what its properties say: live view frames are served
\* exactly while LiveViewStatus is 1 (nikon.h:28), and an EOS capture went to
\* the destination the property named (canon.h:23).
FlagsTold ==
    /\ Vendor("nikon") => liveview_status = value[LiveView]
    /\ saved.to = saved.said

\* Where a step control leaves a property: at the entry, or the number of the
\* range, that is nearest to the one it asks for
Distance(x, y) == IF x < y THEN y - x ELSE x - y
AtNearest(p, step) ==
    LET d == body.props[p]
        On == {i \in DOMAIN d.avail : d.avail[i] = value[p]}
        want == Number(d, value[p]) + Delta(step) * d.step
        range == Number(d, d.min) .. Number(d, d.max) IN
    CASE Delta(step) = 0 \/ d.form = "none" -> value'[p] = value[p]
      [] d.form = "enum" /\ Delta(step) # 0 ->
           IF On = {} THEN value'[p] \in {value[p]} \cup Range(d.avail)
           ELSE \E i \in On, j \in DOMAIN d.avail :
                  /\ d.avail[j] = value'[p]
                  /\ \A k \in DOMAIN d.avail :
                       Distance(j, i + Delta(step)) <= Distance(k, i + Delta(step))
      [] d.form = "range" /\ Delta(step) # 0 ->
           /\ Number(d, value'[p]) \in range
           /\ \A x \in range : Distance(Number(d, value'[p]), want) <= Distance(x, want)

\* A step control moves the property to the nearest entry or number, in the
\* order of the list or of numbers; a value off the list moves to one of its
\* ends (sony_apply_step, sony/ops.c:326).
StepExact ==
    [][ \A p \in Props, step \in 0 .. 2 * StepHalf - 1 :
          Dial(p, step) => AtNearest(p, step) ]_vars

\* A client stepping through an enumeration arrives at its goal, from a value
\* off the list too, and a client polling for a live view frame gets one.
ClientArrives ==
    /\ goal # NoGoal ~> goal = NoGoal
    /\ waiting ~> ~waiting

\* Property storage is sound: no value is shorter than its readers copy, and the
\* camera acts on what its properties say.
PropsSound == TypeOK /\ FlagsTold

=============================================================================
