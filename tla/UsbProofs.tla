----------------------------- MODULE UsbProofs ------------------------------
(***************************************************************************)
(* Proofs about the USB backends: the pending list of asynchronous         *)
(* transfers, for any number of transfers and events, any timeouts, and    *)
(* any depth of callbacks that cancel, free and submit while the walk is   *)
(* under way; the splitter that cuts the answers of the cameras into USB   *)
(* transfers; and the USB/IP connection of the vhci backend.               *)
(***************************************************************************)
EXTENDS LibusbAsync, UrbSplitter, Vhci, SeqLemmas

-----------------------------------------------------------------------------
(* The inductive invariant *)

TimeVal == [sec : Nat, usec : 0 .. Second]

PendingEntry == [t : Transfers, timed : BOOLEAN, deadline : TimeVal]

\* The client's kind, the clock, the port and the events.
WorldInv ==
    /\ client \in {"pool", "free"}
    /\ now \in 0 .. MaxTime
    /\ handle \in {"none", "open", "closing"}
    /\ popped \in 0 .. Len(Triggers)
    /\ EventsAllServed

\* The list agrees with the client's view, and a transfer with a state is
\* allocated.
ListInv ==
    /\ alive \subseteq Transfers
    /\ pending \in Seq(PendingEntry)
    /\ cb \in Seq(Transfers)
    /\ state \in [Transfers -> {"none", "idle", "pending"} \cup Statuses]
    /\ \A i \in 1 .. Len(pending) : state[pending[i].t] = "pending"
    /\ \A t \in Transfers : state[t] = "pending" =>
          \E i \in 1 .. Len(pending) : pending[i].t = t
    /\ \A i, j \in 1 .. Len(pending) : i # j => pending[i].t # pending[j].t
    /\ \A t \in Transfers : state[t] # "none" => t \in alive
    /\ handle = "none" => pending = <<>>

\* The walk's pointer is one of the list.
CallInv ==
    /\ call.op \in {"none", "round", "walk", "irq", "dangling"}
    /\ call.op = "walk" =>
          /\ call.pp \in 0 .. Len(pending)
          /\ DOMAIN call = {"op", "bare", "progressed", "deadline", "pp"}
    /\ WalkSafe

LInv == WorldInv /\ ListInv /\ CallInv

-----------------------------------------------------------------------------
(* struct timeval *)

\* Quotient and remainder by the microseconds of a second.
LEMMA TimevalProperties ==
    ASSUME NEW n \in Nat
    PROVE  /\ Timeval(n).sec \in Nat /\ Timeval(n).usec \in 0 .. Second - 1
           /\ n = Timeval(n).sec * Second + Timeval(n).usec
           /\ Timeval(n) \in TimeVal
<1> DEFINE a == n \div Second
           b == n % Second
<1>1. Second \in Nat /\ Second > 0
  BY ConstantsAssumption
<1>2. a \in Nat /\ b \in 0 .. Second - 1 /\ n = Second * a + b
  BY <1>1, Z3
<1>3. Timeval(n).sec = a /\ Timeval(n).usec = b /\ Timeval(n) = [sec |-> a, usec |-> b]
  BY DEF Timeval
<1> HIDE DEF a, b
<1>4. Second * a = a * Second
  BY <1>1, <1>2
<1>5. Timeval(n) \in TimeVal
  BY <1>1, <1>2, <1>3 DEF TimeVal
<1> QED BY <1>1, <1>2, <1>3, <1>4, <1>5

\* A deadline keeps at most a second in its microseconds.
LEMMA DeadlineType ==
    ASSUME NEW n \in Nat, NEW timeout \in Nat
    PROVE  tv_add_ms(Timeval(n), timeout) \in TimeVal
<1> DEFINE a == Timeval(n).sec
           b == Timeval(n).usec
           c == timeout \div Second
           d == timeout % Second
<1>1. Second \in Nat /\ Second > 0
  BY ConstantsAssumption
<1>2. a \in Nat /\ b \in 0 .. Second - 1
  BY TimevalProperties
<1>3. c \in Nat /\ d \in 0 .. Second - 1
  BY <1>1, Z3
<1>4. tv_add_ms(Timeval(n), timeout) = Carry([sec |-> a + c, usec |-> b + d])
  BY DEF tv_add_ms
<1> HIDE DEF a, b, c, d
<1>5. CASE b + d > Second
  <2>1. Carry([sec |-> a + c, usec |-> b + d])
          = [sec |-> a + c + 1, usec |-> b + d - Second]
    BY <1>1, <1>2, <1>3, <1>5 DEF Carry
  <2> QED BY <1>1, <1>2, <1>3, <1>4, <1>5, <2>1 DEF TimeVal
<1>6. CASE ~(b + d > Second)
  <2>1. Carry([sec |-> a + c, usec |-> b + d]) = [sec |-> a + c, usec |-> b + d]
    BY <1>6 DEF Carry
  <2> QED BY <1>1, <1>2, <1>3, <1>4, <1>6, <2>1 DEF TimeVal
<1> QED BY <1>5, <1>6

\* A deadline that compares as reached is reached, whatever its carry.
LEMMA ReachedDeadline ==
    ASSUME NEW d \in TimeVal, NEW n \in Nat, tv_le(d, Timeval(n))
    PROVE  d.sec * Second + d.usec <= n
<1> DEFINE a == Timeval(n).sec
           b == Timeval(n).usec
           e == d.sec
           f == d.usec
           S == Second
<1>1. S \in Nat /\ S > 0
  BY ConstantsAssumption
<1>2. a \in Nat /\ b \in 0 .. S - 1 /\ n = a * S + b
  BY TimevalProperties
<1>3. e \in Nat /\ f \in 0 .. S
  BY DEF TimeVal
<1>4. IF e # a THEN e < a ELSE f <= b
  BY DEF tv_le
<1> HIDE DEF a, b, e, f, S
<1>5. ASSUME e = a PROVE e * S + f <= n
  BY <1>1, <1>2, <1>3, <1>4, <1>5
<1>6. ASSUME e # a PROVE e * S + f <= n
  <2>1. e + 1 <= a
    BY <1>2, <1>3, <1>4, <1>6
  <2>2. (e + 1) * S <= a * S
    <3>1. PICK k \in Nat : a = e + 1 + k
      <4>1. a - (e + 1) \in Nat /\ a = e + 1 + (a - (e + 1))
        BY <1>2, <1>3, <2>1
      <4> QED BY <4>1
    <3>2. k * S \in Nat /\ (e + 1 + k) * S = (e + 1) * S + k * S
      BY <1>1, <1>3, <3>1
    <3>3. (e + 1) * S \in Nat
      BY <1>1, <1>3
    <3> QED BY <3>1, <3>2, <3>3
  <2>3. (e + 1) * S = e * S + S /\ e * S \in Nat /\ a * S \in Nat
    BY <1>1, <1>2, <1>3
  <2> QED BY <1>1, <1>2, <1>3, <2>2, <2>3
<1>7. e * S + f <= n
  BY <1>5, <1>6
<1> QED BY <1>7 DEF e, f, S

-----------------------------------------------------------------------------
(* The list *)

\* Submitting puts a transfer that was not in the list at its head.
LEMMA PushKeeps ==
    ASSUME LInv, NEW t \in alive, state[t] # "pending", NEW timeout \in Nat,
           handle = "open", handle' = "open", alive' = alive, client' = client,
           cb' \in Seq(Transfers), Push(t, timeout)
    PROVE  ListInv' /\ CallInv'
<1>1. PICK e : /\ e \in PendingEntry /\ e.t = t
               /\ pending' = <<e>> \o pending
  <2>1. PICK b \in BOOLEAN : b = (timeout > 0)
    <3>1. (timeout > 0) \in BOOLEAN
      OBVIOUS
    <3> QED BY <3>1, Zenon
  <2>2. PICK d \in TimeVal :
          d = IF timeout > 0 THEN tv_add_ms(Timeval(now), timeout) ELSE Timeval(0)
    <3>1. now \in Nat
      BY ConstantsAssumption DEF LInv, WorldInv
    <3> QED BY <3>1, DeadlineType, TimevalProperties
  <2>3. pending' = <<[t |-> t, timed |-> b, deadline |-> d]>> \o pending
    BY <2>1, <2>2, Zenon DEF Push
  <2>4. t \in Transfers
    BY DEF LInv, ListInv
  <2>5. [t |-> t, timed |-> b, deadline |-> d] \in PendingEntry
    BY <2>4 DEF PendingEntry
  <2>6. [t |-> t, timed |-> b, deadline |-> d].t = t
    OBVIOUS
  <2> QED BY <2>3, <2>5, <2>6
<1>2. /\ pending \in Seq(PendingEntry) /\ Len(pending) \in Nat
      /\ state \in [Transfers -> {"none", "idle", "pending"} \cup Statuses]
      /\ t \in Transfers /\ alive \subseteq Transfers
  BY DEF LInv, ListInv
<1>3. /\ pending' \in Seq(PendingEntry) /\ Len(pending') = Len(pending) + 1
      /\ pending'[1] = e
      /\ \A i \in 1 .. Len(pending) : pending'[i + 1] = pending[i]
  <2>1. <<e>> \in Seq(PendingEntry) /\ Len(<<e>>) = 1 /\ <<e>>[1] = e
    BY <1>1
  <2> QED BY <1>1, <1>2, <2>1, ConcatProperties
<1>4. \A i \in 1 .. Len(pending') : i = 1 \/ (i - 1 \in 1 .. Len(pending)
                                               /\ pending'[i] = pending[i - 1])
  <2> SUFFICES ASSUME NEW i \in 1 .. Len(pending'), i # 1
               PROVE  i - 1 \in 1 .. Len(pending) /\ pending'[i] = pending[i - 1]
    OBVIOUS
  <2>1. i - 1 \in 1 .. Len(pending) /\ (i - 1) + 1 = i
    BY <1>2, <1>3
  <2> QED BY <1>3, <2>1
<1>5. /\ state' = [state EXCEPT ![t] = "pending"]
      /\ state' \in [Transfers -> {"none", "idle", "pending"} \cup Statuses]
      /\ state'[t] = "pending"
      /\ \A u \in Transfers : u # t => state'[u] = state[u]
  BY <1>2 DEF Push
<1>6. \A i \in 1 .. Len(pending) : /\ pending[i].t \in Transfers /\ pending[i].t # t
                                   /\ state[pending[i].t] = "pending"
  <2>1. \A i \in 1 .. Len(pending) : pending[i] \in PendingEntry
    BY <1>2
  <2>2. \A i \in 1 .. Len(pending) : pending[i].t \in Transfers
    BY <2>1 DEF PendingEntry
  <2> QED BY <2>2 DEF LInv, ListInv
<1>7. ListInv'
  <2>1. \A i \in 1 .. Len(pending') : state'[pending'[i].t] = "pending"
    BY <1>1, <1>3, <1>4, <1>5, <1>6
  <2>2. \A u \in Transfers : state'[u] = "pending" =>
          \E i \in 1 .. Len(pending') : pending'[i].t = u
    <3> SUFFICES ASSUME NEW u \in Transfers, state'[u] = "pending"
                 PROVE  \E i \in 1 .. Len(pending') : pending'[i].t = u
      OBVIOUS
    <3>1. CASE u = t
      <4>1. 1 \in 1 .. Len(pending')
        BY <1>2, <1>3
      <4> QED BY <1>1, <1>3, <3>1, <4>1
    <3>2. CASE u # t
      <4>1. PICK i \in 1 .. Len(pending) : pending[i].t = u
        BY <1>5, <3>2 DEF LInv, ListInv
      <4>2. i + 1 \in 1 .. Len(pending') /\ pending'[i + 1].t = u
        BY <1>2, <1>3, <4>1
      <4> QED BY <4>2
    <3> QED BY <3>1, <3>2
  <2>3. \A i, j \in 1 .. Len(pending') : i # j => pending'[i].t # pending'[j].t
    <3> SUFFICES ASSUME NEW i \in 1 .. Len(pending'), NEW j \in 1 .. Len(pending'), i # j
                 PROVE  pending'[i].t # pending'[j].t
      OBVIOUS
    <3>1. \A k, l \in 1 .. Len(pending) : k # l => pending[k].t # pending[l].t
      BY DEF LInv, ListInv
    <3> QED BY <1>1, <1>2, <1>3, <1>4, <1>6, <3>1
  <2>4. \A u \in Transfers : state'[u] # "none" => u \in alive'
    BY <1>5 DEF LInv, ListInv
  <2> QED BY <1>2, <1>3, <1>5, <2>1, <2>2, <2>3, <2>4 DEF ListInv
<1>8. CallInv'
  <2>1. CASE call.op = "walk" /\ call.pp > 0
    <3>1. call' = [call EXCEPT !.pp = call.pp + 1]
      BY <2>1 DEF Push
    <3>2. /\ call.pp \in 0 .. Len(pending)
          /\ DOMAIN call = {"op", "bare", "progressed", "deadline", "pp"}
      BY <2>1 DEF LInv, CallInv
    <3>3. call'.op = "walk" /\ call'.pp = call.pp + 1 /\ DOMAIN call' = DOMAIN call
      BY <2>1, <3>1, <3>2
    <3> QED BY <1>2, <1>3, <2>1, <3>2, <3>3 DEF CallInv, WalkSafe
  <2>2. CASE ~(call.op = "walk" /\ call.pp > 0)
    <3>1. call' = call
      BY <2>2 DEF Push
    <3> QED BY <1>2, <1>3, <3>1 DEF LInv, CallInv, WalkSafe
  <2> QED BY <2>1, <2>2
<1> QED BY <1>7, <1>8

\* Finishing takes one entry out of the list and keeps the rest.
LEMMA FinishKeeps ==
    ASSUME LInv, NEW i \in 1 .. Len(pending), NEW status \in Statuses,
           Finish(i, status), alive' = alive, handle' = handle
    PROVE  ListInv' /\ Len(pending') = Len(pending) - 1
<1>1. /\ pending \in Seq(PendingEntry) /\ Len(pending) \in Nat
      /\ state \in [Transfers -> {"none", "idle", "pending"} \cup Statuses]
      /\ alive \subseteq Transfers /\ cb \in Seq(Transfers)
      /\ \A k \in 1 .. Len(pending) : state[pending[k].t] = "pending"
      /\ \A k, l \in 1 .. Len(pending) : k # l => pending[k].t # pending[l].t
  BY DEF LInv, ListInv
<1> DEFINE t == pending[i].t
<1>2. t \in Transfers /\ state[t] = "pending" /\ t \in alive
  <2>1. pending[i] \in PendingEntry
    BY <1>1
  <2>2. t \in Transfers /\ state[t] = "pending"
    BY <1>1, <2>1 DEF PendingEntry
  <2> QED BY <2>2 DEF LInv, ListInv
<1>3. pending' = RemoveAt(pending, i)
  BY DEF Finish
<1>4. /\ pending' \in Seq(PendingEntry) /\ Len(pending') = Len(pending) - 1
      /\ \A j \in 1 .. Len(pending) - 1 :
            pending'[j] = IF j < i THEN pending[j] ELSE pending[j + 1]
  BY <1>1, <1>3, RemoveAtProperties
<1>5. /\ \A j \in 1 .. Len(pending) - 1 :
            \E k \in 1 .. Len(pending) : k # i /\ pending'[j] = pending[k]
      /\ \A k \in 1 .. Len(pending) : k # i =>
            \E j \in 1 .. Len(pending) - 1 : pending'[j] = pending[k]
  <2>1. pending \in Seq(PendingEntry)
    BY <1>1
  <2>2. /\ \A j \in 1 .. Len(pending) - 1 :
              \E k \in 1 .. Len(pending) : k # i /\ RemoveAt(pending, i)[j] = pending[k]
        /\ \A k \in 1 .. Len(pending) : k # i =>
              \E j \in 1 .. Len(pending) - 1 : RemoveAt(pending, i)[j] = pending[k]
    BY <2>1, RemoveAtEntries
  <2> QED BY <1>3, <2>2
<1>6. /\ state' = [state EXCEPT ![t] = status] /\ cb' = Append(cb, t)
  BY DEF Finish
<1>7. /\ state' \in [Transfers -> {"none", "idle", "pending"} \cup Statuses]
      /\ state'[t] = status /\ status # "pending"
      /\ \A u \in Transfers : u # t => state'[u] = state[u]
  BY <1>1, <1>2, <1>6 DEF Statuses
<1>8. \A k \in 1 .. Len(pending) : pending[k].t \in Transfers
  <2>1. \A k \in 1 .. Len(pending) : pending[k] \in PendingEntry
    BY <1>1
  <2> QED BY <2>1 DEF PendingEntry
<1>9. cb' \in Seq(Transfers)
  BY <1>1, <1>2, <1>6, AppendProperties
<1> HIDE DEF t
<1>10. \A k \in 1 .. Len(pending) : k # i => pending[k].t # t
  BY <1>1 DEF t
<1>11. \A j \in 1 .. Len(pending') : state'[pending'[j].t] = "pending"
  <2> SUFFICES ASSUME NEW j \in 1 .. Len(pending')
               PROVE  state'[pending'[j].t] = "pending"
    OBVIOUS
  <2>1. PICK k \in 1 .. Len(pending) : k # i /\ pending'[j] = pending[k]
    BY <1>4, <1>5
  <2> QED BY <1>1, <1>7, <1>8, <1>10, <2>1
<1>12. \A u \in Transfers : state'[u] = "pending" =>
          \E j \in 1 .. Len(pending') : pending'[j].t = u
  <2> SUFFICES ASSUME NEW u \in Transfers, state'[u] = "pending"
               PROVE  \E j \in 1 .. Len(pending') : pending'[j].t = u
    OBVIOUS
  <2>1. u # t /\ state[u] = "pending"
    BY <1>7
  <2>2. PICK k \in 1 .. Len(pending) : pending[k].t = u
    BY <2>1 DEF LInv, ListInv
  <2>3. k # i
    BY <2>1, <2>2 DEF t
  <2>4. PICK j \in 1 .. Len(pending) - 1 : pending'[j] = pending[k]
    BY <1>5, <2>3
  <2> QED BY <1>4, <2>2, <2>4
<1>13. \A j, k \in 1 .. Len(pending') : j # k => pending'[j].t # pending'[k].t
  <2> SUFFICES ASSUME NEW j \in 1 .. Len(pending'), NEW k \in 1 .. Len(pending'), j # k
               PROVE  pending'[j].t # pending'[k].t
    OBVIOUS
  <2> DEFINE J == IF j < i THEN j ELSE j + 1
             K == IF k < i THEN k ELSE k + 1
  <2>1. J \in 1 .. Len(pending) /\ K \in 1 .. Len(pending) /\ J # K
    BY <1>1, <1>4
  <2>2. pending'[j] = pending[J] /\ pending'[k] = pending[K]
    BY <1>1, <1>4
  <2> HIDE DEF J, K
  <2> QED BY <1>1, <2>1, <2>2
<1>14. \A u \in Transfers : state'[u] # "none" => u \in alive'
  BY <1>2, <1>7 DEF LInv, ListInv
<1>15. handle' # "none"
  <2>1. pending # <<>>
    BY <1>1
  <2> QED BY <2>1 DEF LInv, ListInv
<1> QED BY <1>1, <1>4, <1>7, <1>9, <1>11, <1>12, <1>13, <1>14, <1>15 DEF ListInv

\* Taking the next event extends the history by its number.
LEMMA PopKeeps ==
    ASSUME LInv, Due, Pop, UNCHANGED <<client, now, handle>>
    PROVE  WorldInv'
<1>1. popped \in 0 .. Len(Triggers) /\ popped < Len(Triggers) /\ Len(Triggers) \in Nat
      /\ got = [n \in 1 .. popped |-> n]
  BY ConstantsAssumption DEF LInv, WorldInv, EventsAllServed, Due
<1>2. popped' = popped + 1 /\ got' = Append(got, popped + 1)
  BY DEF Pop
<1>3. got \in Seq(Nat) /\ Len(got) = popped
  <2>1. got \in [1 .. popped -> Nat]
    BY <1>1
  <2> QED BY <1>1, <2>1
<1> DEFINE h == [n \in 1 .. popped + 1 |-> n]
<1>4. h \in Seq(Nat) /\ Len(h) = popped + 1
  <2>1. h \in [1 .. popped + 1 -> Nat]
    BY <1>1
  <2> QED BY <1>1, <2>1
<1>5. /\ got' \in Seq(Nat) /\ Len(got') = popped + 1
      /\ \A n \in 1 .. popped : got'[n] = got[n]
      /\ got'[popped + 1] = popped + 1
  BY <1>1, <1>2, <1>3, AppendProperties
<1>6. \A n \in 1 .. popped + 1 : got'[n] = h[n]
  BY <1>1, <1>5
<1>7. got' = h
  BY <1>4, <1>5, <1>6, SeqEqual
<1> QED BY <1>1, <1>2, <1>7 DEF LInv, WorldInv, EventsAllServed

\* The stack of callbacks: the running one, and the rest.
LEMMA CallbackStack ==
    ASSUME ListInv, cb # <<>>
    PROVE  Running \in Transfers /\ Front(cb) \in Seq(Transfers)
<1>1. cb \in Seq(Transfers) /\ Len(cb) \in Nat /\ Len(cb) # 0
  BY DEF ListInv
<1>2. Running \in Transfers
  BY <1>1 DEF Running, Last
<1>3. \A i \in 1 .. Len(cb) - 1 : cb[i] \in Transfers
  BY <1>1
<1>4. Front(cb) \in Seq(Transfers)
  BY <1>1, <1>3, SubSeqProperties DEF Front
<1> QED BY <1>2, <1>4

-----------------------------------------------------------------------------
(* Steps *)

\* The list, the client's view, the port and the walk are left alone.
Kept == UNCHANGED <<client, handle, alive, pending, cb, state>>

\* Steps that only move the call, the clock or the events.
LEMMA KeptList ==
    ASSUME LInv, Kept
    PROVE  ListInv'
BY DEF LInv, ListInv, Kept

\* The client submits, allocates and cancels.
LEMMA SubmitStep ==
    ASSUME LInv, NEW t \in Transfers, NEW n \in Timeouts, libusb_submit_transfer(t, n)
    PROVE  LInv'
<1>1. n \in Nat
  BY ConstantsAssumption
<1>2. /\ t \in alive /\ state[t] # "pending" /\ handle = "open" /\ handle' = "open"
      /\ alive' = alive /\ client' = client /\ Push(t, n)
      /\ UNCHANGED <<world, popped, cb, got>>
  BY DEF libusb_submit_transfer, world
<1>3. cb' \in Seq(Transfers)
  BY <1>2 DEF LInv, ListInv
<1>4. ListInv' /\ CallInv'
  BY <1>1, <1>2, <1>3, PushKeeps
<1>5. WorldInv'
  BY <1>2 DEF LInv, WorldInv, EventsAllServed, world
<1> QED BY <1>4, <1>5 DEF LInv

\* Allocating gives a transfer without a state a first one.
LEMMA AllocStep ==
    ASSUME LInv, NEW t \in Transfers, libusb_alloc_transfer(t)
    PROVE  LInv'
<1>1. /\ t \notin alive /\ alive' = alive \cup {t}
      /\ state' = [state EXCEPT ![t] = "idle"]
      /\ UNCHANGED <<world, popped, pending, call, cb, got>>
  BY DEF libusb_alloc_transfer
<1>2. /\ state \in [Transfers -> {"none", "idle", "pending"} \cup Statuses]
      /\ pending \in Seq(PendingEntry)
      /\ \A u \in Transfers : state[u] # "none" => u \in alive
  BY DEF LInv, ListInv
<1>3. state[t] = "none"
  BY <1>1, <1>2
<1>4. /\ state' \in [Transfers -> {"none", "idle", "pending"} \cup Statuses]
      /\ state'[t] = "idle" /\ \A u \in Transfers : u # t => state'[u] = state[u]
  BY <1>1, <1>2
<1>5. \A i \in 1 .. Len(pending) : pending[i].t \in Transfers
  <2>1. \A i \in 1 .. Len(pending) : pending[i] \in PendingEntry
    BY <1>2
  <2> QED BY <2>1 DEF PendingEntry
<1>6. ListInv'
  BY <1>1, <1>3, <1>4, <1>5 DEF LInv, ListInv, world
<1>7. WorldInv' /\ CallInv'
  BY <1>1 DEF LInv, WorldInv, CallInv, EventsAllServed, WalkSafe, world
<1> QED BY <1>6, <1>7 DEF LInv

\* Cancelling finishes the entry and moves, or breaks, the pointer of the walk.
LEMMA CancelStep ==
    ASSUME LInv, NEW t \in Transfers, libusb_cancel_transfer(t)
    PROVE  LInv'
<1>1. pending \in Seq(PendingEntry) /\ Len(pending) \in Nat
      /\ DOMAIN pending = 1 .. Len(pending)
  BY DEF LInv, ListInv
<1>2. PICK i \in 1 .. Len(pending) :
        Finish(i, "cancelled") /\ call' = PointerAfterCancel(i)
  BY <1>1 DEF libusb_cancel_transfer
<1>3. UNCHANGED <<client, now, handle, popped, alive, got>>
  BY DEF libusb_cancel_transfer, world
<1>4. "cancelled" \in Statuses
  BY DEF Statuses
<1>5. ListInv' /\ Len(pending') = Len(pending) - 1
  BY <1>2, <1>3, <1>4, FinishKeeps
<1>6. WorldInv'
  BY <1>3 DEF LInv, WorldInv, EventsAllServed
<1>7. CallInv'
  <2>1. CASE call.op # "walk"
    <3>1. call' = call
      BY <1>2, <2>1 DEF PointerAfterCancel
    <3> QED BY <1>3, <2>1, <3>1 DEF LInv, CallInv, WalkSafe
  <2>2. CASE call.op = "walk"
    <3>1. /\ call.pp \in 0 .. Len(pending)
          /\ DOMAIN call = {"op", "bare", "progressed", "deadline", "pp"}
      BY <2>2 DEF LInv, CallInv
    <3>2. client = "free"
      BY <2>2 DEF libusb_cancel_transfer, LInv, WorldInv
    <3>3. CASE i = call.pp
      <4>1. call' = [op |-> "dangling"]
        BY <1>2, <2>2, <3>3 DEF PointerAfterCancel
      <4> QED BY <1>3, <3>2, <4>1 DEF CallInv, WalkSafe
    <3>4. CASE i < call.pp
      <4>1. call' = [call EXCEPT !.pp = call.pp - 1]
        BY <1>1, <1>2, <2>2, <3>1, <3>4 DEF PointerAfterCancel
      <4>2. call'.op = "walk" /\ call'.pp = call.pp - 1 /\ DOMAIN call' = DOMAIN call
        BY <2>2, <3>1, <4>1
      <4> QED BY <1>1, <1>5, <3>1, <3>4, <4>2 DEF CallInv, WalkSafe
    <3>5. CASE i > call.pp
      <4>1. call' = call
        BY <1>1, <1>2, <2>2, <3>1, <3>5 DEF PointerAfterCancel
      <4> QED BY <1>1, <1>5, <2>2, <3>1, <3>5, <4>1 DEF CallInv, WalkSafe
    <3> QED BY <1>1, <3>1, <3>3, <3>4, <3>5
  <2> QED BY <2>1, <2>2
<1> QED BY <1>5, <1>6, <1>7 DEF LInv

\* Callbacks return, re-submit and free.
LEMMA CallbackKeeps ==
    ASSUME LInv, CallbackStep
    PROVE  LInv'
<1>1. cb # <<>>
  BY DEF CallbackStep, CallbackReturns, CallbackResubmits, CallbackFrees
<1>2. Running \in Transfers /\ Front(cb) \in Seq(Transfers)
  BY <1>1, CallbackStack DEF LInv
<1>3. CASE CallbackReturns
  <2>1. cb' = Front(cb) /\ UNCHANGED <<world, popped, alive, pending, call, state, got>>
    BY <1>3 DEF CallbackReturns
  <2> QED BY <1>2, <2>1 DEF LInv, WorldInv, ListInv, CallInv, EventsAllServed,
                            WalkSafe, world
<1>4. ASSUME NEW n \in Timeouts, CallbackResubmits(n) PROVE LInv'
  <2>1. n \in Nat
    BY ConstantsAssumption
  <2>2. /\ state[Running] = "completed" /\ handle = "open" /\ Push(Running, n)
        /\ cb' = Front(cb) /\ UNCHANGED <<client, now, handle, popped, alive, got>>
    BY <1>4 DEF CallbackResubmits, world
  <2>3. Running \in alive
    BY <1>2, <2>2 DEF LInv, ListInv
  <2>4. ListInv' /\ CallInv'
    BY <1>2, <2>1, <2>2, <2>3, PushKeeps
  <2>5. WorldInv'
    BY <2>2 DEF LInv, WorldInv, EventsAllServed
  <2> QED BY <2>4, <2>5 DEF LInv
<1>5. CASE CallbackFrees
  <2> DEFINE t == Running
  <2>1. /\ state[t] \in Statuses /\ alive' = alive \ {t}
        /\ state' = [state EXCEPT ![t] = "none"] /\ cb' = Front(cb)
        /\ UNCHANGED <<world, popped, pending, call, got>>
    BY <1>5 DEF CallbackFrees
  <2>2. t \in Transfers
    BY <1>2
  <2> HIDE DEF t
  <2>3. /\ state \in [Transfers -> {"none", "idle", "pending"} \cup Statuses]
        /\ pending \in Seq(PendingEntry)
    BY DEF LInv, ListInv
  <2>4. /\ state' \in [Transfers -> {"none", "idle", "pending"} \cup Statuses]
        /\ state'[t] = "none" /\ \A u \in Transfers : u # t => state'[u] = state[u]
        /\ state[t] # "pending"
    BY <2>1, <2>2, <2>3 DEF Statuses
  <2>5. \A i \in 1 .. Len(pending) : pending[i].t \in Transfers
    <3>1. \A i \in 1 .. Len(pending) : pending[i] \in PendingEntry
      BY <2>3
    <3> QED BY <3>1 DEF PendingEntry
  <2>6. ListInv'
    BY <1>2, <2>1, <2>4, <2>5 DEF LInv, ListInv, world
  <2>7. WorldInv' /\ CallInv'
    BY <2>1 DEF LInv, WorldInv, CallInv, EventsAllServed, WalkSafe, world
  <2> QED BY <2>6, <2>7 DEF LInv
<1> QED BY <1>3, <1>4, <1>5 DEF CallbackStep

\* What a walk at an entry knows.
LEMMA WalkingFacts ==
    ASSUME LInv, Walking
    PROVE  /\ call.op = "walk" /\ call.pp \in 0 .. Len(pending) - 1
           /\ call.pp + 1 \in 1 .. Len(pending) /\ Len(pending) \in Nat
           /\ DOMAIN call = {"op", "bare", "progressed", "deadline", "pp"}
           /\ pending \in Seq(PendingEntry) /\ Entry \in PendingEntry
<1>1. pending \in Seq(PendingEntry) /\ Len(pending) \in Nat
  BY DEF LInv, ListInv
<1>2. /\ call.op = "walk" /\ call.pp \in 0 .. Len(pending) /\ call.pp < Len(pending)
      /\ DOMAIN call = {"op", "bare", "progressed", "deadline", "pp"}
  BY DEF LInv, CallInv, Walking
<1> QED BY <1>1, <1>2 DEF Entry

\* The walk finishes the entry it stands at, and its pointer stays.
LEMMA WalkFinishes ==
    ASSUME LInv, Walking, NEW status \in Statuses, Finish(call.pp + 1, status),
           UNCHANGED <<client, handle, alive>>,
           call' = [call EXCEPT !.progressed = TRUE]
    PROVE  ListInv' /\ CallInv'
<1>1. /\ call.op = "walk" /\ call.pp \in 0 .. Len(pending) - 1
      /\ call.pp + 1 \in 1 .. Len(pending) /\ Len(pending) \in Nat
      /\ DOMAIN call = {"op", "bare", "progressed", "deadline", "pp"}
  BY WalkingFacts
<1>2. ListInv' /\ Len(pending') = Len(pending) - 1
  BY <1>1, FinishKeeps
<1>3. call'.op = "walk" /\ call'.pp = call.pp /\ DOMAIN call' = DOMAIN call
  BY <1>1
<1> QED BY <1>1, <1>2, <1>3 DEF CallInv, WalkSafe

\* The walk and its rounds.
LEMMA WalkKeeps ==
    ASSUME LInv, WalkStep
    PROVE  LInv'
<1>1. CASE Round
  <2>1. Kept /\ UNCHANGED <<now, popped, got>>
    BY <1>1 DEF Round, Kept, world
  <2>2. WorldInv' /\ ListInv'
    BY <2>1, KeptList DEF LInv, WorldInv, EventsAllServed, Kept
  <2>3. CallInv'
    <3>1. CASE call' = NoCall
      BY <3>1 DEF NoCall, CallInv, WalkSafe
    <3>2. CASE call' = [op |-> "walk", bare |-> call.bare, progressed |-> FALSE,
                        deadline |-> call.deadline, pp |-> 0]
      <4>1. call'.op = "walk" /\ call'.pp = 0
        BY <3>2
      <4>2. DOMAIN call' = {"op", "bare", "progressed", "deadline", "pp"}
        BY <3>2
      <4>3. Len(pending') \in Nat
        BY <2>2 DEF ListInv
      <4> QED BY <4>1, <4>2, <4>3 DEF CallInv, WalkSafe
    <3> QED BY <1>1, <3>1, <3>2 DEF Round
  <2> QED BY <2>2, <2>3 DEF LInv
<1>2. CASE WalkTimeout
  <2>1. /\ Walking /\ Finish(call.pp + 1, "timed_out")
        /\ call' = [call EXCEPT !.progressed = TRUE]
        /\ UNCHANGED <<client, now, handle, popped, alive, got>>
    BY <1>2 DEF WalkTimeout, world
  <2>2. "timed_out" \in Statuses
    BY DEF Statuses
  <2>3. ListInv' /\ CallInv'
    BY <2>1, <2>2, WalkFinishes
  <2>4. WorldInv'
    BY <2>1 DEF LInv, WorldInv, EventsAllServed
  <2> QED BY <2>3, <2>4 DEF LInv
<1>3. CASE WalkComplete
  <2>1. /\ Walking /\ Finish(call.pp + 1, "completed")
        /\ call' = [call EXCEPT !.progressed = TRUE]
        /\ UNCHANGED <<client, now, handle, alive>>
        /\ (Due /\ Pop) \/ UNCHANGED <<popped, got>>
    BY <1>3 DEF WalkComplete, world
  <2>2. "completed" \in Statuses
    BY DEF Statuses
  <2>3. ListInv' /\ CallInv'
    BY <2>1, <2>2, WalkFinishes
  <2>4. CASE Due /\ Pop
    BY <2>1, <2>3, <2>4, PopKeeps DEF LInv
  <2>5. CASE UNCHANGED <<popped, got>>
    BY <2>1, <2>3, <2>5 DEF LInv, WorldInv, EventsAllServed
  <2> QED BY <2>1, <2>4, <2>5
<1>4. CASE WalkNext
  <2>1. /\ Walking /\ call' = [call EXCEPT !.pp = call.pp + 1]
        /\ Kept /\ UNCHANGED <<now, popped, got>>
    BY <1>4 DEF WalkNext, Kept, world
  <2>2. WorldInv' /\ ListInv'
    BY <2>1, KeptList DEF LInv, WorldInv, EventsAllServed, Kept
  <2>3. /\ call.op = "walk" /\ call.pp \in 0 .. Len(pending) - 1
        /\ Len(pending) \in Nat
        /\ DOMAIN call = {"op", "bare", "progressed", "deadline", "pp"}
    BY <2>1, WalkingFacts
  <2>4. call'.op = "walk" /\ call'.pp = call.pp + 1 /\ DOMAIN call' = DOMAIN call
    BY <2>1, <2>3
  <2>5. CallInv'
    BY <2>1, <2>3, <2>4 DEF CallInv, WalkSafe, Kept
  <2> QED BY <2>2, <2>5 DEF LInv
<1>5. CASE WalkEnd
  <2>1. Kept /\ UNCHANGED <<now, popped, got>>
    BY <1>5 DEF WalkEnd, Kept, world
  <2>2. WorldInv' /\ ListInv'
    BY <2>1, KeptList DEF LInv, WorldInv, EventsAllServed, Kept
  <2>3. call'.op \in {"none", "round"}
    BY <1>5 DEF WalkEnd, NoCall
  <2>4. CallInv'
    BY <2>3 DEF CallInv, WalkSafe
  <2> QED BY <2>2, <2>4 DEF LInv
<1> QED BY <1>1, <1>2, <1>3, <1>4, <1>5 DEF WalkStep

\* Calls that begin to wait.
LEMMA WaitStep ==
    ASSUME LInv,
           \/ \E n \in Timeouts : handle_events_impl(n, FALSE) \/ libusb_interrupt_transfer(n)
           \/ handle_events_impl(Bare, TRUE)
    PROVE  LInv'
<1>1. Kept /\ UNCHANGED <<now, popped, got>>
  BY DEF handle_events_impl, libusb_interrupt_transfer, Kept, world
<1>2. call'.op \in {"round", "irq"}
  <2>1. ASSUME NEW n, NEW bare, handle_events_impl(n, bare) PROVE call'.op = "round"
    <3>1. PICK d : call' = [op |-> "round", bare |-> bare, progressed |-> FALSE,
                            deadline |-> d]
      BY <2>1, Zenon DEF handle_events_impl
    <3> QED BY <3>1
  <2>2. ASSUME NEW n, libusb_interrupt_transfer(n) PROVE call'.op = "irq"
    <3>1. PICK b, d : call' = [op |-> "irq", timed |-> b, deadline |-> d]
      BY <2>2, Zenon DEF libusb_interrupt_transfer
    <3> QED BY <3>1
  <2> QED BY <2>1, <2>2
<1>3. WorldInv' /\ ListInv'
  BY <1>1, KeptList DEF LInv, WorldInv, EventsAllServed, Kept
<1>4. CallInv'
  BY <1>2 DEF CallInv, WalkSafe
<1> QED BY <1>3, <1>4 DEF LInv

\* The synchronous read takes an event or gives up.
LEMMA PollStep ==
    ASSUME LInv, InterruptPoll
    PROVE  LInv'
<1>1. Kept /\ now' = now /\ ((Due /\ Pop) \/ UNCHANGED <<popped, got>>) /\ call' = NoCall
  BY DEF InterruptPoll, Kept, world
<1>2. ListInv'
  BY <1>1, KeptList
<1>3. CallInv'
  BY <1>1 DEF CallInv, WalkSafe, NoCall
<1>4. CASE Due /\ Pop
  BY <1>1, <1>2, <1>3, <1>4, PopKeeps DEF LInv, Kept
<1>5. CASE UNCHANGED <<popped, got>>
  BY <1>1, <1>2, <1>3, <1>5 DEF LInv, WorldInv, EventsAllServed, Kept
<1> QED BY <1>1, <1>4, <1>5

\* Opening and closing the port, and the clock.
LEMMA PortStep ==
    ASSUME LInv, libusb_open \/ ClosePort \/ libusb_close \/ Tick
    PROVE  LInv'
<1>1. CASE libusb_open
  BY <1>1 DEF libusb_open, LInv, WorldInv, ListInv, CallInv, EventsAllServed, WalkSafe
<1>2. CASE ClosePort
  BY <1>2 DEF ClosePort, LInv, WorldInv, ListInv, CallInv, EventsAllServed, WalkSafe
<1>3. CASE libusb_close
  <2>1. /\ \A t \in Transfers : state[t] # "pending"
        /\ handle' = "none" /\ alive' = {} /\ state' = [t \in Transfers |-> "none"]
        /\ UNCHANGED <<client, now, popped, pending, call, cb, got>>
    BY <1>3 DEF libusb_close
  <2>2. pending = <<>>
    <3>1. pending \in Seq(PendingEntry) /\ Len(pending) \in Nat
      BY DEF LInv, ListInv
    <3>2. Len(pending) = 0
      <4> SUFFICES ASSUME Len(pending) # 0 PROVE FALSE
        OBVIOUS
      <4>1. 1 \in 1 .. Len(pending) /\ pending[1] \in PendingEntry
        BY <3>1
      <4>2. pending[1].t \in Transfers /\ state[pending[1].t] = "pending"
        BY <4>1 DEF LInv, ListInv, PendingEntry
      <4> QED BY <2>1, <4>2
    <3> QED BY <3>1, <3>2
  <2>3. /\ state' \in [Transfers -> {"none", "idle", "pending"} \cup Statuses]
        /\ \A t \in Transfers : state'[t] = "none"
    BY <2>1
  <2>4. Len(pending') = 0 /\ pending' = <<>>
    BY <2>1, <2>2
  <2>5. ListInv'
    BY <2>1, <2>3, <2>4 DEF LInv, ListInv
  <2>6. WorldInv' /\ CallInv'
    BY <2>1 DEF LInv, WorldInv, CallInv, EventsAllServed, WalkSafe
  <2> QED BY <2>5, <2>6 DEF LInv
<1>4. CASE Tick
  <2>1. now' \in 0 .. MaxTime
    BY <1>4, ConstantsAssumption DEF Tick, LInv, WorldInv
  <2> QED BY <1>4, <2>1
          DEF Tick, LInv, WorldInv, ListInv, CallInv, EventsAllServed, WalkSafe
<1> QED BY <1>1, <1>2, <1>3, <1>4

-----------------------------------------------------------------------------

\* The invariant holds at start-up.
LEMMA LInit == Init => LInv
<1> SUFFICES ASSUME Init PROVE LInv
  OBVIOUS
<1>1. Len(Triggers) \in Nat /\ MaxTime \in Nat
  BY ConstantsAssumption
<1>2. got = [n \in 1 .. popped |-> n]
  <2>1. 1 .. popped = {}
    BY DEF Init
  <2> QED BY <2>1 DEF Init
<1>3. WorldInv
  BY <1>1, <1>2 DEF Init, WorldInv, EventsAllServed
<1>4. ListInv
  BY DEF Init, ListInv
<1>5. CallInv
  BY DEF Init, NoCall, CallInv, WalkSafe
<1> QED BY <1>3, <1>4, <1>5 DEF LInv

\* Every step keeps it.
LEMMA LStep ==
    ASSUME LInv, [Next]_vars
    PROVE  LInv'
<1>1. ASSUME NEW t \in Transfers,
             \/ libusb_alloc_transfer(t)
             \/ libusb_cancel_transfer(t)
             \/ \E n \in Timeouts : libusb_submit_transfer(t, n)
      PROVE  LInv'
  BY <1>1, AllocStep, CancelStep, SubmitStep
<1>2. CASE UNCHANGED vars
  BY <1>2 DEF vars, LInv, WorldInv, ListInv, CallInv, EventsAllServed, WalkSafe
<1> QED BY <1>1, <1>2, CallbackKeeps, WaitStep, WalkKeeps, PollStep, PortStep DEF Next

\* The invariant holds throughout.
LEMMA LAlways == Spec => []LInv
BY LInit, LStep, PTL DEF Spec

\* The pending list stays sound whatever callbacks do while it is walked: each
\* submission is in it once and is reported back once, and a pool's callbacks
\* never leave the walk with a pointer into a freed entry.
THEOREM PendingStaysSound == Spec => []PendingSound
<1>1. LInv => PendingSound
  <2> SUFFICES ASSUME LInv PROVE PendingSound
    OBVIOUS
  <2>1. pending \in Seq(PendingEntry) /\ DOMAIN pending = 1 .. Len(pending)
        /\ cb \in Seq(Transfers) /\ DOMAIN cb = 1 .. Len(cb)
    BY DEF LInv, ListInv
  <2>2. \A i \in DOMAIN pending : pending[i].t \in Transfers
    <3>1. \A i \in 1 .. Len(pending) : pending[i] \in PendingEntry
      BY <2>1
    <3> QED BY <2>1, <3>1 DEF PendingEntry
  <2>3. \A i \in DOMAIN cb : cb[i] \in Transfers
    BY <2>1
  <2>4. TypeOK
    BY <2>2, <2>3 DEF LInv, WorldInv, ListInv, CallInv, TypeOK
  <2>5. ListedOnce
    BY <2>1, <2>2 DEF LInv, ListInv, ListedOnce, Listed
  <2> QED BY <2>4, <2>5 DEF PendingSound, LInv, CallInv
<1> QED BY <1>1, LAlways, PTL

\* No freed transfer stays in the list, none does once the port is closed, and
\* every event taken from the camera reaches the client, once and in order.
THEOREM NothingIsLost == Spec => []NothingLost
<1>1. LInv => NothingLost
  <2> SUFFICES ASSUME LInv PROVE NothingLost
    OBVIOUS
  <2>1. pending \in Seq(PendingEntry) /\ DOMAIN pending = 1 .. Len(pending)
    BY DEF LInv, ListInv
  <2>2. \A i \in DOMAIN pending : pending[i].t \in Transfers
    <3>1. \A i \in 1 .. Len(pending) : pending[i] \in PendingEntry
      BY <2>1
    <3> QED BY <2>1, <3>1 DEF PendingEntry
  <2>3. Listed \subseteq alive
    BY <2>1, <2>2 DEF LInv, ListInv, Listed
  <2> QED BY <2>3 DEF NothingLost, NothingStale, LInv, ListInv, WorldInv
<1> QED BY <1>1, LAlways, PTL

\* No transfer is reported as timed out unless it has a timeout and that time
\* has passed, although deadlines are kept as seconds and microseconds that are
\* not always normalised.
THEOREM TimeoutsStayReal == Spec => TimeoutsAreReal
<1> DEFINE A == \A t \in Transfers :
                  state[t] = "pending" /\ state'[t] = "timed_out" =>
                     \E e \in Range(pending) :
                         /\ e.t = t
                         /\ e.timed
                         /\ e.deadline.sec * Second + e.deadline.usec <= now
<1>1. LInv /\ [Next]_vars => [A]_vars
  <2> SUFFICES ASSUME LInv, [Next]_vars, NEW t \in Transfers,
                      state[t] = "pending", state'[t] = "timed_out"
               PROVE  \E e \in Range(pending) :
                         /\ e.t = t
                         /\ e.timed
                         /\ e.deadline.sec * Second + e.deadline.usec <= now
    OBVIOUS
  <2>1. state \in [Transfers -> {"none", "idle", "pending"} \cup Statuses]
    BY DEF LInv, ListInv
  <2>2. WalkTimeout
    <3>1. state' # state
      OBVIOUS
    <3>2. ~(UNCHANGED vars)
      BY <3>1 DEF vars
    <3>3. \A u \in Transfers : ~libusb_alloc_transfer(u)
      BY <2>1 DEF libusb_alloc_transfer
    <3>4. \A u : \A n : ~Push(u, n)
      BY <2>1 DEF Push
    <3>5. ~libusb_close
      BY <2>1 DEF libusb_close
    <3>6. \A i : ~Finish(i, "cancelled") /\ ~Finish(i, "completed")
      BY <2>1 DEF Finish
    <3>7. ~CallbackFrees
      BY <2>1 DEF CallbackFrees
    <3> QED BY <3>1, <3>2, <3>3, <3>4, <3>5, <3>6, <3>7
            DEF Next, CallbackStep, WalkStep, libusb_cancel_transfer,
                libusb_submit_transfer, CallbackReturns, CallbackResubmits,
                handle_events_impl, libusb_interrupt_transfer, Round, WalkComplete,
                WalkNext, WalkEnd, InterruptPoll, libusb_open, ClosePort, Tick
  <2>3. /\ call.pp + 1 \in 1 .. Len(pending) /\ Entry \in PendingEntry
        /\ pending \in Seq(PendingEntry)
    BY <2>2, WalkingFacts DEF WalkTimeout
  <2>4. Entry \in Range(pending)
    BY <2>3 DEF Entry, Range
  <2>5. Entry.t = t
    BY <2>1, <2>2, <2>3 DEF WalkTimeout, Finish, Entry, PendingEntry
  <2>6. /\ Entry.timed /\ tv_le(Entry.deadline, Timeval(now))
        /\ Entry.deadline \in TimeVal /\ now \in Nat
    BY <2>2, <2>3, ConstantsAssumption DEF WalkTimeout, Expired, PendingEntry, LInv, WorldInv
  <2>7. Entry.deadline.sec * Second + Entry.deadline.usec <= now
    BY <2>6, ReachedDeadline
  <2> QED BY <2>4, <2>5, <2>6, <2>7
<1> QED BY <1>1, LAlways, PTL DEF Spec, TimeoutsAreReal

-----------------------------------------------------------------------------
(* The USB transfer splitter: data and response never share a transfer *)

\* The length of the data container of the latest transaction of camera cam.
DataLen(cam) == answers[cam][Len(answers[cam]) - 1]

\* Word q of the two containers of that transaction.
PairWord(cam, q) ==
    IF q <= DataLen(cam)
    THEN [cam |-> cam, n |-> Len(answers[cam]) - 1, k |-> q, len |-> DataLen(cam)]
    ELSE [cam |-> cam, n |-> Len(answers[cam]), k |-> q - DataLen(cam), len |-> RespLen]

\* How many of its words have gone to the host.
Sent(cam) == (DataLen(cam) + RespLen) - Len(inbulk[cam])

\* What is left of the container that the word after p belongs to.
LeftOf(cam, p) == IF p < DataLen(cam) THEN DataLen(cam) - p
                                      ELSE (DataLen(cam) + RespLen) - p

\* A camera whose host waits holds a proper end of the two containers, and the
\* splitter knows how much is left of the one it is in the middle of.
CameraInv(cam) ==
    /\ ~waiting[cam] => inbulk[cam] = <<>>
    /\ waiting[cam] =>
          /\ Len(answers[cam]) >= 2
          /\ DataLen(cam) \in Nat \ {0}
          /\ Len(inbulk[cam]) \in 1 .. DataLen(cam) + RespLen
          /\ \A j \in 1 .. Len(inbulk[cam]) :
                inbulk[cam][j] = PairWord(cam, Sent(cam) + j)
          /\ last_length = IF Sent(cam) \in {0, DataLen(cam)} THEN 0
                           ELSE LeftOf(cam, Sent(cam))

\* One transaction at a time in the whole process: last_length is its own.
UrbInv ==
    /\ SplitterTypeOK
    /\ \A cam, other \in Cams : waiting[cam] /\ waiting[other] => cam = other
    /\ (\A cam \in Cams : ~waiting[cam]) => last_length = 0
    /\ \A cam \in Cams : CameraInv(cam)
    /\ PhasesSeparate
    /\ StreamIntact

\* Nothing is buffered and nobody waits.
LEMMA UrbInitInv ==
    ASSUME SplitterInit PROVE UrbInv
<1>1. SplitterTypeOK
  BY DEF SplitterInit, SplitterTypeOK
<1>2. ASSUME NEW cam \in Cams PROVE waiting[cam] = FALSE /\ inbulk[cam] = <<>>
  BY DEF SplitterInit
<1>3. PhasesSeparate
  BY DEF SplitterInit, PhasesSeparate
<1>4. ASSUME NEW cam \in Cams
      PROVE  FlattenSeq(transfers[cam]) \o inbulk[cam] = Produced(cam)
  <2>1. transfers[cam] = <<>> /\ inbulk[cam] = <<>> /\ answers[cam] = <<>>
    BY DEF SplitterInit
  <2>2. [n \in 1 .. Len(answers[cam]) |->
            ContainerWords(cam, n, answers[cam][n])] = <<>>
    BY <2>1
  <2>3. Produced(cam) = <<>>
    BY <2>2, FlattenEmpty DEF Produced
  <2> QED BY <2>1, <2>3, FlattenEmpty
<1>5. last_length = 0
  BY DEF SplitterInit
<1> QED BY <1>1, <1>2, <1>3, <1>4, <1>5 DEF UrbInv, CameraInv, StreamIntact

IsContainer(words, cam, i, len) ==
    /\ words \in Seq(Word)
    /\ Len(words) = len
    /\ \A k \in 1 .. len : words[k] = [cam |-> cam, n |-> i, k |-> k, len |-> len]

\* The words of a container.
LEMMA ContainerWordsType ==
    ASSUME NEW cam \in Cams, NEW i \in Nat \ {0}, NEW len \in Nat
    PROVE  IsContainer(ContainerWords(cam, i, len), cam, i, len)
<1>1. \A k \in 1 .. len :
        [cam |-> cam, n |-> i, k |-> k, len |-> len] \in Word
  <2> SUFFICES ASSUME NEW k \in 1 .. len
               PROVE  [cam |-> cam, n |-> i, k |-> k, len |-> len] \in Word
    OBVIOUS
  <2>1. k \in Nat \ {0} /\ len \in Nat \ {0}
    OBVIOUS
  <2> QED BY <2>1 DEF Word
<1> QED BY <1>1 DEF ContainerWords, IsContainer

\* What a command adds to what the camera has produced: two containers.
LEMMA ProducedPair ==
    ASSUME SplitterTypeOK,
           NEW cam \in Cams, NEW len \in DataLens, Transact(cam, len)
    PROVE  Produced(cam)' = Produced(cam) \o
              (ContainerWords(cam, Len(answers[cam]) + 1, len)
               \o ContainerWords(cam, Len(answers[cam]) + 2, RespLen))
<1> DEFINE m == Len(answers[cam])
           old == [n \in 1 .. m |-> ContainerWords(cam, n, answers[cam][n])]
           new == [n \in 1 .. m + 2 |-> ContainerWords(cam, n, answers'[cam][n])]
           data == ContainerWords(cam, m + 1, len)
           resp == ContainerWords(cam, m + 2, RespLen)
<1>1. /\ answers[cam] \in Seq(Nat) /\ m \in Nat
      /\ len \in Nat \ {0} /\ RespLen \in Nat \ {0}
  BY SplitterAssumption DEF SplitterTypeOK
<1>2. answers'[cam] = answers[cam] \o <<len, RespLen>>
  BY DEF Transact, SplitterTypeOK
<1>3. /\ Len(answers'[cam]) = m + 2
      /\ \A j \in 1 .. m : answers'[cam][j] = answers[cam][j]
      /\ answers'[cam][m + 1] = len /\ answers'[cam][m + 2] = RespLen
  BY <1>1, <1>2, ConcatPair
<1>4. /\ old \in Seq(Seq(Word)) /\ Len(old) = m
      /\ \A j \in 1 .. m : old[j] = ContainerWords(cam, j, answers[cam][j])
  <2>1. \A j \in 1 .. m : ContainerWords(cam, j, answers[cam][j]) \in Seq(Word)
    <3> SUFFICES ASSUME NEW j \in 1 .. m
                 PROVE  ContainerWords(cam, j, answers[cam][j]) \in Seq(Word)
      OBVIOUS
    <3>1. j \in Nat \ {0} /\ answers[cam][j] \in Nat
      BY <1>1
    <3> QED BY <3>1, ContainerWordsType DEF IsContainer
  <2> QED BY <1>1, <2>1
<1>5. data \in Seq(Word) /\ resp \in Seq(Word)
  <2>1. m + 1 \in Nat \ {0} /\ m + 2 \in Nat \ {0}
    BY <1>1
  <2> QED BY <1>1, <2>1, ContainerWordsType DEF IsContainer
<1>6. new = Append(Append(old, data), resp)
  <2>1. /\ \A j \in 1 .. m : new[j] = ContainerWords(cam, j, answers[cam][j])
        /\ new[m + 1] = data /\ new[m + 2] = resp
    <3>1. \A j \in 1 .. m : j \in 1 .. m + 2
      BY <1>1
    <3>2. m + 1 \in 1 .. m + 2 /\ m + 2 \in 1 .. m + 2
      BY <1>1
    <3> QED BY <1>3, <3>1, <3>2
  <2>2. DOMAIN new = 1 .. m + 2 /\ new = [j \in 1 .. m + 2 |-> new[j]]
    OBVIOUS
  <2> DEFINE one == Append(old, data)
             two == Append(one, resp)
  <2>3. /\ one \in Seq(Seq(Word)) /\ Len(one) = m + 1 /\ one[m + 1] = data
        /\ \A j \in 1 .. m : one[j] = old[j]
    BY <1>4, <1>5, AppendProperties
  <2> HIDE DEF old, data, resp, new, one
  <2>4. /\ two \in Seq(Seq(Word)) /\ Len(two) = m + 2 /\ two[m + 2] = resp
        /\ \A j \in 1 .. m + 1 : two[j] = one[j]
    BY <1>5, <2>3, AppendProperties
  <2> HIDE DEF two, m
  <2>5. \A j \in 1 .. m + 2 : new[j] = two[j]
    <3> SUFFICES ASSUME NEW j \in 1 .. m + 2 PROVE new[j] = two[j]
      OBVIOUS
    <3>1. CASE j \in 1 .. m
      <4>1. j \in 1 .. m + 1
        BY <1>1, <3>1
      <4> QED BY <1>4, <2>1, <2>3, <2>4, <3>1, <4>1
    <3>2. CASE j = m + 1
      <4>1. m + 1 \in 1 .. m + 1
        BY <1>1
      <4> QED BY <2>1, <2>3, <2>4, <3>2, <4>1
    <3>3. CASE j = m + 2
      BY <2>1, <2>4, <3>3
    <3> QED BY <1>1, <3>1, <3>2, <3>3
  <2>6. new = two
    <3>1. two = [j \in 1 .. m + 2 |-> two[j]]
      BY <2>4
    <3> QED BY <2>2, <2>5, <3>1
  <2> QED BY <2>6 DEF two, one
<1>7. Produced(cam)' = FlattenSeq(new) /\ Produced(cam) = FlattenSeq(old)
  BY <1>3 DEF Produced
<1> HIDE DEF old, new, data, resp
<1>8. FlattenSeq(new) = FlattenSeq(old) \o (data \o resp)
  <2> HIDE DEF m
  <2>1. /\ old \in Seq(Seq(Word))
        /\ data \in Seq(Word) /\ resp \in Seq(Word)
    BY <1>4, <1>5
  <2> DEFINE one == Append(old, data)
  <2>2. FlattenSeq(one) = FlattenSeq(old) \o data /\ one \in Seq(Seq(Word))
    BY <2>1, FlattenAppend, AppendProperties
  <2>3. new = Append(one, resp)
    BY <1>6
  <2> HIDE DEF one
  <2>4. FlattenSeq(new) = FlattenSeq(one) \o resp
    BY <2>1, <2>2, <2>3, FlattenAppend
  <2> DEFINE front == FlattenSeq(old)
  <2>5. front \in Seq(Word)
    BY <2>1, FlattenType
  <2>6. FlattenSeq(new) = (front \o data) \o resp
    BY <2>2, <2>4
  <2> HIDE DEF front
  <2>7. (front \o data) \o resp = front \o (data \o resp)
    <3>1. data \in Seq(Word) /\ resp \in Seq(Word)
      BY <2>1
    <3> QED BY <2>5, <3>1, ConcatAssociative
  <2> QED BY <2>6, <2>7 DEF front
<1> QED BY <1>7, <1>8 DEF data, resp, m

\* A command starts a transaction of which nothing has been sent.
LEMMA UrbTransactInv ==
    ASSUME ~Concurrent, UrbInv,
           NEW cam \in Cams, NEW len \in DataLens, Transact(cam, len)
    PROVE  UrbInv'
<1> DEFINE m == Len(answers[cam])
           data == ContainerWords(cam, m + 1, len)
           resp == ContainerWords(cam, m + 2, RespLen)
<1>1. /\ answers[cam] \in Seq(Nat) /\ m \in Nat
      /\ len \in Nat \ {0} /\ RespLen \in Nat \ {0}
  BY SplitterAssumption DEF UrbInv, SplitterTypeOK
<1>2. /\ \A other \in Cams : ~waiting[other] /\ inbulk[other] = <<>>
      /\ last_length = 0
  BY DEF UrbInv, CameraInv, Transact
<1>3. /\ answers'[cam] = answers[cam] \o <<len, RespLen>>
      /\ waiting'[cam] = TRUE
      /\ \A other \in Cams \ {cam} : waiting'[other] = waiting[other]
            /\ inbulk'[other] = inbulk[other] /\ answers'[other] = answers[other]
      /\ transfers' = transfers /\ last_length' = last_length
  BY DEF Transact, UrbInv, SplitterTypeOK
<1>4. /\ data \in Seq(Word) /\ Len(data) = len
      /\ \A k \in 1 .. len : data[k] = [cam |-> cam, n |-> m + 1, k |-> k, len |-> len]
      /\ resp \in Seq(Word) /\ Len(resp) = RespLen
      /\ \A k \in 1 .. RespLen :
            resp[k] = [cam |-> cam, n |-> m + 2, k |-> k, len |-> RespLen]
  <2>1. m + 1 \in Nat \ {0} /\ m + 2 \in Nat \ {0}
    BY <1>1
  <2>2. IsContainer(data, cam, m + 1, len) /\ IsContainer(resp, cam, m + 2, RespLen)
    <3>1. len \in Nat /\ RespLen \in Nat
      BY <1>1
    <3> HIDE DEF m
    <3> QED BY <2>1, <3>1, ContainerWordsType
  <2> HIDE DEF data, resp
  <2> QED BY <2>2 DEF IsContainer
<1>5. inbulk'[cam] = data \o resp
  <2>1. inbulk'[cam] = inbulk[cam] \o data \o resp
    BY DEF Transact, UrbInv, SplitterTypeOK
  <2> HIDE DEF data, resp
  <2>2. <<>> \o data = data
    BY <1>4, ConcatEmptySeq
  <2> QED BY <1>2, <2>1, <2>2
<1>6. /\ Len(answers'[cam]) = m + 2 /\ answers'[cam] \in Seq(Nat)
      /\ answers'[cam][m + 1] = len
  BY <1>1, <1>3, ConcatPair
<1>7. DataLen(cam)' = len
  BY <1>1, <1>6 DEF DataLen
<1> HIDE DEF data, resp
<1>8. /\ data \o resp \in Seq(Word)
      /\ Len(data \o resp) = len + RespLen
      /\ \A j \in 1 .. len + RespLen : (data \o resp)[j]
            = IF j <= len THEN data[j] ELSE resp[j - len]
  <2>1. /\ data \o resp \in Seq(Word)
        /\ Len(data \o resp) = Len(data) + Len(resp)
        /\ \A j \in 1 .. Len(data) + Len(resp) : (data \o resp)[j]
              = IF j <= Len(data) THEN data[j] ELSE resp[j - Len(data)]
    <3>1. data \in Seq(Word) /\ resp \in Seq(Word)
      BY <1>4
    <3> QED BY <3>1, ConcatProperties
  <2>2. Len(data) = len /\ Len(resp) = RespLen
    BY <1>4
  <2> QED BY <2>1, <2>2
<1>9. SplitterTypeOK'
  <2>1. inbulk' \in [Cams -> Seq(Word)]
    <3>1. inbulk' = [inbulk EXCEPT ![cam] = data \o resp]
      BY <1>5 DEF Transact, UrbInv, SplitterTypeOK
    <3> QED BY <1>8, <3>1 DEF UrbInv, SplitterTypeOK
  <2>2. answers' \in [Cams -> Seq(Nat)]
    <3>1. answers' = [answers EXCEPT ![cam] = answers'[cam]]
      BY <1>3 DEF Transact, UrbInv, SplitterTypeOK
    <3> QED BY <1>6, <3>1 DEF UrbInv, SplitterTypeOK
  <2>3. waiting' \in [Cams -> BOOLEAN]
    BY DEF Transact, UrbInv, SplitterTypeOK
  <2> QED BY <1>3, <2>1, <2>2, <2>3 DEF UrbInv, SplitterTypeOK, Word
<1>10. \A one, other \in Cams : waiting'[one] /\ waiting'[other] => one = other
  BY <1>2, <1>3
<1>11. ASSUME NEW other \in Cams PROVE CameraInv(other)'
  <2>1. CASE other # cam
    BY <1>2, <1>3, <2>1 DEF CameraInv
  <2>2. CASE other = cam
    <3>1. Sent(cam)' = 0
      BY <1>1, <1>5, <1>7, <1>8 DEF Sent
    <3>2. ASSUME NEW j \in 1 .. len + RespLen
          PROVE  inbulk'[cam][j] = PairWord(cam, Sent(cam) + j)'
      <4>1. CASE j <= len
        <5>1. inbulk'[cam][j] = [cam |-> cam, n |-> m + 1, k |-> j, len |-> len]
          BY <1>1, <1>4, <1>5, <1>8, <4>1
        <5> QED BY <1>1, <1>6, <1>7, <3>1, <4>1, <5>1 DEF PairWord
      <4>2. CASE j > len
        <5>1. j - len \in 1 .. RespLen
          BY <1>1, <4>2
        <5>2. inbulk'[cam][j] = [cam |-> cam, n |-> m + 2, k |-> j - len, len |-> RespLen]
          BY <1>1, <1>4, <1>5, <1>8, <4>2, <5>1
        <5> QED BY <1>1, <1>6, <1>7, <3>1, <4>2, <5>2 DEF PairWord
      <4> QED BY <1>1, <4>1, <4>2
    <3>3. /\ Len(answers'[cam]) >= 2
          /\ Len(inbulk'[cam]) = len + RespLen
          /\ len + RespLen \in 1 .. len + RespLen
      <4>1. Len(answers'[cam]) >= 2
        BY <1>1, <1>6
      <4>2. Len(inbulk'[cam]) = len + RespLen
        BY <1>5, <1>8
      <4>3. len + RespLen \in 1 .. len + RespLen
        BY <1>1
      <4> QED BY <4>1, <4>2, <4>3
    <3>4. last_length' = 0
      BY <1>2, <1>3
    <3> QED BY <1>1, <1>3, <1>7, <2>2, <3>1, <3>2, <3>3, <3>4 DEF CameraInv
  <2> QED BY <2>1, <2>2
<1>12. PhasesSeparate'
  BY <1>3 DEF UrbInv, PhasesSeparate
<1>13. ASSUME NEW other \in Cams
       PROVE  FlattenSeq(transfers'[other]) \o inbulk'[other] = Produced(other)'
  <2>0. FlattenSeq(transfers[other]) \o inbulk[other] = Produced(other)
    BY DEF UrbInv, StreamIntact
  <2>1. CASE other # cam
    <3>1. Produced(other)' = Produced(other)
      BY <1>3, <2>1 DEF Produced
    <3> QED BY <1>3, <2>0, <2>1, <3>1
  <2>2. CASE other = cam
    <3> DEFINE S == Word \cup {Garbage}
               received == FlattenSeq(transfers[cam])
    <3>1. Produced(cam)' = Produced(cam) \o (data \o resp)
      BY ProducedPair DEF UrbInv, data, resp
    <3>2. received \in Seq(S)
      <4>1. transfers[cam] \in Seq(Seq(S))
        BY DEF UrbInv, SplitterTypeOK
      <4> QED BY <4>1, FlattenType
    <3>3. Produced(cam) = received
      BY <1>2, <2>0, <2>2, <3>2, ConcatEmptySeq
    <3> QED BY <1>3, <1>5, <2>2, <3>1, <3>3
  <2> QED BY <2>1, <2>2
<1>14. StreamIntact'
  BY <1>13 DEF StreamIntact
<1>15. (\A other \in Cams : ~waiting'[other]) => last_length' = 0
  BY <1>3
<1> QED BY <1>9, <1>10, <1>11, <1>12, <1>14, <1>15 DEF UrbInv

\* What a bulk-in transfer takes: some words, all of one container, from the
\* front of the buffer, and last_length says what is left of that container.
LEMMA UrbTake ==
    ASSUME UrbInv, NEW cam \in Cams, NEW len \in Lens,
           waiting[cam], urb_splitter(cam, len)
    PROVE  \E max \in 1 .. LeftOf(cam, Sent(cam)) :
              /\ max <= Len(inbulk[cam])
              /\ transfers' = [transfers EXCEPT ![cam] =
                    Append(@, [k \in 1 .. max |-> inbulk[cam][k]])]
              /\ inbulk' = [inbulk EXCEPT ![cam] =
                    SubSeq(inbulk[cam], max + 1, Len(inbulk[cam]))]
              /\ last_length' = LeftOf(cam, Sent(cam)) - max
<1> DEFINE left == LeftOf(cam, Sent(cam))
           buf == inbulk[cam]
<1>0. /\ DataLen(cam) \in Nat \ {0} /\ RespLen \in Nat \ {0}
      /\ buf \in Seq(Word) /\ Len(buf) \in Nat
      /\ Len(buf) \in 1 .. DataLen(cam) + RespLen
      /\ len \in Nat \ {0} /\ MaxPacket \in Nat \ {0}
      /\ \A j \in 1 .. Len(buf) : buf[j] = PairWord(cam, Sent(cam) + j)
      /\ last_length = IF Sent(cam) \in {0, DataLen(cam)} THEN 0 ELSE left
  BY SplitterAssumption DEF UrbInv, CameraInv, SplitterTypeOK
<1>1. /\ Sent(cam) \in Nat /\ left \in 1 .. Len(buf)
      /\ Sent(cam) < DataLen(cam) + RespLen
  <2> DEFINE D == DataLen(cam)
             L == Len(buf)
             P == Sent(cam)
  <2>1. D \in Nat \ {0} /\ RespLen \in Nat \ {0} /\ L \in Nat /\ L \in 1 .. D + RespLen
    BY <1>0
  <2>2. P = (D + RespLen) - L
    BY DEF Sent
  <2>3. left = IF P < D THEN D - P ELSE (D + RespLen) - P
    BY DEF LeftOf
  <2> HIDE DEF D, L, P, left
  <2>4. P \in Nat /\ left \in 1 .. L /\ P < D + RespLen
    BY <2>1, <2>2, <2>3
  <2> QED BY <2>4 DEF D, L, P
<1>2. PICK length \in IF last_length = 0 THEN HeaderLengths(buf) ELSE {last_length} :
        LET max == Min({length, max_packet(len), len})
            r == vcam_read(buf, max)
        IN  /\ transfers' = [transfers EXCEPT ![cam] = Append(@, r.words)]
            /\ inbulk' = [inbulk EXCEPT ![cam] = r.rest]
            /\ last_length' = length - max
  BY DEF urb_splitter
<1>3. length = left
  <2>1. CASE Sent(cam) \in {0, DataLen(cam)}
    <3>1. buf[1] = PairWord(cam, Sent(cam) + 1)
      BY <1>0
    <3>2. /\ PairWord(cam, Sent(cam) + 1).k = 1
          /\ PairWord(cam, Sent(cam) + 1).len = left
      BY <1>0, <2>1 DEF PairWord, LeftOf
    <3>3. HeaderLengths(buf) = {left}
      BY <1>0, <3>1, <3>2 DEF HeaderLengths
    <3> QED BY <1>0, <1>2, <2>1, <3>3
  <2>2. CASE Sent(cam) \notin {0, DataLen(cam)}
    BY <1>0, <1>1, <1>2, <2>2
  <2> QED BY <2>1, <2>2
<1> DEFINE sizes == {length, max_packet(len), len}
           max == Min(sizes)
<1>4. max \in 1 .. left
  <2>1. max_packet(len) \in Nat \ {0}
    BY <1>0 DEF max_packet
  <2>2. sizes \subseteq Nat \ {0} /\ sizes # {} /\ sizes \subseteq Nat /\ length \in sizes
    BY <1>0, <1>1, <1>3, <2>1
  <2> HIDE DEF sizes
  <2>3. max \in sizes /\ \A j \in sizes : max <= j
    BY <2>2, MinIsLeast
  <2> HIDE DEF max
  <2>4. max \in Nat \ {0} /\ max <= left
    BY <1>3, <2>2, <2>3
  <2> QED BY <1>1, <2>4
<1>5. max <= Len(buf)
  BY <1>1, <1>4
<1> DEFINE r == vcam_read(buf, max)
<1>6. /\ transfers' = [transfers EXCEPT ![cam] = Append(@, r.words)]
      /\ inbulk' = [inbulk EXCEPT ![cam] = r.rest]
      /\ last_length' = left - max
  BY <1>2, <1>3
<1> HIDE DEF max
<1>7. r.words = [k \in 1 .. max |-> buf[k]] /\ r.rest = SubSeq(buf, max + 1, Len(buf))
  BY <1>0, <1>1, <1>4, <1>5 DEF vcam_read
<1> HIDE DEF r
<1> QED BY <1>4, <1>5, <1>6, <1>7

\* The words of a transfer are of one container, and only the transfer that
\* empties the buffer holds the last word of the response.
LEMMA UrbWords ==
    ASSUME UrbInv, NEW cam \in Cams, waiting[cam],
           NEW max \in 1 .. LeftOf(cam, Sent(cam)), max <= Len(inbulk[cam])
    PROVE  /\ \A j \in 1 .. max : /\ inbulk[cam][j] \in Word
                                  /\ inbulk[cam][j] # Garbage
                                  /\ inbulk[cam][j].n = inbulk[cam][1].n
           /\ (\E j \in 1 .. max : inbulk[cam][j] = ResponseEnd(cam))
              <=> max = Len(inbulk[cam])
<1> DEFINE buf == inbulk[cam]
           p == Sent(cam)
           D == DataLen(cam)
           L == Len(inbulk[cam])
           A == Len(answers[cam])
<1>0. /\ D \in Nat \ {0} /\ RespLen \in Nat \ {0} /\ L \in Nat
      /\ L \in 1 .. D + RespLen /\ A \in Nat
  BY SplitterAssumption DEF UrbInv, CameraInv, SplitterTypeOK
<1>1. p = (D + RespLen) - L /\ LeftOf(cam, p) = IF p < D THEN D - p ELSE (D + RespLen) - p
  BY DEF Sent, LeftOf
<1>2. /\ \A j \in 1 .. L : buf[j] \in Word /\ buf[j] = PairWord(cam, p + j)
      /\ \A q : PairWord(cam, q) =
            IF q <= D THEN [cam |-> cam, n |-> A - 1, k |-> q, len |-> D]
                      ELSE [cam |-> cam, n |-> A, k |-> q - D, len |-> RespLen]
  BY DEF UrbInv, CameraInv, SplitterTypeOK, PairWord
<1>7. /\ Word \subseteq [cam : Cams, n : Nat, k : Nat, len : Nat]
      /\ Garbage \notin [cam : Cams, n : Nat, k : Nat, len : Nat]
  BY SplitterAssumption DEF Word
<1>8. ResponseEnd(cam) = [cam |-> cam, n |-> A, k |-> RespLen, len |-> RespLen]
  BY DEF ResponseEnd
<1> HIDE DEF p, D, L, A, buf
<1>9. max \in 1 .. LeftOf(cam, p) /\ max <= L
  BY DEF p, L
<1>10. p \in Nat /\ max \in Nat \ {0} /\ \A j \in 1 .. max : j \in 1 .. L
  BY <1>0, <1>1, <1>9
<1>3. ASSUME NEW j \in 1 .. max
      PROVE  buf[j] \in Word /\ buf[j] # Garbage
  BY <1>2, <1>7, <1>10
<1>4. ASSUME NEW j \in 1 .. max
      PROVE  buf[j].n = buf[1].n
  <2>1. 1 \in 1 .. max
    BY <1>10
  <2>4. buf[j] = PairWord(cam, p + j) /\ buf[1] = PairWord(cam, p + 1)
    BY <1>2, <1>10, <2>1
  <2>2. CASE p < D
    <3>1. p + j <= D /\ p + 1 <= D
      BY <1>0, <1>1, <1>9, <1>10, <2>2
    <3> QED BY <1>2, <2>4, <3>1
  <2>3. CASE ~(p < D)
    <3>1. ~(p + j <= D) /\ ~(p + 1 <= D)
      BY <1>0, <1>1, <1>9, <1>10, <2>3
    <3> QED BY <1>2, <2>4, <3>1
  <2> QED BY <2>2, <2>3
<1>5. ASSUME NEW j \in 1 .. L
      PROVE  PairWord(cam, p + j) = ResponseEnd(cam) <=> j = L
  <2>1. CASE p + j <= D
    <3>1. PairWord(cam, p + j).n = A - 1
      BY <1>2, <2>1
    <3>2. ResponseEnd(cam).n = A
      BY <1>8
    <3>3. j # L /\ A - 1 # A
      BY <1>0, <1>1, <2>1
    <3> QED BY <3>1, <3>2, <3>3
  <2>2. CASE ~(p + j <= D)
    <3>1. PairWord(cam, p + j) =
            [cam |-> cam, n |-> A, k |-> (p + j) - D, len |-> RespLen]
      BY <1>2, <2>2
    <3>2. (p + j) - D = RespLen <=> j = L
      BY <1>0, <1>1
    <3>3. PairWord(cam, p + j).k = (p + j) - D /\ ResponseEnd(cam).k = RespLen
      BY <1>8, <3>1
    <3> QED BY <1>8, <3>1, <3>2, <3>3
  <2> QED BY <2>1, <2>2
<1>6. (\E j \in 1 .. max : buf[j] = ResponseEnd(cam)) <=> max = L
  <2>1. ASSUME NEW j \in 1 .. max, buf[j] = ResponseEnd(cam) PROVE max = L
    <3>1. j = L
      BY <1>2, <1>5, <1>10, <2>1
    <3> QED BY <1>0, <1>9, <1>10, <3>1
  <2>2. ASSUME max = L PROVE \E j \in 1 .. max : buf[j] = ResponseEnd(cam)
    <3>1. max \in 1 .. max /\ max \in 1 .. L
      BY <1>10, <2>2
    <3>2. buf[max] = ResponseEnd(cam)
      BY <1>2, <1>5, <2>2, <3>1
    <3> QED BY <3>1, <3>2
  <2> QED BY <2>1, <2>2
<1> QED BY <1>3, <1>4, <1>6 DEF buf, L

\* A transfer leaves the rest of the two containers, framed as before.
LEMMA UrbBulkInInv ==
    ASSUME UrbInv,
           NEW cam \in Cams, NEW len \in Lens, BulkIn(cam, len)
    PROVE  UrbInv'
<1> DEFINE left == LeftOf(cam, Sent(cam))
           buf == inbulk[cam]
           p == Sent(cam)
           D == DataLen(cam)
           L == Len(inbulk[cam])
<1>1. /\ waiting[cam] /\ answers' = answers /\ urb_splitter(cam, len)
      /\ waiting' = [waiting EXCEPT ![cam] =
            ResponseEnd(cam) \notin Range(Last(transfers'[cam]))]
  BY DEF BulkIn
<1>2. PICK max \in 1 .. left :
              /\ max <= Len(inbulk[cam])
              /\ transfers' = [transfers EXCEPT ![cam] =
                    Append(@, [k \in 1 .. max |-> inbulk[cam][k]])]
              /\ inbulk' = [inbulk EXCEPT ![cam] =
                    SubSeq(inbulk[cam], max + 1, Len(inbulk[cam]))]
              /\ last_length' = left - max
  BY <1>1, UrbTake
<1> DEFINE words == [k \in 1 .. max |-> inbulk[cam][k]]
           rest == SubSeq(buf, max + 1, L)
<1>3. /\ \A j \in 1 .. max : /\ buf[j] \in Word /\ buf[j] # Garbage
                             /\ buf[j].n = buf[1].n
      /\ (\E j \in 1 .. max : buf[j] = ResponseEnd(cam)) <=> max = L
  BY <1>1, <1>2, UrbWords
<1>4. /\ D \in Nat \ {0} /\ RespLen \in Nat \ {0} /\ L \in Nat
      /\ L \in 1 .. D + RespLen /\ buf \in Seq(Word)
      /\ p = (D + RespLen) - L /\ left = (IF p < D THEN D - p ELSE (D + RespLen) - p)
      /\ \A j \in 1 .. L : buf[j] = PairWord(cam, p + j)
  BY <1>1, SplitterAssumption DEF UrbInv, CameraInv, SplitterTypeOK, Sent, LeftOf
<1> HIDE DEF left, p, D, L, buf
<1>5. max \in 1 .. left /\ max <= L
  BY <1>2 DEF L
<1>6. p \in Nat /\ max \in Nat \ {0} /\ left \in 1 .. L
  BY <1>4, <1>5
<1>7. /\ rest \in Seq(Word) /\ Len(rest) = L - max
      /\ \A j \in 1 .. L - max : rest[j] = buf[max + j]
  <2>1. Len(buf) = L
    BY DEF L, buf
  <2>2. /\ rest \in Seq(Word)
        /\ Len(rest) = IF max + 1 <= L THEN L - (max + 1) + 1 ELSE 0
        /\ \A j \in 1 .. L - (max + 1) + 1 : rest[j] = buf[(max + 1) + j - 1]
    <3>1. max + 1 \in Int /\ L \in Int /\ \A j \in max + 1 .. L : buf[j] \in Word
      BY <1>4, <1>6, <2>1
    <3> QED BY <3>1, SubSeqProperties
  <2> HIDE DEF rest
  <2>3. Len(rest) = L - max /\ L - (max + 1) + 1 = L - max
    BY <1>4, <1>5, <1>6, <2>2
  <2>4. \A j \in 1 .. L - max : (max + 1) + j - 1 = max + j
    BY <1>6
  <2> QED BY <2>2, <2>3, <2>4
<1>8. /\ words \in Seq(Word) /\ Len(words) = max
      /\ \A j \in 1 .. max : words[j] = buf[j]
  BY <1>3, <1>6 DEF buf
<1> HIDE DEF words, rest
<1>9. /\ transfers'[cam] = Append(transfers[cam], words)
      /\ transfers' = [transfers EXCEPT ![cam] = Append(transfers[cam], words)]
      /\ inbulk'[cam] = rest
      /\ inbulk' = [inbulk EXCEPT ![cam] = rest]
      /\ last_length' = left - max
      /\ transfers[cam] \in Seq(Seq(Word \cup {Garbage}))
  BY <1>2 DEF UrbInv, SplitterTypeOK, words, rest, buf, L
<1>10. \A other \in Cams \ {cam} :
          waiting'[other] = FALSE /\ inbulk'[other] = <<>> /\ waiting[other] = FALSE
            /\ transfers'[other] = transfers[other] /\ inbulk[other] = <<>>
  BY <1>1, <1>9 DEF UrbInv, CameraInv, SplitterTypeOK
<1>11. words \in Seq(Word \cup {Garbage}) /\ rest \in Seq(Word \cup {Garbage})
       /\ buf \in Seq(Word \cup {Garbage})
  BY <1>4, <1>7, <1>8
<1>12. waiting'[cam] <=> max # L
  <2>1. Last(transfers'[cam]) = words
    BY <1>9, <1>11, AppendProperties DEF Last
  <2>2. Range(words) = {words[j] : j \in 1 .. max}
    BY <1>8 DEF Range
  <2>3. ResponseEnd(cam) \in Range(words) <=> max = L
    BY <1>3, <1>8, <2>2
  <2>4. waiting'[cam] = (ResponseEnd(cam) \notin Range(words))
    BY <1>1, <2>1 DEF UrbInv, SplitterTypeOK
  <2> QED BY <2>3, <2>4
<1>13. SplitterTypeOK'
  <2>1. inbulk' \in [Cams -> Seq(Word)]
    BY <1>7, <1>9 DEF UrbInv, SplitterTypeOK
  <2>2. transfers' \in [Cams -> Seq(Seq(Word \cup {Garbage}))]
    <3>1. Append(transfers[cam], words) \in Seq(Seq(Word \cup {Garbage}))
      BY <1>9, <1>11, AppendProperties
    <3> QED BY <1>9, <3>1 DEF UrbInv, SplitterTypeOK
  <2>3. waiting' \in [Cams -> BOOLEAN]
    BY <1>1 DEF UrbInv, SplitterTypeOK
  <2>4. last_length' \in Nat
    BY <1>4, <1>5, <1>6, <1>9
  <2> QED BY <1>1, <2>1, <2>2, <2>3, <2>4 DEF UrbInv, SplitterTypeOK, Word
<1>14. max = L => last_length' = 0
  BY <1>4, <1>5, <1>6, <1>9
<1>15. ASSUME NEW other \in Cams PROVE CameraInv(other)'
  <2>1. CASE other # cam
    BY <1>10, <2>1 DEF CameraInv
  <2>2. CASE other = cam /\ max = L
    <3>1. rest = <<>>
      BY <1>4, <1>7, <2>2
    <3> QED BY <1>9, <1>12, <2>2, <3>1 DEF CameraInv
  <2>3. CASE other = cam /\ max # L
    <3>1. DataLen(cam)' = D /\ Len(answers'[cam]) >= 2
      BY <1>1 DEF DataLen, D, UrbInv, CameraInv
    <3>2. Sent(cam)' = p + max
      <4>1. Sent(cam)' = (D + RespLen) - (L - max)
        BY <1>7, <1>9, <3>1 DEF Sent
      <4> QED BY <1>4, <1>6, <4>1
    <3>3. LeftOf(cam, Sent(cam))' =
            IF p + max < D THEN D - (p + max) ELSE (D + RespLen) - (p + max)
      BY <3>1, <3>2 DEF LeftOf
    <3>4. last_length' = IF p + max \in {0, D} THEN 0 ELSE LeftOf(cam, Sent(cam))'
      <4>1. CASE p < D
        BY <1>4, <1>5, <1>6, <1>9, <3>3, <4>1
      <4>2. CASE ~(p < D)
        BY <1>4, <1>5, <1>6, <1>9, <2>3, <3>3, <4>2
      <4> QED BY <4>1, <4>2
    <3>5. L - max \in 1 .. D + RespLen
      BY <1>4, <1>5, <1>6, <2>3
    <3>6. ASSUME NEW j \in 1 .. L - max
          PROVE  rest[j] = PairWord(cam, Sent(cam) + j)'
      <4>1. max + j \in 1 .. L /\ p + (max + j) = (p + max) + j
        BY <1>4, <1>5, <1>6
      <4>2. buf[max + j] = PairWord(cam, p + (max + j))
        BY <1>4, <4>1
      <4>3. PairWord(cam, Sent(cam) + j)' = PairWord(cam, (p + max) + j)
        BY <1>1, <3>2 DEF PairWord, DataLen
      <4> QED BY <1>7, <4>1, <4>2, <4>3
    <3> QED BY <1>4, <1>7, <1>9, <1>12, <2>3, <3>1, <3>2, <3>4, <3>5, <3>6 DEF CameraInv
  <2> QED BY <2>1, <2>2, <2>3
<1>16. PhasesSeparate'
  <2> SUFFICES ASSUME NEW c \in Cams, NEW i \in DOMAIN transfers'[c],
                      NEW w \in Range(transfers'[c][i])
               PROVE  w # Garbage /\ w.n = transfers'[c][i][1].n
    BY DEF PhasesSeparate
  <2>1. CASE c = cam /\ i = Len(transfers[cam]) + 1
    <3>1. transfers'[c][i] = words
      BY <1>9, <1>11, <2>1, AppendProperties
    <3>2. PICK j \in 1 .. max : w = words[j]
      BY <1>8, <3>1 DEF Range
    <3>3. 1 \in 1 .. max
      BY <1>6
    <3> QED BY <1>3, <1>8, <3>1, <3>2, <3>3
  <2>2. CASE ~(c = cam /\ i = Len(transfers[cam]) + 1)
    <3>1. i \in DOMAIN transfers[c] /\ transfers'[c][i] = transfers[c][i]
      <4>1. CASE c = cam
        <5>1. transfers[cam] \in Seq(Seq(Word \cup {Garbage}))
          BY <1>9
        <5>2. i \in 1 .. Len(transfers[cam]) + 1
          BY <1>9, <1>11, <4>1, <5>1, AppendProperties
        <5>3. i \in 1 .. Len(transfers[cam])
          BY <2>2, <4>1, <5>1, <5>2
        <5> QED BY <1>9, <1>11, <4>1, <5>1, <5>3, AppendProperties
      <4>2. CASE c # cam
        BY <1>10, <4>2
      <4> QED BY <4>1, <4>2
    <3> QED BY <3>1 DEF UrbInv, PhasesSeparate
  <2> QED BY <2>1, <2>2
<1>17. words \o rest = buf
  <2>1. /\ words \o rest \in Seq(Word) /\ Len(words \o rest) = max + (L - max)
        /\ \A j \in 1 .. max + (L - max) :
              (words \o rest)[j] = IF j <= max THEN words[j] ELSE rest[j - max]
    <3>1. /\ words \o rest \in Seq(Word)
          /\ Len(words \o rest) = Len(words) + Len(rest)
          /\ \A j \in 1 .. Len(words) + Len(rest) : (words \o rest)[j] =
                IF j <= Len(words) THEN words[j] ELSE rest[j - Len(words)]
      BY <1>7, <1>8, ConcatProperties
    <3> QED BY <1>7, <1>8, <3>1
  <2>2. max + (L - max) = L
    BY <1>4, <1>6
  <2>3. ASSUME NEW j \in 1 .. L PROVE (words \o rest)[j] = buf[j]
    <3>1. CASE j <= max
      <4>1. j \in 1 .. max
        BY <1>6, <3>1
      <4> QED BY <1>8, <2>1, <2>2, <3>1, <4>1
    <3>2. CASE ~(j <= max)
      <4>1. j - max \in 1 .. L - max /\ max + (j - max) = j
        BY <1>4, <1>6, <3>2
      <4> QED BY <1>7, <2>1, <2>2, <3>2, <4>1
    <3> QED BY <3>1, <3>2
  <2>4. Len(buf) = L
    BY DEF L, buf
  <2> QED BY <1>4, <2>1, <2>2, <2>3, <2>4, SeqEqual
<1>18. ASSUME NEW other \in Cams
       PROVE  FlattenSeq(transfers'[other]) \o inbulk'[other] = Produced(other)'
  <2>0. FlattenSeq(transfers[other]) \o inbulk[other] = Produced(other)
    BY DEF UrbInv, StreamIntact
  <2>1. Produced(other)' = Produced(other)
    BY <1>1 DEF Produced
  <2>2. CASE other # cam
    BY <1>10, <2>0, <2>1, <2>2
  <2>3. CASE other = cam
    <3> DEFINE received == FlattenSeq(transfers[cam])
    <3>1. received \in Seq(Word \cup {Garbage})
      BY <1>9, FlattenType
    <3>2. FlattenSeq(transfers'[cam]) = received \o words
      BY <1>9, <1>11, FlattenAppend
    <3> HIDE DEF received
    <3>3. (received \o words) \o rest = received \o (words \o rest)
      <4>1. words \in Seq(Word \cup {Garbage}) /\ rest \in Seq(Word \cup {Garbage})
        BY <1>11
      <4> QED BY <3>1, <4>1, ConcatAssociative
    <3>4. received \o buf = Produced(cam)
      BY <2>0, <2>3 DEF received, buf
    <3> QED BY <1>9, <1>17, <2>1, <2>3, <3>2, <3>3, <3>4
  <2> QED BY <2>2, <2>3
<1>19. StreamIntact'
  BY <1>18 DEF StreamIntact
<1>20. (\A other \in Cams : ~waiting'[other]) => last_length' = 0
  BY <1>12, <1>14
<1>21. \A one, other \in Cams : waiting'[one] /\ waiting'[other] => one = other
  BY <1>10
<1> QED BY <1>13, <1>15, <1>16, <1>19, <1>20, <1>21 DEF UrbInv

\* The framing invariant holds in every reachable state, however hosts cut
\* their transfers, as long as one transaction is under way at a time.
LEMMA UrbInvariant ==
    ASSUME ~Concurrent PROVE SplitterSpec => []UrbInv
<1>1. SplitterInit => UrbInv
  BY UrbInitInv
<1>2. UrbInv /\ [SplitterNext]_splitter_vars => UrbInv'
  <2> SUFFICES ASSUME UrbInv, [SplitterNext]_splitter_vars PROVE UrbInv'
    OBVIOUS
  <2>1. ASSUME NEW cam \in Cams, NEW len \in DataLens, Transact(cam, len)
        PROVE  UrbInv'
    BY <2>1, UrbTransactInv
  <2>2. ASSUME NEW cam \in Cams, NEW len \in Lens, BulkIn(cam, len)
        PROVE  UrbInv'
    BY <2>2, UrbBulkInInv
  <2>3. CASE UNCHANGED splitter_vars
    <3>1. /\ inbulk' = inbulk /\ last_length' = last_length /\ answers' = answers
          /\ transfers' = transfers /\ waiting' = waiting
      BY <2>3 DEF splitter_vars
    <3>2. SplitterTypeOK'
      BY <3>1 DEF UrbInv, SplitterTypeOK, Word
    <3>3. ASSUME NEW cam \in Cams PROVE CameraInv(cam)'
      <4>1. CameraInv(cam) /\ DataLen(cam)' = DataLen(cam)
        BY <3>1 DEF UrbInv, DataLen
      <4>2. Sent(cam)' = Sent(cam) /\ \A q : PairWord(cam, q)' = PairWord(cam, q)
        BY <3>1, <4>1 DEF Sent, PairWord
      <4>3. LeftOf(cam, Sent(cam))' = LeftOf(cam, Sent(cam))
        BY <4>1, <4>2 DEF LeftOf
      <4> QED BY <3>1, <4>1, <4>2, <4>3 DEF CameraInv
    <3>4. PhasesSeparate' /\ StreamIntact'
      BY <3>1 DEF UrbInv, PhasesSeparate, StreamIntact, Produced
    <3> QED BY <3>1, <3>2, <3>3, <3>4 DEF UrbInv
  <2> QED BY <2>1, <2>2, <2>3 DEF SplitterNext
<1> QED BY <1>1, <1>2, PTL DEF SplitterSpec

\* For any cameras, containers and requested lengths, one transaction at a time:
\* no USB transfer mixes words of the data container and of the response, and
\* with no transaction under way nothing is buffered or left over, so that the
\* next transaction begins at the start of a container.
THEOREM TransfersFramed ==
    ASSUME ~Concurrent PROVE SplitterSpec => []Framed
<1>1. UrbInv => Framed
  BY DEF UrbInv, Framed, BoundaryRestored
<1> QED BY <1>1, UrbInvariant, PTL

\* What the host has read of a camera is what that camera answered so far, word
\* for word and in order, whatever the lengths of the reads.
THEOREM TransfersIntact ==
    ASSUME ~Concurrent PROVE SplitterSpec => []StreamIntact
<1>1. UrbInv => StreamIntact
  BY DEF UrbInv
<1> QED BY <1>1, UrbInvariant, PTL

-----------------------------------------------------------------------------
(* The USB/IP connection: one answer for every URB, where the host looks for it *)

\* What the host puts into the commands.
UsbipKinds == ControlKinds \cup {"in", "event", "out", "unlink"}

UsbipCommand == [seq : Nat, kind : UsbipKinds, ep : Nat, len : Nat]

\* The endpoint belongs to the kind, and the request leaves room for its answer.
FittingCommand(u) ==
    /\ u.kind = "out" => u.ep = 2
    /\ u.kind = "in" => u.ep = 129
    /\ u.kind = "event" => u.ep = 131 /\ u.len = 1
    /\ u.kind = "get_status" => u.len >= 2
    /\ u.kind = "device_status" => u.len >= 4
    /\ u.kind = "unlink" => u.ep = u.seq

OrderlyCommand(u) == u.seq \in 1 .. seqnum /\ FittingCommand(u)

UsbipAnswer ==
    [type : {"submit"}, seq : Nat, in : BOOLEAN, len : Int, asked : Nat]
    \cup [type : {"data", "garbage", "unlink"}, seq : Nat, in : BOOLEAN, len : Int]

\* A header behind which data comes.
Announces(a) == a.type = "submit" /\ a.in /\ a.len > 0

\* The host's own state, and the device it has found.
UsbipHostInv ==
    /\ UsbipTypeOK
    /\ attached \in BOOLEAN
    /\ seqnum \in Nat
    /\ endpoints \subseteq {2, 129, 131}

\* Commands are orderly, and each URB is in them once.
UsbipCommandInv ==
    /\ commands \in Seq(UsbipCommand)
    /\ \A i \in 1 .. Len(commands) : OrderlyCommand(commands[i])
    /\ \A i, j \in 1 .. Len(commands) :
          /\ commands[i].kind # "unlink" /\ commands[j].kind # "unlink"
          /\ commands[i].seq = commands[j].seq
          => i = j

\* The URB whose data the server is reading is neither in the commands nor
\* answered.
UsbipServerInv ==
    server = "payload" =>
        /\ tries < Tries
        /\ urb \in UsbipCommand /\ OrderlyCommand(urb) /\ urb.kind = "out"
        /\ \A i \in 1 .. Len(commands) :
              commands[i].kind # "unlink" => commands[i].seq # urb.seq
        /\ \A i \in 1 .. Len(returns) :
              returns[i].type = "submit" => returns[i].seq # urb.seq

\* Data comes behind the headers that announce it and nowhere else.
UsbipFraming ==
    /\ returns \in Seq(UsbipAnswer)
    /\ returns = <<>> => expects = 0
    /\ returns # <<>> => ~Announces(returns[Len(returns)])
    /\ \A i \in 1 .. Len(returns) :
          returns[i].type = "data"
             <=> IF i = 1 THEN expects # 0 ELSE Announces(returns[i - 1])

\* Headers answer URBs of the host, each once, with no more than was asked for.
UsbipAnswerInv ==
    /\ \A i \in 1 .. Len(returns) : returns[i].type = "submit" =>
          /\ returns[i].len <= returns[i].asked
          /\ returns[i].seq \in 1 .. seqnum
          /\ \A k \in 1 .. Len(commands) :
                commands[k].kind # "unlink" => commands[k].seq # returns[i].seq
    /\ \A i, j \in 1 .. Len(returns) :
          /\ returns[i].type = "submit" /\ returns[j].type = "submit"
          /\ returns[i].seq = returns[j].seq
          => i = j

\* Only a poll that found no event leaves a negative length, and bytes that no
\* header announces.
UsbipLengths ==
    \A i \in 1 .. Len(returns) :
        returns[i].type = "garbage" \/ returns[i].len < 0
            => returns[i].len = GP_ERROR_TIMEOUT

UsbipInv ==
    /\ UsbipHostInv
    /\ UsbipCommandInv
    /\ UsbipServerInv
    /\ UsbipFraming
    /\ UsbipAnswerInv
    /\ UsbipLengths
    /\ AbortExplained

\* The configuration is as long as its descriptors together.
LEMMA ConfigLength == wTotalLength \in Nat
<1> DEFINE lens == <<9, 9, 7, 7, 7>>
           F(f) == [i \in 1 .. 6 |-> IF i = 1 THEN 0 ELSE f[i - 1] + lens[i - 1]]
           g == <<0, 9, 18, 25, 32, 39>>
           h == CHOOSE f : f = F(f)
<1>1. /\ Len(config) = 5
      /\ \A i \in 1 .. 6 : i # 1 => config[i - 1].len = lens[i - 1]
  BY DEF config
<1>2. g = F(g)
  <2>1. g = [i \in 1 .. 6 |-> g[i]]
    OBVIOUS
  <2>2. \A i \in 1 .. 6 : g[i] = IF i = 1 THEN 0 ELSE g[i - 1] + lens[i - 1]
    OBVIOUS
  <2> QED BY <2>1, <2>2
<1>3. h = F(h)
  BY <1>2
<1>4. OffsetOf = h
  BY <1>1 DEF OffsetOf
<1> HIDE DEF h
<1>5. \A i \in 1 .. 6 : h[i] = IF i = 1 THEN 0 ELSE h[i - 1] + lens[i - 1]
  BY <1>3
<1>6. h[1] = 0 /\ h[2] = h[1] + 9 /\ h[3] = h[2] + 9 /\ h[4] = h[3] + 7
      /\ h[5] = h[4] + 7 /\ h[6] = h[5] + 7
  BY <1>5
<1> QED BY <1>1, <1>4, <1>6 DEF wTotalLength

\* A host finds no endpoint in the configuration but the three of the device.
LEMMA EndpointsKnown ==
    ASSUME NEW length PROVE EndpointsIn(length) \subseteq {2, 129, 131}
  BY DEF EndpointsIn, config

\* Nothing is on its way in either direction.
LEMMA UsbipInitInv ==
    ASSUME UsbipInit PROVE UsbipInv
<1>1. UsbipHostInv
  BY UsbipAssumption DEF UsbipInit, UsbipHostInv, UsbipTypeOK
<1>2. UsbipCommandInv /\ UsbipServerInv /\ AbortExplained
  BY DEF UsbipInit, UsbipCommandInv, UsbipServerInv, AbortExplained
<1>3. UsbipFraming /\ UsbipAnswerInv /\ UsbipLengths
  BY DEF UsbipInit, UsbipFraming, UsbipAnswerInv, UsbipLengths
<1> QED BY <1>1, <1>2, <1>3 DEF UsbipInv

\* A request the drivers of the host make.
OrderlyRequest(kind, ep, len) ==
    /\ kind \in UsbipKinds /\ ep \in Nat /\ len \in Nat
    /\ kind # "unlink"
    /\ kind = "out" => ep = 2
    /\ kind = "in" => ep = 129
    /\ kind = "event" => ep = 131 /\ len = 1
    /\ kind = "get_status" => len >= 2
    /\ kind = "device_status" => len >= 4

\* What the host sends, for any orderly command.
LEMMA UsbipSubmitInv ==
    ASSUME UsbipInv, NEW kind, NEW ep, NEW len, OrderlyRequest(kind, ep, len),
           Submit(kind, ep, len)
    PROVE  UsbipInv'
<1> DEFINE u == [seq |-> seqnum + 1, kind |-> kind, ep |-> ep, len |-> len]
           n == Len(commands)
<1>1. /\ seqnum' = seqnum + 1 /\ commands' = Append(commands, u)
      /\ urbs' = urbs \cup {u} /\ stage' = stage /\ endpoints' = endpoints
      /\ expects' = expects /\ attached' = attached /\ arrived' = arrived
      /\ returns' = returns /\ server' = server /\ urb' = urb /\ read' = read
      /\ tries' = tries /\ events' = events /\ replies' = replies
  BY DEF Submit, loop, camera
<1>2. /\ seqnum \in Nat /\ commands \in Seq(UsbipCommand) /\ n \in Nat
      /\ u \in UsbipCommand
  <2>1. seqnum \in Nat /\ commands \in Seq(UsbipCommand)
    BY DEF UsbipInv, UsbipHostInv, UsbipCommandInv
  <2>2. kind \in UsbipKinds /\ ep \in Nat /\ len \in Nat
    BY Zenon DEF OrderlyRequest
  <2>3. seqnum + 1 \in Nat
    BY <2>1
  <2> QED BY <2>1, <2>2, <2>3 DEF UsbipCommand
<1> HIDE DEF u
<1>3. /\ commands' \in Seq(UsbipCommand) /\ Len(commands') = n + 1
      /\ commands'[n + 1] = u /\ \A i \in 1 .. n : commands'[i] = commands[i]
  BY <1>1, <1>2, AppendProperties
<1>4. /\ u.seq = seqnum + 1 /\ u.kind = kind /\ u.ep = ep /\ u.len = len
  BY DEF u
<1>5. \A x \in 1 .. seqnum : x \in 1 .. seqnum' /\ x # u.seq
  BY <1>1, <1>2, <1>4
<1>6. \A i \in 1 .. n + 1 : i = n + 1 \/ i \in 1 .. n
  BY <1>2
<1> HIDE DEF n
<1>7. UsbipHostInv'
  <2>1. expects' \in 0 .. seqnum'
    BY <1>1, <1>2 DEF UsbipInv, UsbipHostInv, UsbipTypeOK
  <2>2. \A v \in urbs' : v.seq \in 1 .. seqnum'
    BY <1>1, <1>2, <1>4, <1>5 DEF UsbipInv, UsbipHostInv, UsbipTypeOK
  <2> QED BY <1>1, <1>2, <2>1, <2>2 DEF UsbipInv, UsbipHostInv, UsbipTypeOK
<1>9. \A i \in 1 .. n : OrderlyCommand(commands[i]) /\ commands[i].seq \in 1 .. seqnum
  BY DEF UsbipInv, UsbipCommandInv, OrderlyCommand, n
<1>10. UsbipCommandInv'
  <2>1. u.seq \in 1 .. seqnum'
    BY <1>1, <1>2, <1>4
  <2>2. \A i \in 1 .. n + 1 : OrderlyCommand(commands[i])'
    <3> SUFFICES ASSUME NEW i \in 1 .. n + 1 PROVE OrderlyCommand(commands[i])'
      OBVIOUS
    <3>1. CASE i = n + 1
      BY <1>3, <1>4, <2>1, <3>1 DEF OrderlyCommand, FittingCommand, OrderlyRequest
    <3>2. CASE i \in 1 .. n
      <4>1. commands'[i] = commands[i] /\ OrderlyCommand(commands[i])
            /\ commands[i].seq \in 1 .. seqnum'
        BY <1>3, <1>5, <1>9, <3>2
      <4> QED BY <4>1 DEF OrderlyCommand
    <3> QED BY <1>6, <3>1, <3>2
  <2>3. \A i, j \in 1 .. n + 1 :
          /\ commands'[i].kind # "unlink" /\ commands'[j].kind # "unlink"
          /\ commands'[i].seq = commands'[j].seq
          => i = j
    BY <1>3, <1>5, <1>6, <1>9 DEF UsbipInv, UsbipCommandInv, n
  <2> QED BY <1>3, <2>2, <2>3 DEF UsbipCommandInv
<1>11. UsbipServerInv'
  <2> SUFFICES ASSUME server = "payload" PROVE UsbipServerInv'
    BY <1>1 DEF UsbipServerInv
  <2>1. /\ tries < Tries /\ urb \in UsbipCommand /\ OrderlyCommand(urb)
        /\ urb.kind = "out" /\ urb.seq \in 1 .. seqnum
        /\ \A i \in 1 .. n : commands[i].kind # "unlink" => commands[i].seq # urb.seq
        /\ \A i \in 1 .. Len(returns) :
              returns[i].type = "submit" => returns[i].seq # urb.seq
    BY DEF UsbipInv, UsbipServerInv, OrderlyCommand, n
  <2>2. \A i \in 1 .. n + 1 : commands'[i].kind # "unlink" => commands'[i].seq # urb.seq
    BY <1>3, <1>5, <1>6, <2>1
  <2>3. OrderlyCommand(urb)'
    BY <1>1, <1>5, <2>1 DEF OrderlyCommand
  <2> QED BY <1>1, <1>3, <2>1, <2>2, <2>3 DEF UsbipServerInv
<1>12. UsbipFraming'
  BY <1>1 DEF UsbipInv, UsbipFraming
<1>13. UsbipAnswerInv'
  <2>1. ASSUME NEW i \in 1 .. Len(returns), returns[i].type = "submit"
        PROVE  /\ returns[i].len <= returns[i].asked
               /\ returns[i].seq \in 1 .. seqnum'
               /\ \A k \in 1 .. n + 1 :
                     commands'[k].kind # "unlink" => commands'[k].seq # returns[i].seq
    <3>1. /\ returns[i].len <= returns[i].asked /\ returns[i].seq \in 1 .. seqnum
          /\ \A k \in 1 .. n :
                commands[k].kind # "unlink" => commands[k].seq # returns[i].seq
      BY <2>1 DEF UsbipInv, UsbipAnswerInv, n
    <3> QED BY <1>3, <1>5, <1>6, <3>1
  <2> QED BY <1>1, <1>3, <2>1 DEF UsbipInv, UsbipAnswerInv
<1>14. AbortExplained' /\ UsbipLengths'
  BY <1>1 DEF UsbipInv, AbortExplained, UsbipLengths
<1> QED BY <1>7, <1>10, <1>11, <1>12, <1>13, <1>14 DEF UsbipInv

\* The requests of enumeration and of the drivers are orderly.
LEMMA UsbipRequestsInv ==
    ASSUME UsbipInv,
           Enumerate \/ Control \/ Transfer
    PROVE  UsbipInv'
<1>1. CASE Enumerate
  <2>1. CASE Submit("device", 0, 18)
    <3>1. OrderlyRequest("device", 0, 18)
      BY DEF OrderlyRequest, UsbipKinds, ControlKinds, StandardRequests, Descriptors
    <3> QED BY <2>1, <3>1, UsbipSubmitInv
  <2>2. CASE Submit("config", 0, 9)
    <3>1. OrderlyRequest("config", 0, 9)
      BY DEF OrderlyRequest, UsbipKinds, ControlKinds, StandardRequests, Descriptors
    <3> QED BY <2>2, <3>1, UsbipSubmitInv
  <2>3. CASE Submit("config", 0, wTotalLength)
    <3>1. OrderlyRequest("config", 0, wTotalLength)
      BY ConfigLength DEF OrderlyRequest, UsbipKinds, ControlKinds, StandardRequests, Descriptors
    <3> QED BY <2>3, <3>1, UsbipSubmitInv
  <2>4. CASE Submit("set_configuration", 0, 0)
    <3>1. OrderlyRequest("set_configuration", 0, 0)
      BY DEF OrderlyRequest, UsbipKinds, ControlKinds, StandardRequests, Descriptors
    <3> QED BY <2>4, <3>1, UsbipSubmitInv
  <2> QED BY <1>1, <2>1, <2>2, <2>3, <2>4 DEF Enumerate
<1>2. CASE Control
  <2>1. PICK r \in Requests : Submit(r[1], 0, r[2])
    BY <1>2 DEF Control
  <2>2. /\ r[1] \in ControlKinds /\ r[2] \in Nat
        /\ r[1] = "get_status" => r[2] >= 2
        /\ r[1] = "device_status" => r[2] >= 4
    BY RequestsAssumption
  <2>3. r[1] \notin {"unlink", "out", "in", "event"}
    BY <2>2 DEF ControlKinds, StandardRequests, ClassRequests, Descriptors
  <2>4. OrderlyRequest(r[1], 0, r[2])
    BY <2>2, <2>3 DEF OrderlyRequest, UsbipKinds
  <2> QED BY <2>1, <2>4, UsbipSubmitInv
<1>3. CASE Transfer
  <2>0. endpoints \subseteq {2, 129, 131} /\ events \in 0 .. 1
    BY DEF UsbipInv, UsbipHostInv, UsbipTypeOK
  <2>1. PICK ep \in endpoints :
          \/ /\ ep < 128
             /\ \E len \in OutLengths : Submit("out", ep, len)
          \/ /\ ep = 129
             /\ Submit("in", ep, 3)
          \/ /\ ep > 129
             /\ Submit("event", ep, 1)
    BY <1>3 DEF Transfer
  <2>2. CASE ep < 128 /\ \E len \in OutLengths : Submit("out", ep, len)
    <3>1. PICK len \in OutLengths : Submit("out", ep, len)
      BY <2>2
    <3>2. len \in Nat /\ ep = 2
      BY <2>0, <2>2, UsbipAssumption
    <3>3. OrderlyRequest("out", ep, len)
      BY <3>2 DEF OrderlyRequest, UsbipKinds, ControlKinds, StandardRequests, Descriptors
    <3> QED BY <3>1, <3>3, UsbipSubmitInv
  <2>3. CASE ep = 129 /\ Submit("in", ep, 3)
    <3>1. OrderlyRequest("in", ep, 3)
      BY <2>3 DEF OrderlyRequest, UsbipKinds, ControlKinds, StandardRequests, Descriptors
    <3> QED BY <2>3, <3>1, UsbipSubmitInv
  <2>4. CASE ep > 129 /\ Submit("event", ep, 1)
    <3>1. ep = 131
      BY <2>0, <2>4
    <3>2. OrderlyRequest("event", ep, 1)
      BY <2>4, <3>1 DEF OrderlyRequest, UsbipKinds, ControlKinds, StandardRequests, Descriptors
    <3> QED BY <2>4, <3>2, UsbipSubmitInv
  <2> QED BY <2>1, <2>2, <2>3, <2>4
<1> QED BY <1>1, <1>2, <1>3

\* An URB that is given up: its own command is behind it or has been taken.
LEMMA UsbipUnlinkInv ==
    ASSUME UsbipInv, Unlink PROVE UsbipInv'
<1> DEFINE n == Len(commands)
<1>1. PICK u \in urbs :
        /\ commands' = Append(commands, [seq |-> u.seq, kind |-> "unlink",
                                         ep |-> u.seq, len |-> 0])
        /\ urbs' = urbs \ {u}
  BY DEF Unlink
<1> DEFINE c == [seq |-> u.seq, kind |-> "unlink", ep |-> u.seq, len |-> 0]
<1>2. /\ seqnum' = seqnum /\ stage' = stage /\ endpoints' = endpoints
      /\ expects' = expects /\ attached' = attached /\ arrived' = arrived
      /\ returns' = returns /\ server' = server /\ urb' = urb /\ read' = read
      /\ tries' = tries /\ events' = events /\ replies' = replies
  BY DEF Unlink, loop, camera
<1>3. /\ u.seq \in 1 .. seqnum /\ u.seq \in Nat /\ commands \in Seq(UsbipCommand)
      /\ n \in Nat
  BY DEF UsbipInv, UsbipHostInv, UsbipCommandInv, UsbipTypeOK
<1>4. c \in UsbipCommand /\ c.kind = "unlink" /\ c.seq = u.seq /\ c.ep = u.seq
  BY <1>3 DEF UsbipCommand, UsbipKinds
<1>5. /\ commands' \in Seq(UsbipCommand) /\ Len(commands') = n + 1
      /\ commands'[n + 1] = c /\ \A i \in 1 .. n : commands'[i] = commands[i]
  BY <1>1, <1>3, <1>4, AppendProperties
<1> HIDE DEF c
<1>6. \A i \in 1 .. n + 1 : i = n + 1 \/ i \in 1 .. n
  BY <1>3
<1> HIDE DEF n
<1>7. UsbipHostInv'
  BY <1>1, <1>2 DEF UsbipInv, UsbipHostInv, UsbipTypeOK
<1>8. UsbipCommandInv'
  <2>1. \A i \in 1 .. n + 1 : OrderlyCommand(commands[i])'
    <3> SUFFICES ASSUME NEW i \in 1 .. n + 1 PROVE OrderlyCommand(commands[i])'
      OBVIOUS
    <3>1. CASE i = n + 1
      BY <1>2, <1>3, <1>4, <1>5, <3>1 DEF OrderlyCommand, FittingCommand
    <3>2. CASE i \in 1 .. n
      <4>1. commands'[i] = commands[i] /\ OrderlyCommand(commands[i])
        BY <1>5, <3>2 DEF UsbipInv, UsbipCommandInv, n
      <4> QED BY <1>2, <4>1 DEF OrderlyCommand
    <3> QED BY <1>6, <3>1, <3>2
  <2>2. \A i \in 1 .. n + 1 : commands'[i].kind # "unlink"
          => i \in 1 .. n /\ commands'[i] = commands[i]
    BY <1>4, <1>5, <1>6
  <2>3. \A i, j \in 1 .. n + 1 :
          /\ commands'[i].kind # "unlink" /\ commands'[j].kind # "unlink"
          /\ commands'[i].seq = commands'[j].seq
          => i = j
    BY <2>2 DEF UsbipInv, UsbipCommandInv, n
  <2> QED BY <1>5, <2>1, <2>3 DEF UsbipCommandInv
<1>9. \A i \in 1 .. n + 1 : commands'[i].kind # "unlink"
         => i \in 1 .. n /\ commands'[i] = commands[i]
  BY <1>4, <1>5, <1>6
<1>10. UsbipServerInv'
  <2> SUFFICES ASSUME server = "payload" PROVE UsbipServerInv'
    BY <1>2 DEF UsbipServerInv
  <2>1. /\ tries < Tries /\ urb \in UsbipCommand /\ OrderlyCommand(urb)
        /\ urb.kind = "out"
        /\ \A i \in 1 .. n : commands[i].kind # "unlink" => commands[i].seq # urb.seq
        /\ \A i \in 1 .. Len(returns) :
              returns[i].type = "submit" => returns[i].seq # urb.seq
    BY DEF UsbipInv, UsbipServerInv, n
  <2>2. OrderlyCommand(urb)'
    BY <1>2, <2>1 DEF OrderlyCommand
  <2>3. \A i \in 1 .. n + 1 : commands'[i].kind # "unlink" => commands'[i].seq # urb.seq
    BY <1>9, <2>1
  <2> QED BY <1>2, <1>5, <2>1, <2>2, <2>3 DEF UsbipServerInv
<1>11. UsbipFraming'
  BY <1>2 DEF UsbipInv, UsbipFraming
<1>12. UsbipAnswerInv'
  BY <1>2, <1>5, <1>9 DEF UsbipInv, UsbipAnswerInv, n
<1>13. AbortExplained' /\ UsbipLengths'
  BY <1>2 DEF UsbipInv, AbortExplained, UsbipLengths
<1> QED BY <1>7, <1>8, <1>10, <1>11, <1>12, <1>13 DEF UsbipInv

\* The commands are as they were.
LEMMA UsbipCommandsSame ==
    ASSUME UsbipCommandInv, commands' = commands, seqnum' = seqnum
    PROVE  UsbipCommandInv'
<1>1. \A i \in 1 .. Len(commands) : OrderlyCommand(commands[i])'
  <2> SUFFICES ASSUME NEW i \in 1 .. Len(commands) PROVE OrderlyCommand(commands[i])'
    OBVIOUS
  <2>1. OrderlyCommand(commands[i])
    BY DEF UsbipCommandInv
  <2> QED BY <2>1 DEF OrderlyCommand
<1> QED BY <1>1 DEF UsbipCommandInv

\* The host reads an answer: the ends stay in step.
LEMMA UsbipReadInv ==
    ASSUME UsbipInv,
           HostReadsHeader \/ HostReadsData
    PROVE  UsbipInv'
<1> DEFINE n == Len(returns)
           a == returns[1]
<1>1. /\ returns # <<>> /\ returns' = Tail(returns) /\ urbs' \subseteq urbs
      /\ seqnum' = seqnum /\ commands' = commands
      /\ arrived' = arrived /\ server' = server /\ urb' = urb /\ read' = read
      /\ tries' = tries /\ events' = events /\ replies' = replies
  BY DEF HostReadsHeader, HostReadsData, loop, camera
<1>14. attached' \in BOOLEAN
  BY Zenon DEF HostReadsHeader, HostReadsData, UsbipInv, UsbipHostInv
<1>2. returns \in Seq(UsbipAnswer) /\ n \in Nat \ {0} /\ a \in UsbipAnswer
  <2>1. returns \in Seq(UsbipAnswer)
    BY DEF UsbipInv, UsbipFraming
  <2> QED BY <1>1, <2>1
<1>3. /\ returns' \in Seq(UsbipAnswer) /\ Len(returns') = n - 1
      /\ \A i \in 1 .. n - 1 : returns'[i] = returns[i + 1]
      /\ \A i \in 1 .. n - 1 : i + 1 \in 1 .. n /\ i + 1 # 1 /\ (i + 1) - 1 = i
  BY <1>1, <1>2, HeadTailProperties
<1>4. Head(returns) = a
  BY <1>1, <1>2
<1>5. expects' = IF Announces(a) THEN a.seq ELSE 0
  <2>1. CASE HostReadsHeader
    BY <1>4, <2>1 DEF HostReadsHeader, Announces
  <2>2. CASE HostReadsData
    <3>1. expects # 0 /\ expects' = 0
      BY <2>2 DEF HostReadsData
    <3>2. a.type = "data"
      BY <1>2, <3>1 DEF UsbipInv, UsbipFraming
    <3> QED BY <3>1, <3>2 DEF Announces
  <2> QED BY <2>1, <2>2
<1>6. Announces(a) => a.seq \in 1 .. seqnum
  BY <1>2 DEF UsbipInv, UsbipAnswerInv, Announces
<1>7. /\ stage' \in {"new", "device", "length", "config", "ready"}
      /\ endpoints' \subseteq {2, 129, 131}
  <2>0. /\ stage \in {"new", "device", "length", "config", "ready"}
        /\ endpoints \subseteq {2, 129, 131}
    BY DEF UsbipInv, UsbipHostInv, UsbipTypeOK
  <2>1. CASE HostReadsHeader
    <3> DEFINE mine == {u \in urbs : u.seq = a.seq /\ a.type = "submit"}
    <3>1. IF mine = {} THEN stage' = stage /\ endpoints' = endpoints
          ELSE \A u \in mine : Learn(u, a.len)
      BY <1>4, <2>1 DEF HostReadsHeader
    <3>2. CASE mine = {}
      BY <2>0, <3>1, <3>2
    <3>3. CASE mine # {}
      <4> HIDE DEF mine
      <4>1. PICK u \in mine : Learn(u, a.len)
        BY <3>1, <3>3
      <4>2. EndpointsIn(a.len) \subseteq {2, 129, 131}
        BY EndpointsKnown
      <4> HIDE DEF a
      <4>3. /\ stage' \in {"device", "config", "length", "ready", stage}
            /\ endpoints' \in {endpoints, EndpointsIn(a.len)}
        BY <4>1 DEF Learn
      <4> QED BY <2>0, <4>2, <4>3
    <3> QED BY <3>2, <3>3
  <2>2. CASE HostReadsData
    BY <2>0, <2>2 DEF HostReadsData
  <2> QED BY <2>1, <2>2
<1> HIDE DEF n, a
<1>8. UsbipHostInv'
  <2>1. expects' \in 0 .. seqnum /\ seqnum \in Nat
    BY <1>5, <1>6 DEF UsbipInv, UsbipHostInv
  <2> QED BY <1>1, <1>7, <1>14, <2>1 DEF UsbipInv, UsbipHostInv, UsbipTypeOK
<1>9. UsbipCommandInv'
  BY <1>1, UsbipCommandsSame DEF UsbipInv
<1>10. UsbipServerInv'
  <2> SUFFICES ASSUME server = "payload" PROVE UsbipServerInv'
    BY <1>1 DEF UsbipServerInv
  <2>1. /\ tries < Tries /\ urb \in UsbipCommand /\ OrderlyCommand(urb)
        /\ urb.kind = "out"
        /\ \A i \in 1 .. Len(commands) :
              commands[i].kind # "unlink" => commands[i].seq # urb.seq
        /\ \A i \in 1 .. n : returns[i].type = "submit" => returns[i].seq # urb.seq
    BY DEF UsbipInv, UsbipServerInv, n
  <2>2. OrderlyCommand(urb)'
    BY <1>1, <2>1 DEF OrderlyCommand
  <2>3. \A i \in 1 .. n - 1 : returns'[i].type = "submit" => returns'[i].seq # urb.seq
    BY <1>3, <2>1
  <2> QED BY <1>1, <1>3, <2>1, <2>2, <2>3 DEF UsbipServerInv
<1>11. UsbipFraming'
  <2>0. /\ ~Announces(returns[n])
        /\ \A i \in 1 .. n : returns[i].type = "data"
              <=> IF i = 1 THEN expects # 0 ELSE Announces(returns[i - 1])
    BY <1>1 DEF UsbipInv, UsbipFraming, n
  <2>1. returns' = <<>> => expects' = 0
    <3> SUFFICES ASSUME returns' = <<>> PROVE expects' = 0
      OBVIOUS
    <3>1. n = 1
      BY <1>2, <1>3
    <3> QED BY <1>5, <2>0, <3>1 DEF a
  <2>2. returns' # <<>> => ~Announces(returns'[Len(returns')])
    <3> SUFFICES ASSUME returns' # <<>> PROVE ~Announces(returns'[n - 1])
      BY <1>3
    <3>1. n - 1 \in 1 .. n - 1 /\ (n - 1) + 1 = n
      BY <1>2, <1>3
    <3> QED BY <1>3, <2>0, <3>1
  <2>3. ASSUME NEW i \in 1 .. n - 1
        PROVE  returns'[i].type = "data"
                  <=> IF i = 1 THEN expects' # 0 ELSE Announces(returns'[i - 1])
    <3>1. returns'[i].type = "data" <=> Announces(returns[i])
      BY <1>3, <2>0
    <3>2. CASE i = 1
      <4>1. expects' # 0 <=> Announces(a)
        BY <1>5, <1>6
      <4> QED BY <3>1, <3>2, <4>1 DEF a
    <3>3. CASE i # 1
      <4>1. i - 1 \in 1 .. n - 1 /\ (i - 1) + 1 = i
        BY <1>2, <3>3
      <4> QED BY <1>3, <3>1, <3>3, <4>1
    <3> QED BY <3>2, <3>3
  <2>4. \A i \in 1 .. Len(returns') : returns'[i].type = "data"
           <=> IF i = 1 THEN expects' # 0 ELSE Announces(returns'[i - 1])
    BY <1>3, <2>3
  <2> QED BY <1>3, <2>1, <2>2, <2>4 DEF UsbipFraming, Announces
<1>12. UsbipAnswerInv'
  <2>1. ASSUME NEW i \in 1 .. n - 1, returns'[i].type = "submit"
        PROVE  /\ returns'[i].len <= returns'[i].asked
               /\ returns'[i].seq \in 1 .. seqnum
               /\ \A k \in 1 .. Len(commands) :
                     commands[k].kind # "unlink" => commands[k].seq # returns'[i].seq
    <3>1. i + 1 \in 1 .. n /\ returns'[i] = returns[i + 1]
      BY <1>3
    <3> QED BY <2>1, <3>1 DEF UsbipInv, UsbipAnswerInv, n
  <2>2. ASSUME NEW i \in 1 .. n - 1, NEW j \in 1 .. n - 1,
               returns'[i].type = "submit", returns'[j].type = "submit",
               returns'[i].seq = returns'[j].seq
        PROVE  i = j
    <3>1. i + 1 = j + 1
      BY <1>3, <2>2 DEF UsbipInv, UsbipAnswerInv, n
    <3> QED BY <3>1
  <2> QED BY <1>1, <1>3, <2>1, <2>2 DEF UsbipAnswerInv
<1>13. AbortExplained'
  BY <1>1 DEF UsbipInv, AbortExplained
<1>15. UsbipLengths'
  BY <1>3 DEF UsbipInv, UsbipLengths, n
<1> QED BY <1>8, <1>9, <1>10, <1>11, <1>12, <1>13, <1>15 DEF UsbipInv

\* Data arriving, a detach, an event that becomes due, and nothing.
LEMMA UsbipQuietInv ==
    ASSUME UsbipInv,
           Arrive \/ Detach \/ EventDue \/ UNCHANGED usbip_vars
    PROVE  UsbipInv'
<1>1. /\ stage' = stage /\ endpoints' = endpoints /\ urbs' = urbs /\ seqnum' = seqnum
      /\ expects' = expects /\ commands' = commands /\ returns' = returns
      /\ server' = server /\ urb' = urb /\ read' = read /\ tries' = tries
      /\ replies' = replies
  BY DEF Arrive, Detach, EventDue, usbip_vars, host,
         socket, loop, camera
<1>2. UsbipHostInv'
  <2>0. /\ arrived \in Nat /\ read \in 0 .. arrived /\ events \in 0 .. 1
        /\ attached \in BOOLEAN
    BY DEF UsbipInv, UsbipHostInv, UsbipTypeOK
  <2>1. arrived' \in Nat /\ read \in 0 .. arrived'
    <3>1. CASE Arrive
      <4>1. arrived' \in arrived + 1 .. urb.len /\ urb.len \in Nat
        BY <3>1 DEF Arrive, UsbipInv, UsbipServerInv, UsbipCommand
      <4> QED BY <2>0, <4>1
    <3>2. CASE ~Arrive
      <4>1. arrived' = arrived
        BY <3>2 DEF Detach, EventDue, usbip_vars, socket
      <4> QED BY <2>0, <4>1
    <3> QED BY <3>1, <3>2
  <2>2. events' \in 0 .. 1 /\ attached' \in BOOLEAN
    <3>1. events' \in {1, events} /\ attached' \in {FALSE, attached}
      BY DEF Arrive, Detach, EventDue, usbip_vars,
             socket, camera
    <3>2. events' \in 0 .. 1
      BY <2>0, <3>1
    <3>3. attached' \in BOOLEAN
      BY <2>0, <3>1, Zenon
    <3> QED BY <3>2, <3>3
  <2> QED BY <1>1, <2>1, <2>2 DEF UsbipInv, UsbipHostInv, UsbipTypeOK
<1>3. UsbipCommandInv'
  BY <1>1, UsbipCommandsSame DEF UsbipInv
<1>4. UsbipServerInv'
  <2> SUFFICES ASSUME server = "payload" PROVE UsbipServerInv'
    BY <1>1 DEF UsbipServerInv
  <2>1. OrderlyCommand(urb)'
    BY <1>1 DEF UsbipInv, UsbipServerInv, OrderlyCommand
  <2> QED BY <1>1, <2>1 DEF UsbipInv, UsbipServerInv
<1>5. UsbipFraming' /\ UsbipAnswerInv' /\ UsbipLengths'
  BY <1>1 DEF UsbipInv, UsbipFraming, UsbipAnswerInv, UsbipLengths
<1>6. AbortExplained'
  BY <1>1 DEF UsbipInv, AbortExplained
<1> QED BY <1>2, <1>3, <1>4, <1>5, <1>6 DEF UsbipInv

\* The server takes the first command. The URB it names is in no other one and
\* has no answer yet.
LEMMA UsbipTake ==
    ASSUME UsbipInv, commands # <<>>, commands' = Tail(commands), seqnum' = seqnum
    PROVE  /\ Head(commands) \in UsbipCommand
           /\ OrderlyCommand(Head(commands))
           /\ UsbipCommandInv'
           /\ \A k \in 1 .. Len(commands') :
                 \E j \in 1 .. Len(commands) : commands'[k] = commands[j]
           /\ Head(commands).kind # "unlink" =>
                 /\ \A k \in 1 .. Len(commands') : commands'[k].kind # "unlink"
                       => commands'[k].seq # Head(commands).seq
                 /\ \A i \in 1 .. Len(returns) : returns[i].type = "submit"
                       => returns[i].seq # Head(commands).seq
<1> DEFINE n == Len(commands)
           u == Head(commands)
<1>1. commands \in Seq(UsbipCommand) /\ n \in Nat \ {0} /\ u = commands[1]
      /\ 1 \in 1 .. n
  <2>1. commands \in Seq(UsbipCommand)
    BY DEF UsbipInv, UsbipCommandInv
  <2> QED BY <2>1
<1>2. /\ commands' \in Seq(UsbipCommand) /\ Len(commands') = n - 1
      /\ \A k \in 1 .. n - 1 : commands'[k] = commands[k + 1]
  BY <1>1, HeadTailProperties
<1> HIDE DEF n, u
<1>3. \A k \in 1 .. n - 1 : k + 1 \in 1 .. n /\ k + 1 # 1
  BY <1>1
<1>4. /\ \A i \in 1 .. n : OrderlyCommand(commands[i])
      /\ \A i, j \in 1 .. n :
            /\ commands[i].kind # "unlink" /\ commands[j].kind # "unlink"
            /\ commands[i].seq = commands[j].seq
            => i = j
  BY DEF UsbipInv, UsbipCommandInv, n
<1>5. u \in UsbipCommand /\ OrderlyCommand(u)
  <2>1. commands[1] \in UsbipCommand
    BY <1>1 DEF n
  <2> QED BY <1>1, <1>4, <2>1
<1>6. UsbipCommandInv'
  <2>0. ASSUME NEW k \in 1 .. Len(commands')
        PROVE  commands'[k] = commands[k + 1] /\ k + 1 \in 1 .. n /\ k + 1 # 1
    <3>1. k \in 1 .. n - 1
      BY <1>2
    <3> QED BY <1>2, <1>3, <3>1
  <2>1. ASSUME NEW k \in 1 .. Len(commands') PROVE OrderlyCommand(commands[k])'
    <3>1. commands'[k] = commands[k + 1] /\ OrderlyCommand(commands[k + 1])
      BY <1>4, <2>0
    <3> QED BY <3>1 DEF OrderlyCommand
  <2>2. ASSUME NEW i \in 1 .. Len(commands'), NEW j \in 1 .. Len(commands'),
               /\ commands'[i].kind # "unlink" /\ commands'[j].kind # "unlink"
               /\ commands'[i].seq = commands'[j].seq
        PROVE  i = j
    <3>1. i + 1 = j + 1
      BY <1>4, <2>0, <2>2
    <3> QED BY <3>1
  <2>5. commands' \in Seq(UsbipCommand)
    BY <1>2
  <2> QED BY <2>1, <2>2, <2>5, Zenon DEF UsbipCommandInv
<1>7. \A k \in 1 .. n - 1 : \E j \in 1 .. n : commands'[k] = commands[j]
  BY <1>2, <1>3
<1>8. ASSUME u.kind # "unlink"
      PROVE  /\ \A k \in 1 .. n - 1 : commands'[k].kind # "unlink"
                   => commands'[k].seq # u.seq
             /\ \A i \in 1 .. Len(returns) : returns[i].type = "submit"
                   => returns[i].seq # u.seq
  <2>1. \A k \in 1 .. n - 1 : commands'[k].kind # "unlink" => commands'[k].seq # u.seq
    BY <1>1, <1>2, <1>3, <1>4, <1>8
  <2>2. \A i \in 1 .. Len(returns) : returns[i].type = "submit"
           => returns[i].seq # u.seq
    BY <1>1, <1>8 DEF UsbipInv, UsbipAnswerInv, n
  <2> QED BY <2>1, <2>2
<1> QED BY <1>2, <1>5, <1>6, <1>7, <1>8 DEF n, u

\* An answer, with the data it announces, for an URB that has none yet.
LEMMA UsbipSendInv ==
    ASSUME UsbipFraming, UsbipAnswerInv, UsbipLengths,
           seqnum' = seqnum, expects' = expects,
           NEW u \in UsbipCommand, NEW in \in BOOLEAN, NEW len \in Int,
           len < 0 => len = GP_ERROR_TIMEOUT,
           len <= u.len, u.seq \in 1 .. seqnum, Send(u, in, len),
           \A k \in 1 .. Len(commands') :
              \E j \in 1 .. Len(commands) : commands'[k] = commands[j],
           \A k \in 1 .. Len(commands') :
              commands'[k].kind # "unlink" => commands'[k].seq # u.seq,
           \A i \in 1 .. Len(returns) :
              returns[i].type = "submit" => returns[i].seq # u.seq
    PROVE  UsbipFraming' /\ UsbipAnswerInv' /\ UsbipLengths'
<1> DEFINE n == Len(returns)
           h == [type |-> "submit", seq |-> u.seq, in |-> in, len |-> len,
                 asked |-> u.len]
           t == IF len > 0 THEN "data" ELSE "garbage"
           d == [type |-> t, seq |-> u.seq, in |-> TRUE, len |-> len]
           m == Len(returns')
<1>1. /\ returns \in Seq(UsbipAnswer) /\ n \in Nat
      /\ u.seq \in Nat /\ u.len \in Nat
  BY DEF UsbipFraming, UsbipCommand
<1>2. h \in UsbipAnswer /\ d \in UsbipAnswer
  BY <1>1 DEF UsbipAnswer
<1>3. /\ h.type = "submit" /\ h.seq = u.seq /\ h.len = len /\ h.asked = u.len
      /\ Announces(h) <=> in /\ len > 0
      /\ d.type = (IF len > 0 THEN "data" ELSE "garbage") /\ d.len = len
      /\ ~Announces(d)
  BY DEF Announces
<1>4. \/ returns' = returns \o <<h, d>> /\ in /\ len # 0
      \/ returns' = Append(returns, h) /\ ~Announces(h)
  <2>1. \/ in /\ len > 0 /\ returns' = returns \o <<h, Body("data", u, len)>>
        \/ ~(in /\ len > 0) /\ returns' = Append(returns, h)
        \/ in /\ len < 0 /\ returns' = returns \o <<h, Body("garbage", u, len)>>
    BY Zenon DEF Send, RetSubmit
  <2>2. (len > 0 => t = "data") /\ (len < 0 => t = "garbage") /\ d = Body(t, u, len)
    BY DEF Body
  <2> HIDE DEF h, t, d
  <2>3. CASE in /\ len > 0 /\ returns' = returns \o <<h, Body("data", u, len)>>
    <3>1. d = Body("data", u, len) /\ len # 0
      BY <2>2, <2>3
    <3> QED BY <2>3, <3>1, Zenon
  <2>4. CASE ~(in /\ len > 0) /\ returns' = Append(returns, h)
    <3>1. ~Announces(h)
      BY <1>3, <2>4, Zenon
    <3> QED BY <2>4, <3>1, Zenon
  <2>5. CASE in /\ len < 0 /\ returns' = returns \o <<h, Body("garbage", u, len)>>
    <3>1. d = Body("garbage", u, len) /\ len # 0
      BY <2>2, <2>5
    <3> QED BY <2>5, <3>1, Zenon
  <2> QED BY <2>1, <2>3, <2>4, <2>5, Zenon
<1> DEFINE two == returns' = returns \o <<h, d>> /\ in /\ len # 0
<1> HIDE DEF h, d
<1>5. /\ returns' \in Seq(UsbipAnswer)
      /\ \A i \in 1 .. n : returns'[i] = returns[i]
      /\ returns'[n + 1] = h
      /\ \/ two /\ m = n + 2 /\ returns'[n + 2] = d
         \/ m = n + 1 /\ ~Announces(h)
  <2>1. CASE two
    <3>1. /\ returns \o <<h, d>> \in Seq(UsbipAnswer)
          /\ Len(returns \o <<h, d>>) = Len(returns) + 2
          /\ \A i \in 1 .. Len(returns) : (returns \o <<h, d>>)[i] = returns[i]
          /\ (returns \o <<h, d>>)[Len(returns) + 1] = h
          /\ (returns \o <<h, d>>)[Len(returns) + 2] = d
      <4>1. returns \in Seq(UsbipAnswer)
        BY <1>1
      <4> QED BY <1>2, <4>1, ConcatPair
    <3> QED BY <2>1, <3>1
  <2>2. CASE ~two
    <3>1. returns' = Append(returns, h) /\ ~Announces(h)
      BY <1>4, <2>2, Zenon
    <3> QED BY <1>1, <1>2, <3>1, AppendProperties
  <2> QED BY <2>1, <2>2
<1> HIDE DEF n, m, two
<1>6. \A i \in 1 .. m :
         i \in 1 .. n \/ i = n + 1 \/ (i = n + 2 /\ two /\ returns'[n + 2] = d)
  BY <1>1, <1>5
<1>7. m = Len(returns') /\ n + 1 \in 1 .. m /\ returns' # <<>>
  <2>1. m = Len(returns') /\ n + 1 \in 1 .. m
    BY <1>1, <1>5 DEF m
  <2> QED BY <1>1, <2>1
<1>8. UsbipFraming'
  <2>0. /\ n = 0 => expects = 0
        /\ n # 0 => ~Announces(returns[n])
        /\ \A i \in 1 .. n : returns[i].type = "data"
              <=> IF i = 1 THEN expects # 0 ELSE Announces(returns[i - 1])
    BY <1>1 DEF UsbipFraming, n
  <2>1. ~Announces(returns'[m])
    BY <1>3, <1>5
  <2>2. ASSUME NEW i \in 1 .. m
        PROVE  returns'[i].type = "data"
                  <=> IF i = 1 THEN expects # 0 ELSE Announces(returns'[i - 1])
    <3>1. CASE i \in 1 .. n
      <4>1. i # 1 => i - 1 \in 1 .. n
        BY <1>1, <3>1
      <4> QED BY <1>5, <2>0, <3>1, <4>1
    <3>2. CASE i = n + 1
      <4>1. returns'[i].type # "data"
        BY <1>3, <1>5, <3>2
      <4>2. CASE n = 0
        BY <2>0, <3>2, <4>1, <4>2
      <4>3. CASE n # 0
        <5>1. i # 1 /\ i - 1 = n /\ n \in 1 .. n
          BY <1>1, <3>2, <4>3
        <5> QED BY <1>5, <2>0, <4>1, <4>3, <5>1
      <4> QED BY <4>2, <4>3
    <3>3. CASE i = n + 2 /\ two /\ returns'[n + 2] = d
      <4>1. i # 1 /\ i - 1 = n + 1
        BY <1>1, <3>3
      <4>2. returns'[i].type = "data" <=> len > 0
        BY <1>3, <3>3
      <4>3. Announces(returns'[n + 1]) <=> len > 0
        BY <1>3, <1>5, <3>3 DEF two
      <4> QED BY <4>1, <4>2, <4>3
    <3> QED BY <1>6, <3>1, <3>2, <3>3
  <2> QED BY <1>5, <1>7, <2>1, <2>2 DEF UsbipFraming, Announces
<1>11. UsbipLengths'
  <2> SUFFICES ASSUME NEW i \in 1 .. m,
                      returns'[i].type = "garbage" \/ returns'[i].len < 0
               PROVE  returns'[i].len = GP_ERROR_TIMEOUT
    BY <1>7 DEF UsbipLengths
  <2>1. CASE i \in 1 .. n
    BY <1>5, <2>1 DEF UsbipLengths, n
  <2>2. CASE i = n + 1
    BY <1>3, <1>5, <2>2
  <2>3. CASE i = n + 2 /\ two /\ returns'[n + 2] = d
    <3>1. len # 0 /\ (d.type = "garbage" => len < 0)
      BY <1>3, <2>3 DEF two
    <3> QED BY <1>3, <2>3, <3>1
  <2> QED BY <1>6, <2>1, <2>2, <2>3
<1>9. \A i \in 1 .. m : returns'[i].type = "submit" =>
         \/ i \in 1 .. n /\ returns'[i] = returns[i]
         \/ i = n + 1 /\ returns'[i] = h
  BY <1>3, <1>5, <1>6
<1>10. UsbipAnswerInv'
  <2>1. ASSUME NEW i \in 1 .. m, returns'[i].type = "submit"
        PROVE  /\ returns'[i].len <= returns'[i].asked
               /\ returns'[i].seq \in 1 .. seqnum
               /\ \A k \in 1 .. Len(commands') :
                     commands'[k].kind # "unlink" => commands'[k].seq # returns'[i].seq
    <3>1. CASE i \in 1 .. n /\ returns'[i] = returns[i]
      <4>1. /\ returns[i].len <= returns[i].asked /\ returns[i].seq \in 1 .. seqnum
            /\ \A k \in 1 .. Len(commands) :
                  commands[k].kind # "unlink" => commands[k].seq # returns[i].seq
        BY <2>1, <3>1 DEF UsbipAnswerInv, n
      <4> QED BY <3>1, <4>1
    <3>2. CASE i = n + 1 /\ returns'[i] = h
      BY <1>3, <3>2
    <3> QED BY <1>9, <2>1, <3>1, <3>2
  <2>2. ASSUME NEW i \in 1 .. m, NEW j \in 1 .. m,
               returns'[i].type = "submit", returns'[j].type = "submit",
               returns'[i].seq = returns'[j].seq
        PROVE  i = j
    <3>1. CASE i \in 1 .. n /\ returns'[i] = returns[i]
               /\ j \in 1 .. n /\ returns'[j] = returns[j]
      BY <2>2, <3>1 DEF UsbipAnswerInv, n
    <3>2. CASE i = n + 1 /\ j = n + 1
      BY <3>2
    <3>3. CASE i = n + 1 /\ returns'[i] = h /\ j \in 1 .. n /\ returns'[j] = returns[j]
      BY <1>3, <2>2, <3>3 DEF n
    <3>4. CASE j = n + 1 /\ returns'[j] = h /\ i \in 1 .. n /\ returns'[i] = returns[i]
      BY <1>3, <2>2, <3>4 DEF n
    <3> QED BY <1>9, <2>2, <3>1, <3>2, <3>3, <3>4
  <2> QED BY <1>7, <2>1, <2>2 DEF UsbipAnswerInv
<1> QED BY <1>8, <1>10, <1>11

\* What a step of the server leaves of the host's state and of the URB it reads.
LEMMA UsbipRest ==
    ASSUME UsbipInv, stage' = stage, endpoints' = endpoints, urbs' = urbs,
           seqnum' = seqnum, expects' = expects, attached' = attached,
           server' \in {"recv", "payload", "exit", "abort"},
           arrived' \in Nat, read' \in 0 .. arrived', tries' \in 0 .. Tries,
           events' \in 0 .. 1, replies' \in 0 .. 2
    PROVE  UsbipHostInv'
<1>1. UsbipHostInv /\ UsbipTypeOK
  BY DEF UsbipInv, UsbipHostInv
<1>2. UsbipTypeOK'
  BY <1>1 DEF UsbipTypeOK
<1> QED BY <1>1, <1>2 DEF UsbipHostInv

\* What the device makes of a control request: an answer that fits, an error, or
\* abort(). A request that carries data is never answered with data.
LEMMA ControlAnswer ==
    ASSUME NEW kind \in ControlKinds, NEW len \in Nat,
           kind = "get_status" => len >= 2,
           kind = "device_status" => len >= 4
    PROVE  /\ \/ handle_control(kind, len) \in {ABORT, -1}
              \/ handle_control(kind, len) \in 0 .. len
           /\ kind \in OutRequests /\ handle_control(kind, len) >= 0
                 => handle_control(kind, len) = 0
<1> DEFINE rc == handle_control(kind, len)
<1> SUFFICES /\ rc \in {ABORT, -1} \/ rc \in 0 .. len
             /\ kind \in OutRequests /\ rc >= 0 => rc = 0
  BY Zenon
<1>1. CASE kind \in Descriptors
  <2>1. rc \in {ABORT, -1, 0, len}
    BY <1>1 DEF handle_control, get_desc, Descriptors, ABORT
  <2>2. kind \notin OutRequests
    BY <1>1 DEF Descriptors, OutRequests
  <2> HIDE DEF rc
  <2> QED BY <2>1, <2>2
<1>2. CASE kind \in {"set_configuration", "cancel", "event_data", "reset"}
  <2>1. rc = 0
    BY <1>2 DEF handle_control, Descriptors, ABORT
  <2> HIDE DEF rc
  <2> QED BY <1>2, <2>1 DEF ABORT
<1>3. CASE kind = "get_status"
  <2>1. rc = 2 /\ kind \notin OutRequests
    BY <1>3 DEF handle_control, Descriptors, ABORT, OutRequests
  <2> HIDE DEF rc
  <2> QED BY <1>3, <2>1 DEF ABORT
<1>4. CASE kind = "device_status"
  <2>1. rc = 4 /\ kind \notin OutRequests
    BY <1>4 DEF handle_control, Descriptors, ABORT, OutRequests
  <2> HIDE DEF rc
  <2> QED BY <1>4, <2>1 DEF ABORT
<1>5. CASE kind \in {"get_interface", "set_interface"}
  <2>1. rc = -1
    BY <1>5 DEF handle_control, Descriptors, ABORT
  <2> HIDE DEF rc
  <2> QED BY <1>5, <2>1 DEF ABORT
<1>6. CASE kind \in {"get_configuration", "clear_feature"}
  <2>1. rc = ABORT
    BY <1>6 DEF handle_control, Descriptors, ABORT
  <2> HIDE DEF rc
  <2> QED BY <1>6, <2>1 DEF ABORT
<1> QED BY <1>1, <1>2, <1>3, <1>4, <1>5, <1>6
        DEF ControlKinds, StandardRequests, ClassRequests

\* A control request is answered with what was asked for, ends the server, or is
\* one that the device does not handle.
LEMMA UsbipControlInv ==
    ASSUME UsbipInv, SubmitControl PROVE UsbipInv'
<1> DEFINE u == Head(commands)
           rc == handle_control(u.kind, u.len)
           in == u.kind \notin OutRequests
<1>1. /\ server = "recv" /\ commands # <<>> /\ u.kind \in ControlKinds
      /\ commands' = Tail(commands) /\ stage' = stage /\ endpoints' = endpoints
      /\ urbs' = urbs /\ seqnum' = seqnum /\ expects' = expects
      /\ attached' = attached /\ arrived' = arrived /\ read' = read
      /\ tries' = tries /\ events' = events /\ replies' = replies
  BY DEF SubmitControl, First, Taken, host, camera
<1>2. /\ u \in UsbipCommand /\ OrderlyCommand(u) /\ UsbipCommandInv'
      /\ \A k \in 1 .. Len(commands') :
            \E j \in 1 .. Len(commands) : commands'[k] = commands[j]
      /\ u.kind # "unlink" =>
            /\ \A k \in 1 .. Len(commands') : commands'[k].kind # "unlink"
                  => commands'[k].seq # u.seq
            /\ \A i \in 1 .. Len(returns) : returns[i].type = "submit"
                  => returns[i].seq # u.seq
  BY <1>1, UsbipTake
<1>3. u.kind # "unlink"
  BY <1>1 DEF ControlKinds, StandardRequests, ClassRequests, Descriptors
<1>7. /\ u.len \in Nat /\ u.seq \in 1 .. seqnum
      /\ u.kind = "get_status" => u.len >= 2
      /\ u.kind = "device_status" => u.len >= 4
  BY <1>2 DEF UsbipCommand, OrderlyCommand, FittingCommand
<1>8. /\ rc \in {ABORT, -1} \/ rc \in 0 .. u.len
      /\ u.kind \in OutRequests /\ rc >= 0 => rc = 0
  BY <1>1, <1>7, ControlAnswer, Zenon
<1>9. ~DoublePhase(u, rc) \/ rc < 0
  <2> HIDE DEF rc, u
  <2> QED BY <1>7, <1>8 DEF DoublePhase, ABORT
<1>10. \/ rc = ABORT /\ server' = "abort" /\ urb' = u /\ returns' = returns
       \/ rc = -1 /\ server' = "exit" /\ urb' = urb /\ returns' = returns
       \/ /\ rc \in 0 .. u.len /\ Send(u, in, rc)
          /\ server' = server /\ urb' = urb
  <2>1. CASE rc = ABORT
    BY <2>1 DEF SubmitControl
  <2>2. CASE rc = -1
    BY <2>2 DEF SubmitControl, ABORT
  <2>3. CASE rc \in 0 .. u.len
    <3>1. rc # ABORT /\ ~(rc < 0) /\ ~DoublePhase(u, rc)
      <4> HIDE DEF rc, u
      <4> QED BY <1>7, <1>9, <2>3 DEF ABORT
    <3> QED BY <2>3, <3>1 DEF SubmitControl
  <2> QED BY <1>8, <2>1, <2>2, <2>3
<1> HIDE DEF u, in
<1>4. UsbipHostInv'
  <2>1. /\ arrived \in Nat /\ read \in 0 .. arrived /\ tries \in 0 .. Tries
        /\ events \in 0 .. 1 /\ replies \in 0 .. 2
    BY DEF UsbipInv, UsbipHostInv, UsbipTypeOK
  <2>2. server' \in {"recv", "payload", "exit", "abort"}
    BY <1>1, <1>10
  <2> QED BY <1>1, <2>1, <2>2, UsbipRest
<1>5. UsbipServerInv' /\ AbortExplained'
  <2>1. server' # "payload" /\ (server' = "abort" => rc = ABORT /\ urb' = u)
    BY <1>1, <1>10
  <2>2. UsbipServerInv'
    BY <2>1 DEF UsbipServerInv
  <2>3. AbortExplained'
    BY <1>1, <2>1 DEF AbortExplained
  <2> QED BY <2>2, <2>3
<1>6. UsbipFraming' /\ UsbipAnswerInv' /\ UsbipLengths'
  <2>1. CASE returns' = returns
    <3>2. \A i \in 1 .. Len(returns) : returns[i].type = "submit" =>
             \A k \in 1 .. Len(commands') :
                commands'[k].kind # "unlink" => commands'[k].seq # returns[i].seq
      BY <1>2 DEF UsbipInv, UsbipAnswerInv
    <3>3. UsbipFraming' /\ UsbipLengths'
      BY <1>1, <2>1 DEF UsbipInv, UsbipFraming, UsbipLengths
    <3>4. UsbipAnswerInv'
      BY <1>1, <2>1, <3>2 DEF UsbipInv, UsbipAnswerInv
    <3> QED BY <3>3, <3>4
  <2>2. CASE rc \in 0 .. u.len /\ Send(u, in, rc)
    <3> HIDE DEF rc
    <3>1. in \in BOOLEAN
      BY DEF in
    <3>2. rc \in Int /\ rc <= u.len /\ (rc < 0 => rc = GP_ERROR_TIMEOUT)
      BY <1>7, <2>2
    <3>3. UsbipFraming /\ UsbipAnswerInv /\ UsbipLengths
      BY DEF UsbipInv
    <3> QED BY <1>1, <1>2, <1>3, <1>7, <2>2, <3>1, <3>2, <3>3, UsbipSendInv
  <2> QED BY <1>10, <2>1, <2>2, Zenon
<1> QED BY <1>2, <1>4, <1>5, <1>6 DEF UsbipInv

\* An IN transfer is answered with what there is, or with a timeout for a length,
\* and never aborts the server.
LEMMA UsbipInInv ==
    ASSUME UsbipInv, SubmitIn PROVE UsbipInv'
<1> DEFINE u == Head(commands)
           rc == handle_bulk(u.ep, u.len)
<1>1. /\ server = "recv" /\ commands # <<>> /\ u.kind \in {"in", "event"}
      /\ commands' = Tail(commands) /\ stage' = stage /\ endpoints' = endpoints
      /\ urbs' = urbs /\ seqnum' = seqnum /\ expects' = expects
      /\ attached' = attached /\ arrived' = arrived /\ urb' = urb /\ read' = read
      /\ tries' = tries
      /\ IF rc = -1 THEN returns' = returns ELSE Send(u, TRUE, rc)
      /\ server' = (IF u.ep \in {129, 131} THEN server ELSE "abort")
      /\ events' = (IF u.ep = 131 /\ rc > 0 THEN 0 ELSE events)
      /\ replies' = IF u.ep = 129 THEN replies - rc ELSE replies
  BY DEF SubmitIn, First, Taken, host, Unanswered,
         NoResponse
<1>2. /\ commands \in Seq(UsbipCommand) /\ u = commands[1]
      /\ OrderlyCommand(u) /\ u \in UsbipCommand
  <2>1. commands \in Seq(UsbipCommand) /\ 1 \in 1 .. Len(commands) /\ u = commands[1]
    BY <1>1 DEF UsbipInv, UsbipCommandInv
  <2> QED BY <2>1 DEF UsbipInv, UsbipCommandInv
<1>3. /\ u.len \in Nat /\ u.seq \in 1 .. seqnum
      /\ u.kind = "in" => u.ep = 129
      /\ u.kind = "event" => u.ep = 131 /\ u.len = 1
  BY <1>2 DEF UsbipCommand, OrderlyCommand, FittingCommand
<1>0. /\ arrived \in Nat /\ read \in 0 .. arrived /\ tries \in 0 .. Tries
      /\ events \in 0 .. 1 /\ replies \in 0 .. 2
  BY DEF UsbipInv, UsbipHostInv, UsbipTypeOK
<1> HIDE DEF u
<1>4. /\ rc \in Int /\ rc # -1 /\ (rc < 0 => rc = GP_ERROR_TIMEOUT)
      /\ rc <= u.len /\ server' = "recv"
      /\ events' \in 0 .. 1 /\ replies' \in 0 .. 2
  <2>1. CASE u.kind = "in"
    <3>1. u.ep = 129
      BY <1>3, <2>1
    <3>2. rc = IF replies < u.len THEN replies ELSE u.len
      BY <3>1 DEF handle_bulk
    <3> HIDE DEF rc
    <3> QED BY <1>0, <1>1, <1>3, <3>1, <3>2
  <2>2. CASE u.kind = "event"
    <3>1. u.ep = 131 /\ u.len = 1
      BY <1>2, <1>3, <2>2
    <3>2. rc = IF events > 0 THEN 1 ELSE GP_ERROR_TIMEOUT
      BY <3>1 DEF handle_bulk
    <3> HIDE DEF rc
    <3> QED BY <1>0, <1>1, <1>3, <2>2, <3>1, <3>2 DEF GP_ERROR_TIMEOUT
  <2> QED BY <1>1, <2>1, <2>2
<1> HIDE DEF rc
<1>5. /\ UsbipCommandInv'
      /\ \A k \in 1 .. Len(commands') :
            \E j \in 1 .. Len(commands) : commands'[k] = commands[j]
      /\ \A k \in 1 .. Len(commands') : commands'[k].kind # "unlink"
            => commands'[k].seq # u.seq
      /\ \A i \in 1 .. Len(returns) : returns[i].type = "submit"
            => returns[i].seq # u.seq
  <2>1. Head(commands).kind # "unlink"
    BY <1>1 DEF u
  <2> QED BY <1>1, <2>1, UsbipTake DEF u
<1>6. UsbipHostInv'
  BY <1>0, <1>1, <1>4, UsbipRest
<1>7. UsbipServerInv' /\ AbortExplained'
  BY <1>4 DEF UsbipServerInv, AbortExplained
<1>8. UsbipFraming' /\ UsbipAnswerInv' /\ UsbipLengths'
  <2>1. Send(u, TRUE, rc) /\ TRUE \in BOOLEAN
    BY <1>1, <1>4, Zenon
  <2>2. UsbipFraming /\ UsbipAnswerInv /\ UsbipLengths
    BY DEF UsbipInv
  <2> QED BY <1>1, <1>2, <1>3, <1>4, <1>5, <2>1, <2>2, UsbipSendInv
<1> QED BY <1>5, <1>6, <1>7, <1>8 DEF UsbipInv

\* The server begins to read the data of an OUT transfer.
LEMMA UsbipOutInv ==
    ASSUME UsbipInv, SubmitOut PROVE UsbipInv'
<1> DEFINE u == Head(commands)
<1>1. /\ server = "recv" /\ commands # <<>> /\ u.kind = "out"
      /\ commands' = Tail(commands) /\ stage' = stage /\ endpoints' = endpoints
      /\ urbs' = urbs /\ seqnum' = seqnum /\ expects' = expects
      /\ attached' = attached /\ arrived' = 0 /\ urb' = u /\ read' = 0
      /\ tries' = 0 /\ events' = events /\ replies' = replies
      /\ returns' = returns /\ server' = "payload"
  BY DEF SubmitOut, First, host, camera
<1>2. /\ u \in UsbipCommand /\ OrderlyCommand(u) /\ UsbipCommandInv'
      /\ \A k \in 1 .. Len(commands') :
            \E j \in 1 .. Len(commands) : commands'[k] = commands[j]
      /\ \A k \in 1 .. Len(commands') : commands'[k].kind # "unlink"
            => commands'[k].seq # u.seq
      /\ \A i \in 1 .. Len(returns) : returns[i].type = "submit"
            => returns[i].seq # u.seq
  <2>1. Head(commands).kind # "unlink"
    BY <1>1
  <2> QED BY <1>1, <2>1, UsbipTake
<1> HIDE DEF u
<1>3. UsbipHostInv'
  <2>1. /\ events' \in 0 .. 1 /\ replies' \in 0 .. 2 /\ Tries \in Nat
    BY <1>1, UsbipAssumption DEF UsbipInv, UsbipHostInv, UsbipTypeOK
  <2>2. arrived' \in Nat /\ read' \in 0 .. arrived' /\ tries' \in 0 .. Tries
    BY <1>1, <2>1
  <2>3. server' \in {"recv", "payload", "exit", "abort"}
    BY <1>1
  <2> QED BY <1>1, <2>1, <2>2, <2>3, UsbipRest
<1>4. UsbipServerInv'
  <2>1. tries' < Tries
    BY <1>1, UsbipAssumption
  <2>2. OrderlyCommand(urb)'
    BY <1>1, <1>2 DEF OrderlyCommand
  <2>3. /\ urb' \in UsbipCommand /\ urb'.kind = "out"
        /\ \A k \in 1 .. Len(commands') : commands'[k].kind # "unlink"
              => commands'[k].seq # urb'.seq
        /\ \A i \in 1 .. Len(returns') : returns'[i].type = "submit"
              => returns'[i].seq # urb'.seq
    BY <1>1, <1>2
  <2> QED BY <2>1, <2>2, <2>3 DEF UsbipServerInv
<1>5. UsbipFraming' /\ UsbipAnswerInv' /\ UsbipLengths'
  <2>1. \A i \in 1 .. Len(returns) : returns[i].type = "submit" =>
           \A k \in 1 .. Len(commands') :
              commands'[k].kind # "unlink" => commands'[k].seq # returns[i].seq
    BY <1>2 DEF UsbipInv, UsbipAnswerInv
  <2>2. UsbipFraming' /\ UsbipLengths'
    BY <1>1 DEF UsbipInv, UsbipFraming, UsbipLengths
  <2>3. UsbipAnswerInv'
    BY <1>1, <2>1 DEF UsbipInv, UsbipAnswerInv
  <2> QED BY <2>2, <2>3
<1>6. AbortExplained'
  BY <1>1 DEF AbortExplained
<1> QED BY <1>2, <1>3, <1>4, <1>5, <1>6 DEF UsbipInv

\* The data of an OUT transfer: complete, out of tries, or more to come.
LEMMA UsbipPayloadInv ==
    ASSUME UsbipInv, RecvPayload PROVE UsbipInv'
<1>1. /\ server = "payload"
      /\ stage' = stage /\ endpoints' = endpoints /\ urbs' = urbs
      /\ seqnum' = seqnum /\ expects' = expects /\ attached' = attached
      /\ commands' = commands /\ events' = events /\ tries' = tries + 1
  BY DEF RecvPayload, host
<1>2. \/ /\ arrived = urb.len
         /\ server' = (IF urb.ep = 2 THEN "recv" ELSE "abort")
         /\ Send(urb, FALSE, urb.len)
         /\ replies' = (IF replies = 0 THEN 2 ELSE replies)
         /\ arrived' = 0 /\ read' = 0
      \/ /\ arrived # urb.len /\ tries + 1 = Tries
         /\ server' = "abort" /\ returns' = returns /\ replies' = replies
         /\ urb' = urb /\ arrived' = arrived /\ read' = arrived
      \/ /\ arrived # urb.len /\ tries + 1 # Tries
         /\ server' = server /\ returns' = returns /\ replies' = replies
         /\ urb' = urb /\ arrived' = arrived /\ read' = arrived
  BY DEF RecvPayload, Complete
<1>3. /\ tries < Tries /\ urb \in UsbipCommand /\ OrderlyCommand(urb)
      /\ urb.kind = "out" /\ urb.ep = 2 /\ urb.seq \in 1 .. seqnum /\ urb.len \in Nat
      /\ \A i \in 1 .. Len(commands) :
            commands[i].kind # "unlink" => commands[i].seq # urb.seq
      /\ \A i \in 1 .. Len(returns) :
            returns[i].type = "submit" => returns[i].seq # urb.seq
  BY <1>1 DEF UsbipInv, UsbipServerInv, OrderlyCommand, FittingCommand, UsbipCommand
<1>4. /\ arrived \in Nat /\ tries \in 0 .. Tries /\ Tries \in Nat /\ events \in 0 .. 1
      /\ replies \in 0 .. 2
  BY UsbipAssumption DEF UsbipInv, UsbipHostInv, UsbipTypeOK
<1>5. tries' \in 0 .. Tries
  BY <1>1, <1>3, <1>4
<1>6. UsbipHostInv'
  <2>0. /\ (arrived' = 0 /\ read' = 0) \/ (arrived' = arrived /\ read' = arrived)
        /\ replies' = 2 \/ replies' = replies
    BY <1>2, Zenon
  <2>1. arrived' \in Nat /\ read' \in 0 .. arrived'
    BY <1>4, <2>0
  <2>2. replies' \in 0 .. 2
    BY <1>4, <2>0
  <2>3. server' \in {"recv", "payload", "exit", "abort"}
    BY <1>1, <1>2
  <2> QED BY <1>1, <1>4, <1>5, <2>1, <2>2, <2>3, UsbipRest
<1>7. UsbipCommandInv'
  BY <1>1, UsbipCommandsSame DEF UsbipInv
<1>8. CASE /\ arrived = urb.len
           /\ server' = (IF urb.ep = 2 THEN "recv" ELSE "abort")
           /\ Send(urb, FALSE, urb.len)
  <2>1. server' = "recv"
    BY <1>3, <1>8
  <2>2. UsbipServerInv' /\ AbortExplained'
    BY <2>1 DEF UsbipServerInv, AbortExplained
  <2>3. UsbipFraming' /\ UsbipAnswerInv' /\ UsbipLengths'
    <3>1. /\ UsbipFraming /\ UsbipAnswerInv /\ UsbipLengths
          /\ FALSE \in BOOLEAN /\ urb.len <= urb.len /\ urb.len \in Int
          /\ ~(urb.len < 0)
      BY <1>3 DEF UsbipInv
    <3>2. \A k \in 1 .. Len(commands') :
             \E j \in 1 .. Len(commands) : commands'[k] = commands[j]
      BY <1>1
    <3> QED BY <1>1, <1>3, <1>8, <3>1, <3>2, UsbipSendInv
  <2> QED BY <1>6, <1>7, <2>2, <2>3 DEF UsbipInv
<1>9. CASE /\ returns' = returns /\ urb' = urb
           /\ arrived # urb.len /\ read' = arrived
           /\ \/ server' = "abort" /\ tries + 1 = Tries
              \/ server' = server /\ tries + 1 # Tries
  <2>1. UsbipFraming' /\ UsbipAnswerInv' /\ UsbipLengths'
    BY <1>1, <1>9 DEF UsbipInv, UsbipFraming, UsbipAnswerInv, UsbipLengths
  <2>2. AbortExplained'
    <3>1. server' = "abort" => urb'.kind = "out" /\ tries' = Tries
      BY <1>1, <1>3, <1>9
    <3>3. read' # urb'.len
      BY <1>9
    <3> QED BY <3>1, <3>3 DEF AbortExplained
  <2>3. UsbipServerInv'
    <3> SUFFICES ASSUME server' = "payload" PROVE UsbipServerInv'
      BY DEF UsbipServerInv
    <3>1. tries' < Tries
      BY <1>1, <1>3, <1>4, <1>9
    <3>2. OrderlyCommand(urb)'
      BY <1>1, <1>3, <1>9 DEF OrderlyCommand
    <3> QED BY <1>1, <1>3, <1>9, <3>1, <3>2 DEF UsbipServerInv
  <2> QED BY <1>6, <1>7, <2>1, <2>2, <2>3 DEF UsbipInv
<1> QED BY <1>2, <1>8, <1>9, Zenon

\* The answer to an unlink is no answer to an URB.
LEMMA UsbipUnlinkAnswerInv ==
    ASSUME UsbipInv, UnlinkAnswer PROVE UsbipInv'
<1> DEFINE n == Len(returns)
           r == [type |-> "unlink", seq |-> Head(commands).ep, in |-> FALSE, len |-> 0]
<1>1. /\ server = "recv" /\ commands # <<>>
      /\ commands' = Tail(commands) /\ stage' = stage /\ endpoints' = endpoints
      /\ urbs' = urbs /\ seqnum' = seqnum /\ expects' = expects
      /\ attached' = attached /\ arrived' = arrived /\ urb' = urb /\ read' = read
      /\ tries' = tries /\ events' = events /\ replies' = replies
      /\ server' = server /\ returns' = Append(returns, r)
  BY DEF UnlinkAnswer, First, Taken, RetUnlink, host,
         loop, camera
<1>2. /\ Head(commands) \in UsbipCommand /\ UsbipCommandInv'
      /\ \A k \in 1 .. Len(commands') :
            \E j \in 1 .. Len(commands) : commands'[k] = commands[j]
  BY <1>1, UsbipTake
<1>3. /\ r \in UsbipAnswer /\ r.type = "unlink" /\ ~Announces(r)
  BY <1>2 DEF UsbipAnswer, UsbipCommand, Announces
<1>4. returns \in Seq(UsbipAnswer) /\ n \in Nat
  BY DEF UsbipInv, UsbipFraming
<1>5. /\ returns' \in Seq(UsbipAnswer) /\ Len(returns') = n + 1
      /\ returns'[n + 1] = r /\ \A i \in 1 .. n : returns'[i] = returns[i]
  BY <1>1, <1>3, <1>4, AppendProperties
<1>6. \A i \in 1 .. n + 1 : i = n + 1 \/ i \in 1 .. n
  BY <1>4
<1>7. UsbipHostInv'
  <2>1. /\ arrived \in Nat /\ read \in 0 .. arrived /\ tries \in 0 .. Tries
        /\ events \in 0 .. 1 /\ replies \in 0 .. 2
        /\ server \in {"recv", "payload", "exit", "abort"}
    BY DEF UsbipInv, UsbipHostInv, UsbipTypeOK
  <2> QED BY <1>1, <2>1, UsbipRest
<1>8. UsbipServerInv' /\ AbortExplained'
  BY <1>1 DEF UsbipServerInv, AbortExplained
<1>11. UsbipLengths'
  <2> SUFFICES ASSUME NEW i \in 1 .. n + 1,
                      returns'[i].type = "garbage" \/ returns'[i].len < 0
               PROVE  returns'[i].len = GP_ERROR_TIMEOUT
    BY <1>5 DEF UsbipLengths
  <2>1. i # n + 1
    BY <1>5
  <2> QED BY <1>5, <1>6, <2>1 DEF UsbipInv, UsbipLengths
<1>9. UsbipFraming'
  <2>0. /\ n = 0 => expects = 0
        /\ n # 0 => ~Announces(returns[n])
        /\ \A i \in 1 .. n : returns[i].type = "data"
              <=> IF i = 1 THEN expects # 0 ELSE Announces(returns[i - 1])
    BY <1>4 DEF UsbipInv, UsbipFraming
  <2> HIDE DEF n, r
  <2>1. ~Announces(returns'[Len(returns')]) /\ returns' # <<>>
    BY <1>3, <1>4, <1>5
  <2>2. ASSUME NEW i \in 1 .. Len(returns')
        PROVE  returns'[i].type = "data"
                  <=> IF i = 1 THEN expects # 0 ELSE Announces(returns'[i - 1])
    <3>0. i \in 1 .. n + 1
      BY <1>5
    <3>1. CASE i \in 1 .. n
      <4>1. i # 1 => i - 1 \in 1 .. n
        BY <1>4, <3>1
      <4> QED BY <1>5, <2>0, <3>1, <4>1
    <3>2. CASE i = n + 1
      <4>1. returns'[i].type # "data"
        BY <1>3, <1>5, <3>2
      <4>2. CASE n = 0
        BY <2>0, <3>2, <4>1, <4>2
      <4>3. CASE n # 0
        <5>1. i # 1 /\ i - 1 = n /\ n \in 1 .. n
          BY <1>4, <3>2, <4>3
        <5> QED BY <1>5, <2>0, <4>1, <4>3, <5>1
      <4> QED BY <4>2, <4>3
    <3> QED BY <1>6, <3>0, <3>1, <3>2
  <2>3. returns' \in Seq(UsbipAnswer) /\ expects' = expects
    BY <1>1, <1>5
  <2> QED BY <2>1, <2>2, <2>3 DEF UsbipFraming, Announces
<1>10. UsbipAnswerInv'
  <2> HIDE DEF n, r
  <2>1. ASSUME NEW i \in 1 .. Len(returns'), returns'[i].type = "submit"
        PROVE  i \in 1 .. n /\ returns'[i] = returns[i]
    BY <1>3, <1>5, <1>6, <2>1
  <2>2. ASSUME NEW i \in 1 .. Len(returns'), returns'[i].type = "submit"
        PROVE  /\ returns'[i].len <= returns'[i].asked
               /\ returns'[i].seq \in 1 .. seqnum
               /\ \A k \in 1 .. Len(commands') :
                     commands'[k].kind # "unlink" => commands'[k].seq # returns'[i].seq
    <3>1. i \in 1 .. n /\ returns'[i] = returns[i] /\ returns[i].type = "submit"
      BY <2>1, <2>2
    <3>2. /\ returns[i].len <= returns[i].asked /\ returns[i].seq \in 1 .. seqnum
          /\ \A k \in 1 .. Len(commands) :
                commands[k].kind # "unlink" => commands[k].seq # returns[i].seq
      BY <3>1 DEF UsbipInv, UsbipAnswerInv, n
    <3> QED BY <1>2, <3>1, <3>2
  <2>3. ASSUME NEW i \in 1 .. Len(returns'), NEW j \in 1 .. Len(returns'),
               /\ returns'[i].type = "submit" /\ returns'[j].type = "submit"
               /\ returns'[i].seq = returns'[j].seq
        PROVE  i = j
    BY <2>1, <2>3 DEF UsbipInv, UsbipAnswerInv, n
  <2>4. seqnum' = seqnum
    BY <1>1
  <2> QED BY <2>2, <2>3, <2>4 DEF UsbipAnswerInv
<1> QED BY <1>2, <1>7, <1>8, <1>9, <1>10, <1>11 DEF UsbipInv

\* For any control requests, transfers, polls, unlinks and detaches of a host:
\* both ends of the USB/IP connection agree where an answer begins until a poll
\* finds no event, no URB is answered twice, and the process aborts only on a
\* request the device does not handle or on data that comes in too many pieces.
THEOREM UsbipConnectionSound == UsbipSpec => []UsbipSound
<1>1. UsbipInit => UsbipInv
  BY UsbipInitInv
<1>2. UsbipInv /\ [UsbipNext]_usbip_vars => UsbipInv'
  <2> SUFFICES ASSUME UsbipInv, [UsbipNext]_usbip_vars PROVE UsbipInv'
    OBVIOUS
  <2>1. CASE HostStep
    BY <2>1, UsbipRequestsInv, UsbipUnlinkInv, UsbipReadInv, UsbipQuietInv
       DEF HostStep
  <2>2. CASE ServerStep
    BY <2>2, UsbipControlInv, UsbipInInv, UsbipOutInv, UsbipPayloadInv,
       UsbipUnlinkAnswerInv DEF ServerStep
  <2>3. CASE UNCHANGED usbip_vars
    BY <2>3, UsbipQuietInv
  <2> QED BY <2>1, <2>2, <2>3 DEF UsbipNext
<1>3. UsbipInv => UsbipSound
  <2> SUFFICES ASSUME UsbipInv PROVE UsbipSound
    OBVIOUS
  <2>1. returns \in Seq(UsbipAnswer) /\ DOMAIN returns = 1 .. Len(returns)
        /\ DOMAIN commands = 1 .. Len(commands)
    BY DEF UsbipInv, UsbipFraming, UsbipCommandInv
  <2>2. InStep
    <3>1. ASSUME returns # <<>>
          PROVE  (expects # 0) = (Head(returns).type = "data")
      <4>1. Head(returns) = returns[1] /\ 1 \in 1 .. Len(returns)
        BY <2>1, <3>1
      <4> QED BY <4>1 DEF UsbipInv, UsbipFraming
    <3>2. \A i \in DOMAIN returns :
            /\ returns[i].type = "submit" => returns[i].len <= returns[i].asked
            /\ returns[i].type = "garbage" \/ returns[i].len < 0
                  => returns[i].len = GP_ERROR_TIMEOUT
      BY <2>1 DEF UsbipInv, UsbipAnswerInv, UsbipLengths
    <3> QED BY <3>1, <3>2 DEF InStep
  <2>3. AnsweredOnce
    BY <2>1 DEF UsbipInv, UsbipAnswerInv, AnsweredOnce
  <2> QED BY <2>2, <2>3 DEF UsbipInv, UsbipHostInv, UsbipSound
<1> QED BY <1>1, <1>2, <1>3, PTL DEF UsbipSpec

=============================================================================
