----------------------------- MODULE LibusbAsync -----------------------------
(***************************************************************************)
(* The drop-in libusb library (usb/libusb.c): asynchronous transfers. The  *)
(* client (libgphoto2) keeps a pool of interrupt transfers submitted, and  *)
(* they are served, one poll of the camera's event list at a time, while   *)
(* it waits inside libusb_handle_events(). Completion callbacks run in the *)
(* middle of the walk over the pending list and change that list.          *)
(*                                                                         *)
(* pending is the linked list; the walk's pointer pp is the number of      *)
(* entries before it: pp = 0 is &pending_list, pp = k is &e->next of the   *)
(* k-th entry e. cb is the stack of running callbacks. The camera's events *)
(* are numbered by trigger time (event list: module EventQueue).           *)
(*                                                                         *)
(* A client of kind "pool" does in callbacks what the comment on           *)
(* finish_entry allows: re-submit or free the finished transfer; it        *)
(* re-submits interrupt transfers that completed, and cancels the rest     *)
(* when it closes the port. A client of kind "free" also cancels other     *)
(* transfers from a callback and re-submits bulk transfers from there.     *)
(***************************************************************************)
EXTENDS Integers, Sequences, SequencesExt

CONSTANTS
    EventTransfers,  \* interrupt transfers on endpoint 0x83
    BulkTransfers,   \* transfers a poll completes at once: bulk, interrupt OUT
    Timeouts,        \* timeouts of transfers and calls; 0 is none
    Triggers,        \* triggers[n]: the time event n falls due, in order
    Second,          \* microseconds per second
    Bare,            \* cap of a wait without a timeout, 500 ms
    MaxTime          \* bound: clock

ASSUME ConstantsAssumption ==
    /\ EventTransfers \cap BulkTransfers = {}
    /\ Timeouts \subseteq Nat
    /\ Triggers \in Seq(Nat)
    /\ \A i, j \in 1..Len(Triggers) : i < j => Triggers[i] <= Triggers[j]
    /\ Second \in Nat \ {0}
    /\ Bare \in 1..Second
    /\ MaxTime \in Nat
    /\ \A n \in Timeouts : n < MaxTime

Transfers == EventTransfers \cup BulkTransfers

VARIABLES
    client,   \* the kind of client
    now,      \* the clock, in microseconds
    popped,   \* number of events taken from the event list
    handle,   \* the device handle: "open", "closing" (client's view) or "none"
    alive,    \* allocated transfers
    pending,  \* pending_list
    call,     \* the blocking call in progress and its local variables
    cb,       \* running callbacks, innermost last
    state,    \* client's view: state or last completion status of a transfer
    got       \* history: events handed to the client, in order

vars == <<client, now, popped, handle, alive, pending, call, cb, state, got>>

world == <<client, now, handle>>

Statuses == {"completed", "timed_out", "cancelled"}

NoCall == [op |-> "none"]

-----------------------------------------------------------------------------
(* struct timeval *)

Timeval(n) == [sec |-> n \div Second, usec |-> n % Second]

\* The carry is taken when the sum exceeds a second, not when it reaches it.
Carry(tv) ==
    IF tv.usec > Second THEN [sec |-> tv.sec + 1, usec |-> tv.usec - Second]
                        ELSE tv

tv_add_ms(tv, n) ==
    Carry([sec |-> tv.sec + (n \div Second), usec |-> tv.usec + (n % Second)])

tv_le(a, b) ==
    IF a.sec # b.sec THEN a.sec < b.sec ELSE a.usec <= b.usec

-----------------------------------------------------------------------------
(* Submitting, finishing and cancelling *)

Listed == {pending[i].t : i \in DOMAIN pending}

\* Entries are pushed at the head: a walk that stands at the head meets them.
Push(t, timeout) ==
    /\ pending' = <<[t |-> t, timed |-> timeout > 0,
                     deadline |-> IF timeout > 0 THEN tv_add_ms(Timeval(now), timeout)
                                  ELSE Timeval(0)]>> \o pending
    /\ call' = IF call.op = "walk" /\ call.pp > 0 THEN [call EXCEPT !.pp = @ + 1]
               ELSE call
    /\ state' = [state EXCEPT ![t] = "pending"]

\* Between calls, by the client; a pending transfer is not submitted again.
libusb_submit_transfer(t, timeout) ==
    /\ call.op = "none" /\ cb = <<>>
    /\ handle = "open"
    /\ t \in alive /\ state[t] # "pending"
    /\ now + timeout < MaxTime
    /\ Push(t, timeout)
    /\ UNCHANGED <<world, popped, alive, cb, got>>

libusb_alloc_transfer(t) ==
    /\ call.op = "none" /\ cb = <<>>
    /\ handle = "open"
    /\ t \notin alive
    /\ alive' = alive \cup {t}
    /\ state' = [state EXCEPT ![t] = "idle"]
    /\ UNCHANGED <<world, popped, pending, call, cb, got>>

\* Unlink the entry, set the status, run the callback.
Finish(i, status) ==
    /\ pending' = RemoveAt(pending, i)
    /\ state' = [state EXCEPT ![pending[i].t] = status]
    /\ cb' = Append(cb, pending[i].t)

\* What cancelling entry i does to the walk's pointer: it dangles when it
\* points into the entry that is freed.
PointerAfterCancel(i) ==
    IF call.op # "walk" THEN call
    ELSE IF i = call.pp THEN [op |-> "dangling"]
    ELSE IF i < call.pp THEN [call EXCEPT !.pp = @ - 1] ELSE call

\* Mutant: a transfer that is not at the head is reported without unlinking.
libusb_cancel_transfer_head_only(t) ==
    /\ \/ call.op = "none" /\ cb = <<>>
       \/ client = "free" /\ cb # <<>>
    /\ handle # "none"
    /\ t \in Listed
    /\ pending' = IF Head(pending).t = t THEN Tail(pending) ELSE pending
    /\ state' = [state EXCEPT ![t] = "cancelled"]
    /\ cb' = Append(cb, t)
    /\ UNCHANGED <<world, popped, alive, call, got>>

\* The callback is called before the function returns. The client cancels
\* between calls, and one of kind "free" from callbacks too.
libusb_cancel_transfer(t) ==
    /\ \/ call.op = "none" /\ cb = <<>>
       \/ client = "free" /\ cb # <<>>
    /\ handle # "none"
    /\ \E i \in DOMAIN pending :
        /\ pending[i].t = t
        /\ \A j \in 1..(i - 1) : pending[j].t # t
        /\ Finish(i, "cancelled")
        /\ call' = PointerAfterCancel(i)
    /\ UNCHANGED <<world, popped, alive, got>>

-----------------------------------------------------------------------------
(* The client's callbacks *)

Running == Last(cb)

CallbackReturns ==
    /\ cb # <<>>
    /\ cb' = Front(cb)
    /\ UNCHANGED <<world, popped, alive, pending, call, state, got>>

CallbackResubmits(timeout) ==
    /\ cb # <<>>
    /\ state[Running] = "completed"
    /\ handle = "open"
    /\ client = "free" \/ Running \in EventTransfers
    /\ now + timeout < MaxTime
    /\ Push(Running, timeout)
    /\ cb' = Front(cb)
    /\ UNCHANGED <<world, popped, alive, got>>

CallbackFrees ==
    /\ cb # <<>>
    /\ state[Running] \in Statuses
    /\ alive' = alive \ {Running}
    /\ state' = [state EXCEPT ![Running] = "none"]
    /\ cb' = Front(cb)
    /\ UNCHANGED <<world, popped, pending, call, got>>

-----------------------------------------------------------------------------
(* Waiting for completions *)

\* timeout is the tv argument; Bare for libusb_handle_events().
handle_events_impl(timeout, bare) ==
    /\ call.op = "none" /\ cb = <<>>
    /\ now + timeout < MaxTime
    /\ call' = [op |-> "round", bare |-> bare, progressed |-> FALSE,
                deadline |-> LET a == Timeval(now)
                                 b == Timeval(timeout)
                             IN  Carry([sec |-> a.sec + b.sec, usec |-> a.usec + b.usec])]
    /\ UNCHANGED <<world, popped, alive, pending, cb, state, got>>

\* Mutant: the outer deadline is not looked at while transfers are pending.
Round_no_deadline ==
    /\ call.op = "round" /\ cb = <<>>
    /\ call' = IF pending = <<>> THEN NoCall
               ELSE [op |-> "walk", bare |-> call.bare, progressed |-> FALSE,
                     deadline |-> call.deadline, pp |-> 0]
    /\ UNCHANGED <<world, popped, alive, pending, cb, state, got>>

\* The top of the outer loop: return, or start a walk at the head.
Round ==
    /\ call.op = "round" /\ cb = <<>>
    /\ call' = IF pending = <<>> \/ ~tv_le(Timeval(now), call.deadline) THEN NoCall
               ELSE [op |-> "walk", bare |-> call.bare, progressed |-> FALSE,
                     deadline |-> call.deadline, pp |-> 0]
    /\ UNCHANGED <<world, popped, alive, pending, cb, state, got>>

\* Events whose trigger time has passed are served (external: vcam_readint).
Due == popped < Len(Triggers) /\ Triggers[popped + 1] <= now

Pop ==
    /\ popped' = popped + 1
    /\ got' = Append(got, popped + 1)

Walking == call.op = "walk" /\ cb = <<>> /\ call.pp < Len(pending)

Entry == pending[call.pp + 1]

Expired(e) == e.timed /\ tv_le(e.deadline, Timeval(now))

WalkTimeout ==
    /\ Walking
    /\ Expired(Entry)
    /\ Finish(call.pp + 1, "timed_out")
    /\ call' = [call EXCEPT !.progressed = TRUE]
    /\ UNCHANGED <<world, popped, alive, got>>

\* Mutant: the walk goes on from the finished entry, which is freed.
WalkComplete_stays ==
    /\ Walking
    /\ ~Expired(Entry)
    /\ \/ Entry.t \in EventTransfers /\ Due /\ Pop
       \/ Entry.t \in BulkTransfers /\ UNCHANGED <<popped, got>>
    /\ Finish(call.pp + 1, "completed")
    /\ call' = [op |-> "dangling"]
    /\ UNCHANGED <<world, alive>>

\* handle_bulk: endpoint 0x83 gives an event or nothing, others answer at once.
WalkComplete ==
    /\ Walking
    /\ ~Expired(Entry)
    /\ \/ Entry.t \in EventTransfers /\ Due /\ Pop
       \/ Entry.t \in BulkTransfers /\ UNCHANGED <<popped, got>>
    /\ Finish(call.pp + 1, "completed")
    /\ call' = [call EXCEPT !.progressed = TRUE]
    /\ UNCHANGED <<world, alive>>

WalkNext ==
    /\ Walking
    /\ ~Expired(Entry)
    /\ Entry.t \in EventTransfers
    /\ ~Due
    /\ call' = [call EXCEPT !.pp = @ + 1]
    /\ UNCHANGED <<world, popped, alive, pending, cb, state, got>>

\* A bare wait returns after a round with results.
WalkEnd ==
    /\ call.op = "walk" /\ cb = <<>>
    /\ call.pp = Len(pending)
    /\ call' = IF call.bare /\ call.progressed THEN NoCall
               ELSE [op |-> "round", bare |-> call.bare, progressed |-> call.progressed,
                     deadline |-> call.deadline]
    /\ UNCHANGED <<world, popped, alive, pending, cb, state, got>>

-----------------------------------------------------------------------------
(* The synchronous read of endpoint 0x83, opening and closing, time *)

libusb_interrupt_transfer(timeout) ==
    /\ call.op = "none" /\ cb = <<>>
    /\ handle = "open"
    /\ now + timeout < MaxTime
    /\ call' = [op |-> "irq", timed |-> timeout > 0,
                deadline |-> tv_add_ms(Timeval(now), timeout)]
    /\ UNCHANGED <<world, popped, alive, pending, cb, state, got>>

\* The event list is polled before the clock is looked at.
InterruptPoll ==
    /\ call.op = "irq"
    /\ \/ Due /\ Pop
       \/ ~Due /\ Expired(call) /\ UNCHANGED <<popped, got>>
    /\ call' = NoCall
    /\ UNCHANGED <<world, alive, pending, cb, state>>

libusb_open ==
    /\ handle = "none"
    /\ call.op = "none"
    /\ handle' = "open"
    /\ UNCHANGED <<client, now, popped, alive, pending, call, cb, state, got>>

\* The client starts to close the port: from now on it only cancels.
ClosePort ==
    /\ handle = "open"
    /\ call.op = "none" /\ cb = <<>>
    /\ handle' = "closing"
    /\ UNCHANGED <<client, now, popped, alive, pending, call, cb, state, got>>

\* Once every transfer it submitted was reported back, it closes the handle
\* and frees what is left of the pool.
libusb_close ==
    /\ handle = "closing"
    /\ call.op = "none" /\ cb = <<>>
    /\ \A t \in Transfers : state[t] # "pending"
    /\ handle' = "none"
    /\ alive' = {}
    /\ state' = [t \in Transfers |-> "none"]
    /\ UNCHANGED <<client, now, popped, pending, call, cb, got>>

Tick ==
    /\ now < MaxTime
    /\ now' = now + 1
    /\ UNCHANGED <<client, popped, handle, alive, pending, call, cb, state, got>>

-----------------------------------------------------------------------------

Init ==
    /\ client \in {"pool", "free"}
    /\ now = 0
    /\ popped = 0
    /\ handle = "none"
    /\ alive = {}
    /\ pending = <<>>
    /\ call = NoCall
    /\ cb = <<>>
    /\ state = [t \in Transfers |-> "none"]
    /\ got = <<>>

WalkStep == Round \/ WalkTimeout \/ WalkComplete \/ WalkNext \/ WalkEnd

CallbackStep ==
    \/ CallbackReturns
    \/ \E n \in Timeouts : CallbackResubmits(n)
    \/ CallbackFrees

Next ==
    \/ \E t \in Transfers :
        \/ libusb_alloc_transfer(t)
        \/ libusb_cancel_transfer(t)
        \/ \E n \in Timeouts : libusb_submit_transfer(t, n)
    \/ CallbackStep
    \/ \E n \in Timeouts : handle_events_impl(n, FALSE) \/ libusb_interrupt_transfer(n)
    \/ handle_events_impl(Bare, TRUE)
    \/ WalkStep
    \/ InterruptPoll
    \/ libusb_open \/ ClosePort \/ libusb_close
    \/ Tick

\* The library runs its loops without waiting for anyone, callbacks return and
\* the clock advances.
Spec ==
    /\ Init /\ [][Next]_vars
    /\ WF_vars(WalkStep) /\ WF_vars(CallbackStep) /\ WF_vars(InterruptPoll)
    /\ WF_vars(Tick)

-----------------------------------------------------------------------------

\* Types of the list, the walk and the client's view.
TypeOK ==
    /\ now \in 0..MaxTime
    /\ popped \in 0..Len(Triggers)
    /\ handle \in {"none", "open", "closing"}
    /\ alive \subseteq Transfers
    /\ \A i \in DOMAIN pending : pending[i].t \in Transfers
    /\ call.op \in {"none", "round", "walk", "irq", "dangling"}
    /\ call.op = "walk" => call.pp \in 0..Len(pending)
    /\ \A i \in DOMAIN cb : cb[i] \in Transfers
    /\ state \in [Transfers -> {"none", "idle", "pending"} \cup Statuses]

\* What the client believes to be outstanding is what the list holds, each
\* transfer once: a submission is reported back exactly once, and a transfer
\* whose callback runs is out of the list (comment on finish_entry).
ListedOnce ==
    /\ Listed = {t \in Transfers : state[t] = "pending"}
    /\ \A i, j \in DOMAIN pending : i # j => pending[i].t # pending[j].t

\* With callbacks that only re-submit or free their own transfer, the walk
\* never follows a pointer into a freed entry.
WalkSafe == client = "pool" => call.op # "dangling"

\* No freed transfer is in the list and no transfer is once the port is
\* closed: a pool that was cancelled is gone (comment on libusb_cancel_transfer).
NothingStale ==
    /\ Listed \subseteq alive
    /\ handle = "none" => pending = <<>>

\* No event is lost, served twice or served out of order, whichever transfers
\* time out, are cancelled or re-submitted while events fall due.
EventsAllServed == got = [n \in 1..popped |-> n]

\* A transfer is reported as timed out only if it has a timeout, and not before
\* that time has passed.
TimeoutsAreReal ==
    [][\A t \in Transfers :
         state[t] = "pending" /\ state'[t] = "timed_out" =>
            \E e \in Range(pending) :
                /\ e.t = t
                /\ e.timed
                /\ e.deadline.sec * Second + e.deadline.usec <= now]_vars

\* A wait for completions ends, whatever the callbacks of a pool do: each
\* re-submission needs another event.
WaitReturns == (call.op \in {"round", "walk"} /\ client = "pool") ~> call.op = "none"

\* The pending list is sound at every moment, in particular while callbacks
\* cancel, free and submit transfers during the walk.
PendingSound == TypeOK /\ ListedOnce /\ WalkSafe

\* No cancelled or freed transfer stays behind, and no event is taken from the
\* camera without a transfer to bring it to the client.
NothingLost == NothingStale /\ EventsAllServed

\* Timeouts are kept: none is reported early, and a wait for events returns.
WaitKept == TimeoutsAreReal /\ WaitReturns

=============================================================================
